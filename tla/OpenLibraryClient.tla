-------------------------- MODULE OpenLibraryClient --------------------------
(***************************************************************************)
(* OpenLibraryClient._rate_limited_get: every client object spaces its     *)
(* requests to Open Library, retries timeouts, 429 and 5xx answers with a  *)
(* pause, and gives up after MaxAttempts. Each reading-list request and    *)
(* each ingestion run has a client of its own, so several are alive at     *)
(* once; one client serves one call at a time (the semaphore, and callers  *)
(* that await every call).                                                 *)
(*                                                                         *)
(* Time is counted in ticks; the clock itself is not kept, only what is    *)
(* left to sleep and how long ago the last request was sent. Client marks  *)
(* the names that the callers' modules have as well.                       *)
(***************************************************************************)
EXTENDS Naturals

CONSTANTS Clients,      \* client objects
          MaxAttempts,  \* MAX_RETRIES
          Interval,     \* ticks between requests: 1 / OL_RATE_LIMIT_RPS
          Second,       \* ticks in a second of backoff
          MaxRetryAfter \* bound: seconds a Retry-After header asks for

ASSUME CountsAssumption == MaxAttempts \in Nat \ {0} /\ Interval \in Nat \ {0}
ASSUME TicksAssumption == Second \in Nat \ {0} /\ MaxRetryAfter \in Nat

VARIABLES call,      \* idle, pace, send, sent, pause, and how the call ended
          attempt,   \* the loop variable
          sleep,     \* ticks left of asyncio.sleep
          since,     \* ticks since _last_request_time, up to Interval
          quiet      \* history: ticks since any client sent a request, likewise

clientVars == <<call, attempt, sleep, since, quiet>>

Ended == {"response", "OpenLibraryError", "otherError"}
PCs == {"idle", "pace", "send", "sent", "pause"} \cup Ended

Goto(c, label) == call' = [call EXCEPT ![c] = label]
Upto(n, bound) == IF n < bound THEN n ELSE bound

ClientInit == /\ call = [c \in Clients |-> "idle"]
              /\ attempt = [c \in Clients |-> 0]
              /\ sleep = [c \in Clients |-> 0]
              /\ since = [c \in Clients |-> Interval]
              /\ quiet = Interval

\* A service method awaits the next request.
Call(c) == /\ call[c] \in {"idle"} \cup Ended
           /\ attempt' = [attempt EXCEPT ![c] = 0]
           /\ Goto(c, "pace")
           /\ UNCHANGED <<sleep, since, quiet>>

\* Wrong variant: only the first attempt is paced.
PaceFirstAttemptOnly(c) ==
  /\ call[c] = "pace"
  /\ sleep' = [sleep EXCEPT ![c] = IF attempt[c] = 0 THEN Interval - since[c] ELSE 0]
  /\ Goto(c, "send")
  /\ UNCHANGED <<attempt, since, quiet>>

\* The rate limit: sleep for what is missing to the interval.
Pace(c) == /\ call[c] = "pace"
           /\ sleep' = [sleep EXCEPT ![c] = Interval - since[c]]
           /\ Goto(c, "send")
           /\ UNCHANGED <<attempt, since, quiet>>

\* The time is noted before the request goes out.
Send(c) == /\ call[c] = "send" /\ sleep[c] = 0
           /\ since' = [since EXCEPT ![c] = 0]
           /\ quiet' = 0
           /\ Goto(c, "sent")
           /\ UNCHANGED <<attempt, sleep>>

LastAttempt(c) == attempt[c] = MaxAttempts - 1

Pause(c, seconds) == /\ sleep' = [sleep EXCEPT ![c] = seconds * Second]
                     /\ Goto(c, "pause")
                     /\ UNCHANGED <<attempt, since, quiet>>

End(c, how) == Goto(c, how) /\ UNCHANGED <<attempt, sleep, since, quiet>>

Succeed(c) == call[c] = "sent" /\ End(c, "response")

\* 429: the pause is taken on the last attempt, too.
TooManyRequests(c) == /\ call[c] = "sent"
                      /\ \E seconds \in 0..MaxRetryAfter : Pause(c, seconds)

\* A timeout or a 5xx answer: 2**attempt seconds, then once more.
Unavailable(c) == /\ call[c] = "sent"
                  /\ IF LastAttempt(c) THEN End(c, "OpenLibraryError")
                                       ELSE Pause(c, 2 ^ attempt[c])

\* Any other error status ends the call at once.
ClientError(c) == call[c] = "sent" /\ End(c, "OpenLibraryError")

\* A refused or broken connection, a Retry-After that is no number of seconds:
\* not among the exceptions that are handled.
TransportFails(c) == call[c] = "sent" /\ End(c, "otherError")

\* Wrong variant: one attempt too many.
NextAttemptOneMore(c) ==
  /\ call[c] = "pause" /\ sleep[c] = 0
  /\ attempt' = [attempt EXCEPT ![c] = @ + 1]
  /\ Goto(c, IF attempt[c] = MaxAttempts THEN "OpenLibraryError" ELSE "pace")
  /\ UNCHANGED <<sleep, since, quiet>>

\* Wrong variant: the retry does not count as an attempt.
NextAttemptUncounted(c) == /\ call[c] = "pause" /\ sleep[c] = 0
                           /\ Goto(c, "pace")
                           /\ UNCHANGED <<attempt, sleep, since, quiet>>

\* The loop goes on, or is exhausted and the call fails.
NextAttempt(c) == /\ call[c] = "pause" /\ sleep[c] = 0
                  /\ attempt' = [attempt EXCEPT ![c] = @ + 1]
                  /\ Goto(c, IF LastAttempt(c) THEN "OpenLibraryError" ELSE "pace")
                  /\ UNCHANGED <<sleep, since, quiet>>

\* A sleeper wakes up when its time is over, not later: the event loop is idle
\* meanwhile. Requests may take any time.
Tick == /\ \A c \in Clients : /\ call[c] # "pace"
                              /\ call[c] \in {"send", "pause"} => sleep[c] > 0
        /\ sleep' = [c \in Clients |-> IF sleep[c] > 0 THEN sleep[c] - 1 ELSE 0]
        /\ since' = [c \in Clients |-> Upto(since[c] + 1, Interval)]
        /\ quiet' = Upto(quiet + 1, Interval)
        /\ UNCHANGED <<call, attempt>>

Answer(c) == \/ Succeed(c) \/ TooManyRequests(c) \/ Unavailable(c)
             \/ ClientError(c) \/ TransportFails(c)

ClientNext == \/ Tick
              \/ \E c \in Clients : \/ Call(c) \/ Pace(c) \/ Send(c)
                                    \/ Answer(c) \/ NextAttempt(c)

ClientSpec == ClientInit /\ [][ClientNext]_clientVars

\* Time passes, the event loop runs what is due, and a request that gets no
\* answer times out.
ClientFairness ==
  /\ WF_clientVars(Tick)
  /\ \A c \in Clients : /\ WF_clientVars(Pace(c)) /\ WF_clientVars(Send(c))
                        /\ WF_clientVars(Answer(c)) /\ WF_clientVars(NextAttempt(c))

ClientFairSpec == ClientSpec /\ ClientFairness

-----------------------------------------------------------------------------
(* Properties.                                                             *)

\* Counters stay within their limits; no pause lasts longer than the longest
\* backoff or Retry-After.
ClientTypeOK == /\ call \in [Clients -> PCs]
                /\ attempt \in [Clients -> 0..MaxAttempts]
                /\ \A c \in Clients : call[c] \in {"pace", "send", "sent"} =>
                     attempt[c] < MaxAttempts
                /\ sleep \in [Clients -> Nat]
                /\ since \in [Clients -> 0..Interval]
                /\ quiet \in 0..Interval

\* One client never sends two requests within the interval, be the second one
\* a retry after a short Retry-After or the first request of another call.
ClientSpacing ==
  [][\A c \in Clients : call[c] = "send" /\ call'[c] = "sent" => since[c] = Interval]_clientVars

\* Every call ends: retries are bounded whatever mix of failures comes.
CallsEnd == \A c \in Clients : call[c] = "pace" ~> call[c] \in Ended

\* "A single worker process ensures we stay within Open Library's rate limit":
\* no two requests of the system are sent within the interval.
SystemSpacing ==
  [][\A c \in Clients : call[c] = "send" /\ call'[c] = "sent" => quiet = Interval]_clientVars

\* OpenLibraryError is "raised when an Open Library API call fails": a call
\* ends with a response or with that error, the only one the callers handle.
FailuresAreOpenLibraryErrors == \A c \in Clients : call[c] # "otherError"
=============================================================================
