------------------------------ MODULE RateLimit ------------------------------
(***************************************************************************)
(* TenantRateLimitMiddleware.dispatch: a request to a tenant's routes reads *)
(* the clock, counts itself in Redis under its tenant and minute (INCR and  *)
(* EXPIRE NX in one transaction) and is admitted or answered with 429; the *)
(* 429 reads the clock once more. Requests run concurrently: the clock may *)
(* move, and others may count, between any two of these. A Redis that      *)
(* cannot be reached admits everything. A tick is a second.                *)
(***************************************************************************)
EXTENDS Integers, FiniteSets

CONSTANTS Requests,     \* requests to tenant-scoped routes
          TenantOf,     \* TenantOf[r]: the slug in the path of r
          Limit,        \* RATE_LIMIT_PER_MINUTE
          Minute,       \* ticks of a minute
          MaxNow,       \* bound: the clock
          MaxFaults     \* bound: pipelines that fail

ASSUME LimitAssumption == Limit \in Nat \ {0} /\ Minute \in Nat \ {0}
ASSUME RequestsAssumption == IsFiniteSet(Requests)
ASSUME BoundsAssumption == MaxNow \in Nat /\ MaxFaults \in Nat

VARIABLES now,         \* the clock
          count,       \* the counters in Redis, 0 when there is no key
          expires,     \* when the key goes away, 0 when there is none
          pc, minute,  \* of each request: now_minute
          header,      \* X-RateLimit-Remaining if admitted, Retry-After if refused
          countedAt,   \* history: when a request was counted
          answeredAt,  \* history: when a refusal was written
          faultsLeft

redis == <<count, expires>>
history == <<countedAt, answeredAt>>
vars == <<now, redis, pc, minute, header, history, faultsLeft>>

Tenants == {TenantOf[r] : r \in Requests}
Minutes == 0..(MaxNow \div Minute)
RedisKeys == Tenants \X Minutes

Init == /\ now = 0
        /\ count = [k \in RedisKeys |-> 0]
        /\ expires = [k \in RedisKeys |-> 0]
        /\ pc = [r \in Requests |-> "new"]
        /\ minute = [r \in Requests |-> 0]
        /\ header = [r \in Requests |-> 0]
        /\ countedAt = [r \in Requests |-> 0]
        /\ answeredAt = [r \in Requests |-> 0]
        /\ faultsLeft = MaxFaults

Goto(r, label) == pc' = [pc EXCEPT ![r] = label]

\* now_minute = int(time.time()) // 60
ReadClock(r) == /\ pc[r] = "new"
                /\ minute' = [minute EXCEPT ![r] = now \div Minute]
                /\ Goto(r, "count")
                /\ UNCHANGED <<now, redis, header, history, faultsLeft>>

\* Wrong variant: one key for all tenants.
SharedKey(r) == <<CHOOSE t \in Tenants : TRUE, minute[r]>>

\* ratelimit:{tenant_slug}:{now_minute}
RedisKey(r) == <<TenantOf[r], minute[r]>>

\* Wrong variant: the key is gone before its minute is over.
TimeToLiveTooShort == Minute - 1

TimeToLive == Minute

Exceeds(n) == n > Limit

\* remaining = max(0, limit - current_count)
Remaining(n) == IF Exceeds(n) THEN 0 ELSE Limit - n

\* The answer to INCR decides: a 429 has its headers still to come.
Decide(r, n) == /\ Goto(r, IF Exceeds(n) THEN "limited" ELSE "admitted")
                /\ header' = [header EXCEPT ![r] = Remaining(n)]
                /\ countedAt' = [countedAt EXCEPT ![r] = now]

\* Wrong variant: INCR without EXPIRE, the key stays for ever.
CountWithoutExpire(r) ==
  /\ pc[r] = "count"
  /\ count' = [count EXCEPT ![RedisKey(r)] = @ + 1]
  /\ Decide(r, count'[RedisKey(r)])
  /\ UNCHANGED <<now, expires, minute, answeredAt, faultsLeft>>

\* INCR and EXPIRE NX in one pipeline.
Count(r) == /\ pc[r] = "count"
            /\ count' = [count EXCEPT ![RedisKey(r)] = @ + 1]
            /\ expires' = [expires EXCEPT ![RedisKey(r)] =
                             IF @ = 0 THEN now + TimeToLive ELSE @]
            /\ Decide(r, count'[RedisKey(r)])
            /\ UNCHANGED <<now, minute, answeredAt, faultsLeft>>

\* Wrong variant: the minute's first second instead of the next one's.
WindowStart(r) == minute[r] * Minute

\* window_reset = (now_minute + 1) * 60
WindowReset(r) == (minute[r] + 1) * Minute

\* The 429 is written: Retry-After by a second look at the clock.
Refuse(r) == /\ pc[r] = "limited"
             /\ Goto(r, "refused")
             /\ header' = [header EXCEPT ![r] = WindowReset(r) - now]
             /\ answeredAt' = [answeredAt EXCEPT ![r] = now]
             /\ UNCHANGED <<now, redis, minute, countedAt, faultsLeft>>

\* Redis is down, or its answer gets lost after it has counted: fail open.
CountFails(r) == /\ pc[r] = "count" /\ faultsLeft > 0
                 /\ faultsLeft' = faultsLeft - 1
                 /\ \/ UNCHANGED redis
                    \/ /\ count' = [count EXCEPT ![RedisKey(r)] = @ + 1]
                       /\ expires' = [expires EXCEPT ![RedisKey(r)] =
                                        IF @ = 0 THEN now + TimeToLive ELSE @]
                 /\ Goto(r, "unlimited")
                 /\ UNCHANGED <<now, minute, header, history>>

\* The clock moves on and Redis drops the keys whose time is over.
Tick == /\ now < MaxNow
        /\ now' = now + 1
        /\ LET over == {k \in RedisKeys : expires[k] # 0 /\ expires[k] <= now'} IN
           /\ count' = [k \in RedisKeys |-> IF k \in over THEN 0 ELSE count[k]]
           /\ expires' = [k \in RedisKeys |-> IF k \in over THEN 0 ELSE expires[k]]
        /\ UNCHANGED <<pc, minute, header, history, faultsLeft>>

Next == \/ \E r \in Requests : ReadClock(r) \/ Count(r) \/ CountFails(r) \/ Refuse(r)
        \/ Tick

Spec == Init /\ [][Next]_vars

-----------------------------------------------------------------------------
(* Properties.                                                             *)

\* r was counted in the minute it had read from the clock.
Punctual(r) == minute[r] = countedAt[r] \div Minute

AdmittedInTime(t) ==
  {r \in Requests : TenantOf[r] = t /\ pc[r] = "admitted" /\ Punctual(r)}

\* Clock, counters and requests have their ranges; a key has a time to live
\* exactly as long as it counts something, and one that is not over.
TypeOK == /\ now \in 0..MaxNow
          /\ count \in [RedisKeys -> 0..Cardinality(Requests)]
          /\ expires \in [RedisKeys -> 0..(MaxNow + Minute)]
          /\ \A k \in RedisKeys : /\ count[k] = 0 <=> expires[k] = 0
                                  /\ expires[k] # 0 =>
                                       expires[k] \in (now + 1)..(now + Minute)
          /\ pc \in [Requests -> {"new", "count", "admitted", "limited", "refused",
                                  "unlimited"}]
          /\ header \in [Requests -> -MaxNow..(Limit + Minute)]
          /\ minute \in [Requests -> Minutes]
          /\ countedAt \in [Requests -> 0..MaxNow]
          /\ answeredAt \in [Requests -> 0..MaxNow]
          /\ faultsLeft \in 0..MaxFaults

\* A tenant gets at most Limit requests of one clock minute through, those apart
\* that Redis counts after the minute only: no key expires before its minute
\* ends, whatever late requests create or count on.
LimitPerMinute ==
  \A t \in Tenants : \A m \in Minutes :
    Cardinality({r \in AdmittedInTime(t) : minute[r] = m}) <= Limit

\* The headers can be relied upon within the minute: no two requests that were
\* counted in time are told the same rest, so X-RateLimit-Remaining promises no
\* place twice; and a refusal written before the minute is over names a wait of
\* one second at least and a minute at most, after which the next one has begun.
HeadersHold ==
  /\ \A t \in Tenants : \A q, r \in AdmittedInTime(t) :
       q # r /\ minute[q] = minute[r] => header[q] # header[r]
  /\ \A r \in Requests :
       pc[r] = "refused" /\ answeredAt[r] \div Minute = minute[r] =>
         /\ header[r] \in 1..Minute
         /\ (answeredAt[r] + header[r]) \div Minute = minute[r] + 1

\* "Exhausting tenant A's limit should not affect tenant B": a request is
\* refused only if Limit others of its own tenant and minute were let through,
\* be it in the minute itself or delayed.
RefusedOnlyWhenUsedUp ==
  \A r \in Requests : pc[r] \in {"limited", "refused"} =>
    Cardinality({q \in Requests : /\ TenantOf[q] = TenantOf[r] /\ minute[q] = minute[r]
                                  /\ pc[q] \in {"admitted", "unlimited"}}) >= Limit

-----------------------------------------------------------------------------
(* Beyond the run: violated by the code.                                   *)

\* A refusal tells its client to wait: not so if the clock passes the end of the
\* minute before the second look, when Retry-After is zero or negative.
RetryAfterIsAWait == \A r \in Requests : pc[r] = "refused" => header[r] > 0
=============================================================================
