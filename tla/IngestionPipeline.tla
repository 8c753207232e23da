-------------------------- MODULE IngestionPipeline --------------------------
(***************************************************************************)
(* FairScheduler and IngestionJobs put together, as the deployment does    *)
(* (docker-compose.yml): one worker process with --concurrency=1 runs the  *)
(* dispatches and the jobs, so a long job delays the dispatches and a dead *)
(* dispatch the jobs. An API request puts a message on its tenant's list,  *)
(* dispatches carry it to the Celery queue, the worker runs it.            *)
(*                                                                         *)
(* The first message of a job goes through the scheduler; those of its     *)
(* retries go straight to Celery, where the worker takes them off the      *)
(* queue and keeps them until their countdown is over. IngestionJobs sees  *)
(* all of it as one bag of messages.                                       *)
(***************************************************************************)
EXTENDS Naturals, Sequences, FiniteSets, SequencesExt

CONSTANTS Tenants, Jobs, OwnerOf,          \* OwnerOf[j]: the tenant of job j
          Worker,                          \* the worker process
          MaxDepth, MaxBacklog, MaxRetries,
          MaxFaults,                       \* bound: outages, crashes within a job
          MaxLosses,                       \* bound: failures around the queues
          Dispatch, OtherTask, NoJob       \* messages, as in FairScheduler

Payloads == [job : Jobs, retries : 0..MaxRetries]

ASSUME OwnerOfAssumption == Tenants \subseteq Nat /\ OwnerOf \in [Jobs -> Tenants]
ASSUME BoundsAssumption ==
  /\ MaxDepth \in Nat \ {0}
  /\ {MaxBacklog, MaxRetries, MaxFaults, MaxLosses} \subseteq Nat
ASSUME MessagesAssumption == /\ {Dispatch, OtherTask, NoJob} \cap Payloads = {}
                             /\ Dispatch # OtherTask

VARIABLES queue, members, lock, celery, pc, slots, todo, cur, job,
          eta,        \* retries the worker keeps until they are due
          row, logs, request, submitted, at, run, outcome, usable, rejected,
          faultsLeft, lossesLeft

Message(j, r) == [job |-> j, retries |-> r]

FS == INSTANCE FairScheduler
        WITH Jobs <- Payloads,
             Owner <- [m \in Payloads |-> OwnerOf[m.job]],
             Workers <- {Worker},
             SlowDispatch <- FALSE,
             faultsLeft <- lossesLeft, MaxFaults <- MaxLosses

Count(s, m) == Cardinality({i \in DOMAIN s : s[i] = m})

\* How often m is on a list, in the dispatcher's hands, in Celery or kept back.
Copies(m) == Count(queue[OwnerOf[m.job]], m) + Count(celery, m) + Count(eta, m)
               + (IF FS!Holds(Worker, m) THEN 1 ELSE 0)

Carried == LET copies == [m \in Payloads |-> Copies(m)]
           IN [m \in {p \in Payloads : copies[p] > 0} |-> copies[m]]

IJ == INSTANCE IngestionJobs
        WITH messages <- Carried, pc <- at, refreshesLeft <- 0, MaxRefreshes <- 0

places == <<queue, members, lock, celery, pc, slots, todo, cur, job, eta>>
jobVars == <<row, logs, request, submitted, at, run, outcome, usable, rejected,
             faultsLeft>>
vars == <<places, jobVars, lossesLeft>>

\* What cur and run hold before they are first assigned is never read.
Init == /\ FS!Init /\ cur[Worker] = FS!First(Tenants)
        /\ eta = <<>>
        /\ IJ!Init /\ run = Message(CHOOSE j \in Jobs : TRUE, 0)

-----------------------------------------------------------------------------
(* The API.                                                                *)

InsertJob(j) == UNCHANGED places /\ IJ!InsertJob(j)

EnqueueJob(j) == FS!Submit(Message(j, 0)) /\ UNCHANGED eta /\ IJ!EnqueueJob(j)

EnqueueFails(j) == UNCHANGED places /\ IJ!EnqueueFails(j)

-----------------------------------------------------------------------------
(* Beat, the lock and the dispatches: the jobs do not notice.              *)

Unnoticed == UNCHANGED <<eta, jobVars>>

Beat == FS!Beat /\ Unnoticed
LockExpires == FS!LockExpires /\ Unnoticed
DispatchStep == FS!DispatchStep(Worker) /\ Unnoticed
DispatchFails == (FS!CallFails(Worker) \/ FS!ReplyLost(Worker)) /\ Unnoticed
DispatchCrashes == pc[Worker] # "busy" /\ FS!Crash(Worker) /\ Unnoticed

-----------------------------------------------------------------------------
(* The worker.                                                             *)

IsRetry(m) == m \in Payloads /\ m.retries > 0
Idle == pc[Worker] = "idle"

StartDispatch == /\ celery # <<>> /\ Head(celery) = Dispatch
                 /\ FS!Fetch(Worker) /\ Unnoticed

StartJob == /\ celery # <<>> /\ Head(celery) \in Payloads /\ ~ IsRetry(Head(celery))
            /\ FS!Fetch(Worker) /\ UNCHANGED eta
            /\ IJ!Fetch

\* A message with a countdown leaves the queue but does not run yet.
KeepRetry == /\ Idle /\ celery # <<>> /\ IsRetry(Head(celery))
             /\ eta' = Append(eta, Head(celery))
             /\ celery' = Tail(celery)
             /\ UNCHANGED <<queue, members, lock, pc, slots, todo, cur, job, jobVars,
                            lossesLeft>>

StartRetry(m) == /\ Idle /\ m \in ToSet(eta)
                 /\ eta' = RemoveFirst(eta, m)
                 /\ pc' = [pc EXCEPT ![Worker] = "busy"]
                 /\ UNCHANGED <<queue, members, lock, celery, slots, todo, cur, job>>
                 /\ IJ!Fetch

JobStep == /\ UNCHANGED places
           /\ \/ IJ!MarkRunning \/ IJ!Ingest \/ IJ!IngestPoisoned \/ IJ!FinishJob
              \/ IJ!ReportFailure

StepFails == UNCHANGED places /\ IJ!StepFails

Retry == /\ celery' = IF run.retries < MaxRetries
                      THEN Append(celery, Message(run.job, run.retries + 1))
                      ELSE celery
         /\ UNCHANGED <<queue, members, lock, pc, slots, todo, cur, job, eta>>
         /\ IJ!Retry

Acknowledge == FS!FinishRun(Worker) /\ UNCHANGED eta /\ IJ!Acknowledge

\* The message of the job comes back to the head of the queue; those kept back come
\* back as well, and are kept back again.
Crash == /\ pc' = [pc EXCEPT ![Worker] = "idle"]
         /\ celery' = <<run>> \o celery
         /\ UNCHANGED <<queue, members, lock, slots, todo, cur, job, eta>>
         /\ IJ!Crash

ChildKilled == /\ pc' = [pc EXCEPT ![Worker] = "idle"]
               /\ UNCHANGED <<queue, members, lock, celery, slots, todo, cur, job, eta>>
               /\ IJ!ChildKilled

-----------------------------------------------------------------------------
Fetch == StartDispatch \/ StartJob \/ KeepRetry
RunJob == JobStep \/ Retry \/ Acknowledge

Next == \/ \E j \in Jobs : InsertJob(j) \/ EnqueueJob(j) \/ EnqueueFails(j)
        \/ Beat \/ LockExpires \/ DispatchStep \/ DispatchFails \/ DispatchCrashes
        \/ Fetch \/ RunJob \/ StepFails \/ Crash \/ ChildKilled
        \/ \E m \in ToSet(eta) : StartRetry(m)

Spec == Init /\ [][Next]_vars

\* Beat, the API and the worker go on, the lock keeps its TTL. A retry that is
\* due goes to the pool, which runs it before what is fetched later.
Fairness == /\ WF_vars(Beat) /\ WF_vars(LockExpires)
            /\ WF_vars(DispatchStep) /\ WF_vars(Fetch) /\ WF_vars(RunJob)
            /\ \A j \in Jobs : WF_vars(EnqueueJob(j))
            /\ \A m \in {p \in Payloads : IsRetry(p)} : SF_vars(StartRetry(m))

FairSpec == Spec /\ Fairness

-----------------------------------------------------------------------------
(* Properties.                                                             *)

\* Both parts have their types; the worker is busy exactly while a job runs, and
\* what waits for its countdown are retries of jobs.
TypeOK == /\ FS!TypeOK /\ IJ!TypeOK
          /\ celery \in Seq(Payloads \cup {Dispatch})
          /\ eta \in Seq({m \in Payloads : IsRetry(m)})
          /\ pc[Worker] = "busy" <=> at # "idle"

\* A request that is about to enqueue its job finds no message of it anywhere, so
\* what FairScheduler asks of a Submit always holds: no earlier attempt, retry or
\* redelivery of a job is still around when its id is enqueued.
RequestsAreNew ==
  \A j \in request : ~ IJ!Undelivered(j) /\ ~ FS!InSystem(Message(j, 0))

\* The scheduler with its lists, dispatches and failures is the bag of messages
\* that IngestionJobs takes it for: what is enqueued is delivered at most once,
\* and vanishes in a failure only.
ImplementsIngestionJobs == IJ!Spec

\* The list of a tenant that a dispatch took off fairq:tenants too late.
Stranded(t) == queue[t] # <<>> /\ t \notin members

\* Unless a tenant's jobs stay stranded for good, no job waits for ever, on its
\* way through two queues, with dispatches, jobs, retries, a dead dispatch's lock
\* and crashes of the one worker in each other's way. JobsSettle of IngestionJobs
\* leaves open whether its messages are delivered; here they are.
EveryJobEnds ==
  (\A t \in Tenants : []<>(~ Stranded(t))) =>
    \A j \in Jobs : IJ!Pending(j) ~> ~ IJ!Pending(j)
=============================================================================
