--------------------------- MODULE IngestionJobs ---------------------------
(***************************************************************************)
(* The life of an ingestion job: the row the API or the daily refresh      *)
(* inserts, the task message that the fair scheduler carries to Celery,    *)
(* and the runs of ingest_works with their commits, log rows, retries and  *)
(* late acknowledgement. One worker process runs the tasks, as the         *)
(* deployment prescribes (docker-compose.yml, --concurrency=1).            *)
(*                                                                         *)
(* The scheduler and the broker are seen as one bag of messages: a retry   *)
(* waits for its countdown, so messages overtake each other.               *)
(***************************************************************************)
EXTENDS Naturals, Sequences, Bags

CONSTANTS Jobs,           \* ids of ingestion jobs
          MaxRetries,     \* max_retries of ingest_works
          MaxFaults,      \* bound: database outages and worker crashes
          MaxLosses,      \* bound: messages that are never published or delivered
          MaxRefreshes    \* bound: runs of refresh_all_catalogs

ASSUME BudgetAssumption == {MaxRetries, MaxFaults, MaxLosses, MaxRefreshes} \subseteq Nat

VARIABLES row,        \* ingestion_jobs.status; "none": no row, "flushed": not committed
          logs,       \* the committed ingestion_logs rows of each job, by status
          request,    \* jobs whose row the API committed and did not enqueue yet
          submitted,  \* jobs the API created
          messages,   \* undelivered ingest_works messages
          pc,         \* where the worker is
          run,        \* the message it runs
          outcome,    \* status of the log row that service.ingest returned
          usable,     \* the SQLAlchemy session accepts statements
          rejected,   \* history: jobs that met a work that violates a constraint
          faultsLeft, lossesLeft, refreshesLeft

tables == <<row, logs>>
budgets == <<faultsLeft, lossesLeft, refreshesLeft>>
vars == <<tables, request, submitted, messages, pc, run, outcome, usable, rejected,
          budgets>>

Message(j, r) == [job |-> j, retries |-> r]
Publish(j, r) == messages' = messages (+) SetToBag({Message(j, r)})
Take(m) == messages' = messages (-) SetToBag({m})

RunPCs == {"mark", "ingest", "finish", "report", "retry", "ack"}
Running(j) == pc \in RunPCs /\ run.job = j
Undelivered(j) == \E m \in BagToSet(messages) : m.job = j
Pending(j) == Running(j) \/ Undelivered(j) \/ j \in request

Init == /\ row = [j \in Jobs |-> "none"]
        /\ logs = [j \in Jobs |-> <<>>]
        /\ request = {} /\ submitted = {}
        /\ messages = EmptyBag
        /\ pc = "idle"
        /\ run \in {Message(j, 0) : j \in Jobs}
        /\ outcome = "failed"
        /\ usable = TRUE /\ rejected = {}
        /\ faultsLeft = MaxFaults
        /\ lossesLeft = MaxLosses
        /\ refreshesLeft = MaxRefreshes

\* The log of the job has a row of that status.
Logged(j, status) == \E i \in DOMAIN logs[j] : logs[j][i] = status

New(j) == row[j] = "none" /\ ~ Pending(j) /\ logs[j] = <<>>

-----------------------------------------------------------------------------
(* POST /ingestion: the row is committed first, the task is enqueued next. *)

\* Wrong variant: the task is enqueued before the row is committed.
InsertJobEnqueuesFirst(j) ==
  /\ New(j)
  /\ Publish(j, 0)
  /\ submitted' = submitted \cup {j}
  /\ UNCHANGED <<tables, request, pc, run, outcome, usable, rejected, budgets>>

InsertJob(j) == /\ New(j)
                /\ row' = [row EXCEPT ![j] = "queued"]
                /\ request' = request \cup {j}
                /\ submitted' = submitted \cup {j}
                /\ UNCHANGED <<logs, messages, pc, run, outcome, usable, rejected,
                               budgets>>

\* Wrong variant: the call is made again, as if its first answer were lost.
EnqueueJobAgain(j) == /\ j \in request
                      /\ request' \in {request, request \ {j}}
                      /\ Publish(j, 0)
                      /\ UNCHANGED <<tables, submitted, pc, run, outcome, usable,
                                     rejected, budgets>>

EnqueueJob(j) == /\ j \in request
                 /\ request' = request \ {j}
                 /\ Publish(j, 0)
                 /\ UNCHANGED <<tables, submitted, pc, run, outcome, usable,
                                rejected, budgets>>

\* Redis is down or the API process dies between the two.
EnqueueFails(j) == /\ j \in request /\ lossesLeft > 0
                   /\ lossesLeft' = lossesLeft - 1
                   /\ request' = request \ {j}
                   /\ UNCHANGED <<tables, submitted, messages, pc, run, outcome,
                                  usable, rejected,
                                  faultsLeft, refreshesLeft>>

\* The scheduler or the broker fails and may lose a message (see FairScheduler).
MessageLost == /\ lossesLeft > 0
               /\ lossesLeft' = lossesLeft - 1
               /\ UNCHANGED messages \/ \E m \in BagToSet(messages) : Take(m)
               /\ UNCHANGED <<tables, request, submitted, pc, run, outcome, usable,
                              rejected,
                              faultsLeft, refreshesLeft>>

-----------------------------------------------------------------------------
(* refresh_all_catalogs: every job is flushed and enqueued in turn, one    *)
(* commit at the end. How many queries there are is left open.             *)

StartRefresh == /\ pc = "idle" /\ refreshesLeft > 0
                /\ \E j \in Jobs : Logged(j, "completed")
                /\ refreshesLeft' = refreshesLeft - 1
                /\ pc' = "refresh"
                /\ UNCHANGED <<tables, request, submitted, messages, run, outcome,
                               usable, rejected, faultsLeft, lossesLeft>>

RefreshJob(j) == /\ pc = "refresh" /\ New(j)
                 /\ row' = [row EXCEPT ![j] = "flushed"]
                 /\ submitted' = submitted \ {j}
                 /\ Publish(j, 0)
                 /\ UNCHANGED <<logs, request, pc, run, outcome, usable, rejected,
                                budgets>>

EndTransaction(status) ==
  row' = [j \in Jobs |-> IF row[j] = "flushed" THEN status ELSE row[j]]

RefreshCommit == /\ pc = "refresh"
                 /\ EndTransaction("queued")
                 /\ pc' = "idle"
                 /\ UNCHANGED <<logs, request, submitted, messages, run, outcome,
                                usable, rejected, budgets>>

\* A flush, an enqueue or the commit raises: the rows go, the messages stay.
RefreshAborts == /\ pc = "refresh" /\ faultsLeft > 0
                 /\ faultsLeft' = faultsLeft - 1
                 /\ EndTransaction("none")
                 /\ pc' = "idle"
                 /\ UNCHANGED <<logs, request, submitted, messages, run, outcome,
                                usable, rejected, lossesLeft, refreshesLeft>>

-----------------------------------------------------------------------------
(* ingest_works.                                                           *)

Fetch == /\ pc = "idle"
         /\ \E m \in BagToSet(messages) : Take(m) /\ run' = m
         /\ pc' = "mark"
         /\ usable' = TRUE
         /\ UNCHANGED <<tables, request, submitted, outcome, rejected, budgets>>

RowVisible(j) == row[j] \notin {"none", "flushed"}

\* select(...).scalar_one() raises NoResultFound when the row is missing.
MarkRunning == /\ pc = "mark"
               /\ IF RowVisible(run.job)
                  THEN row' = [row EXCEPT ![run.job] = "running"] /\ pc' = "ingest"
                  ELSE pc' = "report" /\ UNCHANGED row
               /\ UNCHANGED <<logs, request, submitted, messages, run, outcome,
                              usable, rejected,
                              budgets>>

\* service.ingest commits its log row, completed or, when the search failed,
\* failed.
Ingest == /\ pc = "ingest"
          /\ \E status \in {"completed", "failed"} :
               /\ logs' = [logs EXCEPT ![run.job] = Append(@, status)]
               /\ outcome' = status
          /\ pc' = "finish"
          /\ UNCHANGED <<row, request, submitted, messages, run, usable, rejected,
                         budgets>>

\* A work is rejected by the database: the session stays unusable until a
\* rollback nobody issues, so the commit at the end of ingest raises too.
IngestPoisoned == /\ pc = "ingest"
                  /\ usable' = FALSE /\ rejected' = rejected \cup {run.job}
                  /\ pc' = "report"
                  /\ UNCHANGED <<tables, request, submitted, messages, run, outcome,
                                 budgets>>

\* Wrong variant: a failed search is retried like an exception.
FinishJobRetriesFailed ==
  /\ pc = "finish"
  /\ row' = [row EXCEPT ![run.job] = outcome]
  /\ pc' = IF outcome = "completed" THEN "ack" ELSE "retry"
  /\ UNCHANGED <<logs, request, submitted, messages, run, outcome, usable, rejected,
                 budgets>>

\* Wrong variant: the status of the log row is not looked at.
FinishJobAsCompleted ==
  /\ pc = "finish"
  /\ row' = [row EXCEPT ![run.job] = "completed"]
  /\ pc' = "ack"
  /\ UNCHANGED <<logs, request, submitted, messages, run, outcome, usable, rejected,
                 budgets>>

FinishJob == /\ pc = "finish"
             /\ row' = [row EXCEPT ![run.job] =
                          IF outcome = "completed" THEN "completed" ELSE "failed"]
             /\ pc' = "ack"
             /\ UNCHANGED <<logs, request, submitted, messages, run, outcome, usable,
                            rejected,
                            budgets>>

\* The database goes away. The session survives a failed first SELECT only.
StepFails == /\ pc \in {"mark", "ingest", "finish"} /\ faultsLeft > 0
             /\ faultsLeft' = faultsLeft - 1
             /\ usable' \in (IF pc = "mark" THEN BOOLEAN ELSE {FALSE})
             /\ pc' = "report"
             /\ UNCHANGED <<tables, request, submitted, messages, run, outcome,
                            rejected,
                            lossesLeft, refreshesLeft>>

\* except Exception: the status update is tried and its failure is logged only.
ReportFailure == /\ pc = "report"
                 /\ row' = IF usable /\ RowVisible(run.job)
                           THEN [row EXCEPT ![run.job] = "failed"] ELSE row
                 /\ pc' = "retry"
                 /\ UNCHANGED <<logs, request, submitted, messages, run, outcome,
                                usable, rejected, budgets>>

\* Wrong variant: no limit on the retries.
RetryForever == /\ pc = "retry"
                /\ Publish(run.job, run.retries + 1)
                /\ pc' = "ack"
                /\ UNCHANGED <<tables, request, submitted, run, outcome, usable,
                               rejected, budgets>>

\* Wrong variant: the first attempt is counted as a retry.
RetryOneLess == /\ pc = "retry"
                /\ IF run.retries + 1 < MaxRetries
                   THEN Publish(run.job, run.retries + 1)
                   ELSE UNCHANGED messages
                /\ pc' = "ack"
                /\ UNCHANGED <<tables, request, submitted, run, outcome, usable,
                               rejected, budgets>>

\* task.retry publishes the next attempt, or re-raises after the last one.
Retry == /\ pc = "retry"
         /\ IF run.retries < MaxRetries
            THEN Publish(run.job, run.retries + 1)
            ELSE UNCHANGED messages
         /\ pc' = "ack"
         /\ UNCHANGED <<tables, request, submitted, run, outcome, usable, rejected,
                        budgets>>

\* task_acks_late: the message goes away only now.
Acknowledge == /\ pc = "ack"
               /\ pc' = "idle"
               /\ UNCHANGED <<tables, request, submitted, messages, run, outcome,
                              usable, rejected, budgets>>

\* Wrong variant: the message is acknowledged when it is fetched.
CrashAfterEarlyAck == /\ pc # "idle" /\ faultsLeft > 0
                      /\ faultsLeft' = faultsLeft - 1
                      /\ EndTransaction("none")
                      /\ pc' = "idle"
                      /\ UNCHANGED <<logs, request, submitted, messages, run, outcome,
                                     usable, rejected, lossesLeft, refreshesLeft>>

\* The container dies: open transactions roll back, the message comes back.
Crash == /\ pc # "idle" /\ faultsLeft > 0
         /\ faultsLeft' = faultsLeft - 1
         /\ EndTransaction("none")
         /\ pc' = "idle"
         /\ IF pc = "refresh"
            THEN refreshesLeft' = refreshesLeft + 1 /\ UNCHANGED messages
            ELSE Publish(run.job, run.retries) /\ UNCHANGED refreshesLeft
         /\ UNCHANGED <<logs, request, submitted, run, outcome, usable, rejected,
                        lossesLeft>>

\* Only the child process dies: Celery acknowledges the message all the same.
ChildKilled == /\ pc # "idle" /\ lossesLeft > 0
               /\ lossesLeft' = lossesLeft - 1
               /\ EndTransaction("none")
               /\ pc' = "idle"
               /\ UNCHANGED <<logs, request, submitted, messages, run, outcome,
                              usable, rejected,
                              faultsLeft, refreshesLeft>>

-----------------------------------------------------------------------------
WorkerStep == \/ Fetch \/ MarkRunning \/ Ingest \/ IngestPoisoned \/ FinishJob
              \/ ReportFailure \/ Retry \/ Acknowledge \/ RefreshCommit

Next == \/ \E j \in Jobs : \/ InsertJob(j) \/ EnqueueJob(j) \/ EnqueueFails(j)
                           \/ RefreshJob(j)
        \/ WorkerStep \/ StartRefresh \/ RefreshAborts
        \/ MessageLost \/ StepFails \/ Crash \/ ChildKilled

Spec == Init /\ [][Next]_vars

\* The worker goes on with the task it runs, the API process with the request it is
\* serving. That a message is delivered is not assumed: the scheduler may strand a
\* list or starve a tenant.
Fairness == /\ WF_vars(pc # "idle" /\ WorkerStep)
            /\ \A j \in Jobs : WF_vars(EnqueueJob(j))

FairSpec == Spec /\ Fairness

-----------------------------------------------------------------------------
(* Properties.                                                             *)

Statuses == {"none", "flushed", "queued", "running", "completed", "failed"}

\* Every variable has the values the row, the message or the local can have.
TypeOK == /\ row \in [Jobs -> Statuses]
          /\ logs \in [Jobs -> Seq({"completed", "failed"})]
          /\ submitted \subseteq Jobs /\ request \subseteq submitted
          /\ IsABag(messages)
          /\ BagToSet(messages) \subseteq [job : Jobs, retries : 0..MaxRetries]
          /\ pc \in RunPCs \cup {"idle", "refresh"}
          /\ run \in [job : Jobs, retries : 0..MaxRetries]
          /\ outcome \in {"completed", "failed"}
          /\ usable \in BOOLEAN /\ rejected \subseteq Jobs
          /\ faultsLeft \in 0..MaxFaults
          /\ lossesLeft \in 0..MaxLosses
          /\ refreshesLeft \in 0..MaxRefreshes

\* A worker always finds the row of a job submitted through the API.
SubmittedRowExists ==
  \A j \in submitted : Undelivered(j) \/ Running(j) => RowVisible(j)

\* As long as no message is lost and no more faults struck than a task has
\* retries, a queued job has a message on its way or a request about to send one:
\* no crash of the worker strands it. One more fault and its last attempt may
\* have ended before the row was touched.
QueuedIsPending ==
  lossesLeft = MaxLosses /\ MaxFaults - faultsLeft <= MaxRetries =>
    \A j \in Jobs : row[j] = "queued" => Pending(j)

\* A job is ingested once, and once more at most for each crash or outage that
\* struck: redelivery and retry never multiply each other's copies.
IngestedOncePerDelivery ==
  \A j \in Jobs : Len(logs[j]) <= 1 + MaxFaults - faultsLeft

\* The job is over, and its row shows how it ended; one that met a rejected work may
\* be left as running.
Settled(j) == /\ ~ Pending(j)
              /\ \/ row[j] \in {"none", "completed", "failed"}
                 \/ row[j] = "running" /\ j \in rejected
              /\ row[j] = "completed" => Logged(j, "completed")

\* If no message is lost and no more faults strike than a task has retries, every job
\* is settled, or a message of it is never delivered: the worker drops none, however
\* often the database goes away, the worker dies or a work is rejected, and the row
\* says completed only if the log does.
JobsSettle ==
  [](lossesLeft = MaxLosses /\ MaxFaults - faultsLeft <= MaxRetries) =>
    \A j \in Jobs : Pending(j) ~> (Settled(j) \/ []Undelivered(j))

\* "queued, running, then completed or failed": a job that no message or run can
\* still change is not left as running.
NoneLeftRunning == \A j \in Jobs : row[j] = "running" => Pending(j)

\* Every ingestion that was started and is over has left a row in the log.
EndedRunsLogged ==
  \A j \in Jobs : row[j] \in {"running", "completed", "failed"} /\ ~ Pending(j)
                    => logs[j] # <<>>

\* The statuses follow the documented line: queued, running, then completed
\* or failed.
LifecycleStep(old, new) == \/ old = new
                           \/ old \in {"none", "flushed"}
                           \/ old = "queued" /\ new = "running"
                           \/ old = "running" /\ new \in {"completed", "failed"}
Lifecycle == [][\A j \in Jobs : LifecycleStep(row[j], row'[j])]_vars
=============================================================================
