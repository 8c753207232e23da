--------------------------- MODULE FairScheduler ---------------------------
(***************************************************************************)
(* The fair per-tenant scheduler: enqueue_task puts a job on its tenant's  *)
(* Redis list and the tenant in the set fairq:tenants; Celery Beat         *)
(* publishes run_fair_dispatch every five seconds, and the worker that     *)
(* fetches it runs dispatch_fair_batch, one Redis call per step, which     *)
(* moves jobs from the tenants' lists to the Celery queue.                 *)
(*                                                                         *)
(* Several workers may run it at once, any call may fail, with or without  *)
(* its effect on Redis, and a worker may die between two calls.            *)
(***************************************************************************)
EXTENDS Naturals, Sequences, FiniteSets

CONSTANTS Tenants,      \* tenant ids; their order is that of sorted(tenant_ids)
          Jobs,         \* ids of ingestion jobs; an id is reused once its job is over
          Owner,        \* Owner[j]: the tenant job j belongs to
          Workers,      \* Celery worker processes
          MaxDepth,     \* MAX_CELERY_QUEUE_DEPTH
          MaxBacklog,   \* bound: run_fair_dispatch messages waiting at once
          MaxFaults,    \* bound: failed calls, crashes and unrelated messages
          SlowDispatch, \* a dispatch may outlast the lock's 10 s or Beat's 5 s
          Dispatch,     \* the message that runs run_fair_dispatch
          OtherTask,    \* any message the scheduler did not send
          NoJob         \* the payload register when nothing was popped

ASSUME TenantsAssumption == Tenants \subseteq Nat
ASSUME OwnerAssumption == Owner \in [Jobs -> Tenants]
ASSUME BoundsAssumption == /\ MaxDepth \in Nat \ {0}
                           /\ MaxBacklog \in Nat /\ MaxFaults \in Nat
ASSUME ModeAssumption == SlowDispatch \in BOOLEAN
ASSUME MessagesAssumption == /\ {Dispatch, OtherTask, NoJob} \cap Jobs = {}
                             /\ Dispatch # OtherTask

VARIABLES queue,        \* fairq:tenant:{id}: the tenants' lists of jobs
          members,      \* fairq:tenants
          lock,         \* fairq:dispatch_lock exists
          celery,       \* the Celery queue, head consumed next
          pc,           \* the next call of each worker
          slots,        \* available_slots - dispatched
          todo,         \* tenants the for loop has not visited yet
          cur,          \* tenant_id of the iteration under way
          job,          \* the payload popped and not sent yet
          faultsLeft    \* remaining budget of faults

redis == <<queue, members, lock, celery>>
registers == <<slots, todo, cur, job>>
vars == <<redis, pc, registers, faultsLeft>>

Messages == Jobs \cup {Dispatch, OtherTask}

\* The calls made while the worker believes it holds the lock.
CriticalPCs == {"depth", "smembers", "lpop", "send", "llen", "srem", "unlock"}
PCs == {"idle", "setnx", "busy"} \cup CriticalPCs

InDispatch(w) == pc[w] \in CriticalPCs
Holds(w, j) == pc[w] = "send" /\ job[w] = j

InSeq(s, e) == \E i \in DOMAIN s : s[i] = e

\* Job j is on its tenant's list, in a worker's hands or in the Celery queue.
InSystem(j) == \/ InSeq(queue[Owner[j]], j)
               \/ \E w \in Workers : Holds(w, j)
               \/ InSeq(celery, j)

Waiting(m) == Cardinality({i \in DOMAIN celery : celery[i] = m})

Init == /\ queue = [t \in Tenants |-> <<>>]
        /\ members = {}
        /\ lock = FALSE
        /\ celery = <<>>
        /\ pc = [w \in Workers |-> "idle"]
        /\ slots = [w \in Workers |-> 0]
        /\ todo = [w \in Workers |-> {}]
        /\ cur \in [Workers -> Tenants]
        /\ job = [w \in Workers |-> NoJob]
        /\ faultsLeft = MaxFaults

Goto(w, label) == pc' = [pc EXCEPT ![w] = label]

-----------------------------------------------------------------------------
(* The producers: enqueue_task, Celery Beat, every other sender.           *)

\* RPUSH and SADD run as one MULTI/EXEC transaction.
Submit(j) == /\ ~ InSystem(j)
             /\ queue' = [queue EXCEPT ![Owner[j]] = Append(@, j)]
             /\ members' = members \cup {Owner[j]}
             /\ UNCHANGED <<lock, celery, pc, registers, faultsLeft>>

\* Without SlowDispatch a second run_fair_dispatch can only pile up behind
\* a worker that is busy with a longer task.
Beat == /\ Waiting(Dispatch) < MaxBacklog
        /\ \/ SlowDispatch
           \/ \E w \in Workers : pc[w] = "busy"
           \/ Waiting(Dispatch) = 0 /\ \A w \in Workers : pc[w] = "idle"
        /\ celery' = Append(celery, Dispatch)
        /\ UNCHANGED <<queue, members, lock, pc, registers, faultsLeft>>

\* A retry, a redelivered message (it returns to the head) or the daily
\* refresh: it takes part in LLEN celery, and a worker runs it.
OtherMessage == /\ faultsLeft > 0
                /\ faultsLeft' = faultsLeft - 1
                /\ \/ celery' = Append(celery, OtherTask)
                   \/ celery' = <<OtherTask>> \o celery
                /\ UNCHANGED <<queue, members, lock, pc, registers>>

-----------------------------------------------------------------------------
(* The consumers.                                                          *)

\* worker_prefetch_multiplier = 1 and acks_late: no message is reserved
\* while another one runs.
Fetch(w) == /\ pc[w] = "idle" /\ celery # <<>>
            /\ celery' = Tail(celery)
            /\ Goto(w, IF Head(celery) = Dispatch THEN "setnx" ELSE "busy")
            /\ UNCHANGED <<queue, members, lock, registers, faultsLeft>>

FinishRun(w) == /\ pc[w] = "busy"
                /\ Goto(w, "idle")
                /\ UNCHANGED <<redis, registers, faultsLeft>>

-----------------------------------------------------------------------------
(* dispatch_fair_batch, one Redis call per step.                           *)

\* Wrong variant: SET without NX.
AcquireLockWithoutNX(w) == /\ pc[w] = "setnx"
                           /\ Goto(w, "depth")
                           /\ lock' = TRUE
                           /\ UNCHANGED <<queue, members, celery, registers, faultsLeft>>

\* SET fairq:dispatch_lock NX EX 10; a dispatch that finds it set returns 0.
AcquireLock(w) == /\ pc[w] = "setnx"
                  /\ Goto(w, IF lock THEN "idle" ELSE "depth")
                  /\ lock' = TRUE
                  /\ UNCHANGED <<queue, members, celery, registers, faultsLeft>>

\* Wrong variant: the messages already waiting in Celery are not subtracted.
ReadDepthAsLimit(w) == /\ pc[w] = "depth"
                       /\ slots' = [slots EXCEPT ![w] = MaxDepth]
                       /\ Goto(w, IF Len(celery) < MaxDepth THEN "smembers" ELSE "unlock")
                       /\ UNCHANGED <<redis, todo, cur, job, faultsLeft>>

\* LLEN celery counts every waiting message, not only ingestion jobs.
ReadDepth(w) == /\ pc[w] = "depth"
                /\ slots' = [slots EXCEPT ![w] =
                     IF Len(celery) < MaxDepth THEN MaxDepth - Len(celery) ELSE 0]
                /\ Goto(w, IF Len(celery) < MaxDepth THEN "smembers" ELSE "unlock")
                /\ UNCHANGED <<redis, todo, cur, job, faultsLeft>>

ReadMembers(w) == /\ pc[w] = "smembers"
                  /\ todo' = [todo EXCEPT ![w] = members]
                  /\ Goto(w, IF members = {} THEN "unlock" ELSE "lpop")
                  /\ UNCHANGED <<redis, slots, cur, job, faultsLeft>>

\* Wrong variant: the loop does not stop when the slots are used up.
LoopOverAllTenants(w) == todo[w] = {}

\* for tenant_id in sorted(tenant_ids): if dispatched >= available_slots: break
LoopOver(w) == todo[w] = {} \/ slots[w] = 0

AtUnlock(w) == pc[w] = "unlock" \/ (pc[w] = "lpop" /\ LoopOver(w))

First(S) == CHOOSE t \in S : \A u \in S : t <= u

PopTask(w) == /\ pc[w] = "lpop" /\ ~ LoopOver(w)
              /\ LET t == First(todo[w]) IN
                 /\ todo' = [todo EXCEPT ![w] = @ \ {t}]
                 /\ cur' = [cur EXCEPT ![w] = t]
                 /\ IF queue[t] = <<>>
                    THEN /\ Goto(w, "srem")
                         /\ UNCHANGED <<queue, job>>
                    ELSE /\ Goto(w, "send")
                         /\ job' = [job EXCEPT ![w] = Head(queue[t])]
                         /\ queue' = [queue EXCEPT ![t] = Tail(@)]
              /\ UNCHANGED <<members, lock, celery, slots, faultsLeft>>

SendTask(w) == /\ pc[w] = "send"
               /\ celery' = Append(celery, job[w])
               /\ job' = [job EXCEPT ![w] = NoJob]
               /\ slots' = [slots EXCEPT ![w] = @ - 1]
               /\ Goto(w, "llen")
               /\ UNCHANGED <<queue, members, lock, todo, cur, faultsLeft>>

CheckRemaining(w) == /\ pc[w] = "llen"
                     /\ Goto(w, IF queue[cur[w]] = <<>> THEN "srem" ELSE "lpop")
                     /\ UNCHANGED <<redis, registers, faultsLeft>>

\* SREM follows LPOP or LLEN as a call of its own.
RemoveTenant(w) == /\ pc[w] = "srem"
                   /\ members' = members \ {cur[w]}
                   /\ Goto(w, "lpop")
                   /\ UNCHANGED <<queue, lock, celery, registers, faultsLeft>>

\* DEL fairq:dispatch_lock in the inner finally, whoever set the key.
ReleaseLock(w) == /\ AtUnlock(w)
                  /\ lock' = FALSE
                  /\ Goto(w, "idle")
                  /\ UNCHANGED <<queue, members, celery, registers, faultsLeft>>

-----------------------------------------------------------------------------
(* Failures.                                                               *)

\* An exception leads to the inner finally, if the try was entered.
Unwind(w) == /\ faultsLeft > 0
             /\ faultsLeft' = faultsLeft - 1
             /\ job' = [job EXCEPT ![w] = NoJob]
             /\ Goto(w, IF pc[w] = "setnx" \/ AtUnlock(w) THEN "idle" ELSE "unlock")

\* The call raises without having reached Redis.
CallFails(w) == /\ pc[w] \in CriticalPCs \cup {"setnx"}
                /\ Unwind(w)
                /\ UNCHANGED <<redis, slots, todo, cur>>

\* Wrong variant: a failed send_task puts the job back on its tenant's list.
ReplyLostRequeues(w) == /\ pc[w] = "send"
                        /\ Unwind(w)
                        /\ celery' = Append(celery, job[w])
                        /\ queue' = [queue EXCEPT ![Owner[job[w]]] = <<job[w]>> \o @]
                        /\ UNCHANGED <<members, lock, slots, todo, cur>>

\* The call took effect and its answer is lost; pc[w] says which call it was.
ReplyLost(w) == /\ Unwind(w)
                /\ \/ /\ pc[w] = "setnx"
                      /\ lock' = TRUE
                      /\ UNCHANGED <<queue, members, celery>>
                   \/ /\ pc[w] = "lpop" /\ ~ LoopOver(w)
                      /\ queue[First(todo[w])] # <<>>
                      /\ queue' = [queue EXCEPT ![First(todo[w])] = Tail(@)]
                      /\ UNCHANGED <<members, lock, celery>>
                   \/ /\ pc[w] = "send"
                      /\ celery' = Append(celery, job[w])
                      /\ UNCHANGED <<queue, members, lock>>
                   \/ /\ pc[w] = "srem"
                      /\ members' = members \ {cur[w]}
                      /\ UNCHANGED <<queue, lock, celery>>
                /\ UNCHANGED <<slots, todo, cur>>

\* The process dies. Its unacknowledged message may come back: a dispatch as
\* such, a job as a message the scheduler no longer accounts for.
Crash(w) == /\ pc[w] # "idle" /\ faultsLeft > 0
            /\ faultsLeft' = faultsLeft - 1
            /\ job' = [job EXCEPT ![w] = NoJob]
            /\ Goto(w, "idle")
            /\ \/ celery' = celery
               \/ celery' = <<IF pc[w] = "busy" THEN OtherTask ELSE Dispatch>> \o celery
            /\ UNCHANGED <<queue, members, lock, slots, todo, cur>>

\* Wrong variant: SET without EX.
LockNeverExpires == FALSE /\ UNCHANGED vars

\* The key's ten seconds run out. Without SlowDispatch no dispatch under way
\* lasts that long: the owner is gone.
LockExpires == /\ lock
               /\ SlowDispatch \/ \A w \in Workers : ~ InDispatch(w)
               /\ lock' = FALSE
               /\ UNCHANGED <<queue, members, celery, pc, registers, faultsLeft>>

-----------------------------------------------------------------------------
DispatchStep(w) == \/ AcquireLock(w) \/ ReadDepth(w) \/ ReadMembers(w)
                   \/ PopTask(w) \/ SendTask(w) \/ CheckRemaining(w)
                   \/ RemoveTenant(w) \/ ReleaseLock(w)

Next == \/ \E j \in Jobs : Submit(j)
        \/ Beat \/ OtherMessage \/ LockExpires
        \/ \E w \in Workers : \/ Fetch(w) \/ FinishRun(w)
                              \/ DispatchStep(w)
                              \/ CallFails(w) \/ ReplyLost(w) \/ Crash(w)

Spec == Init /\ [][Next]_vars

\* Beat and the workers keep running and the key keeps its TTL; nobody has
\* to submit anything, and nothing has to fail.
Fairness == /\ WF_vars(Beat) /\ WF_vars(LockExpires)
            /\ \A w \in Workers : /\ WF_vars(Fetch(w)) /\ WF_vars(FinishRun(w))
                                  /\ WF_vars(DispatchStep(w))

FairSpec == Spec /\ Fairness

-----------------------------------------------------------------------------
(* Properties.                                                             *)

\* Every variable has the values its Redis key or Python variable can have;
\* a payload is in a worker's hands exactly between LPOP and send_task.
TypeOK == /\ queue \in [Tenants -> Seq(Jobs)]
          /\ members \subseteq Tenants
          /\ lock \in BOOLEAN
          /\ celery \in Seq(Messages)
          /\ pc \in [Workers -> PCs]
          /\ slots \in [Workers -> 0..MaxDepth]
          /\ todo \in [Workers -> SUBSET Tenants]
          /\ cur \in [Workers -> Tenants]
          /\ job \in [Workers -> Jobs \cup {NoJob}]
          /\ faultsLeft \in 0..MaxFaults
          /\ \A w \in Workers : pc[w] = "send" <=> job[w] # NoJob
          /\ \A w \in Workers : pc[w] = "send" => slots[w] > 0

NoRepeat(s) == \A i, k \in DOMAIN s : s[i] \in Jobs /\ s[i] = s[k] => i = k

\* A job is in one place only, whatever dispatchers overlap and whatever
\* fails: never twice on a list, never on a list and in a worker's hands, never
\* sent twice. LPOP before send_task is what makes it so.
SingleCopy ==
  /\ \A t \in Tenants : /\ NoRepeat(queue[t])
                        /\ \A j \in Jobs : InSeq(queue[t], j) => Owner[j] = t
  /\ NoRepeat(celery)
  /\ \A j \in Jobs : ~ (InSeq(queue[Owner[j]], j) /\ InSeq(celery, j))
  /\ \A w \in Workers : pc[w] = "send" =>
       /\ ~ InSeq(queue[Owner[job[w]]], job[w])
       /\ ~ InSeq(celery, job[w])
       /\ \A v \in Workers : Holds(v, job[w]) => v = w

\* At most one dispatch is between taking and deleting the lock, as long as
\* none outlasts the key's TTL: the unconditional DEL in the finally block,
\* a lost answer and a crash never let a second one in.
MutualExclusion == \A v, w \in Workers : InDispatch(v) /\ InDispatch(w) => v = w

\* The jobs of t that no worker has been handed: the popped one comes first.
Pending(t) == LET h == {w \in Workers : pc[w] = "send" /\ Owner[job[w]] = t}
              IN (IF h = {} THEN <<>> ELSE <<job[CHOOSE w \in h : TRUE]>>) \o queue[t]

\* The jobs among the messages s, in their order.
JobsIn(s) ==
  LET upTo[n \in 0..Len(s)] ==
        IF n = 0 THEN <<>>
        ELSE IF s[n] \in Jobs THEN Append(upTo[n - 1], s[n]) ELSE upTo[n - 1]
  IN upTo[Len(s)]

TQ == INSTANCE TenantQueues
        WITH pending <- [t \in Tenants |-> Pending(t)],
             handed <- JobsIn(celery),
             Capacity <- MaxDepth

\* The scheduler keeps the promise of TenantQueues: per-tenant FIFO, jobs
\* started in the order handed over, never more than MaxDepth of them waiting
\* in Celery, none lost or doubled but by a failure.
ImplementsTenantQueues == TQ!Spec

\* fairq:tenants holds every tenant with queued jobs, as its description in
\* the module's header says: "set of tenant IDs with pending work".
PendingTenantsListed == \A t \in Tenants : queue[t] # <<>> => t \in members

Queued(j) == InSeq(queue[Owner[j]], j)
Eligible(j) == Queued(j) /\ Owner[j] \in members

\* A listed tenant's job is not left waiting for ever if the tenants that sort
\* before its own run out of jobs: no lock left by a dead dispatch, no overlap
\* and no failure stops the scheduler, provided that waiting run_fair_dispatch
\* messages, which LLEN counts too, never use up all slots (MaxBacklog < MaxDepth).
ServedOnceEarlierTenantsDrain ==
  \A j \in Jobs :
    <>[](\A t \in Tenants : t < Owner[j] => queue[t] = <<>>)
      => []<>(~ Eligible(j))

\* The header's promise that no "single tenant" starves others: a listed
\* tenant's job is not left waiting for ever.
NoStarvation == \A j \in Jobs : []<>(~ Eligible(j))
=============================================================================
