------------------------ MODULE FairSchedulerProofs ------------------------
(***************************************************************************)
(* Proofs about FairScheduler, for any number of tenants, jobs, workers    *)
(* and faults.                                                             *)
(***************************************************************************)
EXTENDS FairScheduler, TLAPS, WellFoundedInduction, SequenceTheorems

USE DEF CriticalPCs, PCs, Messages, InDispatch, Goto, redis, registers

-----------------------------------------------------------------------------
(* The operators of the model.                                             *)

\* sorted() of a non-empty set has a first element.
LEMMA FirstInSet ==
  ASSUME NEW S \in SUBSET Nat, S # {}
  PROVE  First(S) \in S /\ \A u \in S : First(S) <= u
<1> DEFINE R == {ss \in Nat \X Nat : ss[1] < ss[2]}
<1>1. IsWellFoundedOn(R, Nat)
  BY NatLessThanWellFounded DEF OpToRel
<1>2. PICK x \in S : \A y \in S : <<y, x>> \notin R
  BY <1>1, WFMin
<1>3. ASSUME NEW y \in S PROVE x <= y
  <2>1. <<y, x>> \in Nat \X Nat /\ <<y, x>> \notin R
    BY <1>2
  <2>2. ~ (y < x)
    BY <2>1 DEF R
  <2> QED
    BY <2>2
<1> QED
  BY <1>3 DEF First

\* Adding a message at either end of the Celery queue.
LEMMA PushKeepsType ==
  ASSUME NEW s \in Seq(Messages), NEW m \in Messages
  PROVE  Append(s, m) \in Seq(Messages) /\ <<m>> \o s \in Seq(Messages)
  OBVIOUS

\* What RPUSH and LPOP do to the elements of a list, and to its being free of
\* repeated jobs.
LEMMA AppendElements ==
  ASSUME NEW s \in Seq(Messages), NEW m \in Messages
  PROVE  /\ \A e : InSeq(Append(s, m), e) <=> InSeq(s, e) \/ e = m
         /\ NoRepeat(s) /\ (m \in Jobs => ~ InSeq(s, m)) => NoRepeat(Append(s, m))
<1>1. /\ Len(Append(s, m)) = Len(s) + 1 /\ Len(s) \in Nat
      /\ DOMAIN s = 1..Len(s) /\ DOMAIN Append(s, m) = 1..(Len(s) + 1)
      /\ \A i \in 1..Len(s) : Append(s, m)[i] = s[i]
      /\ Append(s, m)[Len(s) + 1] = m
  OBVIOUS
<1> QED
  BY <1>1 DEF InSeq, NoRepeat

LEMMA PrependElements ==
  ASSUME NEW s \in Seq(Messages), NEW m \in Messages \ Jobs
  PROVE  /\ \A e \in Jobs : InSeq(<<m>> \o s, e) <=> InSeq(s, e)
         /\ NoRepeat(s) => NoRepeat(<<m>> \o s)
<1>1. /\ DOMAIN s = 1..Len(s) /\ DOMAIN (<<m>> \o s) = 1..(Len(s) + 1)
      /\ Len(s) \in Nat /\ (<<m>> \o s)[1] = m
      /\ \A i \in 1..Len(s) : (<<m>> \o s)[i + 1] = s[i]
  OBVIOUS
<1>2. \A i \in DOMAIN (<<m>> \o s) : i = 1 \/ (i - 1 \in DOMAIN s /\ (<<m>> \o s)[i] = s[i - 1])
  BY <1>1
<1>3. ASSUME NEW e \in Jobs PROVE InSeq(<<m>> \o s, e) <=> InSeq(s, e)
  <2>1. ASSUME NEW i \in DOMAIN s, s[i] = e PROVE InSeq(<<m>> \o s, e)
    <3>1. i + 1 \in DOMAIN (<<m>> \o s) /\ (<<m>> \o s)[i + 1] = e
      BY <1>1, <2>1
    <3> QED
      BY <3>1 DEF InSeq
  <2>2. InSeq(<<m>> \o s, e) => InSeq(s, e)
    BY <1>1, <1>2 DEF InSeq
  <2> QED
    BY <2>1, <2>2 DEF InSeq
<1>4. NoRepeat(s) => NoRepeat(<<m>> \o s)
  BY <1>1, <1>2 DEF NoRepeat
<1> QED
  BY <1>3, <1>4

LEMMA TailElements ==
  ASSUME NEW s \in Seq(Messages), s # <<>>
  PROVE  /\ \A e : InSeq(Tail(s), e) => InSeq(s, e)
         /\ InSeq(s, Head(s))
         /\ NoRepeat(s) => NoRepeat(Tail(s))
         /\ NoRepeat(s) /\ Head(s) \in Jobs => ~ InSeq(Tail(s), Head(s))
<1>1. /\ Len(s) \in Nat \ {0} /\ DOMAIN s = 1..Len(s)
      /\ DOMAIN Tail(s) = 1..(Len(s) - 1) /\ Head(s) = s[1]
      /\ \A i \in 1..(Len(s) - 1) : Tail(s)[i] = s[i + 1]
  OBVIOUS
<1>2. \A e : InSeq(Tail(s), e) => InSeq(s, e)
  BY <1>1 DEF InSeq
<1>3. InSeq(s, Head(s))
  BY <1>1 DEF InSeq
<1>4. NoRepeat(s) => NoRepeat(Tail(s))
  BY <1>1 DEF NoRepeat
<1>5. NoRepeat(s) /\ Head(s) \in Jobs => ~ InSeq(Tail(s), Head(s))
  BY <1>1 DEF NoRepeat, InSeq
<1> QED
  BY <1>2, <1>3, <1>4, <1>5

-----------------------------------------------------------------------------
(* Every variable keeps its type.                                          *)

LEMMA TypeStep ==
  ASSUME TypeOK, [Next]_vars
  PROVE  TypeOK'
<1>q. queue \in [Tenants -> Seq(Jobs)] /\ celery \in Seq(Messages)
  BY DEF TypeOK
<1>r. /\ slots \in [Workers -> 0..MaxDepth] /\ todo \in [Workers -> SUBSET Tenants]
      /\ cur \in [Workers -> Tenants] /\ job \in [Workers -> Jobs \cup {NoJob}]
      /\ pc \in [Workers -> PCs]
      /\ \A w \in Workers : /\ pc[w] = "send" <=> job[w] # NoJob
                            /\ pc[w] = "send" => slots[w] > 0
  BY DEF TypeOK
<1>s. members \subseteq Tenants /\ lock \in BOOLEAN /\ faultsLeft \in 0..MaxFaults
  BY DEF TypeOK
<1>1. ASSUME NEW j \in Jobs, Submit(j) PROVE TypeOK'
  <2>1. Owner[j] \in Tenants
    BY OwnerAssumption
  <2>2. Append(queue[Owner[j]], j) \in Seq(Jobs)
    BY <1>q, <2>1
  <2>3. queue' \in [Tenants -> Seq(Jobs)]
    BY <1>1, <1>q, <2>2 DEF Submit
  <2>4. members' \subseteq Tenants
    BY <1>1, <1>s, <2>1 DEF Submit
  <2> QED
    BY <1>1, <2>3, <2>4 DEF Submit, TypeOK
<1>2. CASE Beat
  <2>1. celery' \in Seq(Messages)
    BY <1>2, <1>q DEF Beat
  <2> QED
    BY <1>2, <2>1 DEF Beat, TypeOK
<1>3. CASE OtherMessage
  <2>1. celery' \in Seq(Messages)
    BY <1>3, PushKeepsType, <1>q DEF OtherMessage
  <2>2. faultsLeft' \in 0..MaxFaults
    BY <1>3, <1>s, BoundsAssumption DEF OtherMessage
  <2> QED
    BY <1>3, <2>1, <2>2 DEF OtherMessage, TypeOK
<1>4. CASE LockExpires
  <2>1. lock' \in BOOLEAN
    BY <1>4, Zenon DEF LockExpires
  <2> QED
    BY <1>4, <2>1 DEF LockExpires, TypeOK
<1>5. ASSUME NEW w \in Workers, Fetch(w) PROVE TypeOK'
  <2>1. celery' \in Seq(Messages)
    BY <1>5, <1>q DEF Fetch
  <2>2. /\ pc' \in [Workers -> PCs]
        /\ \A v \in Workers : pc'[v] = "send" <=> pc[v] = "send"
    BY <1>5, <1>r DEF Fetch
  <2> QED
    BY <1>5, <2>1, <2>2 DEF Fetch, TypeOK
<1>6. ASSUME NEW w \in Workers, FinishRun(w) PROVE TypeOK'
  BY <1>6 DEF FinishRun, TypeOK
<1>7. ASSUME NEW w \in Workers, AcquireLock(w) PROVE TypeOK'
  <2>1. lock' \in BOOLEAN
    BY <1>7, Zenon DEF AcquireLock
  <2>2. /\ pc' \in [Workers -> PCs]
        /\ \A v \in Workers : pc'[v] = "send" <=> pc[v] = "send"
    BY <1>7, <1>r DEF AcquireLock
  <2> QED
    BY <1>7, <2>1, <2>2 DEF AcquireLock, TypeOK
<1>8. ASSUME NEW w \in Workers, ReadDepth(w) PROVE TypeOK'
  <2>1. Len(celery) \in Nat
    BY <1>q
  <2>2. slots' \in [Workers -> 0..MaxDepth]
    BY <1>8, <1>r, <2>1, BoundsAssumption DEF ReadDepth
  <2>3. /\ pc' \in [Workers -> PCs]
        /\ \A v \in Workers : pc'[v] = "send" <=> pc[v] = "send"
        /\ \A v \in Workers : pc'[v] = "send" => slots'[v] > 0
    BY <1>8, <1>r DEF ReadDepth
  <2> QED
    BY <1>8, <2>2, <2>3 DEF ReadDepth, TypeOK
<1>9. ASSUME NEW w \in Workers, ReadMembers(w) PROVE TypeOK'
  <2>1. todo' \in [Workers -> SUBSET Tenants]
    BY <1>9, <1>r, <1>s DEF ReadMembers
  <2>2. /\ pc' \in [Workers -> PCs]
        /\ \A v \in Workers : pc'[v] = "send" <=> pc[v] = "send"
    BY <1>9, <1>r DEF ReadMembers
  <2> QED
    BY <1>9, <2>1, <2>2 DEF ReadMembers, TypeOK
<1>10. ASSUME NEW w \in Workers, PopTask(w) PROVE TypeOK'
  <2> DEFINE t == First(todo[w])
  <2>1. t \in Tenants /\ slots[w] > 0 /\ pc[w] = "lpop"
    BY <1>10, <1>r, FirstInSet, TenantsAssumption DEF PopTask, LoopOver
  <2> HIDE DEF t
  <2>2. todo' \in [Workers -> SUBSET Tenants] /\ cur' \in [Workers -> Tenants]
    BY <1>10, <1>r, <2>1 DEF PopTask, t
  <2>3. CASE queue[t] = <<>>
    <3>1. /\ pc' \in [Workers -> PCs]
          /\ \A v \in Workers : pc'[v] = "send" <=> pc[v] = "send"
          /\ UNCHANGED <<queue, job>>
      BY <1>10, <1>r, <2>1, <2>3 DEF PopTask, t
    <3> QED
      BY <1>10, <2>2, <3>1 DEF PopTask, TypeOK
  <2>4. CASE queue[t] # <<>>
    <3>1. Head(queue[t]) \in Jobs /\ Tail(queue[t]) \in Seq(Jobs)
      BY <1>q, <2>1, <2>4
    <3>2. queue' \in [Tenants -> Seq(Jobs)]
      BY <1>10, <1>q, <2>4, <3>1 DEF PopTask, t
    <3>3. /\ pc' = [pc EXCEPT ![w] = "send"]
          /\ job' = [job EXCEPT ![w] = Head(queue[t])]
      BY <1>10, <2>4 DEF PopTask, t
    <3>4. /\ pc' \in [Workers -> PCs] /\ job' \in [Workers -> Jobs \cup {NoJob}]
          /\ \A v \in Workers : /\ pc'[v] = "send" <=> job'[v] # NoJob
                                /\ pc'[v] = "send" => slots[v] > 0
      BY <1>r, <2>1, <3>1, <3>3, MessagesAssumption
    <3> QED
      BY <1>10, <2>2, <3>2, <3>4 DEF PopTask, TypeOK
  <2> QED
    BY <2>3, <2>4
<1>11. ASSUME NEW w \in Workers, SendTask(w) PROVE TypeOK'
  <2>1. job[w] \in Messages /\ slots[w] > 0
    BY <1>11, <1>r DEF SendTask
  <2>2. celery' \in Seq(Messages)
    BY <1>11, <1>q, <2>1 DEF SendTask
  <2>3. slots' \in [Workers -> 0..MaxDepth]
    BY <1>11, <1>r, <2>1, BoundsAssumption DEF SendTask
  <2>4. /\ pc' \in [Workers -> PCs] /\ job' \in [Workers -> Jobs \cup {NoJob}]
        /\ \A v \in Workers : /\ pc'[v] = "send" <=> job'[v] # NoJob
                              /\ pc'[v] = "send" => slots'[v] > 0
    BY <1>11, <1>r DEF SendTask
  <2> QED
    BY <1>11, <2>2, <2>3, <2>4 DEF SendTask, TypeOK
<1>12. ASSUME NEW w \in Workers, CheckRemaining(w) PROVE TypeOK'
  BY <1>12 DEF CheckRemaining, TypeOK
<1>13. ASSUME NEW w \in Workers, RemoveTenant(w) PROVE TypeOK'
  BY <1>13 DEF RemoveTenant, TypeOK
<1>14. ASSUME NEW w \in Workers, ReleaseLock(w) PROVE TypeOK'
  <2>1. lock' \in BOOLEAN
    BY <1>14, Zenon DEF ReleaseLock
  <2>2. /\ pc' \in [Workers -> PCs]
        /\ \A v \in Workers : pc'[v] = "send" <=> pc[v] = "send"
    BY <1>14, <1>r DEF ReleaseLock, AtUnlock
  <2> QED
    BY <1>14, <2>1, <2>2 DEF ReleaseLock, TypeOK
<1>15. ASSUME NEW w \in Workers, Unwind(w)
       PROVE  /\ faultsLeft' \in 0..MaxFaults
              /\ pc' \in [Workers -> PCs] /\ job' \in [Workers -> Jobs \cup {NoJob}]
              /\ \A v \in Workers : /\ pc'[v] = "send" <=> job'[v] # NoJob
                                    /\ pc'[v] = "send" => slots[v] > 0
  BY <1>15, <1>r, <1>s, BoundsAssumption DEF Unwind
<1>16. ASSUME NEW w \in Workers, CallFails(w) PROVE TypeOK'
  BY <1>15, <1>16 DEF CallFails, TypeOK
<1>17. ASSUME NEW w \in Workers, ReplyLost(w) PROVE TypeOK'
  <2>1. Unwind(w) /\ UNCHANGED <<slots, todo, cur>>
    BY <1>17 DEF ReplyLost
  <2>2. queue' \in [Tenants -> Seq(Jobs)] /\ celery' \in Seq(Messages)
    <3>1. CASE UNCHANGED <<queue, celery>>
      BY <1>q, <3>1
    <3>2. CASE pc[w] = "send" /\ celery' = Append(celery, job[w]) /\ queue' = queue
      <4>1. job[w] \in Messages
        BY <1>r, <3>2
      <4> QED
        BY <1>q, <3>2, <4>1
    <3>3. CASE /\ ~ LoopOver(w) /\ queue[First(todo[w])] # <<>> /\ celery' = celery
               /\ queue' = [queue EXCEPT ![First(todo[w])] = Tail(@)]
      <4>1. First(todo[w]) \in Tenants
        BY <1>r, <3>3, FirstInSet, TenantsAssumption DEF LoopOver
      <4>2. Tail(queue[First(todo[w])]) \in Seq(Jobs)
        BY <1>q, <3>3, <4>1
      <4> QED
        BY <1>q, <3>3, <4>2
    <3> QED
      BY <1>17, <3>1, <3>2, <3>3 DEF ReplyLost
  <2>3. members' \subseteq Tenants
    BY <1>17, <1>s DEF ReplyLost
  <2>4. lock' \in BOOLEAN
    <3>1. lock' = TRUE \/ lock' = lock
      BY <1>17, Zenon DEF ReplyLost
    <3> QED
      BY <1>s, <3>1, Zenon
  <2> QED
    BY <1>15, <2>1, <2>2, <2>3, <2>4 DEF TypeOK
<1>18. ASSUME NEW w \in Workers, Crash(w) PROVE TypeOK'
  <2>1. celery' \in Seq(Messages)
    BY <1>18, <1>q, PushKeepsType DEF Crash
  <2>2. faultsLeft' \in 0..MaxFaults
    BY <1>18, <1>s, BoundsAssumption DEF Crash
  <2>3. /\ pc' \in [Workers -> PCs] /\ job' \in [Workers -> Jobs \cup {NoJob}]
        /\ \A v \in Workers : /\ pc'[v] = "send" <=> job'[v] # NoJob
                              /\ pc'[v] = "send" => slots[v] > 0
    BY <1>18, <1>r DEF Crash
  <2> QED
    BY <1>18, <2>1, <2>2, <2>3 DEF Crash, TypeOK
<1>19. CASE UNCHANGED vars
  BY <1>19 DEF vars, TypeOK
<1> QED
  BY <1>1, <1>2, <1>3, <1>4, <1>5, <1>6, <1>7, <1>8, <1>9, <1>10, <1>11, <1>12,
     <1>13, <1>14, <1>16, <1>17, <1>18, <1>19 DEF Next, DispatchStep

LEMMA TypeInit == Init => TypeOK
<1> SUFFICES ASSUME Init PROVE TypeOK
  OBVIOUS
<1> USE DEF Init
<1>1. queue \in [Tenants -> Seq(Jobs)] /\ celery \in Seq(Messages)
  BY EmptySeq
<1>2. pc \in [Workers -> PCs] /\ slots \in [Workers -> 0..MaxDepth]
  BY BoundsAssumption
<1>3. todo \in [Workers -> SUBSET Tenants] /\ job \in [Workers -> Jobs \cup {NoJob}]
  OBVIOUS
<1>4. \A w \in Workers : pc[w] = "idle" /\ job[w] = NoJob
  OBVIOUS
<1>5. faultsLeft \in 0..MaxFaults /\ members \subseteq Tenants
  BY BoundsAssumption
<1>7. lock \in BOOLEAN
  BY Zenon
<1>6. \A w \in Workers : pc[w] # "send"
  BY <1>4
<1> QED
  BY <1>1, <1>2, <1>3, <1>4, <1>5, <1>6, <1>7 DEF TypeOK

\* Every Redis key and every register keeps its type, and a payload is in a
\* worker's hands exactly between LPOP and send_task.
THEOREM TypeCorrect == Spec => []TypeOK
<1>1. TypeOK /\ [Next]_vars => TypeOK'
  BY TypeStep
<1> QED
  BY <1>1, TypeInit, PTL DEF Spec

\* A tenant's list has jobs of this tenant only.
OwnLists == \A t \in Tenants : \A j \in Jobs : InSeq(queue[t], j) => Owner[j] = t

LEMMA OwnListsStep ==
  ASSUME TypeOK, OwnLists, [Next]_vars
  PROVE  OwnLists'
<1>q. /\ queue \in [Tenants -> Seq(Jobs)] /\ todo \in [Workers -> SUBSET Tenants]
      /\ Jobs \subseteq Messages
  BY DEF TypeOK
<1>k. ASSUME queue' = queue PROVE OwnLists'
  BY <1>k DEF OwnLists
<1>t. ASSUME NEW t \in Tenants, queue[t] # <<>>, queue' = [queue EXCEPT ![t] = Tail(@)]
      PROVE  OwnLists'
  <2>1. \A u \in Tenants : queue'[u] = IF u = t THEN Tail(queue[t]) ELSE queue[u]
    BY <1>q, <1>t
  <2>2. queue[t] \in Seq(Messages)
    BY <1>q, SeqMonotonic
  <2>3. \A j : InSeq(Tail(queue[t]), j) => InSeq(queue[t], j)
    BY <1>t, <2>2, TailElements
  <2> QED
    BY <2>1, <2>3 DEF OwnLists
<1>f. ASSUME NEW w \in Workers, ~ LoopOver(w) PROVE First(todo[w]) \in Tenants
  BY <1>f, <1>q, FirstInSet, TenantsAssumption DEF LoopOver
<1>1. ASSUME NEW j \in Jobs, Submit(j) PROVE OwnLists'
  <2> DEFINE t == Owner[j]
  <2>1. t \in Tenants
    BY OwnerAssumption
  <2>2. \A u \in Tenants : queue'[u] = IF u = t THEN Append(queue[t], j) ELSE queue[u]
    BY <1>1, <1>q, <2>1 DEF Submit
  <2>3. queue[t] \in Seq(Messages)
    BY <1>q, <2>1, SeqMonotonic
  <2>4. \A e : InSeq(Append(queue[t], j), e) <=> InSeq(queue[t], e) \/ e = j
    BY <1>q, <2>3, AppendElements
  <2> QED
    BY <2>1, <2>2, <2>4 DEF OwnLists
<1>2. ASSUME NEW w \in Workers, PopTask(w) PROVE OwnLists'
  BY <1>2, <1>f, <1>k, <1>t DEF PopTask
<1>3. ASSUME NEW w \in Workers, ReplyLost(w) PROVE OwnLists'
  BY <1>3, <1>f, <1>k, <1>t DEF ReplyLost
<1>4. CASE Beat \/ OtherMessage \/ LockExpires \/ UNCHANGED vars
  BY <1>4, <1>k DEF Beat, OtherMessage, LockExpires, vars
<1>5. ASSUME NEW w \in Workers,
             \/ Fetch(w) \/ FinishRun(w) \/ AcquireLock(w) \/ ReadDepth(w)
             \/ ReadMembers(w) \/ SendTask(w) \/ CheckRemaining(w) \/ RemoveTenant(w)
             \/ ReleaseLock(w) \/ CallFails(w) \/ Crash(w)
      PROVE  OwnLists'
  BY <1>5, <1>k DEF Fetch, FinishRun, AcquireLock, ReadDepth, ReadMembers, SendTask,
                    CheckRemaining, RemoveTenant, ReleaseLock, CallFails, Crash
<1> QED
  BY <1>1, <1>2, <1>3, <1>4, <1>5 DEF Next, DispatchStep

-----------------------------------------------------------------------------
(* A job is in one place only.                                             *)

\* A step that adds no job to a list, to the Celery queue or to a worker's
\* hands cannot make a second copy.
LEMMA NothingAdded ==
  ASSUME TypeOK, SingleCopy,
         \A t \in Tenants : /\ NoRepeat(queue[t]) => NoRepeat(queue'[t])
                            /\ \A j \in Jobs : InSeq(queue'[t], j) => InSeq(queue[t], j),
         NoRepeat(celery) => NoRepeat(celery'),
         \A j \in Jobs : InSeq(celery', j) => InSeq(celery, j),
         \A w \in Workers : pc'[w] = "send" => pc[w] = "send" /\ job'[w] = job[w]
  PROVE  SingleCopy'
<1>1. \A j \in Jobs : Owner[j] \in Tenants
  BY OwnerAssumption
<1>2. \A w \in Workers : pc[w] = "send" => job[w] \in Jobs
  BY DEF TypeOK
<1>3. \A t \in Tenants : /\ NoRepeat(queue'[t])
                         /\ \A j \in Jobs : InSeq(queue'[t], j) => Owner[j] = t
  BY DEF SingleCopy
<1>4. NoRepeat(celery')
  BY DEF SingleCopy
<1>5. \A j \in Jobs : ~ (InSeq(queue'[Owner[j]], j) /\ InSeq(celery', j))
  BY <1>1 DEF SingleCopy
<1>6. ASSUME NEW w \in Workers, pc'[w] = "send"
      PROVE  /\ ~ InSeq(queue'[Owner[job'[w]]], job'[w])
             /\ ~ InSeq(celery', job'[w])
             /\ \A v \in Workers : pc'[v] = "send" /\ job'[v] = job'[w] => v = w
  BY <1>1, <1>2, <1>6 DEF SingleCopy, Holds
<1> QED
  BY <1>3, <1>4, <1>5, <1>6 DEF SingleCopy, Holds

\* Sending the job in hand moves it from the worker to the Celery queue.
LEMMA SendingKeepsSingleCopy ==
  ASSUME TypeOK, SingleCopy, NEW w \in Workers, pc[w] = "send",
         celery' = Append(celery, job[w]), UNCHANGED queue,
         \A v \in Workers : pc'[v] = "send" => v # w /\ pc[v] = "send" /\ job'[v] = job[v]
  PROVE  SingleCopy'
<1>1. job[w] \in Jobs /\ celery \in Seq(Messages)
  BY DEF TypeOK
<1>2. \A v \in Workers : pc[v] = "send" => job[v] \in Jobs
  BY DEF TypeOK
<1>3. /\ \A e : InSeq(celery', e) <=> InSeq(celery, e) \/ e = job[w]
      /\ NoRepeat(celery')
  BY <1>1, AppendElements DEF SingleCopy
<1>4. \A t \in Tenants : /\ NoRepeat(queue'[t])
                         /\ \A j \in Jobs : InSeq(queue'[t], j) => Owner[j] = t
  BY DEF SingleCopy
<1>5. \A j \in Jobs : ~ (InSeq(queue'[Owner[j]], j) /\ InSeq(celery', j))
  BY <1>3 DEF SingleCopy
<1>6. ASSUME NEW v \in Workers, pc'[v] = "send"
      PROVE  /\ ~ InSeq(queue'[Owner[job'[v]]], job'[v])
             /\ ~ InSeq(celery', job'[v])
             /\ \A u \in Workers : pc'[u] = "send" /\ job'[u] = job'[v] => u = v
  <2>1. v # w /\ pc[v] = "send" /\ job'[v] = job[v] /\ job[v] # job[w]
    BY <1>6 DEF SingleCopy, Holds
  <2> QED
    BY <1>3, <2>1 DEF SingleCopy, Holds
<1> QED
  BY <1>3, <1>4, <1>5, <1>6 DEF SingleCopy, Holds

\* No job is ever duplicated, for any number of overlapping dispatches,
\* failed calls, lost answers and crashes.
THEOREM NoJobDuplicated == Spec => []SingleCopy
<1>1. Init => SingleCopy
  <2> SUFFICES ASSUME Init PROVE SingleCopy
    OBVIOUS
  <2>1. \A t \in Tenants : queue[t] = <<>>
    BY DEF Init
  <2>2. celery = <<>> /\ \A w \in Workers : pc[w] # "send"
    BY DEF Init
  <2>3. NoRepeat(<<>>) /\ \A e : ~ InSeq(<<>>, e)
    BY DEF NoRepeat, InSeq
  <2>4. \A j \in Jobs : Owner[j] \in Tenants
    BY OwnerAssumption
  <2> QED
    BY <2>1, <2>2, <2>3, <2>4 DEF SingleCopy
<1>2. TypeOK /\ SingleCopy /\ [Next]_vars => SingleCopy'
  <2> SUFFICES ASSUME TypeOK, SingleCopy, [Next]_vars
               PROVE  SingleCopy'
    OBVIOUS
  <2>q. queue \in [Tenants -> Seq(Jobs)] /\ celery \in Seq(Messages)
    BY DEF TypeOK
  <2>r. /\ pc \in [Workers -> PCs] /\ job \in [Workers -> Jobs \cup {NoJob}]
        /\ todo \in [Workers -> SUBSET Tenants]
        /\ \A w \in Workers : pc[w] = "send" => job[w] \in Jobs
    BY DEF TypeOK
  <2>t. \A t \in Tenants : queue[t] \in Seq(Messages)
    BY <2>q
  <2>m. {Dispatch, OtherTask} \subseteq Messages \ Jobs
    BY MessagesAssumption
  <2>1. ASSUME NEW j \in Jobs, Submit(j) PROVE SingleCopy'
    <3>1. Owner[j] \in Tenants /\ \A i \in Jobs : Owner[i] \in Tenants
      BY OwnerAssumption
    <3>2. /\ ~ InSeq(queue[Owner[j]], j) /\ ~ InSeq(celery, j)
          /\ \A w \in Workers : ~ (pc[w] = "send" /\ job[w] = j)
          /\ UNCHANGED <<celery, pc, job>>
      BY <2>1 DEF Submit, InSystem, Holds
    <3>3. \A t \in Tenants : queue'[t] = IF t = Owner[j] THEN Append(queue[t], j)
                                                         ELSE queue[t]
      BY <2>1, <2>q, <3>1 DEF Submit
    <3>4. /\ \A e : InSeq(queue'[Owner[j]], e) <=> InSeq(queue[Owner[j]], e) \/ e = j
          /\ NoRepeat(queue'[Owner[j]])
      BY <2>t, <3>1, <3>2, <3>3, AppendElements DEF SingleCopy
    <3>5. \A t \in Tenants : /\ NoRepeat(queue'[t])
                             /\ \A i \in Jobs : InSeq(queue'[t], i) => Owner[i] = t
      BY <3>1, <3>3, <3>4 DEF SingleCopy
    <3>6. \A i \in Jobs : InSeq(queue'[Owner[i]], i) => InSeq(queue[Owner[i]], i) \/ i = j
      BY <3>1, <3>3, <3>4
    <3> QED
      BY <2>r, <3>2, <3>5, <3>6 DEF SingleCopy, Holds
  <2>2. CASE Beat
    <3>1. celery' = Append(celery, Dispatch) /\ UNCHANGED <<queue, pc, job>>
      BY <2>2 DEF Beat
    <3> QED
      BY <2>q, <2>m, <3>1, AppendElements, NothingAdded
  <2>3. CASE OtherMessage
    <3>1. /\ celery' = Append(celery, OtherTask) \/ celery' = <<OtherTask>> \o celery
          /\ UNCHANGED <<queue, pc, job>>
      BY <2>3 DEF OtherMessage
    <3>2. /\ NoRepeat(celery) => NoRepeat(celery')
          /\ \A j \in Jobs : InSeq(celery', j) => InSeq(celery, j)
      <4>1. CASE celery' = Append(celery, OtherTask)
        BY <2>q, <2>m, <4>1, AppendElements
      <4>2. CASE celery' = <<OtherTask>> \o celery
        BY <2>q, <2>m, <4>2, PrependElements
      <4> QED
        BY <3>1, <4>1, <4>2
    <3> QED
      BY <3>1, <3>2, NothingAdded
  <2>4. CASE LockExpires
    BY <2>4, NothingAdded DEF LockExpires
  <2>5. ASSUME NEW w \in Workers, Fetch(w) PROVE SingleCopy'
    <3>1. /\ celery # <<>> /\ celery' = Tail(celery) /\ UNCHANGED <<queue, job>>
          /\ \A v \in Workers : pc'[v] = "send" => pc[v] = "send"
      BY <2>5, <2>r DEF Fetch
    <3> QED
      BY <2>q, <3>1, TailElements, NothingAdded
  <2>6. ASSUME NEW w \in Workers,
               \/ FinishRun(w) \/ AcquireLock(w) \/ ReadDepth(w) \/ ReadMembers(w)
               \/ CheckRemaining(w) \/ RemoveTenant(w) \/ ReleaseLock(w)
        PROVE  SingleCopy'
    <3>1. /\ UNCHANGED <<queue, celery, job>>
          /\ \A v \in Workers : pc'[v] = "send" => pc[v] = "send"
      BY <2>6, <2>r DEF FinishRun, AcquireLock, ReadDepth, ReadMembers,
                        CheckRemaining, RemoveTenant, ReleaseLock
    <3> QED
      BY <3>1, NothingAdded
  <2>7. ASSUME NEW w \in Workers, ~ LoopOver(w), queue[First(todo[w])] # <<>>
        PROVE  LET t == First(todo[w])
                   q == [queue EXCEPT ![t] = Tail(@)]
                   j == Head(queue[t])
               IN /\ j \in Jobs /\ InSeq(queue[Owner[j]], j)
                  /\ ~ InSeq(q[Owner[j]], j)
                  /\ \A u \in Tenants :
                       /\ NoRepeat(queue[u]) => NoRepeat(q[u])
                       /\ \A i \in Jobs : InSeq(q[u], i) => InSeq(queue[u], i)
    <3> DEFINE t == First(todo[w])
               q == [queue EXCEPT ![t] = Tail(@)]
               j == Head(queue[t])
    <3>1. t \in Tenants
      BY <2>7, <2>r, FirstInSet, TenantsAssumption DEF LoopOver
    <3>2. j \in Jobs /\ queue[t] \in Seq(Messages)
      BY <2>7, <2>q, <2>t, <3>1
    <3>3. Owner[j] = t /\ InSeq(queue[t], j) /\ ~ InSeq(Tail(queue[t]), j)
      BY <2>7, <3>1, <3>2, TailElements DEF SingleCopy
    <3>4. \A u \in Tenants : q[u] = IF u = t THEN Tail(queue[t]) ELSE queue[u]
      BY <2>q, <3>1
    <3>5. \A u \in Tenants : /\ NoRepeat(queue[u]) => NoRepeat(q[u])
                             /\ \A i \in Jobs : InSeq(q[u], i) => InSeq(queue[u], i)
      BY <2>7, <3>2, <3>4, TailElements
    <3> QED
      BY <3>1, <3>2, <3>3, <3>4, <3>5
  <2>8. ASSUME NEW w \in Workers, PopTask(w) PROVE SingleCopy'
    <3> DEFINE t == First(todo[w])
               j == Head(queue[t])
    <3>1. CASE queue[t] = <<>>
      <4>1. /\ UNCHANGED <<queue, celery, job>>
            /\ \A v \in Workers : pc'[v] = "send" => pc[v] = "send"
        BY <2>8, <2>r, <3>1 DEF PopTask
      <4> QED
        BY <4>1, NothingAdded
    <3>2. CASE queue[t] # <<>>
      <4>1. /\ ~ LoopOver(w) /\ pc' = [pc EXCEPT ![w] = "send"] /\ UNCHANGED celery
            /\ job' = [job EXCEPT ![w] = j]
            /\ queue' = [queue EXCEPT ![t] = Tail(@)]
        BY <2>8, <3>2 DEF PopTask
      <4> HIDE DEF t, j
      <4>2. /\ j \in Jobs /\ InSeq(queue[Owner[j]], j) /\ ~ InSeq(queue'[Owner[j]], j)
            /\ \A u \in Tenants :
                 /\ NoRepeat(queue[u]) => NoRepeat(queue'[u])
                 /\ \A i \in Jobs : InSeq(queue'[u], i) => InSeq(queue[u], i)
        BY <2>7, <3>2, <4>1 DEF t, j
      <4>3. \A v \in Workers : /\ pc'[v] = "send" <=> v = w \/ pc[v] = "send"
                               /\ job'[v] = IF v = w THEN j ELSE job[v]
        BY <2>r, <4>1
      <4>4. ~ InSeq(celery, j) /\ \A v \in Workers : ~ (pc[v] = "send" /\ job[v] = j)
        BY <4>2 DEF SingleCopy
      <4>5. \A i \in Jobs : Owner[i] \in Tenants
        BY OwnerAssumption
      <4>6. ASSUME NEW v \in Workers, pc'[v] = "send"
            PROVE  /\ ~ InSeq(queue'[Owner[job'[v]]], job'[v])
                   /\ ~ InSeq(celery', job'[v])
                   /\ \A u \in Workers : pc'[u] = "send" /\ job'[u] = job'[v] => u = v
        <5>1. CASE v = w
          BY <4>1, <4>2, <4>3, <4>4, <4>6, <5>1
        <5>2. CASE v # w
          BY <2>r, <4>1, <4>2, <4>3, <4>4, <4>5, <4>6, <5>2 DEF SingleCopy, Holds
        <5> QED
          BY <5>1, <5>2
      <4>7. \A u \in Tenants : /\ NoRepeat(queue'[u])
                               /\ \A i \in Jobs : InSeq(queue'[u], i) => Owner[i] = u
        BY <4>2 DEF SingleCopy
      <4>8. NoRepeat(celery') /\ \A i \in Jobs : ~ (InSeq(queue'[Owner[i]], i) /\ InSeq(celery', i))
        BY <4>1, <4>2, <4>5 DEF SingleCopy
      <4> QED
        BY <4>6, <4>7, <4>8 DEF SingleCopy, Holds
    <3> QED
      BY <3>1, <3>2
  <2>9. ASSUME NEW w \in Workers, SendTask(w) PROVE SingleCopy'
    <3>1. /\ pc[w] = "send" /\ celery' = Append(celery, job[w]) /\ UNCHANGED queue
          /\ \A v \in Workers : pc'[v] = "send" => v # w /\ pc[v] = "send" /\ job'[v] = job[v]
      BY <2>9, <2>r DEF SendTask
    <3> QED
      BY <3>1, SendingKeepsSingleCopy
  <2>10. ASSUME NEW w \in Workers, Unwind(w)
         PROVE  \A v \in Workers : pc'[v] = "send" => v # w /\ pc[v] = "send" /\ job'[v] = job[v]
    BY <2>10, <2>r DEF Unwind
  <2>11. ASSUME NEW w \in Workers, CallFails(w) PROVE SingleCopy'
    <3>1. Unwind(w) /\ UNCHANGED <<queue, celery>>
      BY <2>11 DEF CallFails
    <3> QED
      BY <2>10, <3>1, NothingAdded
  <2>12. ASSUME NEW w \in Workers, ReplyLost(w) PROVE SingleCopy'
    <3>1. \A v \in Workers : pc'[v] = "send" => v # w /\ pc[v] = "send" /\ job'[v] = job[v]
      BY <2>10, <2>12 DEF ReplyLost
    <3>2. CASE UNCHANGED <<queue, celery>>
      BY <3>1, <3>2, NothingAdded
    <3>3. CASE pc[w] = "send" /\ celery' = Append(celery, job[w]) /\ queue' = queue
      BY <3>1, <3>3, SendingKeepsSingleCopy
    <3>4. CASE /\ ~ LoopOver(w) /\ queue[First(todo[w])] # <<>> /\ celery' = celery
               /\ queue' = [queue EXCEPT ![First(todo[w])] = Tail(@)]
      BY <2>7, <3>1, <3>4, NothingAdded
    <3> QED
      BY <2>12, <3>2, <3>3, <3>4 DEF ReplyLost
  <2>13. ASSUME NEW w \in Workers, Crash(w) PROVE SingleCopy'
    <3>1. /\ \/ celery' = celery
             \/ \E m \in {Dispatch, OtherTask} : celery' = <<m>> \o celery
          /\ UNCHANGED queue
          /\ \A v \in Workers : pc'[v] = "send" => pc[v] = "send" /\ job'[v] = job[v]
      BY <2>13, <2>r DEF Crash
    <3>2. /\ NoRepeat(celery) => NoRepeat(celery')
          /\ \A j \in Jobs : InSeq(celery', j) => InSeq(celery, j)
      <4>1. CASE celery' = celery
        BY <4>1
      <4>2. ASSUME NEW m \in Messages \ Jobs, celery' = <<m>> \o celery
            PROVE  /\ NoRepeat(celery) => NoRepeat(celery')
                   /\ \A j \in Jobs : InSeq(celery', j) => InSeq(celery, j)
        BY <2>q, <4>2, PrependElements
      <4> QED
        BY <2>m, <3>1, <4>1, <4>2
    <3> QED
      BY <3>1, <3>2, NothingAdded
  <2>14. CASE UNCHANGED vars
    BY <2>14, NothingAdded DEF vars
  <2> QED
    BY <2>1, <2>2, <2>3, <2>4, <2>5, <2>6, <2>8, <2>9, <2>11, <2>12, <2>13, <2>14
       DEF Next, DispatchStep
<1> QED
  BY <1>1, <1>2, TypeCorrect, PTL DEF Spec

-----------------------------------------------------------------------------
(* One dispatch at a time, when none outlasts the lock.                    *)

\* A dispatch under way still has its lock.
LockBacksDispatch == \A w \in Workers : InDispatch(w) => lock

\* The lock lets one dispatch in, whatever fails, provided that no dispatch
\* outlasts the key's TTL. MutualExclusion alone is not inductive: a dispatch
\* is kept out only because the one under way still has the key set.
THEOREM OneDispatchAtATime == ASSUME ~ SlowDispatch PROVE Spec => []MutualExclusion
<1> DEFINE IInv == MutualExclusion /\ LockBacksDispatch
<1>1. Init => IInv
  BY DEF Init, MutualExclusion, LockBacksDispatch
<1>2. TypeOK /\ IInv /\ [Next]_vars => IInv'
  <2> SUFFICES ASSUME TypeOK, IInv, [Next]_vars
               PROVE  IInv'
    OBVIOUS
  <2>p. pc \in [Workers -> PCs]
    BY DEF TypeOK
  <2>i. /\ \A v, w \in Workers : pc[v] \in CriticalPCs /\ pc[w] \in CriticalPCs => v = w
        /\ \A w \in Workers : pc[w] \in CriticalPCs => lock
    BY DEF MutualExclusion, LockBacksDispatch
  <2>k. ASSUME lock' = lock, \A w \in Workers : pc'[w] \in CriticalPCs => pc[w] \in CriticalPCs
        PROVE  IInv'
    BY <2>i, <2>k DEF MutualExclusion, LockBacksDispatch
  <2>e. ASSUME NEW w \in Workers, pc[w] \in CriticalPCs, pc' = [pc EXCEPT ![w] = "idle"]
        PROVE  IInv'
    BY <2>p, <2>i, <2>e DEF MutualExclusion, LockBacksDispatch
  <2>1. ASSUME NEW j \in Jobs, Submit(j) PROVE IInv'
    BY <2>1, <2>k DEF Submit
  <2>2. CASE Beat
    BY <2>2, <2>k DEF Beat
  <2>3. CASE OtherMessage
    BY <2>3, <2>k DEF OtherMessage
  <2>4. CASE LockExpires
    BY <2>4 DEF LockExpires, MutualExclusion, LockBacksDispatch
  <2>5. ASSUME NEW w \in Workers, Fetch(w) \/ FinishRun(w) PROVE IInv'
    BY <2>5, <2>p, <2>k DEF Fetch, FinishRun
  <2>6. ASSUME NEW w \in Workers, AcquireLock(w) PROVE IInv'
    <3>1. CASE lock
      <4>1. lock' = lock
        BY <2>6, <3>1, Zenon DEF AcquireLock
      <4>2. \A v \in Workers : pc'[v] \in CriticalPCs => pc[v] \in CriticalPCs
        BY <2>6, <2>p, <3>1 DEF AcquireLock
      <4> QED
        BY <2>k, <4>1, <4>2
    <3>2. CASE ~ lock
      <4>1. lock' /\ \A v \in Workers : pc'[v] \in CriticalPCs => v = w
        BY <2>6, <2>p, <2>i, <3>2 DEF AcquireLock
      <4> QED
        BY <4>1 DEF MutualExclusion, LockBacksDispatch
    <3> QED
      BY <3>1, <3>2
  <2>7. ASSUME NEW w \in Workers,
               \/ ReadDepth(w) \/ ReadMembers(w) \/ PopTask(w) \/ SendTask(w)
               \/ CheckRemaining(w) \/ RemoveTenant(w)
        PROVE  IInv'
    <3>1. lock' = lock
      BY <2>7 DEF ReadDepth, ReadMembers, PopTask, SendTask, CheckRemaining, RemoveTenant
    <3>2. \A v \in Workers : pc'[v] \in CriticalPCs => pc[v] \in CriticalPCs
      BY <2>7, <2>p DEF ReadDepth, ReadMembers, PopTask, SendTask, CheckRemaining,
                        RemoveTenant
    <3> QED
      BY <2>k, <3>1, <3>2
  <2>8. ASSUME NEW w \in Workers, ReleaseLock(w) PROVE IInv'
    BY <2>8, <2>e DEF ReleaseLock, AtUnlock
  <2>9. ASSUME NEW w \in Workers, Unwind(w), pc[w] \in CriticalPCs \cup {"setnx"}
        PROVE  \A v \in Workers : pc'[v] \in CriticalPCs => pc[v] \in CriticalPCs
    BY <2>9, <2>p DEF Unwind
  <2>10. ASSUME NEW w \in Workers, CallFails(w) PROVE IInv'
    BY <2>9, <2>10, <2>k DEF CallFails
  <2>11. ASSUME NEW w \in Workers, ReplyLost(w) PROVE IInv'
    <3>1. CASE lock' = lock
      BY <2>9, <2>11, <2>k, <3>1 DEF ReplyLost
    <3>2. CASE lock'
      <4>1. \A v \in Workers : pc'[v] \in CriticalPCs => pc[v] \in CriticalPCs
        BY <2>9, <2>11 DEF ReplyLost
      <4> QED
        BY <2>i, <3>2, <4>1 DEF MutualExclusion, LockBacksDispatch
    <3> QED
      BY <2>11, <3>1, <3>2, Zenon DEF ReplyLost
  <2>12. ASSUME NEW w \in Workers, Crash(w) PROVE IInv'
    BY <2>12, <2>p, <2>k DEF Crash
  <2>13. CASE UNCHANGED vars
    BY <2>13, <2>k DEF vars
  <2> QED
    BY <2>1, <2>2, <2>3, <2>4, <2>5, <2>6, <2>7, <2>8, <2>10, <2>11, <2>12, <2>13
       DEF Next, DispatchStep
<1> QED
  BY <1>1, <1>2, TypeCorrect, PTL DEF Spec
-----------------------------------------------------------------------------
(* The scheduler implements TenantQueues.                                  *)

\* Induction up to n, for a property given as the set of the numbers that have it.
LEMMA UpTo ==
  ASSUME NEW n \in Nat, NEW S, 0 \in S, \A i \in 0..(n - 1) : i \in S => i + 1 \in S
  PROVE  \A i \in 0..n : i \in S
<1> DEFINE Rest == {i \in 0..n : i \notin S}
<1> SUFFICES ASSUME Rest # {} PROVE FALSE
  OBVIOUS
<1>1. Rest \in SUBSET Nat
  OBVIOUS
<1>2. First(Rest) \in Rest /\ \A u \in Rest : First(Rest) <= u
  BY <1>1, FirstInSet
<1> DEFINE k == First(Rest)
<1> HIDE DEF k
<1>3. k \in 0..n /\ k \notin S /\ \A u \in 0..n : u \notin S => k <= u
  BY <1>2 DEF k
<1>4. k # 0 /\ k - 1 \in 0..(n - 1) /\ k - 1 \in 0..n
  BY <1>3
<1>5. k - 1 \in S
  BY <1>3, <1>4
<1>6. (k - 1) + 1 \in S
  BY <1>4, <1>5
<1> QED
  BY <1>3, <1>4, <1>6

\* Appending to the second of two lists.
LEMMA AppendToConcat ==
  ASSUME NEW p \in Seq(Jobs), NEW q \in Seq(Jobs), NEW e \in Jobs
  PROVE  Append(p \o q, e) = p \o Append(q, e)
<1>1. <<e>> \in Seq(Jobs) /\ p \o q \in Seq(Jobs)
  OBVIOUS
<1>2. (p \o q) \o <<e>> = p \o (q \o <<e>>)
  BY <1>1, ConcatAssociative
<1>3. Append(q, e) = q \o <<e>> /\ Append(p \o q, e) = (p \o q) \o <<e>>
  BY <1>1, AppendIsConcat
<1> QED
  BY <1>2, <1>3

\* f projects the first n messages of s to their jobs, as upTo in JobsIn does.
Projects(f, s, n) ==
  /\ f \in [0..n -> Seq(Jobs)]
  /\ f[0] = <<>>
  /\ \A i \in 1..n : f[i] = IF s[i] \in Jobs THEN Append(f[i - 1], s[i]) ELSE f[i - 1]

\* A projection can be continued by one message.
LEMMA OneMore ==
  ASSUME NEW s \in Seq(Messages), NEW n \in Nat, NEW f, Projects(f, s, n)
  PROVE  \E g : Projects(g, s, n + 1)
<1> DEFINE last == IF s[n + 1] \in Jobs THEN Append(f[n], s[n + 1]) ELSE f[n]
           g == [i \in 0..(n + 1) |-> IF i = n + 1 THEN last ELSE f[i]]
<1>1. f \in [0..n -> Seq(Jobs)] /\ f[0] = <<>>
  BY DEF Projects
<1>2. last \in Seq(Jobs)
  BY <1>1
<1> HIDE DEF last
<1>3. \A i \in 0..(n + 1) : i = n + 1 \/ i \in 0..n
  OBVIOUS
<1>4. g \in [0..(n + 1) -> Seq(Jobs)]
  BY <1>1, <1>2, <1>3
<1>5. g[n + 1] = last /\ \A i \in 0..n : g[i] = f[i]
  OBVIOUS
<1> HIDE DEF g
<1>6. ASSUME NEW i \in 1..(n + 1)
      PROVE  g[i] = IF s[i] \in Jobs THEN Append(g[i - 1], s[i]) ELSE g[i - 1]
  <2>1. CASE i = n + 1
    BY <1>5, <2>1 DEF last
  <2>2. CASE i # n + 1
    <3>1. i \in 1..n /\ i \in 0..n /\ i - 1 \in 0..n
      BY <2>2
    <3> QED
      BY <1>5, <3>1 DEF Projects
  <2> QED
    BY <2>1, <2>2
<1>7. Projects(g, s, n + 1)
  BY <1>1, <1>4, <1>5, <1>6 DEF Projects
<1> QED
  BY <1>7

\* The recursion of JobsIn defines a function, and JobsIn is its last value.
LEMMA JobsInProjects ==
  ASSUME NEW s \in Seq(Messages)
  PROVE  /\ \E f : Projects(f, s, Len(s)) /\ JobsIn(s) = f[Len(s)]
         /\ JobsIn(s) \in Seq(Jobs)
<1> DEFINE Body(f, n) == IF n = 0 THEN <<>>
                         ELSE IF s[n] \in Jobs THEN Append(f[n - 1], s[n]) ELSE f[n - 1]
           S == {n \in Nat : \E f : Projects(f, s, n)}
<1>0. Len(s) \in Nat
  OBVIOUS
<1>1. Projects([i \in 0..0 |-> <<>>], s, 0)
  BY EmptySeq DEF Projects
<1>2. 0 \in S /\ \A n \in 0..(Len(s) - 1) : n \in S => n + 1 \in S
  BY <1>0, <1>1, OneMore
<1>3. \A n \in 0..Len(s) : n \in S
  <2> HIDE DEF S
  <2> QED
    BY <1>0, <1>2, UpTo
<1>4. PICK f : Projects(f, s, Len(s))
  BY <1>0, <1>3
<1>5. f = [n \in 0..Len(s) |-> Body(f, n)]
  <2>1. \A n \in 0..Len(s) : f[n] = Body(f, n)
    <3> SUFFICES ASSUME NEW n \in 0..Len(s) PROVE f[n] = Body(f, n)
      OBVIOUS
    <3>1. n = 0 \/ n \in 1..Len(s)
      BY <1>0
    <3> QED
      BY <1>4, <3>1 DEF Projects
  <2>2. f = [n \in 0..Len(s) |-> f[n]]
    BY <1>4 DEF Projects
  <2> HIDE DEF Body
  <2> QED
    BY <2>1, <2>2
<1> DEFINE h == CHOOSE g : g = [n \in 0..Len(s) |-> Body(g, n)]
<1>6. h = [n \in 0..Len(s) |-> Body(h, n)]
  BY <1>5
<1>7. JobsIn(s) = h[Len(s)]
  BY DEF JobsIn
<1> HIDE DEF h
<1>8. \A n \in 0..Len(s) : h[n] = Body(h, n)
  <2> HIDE DEF Body
  <2> QED
    BY <1>6
<1> DEFINE E == {i \in Nat : h[i] = f[i]}
<1>9. 0 \in E
  <2>1. 0 \in 0..Len(s)
    BY <1>0
  <2> QED
    BY <1>4, <1>8, <2>1 DEF Projects
<1>10. ASSUME NEW i \in 0..(Len(s) - 1), i \in E PROVE i + 1 \in E
  <2>1. i + 1 \in 0..Len(s) /\ i + 1 \in 1..Len(s) /\ (i + 1) - 1 = i /\ i + 1 # 0
    BY <1>0
  <2>2. h[i + 1] = Body(h, i + 1)
    BY <1>8, <2>1
  <2>3. f[i + 1] = Body(f, i + 1)
    BY <1>4, <2>1 DEF Projects
  <2>4. h[i] = f[i]
    BY <1>10
  <2>5. h[i + 1] = f[i + 1]
    BY <2>1, <2>2, <2>3, <2>4
  <2> QED
    BY <1>0, <2>5
<1>11. \A i \in 0..Len(s) : i \in E
  <2> HIDE DEF E
  <2> QED
    BY <1>0, <1>9, <1>10, UpTo
<1>12. h[Len(s)] = f[Len(s)]
  BY <1>0, <1>11
<1>13. f[Len(s)] \in Seq(Jobs)
  BY <1>0, <1>4 DEF Projects
<1> QED
  BY <1>4, <1>7, <1>12, <1>13

\* The projection of a message list that is e followed by s.
LEMMA JobsInPrepend ==
  ASSUME NEW s \in Seq(Messages), NEW e \in Messages
  PROVE  JobsIn(<<e>> \o s) = IF e \in Jobs THEN <<e>> \o JobsIn(s) ELSE JobsIn(s)
<1> DEFINE t == <<e>> \o s
           first == IF e \in Jobs THEN <<e>> ELSE <<>>
<1>1. /\ t \in Seq(Messages) /\ Len(t) = Len(s) + 1 /\ Len(s) \in Nat /\ t[1] = e
      /\ \A i \in 1..Len(s) : t[i + 1] = s[i]
  OBVIOUS
<1> HIDE DEF t
<1>2. PICK f : Projects(f, s, Len(s)) /\ JobsIn(s) = f[Len(s)]
  BY JobsInProjects
<1>3. PICK g : Projects(g, t, Len(t)) /\ JobsIn(t) = g[Len(t)]
  BY <1>1, JobsInProjects
<1>4. first \in Seq(Jobs)
  OBVIOUS
<1> DEFINE S == {i \in Nat : g[i + 1] = first \o f[i]}
<1>5. 0 \in S
  <2>1. 1 \in 1..Len(t) /\ 1 - 1 = 0
    BY <1>1
  <2>2. g[1] = IF e \in Jobs THEN Append(<<>>, e) ELSE <<>>
    BY <1>1, <1>3, <2>1 DEF Projects
  <2>3. g[1] = first \o <<>> /\ f[0] = <<>>
    BY <1>2, <2>2 DEF Projects
  <2>4. 0 + 1 = 1
    OBVIOUS
  <2> HIDE DEF first
  <2> QED
    BY <2>3, <2>4
<1> HIDE DEF first
<1>6. ASSUME NEW i \in 0..(Len(s) - 1), i \in S PROVE i + 1 \in S
  <2>1. i + 1 \in 1..Len(s) /\ i + 2 \in 1..Len(t) /\ (i + 2) - 1 = i + 1 /\ (i + 1) - 1 = i
        /\ i \in 0..Len(s)
    BY <1>1
  <2>2. f[i + 1] = IF s[i + 1] \in Jobs THEN Append(f[i], s[i + 1]) ELSE f[i]
    BY <1>2, <2>1 DEF Projects
  <2>3. g[i + 2] = IF t[i + 2] \in Jobs THEN Append(g[i + 1], t[i + 2]) ELSE g[i + 1]
    BY <1>3, <2>1 DEF Projects
  <2>4. t[i + 2] = s[i + 1]
    <3>1. (i + 1) + 1 = i + 2
      BY <1>1
    <3> QED
      BY <1>1, <2>1, <3>1
  <2>5. g[i + 1] = first \o f[i] /\ f[i] \in Seq(Jobs)
    BY <1>2, <1>6, <2>1 DEF Projects
  <2>6. \A j \in Jobs : Append(first \o f[i], j) = first \o Append(f[i], j)
    <3>1. PICK q \in Seq(Jobs) : q = f[i]
      BY <2>5
    <3>2. \A j \in Jobs : Append(first \o q, j) = first \o Append(q, j)
      BY <1>4, AppendToConcat
    <3> QED
      BY <3>1, <3>2
  <2>7. g[i + 2] = first \o f[i + 1]
    BY <2>2, <2>3, <2>4, <2>5, <2>6
  <2>8. (i + 1) + 1 = i + 2 /\ i + 1 \in Nat
    BY <2>1
  <2> QED
    BY <2>7, <2>8
<1>7. \A i \in 0..Len(s) : i \in S
  <2> HIDE DEF S
  <2> QED
    BY <1>1, <1>5, <1>6, UpTo
<1>8. g[Len(s) + 1] = first \o f[Len(s)]
  <2>1. Len(s) \in S
    BY <1>1, <1>7
  <2> QED
    BY <2>1
<1>9. JobsIn(t) = first \o JobsIn(s) /\ JobsIn(s) \in Seq(Jobs)
  BY <1>1, <1>2, <1>3, <1>8, JobsInProjects
<1>10. JobsIn(t) = IF e \in Jobs THEN <<e>> \o JobsIn(s) ELSE JobsIn(s)
  BY <1>9 DEF first
<1> QED
  BY <1>10 DEF t

\* The projection does to a list what its messages do: nothing, unless a job is
\* added behind or taken from the head.
LEMMA JobsInMoves ==
  ASSUME NEW s \in Seq(Messages)
  PROVE  /\ JobsIn(s) \in Seq(Jobs) /\ Len(JobsIn(s)) <= Len(s)
         /\ JobsIn(<<>>) = <<>>
         /\ \A e \in Messages : JobsIn(Append(s, e)) = IF e \in Jobs THEN Append(JobsIn(s), e)
                                                                    ELSE JobsIn(s)
         /\ \A e \in Messages \ Jobs : JobsIn(<<e>> \o s) = JobsIn(s)
         /\ s # <<>> => IF Head(s) \in Jobs
                        THEN JobsIn(s) # <<>> /\ JobsIn(Tail(s)) = Tail(JobsIn(s))
                        ELSE JobsIn(Tail(s)) = JobsIn(s)
         /\ \A j : InSeq(JobsIn(s), j) => InSeq(s, j)
<1>1. PICK f : Projects(f, s, Len(s)) /\ JobsIn(s) = f[Len(s)]
  BY JobsInProjects
<1>2. Len(s) \in Nat /\ f \in [0..Len(s) -> Seq(Jobs)] /\ f[0] = <<>>
  BY <1>1 DEF Projects
<1>3. JobsIn(s) \in Seq(Jobs)
  BY <1>1, <1>2
<1>4. JobsIn(<<>>) = <<>>
  <2>1. <<>> \in Seq(Messages) /\ Len(<<>>) = 0
    OBVIOUS
  <2>2. PICK g : Projects(g, <<>>, 0) /\ JobsIn(<<>>) = g[0]
    BY <2>1, JobsInProjects
  <2> QED
    BY <2>2 DEF Projects
<1>5. ASSUME NEW e \in Messages
      PROVE  JobsIn(Append(s, e)) = IF e \in Jobs THEN Append(JobsIn(s), e) ELSE JobsIn(s)
  <2> DEFINE t == Append(s, e)
  <2>1. /\ t \in Seq(Messages) /\ Len(t) = Len(s) + 1 /\ t[Len(s) + 1] = e
        /\ \A i \in 1..Len(s) : t[i] = s[i]
    OBVIOUS
  <2> HIDE DEF t
  <2>2. PICK g : Projects(g, t, Len(t)) /\ JobsIn(t) = g[Len(t)]
    BY <2>1, JobsInProjects
  <2> DEFINE S == {i \in Nat : g[i] = f[i]}
  <2>3. 0 \in S
    BY <1>2, <2>2 DEF Projects
  <2>4. ASSUME NEW i \in 0..(Len(s) - 1), i \in S PROVE i + 1 \in S
    <3>1. i + 1 \in 1..Len(s) /\ i + 1 \in 1..Len(t) /\ (i + 1) - 1 = i
      BY <1>2, <2>1
    <3>2. g[i] = f[i] /\ t[i + 1] = s[i + 1]
      BY <2>1, <2>4, <3>1
    <3>3. g[i + 1] = f[i + 1]
      BY <1>1, <2>2, <3>1, <3>2 DEF Projects
    <3> QED
      BY <3>1, <3>3
  <2>5. \A i \in 0..Len(s) : i \in S
    <3> HIDE DEF S
    <3> QED
      BY <1>2, <2>3, <2>4, UpTo
  <2>6. g[Len(s)] = f[Len(s)]
    BY <1>2, <2>5
  <2>7. Len(t) \in 1..Len(t) /\ Len(t) - 1 = Len(s)
    BY <1>2, <2>1
  <2>8. g[Len(t)] = IF e \in Jobs THEN Append(g[Len(s)], e) ELSE g[Len(s)]
    BY <2>1, <2>2, <2>7 DEF Projects
  <2>9. JobsIn(t) = IF e \in Jobs THEN Append(JobsIn(s), e) ELSE JobsIn(s)
    BY <1>1, <2>2, <2>6, <2>8
  <2> QED
    BY <2>9 DEF t
<1>6. \A e \in Messages \ Jobs : JobsIn(<<e>> \o s) = JobsIn(s)
  BY JobsInPrepend
<1>7. ASSUME s # <<>>
      PROVE  IF Head(s) \in Jobs
             THEN JobsIn(s) # <<>> /\ JobsIn(Tail(s)) = Tail(JobsIn(s))
             ELSE JobsIn(Tail(s)) = JobsIn(s)
  <2>1. Head(s) \in Messages /\ Tail(s) \in Seq(Messages) /\ s = <<Head(s)>> \o Tail(s)
    BY <1>7
  <2>2. JobsIn(Tail(s)) \in Seq(Jobs)
    BY <2>1, JobsInProjects
  <2>3. JobsIn(s) = IF Head(s) \in Jobs THEN <<Head(s)>> \o JobsIn(Tail(s)) ELSE JobsIn(Tail(s))
    BY <2>1, JobsInPrepend
  <2> QED
    BY <2>2, <2>3
<1> DEFINE Bound(i) == Len(f[i]) <= i /\ \A j : InSeq(f[i], j) => \E k \in 1..i : s[k] = j
           B == {i \in Nat : Bound(i)}
<1>8. 0 \in B
  <2>1. Len(f[0]) = 0 /\ \A j : ~ InSeq(f[0], j)
    BY <1>2 DEF InSeq
  <2> QED
    BY <2>1
<1>9. ASSUME NEW i \in 0..(Len(s) - 1), i \in B PROVE i + 1 \in B
  <2>1. i + 1 \in 1..Len(s) /\ (i + 1) - 1 = i /\ i \in Nat /\ i \in 0..Len(s)
    BY <1>2
  <2>2. f[i + 1] = (IF s[i + 1] \in Jobs THEN Append(f[i], s[i + 1]) ELSE f[i])
    BY <1>1, <2>1 DEF Projects
  <2>3. f[i] \in Seq(Jobs) /\ f[i] \in Seq(Messages) /\ Len(f[i]) \in Nat
    <3>1. f[i] \in Seq(Jobs)
      BY <1>2, <2>1
    <3> QED
      BY <3>1
  <2>4. Bound(i)
    BY <1>9
  <2>5. CASE s[i + 1] \notin Jobs
    <3>1. Bound(i + 1)
      BY <2>1, <2>2, <2>3, <2>4, <2>5
    <3> QED
      BY <2>1, <3>1
  <2>6. CASE s[i + 1] \in Jobs
    <3>1. Len(f[i + 1]) = Len(f[i]) + 1
      BY <2>2, <2>3, <2>6
    <3>2. \A j : InSeq(f[i + 1], j) => InSeq(f[i], j) \/ j = s[i + 1]
      <4>1. s[i + 1] \in Messages
        BY <2>6
      <4>2. PICK q \in Seq(Messages) : q = f[i]
        BY <2>3
      <4>3. \A e : InSeq(Append(q, s[i + 1]), e) <=> InSeq(q, e) \/ e = s[i + 1]
        BY <4>1, AppendElements
      <4>4. f[i + 1] = Append(q, s[i + 1])
        BY <2>2, <2>6, <4>2
      <4> QED
        BY <4>2, <4>3, <4>4
    <3>3. Bound(i + 1)
      BY <2>1, <2>3, <2>4, <3>1, <3>2
    <3> QED
      BY <2>1, <3>3
  <2> QED
    BY <2>5, <2>6
<1>10. \A i \in 0..Len(s) : i \in B
  <2> HIDE DEF B
  <2> QED
    BY <1>2, <1>8, <1>9, UpTo
<1>11. Len(JobsIn(s)) <= Len(s) /\ \A j : InSeq(JobsIn(s), j) => InSeq(s, j)
  <2>1. Bound(Len(s)) /\ DOMAIN s = 1..Len(s)
    BY <1>2, <1>10
  <2> QED
    BY <1>1, <2>1 DEF InSeq
<1> QED
  BY <1>3, <1>4, <1>5, <1>6, <1>7, <1>11

\* The slots a dispatch has left are places that no job in Celery takes: messages
\* of other kinds may come in between, jobs come from the dispatch alone.
Counting == {"smembers", "lpop", "send", "llen", "srem"}
SlotsCoverJobs ==
  \A w \in Workers : pc[w] \in Counting => Len(JobsIn(celery)) + slots[w] <= MaxDepth

LEMMA SlotsCovered == ASSUME ~ SlowDispatch PROVE Spec => []SlotsCoverJobs
<1>1. Init => SlotsCoverJobs
  BY DEF Init, SlotsCoverJobs, Counting
<1>2. TypeOK /\ MutualExclusion /\ SlotsCoverJobs /\ [Next]_vars => SlotsCoverJobs'
  <2> SUFFICES ASSUME TypeOK, MutualExclusion, SlotsCoverJobs, [Next]_vars
               PROVE  SlotsCoverJobs'
    OBVIOUS
  <2>t. /\ celery \in Seq(Messages) /\ pc \in [Workers -> PCs]
        /\ slots \in [Workers -> 0..MaxDepth]
        /\ \A w \in Workers : pc[w] = "send" => job[w] \in Jobs /\ slots[w] > 0
        /\ MaxDepth \in Nat
    BY BoundsAssumption DEF TypeOK
  <2>m. {Dispatch, OtherTask} \subseteq Messages \ Jobs
    BY MessagesAssumption
  <2>j. /\ Len(JobsIn(celery)) \in Nat /\ Len(celery) \in Nat
        /\ Len(JobsIn(celery)) <= Len(celery)
    <3>1. JobsIn(celery) \in Seq(Jobs) /\ Len(JobsIn(celery)) <= Len(celery)
      BY <2>t, JobsInMoves
    <3> QED
      BY <2>t, <3>1, LenProperties
  <2>k. ASSUME Len(JobsIn(celery')) <= Len(JobsIn(celery)), Len(JobsIn(celery')) \in Nat,
               \A w \in Workers : pc'[w] \in Counting => pc[w] \in Counting,
               slots' = slots
        PROVE  SlotsCoverJobs'
    BY <2>t, <2>j, <2>k DEF SlotsCoverJobs
  <2>s. ASSUME celery' = celery, slots' = slots,
               \A w \in Workers : pc'[w] \in Counting => pc[w] \in Counting
        PROVE  SlotsCoverJobs'
    BY <2>j, <2>k, <2>s
  <2>o. ASSUME NEW m \in Messages \ Jobs,
               celery' = Append(celery, m) \/ celery' = <<m>> \o celery
        PROVE  Len(JobsIn(celery')) <= Len(JobsIn(celery)) /\ Len(JobsIn(celery')) \in Nat
    <3>1. JobsIn(celery') = JobsIn(celery)
      <4>1. JobsIn(Append(celery, m)) = JobsIn(celery)
        BY <2>t, JobsInMoves
      <4>2. JobsIn(<<m>> \o celery) = JobsIn(celery)
        BY <2>t, JobsInMoves
      <4> QED
        BY <2>o, <4>1, <4>2
    <3> QED
      BY <2>j, <3>1
  <2>a. ASSUME NEW w \in Workers, pc[w] = "send", celery' = Append(celery, job[w])
        PROVE  Len(JobsIn(celery')) = Len(JobsIn(celery)) + 1
    <3>1. JobsIn(celery) \in Seq(Jobs) /\ JobsIn(celery') = Append(JobsIn(celery), job[w])
      BY <2>t, <2>a, JobsInMoves
    <3> QED
      BY <2>t, <2>a, <3>1, AppendProperties
  <2>1. ASSUME NEW j \in Jobs, Submit(j) PROVE SlotsCoverJobs'
    BY <2>1, <2>s DEF Submit
  <2>2. CASE Beat
    BY <2>2, <2>m, <2>o, <2>k DEF Beat
  <2>3. CASE OtherMessage
    BY <2>3, <2>m, <2>o, <2>k DEF OtherMessage
  <2>4. CASE LockExpires
    BY <2>4, <2>s DEF LockExpires
  <2>5. ASSUME NEW w \in Workers, Fetch(w) PROVE SlotsCoverJobs'
    <3>1. celery # <<>> /\ celery' = Tail(celery) /\ slots' = slots
      BY <2>5 DEF Fetch
    <3>2. Len(JobsIn(celery')) <= Len(JobsIn(celery)) /\ Len(JobsIn(celery')) \in Nat
      <4>1. JobsIn(celery) \in Seq(Jobs)
        BY <2>t, JobsInMoves
      <4>2. \/ JobsIn(celery') = JobsIn(celery)
            \/ JobsIn(celery) # <<>> /\ JobsIn(celery') = Tail(JobsIn(celery))
        BY <2>t, <3>1, JobsInMoves
      <4> QED
        BY <2>j, <4>1, <4>2, HeadTailProperties
    <3>3. \A v \in Workers : pc'[v] \in Counting => pc[v] \in Counting
      BY <2>5, <2>t DEF Fetch, Counting
    <3> QED
      BY <2>k, <3>1, <3>2, <3>3
  <2>6. ASSUME NEW w \in Workers,
               \/ FinishRun(w) \/ AcquireLock(w) \/ ReadMembers(w) \/ PopTask(w)
               \/ CheckRemaining(w) \/ RemoveTenant(w) \/ ReleaseLock(w) \/ CallFails(w)
        PROVE  SlotsCoverJobs'
    <3>1. celery' = celery /\ slots' = slots
      BY <2>6 DEF FinishRun, AcquireLock, ReadMembers, PopTask, CheckRemaining,
                  RemoveTenant, ReleaseLock, CallFails
    <3>2. \A v \in Workers : pc'[v] \in Counting => pc[v] \in Counting
      BY <2>6, <2>t DEF FinishRun, AcquireLock, ReadMembers, PopTask, CheckRemaining,
                  RemoveTenant, ReleaseLock, CallFails, Unwind, Counting
    <3> QED
      BY <2>s, <3>1, <3>2
  <2>7. ASSUME NEW w \in Workers, ReadDepth(w) PROVE SlotsCoverJobs'
    <3>1. \A v \in Workers : pc'[v] \in Counting => v = w
      BY <2>7, <2>t DEF ReadDepth, Counting, MutualExclusion
    <3>2. pc'[w] \in Counting => slots'[w] = MaxDepth - Len(celery) /\ celery' = celery
      BY <2>7, <2>t DEF ReadDepth, Counting
    <3> QED
      BY <2>t, <2>j, <3>1, <3>2 DEF SlotsCoverJobs
  <2>8. ASSUME NEW w \in Workers, SendTask(w) PROVE SlotsCoverJobs'
    <3>1. \A v \in Workers : pc'[v] \in Counting => v = w
      BY <2>8, <2>t DEF SendTask, Counting, MutualExclusion
    <3>2. slots'[w] = slots[w] - 1 /\ pc[w] = "send" /\ celery' = Append(celery, job[w])
      BY <2>8, <2>t DEF SendTask
    <3>3. Len(JobsIn(celery)) + slots[w] <= MaxDepth
      BY <3>2 DEF SlotsCoverJobs, Counting
    <3> QED
      BY <2>t, <2>j, <2>a, <3>1, <3>2, <3>3 DEF SlotsCoverJobs
  <2>9. ASSUME NEW w \in Workers, ReplyLost(w) PROVE SlotsCoverJobs'
    <3>1. \A v \in Workers : pc'[v] \in Counting => pc[v] \in Counting /\ v # w
      BY <2>9, <2>t DEF ReplyLost, Unwind, Counting
    <3>2. CASE pc[w] = "send"
      <4>1. \A v \in Workers : pc'[v] \notin Counting
        BY <3>1, <3>2 DEF Counting, MutualExclusion
      <4> QED
        BY <4>1 DEF SlotsCoverJobs
    <3>3. CASE pc[w] # "send"
      BY <2>9, <2>s, <3>1, <3>3 DEF ReplyLost
    <3> QED
      BY <3>2, <3>3
  <2>10. ASSUME NEW w \in Workers, Crash(w) PROVE SlotsCoverJobs'
    <3>1. \A v \in Workers : pc'[v] \in Counting => pc[v] \in Counting
      BY <2>10, <2>t DEF Crash, Counting
    <3> QED
      BY <2>10, <2>m, <2>o, <2>k, <2>s, <3>1 DEF Crash
  <2>11. CASE UNCHANGED vars
    BY <2>11, <2>s DEF vars
  <2> QED
    BY <2>1, <2>2, <2>3, <2>4, <2>5, <2>6, <2>7, <2>8, <2>9, <2>10, <2>11
       DEF Next, DispatchStep
<1> QED
  BY <1>1, <1>2, TypeCorrect, OneDispatchAtATime, PTL DEF Spec

\* The mapped line of a tenant: the job a worker holds, if one holds a job of the
\* tenant's, before those on the list.
HasOf(w, t) == pc[w] = "send" /\ Owner[job[w]] = t
PendingShape ==
  \A t \in Tenants :
    /\ \A w \in Workers : HasOf(w, t) => Pending(t) = <<job[w]>> \o queue[t]
    /\ (\A w \in Workers : ~ HasOf(w, t)) => Pending(t) = queue[t]

LEMMA PendingHasShape == TypeOK /\ MutualExclusion => PendingShape
<1> SUFFICES ASSUME TypeOK, MutualExclusion, NEW t \in Tenants
             PROVE  /\ \A w \in Workers : HasOf(w, t) => Pending(t) = <<job[w]>> \o queue[t]
                    /\ (\A w \in Workers : ~ HasOf(w, t)) => Pending(t) = queue[t]
  BY DEF PendingShape
<1> DEFINE h == {w \in Workers : pc[w] = "send" /\ Owner[job[w]] = t}
<1>1. ASSUME NEW w \in Workers, HasOf(w, t) PROVE Pending(t) = <<job[w]>> \o queue[t]
  <2>1. \A v \in Workers : v \in h <=> v = w
    BY <1>1 DEF HasOf, MutualExclusion
  <2>2. h # {} /\ (CHOOSE v \in h : TRUE) = w
    BY <2>1
  <2> QED
    BY <2>2 DEF Pending
<1>2. ASSUME \A w \in Workers : ~ HasOf(w, t) PROVE Pending(t) = queue[t]
  <2>1. h = {}
    BY <1>2 DEF HasOf
  <2>2. Pending(t) = <<>> \o queue[t]
    BY <2>1 DEF Pending
  <2> QED
    BY <2>2 DEF TypeOK
<1> QED
  BY <1>1, <1>2

\* What a step of the scheduler may rely on.
Context == /\ TypeOK /\ SingleCopy /\ MutualExclusion /\ SlotsCoverJobs /\ PendingShape
           /\ TypeOK' /\ MutualExclusion' /\ PendingShape'

\* A worker that holds a job holds the only one, and with the lock.
LEMMA OneHolder ==
  ASSUME Context, NEW w \in Workers, pc[w] = "send"
  PROVE  /\ job[w] \in Jobs /\ Owner[job[w]] \in Tenants
         /\ \A v \in Workers : pc[v] = "send" => v = w
         /\ Pending(Owner[job[w]]) = <<job[w]>> \o queue[Owner[job[w]]]
         /\ \A t \in Tenants \ {Owner[job[w]]} : Pending(t) = queue[t]
<1>1. job[w] \in Jobs /\ Owner[job[w]] \in Tenants
  BY OwnerAssumption DEF Context, TypeOK
<1>2. \A v \in Workers : pc[v] = "send" => v = w
  BY DEF Context, MutualExclusion
<1> QED
  BY <1>1, <1>2 DEF Context, PendingShape, HasOf

\* Nobody holds a job after the step.
LEMMA HandsEmptied ==
  ASSUME Context, \A w \in Workers : pc'[w] # "send"
  PROVE  \A t \in Tenants : Pending(t)' = queue'[t]
BY DEF Context, PendingShape, HasOf

LEMMA HandsEmpty ==
  ASSUME Context, \A w \in Workers : pc[w] # "send"
  PROVE  \A t \in Tenants : Pending(t) = queue[t]
BY DEF Context, PendingShape, HasOf

\* A step that moves no job.
LEMMA NothingMoved ==
  ASSUME Context, queue' = queue, JobsIn(celery') = JobsIn(celery),
         \A w \in Workers : /\ pc'[w] = "send" <=> pc[w] = "send"
                            /\ pc[w] = "send" => job'[w] = job[w]
  PROVE  /\ [t \in Tenants |-> Pending(t)]' = [t \in Tenants |-> Pending(t)]
         /\ JobsIn(celery)' = JobsIn(celery)
<1>1. ASSUME NEW t \in Tenants PROVE Pending(t)' = Pending(t)
  <2>1. CASE \E w \in Workers : HasOf(w, t)
    <3>1. PICK w \in Workers : HasOf(w, t)
      BY <2>1
    <3>2. Pending(t) = <<job[w]>> \o queue[t] /\ job'[w] = job[w] /\ HasOf(w, t)'
      BY <3>1 DEF Context, PendingShape, HasOf
    <3>3. Pending(t)' = <<job'[w]>> \o queue'[t]
      BY <3>2 DEF Context, PendingShape
    <3> QED
      BY <3>2, <3>3
  <2>2. CASE \A w \in Workers : ~ HasOf(w, t)
    <3>1. \A w \in Workers : ~ HasOf(w, t)'
      BY <2>2 DEF HasOf
    <3> QED
      BY <2>2, <3>1 DEF Context, PendingShape
  <2> QED
    BY <2>1, <2>2
<1> QED
  BY <1>1

\* The job in hand reaches Celery: the head of its tenant's line is handed over,
\* and a slot was left for it.
LEMMA SendHandsOver ==
  ASSUME Context, NEW w \in Workers, pc[w] = "send",
         celery' = Append(celery, job[w]), queue' = queue,
         \A v \in Workers : pc'[v] # "send", faultsLeft' <= faultsLeft
  PROVE  TQ!HandOver(Owner[job[w]])
<1> DEFINE t == Owner[job[w]]
           p == <<job[w]>> \o queue[t]
<1>1. /\ job[w] \in Jobs /\ t \in Tenants /\ Pending(t) = p
      /\ \A u \in Tenants \ {t} : Pending(u) = queue[u]
  BY OneHolder
<1>2. queue[t] \in Seq(Jobs) /\ celery \in Seq(Messages) /\ slots[w] \in 1..MaxDepth
      /\ MaxDepth \in Nat
  BY <1>1, BoundsAssumption DEF Context, TypeOK
<1>3. p # <<>> /\ Head(p) = job[w] /\ Tail(p) = queue[t]
  BY <1>1, <1>2
<1>4. \A u \in Tenants : Pending(u)' = queue[u]
  BY HandsEmptied
<1>5. Len(JobsIn(celery)) < MaxDepth
  <2>1. Len(JobsIn(celery)) + slots[w] <= MaxDepth
    BY DEF Context, SlotsCoverJobs, Counting
  <2>2. Len(JobsIn(celery)) \in Nat
    BY <1>2, JobsInMoves, LenProperties
  <2> QED
    BY <1>2, <2>1, <2>2
<1>6. JobsIn(celery') = Append(JobsIn(celery), job[w])
  BY <1>1, <1>2, JobsInMoves
<1> HIDE DEF p, t
<1>7. [u \in Tenants |-> Pending(u)']
        = [[u \in Tenants |-> Pending(u)] EXCEPT ![t] = Tail(@)]
  BY <1>1, <1>3, <1>4
<1>8. TQ!HandOver(t)
  BY <1>1, <1>3, <1>5, <1>6, <1>7 DEF TQ!HandOver, TQ!FaultsMayPass
<1> QED
  BY <1>8 DEF t

\* The job in hand is gone.
LEMMA HandLoses ==
  ASSUME Context, NEW w \in Workers, pc[w] = "send", queue' = queue,
         JobsIn(celery') = JobsIn(celery),
         \A v \in Workers : pc'[v] # "send", faultsLeft' < faultsLeft
  PROVE  TQ!Lose(Owner[job[w]])
<1> DEFINE t == Owner[job[w]]
           p == <<job[w]>> \o queue[t]
<1>1. /\ job[w] \in Jobs /\ t \in Tenants /\ Pending(t) = p
      /\ \A u \in Tenants \ {t} : Pending(u) = queue[u]
  BY OneHolder
<1>2. queue[t] \in Seq(Jobs)
  BY <1>1 DEF Context, TypeOK
<1>3. p # <<>> /\ Tail(p) = queue[t]
  BY <1>1, <1>2
<1>4. \A u \in Tenants : Pending(u)' = queue[u]
  BY HandsEmptied
<1> HIDE DEF p, t
<1>5. [u \in Tenants |-> Pending(u)']
        = [[u \in Tenants |-> Pending(u)] EXCEPT ![t] = Tail(@)]
  BY <1>1, <1>3, <1>4
<1>6. TQ!Lose(t)
  BY <1>1, <1>3, <1>5 DEF TQ!Lose
<1> QED
  BY <1>6 DEF t

\* The head of a list is popped and its answer lost.
LEMMA ListLoses ==
  ASSUME Context, NEW t \in Tenants, queue[t] # <<>>,
         queue' = [queue EXCEPT ![t] = Tail(@)], celery' = celery,
         \A v \in Workers : pc[v] # "send" /\ pc'[v] # "send", faultsLeft' < faultsLeft
  PROVE  TQ!Lose(t)
<1>1. \A u \in Tenants : Pending(u) = queue[u] /\ Pending(u)' = queue'[u]
  BY HandsEmpty, HandsEmptied
<1>2. queue \in [Tenants -> Seq(Jobs)]
  BY DEF Context, TypeOK
<1>3. [u \in Tenants |-> Pending(u)']
        = [[u \in Tenants |-> Pending(u)] EXCEPT ![t] = Tail(@)]
  BY <1>1, <1>2
<1> QED
  BY <1>1, <1>3 DEF TQ!Lose

\* Every step of the scheduler is a step of TenantQueues or one it does not see.
LEMMA StepImplements ==
  ASSUME Context, [Next]_vars
  PROVE  [TQ!Next]_(TQ!vars)
<1> DEFINE Bar == [t \in Tenants |-> Pending(t)]
<1>t. /\ queue \in [Tenants -> Seq(Jobs)] /\ celery \in Seq(Messages)
      /\ pc \in [Workers -> PCs] /\ job \in [Workers -> Jobs \cup {NoJob}]
      /\ todo \in [Workers -> SUBSET Tenants]
      /\ faultsLeft \in Nat /\ faultsLeft' \in Nat
  BY BoundsAssumption DEF Context, TypeOK
<1>m. Dispatch \in Messages \ Jobs /\ OtherTask \in Messages \ Jobs
  BY MessagesAssumption
<1>x. \A v, w \in Workers : pc[v] \in CriticalPCs /\ pc[w] \in CriticalPCs => v = w
  BY DEF Context, MutualExclusion
<1>s. ASSUME Bar' = Bar, JobsIn(celery)' = JobsIn(celery), faultsLeft' <= faultsLeft
      PROVE  [TQ!Next]_(TQ!vars)
  <2>1. CASE faultsLeft' = faultsLeft
    BY <1>s, <2>1 DEF TQ!vars
  <2>2. CASE faultsLeft' < faultsLeft
    BY <1>s, <2>2 DEF TQ!Next, TQ!HarmlessFault
  <2> QED
    BY <1>t, <1>s, <2>1, <2>2
<1>n. ASSUME queue' = queue, JobsIn(celery') = JobsIn(celery), faultsLeft' <= faultsLeft,
             \A w \in Workers : /\ pc'[w] = "send" <=> pc[w] = "send"
                                /\ pc[w] = "send" => job'[w] = job[w]
      PROVE  [TQ!Next]_(TQ!vars)
  BY <1>n, <1>s, NothingMoved
<1>p. ASSUME NEW m \in Messages \ Jobs
      PROVE  /\ celery' = Append(celery, m) => JobsIn(celery') = JobsIn(celery)
             /\ celery' = <<m>> \o celery => JobsIn(celery') = JobsIn(celery)
  <2>1. JobsIn(Append(celery, m)) = JobsIn(celery)
    BY <1>t, JobsInMoves
  <2>2. JobsIn(<<m>> \o celery) = JobsIn(celery)
    BY <1>t, JobsInMoves
  <2> QED
    BY <2>1, <2>2
<1>f. faultsLeft' = faultsLeft - 1 => faultsLeft' < faultsLeft
  BY <1>t
<1>1. ASSUME NEW j \in Jobs, Submit(j) PROVE TQ!Next
  <2> DEFINE t == Owner[j]
  <2>1. t \in Tenants
    BY OwnerAssumption
  <2>2. /\ ~ InSeq(queue[t], j) /\ ~ InSeq(celery, j)
        /\ \A w \in Workers : ~ (pc[w] = "send" /\ job[w] = j)
        /\ queue' = [queue EXCEPT ![t] = Append(@, j)]
        /\ UNCHANGED <<celery, pc, job, faultsLeft>>
    BY <1>1 DEF Submit, InSystem, Holds
  <2> HIDE DEF t
  <2>3. \A w \in Workers : HasOf(w, t)' <=> HasOf(w, t)
    BY <2>2 DEF HasOf
  <2>4. \A u \in Tenants : queue'[u] = IF u = t THEN Append(queue[t], j) ELSE queue[u]
    BY <1>t, <2>1, <2>2
  <2>5. Pending(t)' = Append(Pending(t), j) /\ ~ InSeq(Pending(t), j)
    <3>1. queue[t] \in Seq(Jobs)
      BY <1>t, <2>1
    <3>2. CASE \E w \in Workers : HasOf(w, t)
      <4>1. PICK w \in Workers : HasOf(w, t)
        BY <3>2
      <4>2. job[w] \in Jobs /\ job[w] # j /\ pc[w] = "send"
        BY <2>2, <4>1, OneHolder DEF HasOf
      <4>3. Pending(t) = <<job[w]>> \o queue[t]
        BY <2>1, <4>1 DEF Context, PendingShape
      <4>4. Pending(t)' = <<job[w]>> \o Append(queue[t], j)
        BY <2>1, <2>2, <2>3, <2>4, <4>1 DEF Context, PendingShape
      <4>5. <<job[w]>> \in Seq(Jobs)
        BY <4>2
      <4>6. Pending(t)' = Append(Pending(t), j)
        BY <3>1, <4>3, <4>4, <4>5, AppendToConcat
      <4>7. \A i \in DOMAIN (<<job[w]>> \o queue[t]) : (<<job[w]>> \o queue[t])[i] # j
        <5> DEFINE q == <<job[w]>> \o queue[t]
        <5>1. /\ Len(queue[t]) \in Nat /\ DOMAIN queue[t] = 1..Len(queue[t])
              /\ DOMAIN q = 1..(Len(queue[t]) + 1) /\ q[1] = job[w]
              /\ \A i \in 1..Len(queue[t]) : q[i + 1] = queue[t][i]
          BY <3>1, <4>2
        <5> HIDE DEF q
        <5>2. ASSUME NEW i \in 1..(Len(queue[t]) + 1), i # 1 PROVE q[i] # j
          <6>1. i - 1 \in 1..Len(queue[t]) /\ (i - 1) + 1 = i
            BY <5>1, <5>2
          <6>2. q[i] = queue[t][i - 1]
            BY <5>1, <6>1
          <6> QED
            BY <2>2, <5>1, <6>1, <6>2 DEF InSeq
        <5>3. \A i \in DOMAIN q : q[i] # j
          BY <4>2, <5>1, <5>2
        <5> QED
          BY <5>3 DEF q
      <4> QED
        BY <4>3, <4>6, <4>7 DEF InSeq
    <3>3. CASE \A w \in Workers : ~ HasOf(w, t)
      <4>1. Pending(t) = queue[t] /\ Pending(t)' = queue'[t]
        BY <2>1, <2>3, <3>3 DEF Context, PendingShape
      <4> QED
        BY <2>1, <2>2, <2>4, <4>1
    <3> QED
      BY <3>2, <3>3
  <2>6. ASSUME NEW u \in Tenants \ {t} PROVE Pending(u)' = Pending(u)
    <3>1. queue'[u] = queue[u]
      BY <2>4
    <3>2. \A w \in Workers : (HasOf(w, u)' <=> HasOf(w, u)) /\ job'[w] = job[w]
      BY <2>2 DEF HasOf
    <3> QED
      BY <3>1, <3>2 DEF Context, PendingShape
  <2>7. [u \in Tenants |-> Pending(u)'] = [[u \in Tenants |-> Pending(u)] EXCEPT ![t] = Append(@, j)]
    BY <2>1, <2>5, <2>6
  <2>8. \A i \in DOMAIN JobsIn(celery) : JobsIn(celery)[i] # j
    BY <1>t, <2>2, JobsInMoves DEF InSeq
  <2>9. TQ!Accept(j)
    BY <2>1, <2>2, <2>5, <2>7, <2>8 DEF TQ!Accept, TQ!Waiting, InSeq, t
  <2> QED
    BY <2>9 DEF TQ!Next
<1>2. CASE Beat
  <2>1. JobsIn(celery') = JobsIn(celery)
    <3>1. celery' = Append(celery, Dispatch)
      BY <1>2 DEF Beat
    <3> QED
      BY <1>m, <1>p, <3>1
  <2> QED
    BY <1>2, <1>t, <1>n, <2>1 DEF Beat
<1>3. CASE OtherMessage
  <2>1. JobsIn(celery') = JobsIn(celery)
    <3>1. celery' = Append(celery, OtherTask) \/ celery' = <<OtherTask>> \o celery
      BY <1>3 DEF OtherMessage
    <3> QED
      BY <1>m, <1>p, <3>1
  <2> QED
    BY <1>3, <1>t, <1>f, <1>n, <2>1 DEF OtherMessage
<1>4. CASE LockExpires
  BY <1>4, <1>t, <1>n DEF LockExpires
<1>5. ASSUME NEW w \in Workers, Fetch(w) PROVE [TQ!Next]_(TQ!vars)
  <2>1. /\ celery # <<>> /\ celery' = Tail(celery) /\ UNCHANGED <<queue, job, faultsLeft>>
        /\ \A v \in Workers : pc'[v] = "send" <=> pc[v] = "send"
    BY <1>5, <1>t DEF Fetch
  <2>2. CASE Head(celery) \notin Jobs
    <3>1. JobsIn(celery') = JobsIn(celery)
      BY <1>t, <2>1, <2>2, JobsInMoves
    <3> QED
      BY <1>t, <1>n, <2>1, <3>1
  <2>3. CASE Head(celery) \in Jobs
    <3>1. JobsIn(celery) # <<>> /\ JobsIn(celery') = Tail(JobsIn(celery))
      BY <1>t, <2>1, <2>3, JobsInMoves
    <3>2. \A t \in Tenants : Pending(t)' = Pending(t)
      <4>1. \A t \in Tenants, v \in Workers : HasOf(v, t)' <=> HasOf(v, t)
        BY <2>1 DEF HasOf
      <4> QED
        BY <2>1, <4>1 DEF Context, PendingShape
    <3>3. TQ!Start
      BY <2>1, <3>1, <3>2 DEF TQ!Start
    <3> QED
      BY <3>3 DEF TQ!Next
  <2> QED
    BY <2>2, <2>3
<1>6. ASSUME NEW w \in Workers,
             \/ FinishRun(w) \/ AcquireLock(w) \/ ReadDepth(w) \/ ReadMembers(w)
             \/ CheckRemaining(w) \/ RemoveTenant(w) \/ ReleaseLock(w)
      PROVE  [TQ!Next]_(TQ!vars)
  <2>1. /\ UNCHANGED <<queue, celery, job, faultsLeft>>
        /\ \A v \in Workers : pc'[v] = "send" <=> pc[v] = "send"
    BY <1>6, <1>t DEF FinishRun, AcquireLock, ReadDepth, ReadMembers,
                      CheckRemaining, RemoveTenant, ReleaseLock, AtUnlock
  <2> QED
    BY <1>t, <1>n, <2>1
<1>7. ASSUME NEW w \in Workers, PopTask(w) PROVE [TQ!Next]_(TQ!vars)
  <2>0. First(todo[w]) \in Tenants /\ pc[w] = "lpop" /\ UNCHANGED <<celery, faultsLeft>>
    BY <1>7, <1>t, FirstInSet, TenantsAssumption DEF PopTask, LoopOver
  <2>1. PICK t \in Tenants : t = First(todo[w])
    BY <2>0
  <2>2. \A v \in Workers : pc[v] # "send"
    BY <1>x, <2>0
  <2>3. CASE queue[t] = <<>>
    <3>1. UNCHANGED <<queue, job>> /\ \A v \in Workers : pc'[v] # "send"
      BY <1>7, <1>t, <2>1, <2>2, <2>3 DEF PopTask
    <3> QED
      BY <1>t, <1>n, <2>0, <2>2, <3>1
  <2>4. CASE queue[t] # <<>>
    <3>1. /\ pc' = [pc EXCEPT ![w] = "send"]
          /\ job' = [job EXCEPT ![w] = Head(queue[t])]
          /\ queue' = [queue EXCEPT ![t] = Tail(@)]
      BY <1>7, <2>1, <2>4 DEF PopTask
    <3>2. pc'[w] = "send" /\ job'[w] = Head(queue[t])
      BY <1>t, <3>1
    <3>3. job'[w] \in Jobs /\ queue'[t] = Tail(queue[t]) /\ queue[t] \in Seq(Jobs)
      BY <1>t, <2>1, <2>4, <3>1, <3>2
    <3>4. Owner[job'[w]] = t
      <4>1. InSeq(queue[t], Head(queue[t]))
        BY <2>4, <3>3, TailElements
      <4> QED
        BY <2>1, <3>2, <3>3, <4>1 DEF Context, SingleCopy
    <3>5. \A v \in Workers : pc'[v] = "send" => v = w
      BY <1>t, <2>2, <3>1
    <3>6. Pending(t)' = Pending(t)
      <4>1. Pending(t) = queue[t]
        BY <2>1, <2>2, HandsEmpty
      <4>0. Pending(t)' = <<job'[w]>> \o queue'[t]
        BY <2>1, <3>2, <3>4 DEF Context, PendingShape, HasOf
      <4>2. Pending(t)' = <<Head(queue[t])>> \o Tail(queue[t])
        BY <3>2, <3>3, <4>0
      <4>3. <<Head(queue[t])>> \o Tail(queue[t]) = queue[t]
        BY <2>4, <3>3
      <4> QED
        BY <4>1, <4>2, <4>3
    <3>7. ASSUME NEW u \in Tenants \ {t} PROVE Pending(u)' = Pending(u)
      <4>1. Pending(u) = queue[u]
        BY <2>2, HandsEmpty
      <4>2. Pending(u)' = queue'[u]
        BY <3>4, <3>5 DEF Context, PendingShape, HasOf
      <4> QED
        BY <1>t, <3>1, <4>1, <4>2
    <3>8. Bar' = Bar
      <4>1. \A u \in Tenants : Pending(u)' = Pending(u)
        BY <3>6, <3>7
      <4> QED
        BY <4>1
    <3> HIDE DEF Bar
    <3> QED
      BY <1>s, <1>t, <2>0, <3>8
  <2> QED
    BY <2>3, <2>4
<1>8. ASSUME NEW w \in Workers, SendTask(w) PROVE [TQ!Next]_(TQ!vars)
  <2>1. /\ pc[w] = "send" /\ celery' = Append(celery, job[w])
        /\ queue' = queue /\ faultsLeft' <= faultsLeft
    BY <1>8, <1>t DEF SendTask
  <2>2. \A v \in Workers : pc'[v] # "send"
    BY <1>8, <1>t, <1>x, <2>1 DEF SendTask
  <2>3. TQ!HandOver(Owner[job[w]]) /\ Owner[job[w]] \in Tenants
    BY <2>1, <2>2, SendHandsOver, OneHolder
  <2> QED
    BY <2>3 DEF TQ!Next
<1>l. ASSUME NEW w \in Workers, pc[w] = "send", queue' = queue,
             JobsIn(celery') = JobsIn(celery),
             \A v \in Workers : pc'[v] # "send", faultsLeft' < faultsLeft
      PROVE  [TQ!Next]_(TQ!vars)
  <2>1. TQ!Lose(Owner[job[w]]) /\ Owner[job[w]] \in Tenants
    BY <1>l, HandLoses, OneHolder
  <2> QED
    BY <2>1 DEF TQ!Next
<1>u. ASSUME NEW w \in Workers, Unwind(w)
      PROVE  /\ faultsLeft' < faultsLeft
             /\ pc'[w] # "send" /\ \A v \in Workers \ {w} : pc'[v] = pc[v] /\ job'[v] = job[v]
  BY <1>u, <1>t, <1>f DEF Unwind
<1>9. ASSUME NEW w \in Workers, CallFails(w) PROVE [TQ!Next]_(TQ!vars)
  <2>1. UNCHANGED <<queue, celery>> /\ Unwind(w)
    BY <1>9 DEF CallFails
  <2>2. CASE pc[w] = "send"
    <3>1. \A v \in Workers : pc'[v] # "send"
      BY <1>x, <1>u, <2>1, <2>2
    <3> QED
      BY <1>l, <1>u, <2>1, <2>2, <3>1
  <2>3. CASE pc[w] # "send"
    BY <1>n, <1>t, <1>u, <2>1, <2>3
  <2> QED
    BY <2>2, <2>3
<1>10. ASSUME NEW w \in Workers, ReplyLost(w) PROVE [TQ!Next]_(TQ!vars)
  <2>1. Unwind(w)
    BY <1>10 DEF ReplyLost
  <2>2. CASE pc[w] # "send" /\ UNCHANGED <<queue, celery>>
    BY <1>n, <1>t, <1>u, <2>1, <2>2
  <2>3. CASE /\ pc[w] = "lpop" /\ ~ LoopOver(w)
             /\ queue[First(todo[w])] # <<>>
             /\ queue' = [queue EXCEPT ![First(todo[w])] = Tail(@)]
             /\ celery' = celery
    <3>1. First(todo[w]) \in Tenants
      BY <1>t, <2>3, FirstInSet, TenantsAssumption DEF LoopOver
    <3>2. \A v \in Workers : pc[v] # "send" /\ pc'[v] # "send"
      BY <1>x, <1>u, <2>1, <2>3
    <3>3. TQ!Lose(First(todo[w]))
      BY <1>u, <2>1, <2>3, <3>1, <3>2, ListLoses
    <3> QED
      BY <3>1, <3>3 DEF TQ!Next
  <2>4. CASE pc[w] = "send" /\ celery' = Append(celery, job[w]) /\ queue' = queue
    <3>1. \A v \in Workers : pc'[v] # "send"
      BY <1>x, <1>u, <2>1, <2>4
    <3>2. faultsLeft' <= faultsLeft
      BY <1>t, <1>u, <2>1
    <3>3. TQ!HandOver(Owner[job[w]]) /\ Owner[job[w]] \in Tenants
      BY <2>4, <3>1, <3>2, SendHandsOver, OneHolder
    <3> QED
      BY <3>3 DEF TQ!Next
  <2> QED
    BY <1>10, <2>2, <2>3, <2>4 DEF ReplyLost
<1>11. ASSUME NEW w \in Workers, Crash(w) PROVE [TQ!Next]_(TQ!vars)
  <2>1. /\ queue' = queue /\ faultsLeft' < faultsLeft
        /\ pc'[w] # "send" /\ \A v \in Workers \ {w} : pc'[v] = pc[v] /\ job'[v] = job[v]
    BY <1>11, <1>t, <1>f DEF Crash
  <2>2. JobsIn(celery') = JobsIn(celery)
    <3>1. \/ celery' = celery
          \/ celery' = <<OtherTask>> \o celery \/ celery' = <<Dispatch>> \o celery
      BY <1>11 DEF Crash
    <3> QED
      BY <1>m, <1>p, <3>1
  <2>3. CASE pc[w] = "send"
    <3>1. \A v \in Workers : pc'[v] # "send"
      BY <1>x, <2>1, <2>3
    <3> QED
      BY <1>l, <2>1, <2>2, <2>3, <3>1
  <2>4. CASE pc[w] # "send"
    BY <1>n, <1>t, <2>1, <2>2, <2>4
  <2> QED
    BY <2>3, <2>4
<1>12. CASE UNCHANGED vars
  BY <1>12, <1>t, <1>n DEF vars
<1> QED
  BY <1>1, <1>2, <1>3, <1>4, <1>5, <1>6, <1>7, <1>8, <1>9, <1>10, <1>11, <1>12
     DEF Next, DispatchStep

\* Without SlowDispatch the scheduler implements TenantQueues, whatever fails:
\* each tenant's line is FIFO, jobs start in the order they were handed over, no
\* more than MaxDepth of them wait in Celery, none is handed over twice and none
\* is lost but by a failure. The mapping puts the job a worker holds before its
\* tenant's list and leaves out the messages that are no jobs.
THEOREM SchedulerImplementsTenantQueues ==
  ASSUME ~ SlowDispatch PROVE Spec => ImplementsTenantQueues
<1>1. Init => TQ!Init
  <2> SUFFICES ASSUME Init PROVE TQ!Init
    OBVIOUS
  <2>1. \A w \in Workers : pc[w] # "send"
    BY DEF Init
  <2>2. ASSUME NEW t \in Tenants PROVE Pending(t) = <<>>
    <3>1. queue[t] = <<>>
      BY DEF Init
    <3>2. {w \in Workers : pc[w] = "send" /\ Owner[job[w]] = t} = {}
      BY <2>1
    <3> QED
      BY <3>1, <3>2 DEF Pending
  <2>3. JobsIn(celery) = <<>>
    <3>1. celery = <<>> /\ celery \in Seq(Messages)
      BY EmptySeq DEF Init
    <3> QED
      BY <3>1, JobsInMoves
  <2>4. faultsLeft \in Nat
    BY BoundsAssumption DEF Init
  <2> QED
    BY <2>2, <2>3, <2>4 DEF TQ!Init
<1>2. TypeOK /\ MutualExclusion => PendingShape
  BY PendingHasShape
<1>3. Context /\ [Next]_vars => [TQ!Next]_(TQ!vars)
  BY StepImplements
<1> QED
  BY <1>1, <1>2, <1>3, TypeCorrect, NoJobDuplicated, OneDispatchAtATime, SlotsCovered, PTL
     DEF Spec, ImplementsTenantQueues, TQ!Spec, Context
=============================================================================
