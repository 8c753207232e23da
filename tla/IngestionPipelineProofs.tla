----------------------- MODULE IngestionPipelineProofs -----------------------
(***************************************************************************)
(* Proofs about IngestionPipeline, for any tenants, jobs and bounds: that  *)
(* the scheduler, the Celery queue and the worker are together the bag of  *)
(* messages of IngestionJobs, and what the jobs gain by it. They use what  *)
(* is proved of either part.                                               *)
(***************************************************************************)
EXTENDS IngestionPipeline, FiniteSetTheorems, SequenceTheorems, TLAPS

FSP == INSTANCE FairSchedulerProofs
         WITH Jobs <- Payloads,
              Owner <- [m \in Payloads |-> OwnerOf[m.job]],
              Workers <- {Worker},
              SlowDispatch <- FALSE,
              faultsLeft <- lossesLeft, MaxFaults <- MaxLosses

IJP == INSTANCE IngestionJobsProofs
         WITH messages <- Carried, pc <- at, refreshesLeft <- 0, MaxRefreshes <- 0

\* What the two parts assume of their constants.
LEMMA PartsAssumptions ==
  /\ Tenants \subseteq Nat
  /\ [m \in Payloads |-> OwnerOf[m.job]] \in [Payloads -> Tenants]
  /\ MaxDepth \in Nat \ {0} /\ MaxBacklog \in Nat /\ MaxLosses \in Nat
  /\ FALSE \in BOOLEAN
  /\ {Dispatch, OtherTask, NoJob} \cap Payloads = {} /\ Dispatch # OtherTask
  /\ {MaxRetries, MaxFaults, MaxLosses, 0} \subseteq Nat
<1>1. \A m \in Payloads : OwnerOf[m.job] \in Tenants
  BY OwnerOfAssumption DEF Payloads
<1> QED
  BY <1>1, OwnerOfAssumption, BoundsAssumption, MessagesAssumption

-----------------------------------------------------------------------------
(* How often a list has a message.                                         *)

\* What a place that has e contributes to the copies of m.
One(e, m) == IF e = m THEN 1 ELSE 0

\* The number of times that a list has m.
LEMMA CountType ==
  ASSUME NEW S, NEW s \in Seq(S), NEW m
  PROVE  /\ IsFiniteSet({i \in DOMAIN s : s[i] = m})
         /\ Count(s, m) \in Nat
         /\ Count(s, m) > 0 <=> \E i \in DOMAIN s : s[i] = m
<1> DEFINE A == {i \in DOMAIN s : s[i] = m}
<1>1. A \subseteq 1..Len(s) /\ Len(s) \in Nat
  BY LenProperties
<1>2. Count(s, m) = Cardinality(A)
  BY DEF Count
<1>3. A = {} <=> ~ \E i \in DOMAIN s : s[i] = m
  OBVIOUS
<1> HIDE DEF A
<1>4. IsFiniteSet(1..Len(s))
  BY <1>1, FS_Interval
<1>5. IsFiniteSet(A)
  BY <1>1, <1>4, FS_Subset
<1>6. Cardinality(A) \in Nat
  BY <1>5, FS_CardinalityType
<1>7. Cardinality(A) = 0 <=> A = {}
  BY <1>5, FS_EmptySet
<1>8. Count(s, m) > 0 <=> \E i \in DOMAIN s : s[i] = m
  BY <1>2, <1>3, <1>6, <1>7
<1> QED
  BY <1>2, <1>5, <1>6, <1>8 DEF A

\* The places behind the first n.
LEMMA ShiftedSet ==
  ASSUME NEW B, B \subseteq Nat, IsFiniteSet(B), NEW n \in Nat
  PROVE  /\ IsFiniteSet({i + n : i \in B})
         /\ Cardinality({i + n : i \in B}) = Cardinality(B)
<1> DEFINE D == {i + n : i \in B}
           f == [i \in B |-> i + n]
<1>1. f \in [B -> D]
  OBVIOUS
<1>2. \A i, k \in B : f[i] = f[k] => i = k
  OBVIOUS
<1>3. \A d \in D : \E i \in B : f[i] = d
  OBVIOUS
<1> HIDE DEF f, D
<1>4. f \in Bijection(B, D)
  BY <1>1, <1>2, <1>3 DEF Bijection, Injection, Surjection, IsInjective
<1>5. ExistsBijection(B, D)
  BY <1>4 DEF ExistsBijection
<1>6. IsFiniteSet(D) /\ Cardinality(D) = Cardinality(B)
  BY <1>5, FS_Bijection
<1> QED
  BY <1>6 DEF D

\* Two lists put together.
LEMMA CountConcat ==
  ASSUME NEW S, NEW a \in Seq(S), NEW b \in Seq(S), NEW m
  PROVE  Count(a \o b, m) = Count(a, m) + Count(b, m)
<1> DEFINE A == {i \in DOMAIN a : a[i] = m}
           B == {i \in DOMAIN b : b[i] = m}
           C == {i \in DOMAIN (a \o b) : (a \o b)[i] = m}
           D == {i + Len(a) : i \in B}
<1>1. /\ DOMAIN a = 1..Len(a) /\ DOMAIN b = 1..Len(b)
      /\ DOMAIN (a \o b) = 1..(Len(a) + Len(b))
      /\ Len(a) \in Nat /\ Len(b) \in Nat
      /\ \A i \in 1..(Len(a) + Len(b)) :
           (a \o b)[i] = IF i <= Len(a) THEN a[i] ELSE b[i - Len(a)]
  BY ConcatProperties, LenProperties
<1>2. A \cap D = {}
  BY <1>1
<1>3. C \subseteq A \cup D
  <2> SUFFICES ASSUME NEW i \in C, i \notin A
               PROVE  i \in D
    OBVIOUS
  <2>1. i \in 1..(Len(a) + Len(b)) /\ i > Len(a) /\ b[i - Len(a)] = m
    BY <1>1
  <2>2. i - Len(a) \in B /\ i = (i - Len(a)) + Len(a)
    BY <1>1, <2>1
  <2> QED
    BY <2>2
<1>4. A \subseteq C
  BY <1>1
<1>5. D \subseteq C
  <2> SUFFICES ASSUME NEW i \in B
               PROVE  i + Len(a) \in C
    OBVIOUS
  <2>1. i + Len(a) \in 1..(Len(a) + Len(b)) /\ i + Len(a) > Len(a) /\ (i + Len(a)) - Len(a) = i
    BY <1>1
  <2> QED
    BY <1>1, <2>1
<1>6. IsFiniteSet(A) /\ IsFiniteSet(B)
  BY CountType
<1>12. B \subseteq Nat
  BY <1>1
<1>7. Count(a, m) = Cardinality(A) /\ Count(b, m) = Cardinality(B)
      /\ Count(a \o b, m) = Cardinality(C)
  BY DEF Count
<1>8. IsFiniteSet(D) /\ Cardinality(D) = Cardinality(B)
  BY <1>1, <1>6, <1>12, ShiftedSet
<1> HIDE DEF A, B, C, D
<1>9. Cardinality(A \cup D) = Cardinality(A) + Cardinality(D) - Cardinality(A \cap D)
  BY <1>6, <1>8, FS_Union
<1>10. C = A \cup D /\ Cardinality(A \cap D) = 0
  BY <1>2, <1>3, <1>4, <1>5, FS_EmptySet
<1>11. Cardinality(A) \in Nat /\ Cardinality(B) \in Nat
  BY <1>6, FS_CardinalityType
<1> QED
  BY <1>7, <1>8, <1>9, <1>10, <1>11

LEMMA CountOne ==
  ASSUME NEW e, NEW m
  PROVE  Count(<<e>>, m) = One(e, m)
<1>1. {i \in DOMAIN <<e>> : <<e>>[i] = m} = IF e = m THEN {1} ELSE {}
  OBVIOUS
<1> QED
  BY <1>1, FS_EmptySet, FS_Singleton DEF Count, One

\* RPUSH, and what comes back to the head of the queue.
LEMMA CountEnds ==
  ASSUME NEW S, NEW s \in Seq(S), NEW e \in S, NEW m
  PROVE  /\ Count(Append(s, e), m) = Count(s, m) + One(e, m)
         /\ Count(<<e>> \o s, m) = Count(s, m) + One(e, m)
<1>1. <<e>> \in Seq(S) /\ Append(s, e) = s \o <<e>>
  BY AppendIsConcat
<1>2. Count(<<e>>, m) = One(e, m) /\ One(e, m) \in Nat /\ Count(s, m) \in Nat
  BY CountOne, CountType DEF One
<1>3. Count(s \o <<e>>, m) = Count(s, m) + Count(<<e>>, m)
  BY <1>1, CountConcat
<1>4. Count(<<e>> \o s, m) = Count(<<e>>, m) + Count(s, m)
  BY <1>1, CountConcat
<1> QED
  BY <1>1, <1>2, <1>3, <1>4

\* LPOP.
LEMMA CountTail ==
  ASSUME NEW S, NEW s \in Seq(S), s # <<>>, NEW m
  PROVE  Count(s, m) = Count(Tail(s), m) + One(Head(s), m)
<1>1. Tail(s) \in Seq(S) /\ Head(s) \in S /\ s = <<Head(s)>> \o Tail(s)
  OBVIOUS
<1> QED
  BY <1>1, CountEnds

\* The worker takes a retry that is due from those it keeps.
LEMMA CountRemove ==
  ASSUME NEW S, NEW s \in Seq(S), NEW e \in ToSet(s), NEW m
  PROVE  /\ RemoveFirst(s, e) \in Seq(S)
         /\ Count(s, m) = Count(RemoveFirst(s, e), m) + One(e, m)
<1> DEFINE I == {i \in 1..Len(s) : s[i] = e}
           k == Min(I)
           a == SubSeq(s, 1, k - 1)
           b == SubSeq(s, k + 1, Len(s))
           c == SubSeq(s, k, Len(s))
<1>1. DOMAIN s = 1..Len(s) /\ Len(s) \in Nat /\ \A i \in 1..Len(s) : s[i] \in S
  BY LenProperties, ElementOfSeq
<1>2. I # {} /\ I \in SUBSET Nat
  BY <1>1 DEF ToSet
<1>3. RemoveFirst(s, e) = a \o b
  BY <1>2 DEF RemoveFirst, RemoveAt, SelectInSeq
<1>4. k = FSP!First(I)
  BY DEF Min, FSP!First
<1>5. FSP!First(I) \in I
  BY <1>2, FSP!FirstInSet, PartsAssumptions
<1>6. k \in 1..Len(s) /\ s[k] = e
  BY <1>4, <1>5
<1> HIDE DEF k
<1>7. a \in Seq(S) /\ b \in Seq(S) /\ c \in Seq(S)
  BY <1>1, <1>6, SubSeqProperties
<1>8. s = a \o c
  <2>1. \A p \in 1..(Len(s) + 1) : \A q \in (p - 1)..Len(s) : \A n \in q..Len(s) :
          SubSeq(s, p, q) \o SubSeq(s, q + 1, n) = SubSeq(s, p, n)
    BY ConcatAdjacentSubSeq
  <2>2. /\ 1 \in 1..(Len(s) + 1) /\ k - 1 \in (1 - 1)..Len(s) /\ Len(s) \in (k - 1)..Len(s)
        /\ (k - 1) + 1 = k
    BY <1>1, <1>6
  <2>3. a \o SubSeq(s, (k - 1) + 1, Len(s)) = SubSeq(s, 1, Len(s))
    BY <2>1, <2>2
  <2> QED
    BY <2>2, <2>3, SubSeqFull
<1>9. c = <<e>> \o b
  BY <1>1, <1>6, SubSeqRecursiveFirst
<1> HIDE DEF a, b, c
<1>10. Count(s, m) = Count(a, m) + Count(c, m)
  BY <1>7, <1>8, CountConcat
<1>11. Count(c, m) = Count(b, m) + One(e, m)
  BY <1>1, <1>6, <1>7, <1>9, CountEnds
<1>12. Count(a \o b, m) = Count(a, m) + Count(b, m)
  BY <1>7, CountConcat
<1>13. /\ Count(a, m) \in Nat /\ Count(b, m) \in Nat /\ One(e, m) \in Nat
       /\ a \o b \in Seq(S)
  BY <1>7, CountType, ConcatProperties DEF One
<1> QED
  BY <1>3, <1>10, <1>11, <1>12, <1>13

-----------------------------------------------------------------------------
(* What the copies are to the bag.                                         *)

LEMMA CarriedSame ==
  ASSUME \A m \in Payloads : Copies(m)' = Copies(m)
  PROVE  Carried' = Carried
  BY DEF Carried

\* One more copy of e.
LEMMA CarriedAdd ==
  ASSUME NEW e \in Payloads,
         \A m \in Payloads : Copies(m) \in Nat /\ Copies(m)' = Copies(m) + One(e, m)
  PROVE  IJ!Publish(e.job, e.retries)
<1> DEFINE B == [m \in {p \in Payloads : Copies(p) > 0} |-> Copies(m)]
           C == [m \in {p \in Payloads : Copies(p)' > 0} |-> Copies(m)']
           D == [m \in DOMAIN B \cup {e} |-> (IF m \in DOMAIN B THEN B[m] ELSE 0)
                                              + (IF m \in {e} THEN 1 ELSE 0)]
<1>1. Carried = B /\ Carried' = C
  BY DEF Carried
<1>2. [job |-> e.job, retries |-> e.retries] = e
  BY DEF Payloads
<1>3. DOMAIN C = DOMAIN D
  BY DEF One
<1>4. ASSUME NEW m \in DOMAIN D PROVE C[m] = D[m]
  <2>1. m \in Payloads /\ C[m] = Copies(m) + One(e, m)
    BY <1>3
  <2>2. CASE m = e
    BY <2>1, <2>2 DEF One
  <2>3. CASE m # e
    BY <2>1, <2>3 DEF One
  <2> QED
    BY <2>2, <2>3
<1>5. C = D
  BY <1>3, <1>4
<1>6. IJ!Publish(e.job, e.retries) <=> Carried' = [m \in DOMAIN Carried \cup {e} |->
         (IF m \in DOMAIN Carried THEN Carried[m] ELSE 0) + (IF m \in {e} THEN 1 ELSE 0)]
  BY <1>2 DEF IJ!Publish, IJ!Message, IJ!(+), IJ!SetToBag
<1> HIDE DEF B, C
<1> QED
  BY <1>1, <1>5, <1>6

\* One copy of e less.
LEMMA CarriedTake ==
  ASSUME NEW e \in Payloads,
         \A m \in Payloads : Copies(m)' \in Nat /\ Copies(m) = Copies(m)' + One(e, m)
  PROVE  e \in IJ!BagToSet(Carried) /\ IJ!Take(e)
<1> DEFINE B == [m \in {p \in Payloads : Copies(p) > 0} |-> Copies(m)]
           C == [m \in {p \in Payloads : Copies(p)' > 0} |-> Copies(m)']
           D == [m \in DOMAIN B |-> IF m \in {e} THEN B[m] - 1 ELSE B[m]]
           E == [m \in {n \in DOMAIN D : D[n] > 0} |-> D[m]]
<1>1. Carried = B /\ Carried' = C
  BY DEF Carried
<1>2. \A m \in DOMAIN B : m \in Payloads /\ D[m] = Copies(m)'
  BY DEF One
<1>3. DOMAIN C = DOMAIN E
  BY <1>2 DEF One
<1>4. \A m \in DOMAIN E : C[m] = E[m]
  BY <1>2, <1>3
<1>5. C = E
  BY <1>3, <1>4
<1>6. e \in DOMAIN B
  BY DEF One
<1>7. IJ!Take(e) <=> Carried' =
        LET F == [m \in DOMAIN Carried |-> IF m \in {e} THEN Carried[m] - 1 ELSE Carried[m]]
        IN  [m \in {n \in DOMAIN F : F[n] > 0} |-> F[m]]
  BY DEF IJ!Take, IJ!(-), IJ!SetToBag
<1> QED
  BY <1>1, <1>5, <1>6, <1>7 DEF IJ!BagToSet

\* Which copy was taken shows.
LEMMA TakenIsOne ==
  ASSUME \A m \in Payloads : Copies(m) \in Nat,
         NEW e \in IJ!BagToSet(Carried), NEW n \in IJ!BagToSet(Carried),
         IJ!Take(e), IJ!Take(n)
  PROVE  n = e
<1> DEFINE B == Carried
           F(k) == [m \in DOMAIN B |-> IF m \in {k} THEN B[m] - 1 ELSE B[m]]
           E(k) == [m \in {p \in DOMAIN F(k) : F(k)[p] > 0} |-> F(k)[m]]
<1>1. \A m \in DOMAIN B : B[m] \in Nat \ {0}
  BY DEF Carried
<1>2. e \in DOMAIN B /\ n \in DOMAIN B
  BY DEF IJ!BagToSet
<1>3. ASSUME NEW k, IJ!Take(k) PROVE Carried' = E(k)
  BY <1>3 DEF IJ!Take, IJ!(-), IJ!SetToBag
<1>4. Carried' = E(e) /\ Carried' = E(n)
  BY <1>3
<1> HIDE DEF B
<1>5. SUFFICES ASSUME n # e PROVE FALSE
  OBVIOUS
<1>6. F(n)[e] = B[e] /\ F(e)[e] = B[e] - 1 /\ e \in DOMAIN F(n) /\ e \in DOMAIN F(e)
  BY <1>2, <1>5
<1>7. e \in DOMAIN E(n) /\ E(n)[e] = B[e]
  BY <1>1, <1>2, <1>6
<1>8. e \in DOMAIN E(e) => E(e)[e] = B[e] - 1
  BY <1>6
<1> HIDE DEF E
<1>9. B[e] = B[e] - 1 /\ B[e] \in Nat
  BY <1>1, <1>2, <1>4, <1>7, <1>8
<1> QED
  BY <1>9

-----------------------------------------------------------------------------
(* The places.                                                             *)

Retries == {m \in Payloads : IsRetry(m)}

InHand(m) == IF FS!Holds(Worker, m) THEN 1 ELSE 0

\* The lists have the messages they are meant for.
Listed == /\ celery \in Seq(Payloads \cup {Dispatch})
          /\ eta \in Seq(Retries)
          /\ pc[Worker] = "busy" <=> at # "idle"
          /\ FSP!OwnLists

\* The places and the jobs have their types.
Inv == FSP!TypeOK /\ Listed /\ IJP!Alone

LEMMA CopiesType ==
  ASSUME NEW q \in [Tenants -> Seq(Payloads)], NEW c \in Seq(Payloads \cup {Dispatch}),
         NEW k \in Seq(Retries), NEW m \in Payloads
  PROVE  Count(q[OwnerOf[m.job]], m) \in Nat /\ Count(c, m) \in Nat /\ Count(k, m) \in Nat
<1>1. OwnerOf[m.job] \in Tenants
  BY OwnerOfAssumption DEF Payloads
<1> QED
  BY <1>1, CountType

LEMMA CopiesAre ==
  ASSUME NEW m \in Payloads
  PROVE  /\ Copies(m) = Count(queue[OwnerOf[m.job]], m) + Count(celery, m)
                          + Count(eta, m) + InHand(m)
         /\ Copies(m)' = Count(queue'[OwnerOf[m.job]], m) + Count(celery', m)
                           + Count(eta', m) + InHand(m)'
         /\ InHand(m) \in Nat /\ InHand(m)' \in Nat
  BY DEF Copies, InHand

LEMMA InvType ==
  ASSUME FSP!TypeOK, Listed
  PROVE  /\ queue \in [Tenants -> Seq(Payloads)] /\ members \subseteq Tenants
         /\ lock \in BOOLEAN /\ celery \in Seq(Payloads \cup {Dispatch})
         /\ pc \in [{Worker} -> FSP!PCs] /\ slots \in [{Worker} -> 0..MaxDepth]
         /\ todo \in [{Worker} -> SUBSET Tenants] /\ cur \in [{Worker} -> Tenants]
         /\ job \in [{Worker} -> Payloads \cup {NoJob}]
         /\ lossesLeft \in 0..MaxLosses
         /\ pc[Worker] = "send" <=> job[Worker] # NoJob
         /\ pc[Worker] = "send" => slots[Worker] > 0 /\ job[Worker] \in Payloads
         /\ eta \in Seq(Retries)
         /\ \A m \in Payloads : Copies(m) \in Nat
<1>1. /\ queue \in [Tenants -> Seq(Payloads)] /\ celery \in Seq(Payloads \cup {Dispatch})
      /\ eta \in Seq(Retries)
  BY DEF FSP!TypeOK, Listed
<1>2. ASSUME NEW m \in Payloads PROVE Copies(m) \in Nat
  <2>1. /\ Count(queue[OwnerOf[m.job]], m) \in Nat /\ Count(celery, m) \in Nat
        /\ Count(eta, m) \in Nat
    BY <1>1, CopiesType
  <2> QED
    BY <2>1, CopiesAre
<1> QED
  BY <1>1, <1>2 DEF FSP!TypeOK, Listed

-----------------------------------------------------------------------------
(* The two parts, by either of their names: as IngestionPipeline has them  *)
(* and as the modules of their proofs do.                                  *)

LEMMA SameScheduler ==
  /\ FS!TypeOK <=> FSP!TypeOK
  /\ FS!Init => FSP!Init
  /\ \A m \in Payloads : FS!Submit(m) => FSP!Submit(m)
  /\ FS!Beat => FSP!Beat
  /\ FS!LockExpires => FSP!LockExpires
  /\ FS!DispatchStep(Worker) => FSP!DispatchStep(Worker)
  /\ FS!CallFails(Worker) => FSP!CallFails(Worker)
  /\ FS!ReplyLost(Worker) => FSP!ReplyLost(Worker)
  /\ FS!Crash(Worker) => FSP!Crash(Worker)
  /\ FS!Fetch(Worker) => FSP!Fetch(Worker)
  /\ FS!FinishRun(Worker) => FSP!FinishRun(Worker)
<1>1. FS!TypeOK <=> FSP!TypeOK
  BY DEF FS!TypeOK, FSP!TypeOK, FS!Messages, FSP!Messages, FS!PCs, FSP!PCs,
         FS!CriticalPCs, FSP!CriticalPCs
<1>2. FS!Init => FSP!Init
  BY DEF FS!Init, FSP!Init
<1>3. ASSUME NEW m \in Payloads, FS!Submit(m) PROVE FSP!Submit(m)
  BY <1>3 DEF FS!Submit, FSP!Submit, FS!InSystem, FSP!InSystem, FS!InSeq, FSP!InSeq,
              FS!Holds, FSP!Holds, FS!registers, FSP!registers
<1>4. FS!Beat => FSP!Beat
  BY DEF FS!Beat, FSP!Beat, FS!Waiting, FSP!Waiting, FS!registers, FSP!registers,
         FS!Cardinality, FSP!Cardinality
<1>5. FS!LockExpires => FSP!LockExpires
  BY DEF FS!LockExpires, FSP!LockExpires, FS!InDispatch, FSP!InDispatch, FS!CriticalPCs,
         FSP!CriticalPCs, FS!registers, FSP!registers
<1>6. FS!DispatchStep(Worker) => FSP!DispatchStep(Worker)
  <2>1. FS!AcquireLock(Worker) => FSP!AcquireLock(Worker)
    BY DEF FS!AcquireLock, FSP!AcquireLock, FS!Goto, FSP!Goto, FS!registers, FSP!registers
  <2>2. FS!ReadDepth(Worker) => FSP!ReadDepth(Worker)
    BY DEF FS!ReadDepth, FSP!ReadDepth, FS!Goto, FSP!Goto, FS!redis, FSP!redis
  <2>3. FS!ReadMembers(Worker) => FSP!ReadMembers(Worker)
    BY DEF FS!ReadMembers, FSP!ReadMembers, FS!Goto, FSP!Goto, FS!redis, FSP!redis
  <2>4. FS!PopTask(Worker) => FSP!PopTask(Worker)
    BY DEF FS!PopTask, FSP!PopTask, FS!LoopOver, FSP!LoopOver, FS!First, FSP!First,
         FS!Goto, FSP!Goto
  <2>5. FS!SendTask(Worker) => FSP!SendTask(Worker)
    BY DEF FS!SendTask, FSP!SendTask, FS!Goto, FSP!Goto
  <2>6. FS!CheckRemaining(Worker) => FSP!CheckRemaining(Worker)
    BY DEF FS!CheckRemaining, FSP!CheckRemaining, FS!Goto, FSP!Goto, FS!redis, FSP!redis,
         FS!registers, FSP!registers
  <2>7. FS!RemoveTenant(Worker) => FSP!RemoveTenant(Worker)
    BY DEF FS!RemoveTenant, FSP!RemoveTenant, FS!Goto, FSP!Goto, FS!registers,
         FSP!registers
  <2>8. FS!ReleaseLock(Worker) => FSP!ReleaseLock(Worker)
    BY DEF FS!ReleaseLock, FSP!ReleaseLock, FS!AtUnlock, FSP!AtUnlock, FS!LoopOver,
         FSP!LoopOver, FS!Goto, FSP!Goto, FS!registers, FSP!registers
  <2> QED
    BY <2>1, <2>2, <2>3, <2>4, <2>5, <2>6, <2>7, <2>8 DEF FS!DispatchStep, FSP!DispatchStep
<1>7. FS!CallFails(Worker) => FSP!CallFails(Worker)
  BY DEF FS!CallFails, FSP!CallFails, FS!Unwind, FSP!Unwind, FS!AtUnlock, FSP!AtUnlock,
         FS!LoopOver, FSP!LoopOver, FS!CriticalPCs, FSP!CriticalPCs, FS!Goto, FSP!Goto,
         FS!redis, FSP!redis
<1>8. FS!ReplyLost(Worker) => FSP!ReplyLost(Worker)
  BY DEF FS!ReplyLost, FSP!ReplyLost, FS!Unwind, FSP!Unwind, FS!AtUnlock, FSP!AtUnlock,
         FS!LoopOver, FSP!LoopOver, FS!First, FSP!First, FS!Goto, FSP!Goto
<1>9. FS!Crash(Worker) => FSP!Crash(Worker)
  BY DEF FS!Crash, FSP!Crash, FS!Goto, FSP!Goto
<1>10. FS!Fetch(Worker) => FSP!Fetch(Worker)
  BY DEF FS!Fetch, FSP!Fetch, FS!Goto, FSP!Goto, FS!registers, FSP!registers
<1>11. FS!FinishRun(Worker) => FSP!FinishRun(Worker)
  BY DEF FS!FinishRun, FSP!FinishRun, FS!Goto, FSP!Goto, FS!redis, FSP!redis,
         FS!registers, FSP!registers
<1> QED
  BY <1>1, <1>2, <1>3, <1>4, <1>5, <1>6, <1>7, <1>8, <1>9, <1>10, <1>11

LEMMA SameMoves ==
  ASSUME NEW j, NEW r, NEW m
  PROVE  /\ IJ!Publish(j, r) <=> IJP!Publish(j, r)
         /\ IJ!Take(m) <=> IJP!Take(m)
         /\ IJ!Undelivered(j) <=> IJP!Undelivered(j)
         /\ IJ!New(j) <=> IJP!New(j)
         /\ IJ!BagToSet(Carried) = IJP!BagToSet(Carried)
<1>1. IJ!Publish(j, r) <=> IJP!Publish(j, r)
  BY DEF IJ!Publish, IJP!Publish, IJ!Message, IJP!Message, IJ!(+), IJP!(+), IJ!SetToBag,
         IJP!SetToBag
<1>2. IJ!Take(m) <=> IJP!Take(m)
  BY DEF IJ!Take, IJP!Take, IJ!(-), IJP!(-), IJ!SetToBag, IJP!SetToBag
<1>3. IJ!BagToSet(Carried) = IJP!BagToSet(Carried)
  BY DEF IJ!BagToSet, IJP!BagToSet
<1>4. IJ!Undelivered(j) <=> IJP!Undelivered(j)
  BY <1>3 DEF IJ!Undelivered, IJP!Undelivered
<1>5. IJ!New(j) <=> IJP!New(j)
  BY <1>4 DEF IJ!New, IJP!New, IJ!Pending, IJP!Pending, IJ!Running, IJP!Running,
              IJ!RunPCs, IJP!RunPCs
<1> QED
  BY <1>1, <1>2, <1>3, <1>4, <1>5

LEMMA SameJobs ==
  /\ IJ!TypeOK <=> IJP!TypeOK
  /\ IJ!Init => IJP!Init
  /\ IJ!Next => IJP!Next
  /\ IJ!vars = IJP!vars
<1>1. IJ!TypeOK <=> IJP!TypeOK
  BY DEF IJ!TypeOK, IJP!TypeOK, IJ!Statuses, IJP!Statuses, IJ!RunPCs, IJP!RunPCs,
         IJ!IsABag, IJP!IsABag, IJ!BagToSet, IJP!BagToSet
<1>2. IJ!Init => IJP!Init
  BY DEF IJ!Init, IJP!Init, IJ!Message, IJP!Message, IJ!EmptyBag, IJP!EmptyBag,
         IJ!SetToBag, IJP!SetToBag
<1>3. IJ!vars = IJP!vars
  BY DEF IJ!vars, IJP!vars, IJ!tables, IJP!tables, IJ!budgets, IJP!budgets
<1>4. ASSUME NEW j \in Jobs,
             IJ!InsertJob(j) \/ IJ!EnqueueJob(j) \/ IJ!EnqueueFails(j) \/ IJ!RefreshJob(j)
      PROVE  IJP!InsertJob(j) \/ IJP!EnqueueJob(j) \/ IJP!EnqueueFails(j) \/ IJP!RefreshJob(j)
  <2>1. IJ!InsertJob(j) => IJP!InsertJob(j)
    BY SameMoves DEF IJ!InsertJob, IJP!InsertJob, IJ!budgets, IJP!budgets
  <2>2. IJ!EnqueueJob(j) => IJP!EnqueueJob(j)
    BY SameMoves DEF IJ!EnqueueJob, IJP!EnqueueJob, IJ!tables, IJP!tables, IJ!budgets,
                     IJP!budgets
  <2>3. IJ!EnqueueFails(j) => IJP!EnqueueFails(j)
    BY DEF IJ!EnqueueFails, IJP!EnqueueFails, IJ!tables, IJP!tables
  <2>4. IJ!RefreshJob(j) => IJP!RefreshJob(j)
    BY SameMoves DEF IJ!RefreshJob, IJP!RefreshJob, IJ!budgets, IJP!budgets
  <2> QED
    BY <1>4, <2>1, <2>2, <2>3, <2>4
<1>5. IJ!Fetch => IJP!Fetch
  BY SameMoves DEF IJ!Fetch, IJP!Fetch, IJ!tables, IJP!tables, IJ!budgets, IJP!budgets,
                   IJ!BagToSet, IJP!BagToSet
<1>6. IJ!MarkRunning => IJP!MarkRunning
  BY DEF IJ!MarkRunning, IJP!MarkRunning, IJ!tables, IJP!tables, IJ!budgets,
         IJP!budgets, IJ!RowVisible, IJP!RowVisible
<1>7. IJ!Ingest => IJP!Ingest
  BY DEF IJ!Ingest, IJP!Ingest, IJ!tables, IJP!tables, IJ!budgets, IJP!budgets
<1>8. IJ!IngestPoisoned => IJP!IngestPoisoned
  BY DEF IJ!IngestPoisoned, IJP!IngestPoisoned, IJ!tables, IJP!tables, IJ!budgets,
         IJP!budgets
<1>9. IJ!FinishJob => IJP!FinishJob
  BY DEF IJ!FinishJob, IJP!FinishJob, IJ!tables, IJP!tables, IJ!budgets, IJP!budgets
<1>10. IJ!ReportFailure => IJP!ReportFailure
  BY DEF IJ!ReportFailure, IJP!ReportFailure, IJ!tables, IJP!tables, IJ!budgets,
         IJP!budgets, IJ!RowVisible, IJP!RowVisible
<1>11. IJ!Retry => IJP!Retry
  BY SameMoves DEF IJ!Retry, IJP!Retry, IJ!tables, IJP!tables, IJ!budgets, IJP!budgets
<1>12. IJ!Acknowledge => IJP!Acknowledge
  BY DEF IJ!Acknowledge, IJP!Acknowledge, IJ!tables, IJP!tables, IJ!budgets, IJP!budgets
<1>13. IJ!RefreshCommit => IJP!RefreshCommit
  BY DEF IJ!RefreshCommit, IJP!RefreshCommit, IJ!tables, IJP!tables, IJ!budgets,
         IJP!budgets, IJ!EndTransaction, IJP!EndTransaction
<1>14. IJ!StartRefresh => IJP!StartRefresh
  BY DEF IJ!StartRefresh, IJP!StartRefresh, IJ!tables, IJP!tables, IJ!budgets,
         IJP!budgets, IJ!Logged, IJP!Logged
<1>15. IJ!RefreshAborts => IJP!RefreshAborts
  BY DEF IJ!RefreshAborts, IJP!RefreshAborts, IJ!tables, IJP!tables, IJ!budgets,
         IJP!budgets, IJ!EndTransaction, IJP!EndTransaction
<1>16. IJ!MessageLost => IJP!MessageLost
  BY SameMoves DEF IJ!MessageLost, IJP!MessageLost, IJ!tables, IJP!tables, IJ!budgets,
                   IJP!budgets, IJ!BagToSet, IJP!BagToSet
<1>17. IJ!StepFails => IJP!StepFails
  BY DEF IJ!StepFails, IJP!StepFails, IJ!tables, IJP!tables, IJ!budgets, IJP!budgets
<1>18. IJ!Crash => IJP!Crash
  BY SameMoves DEF IJ!Crash, IJP!Crash, IJ!tables, IJP!tables, IJ!budgets, IJP!budgets,
                   IJ!EndTransaction, IJP!EndTransaction
<1>19. IJ!ChildKilled => IJP!ChildKilled
  BY DEF IJ!ChildKilled, IJP!ChildKilled, IJ!tables, IJP!tables, IJ!budgets,
         IJP!budgets, IJ!EndTransaction, IJP!EndTransaction
<1> QED
  BY <1>1, <1>2, <1>3, <1>4, <1>5, <1>6, <1>7, <1>8, <1>9, <1>10, <1>11, <1>12, <1>13,
     <1>14, <1>15, <1>16, <1>17, <1>18, <1>19
     DEF IJ!Next, IJP!Next, IJ!WorkerStep, IJP!WorkerStep

-----------------------------------------------------------------------------
(* What each step does to the places is what IngestionJobs says of its bag. *)

PlacesTyped == /\ queue \in [Tenants -> Seq(Payloads)]
               /\ celery \in Seq(Payloads \cup {Dispatch})
               /\ eta \in Seq(Retries)

\* The copies of m are those in its four places.
CopiesSum(m) ==
  /\ Count(queue[OwnerOf[m.job]], m) \in Nat /\ Count(celery, m) \in Nat
  /\ Count(eta, m) \in Nat /\ InHand(m) \in Nat
  /\ Copies(m) = Count(queue[OwnerOf[m.job]], m) + Count(celery, m)
                   + Count(eta, m) + InHand(m)

LEMMA Places ==
  ASSUME NEW m \in Payloads, PlacesTyped, PlacesTyped'
  PROVE  CopiesSum(m) /\ CopiesSum(m)'
<1>1. /\ Count(queue[OwnerOf[m.job]], m) \in Nat /\ Count(celery, m) \in Nat
      /\ Count(eta, m) \in Nat
  BY CopiesType DEF PlacesTyped
<1>2. /\ Count(queue'[OwnerOf[m.job]], m) \in Nat /\ Count(celery', m) \in Nat
      /\ Count(eta', m) \in Nat
  BY CopiesType DEF PlacesTyped
<1> QED
  BY <1>1, <1>2, CopiesAre DEF CopiesSum

\* A tenant's list gets one more message, or one less.
LEMMA ListGains ==
  ASSUME NEW q \in [Tenants -> Seq(Payloads)], NEW t \in Tenants,
         NEW e \in Payloads, OwnerOf[e.job] = t, NEW m \in Payloads
  PROVE  \A r : (\A u \in Tenants : r[u] = IF u = t THEN Append(q[t], e) ELSE q[u])
                  => Count(r[OwnerOf[m.job]], m) = Count(q[OwnerOf[m.job]], m) + One(e, m)
<1> DEFINE u == OwnerOf[m.job]
<1>1. t \in Tenants /\ u \in Tenants
  BY OwnerOfAssumption DEF Payloads
<1>2. /\ q[t] \in Seq(Payloads) /\ q[u] \in Seq(Payloads)
      /\ Append(q[t], e) \in Seq(Payloads)
  BY <1>1
<1>3. Count(Append(q[t], e), m) = Count(q[t], m) + One(e, m)
  BY <1>2, CountEnds
<1>4. Count(q[u], m) \in Nat
  BY <1>2, CountType
<1> SUFFICES ASSUME NEW r,
                    \A v \in Tenants : r[v] = IF v = t THEN Append(q[t], e) ELSE q[v]
             PROVE  Count(r[u], m) = Count(q[u], m) + One(e, m)
  OBVIOUS
<1> HIDE DEF u
<1>5. CASE u = t
  BY <1>1, <1>3, <1>5
<1>6. CASE u # t
  <2>1. r[u] = q[u] /\ One(e, m) = 0
    BY <1>1, <1>6 DEF One, u
  <2> QED
    BY <1>4, <2>1
<1> QED
  BY <1>5, <1>6

LEMMA ListLoses ==
  ASSUME NEW q \in [Tenants -> Seq(Payloads)], NEW t \in Tenants, q[t] # <<>>,
         OwnerOf[Head(q[t]).job] = t,
         NEW r, r = [u \in Tenants |-> IF u = t THEN Tail(q[t]) ELSE q[u]]
  PROVE  /\ r \in [Tenants -> Seq(Payloads)]
         /\ \A m \in Payloads : Count(q[OwnerOf[m.job]], m)
                                  = Count(r[OwnerOf[m.job]], m) + One(Head(q[t]), m)
<1>6. q[t] \in Seq(Payloads) /\ Tail(q[t]) \in Seq(Payloads)
  OBVIOUS
<1> SUFFICES ASSUME NEW m \in Payloads
             PROVE  Count(q[OwnerOf[m.job]], m)
                      = Count(r[OwnerOf[m.job]], m) + One(Head(q[t]), m)
  BY <1>6
<1> DEFINE u == OwnerOf[m.job]
<1>1. u \in Tenants
  BY OwnerOfAssumption DEF Payloads
<1>2. /\ q[t] \in Seq(Payloads) /\ q[u] \in Seq(Payloads)
      /\ Tail(q[t]) \in Seq(Payloads)
  BY <1>1
<1>3. Count(q[t], m) = Count(Tail(q[t]), m) + One(Head(q[t]), m) /\ Count(q[u], m) \in Nat
  BY <1>2, CountTail, CountType
<1>4. CASE u = t
  BY <1>1, <1>2, <1>3, <1>4
<1>5. CASE u # t
  BY <1>1, <1>2, <1>3, <1>5 DEF One
<1> QED
  BY <1>4, <1>5

\* The head of a list belongs to the list's tenant.
LEMMA HeadIsOwn ==
  ASSUME FSP!TypeOK, Listed, NEW t \in Tenants, queue[t] # <<>>
  PROVE  Head(queue[t]) \in Payloads /\ OwnerOf[Head(queue[t]).job] = t
<1>1. queue[t] \in Seq(Payloads)
  BY InvType
<1>2. /\ 1 \in DOMAIN queue[t] /\ queue[t][1] = Head(queue[t])
      /\ Head(queue[t]) \in Payloads
  BY <1>1
<1>3. FSP!InSeq(queue[t], Head(queue[t]))
  BY <1>2 DEF FSP!InSeq
<1>4. [m \in Payloads |-> OwnerOf[m.job]][Head(queue[t])] = t
  BY <1>2, <1>3 DEF Listed, FSP!OwnLists
<1> QED
  BY <1>2, <1>4

\* sorted(tenant_ids) yields a tenant.
LEMMA FirstIsTenant ==
  ASSUME FSP!TypeOK, Listed, ~ FSP!LoopOver(Worker)
  PROVE  FSP!First(todo[Worker]) \in Tenants
<1>1. todo[Worker] \in SUBSET Tenants /\ todo[Worker] # {}
  BY InvType DEF FSP!LoopOver
<1>2. todo[Worker] \in SUBSET Nat
  BY <1>1, OwnerOfAssumption
<1> QED
  BY <1>1, <1>2, FSP!FirstInSet, PartsAssumptions

LEMMA HandEmpty ==
  /\ pc[Worker] # "send" => \A m \in Payloads : InHand(m) = 0
  /\ pc'[Worker] # "send" => \A m \in Payloads : InHand(m)' = 0
  /\ pc[Worker] = "send" => \A m \in Payloads : InHand(m) = One(job[Worker], m)
  /\ pc'[Worker] = "send" => \A m \in Payloads : InHand(m)' = One(job'[Worker], m)
  BY DEF InHand, FS!Holds, One

\* What is put at either end of the Celery queue.
LEMMA Pushed ==
  ASSUME NEW s \in Seq(Payloads \cup {Dispatch}), NEW e \in Payloads \cup {Dispatch},
         NEW c, c = Append(s, e) \/ c = <<e>> \o s
  PROVE  /\ c \in Seq(Payloads \cup {Dispatch})
         /\ \A m \in Payloads : Count(c, m) = Count(s, m) + One(e, m)
<1> DEFINE S == Payloads \cup {Dispatch}
<1> HIDE DEF S
<1>1. s \in Seq(S) /\ e \in S
  BY DEF S
<1>2. Append(s, e) \in Seq(S) /\ <<e>> \o s \in Seq(S)
  BY <1>1
<1>3. ASSUME NEW m \in Payloads
      PROVE  /\ Count(Append(s, e), m) = Count(s, m) + One(e, m)
             /\ Count(<<e>> \o s, m) = Count(s, m) + One(e, m)
  BY <1>1, CountEnds
<1>4. CASE c = Append(s, e)
  BY <1>2, <1>3, <1>4 DEF S
<1>5. CASE c = <<e>> \o s
  BY <1>2, <1>3, <1>5 DEF S
<1> QED
  BY <1>4, <1>5

\* run_fair_dispatch comes and goes without the jobs noticing.
LEMMA DispatchPushed ==
  ASSUME NEW s \in Seq(Payloads \cup {Dispatch}),
         NEW c, c = s \/ c = Append(s, Dispatch) \/ c = <<Dispatch>> \o s
  PROVE  /\ c \in Seq(Payloads \cup {Dispatch})
         /\ \A m \in Payloads : Count(c, m) = Count(s, m)
<1>1. CASE c = s
  BY <1>1
<1>2. CASE c # s
  <2>1. /\ c \in Seq(Payloads \cup {Dispatch})
        /\ \A m \in Payloads : Count(c, m) = Count(s, m) + One(Dispatch, m)
    BY <1>2, Pushed
  <2>2. ASSUME NEW m \in Payloads PROVE One(Dispatch, m) = 0 /\ Count(s, m) \in Nat
    BY CountType, MessagesAssumption DEF One
  <2> QED
    BY <2>1, <2>2
<1> QED
  BY <1>1, <1>2

LEMMA QuietStep ==
  ASSUME PlacesTyped, UNCHANGED <<queue, eta>>,
         celery' \in {celery, Append(celery, Dispatch), <<Dispatch>> \o celery},
         \A m \in Payloads : InHand(m)' = InHand(m)
  PROVE  PlacesTyped' /\ Carried' = Carried
<1>1. celery \in Seq(Payloads \cup {Dispatch})
  BY DEF PlacesTyped
<1>2. /\ celery' \in Seq(Payloads \cup {Dispatch})
      /\ \A m \in Payloads : Count(celery', m) = Count(celery, m)
  BY <1>1, DispatchPushed
<1>4. PlacesTyped'
  BY <1>2 DEF PlacesTyped
<1>5. ASSUME NEW m \in Payloads PROVE Copies(m)' = Copies(m)
  <2>1. CopiesSum(m) /\ CopiesSum(m)'
    BY <1>4, Places
  <2>2. Count(celery', m) = Count(celery, m) /\ InHand(m)' = InHand(m)
    BY <1>2
  <2> QED
    BY <2>1, <2>2 DEF CopiesSum
<1> QED
  BY <1>4, <1>5, CarriedSame

\* send_task moves the payload from the dispatcher's hands to Celery.
LEMMA SendStep ==
  ASSUME FSP!TypeOK, Listed, UNCHANGED <<queue, eta>>, pc[Worker] = "send",
         pc'[Worker] # "send", celery' = Append(celery, job[Worker])
  PROVE  PlacesTyped' /\ Carried' = Carried
<1>1. PlacesTyped /\ job[Worker] \in Payloads
  BY InvType DEF PlacesTyped
<1>2. /\ celery' \in Seq(Payloads \cup {Dispatch})
      /\ \A m \in Payloads : Count(celery', m) = Count(celery, m) + One(job[Worker], m)
  BY <1>1, Pushed DEF PlacesTyped
<1>3. PlacesTyped'
  BY <1>1, <1>2 DEF PlacesTyped
<1>4. ASSUME NEW m \in Payloads PROVE Copies(m)' = Copies(m)
  <2>1. InHand(m) = One(job[Worker], m) /\ InHand(m)' = 0
    BY HandEmpty
  <2>s. CopiesSum(m) /\ CopiesSum(m)'
    BY <1>1, <1>2, <1>3, <2>1, Places
  <2> QED
    BY <1>1, <1>2, <1>3, <2>1, <2>s DEF CopiesSum
<1> QED
  BY <1>3, <1>4, CarriedSame

LEMMA ListPopped ==
  ASSUME PlacesTyped, NEW t \in Tenants, queue[t] # <<>>,
         OwnerOf[Head(queue[t]).job] = t, queue' = [queue EXCEPT ![t] = Tail(@)]
  PROVE  /\ queue' \in [Tenants -> Seq(Payloads)]
         /\ \A m \in Payloads : Count(queue[OwnerOf[m.job]], m)
                                  = Count(queue'[OwnerOf[m.job]], m) + One(Head(queue[t]), m)
<1> DEFINE q == queue
           r == queue'
<1>1. q \in [Tenants -> Seq(Payloads)] /\ q[t] # <<>> /\ OwnerOf[Head(q[t]).job] = t
  BY DEF PlacesTyped
<1>2. r = [u \in Tenants |-> IF u = t THEN Tail(q[t]) ELSE q[u]]
  BY DEF PlacesTyped
<1> HIDE DEF q, r
<1>3. /\ r \in [Tenants -> Seq(Payloads)]
      /\ \A m \in Payloads : Count(q[OwnerOf[m.job]], m)
                               = Count(r[OwnerOf[m.job]], m) + One(Head(q[t]), m)
  BY <1>1, <1>2, ListLoses
<1> QED
  BY <1>3 DEF q, r

\* LPOP moves the head of a list to the dispatcher's hands.
LEMMA PopStep ==
  ASSUME FSP!TypeOK, Listed, UNCHANGED <<celery, eta>>, pc[Worker] # "send",
         pc'[Worker] = "send", NEW t \in Tenants, queue[t] # <<>>,
         queue' = [queue EXCEPT ![t] = Tail(@)], job'[Worker] = Head(queue[t])
  PROVE  PlacesTyped' /\ Carried' = Carried
<1>1. PlacesTyped /\ OwnerOf[Head(queue[t]).job] = t
  BY InvType, HeadIsOwn DEF PlacesTyped
<1>2. /\ queue' \in [Tenants -> Seq(Payloads)]
      /\ \A m \in Payloads : Count(queue[OwnerOf[m.job]], m)
                               = Count(queue'[OwnerOf[m.job]], m) + One(Head(queue[t]), m)
  BY <1>1, ListPopped
<1>3. PlacesTyped'
  <2>1. Head(queue[t]) \in Payloads
    BY HeadIsOwn
  <2> QED
    BY <1>1, <1>2, <2>1 DEF PlacesTyped
<1>4. ASSUME NEW m \in Payloads PROVE Copies(m)' = Copies(m)
  <2>1. InHand(m)' = One(Head(queue[t]), m) /\ InHand(m) = 0
    BY HandEmpty
  <2>s. CopiesSum(m) /\ CopiesSum(m)'
    BY <1>1, <1>2, <1>3, <2>1, Places
  <2> QED
    BY <1>1, <1>2, <1>3, <2>1, <2>s DEF CopiesSum
<1> QED
  BY <1>3, <1>4, CarriedSame

\* ... and a lost answer takes it from the list and puts it nowhere.
LEMMA PopLosesStep ==
  ASSUME FSP!TypeOK, Listed, UNCHANGED <<celery, eta>>, pc[Worker] # "send",
         pc'[Worker] # "send", NEW t \in Tenants, queue[t] # <<>>,
         queue' = [queue EXCEPT ![t] = Tail(@)]
  PROVE  /\ PlacesTyped'
         /\ Head(queue[t]) \in IJ!BagToSet(Carried) /\ IJ!Take(Head(queue[t]))
<1>1. PlacesTyped /\ Head(queue[t]) \in Payloads /\ OwnerOf[Head(queue[t]).job] = t
  BY InvType, HeadIsOwn DEF PlacesTyped
<1>2. /\ queue' \in [Tenants -> Seq(Payloads)]
      /\ \A m \in Payloads : Count(queue[OwnerOf[m.job]], m)
                               = Count(queue'[OwnerOf[m.job]], m) + One(Head(queue[t]), m)
  BY <1>1, ListPopped
<1>3. PlacesTyped'
  BY <1>1, <1>2 DEF PlacesTyped
<1>4. ASSUME NEW m \in Payloads
      PROVE  Copies(m)' \in Nat /\ Copies(m) = Copies(m)' + One(Head(queue[t]), m)
  <2>1. InHand(m)' = 0 /\ InHand(m) = 0
    BY HandEmpty
  <2>2. One(Head(queue[t]), m) \in Nat
    BY DEF One
  <2>s. CopiesSum(m) /\ CopiesSum(m)'
    BY <1>1, <1>2, <1>3, <2>1, <2>2, Places
  <2> QED
    BY <1>1, <1>2, <1>3, <2>1, <2>2, <2>s DEF CopiesSum
<1> QED
  BY <1>1, <1>3, <1>4, CarriedTake

\* A dispatcher that fails or dies before send_task loses what it holds.
LEMMA DropStep ==
  ASSUME FSP!TypeOK, Listed, UNCHANGED <<queue, eta>>, pc[Worker] = "send",
         pc'[Worker] # "send", celery' \in {celery, <<Dispatch>> \o celery}
  PROVE  /\ PlacesTyped'
         /\ job[Worker] \in IJ!BagToSet(Carried) /\ IJ!Take(job[Worker])
<1>1. PlacesTyped /\ job[Worker] \in Payloads
  BY InvType DEF PlacesTyped
<1>2. /\ celery' \in Seq(Payloads \cup {Dispatch})
      /\ \A m \in Payloads : Count(celery', m) = Count(celery, m)
  BY <1>1, DispatchPushed DEF PlacesTyped
<1>4. PlacesTyped'
  BY <1>1, <1>2 DEF PlacesTyped
<1>5. ASSUME NEW m \in Payloads
      PROVE  Copies(m)' \in Nat /\ Copies(m) = Copies(m)' + One(job[Worker], m)
  <2>1. InHand(m) = One(job[Worker], m) /\ InHand(m)' = 0
    BY HandEmpty
  <2>s. CopiesSum(m) /\ CopiesSum(m)'
    BY <1>1, <1>2, <1>4, <2>1, Places
  <2> QED
    BY <1>1, <1>2, <1>4, <2>1, <2>s DEF CopiesSum
<1> QED
  BY <1>1, <1>4, <1>5, CarriedTake

-----------------------------------------------------------------------------
(* The steps of the scheduler.                                             *)

\* A step of the scheduler that leaves lists and hands alone.
LEMMA QuietPlaces ==
  ASSUME FSP!TypeOK, Listed, UNCHANGED <<queue, eta>>,
         celery' \in {celery, Append(celery, Dispatch), <<Dispatch>> \o celery},
         (pc[Worker] # "send" /\ pc'[Worker] # "send") \/ UNCHANGED <<pc, job>>
  PROVE  PlacesTyped' /\ Carried' = Carried
<1>1. PlacesTyped
  BY InvType DEF PlacesTyped
<1>2. ASSUME NEW m \in Payloads PROVE InHand(m)' = InHand(m)
  <2>1. CASE pc[Worker] # "send" /\ pc'[Worker] # "send"
    BY <2>1, HandEmpty
  <2>2. CASE UNCHANGED <<pc, job>>
    BY <2>2 DEF InHand, FS!Holds
  <2> QED
    BY <2>1, <2>2
<1> QED
  BY <1>1, <1>2, QuietStep

\* Beat, the lock and the dispatches move no message in or out.
LEMMA SchedulerStep ==
  ASSUME FSP!TypeOK, Listed, UNCHANGED eta,
         FSP!Beat \/ FSP!LockExpires \/ FSP!DispatchStep(Worker)
  PROVE  /\ PlacesTyped' /\ Carried' = Carried
         /\ pc'[Worker] = "busy" <=> pc[Worker] = "busy"
         /\ UNCHANGED lossesLeft
<1>t. pc \in [{Worker} -> FSP!PCs] /\ job \in [{Worker} -> Payloads \cup {NoJob}]
  BY InvType
<1>1. CASE FSP!Beat \/ FSP!LockExpires
  BY <1>1, QuietPlaces DEF FSP!Beat, FSP!LockExpires, FSP!registers
<1>2. CASE \/ FSP!AcquireLock(Worker) \/ FSP!ReadDepth(Worker) \/ FSP!ReadMembers(Worker)
           \/ FSP!CheckRemaining(Worker) \/ FSP!RemoveTenant(Worker)
           \/ FSP!ReleaseLock(Worker)
  <2>1. UNCHANGED <<queue, celery, lossesLeft>>
    BY <1>2 DEF FSP!AcquireLock, FSP!ReadDepth, FSP!ReadMembers, FSP!CheckRemaining,
                FSP!RemoveTenant, FSP!ReleaseLock, FSP!redis
  <2>2. pc[Worker] \notin {"send", "busy"} /\ pc'[Worker] \notin {"send", "busy"}
    BY <1>2, <1>t DEF FSP!AcquireLock, FSP!ReadDepth, FSP!ReadMembers, FSP!CheckRemaining,
                      FSP!RemoveTenant, FSP!ReleaseLock, FSP!AtUnlock, FSP!Goto
  <2> QED
    BY <2>1, <2>2, QuietPlaces
<1>3. CASE FSP!PopTask(Worker)
  <2> DEFINE t == FSP!First(todo[Worker])
  <2>1. t \in Tenants /\ pc[Worker] = "lpop" /\ UNCHANGED <<celery, lossesLeft>>
    BY <1>3, FirstIsTenant DEF FSP!PopTask
  <2>2. CASE queue[t] = <<>>
    <3>1. pc'[Worker] = "srem" /\ queue' = queue
      BY <1>3, <1>t, <2>2 DEF FSP!PopTask, FSP!Goto
    <3> QED
      BY <2>1, <3>1, QuietPlaces
  <2>3. CASE queue[t] # <<>>
    <3>1. /\ pc'[Worker] = "send" /\ job'[Worker] = Head(queue[t])
          /\ queue' = [queue EXCEPT ![t] = Tail(@)]
      BY <1>3, <1>t, <2>3 DEF FSP!PopTask, FSP!Goto
    <3> HIDE DEF t
    <3> QED
      BY <2>1, <2>3, <3>1, PopStep
  <2> QED
    BY <2>2, <2>3
<1>4. CASE FSP!SendTask(Worker)
  <2>1. /\ pc[Worker] = "send" /\ pc'[Worker] = "llen" /\ UNCHANGED <<queue, lossesLeft>>
        /\ celery' = Append(celery, job[Worker])
    BY <1>4, <1>t DEF FSP!SendTask, FSP!Goto
  <2> QED
    BY <2>1, SendStep
<1> QED
  BY <1>1, <1>2, <1>3, <1>4 DEF FSP!DispatchStep

\* A failure of the scheduler loses one message or none.
LEMMA SchedulerFails ==
  ASSUME FSP!TypeOK, Listed, UNCHANGED eta,
         \/ FSP!CallFails(Worker) \/ FSP!ReplyLost(Worker)
         \/ pc[Worker] # "busy" /\ FSP!Crash(Worker)
  PROVE  /\ PlacesTyped'
         /\ Carried' = Carried \/ \E e \in IJ!BagToSet(Carried) : IJ!Take(e)
         /\ pc[Worker] # "busy" /\ pc'[Worker] # "busy"
         /\ lossesLeft > 0 /\ lossesLeft' = lossesLeft - 1
<1>t. pc \in [{Worker} -> FSP!PCs]
  BY InvType
<1>0. /\ pc[Worker] # "busy" /\ pc'[Worker] \notin {"busy", "send"}
      /\ lossesLeft > 0 /\ lossesLeft' = lossesLeft - 1
  BY <1>t DEF FSP!CallFails, FSP!ReplyLost, FSP!Crash, FSP!Unwind, FSP!Goto, FSP!CriticalPCs
<1>1. CASE FSP!ReplyLost(Worker) /\ pc[Worker] = "send"
  <2>1. celery' = Append(celery, job[Worker]) /\ queue' = queue
    BY <1>1 DEF FSP!ReplyLost
  <2> QED
    BY <1>0, <1>1, <2>1, SendStep
<1>2. CASE FSP!ReplyLost(Worker) /\ pc[Worker] = "lpop"
  <2> DEFINE t == FSP!First(todo[Worker])
  <2>1. /\ t \in Tenants /\ queue[t] # <<>> /\ celery' = celery
        /\ queue' = [queue EXCEPT ![t] = Tail(@)]
    BY <1>2, FirstIsTenant DEF FSP!ReplyLost
  <2> HIDE DEF t
  <2> QED
    BY <1>0, <1>2, <2>1, PopLosesStep
<1>3. CASE FSP!ReplyLost(Worker) /\ pc[Worker] \notin {"send", "lpop"}
  <2>1. UNCHANGED <<queue, celery>>
    BY <1>3 DEF FSP!ReplyLost
  <2> QED
    BY <1>0, <1>3, <2>1, QuietPlaces
<1>4. CASE FSP!CallFails(Worker) \/ FSP!Crash(Worker)
  <2>1. queue' = queue /\ celery' \in {celery, <<Dispatch>> \o celery}
    BY <1>0, <1>4 DEF FSP!CallFails, FSP!Crash, FSP!redis
  <2>2. CASE pc[Worker] = "send"
    BY <1>0, <2>1, <2>2, DropStep
  <2>3. CASE pc[Worker] # "send"
    BY <1>0, <2>1, <2>3, QuietPlaces
  <2> QED
    BY <2>2, <2>3
<1> QED
  BY <1>1, <1>2, <1>3, <1>4

-----------------------------------------------------------------------------
(* The steps that the scheduler and the jobs make together.                *)

\* enqueue_task puts one message on its tenant's list.
LEMMA SubmitStep ==
  ASSUME FSP!TypeOK, Listed, UNCHANGED eta, NEW j \in Jobs, FSP!Submit(Message(j, 0))
  PROVE  PlacesTyped' /\ IJ!Publish(j, 0)
<1> DEFINE e == Message(j, 0)
           t == OwnerOf[j]
           q == queue
           r == queue'
<1>0. PlacesTyped
  BY InvType DEF PlacesTyped
<1>1. e \in Payloads /\ e.job = j /\ e.retries = 0 /\ t \in Tenants
  BY BoundsAssumption, OwnerOfAssumption DEF Message, Payloads
<1> HIDE DEF e
<1>2. queue' = [queue EXCEPT ![t] = Append(@, e)] /\ UNCHANGED <<celery, pc, job>>
  BY <1>1 DEF FSP!Submit, FSP!registers, e
<1>7. q \in [Tenants -> Seq(Payloads)]
  BY <1>0 DEF PlacesTyped
<1>8. /\ Append(q[t], e) \in Seq(Payloads)
      /\ \A u \in Tenants : r[u] = IF u = t THEN Append(q[t], e) ELSE q[u]
  BY <1>1, <1>2, <1>7
<1>11. r \in [Tenants -> Seq(Payloads)]
  BY <1>1, <1>2, <1>7, <1>8
<1> HIDE DEF q, r, t
<1>9. OwnerOf[e.job] = t
  BY <1>1 DEF t
<1>10. /\ r \in [Tenants -> Seq(Payloads)]
       /\ \A m \in Payloads : Count(r[OwnerOf[m.job]], m)
                                = Count(q[OwnerOf[m.job]], m) + One(e, m)
  BY <1>1, <1>7, <1>8, <1>9, <1>11, ListGains
<1>3. /\ queue' \in [Tenants -> Seq(Payloads)]
      /\ \A m \in Payloads : Count(queue'[OwnerOf[m.job]], m)
                               = Count(queue[OwnerOf[m.job]], m) + One(e, m)
  BY <1>10 DEF q, r
<1>4. PlacesTyped'
  BY <1>0, <1>2, <1>3 DEF PlacesTyped
<1>5. ASSUME NEW m \in Payloads
      PROVE  Copies(m) \in Nat /\ Copies(m)' = Copies(m) + One(e, m)
  <2>1. InHand(m)' = InHand(m)
    BY <1>2 DEF InHand, FS!Holds
  <2>2. One(e, m) \in Nat
    BY DEF One
  <2>s. CopiesSum(m) /\ CopiesSum(m)'
    BY <1>0, <1>2, <1>3, <1>4, <2>1, <2>2, Places
  <2> QED
    BY <1>0, <1>2, <1>3, <1>4, <2>1, <2>2, <2>s DEF CopiesSum
<1> QED
  BY <1>1, <1>4, <1>5, CarriedAdd

\* The worker takes the head of the Celery queue; it is in no other place then.
LEMMA FetchStep ==
  ASSUME FSP!TypeOK, Listed, UNCHANGED eta, celery # <<>>, FSP!Fetch(Worker)
  PROVE  /\ PlacesTyped' /\ UNCHANGED lossesLeft
         /\ Head(celery) = Dispatch => /\ Carried' = Carried
                                       /\ pc[Worker] # "busy" /\ pc'[Worker] # "busy"
         /\ Head(celery) \in Payloads =>
              /\ Head(celery) \in IJ!BagToSet(Carried) /\ IJ!Take(Head(celery))
              /\ pc'[Worker] = "busy"
<1> DEFINE e == Head(celery)
<1>1. PlacesTyped /\ pc \in [{Worker} -> FSP!PCs]
  BY InvType DEF PlacesTyped
<1>2. /\ celery' = Tail(celery) /\ UNCHANGED <<queue, lossesLeft>> /\ pc[Worker] = "idle"
      /\ pc'[Worker] = IF e = Dispatch THEN "setnx" ELSE "busy"
  BY <1>1 DEF FSP!Fetch, FSP!Goto
<1>3. celery' \in Seq(Payloads \cup {Dispatch}) /\ e \in Payloads \cup {Dispatch}
  BY <1>1, <1>2 DEF PlacesTyped
<1>4. PlacesTyped'
  BY <1>1, <1>2, <1>3 DEF PlacesTyped
<1>5. ASSUME NEW m \in Payloads
      PROVE  Copies(m)' \in Nat /\ Copies(m) = Copies(m)' + One(e, m)
  <2>1. Count(celery, m) = Count(celery', m) + One(e, m)
    BY <1>1, <1>2, CountTail DEF PlacesTyped
  <2>2. InHand(m) = 0 /\ InHand(m)' = 0 /\ One(e, m) \in Nat
    BY <1>2, HandEmpty DEF One
  <2>s. CopiesSum(m) /\ CopiesSum(m)'
    BY <1>1, <1>2, <1>4, <2>1, <2>2, Places
  <2> QED
    BY <1>1, <1>2, <1>4, <2>1, <2>2, <2>s DEF CopiesSum
<1> HIDE DEF e
<1>6. CASE e = Dispatch
  <2>1. \A m \in Payloads : Copies(m)' = Copies(m)
    BY <1>5, <1>6, MessagesAssumption DEF One
  <2> QED
    BY <1>2, <1>4, <1>6, <2>1, CarriedSame, MessagesAssumption DEF e
<1>7. CASE e \in Payloads
  <2>1. e \in IJ!BagToSet(Carried) /\ IJ!Take(e)
    BY <1>5, <1>7, CarriedTake
  <2>2. e # Dispatch
    BY <1>7, MessagesAssumption
  <2> QED
    BY <1>2, <1>4, <2>1, <2>2 DEF e
<1> QED
  BY <1>3, <1>6, <1>7

\* Setting a retry aside is no delivery.
LEMMA KeepStep ==
  ASSUME FSP!TypeOK, Listed, KeepRetry
  PROVE  PlacesTyped' /\ Carried' = Carried
<1> DEFINE e == Head(celery)
<1>1. PlacesTyped /\ e \in Retries /\ e \in Payloads
  BY InvType DEF PlacesTyped, KeepRetry, Retries, IsRetry
<1>2. /\ celery # <<>> /\ celery' = Tail(celery) /\ eta' = Append(eta, e)
      /\ UNCHANGED <<queue, pc, job>>
  BY DEF KeepRetry
<1>3. celery' \in Seq(Payloads \cup {Dispatch})
  BY <1>1, <1>2 DEF PlacesTyped
<1>4. ASSUME NEW m \in Payloads PROVE Count(celery, m) = Count(celery', m) + One(e, m)
  BY <1>1, <1>2, CountTail DEF PlacesTyped
<1> HIDE DEF e
<1>5. eta' \in Seq(Retries)
  BY <1>1, <1>2 DEF PlacesTyped
<1>6. PlacesTyped'
  BY <1>1, <1>2, <1>3, <1>5 DEF PlacesTyped
<1>7. ASSUME NEW m \in Payloads PROVE Copies(m)' = Copies(m)
  <2>1. Count(eta', m) = Count(eta, m) + One(e, m)
    BY <1>1, <1>2, CountEnds DEF PlacesTyped
  <2>2. InHand(m)' = InHand(m) /\ One(e, m) \in Nat
    BY <1>2 DEF InHand, FS!Holds, One
  <2>s. CopiesSum(m) /\ CopiesSum(m)'
    BY <1>1, <1>2, <1>4, <1>6, <2>1, <2>2, Places
  <2> QED
    BY <1>1, <1>2, <1>4, <1>6, <2>1, <2>2, <2>s DEF CopiesSum
<1> QED
  BY <1>6, <1>7, CarriedSame

\* A retry that is due is delivered.
LEMMA DueStep ==
  ASSUME FSP!TypeOK, Listed, NEW e \in ToSet(eta), eta' = RemoveFirst(eta, e),
         pc[Worker] = "idle", pc'[Worker] = "busy", UNCHANGED <<queue, celery>>
  PROVE  PlacesTyped' /\ e \in IJ!BagToSet(Carried) /\ IJ!Take(e)
<1>1. PlacesTyped
  BY InvType DEF PlacesTyped
<1>2. ASSUME NEW m \in Payloads
      PROVE  eta' \in Seq(Retries) /\ Count(eta, m) = Count(eta', m) + One(e, m)
  BY <1>1, CountRemove DEF PlacesTyped
<1>3. e \in Payloads
  BY <1>1 DEF PlacesTyped, ToSet, Retries
<1>4. PlacesTyped'
  BY <1>1, <1>2, <1>3 DEF PlacesTyped
<1>5. ASSUME NEW m \in Payloads
      PROVE  Copies(m)' \in Nat /\ Copies(m) = Copies(m)' + One(e, m)
  <2>1. InHand(m) = 0 /\ InHand(m)' = 0 /\ One(e, m) \in Nat
    BY HandEmpty DEF One
  <2>s. CopiesSum(m) /\ CopiesSum(m)'
    BY <1>1, <1>2, <1>4, <2>1, Places
  <2> QED
    BY <1>1, <1>2, <1>4, <2>1, <2>s DEF CopiesSum
<1> QED
  BY <1>3, <1>4, <1>5, CarriedTake

\* A next attempt, or a redelivery, is one more message.
LEMMA BackStep ==
  ASSUME FSP!TypeOK, Listed, NEW e \in Payloads,
         celery' = Append(celery, e) \/ celery' = <<e>> \o celery,
         pc[Worker] = "busy", pc'[Worker] \in {"busy", "idle"}, UNCHANGED <<queue, eta>>
  PROVE  PlacesTyped' /\ IJ!Publish(e.job, e.retries)
<1>1. PlacesTyped
  BY InvType DEF PlacesTyped
<1>2. /\ celery' \in Seq(Payloads \cup {Dispatch})
      /\ \A m \in Payloads : Count(celery', m) = Count(celery, m) + One(e, m)
  BY <1>1, Pushed DEF PlacesTyped
<1>3. PlacesTyped'
  BY <1>1, <1>2 DEF PlacesTyped
<1>4. ASSUME NEW m \in Payloads
      PROVE  Copies(m) \in Nat /\ Copies(m)' = Copies(m) + One(e, m)
  <2>1. InHand(m) = 0 /\ InHand(m)' = 0 /\ One(e, m) \in Nat
    BY HandEmpty DEF One
  <2>s. CopiesSum(m) /\ CopiesSum(m)'
    BY <1>1, <1>2, <1>3, <2>1, Places
  <2> QED
    BY <1>1, <1>2, <1>3, <2>1, <2>s DEF CopiesSum
<1> QED
  BY <1>3, <1>4, CarriedAdd

-----------------------------------------------------------------------------
(* Every step keeps the invariant and is a step of the jobs, or none.      *)

\* What is shown of a step.
Moved == /\ FSP!TypeOK' /\ FSP!OwnLists' /\ PlacesTyped'
         /\ (pc[Worker] = "busy" <=> at # "idle")'
         /\ [IJ!Next]_(IJ!vars)

\* The types and the owners of the lists follow where the step is the scheduler's.
LEMMA BySchedulerStep ==
  ASSUME Inv, FSP!Next \/ UNCHANGED FSP!vars
  PROVE  FSP!TypeOK' /\ FSP!OwnLists'
<1>1. FSP!TypeOK /\ FSP!OwnLists /\ [FSP!Next]_(FSP!vars)
  BY DEF Inv, Listed
<1>2. FSP!TypeOK'
  BY <1>1, FSP!TypeStep, PartsAssumptions
<1>3. FSP!OwnLists'
  BY <1>1, FSP!OwnListsStep, PartsAssumptions
<1> QED
  BY <1>2, <1>3

\* ... and where it is a step of the worker that FairScheduler does not know.
LEMMA ByWorkerStep ==
  ASSUME Inv, PlacesTyped', UNCHANGED <<queue, members, lock, slots, todo, cur, job>>,
         lossesLeft' \in 0..MaxLosses, pc[Worker] \in {"idle", "busy"},
         NEW l \in {"idle", "busy"}, pc' = [pc EXCEPT ![Worker] = l]
  PROVE  FSP!TypeOK' /\ FSP!OwnLists' /\ pc'[Worker] = l
<1>1. FSP!TypeOK /\ pc \in [{Worker} -> FSP!PCs] /\ FSP!OwnLists
  BY DEF Inv, FSP!TypeOK, Listed
<1>2. pc' \in [{Worker} -> FSP!PCs] /\ pc'[Worker] = l /\ l # "send"
  BY <1>1 DEF FSP!PCs
<1>3. job[Worker] = NoJob
  BY <1>1, InvType DEF Inv
<1>4. celery' \in Seq(FSP!Messages)
  BY DEF PlacesTyped, FSP!Messages
<1>5. FSP!OwnLists'
  BY <1>1 DEF FSP!OwnLists, FSP!InSeq
<1> QED
  BY <1>1, <1>2, <1>3, <1>4, <1>5 DEF FSP!TypeOK

LEMMA InvHas ==
  ASSUME Inv
  PROVE  /\ FSP!TypeOK /\ Listed /\ PlacesTyped
         /\ pc \in [{Worker} -> FSP!PCs] /\ lossesLeft \in 0..MaxLosses /\ MaxLosses \in Nat
         /\ run \in Payloads /\ run.job \in Jobs /\ run.retries \in 0..MaxRetries
         /\ MaxRetries \in Nat
         /\ at # "refresh"
         /\ pc[Worker] = "busy" <=> at # "idle"
<1>1. FSP!TypeOK /\ Listed /\ IJP!TypeOK /\ IJP!RefreshAlone
  BY DEF Inv, IJP!Alone
<1>2. at # "refresh"
  BY <1>1 DEF IJP!RefreshAlone
<1>3. run \in Payloads
  BY <1>1 DEF IJP!TypeOK, Payloads
<1>4. run.job \in Jobs /\ run.retries \in 0..MaxRetries
  BY <1>3 DEF Payloads
<1>5. PlacesTyped /\ pc \in [{Worker} -> FSP!PCs] /\ lossesLeft \in 0..MaxLosses
  BY <1>1, InvType DEF PlacesTyped
<1>6. pc[Worker] = "busy" <=> at # "idle"
  BY <1>1 DEF Listed
<1> QED
  BY <1>1, <1>2, <1>3, <1>4, <1>5, <1>6, BoundsAssumption

\* The API and the tasks write to the database, and nothing moves.
LEMMA DatabaseMoved ==
  ASSUME Inv,
         \/ \E j \in Jobs : InsertJob(j) \/ EnqueueFails(j)
         \/ JobStep \/ StepFails
  PROVE  Moved
<1>h. /\ FSP!TypeOK /\ Listed /\ PlacesTyped /\ pc \in [{Worker} -> FSP!PCs]
      /\ lossesLeft \in 0..MaxLosses /\ MaxLosses \in Nat
      /\ pc[Worker] = "busy" <=> at # "idle"
  BY InvHas
<1>1. UNCHANGED places
  BY DEF InsertJob, EnqueueFails, JobStep, StepFails
<1>2. /\ IJ!Next /\ lossesLeft' \in 0..MaxLosses /\ (at' # "idle" <=> at # "idle")
  <2>1. ASSUME NEW j \in Jobs, InsertJob(j) \/ EnqueueFails(j)
        PROVE  IJ!Next /\ lossesLeft' \in 0..MaxLosses /\ (at' # "idle" <=> at # "idle")
    <3>1. IJ!Next
      BY <2>1 DEF InsertJob, EnqueueFails, IJ!Next
    <3> QED
      BY <2>1, <3>1, <1>h DEF InsertJob, EnqueueFails, IJ!InsertJob, IJ!EnqueueFails, IJ!budgets
  <2>2. CASE JobStep
    <3>1. IJ!Next
      BY <2>2 DEF JobStep, IJ!Next, IJ!WorkerStep
    <3> QED
      BY <2>2, <3>1, <1>h DEF JobStep, IJ!MarkRunning, IJ!Ingest, IJ!IngestPoisoned,
                              IJ!FinishJob, IJ!ReportFailure, IJ!budgets
  <2>3. CASE StepFails
    <3>1. IJ!Next
      BY <2>3 DEF StepFails, IJ!Next
    <3> QED
      BY <2>3, <3>1, <1>h DEF StepFails, IJ!StepFails
  <2> QED
    BY <2>1, <2>2, <2>3
<1>3. PlacesTyped'
  BY <1>1, <1>h DEF PlacesTyped, places
<1>4. FSP!TypeOK'
  BY <1>1, <1>2, <1>h DEF FSP!TypeOK, places
<1>5. FSP!OwnLists'
  BY <1>1, <1>h DEF FSP!OwnLists, FSP!InSeq, Listed, places
<1> QED
  BY <1>1, <1>2, <1>3, <1>4, <1>5, <1>h DEF Moved, places

LEMMA EnqueueMoved ==
  ASSUME Inv, NEW j \in Jobs, EnqueueJob(j)
  PROVE  Moved
<1>1. Message(j, 0) \in Payloads
  BY BoundsAssumption DEF Message, Payloads
<1>2. FSP!Submit(Message(j, 0)) /\ UNCHANGED eta
  BY <1>1, SameScheduler DEF EnqueueJob
<1>3. FSP!TypeOK' /\ FSP!OwnLists'
  BY <1>1, <1>2, BySchedulerStep DEF FSP!Next
<1>4. PlacesTyped'
  BY <1>2, SubmitStep, InvHas
<1>5. IJ!Next /\ at' = at
  BY DEF EnqueueJob, IJ!EnqueueJob, IJ!Next
<1>6. pc' = pc
  BY <1>2 DEF FSP!Submit
<1> QED
  BY <1>3, <1>4, <1>5, <1>6, InvHas DEF Moved

LEMMA DispatchMoved ==
  ASSUME Inv, Beat \/ LockExpires \/ DispatchStep
  PROVE  Moved
<1>1. /\ FSP!Beat \/ FSP!LockExpires \/ FSP!DispatchStep(Worker)
      /\ Unnoticed
  BY SameScheduler DEF Beat, LockExpires, DispatchStep
<1>2. FSP!TypeOK' /\ FSP!OwnLists'
  BY <1>1, BySchedulerStep DEF FSP!Next
<1>3. /\ PlacesTyped' /\ Carried' = Carried /\ UNCHANGED lossesLeft
      /\ pc'[Worker] = "busy" <=> pc[Worker] = "busy"
  BY <1>1, SchedulerStep, InvHas DEF Unnoticed
<1>4. UNCHANGED IJ!vars /\ at' = at
  BY <1>1, <1>3 DEF Unnoticed, jobVars, IJ!vars, IJ!tables, IJ!budgets
<1> QED
  BY <1>2, <1>3, <1>4, InvHas DEF Moved

LEMMA FailureMoved ==
  ASSUME Inv, DispatchFails \/ DispatchCrashes
  PROVE  Moved
<1>1. /\ \/ FSP!CallFails(Worker) \/ FSP!ReplyLost(Worker)
         \/ pc[Worker] # "busy" /\ FSP!Crash(Worker)
      /\ Unnoticed
  BY SameScheduler DEF DispatchFails, DispatchCrashes
<1>2. FSP!TypeOK' /\ FSP!OwnLists'
  BY <1>1, BySchedulerStep DEF FSP!Next
<1>3. /\ PlacesTyped'
      /\ Carried' = Carried \/ \E e \in IJ!BagToSet(Carried) : IJ!Take(e)
      /\ pc[Worker] # "busy" /\ pc'[Worker] # "busy"
      /\ lossesLeft > 0 /\ lossesLeft' = lossesLeft - 1
  BY <1>1, SchedulerFails, InvHas DEF Unnoticed
<1>4. IJ!MessageLost
  BY <1>1, <1>3 DEF Unnoticed, jobVars, IJ!MessageLost, IJ!tables
<1>5. IJ!Next /\ at' = at
  BY <1>1, <1>4 DEF IJ!Next, Unnoticed, jobVars
<1> QED
  BY <1>2, <1>3, <1>5, InvHas DEF Moved

LEMMA FetchMoved ==
  ASSUME Inv, StartDispatch \/ StartJob
  PROVE  Moved
<1>1. FSP!Fetch(Worker) /\ UNCHANGED eta /\ celery # <<>>
  BY SameScheduler DEF StartDispatch, StartJob, Unnoticed
<1>2. FSP!TypeOK' /\ FSP!OwnLists'
  BY <1>1, BySchedulerStep DEF FSP!Next
<1>3. /\ PlacesTyped' /\ UNCHANGED lossesLeft
      /\ Head(celery) = Dispatch => /\ Carried' = Carried
                                    /\ pc[Worker] # "busy" /\ pc'[Worker] # "busy"
      /\ Head(celery) \in Payloads => pc'[Worker] = "busy"
  BY <1>1, FetchStep, InvHas
<1>4. CASE StartDispatch
  <2>1. /\ Carried' = Carried /\ Unnoticed
        /\ pc[Worker] # "busy" /\ pc'[Worker] # "busy"
    BY <1>3, <1>4 DEF StartDispatch
  <2>2. UNCHANGED IJ!vars /\ at' = at
    BY <1>3, <2>1 DEF Unnoticed, jobVars, IJ!vars, IJ!tables, IJ!budgets
  <2> QED
    BY <1>2, <1>3, <2>1, <2>2, InvHas DEF Moved
<1>5. CASE StartJob
  <2>1. pc'[Worker] = "busy" /\ at' = "mark" /\ IJ!Next
    BY <1>3, <1>5 DEF StartJob, IJ!Fetch, IJ!Next, IJ!WorkerStep
  <2> QED
    BY <1>2, <1>3, <2>1 DEF Moved
<1> QED
  BY <1>4, <1>5

LEMMA KeepMoved ==
  ASSUME Inv, KeepRetry
  PROVE  Moved
<1>1. PlacesTyped' /\ Carried' = Carried
  BY KeepStep, InvHas
<1>2. /\ UNCHANGED <<queue, members, lock, pc, slots, todo, cur, job, jobVars, lossesLeft>>
      /\ pc[Worker] = "idle"
  BY DEF KeepRetry, Idle
<1>3. pc' = [pc EXCEPT ![Worker] = "idle"]
  BY <1>2, InvHas
<1>4. FSP!TypeOK' /\ FSP!OwnLists'
  BY <1>1, <1>2, <1>3, ByWorkerStep, InvHas
<1>5. UNCHANGED IJ!vars /\ at' = at
  BY <1>1, <1>2 DEF jobVars, IJ!vars, IJ!tables, IJ!budgets
<1> QED
  BY <1>1, <1>2, <1>4, <1>5, InvHas DEF Moved

LEMMA RetryMoved ==
  ASSUME Inv, NEW m \in ToSet(eta), StartRetry(m)
  PROVE  Moved
<1>1. /\ eta' = RemoveFirst(eta, m) /\ pc[Worker] = "idle"
      /\ pc' = [pc EXCEPT ![Worker] = "busy"]
      /\ UNCHANGED <<queue, members, lock, celery, slots, todo, cur, job>>
      /\ IJ!Fetch
  BY DEF StartRetry, Idle
<1>2. pc'[Worker] = "busy"
  BY <1>1, InvHas
<1>3. PlacesTyped'
  BY <1>1, <1>2, DueStep, InvHas
<1>4. UNCHANGED lossesLeft /\ at' = "mark" /\ IJ!Next
  BY <1>1 DEF IJ!Fetch, IJ!budgets, IJ!Next, IJ!WorkerStep
<1>5. FSP!TypeOK' /\ FSP!OwnLists'
  BY <1>1, <1>3, <1>4, ByWorkerStep, InvHas
<1> QED
  BY <1>2, <1>3, <1>4, <1>5 DEF Moved

LEMMA NextAttemptMoved ==
  ASSUME Inv, Retry
  PROVE  Moved
<1> DEFINE e == Message(run.job, run.retries + 1)
<1>1. /\ celery' = IF run.retries < MaxRetries THEN Append(celery, e) ELSE celery
      /\ UNCHANGED <<queue, members, lock, pc, slots, todo, cur, job, eta>>
      /\ IJ!Retry
  BY DEF Retry
<1>2. /\ UNCHANGED lossesLeft /\ at = "retry" /\ at' = "ack" /\ IJ!Next
  BY <1>1 DEF IJ!Retry, IJ!budgets, IJ!Next, IJ!WorkerStep
<1>3. pc[Worker] = "busy" /\ pc' = [pc EXCEPT ![Worker] = "busy"]
  BY <1>1, <1>2, InvHas
<1>4. PlacesTyped'
  <2>1. CASE run.retries < MaxRetries
    <3>1. e \in Payloads
      BY <2>1, InvHas DEF Message, Payloads
    <3> HIDE DEF e
    <3> QED
      BY <1>1, <1>3, <2>1, <3>1, BackStep, InvHas
  <2>2. CASE ~ (run.retries < MaxRetries)
    BY <1>1, <2>2, InvHas DEF PlacesTyped
  <2> QED
    BY <2>1, <2>2
<1>5. FSP!TypeOK' /\ FSP!OwnLists'
  BY <1>1, <1>2, <1>3, <1>4, ByWorkerStep, InvHas
<1> QED
  BY <1>1, <1>2, <1>3, <1>4, <1>5 DEF Moved

LEMMA AcknowledgeMoved ==
  ASSUME Inv, Acknowledge
  PROVE  Moved
<1>1. FSP!FinishRun(Worker) /\ UNCHANGED eta /\ IJ!Acknowledge
  BY SameScheduler DEF Acknowledge
<1>2. FSP!TypeOK' /\ FSP!OwnLists'
  BY <1>1, BySchedulerStep DEF FSP!Next
<1>3. PlacesTyped'
  BY <1>1, InvHas DEF FSP!FinishRun, FSP!redis, PlacesTyped
<1>4. pc'[Worker] = "idle" /\ at' = "idle" /\ IJ!Next
  BY <1>1, InvHas DEF FSP!FinishRun, FSP!Goto, IJ!Acknowledge, IJ!Next, IJ!WorkerStep
<1> QED
  BY <1>2, <1>3, <1>4 DEF Moved

LEMMA CrashMoved ==
  ASSUME Inv, Crash \/ ChildKilled
  PROVE  Moved
<1>1. /\ pc' = [pc EXCEPT ![Worker] = "idle"] /\ at # "idle" /\ at' = "idle"
      /\ UNCHANGED <<queue, members, lock, slots, todo, cur, job, eta>>
      /\ lossesLeft' \in 0..MaxLosses
  BY InvHas DEF Crash, ChildKilled, IJ!Crash, IJ!ChildKilled
<1>2. pc[Worker] = "busy" /\ pc'[Worker] = "idle"
  BY <1>1, InvHas
<1>3. PlacesTyped'
  <2>1. CASE Crash
    BY <1>1, <1>2, <2>1, BackStep, InvHas DEF Crash
  <2>2. CASE ChildKilled
    BY <1>1, <2>2, InvHas DEF ChildKilled, PlacesTyped
  <2> QED
    BY <2>1, <2>2
<1>4. FSP!TypeOK' /\ FSP!OwnLists'
  BY <1>1, <1>2, <1>3, ByWorkerStep
<1>5. IJ!Next
  BY DEF Crash, ChildKilled, IJ!Next
<1> QED
  BY <1>1, <1>2, <1>3, <1>4, <1>5 DEF Moved

LEMMA EveryStepMoved ==
  ASSUME Inv, [Next]_vars
  PROVE  Moved
<1>1. CASE UNCHANGED vars
  <2>1. UNCHANGED FSP!vars /\ UNCHANGED <<queue, celery, eta, pc, job, at>>
    BY <1>1 DEF vars, places, jobVars, FSP!vars, FSP!redis, FSP!registers
  <2>2. FSP!TypeOK' /\ FSP!OwnLists'
    BY <2>1, BySchedulerStep
  <2>3. PlacesTyped'
    BY <2>1, InvHas DEF PlacesTyped
  <2>4. \A m \in Payloads : Copies(m)' = Copies(m)
    BY <2>1 DEF Copies, FS!Holds
  <2>5. UNCHANGED IJ!vars
    BY <1>1, <2>4, CarriedSame DEF vars, jobVars, IJ!vars, IJ!tables, IJ!budgets
  <2> QED
    BY <2>1, <2>2, <2>3, <2>5, InvHas DEF Moved
<1>2. CASE Next
  <2>1. ASSUME NEW j \in Jobs, InsertJob(j) \/ EnqueueJob(j) \/ EnqueueFails(j) PROVE Moved
    BY <2>1, DatabaseMoved, EnqueueMoved
  <2>2. CASE Beat \/ LockExpires \/ DispatchStep \/ DispatchFails \/ DispatchCrashes
    BY <2>2, DispatchMoved, FailureMoved
  <2>3. CASE Fetch
    BY <2>3, FetchMoved, KeepMoved DEF Fetch
  <2>4. CASE RunJob \/ StepFails
    BY <2>4, DatabaseMoved, NextAttemptMoved, AcknowledgeMoved DEF RunJob
  <2>5. CASE Crash \/ ChildKilled
    BY <2>5, CrashMoved
  <2>6. ASSUME NEW m \in ToSet(eta), StartRetry(m) PROVE Moved
    BY <2>6, RetryMoved
  <2> QED
    BY <1>2, <2>1, <2>2, <2>3, <2>4, <2>5, <2>6 DEF Next
<1> QED
  BY <1>1, <1>2

LEMMA InvStep ==
  ASSUME Inv, [Next]_vars
  PROVE  Inv' /\ [IJ!Next]_(IJ!vars)
<1>1. Moved
  BY EveryStepMoved
<1>m. IJ!Next \/ UNCHANGED IJ!vars
  BY <1>1 DEF Moved
<1>v. UNCHANGED IJ!vars => UNCHANGED IJP!vars
  BY DEF IJ!vars, IJP!vars, IJ!tables, IJP!tables, IJ!budgets, IJP!budgets
<1>2. IJP!Alone /\ [IJP!Next]_(IJP!vars)
  BY <1>m, <1>v, SameJobs DEF Inv
<1>3. IJP!Alone'
  BY <1>2, IJP!AloneStep, PartsAssumptions
<1> QED
  BY <1>1, <1>3 DEF Moved, Inv, Listed, PlacesTyped

LEMMA InvInit == Init => Inv
<1> SUFFICES ASSUME Init PROVE Inv
  OBVIOUS
<1>1. FSP!TypeOK
  BY FSP!TypeInit, SameScheduler, PartsAssumptions DEF Init
<1>2. IJP!Alone
  BY IJP!AloneInit, SameJobs, PartsAssumptions DEF Init
<1>3. /\ queue = [t \in Tenants |-> <<>>] /\ celery = <<>> /\ eta = <<>>
      /\ pc[Worker] = "idle" /\ at = "idle"
  BY DEF Init, FS!Init, IJ!Init
<1>4. celery \in Seq(Payloads \cup {Dispatch}) /\ eta \in Seq(Retries)
  BY <1>3, EmptySeq
<1>5. FSP!OwnLists
  BY <1>3 DEF FSP!OwnLists, FSP!InSeq
<1> QED
  BY <1>1, <1>2, <1>3, <1>4, <1>5 DEF Inv, Listed

\* The places and the jobs keep their types, the lists their tenants' messages.
LEMMA InvInvariant == Spec => []Inv
<1>1. Inv /\ [Next]_vars => Inv'
  BY InvStep
<1> QED
  BY <1>1, InvInit, PTL DEF Spec

-----------------------------------------------------------------------------
(* The theorems.                                                           *)

\* Lists, queue, kept retries and registers keep their types and so do rows,
\* runs and the bag that the places add up to; the worker is busy exactly while
\* a job runs.
THEOREM PipelineTypeCorrect == Spec => []TypeOK
<1>1. Inv => TypeOK
  BY SameScheduler, SameJobs DEF Inv, IJP!Alone, Listed, Retries, TypeOK
<1> QED
  BY <1>1, InvInvariant, PTL

\* fair_scheduler.py, Beat and the one worker deliver what POST /ingestion
\* enqueues as IngestionJobs takes it for: the dispatches, the lock and a retry
\* that waits are invisible, a fetch takes one message, a retry or a redelivery
\* adds one, and a failure anywhere around the queues loses one at most.
THEOREM PipelineImplementsIngestionJobs == Spec => ImplementsIngestionJobs
<1>1. Init => IJ!Init
  BY DEF Init
<1>2. Inv /\ [Next]_vars => [IJ!Next]_(IJ!vars)
  BY InvStep
<1>3. Spec => [][IJ!Next]_(IJ!vars)
  BY <1>2, InvInvariant, PTL DEF Spec
<1> QED
  BY <1>1, <1>3, PTL DEF Spec, ImplementsIngestionJobs, IJ!Spec

\* By either of its names, so that what is proved of IngestionJobs holds here.
LEMMA PipelineRunsJobs == Spec => IJP!Spec
<1>1. Init => IJP!Init
  BY SameJobs DEF Init
<1>2. ASSUME IJ!Next \/ UNCHANGED IJ!vars PROVE IJP!Next \/ UNCHANGED IJP!vars
  BY <1>2, SameJobs DEF IJ!vars, IJP!vars, IJ!tables, IJP!tables, IJ!budgets, IJP!budgets
<1>3. Inv /\ [Next]_vars => [IJP!Next]_(IJP!vars)
  BY <1>2, InvStep
<1>4. Spec => [][IJP!Next]_(IJP!vars)
  BY <1>3, InvInvariant, PTL DEF Spec
<1> QED
  BY <1>1, <1>4, PTL DEF Spec, IJP!Spec

\* When enqueue_task_async comes to push the task of a job, no message of it is on a
\* list, in a dispatcher's hands, in the Celery queue or kept back.
THEOREM RequestsAreFirst == Spec => []RequestsAreNew
<1>1. Spec => []IJP!RequestFirst
  BY PipelineRunsJobs, IJP!RequestsStayFirst, PartsAssumptions
<1>2. Inv /\ IJP!RequestFirst => RequestsAreNew
  <2> SUFFICES ASSUME Inv, IJP!RequestFirst, NEW j \in request
               PROVE  ~ IJ!Undelivered(j) /\ ~ FS!InSystem(Message(j, 0))
    BY DEF RequestsAreNew
  <2> DEFINE m == Message(j, 0)
  <2>1. ~ IJ!Undelivered(j)
    BY SameMoves DEF IJP!RequestFirst
  <2>2. m \in Payloads /\ m.job = j
    BY BoundsAssumption DEF Inv, IJP!Alone, IJP!TypeOK, Message, Payloads
  <2> HIDE DEF m
  <2>3. CopiesSum(m)
    BY <2>2, CopiesType, CopiesAre, InvHas DEF PlacesTyped, CopiesSum
  <2>4. ASSUME FS!InSystem(m) PROVE FALSE
    <3>1. OwnerOf[m.job] \in Tenants
      BY <2>2, OwnerOfAssumption DEF Payloads
    <3>2. /\ queue[OwnerOf[m.job]] \in Seq(Payloads)
          /\ celery \in Seq(Payloads \cup {Dispatch})
      BY <3>1, InvHas DEF PlacesTyped
    <3>3. \/ \E i \in DOMAIN queue[OwnerOf[m.job]] : queue[OwnerOf[m.job]][i] = m
          \/ FS!Holds(Worker, m)
          \/ \E i \in DOMAIN celery : celery[i] = m
      BY <2>2, <2>4 DEF FS!InSystem, FS!InSeq
    <3>4. \/ Count(queue[OwnerOf[m.job]], m) > 0
          \/ FS!Holds(Worker, m)
          \/ Count(celery, m) > 0
      BY <3>2, <3>3, CountType
    <3>5. Copies(m) > 0
      BY <2>3, <3>4 DEF CopiesSum, InHand
    <3>6. m \in IJ!BagToSet(Carried)
      BY <2>2, <3>5 DEF Carried, IJ!BagToSet
    <3> QED
      BY <2>1, <2>2, <3>6 DEF IJ!Undelivered
  <2> QED
    BY <2>1, <2>4 DEF m
<1> QED
  BY <1>1, <1>2, InvInvariant, PTL

\* What IngestionJobs promises holds of the whole pipeline: a worker finds the
\* row of a job that it was sent, a queued job that no failure lost has a message,
\* a run or a request, and a job is ingested once for each delivery at most.
THEOREM PipelineKeepsJobs ==
  Spec => [](IJ!SubmittedRowExists /\ IJ!QueuedIsPending /\ IJ!IngestedOncePerDelivery)
<1>1. IJP!SubmittedRowExists => IJ!SubmittedRowExists
  BY SameMoves DEF IJP!SubmittedRowExists, IJ!SubmittedRowExists, IJP!Running, IJ!Running,
         IJP!RowVisible, IJ!RowVisible, IJP!RunPCs, IJ!RunPCs
<1>2. IJP!QueuedIsPending => IJ!QueuedIsPending
  BY SameMoves DEF IJP!QueuedIsPending, IJ!QueuedIsPending, IJP!Pending, IJ!Pending,
         IJP!Running, IJ!Running, IJP!RunPCs, IJ!RunPCs
<1>3. IJP!IngestedOncePerDelivery => IJ!IngestedOncePerDelivery
  BY DEF IJP!IngestedOncePerDelivery, IJ!IngestedOncePerDelivery
<1>4. Spec => []IJP!SubmittedRowExists
  BY PipelineRunsJobs, IJP!SubmittedJobFound, PartsAssumptions
<1>5. Spec => []IJP!QueuedIsPending
  BY PipelineRunsJobs, IJP!QueuedJobsArePending, PartsAssumptions
<1>6. Spec => []IJP!IngestedOncePerDelivery
  BY PipelineRunsJobs, IJP!IngestedOnce, PartsAssumptions
<1> QED
  BY <1>1, <1>2, <1>3, <1>4, <1>5, <1>6, PTL

\* The moves of a message, without what IngestionJobs says of it.
SubmitMoves(j) == FS!Submit(Message(j, 0)) /\ UNCHANGED eta
FetchMoves == /\ celery # <<>> /\ Head(celery) \in Payloads
              /\ FS!Fetch(Worker) /\ UNCHANGED eta
DueMoves(m) == /\ Idle /\ eta' = RemoveFirst(eta, m) /\ UNCHANGED <<queue, celery>>
               /\ pc' = [pc EXCEPT ![Worker] = "busy"]
RetryMoves == /\ at = "retry" /\ run.retries < MaxRetries
              /\ celery' = Append(celery, Message(run.job, run.retries + 1))
              /\ UNCHANGED <<queue, pc, eta>>
CrashMoves == /\ at # "idle" /\ pc' = [pc EXCEPT ![Worker] = "idle"]
              /\ celery' = <<run>> \o celery
              /\ UNCHANGED <<queue, eta>>

\* The bag constrains no move of the scheduler: where the places alone let a
\* message in, out or back, the bag gains or loses the same one, so that no step
\* of the pipeline is left out for lack of a message.
THEOREM MovesAreDeliveries ==
  ASSUME Inv
  PROVE  /\ \A j \in Jobs : SubmitMoves(j) => IJ!Publish(j, 0)
         /\ FetchMoves => Head(celery) \in IJ!BagToSet(Carried) /\ IJ!Take(Head(celery))
         /\ \A m \in ToSet(eta) : DueMoves(m) => m \in IJ!BagToSet(Carried) /\ IJ!Take(m)
         /\ RetryMoves => IJ!Publish(run.job, run.retries + 1)
         /\ CrashMoves => IJ!Publish(run.job, run.retries)
<1>1. ASSUME NEW j \in Jobs, SubmitMoves(j)
      PROVE  IJ!Publish(j, 0)
  <2>1. Message(j, 0) \in Payloads
    BY BoundsAssumption DEF Message, Payloads
  <2>2. FSP!Submit(Message(j, 0))
    BY <1>1, <2>1, SameScheduler DEF SubmitMoves
  <2> QED
    BY <1>1, <2>2, SubmitStep, InvHas DEF SubmitMoves
<1>2. ASSUME FetchMoves
      PROVE  Head(celery) \in IJ!BagToSet(Carried) /\ IJ!Take(Head(celery))
  <2>1. FSP!Fetch(Worker)
    BY <1>2, SameScheduler DEF FetchMoves
  <2> QED
    BY <1>2, <2>1, FetchStep, InvHas DEF FetchMoves
<1>3. ASSUME NEW m \in ToSet(eta), DueMoves(m)
      PROVE  m \in IJ!BagToSet(Carried) /\ IJ!Take(m)
  <2>1. pc[Worker] = "idle" /\ pc'[Worker] = "busy"
    BY <1>3, InvHas DEF DueMoves, Idle
  <2> QED
    BY <1>3, <2>1, DueStep, InvHas DEF DueMoves
<1>4. ASSUME RetryMoves
      PROVE  IJ!Publish(run.job, run.retries + 1)
  <2> DEFINE e == Message(run.job, run.retries + 1)
  <2>1. e \in Payloads /\ e.job = run.job /\ e.retries = run.retries + 1
    BY <1>4, InvHas DEF RetryMoves, Message, Payloads
  <2>2. celery' = Append(celery, e)
    BY <1>4 DEF RetryMoves
  <2> HIDE DEF e
  <2>3. pc[Worker] = "busy" /\ pc'[Worker] = "busy"
    BY <1>4, InvHas DEF RetryMoves
  <2>4. IJ!Publish(e.job, e.retries)
    BY <1>4, <2>1, <2>2, <2>3, BackStep, InvHas DEF RetryMoves
  <2> QED
    BY <2>1, <2>4
<1>5. ASSUME CrashMoves
      PROVE  IJ!Publish(run.job, run.retries)
  <2>1. pc[Worker] = "busy" /\ pc'[Worker] = "idle"
    BY <1>5, InvHas DEF CrashMoves
  <2> QED
    BY <1>5, <2>1, BackStep, InvHas DEF CrashMoves
<1> QED
  BY <1>1, <1>2, <1>3, <1>4, <1>5

\* The worker runs the message that it takes: the one at the head of the Celery
\* queue, or the retry that is due.
THEOREM RunsWhatItTakes ==
  Spec => [][/\ StartJob => run' = Head(celery)
             /\ \A m \in ToSet(eta) : StartRetry(m) => run' = m]_vars
<1>1. ASSUME Inv, StartJob PROVE run' = Head(celery)
  <2>1. Head(celery) \in IJ!BagToSet(Carried) /\ IJ!Take(Head(celery))
    BY <1>1, MovesAreDeliveries DEF StartJob, FetchMoves
  <2>2. PICK n \in IJ!BagToSet(Carried) : IJ!Take(n) /\ run' = n
    BY <1>1 DEF StartJob, IJ!Fetch
  <2>3. n = Head(celery)
    BY <1>1, <2>1, <2>2, TakenIsOne, InvType, InvHas
  <2> QED
    BY <2>2, <2>3
<1>2. ASSUME Inv, NEW m \in ToSet(eta), StartRetry(m) PROVE run' = m
  <2>1. m \in IJ!BagToSet(Carried) /\ IJ!Take(m)
    BY <1>2, MovesAreDeliveries DEF StartRetry, DueMoves
  <2>2. PICK n \in IJ!BagToSet(Carried) : IJ!Take(n) /\ run' = n
    BY <1>2 DEF StartRetry, IJ!Fetch
  <2>3. n = m
    BY <1>2, <2>1, <2>2, TakenIsOne, InvType, InvHas
  <2> QED
    BY <2>2, <2>3
<1>3. Inv => (/\ StartJob => run' = Head(celery)
              /\ \A m \in ToSet(eta) : StartRetry(m) => run' = m)
  BY <1>1, <1>2
<1> QED
  BY <1>3, InvInvariant, PTL DEF Spec
=============================================================================
