------------------------- MODULE IngestionJobsProofs -------------------------
(***************************************************************************)
(* Proofs about IngestionJobs, for any set of jobs and any budgets.        *)
(***************************************************************************)
EXTENDS IngestionJobs, FiniteSetTheorems, SequenceTheorems, TLAPS

-----------------------------------------------------------------------------
(* The invariant.                                                          *)

\* The undelivered copies of j's messages, each told apart.
CopiesOf(B, j) == {c \in BagToSet(B) \X Nat : c[1].job = j /\ c[2] \in 1..B[c[1]]}
Copies(j) == CopiesOf(messages, j)

\* Who still has an ingestion of j in front of him: the request that is going to
\* enqueue it, and the run that has not committed its log row. A run that has
\* failed is going to hand it to the next attempt.
Requested(j) == IF j \in request THEN 1 ELSE 0
InRun(j) == IF Running(j) /\ pc \in {"mark", "ingest", "report", "retry"} THEN 1 ELSE 0

\* An ingestion that was made or can still be made has been asked for once, or a
\* fault has brought it back.
Ingestions(j) == Len(logs[j]) + Cardinality(Copies(j)) + Requested(j) + InRun(j)
Accounted == \A j \in Jobs : /\ IsFiniteSet(Copies(j))
                             /\ Ingestions(j) <= 1 + MaxFaults - faultsLeft

SubmittedVisible == \A j \in submitted : RowVisible(j)

\* Rows are flushed and not committed only while the refresh runs.
RefreshAlone == /\ pc = "refresh" => refreshesLeft < MaxRefreshes
                /\ \A j \in Jobs : row[j] = "flushed" => pc = "refresh"

\* As long as the row of j says queued, each attempt that is over was ended by a
\* fault.
Unstarted(j) == row[j] \in {"queued", "flushed"}
AttemptsFaulted ==
  \A j \in Jobs : Unstarted(j) =>
    /\ \A m \in BagToSet(messages) : m.job = j => m.retries + faultsLeft <= MaxFaults
    /\ Running(j) => /\ pc \notin {"ingest", "finish"}
                     /\ pc = "mark" => run.retries + faultsLeft <= MaxFaults
                     /\ pc \in {"report", "retry", "ack"} =>
                          run.retries + 1 + faultsLeft <= MaxFaults

\* Unless its retries are used up, a job that was not started has an attempt to come.
AttemptToCome ==
  lossesLeft = MaxLosses /\ MaxFaults - faultsLeft <= MaxRetries =>
    \A j \in Jobs : Unstarted(j) =>
      Undelivered(j) \/ j \in request \/ (Running(j) /\ pc # "ack")

-----------------------------------------------------------------------------
(* Bags of messages.                                                       *)

Ingests == [job : Jobs, retries : 0..MaxRetries]

\* Publishing adds one copy.
LEMMA BagAdd ==
  ASSUME NEW B, IsABag(B), NEW m
  PROVE  LET C == B (+) SetToBag({m})
         IN  /\ IsABag(C) /\ BagToSet(C) = BagToSet(B) \cup {m}
             /\ C[m] = (IF m \in BagToSet(B) THEN B[m] ELSE 0) + 1
             /\ \A n \in BagToSet(B) \ {m} : C[n] = B[n]
<1> DEFINE C == B (+) SetToBag({m})
<1>1. \A n \in DOMAIN B : B[n] \in Nat \ {0}
  BY DEF IsABag
<1>2. C = [n \in DOMAIN B \cup {m} |-> (IF n \in DOMAIN B THEN B[n] ELSE 0)
                                          + (IF n \in {m} THEN 1 ELSE 0)]
  BY DEF (+), SetToBag
<1> HIDE DEF C
<1>3. \A n \in DOMAIN B \cup {m} : C[n] \in {k \in Nat : k > 0}
  <2>1. ASSUME NEW n \in DOMAIN B \cup {m} PROVE C[n] \in {k \in Nat : k > 0}
    <3>1. CASE n \in DOMAIN B
      <4>1. PICK b \in Nat \ {0} : b = B[n]
        BY <1>1, <3>1
      <4>2. C[n] = b + (IF n \in {m} THEN 1 ELSE 0)
        BY <1>2, <3>1, <4>1
      <4> QED
        BY <4>2
    <3>2. CASE n \notin DOMAIN B
      <4>1. C[n] = 0 + 1
        BY <1>2, <2>1, <3>2
      <4> QED
        BY <4>1
    <3> QED
      BY <3>1, <3>2
  <2> QED
    BY <2>1
<1>4. IsABag(C)
  <2>1. DOMAIN C = DOMAIN B \cup {m} /\ C = [n \in DOMAIN C |-> C[n]]
    BY <1>2
  <2> QED
    BY <1>3, <2>1 DEF IsABag
<1>5. /\ C[m] = (IF m \in DOMAIN B THEN B[m] ELSE 0) + 1
      /\ \A n \in DOMAIN B \ {m} : C[n] = B[n] + 0
  BY <1>2
<1>6. /\ IsABag(C) /\ BagToSet(C) = BagToSet(B) \cup {m}
      /\ C[m] = (IF m \in BagToSet(B) THEN B[m] ELSE 0) + 1
      /\ \A n \in BagToSet(B) \ {m} : C[n] = B[n]
  BY <1>1, <1>2, <1>4, <1>5 DEF BagToSet
<1> QED
  BY <1>6 DEF C

\* Delivering takes one copy.
LEMMA BagTake ==
  ASSUME NEW B, IsABag(B), NEW m \in BagToSet(B)
  PROVE  LET C == B (-) SetToBag({m})
         IN  /\ IsABag(C) /\ BagToSet(C) \subseteq BagToSet(B)
             /\ IF B[m] = 1 THEN m \notin BagToSet(C)
                            ELSE m \in BagToSet(C) /\ C[m] = B[m] - 1
             /\ \A n \in BagToSet(B) \ {m} : n \in BagToSet(C)
<1> DEFINE C == B (-) SetToBag({m})
<1>1. \A n \in DOMAIN B : B[n] \in Nat \ {0}
  BY DEF IsABag
<1> DEFINE D == [n \in DOMAIN B |-> IF n \in {m} THEN B[n] - 1 ELSE B[n]]
<1>2. C = [n \in {k \in DOMAIN D : D[k] > 0} |-> D[n]]
  BY DEF (-), SetToBag
<1> HIDE DEF C
<1>3. /\ DOMAIN D = DOMAIN B /\ m \in DOMAIN B /\ D[m] = B[m] - 1
      /\ \A n \in DOMAIN B \ {m} : D[n] = B[n]
  BY DEF BagToSet
<1> HIDE DEF D
<1>4. DOMAIN C = {k \in DOMAIN B : D[k] > 0} /\ \A n \in DOMAIN C : C[n] = D[n]
  BY <1>2, <1>3
<1>5. IsABag(C)
  <2>1. \A n \in DOMAIN C : C[n] \in {k \in Nat : k > 0}
    BY <1>1, <1>3, <1>4
  <2>2. C = [n \in DOMAIN C |-> C[n]]
    BY <1>2
  <2> QED
    BY <2>1, <2>2 DEF IsABag
<1>6. DOMAIN C \subseteq DOMAIN B
  BY <1>4
<1>7. IF B[m] = 1 THEN m \notin DOMAIN C ELSE m \in DOMAIN C /\ C[m] = B[m] - 1
  <2>1. PICK b \in Nat \ {0} : b = B[m]
    BY <1>1, <1>3
  <2>2. D[m] > 0 <=> b # 1
    BY <1>3, <2>1
  <2> QED
    BY <1>3, <1>4, <2>1, <2>2
<1>8. \A n \in DOMAIN B \ {m} : n \in DOMAIN C
  BY <1>1, <1>3, <1>4
<1>9. /\ IsABag(C) /\ BagToSet(C) \subseteq BagToSet(B)
      /\ IF B[m] = 1 THEN m \notin BagToSet(C)
                     ELSE m \in BagToSet(C) /\ C[m] = B[m] - 1
      /\ \A n \in BagToSet(B) \ {m} : n \in BagToSet(C)
  BY <1>5, <1>6, <1>7, <1>8 DEF BagToSet
<1> QED
  BY <1>9 DEF C

\* ... and leaves the number of the others.
LEMMA TakeLeaves ==
  ASSUME NEW B, IsABag(B), NEW m \in BagToSet(B), NEW n \in BagToSet(B), n # m
  PROVE  (B (-) SetToBag({m}))[n] = B[n]
<1> DEFINE D == [k \in DOMAIN B |-> IF k \in {m} THEN B[k] - 1 ELSE B[k]]
<1>1. B (-) SetToBag({m}) = [k \in {k \in DOMAIN D : D[k] > 0} |-> D[k]]
  BY DEF (-), SetToBag
<1>2. DOMAIN D = DOMAIN B /\ D[n] = B[n] /\ B[n] > 0 /\ n \in DOMAIN B
  BY DEF BagToSet, IsABag
<1> HIDE DEF D
<1> QED
  BY <1>1, <1>2

LEMMA CopiesAdd ==
  ASSUME NEW B, IsABag(B), NEW m,
         NEW C, C = B (+) SetToBag({m}), IsFiniteSet(CopiesOf(B, m.job))
  PROVE  /\ IsFiniteSet(CopiesOf(C, m.job))
         /\ Cardinality(CopiesOf(C, m.job)) = Cardinality(CopiesOf(B, m.job)) + 1
         /\ \A j : j # m.job => CopiesOf(C, j) = CopiesOf(B, j)
<1>1. /\ BagToSet(C) = BagToSet(B) \cup {m}
      /\ C[m] = (IF m \in BagToSet(B) THEN B[m] ELSE 0) + 1
      /\ \A n \in BagToSet(B) \ {m} : C[n] = B[n]
  BY BagAdd
<1>2. \A n \in BagToSet(B) : B[n] \in Nat
  BY DEF IsABag, BagToSet
<1>3. PICK k \in Nat \ {0} : /\ k = C[m]
                             /\ \A i \in Nat : i \in 1..k <=>
                                  i = k \/ (m \in BagToSet(B) /\ i \in 1..B[m])
  <2>1. CASE m \in BagToSet(B)
    <3>1. PICK b \in Nat : b = B[m]
      BY <1>2, <2>1
    <3>2. C[m] = b + 1
      BY <1>1, <2>1, <3>1
    <3>3. b + 1 \in Nat \ {0} /\ \A i \in Nat : i \in 1..(b + 1) <=> i = b + 1 \/ i \in 1..b
      OBVIOUS
    <3> QED
      BY <2>1, <3>1, <3>2, <3>3
  <2>2. CASE m \notin BagToSet(B)
    <3>1. C[m] = 1
      BY <1>1, <2>2
    <3> QED
      BY <2>2, <3>1
  <2> QED
    BY <2>1, <2>2
<1>4. CopiesOf(C, m.job) = CopiesOf(B, m.job) \cup {<<m, k>>}
  <2>1. ASSUME NEW c \in CopiesOf(C, m.job)
        PROVE  c \in CopiesOf(B, m.job) \cup {<<m, k>>}
    <3>1. c = <<c[1], c[2]>> /\ c[1] \in BagToSet(C) /\ c[1].job = m.job
          /\ c[2] \in Nat /\ c[2] \in 1..C[c[1]]
      BY <2>1 DEF CopiesOf
    <3>2. CASE c[1] = m
      BY <1>1, <1>3, <3>1, <3>2 DEF CopiesOf
    <3>3. CASE c[1] # m
      BY <1>1, <3>1, <3>3 DEF CopiesOf
    <3> QED
      BY <3>2, <3>3
  <2>2. ASSUME NEW c \in CopiesOf(B, m.job)
        PROVE  c \in CopiesOf(C, m.job)
    <3>1. c = <<c[1], c[2]>> /\ c[1] \in BagToSet(B) /\ c[1].job = m.job
          /\ c[2] \in Nat /\ c[2] \in 1..B[c[1]]
      BY <2>2 DEF CopiesOf
    <3>2. c[1] \in BagToSet(C)
      BY <1>1, <3>1
    <3>3. c[2] \in 1..C[c[1]]
      BY <1>1, <1>3, <3>1
    <3> QED
      BY <3>1, <3>2, <3>3 DEF CopiesOf
  <2>3. <<m, k>> \in CopiesOf(C, m.job)
    <3>1. m \in BagToSet(C) /\ k \in Nat /\ k \in 1..C[m]
      BY <1>1, <1>3
    <3> QED
      BY <3>1 DEF CopiesOf
  <2> QED
    BY <2>1, <2>2, <2>3
<1>5. <<m, k>> \notin CopiesOf(B, m.job)
  <2>1. ~ (m \in BagToSet(B) /\ k \in 1..B[m])
    BY <1>1, <1>2, <1>3
  <2> QED
    BY <2>1 DEF CopiesOf
<1>6. ASSUME NEW j, j # m.job PROVE CopiesOf(C, j) = CopiesOf(B, j)
  <2>1. ASSUME NEW c PROVE c \in CopiesOf(C, j) <=> c \in CopiesOf(B, j)
    BY <1>1, <1>6 DEF CopiesOf
  <2> QED
    BY <2>1
<1>7. /\ IsFiniteSet(CopiesOf(C, m.job))
      /\ Cardinality(CopiesOf(C, m.job)) = Cardinality(CopiesOf(B, m.job)) + 1
  <2> DEFINE S == CopiesOf(B, m.job)
  <2>1. IsFiniteSet(S) /\ <<m, k>> \notin S
    BY <1>5
  <2> HIDE DEF S
  <2>2. IsFiniteSet(S \cup {<<m, k>>}) /\ Cardinality(S \cup {<<m, k>>}) = Cardinality(S) + 1
    BY <2>1, FS_AddElement
  <2> QED
    BY <1>4, <2>2 DEF S
<1> QED
  BY <1>6, <1>7

LEMMA CopiesTake ==
  ASSUME NEW B, IsABag(B), NEW m \in BagToSet(B),
         NEW C, C = B (-) SetToBag({m}), IsFiniteSet(CopiesOf(B, m.job))
  PROVE  /\ IsFiniteSet(CopiesOf(C, m.job))
         /\ Cardinality(CopiesOf(C, m.job)) = Cardinality(CopiesOf(B, m.job)) - 1
         /\ \A j : j # m.job => CopiesOf(C, j) = CopiesOf(B, j)
<1>1. /\ BagToSet(C) \subseteq BagToSet(B)
      /\ IF B[m] = 1 THEN m \notin BagToSet(C)
                     ELSE m \in BagToSet(C) /\ C[m] = B[m] - 1
      /\ \A n \in BagToSet(B) \ {m} : n \in BagToSet(C) /\ C[n] = B[n]
  <2>1. BagToSet(C) \subseteq BagToSet(B)
    BY BagTake
  <2>2. IF B[m] = 1 THEN m \notin BagToSet(C)
                    ELSE m \in BagToSet(C) /\ C[m] = B[m] - 1
    BY BagTake
  <2>3. \A n \in BagToSet(B) \ {m} : n \in BagToSet(C)
    BY BagTake
  <2>4. \A n \in BagToSet(B) \ {m} : C[n] = B[n]
    BY TakeLeaves
  <2> QED
    BY <2>1, <2>2, <2>3, <2>4
<1>2. PICK k \in Nat \ {0} : k = B[m]
  BY DEF IsABag, BagToSet
<1>3. \A i \in Nat : i \in 1..B[m] /\ i # k <=> (m \in BagToSet(C) /\ i \in 1..C[m])
  <2>1. CASE k = 1
    BY <1>1, <1>2, <2>1
  <2>2. CASE k # 1
    <3>1. m \in BagToSet(C) /\ C[m] = k - 1
      BY <1>1, <1>2, <2>2
    <3> QED
      BY <1>2, <3>1
  <2> QED
    BY <2>1, <2>2
<1>4. CopiesOf(C, m.job) = CopiesOf(B, m.job) \ {<<m, k>>}
  <2>1. ASSUME NEW c \in CopiesOf(C, m.job)
        PROVE  c \in CopiesOf(B, m.job) /\ c # <<m, k>>
    <3>1. c = <<c[1], c[2]>> /\ c[1] \in BagToSet(C) /\ c[1].job = m.job
          /\ c[2] \in Nat /\ c[2] \in 1..C[c[1]]
      BY <2>1 DEF CopiesOf
    <3>2. c[1] \in BagToSet(B)
      BY <1>1, <3>1
    <3>3. c[2] \in 1..B[c[1]] /\ (c[1] = m => c[2] # k)
      BY <1>1, <1>3, <3>1, <3>2
    <3> QED
      BY <3>1, <3>2, <3>3 DEF CopiesOf
  <2>2. ASSUME NEW c \in CopiesOf(B, m.job), c # <<m, k>>
        PROVE  c \in CopiesOf(C, m.job)
    <3>1. c = <<c[1], c[2]>> /\ c[1] \in BagToSet(B) /\ c[1].job = m.job
          /\ c[2] \in Nat /\ c[2] \in 1..B[c[1]]
      BY <2>2 DEF CopiesOf
    <3>2. c[1] \in BagToSet(C) /\ c[2] \in 1..C[c[1]]
      BY <1>1, <1>3, <2>2, <3>1
    <3> QED
      BY <3>1, <3>2 DEF CopiesOf
  <2> QED
    BY <2>1, <2>2
<1>5. <<m, k>> \in CopiesOf(B, m.job)
  <2>1. k \in 1..B[m]
    BY <1>2
  <2> QED
    BY <2>1 DEF CopiesOf
<1>6. ASSUME NEW j, j # m.job PROVE CopiesOf(C, j) = CopiesOf(B, j)
  <2>1. ASSUME NEW c PROVE c \in CopiesOf(C, j) <=> c \in CopiesOf(B, j)
    BY <1>1, <1>6 DEF CopiesOf
  <2> QED
    BY <2>1
<1>7. /\ IsFiniteSet(CopiesOf(C, m.job))
      /\ Cardinality(CopiesOf(C, m.job)) = Cardinality(CopiesOf(B, m.job)) - 1
  <2> DEFINE S == CopiesOf(B, m.job)
  <2>1. IsFiniteSet(S) /\ <<m, k>> \in S
    BY <1>5
  <2> HIDE DEF S
  <2>2. IsFiniteSet(S \ {<<m, k>>}) /\ Cardinality(S \ {<<m, k>>}) = Cardinality(S) - 1
    BY <2>1, FS_RemoveElement
  <2> QED
    BY <1>4, <2>2 DEF S
<1> QED
  BY <1>6, <1>7

-----------------------------------------------------------------------------
(* Messages of the state.                                                  *)

USE DEF tables, budgets, Message, RunPCs, Statuses

LEMMA MessageAdded ==
  ASSUME NEW m, IsABag(messages), messages' = messages (+) SetToBag({m})
  PROVE  /\ IsABag(messages') /\ BagToSet(messages') = BagToSet(messages) \cup {m}
         /\ \A n \in BagToSet(messages) \ {m} : messages'[n] = messages[n]
<1>1. IsABag(messages') /\ BagToSet(messages') = BagToSet(messages) \cup {m}
  BY BagAdd
<1>2. \A n \in BagToSet(messages) \ {m} : messages'[n] = messages[n]
  BY BagAdd
<1> QED
  BY <1>1, <1>2

LEMMA Published ==
  ASSUME TypeOK, NEW j \in Jobs, NEW r \in 0..MaxRetries, Publish(j, r)
  PROVE  /\ IsABag(messages') /\ BagToSet(messages') \subseteq Ingests
         /\ \A m : m \in BagToSet(messages') <=> m \in BagToSet(messages) \/ m = Message(j, r)
         /\ Undelivered(j)' /\ \A k : Undelivered(k) => Undelivered(k)'
         /\ \A k : k # j => Copies(k)' = Copies(k)
         /\ IsFiniteSet(Copies(j)) => /\ IsFiniteSet(Copies(j)')
                                      /\ Cardinality(Copies(j)') = Cardinality(Copies(j)) + 1
<1> DEFINE m == Message(j, r)
<1>1. /\ IsABag(messages) /\ BagToSet(messages) \subseteq Ingests
      /\ m \in Ingests /\ m.job = j /\ messages' = messages (+) SetToBag({m})
  BY DEF TypeOK, Ingests, Publish
<1> HIDE DEF m
<1>2. /\ IsABag(messages') /\ BagToSet(messages') = BagToSet(messages) \cup {m}
      /\ \A n \in BagToSet(messages) \ {m} : messages'[n] = messages[n]
  BY <1>1, MessageAdded
<1>3. /\ \A k : k # j => CopiesOf(messages', k) = CopiesOf(messages, k)
      /\ IsFiniteSet(CopiesOf(messages, j)) =>
           /\ IsFiniteSet(CopiesOf(messages', j))
           /\ Cardinality(CopiesOf(messages', j)) = Cardinality(CopiesOf(messages, j)) + 1
  <2>1. ASSUME NEW k, k # j PROVE CopiesOf(messages', k) = CopiesOf(messages, k)
    <3>2. ASSUME NEW c PROVE c \in CopiesOf(messages', k) <=> c \in CopiesOf(messages, k)
      BY <1>1, <1>2, <2>1 DEF CopiesOf
    <3> QED
      BY <3>2
  <2>2. ASSUME IsFiniteSet(CopiesOf(messages, j))
        PROVE  /\ IsFiniteSet(CopiesOf(messages', j))
               /\ Cardinality(CopiesOf(messages', j)) = Cardinality(CopiesOf(messages, j)) + 1
    BY <1>1, <2>2, CopiesAdd
  <2> QED
    BY <2>1, <2>2
<1>4. Undelivered(j)' /\ \A k : Undelivered(k) => Undelivered(k)'
  BY <1>1, <1>2 DEF Undelivered
<1> QED
  BY <1>1, <1>2, <1>3, <1>4 DEF Copies, m

LEMMA Taken ==
  ASSUME TypeOK, NEW m \in BagToSet(messages), Take(m)
  PROVE  /\ m \in Ingests /\ m.job \in Jobs /\ m.retries \in 0..MaxRetries
         /\ IsABag(messages') /\ BagToSet(messages') \subseteq Ingests
         /\ BagToSet(messages') \subseteq BagToSet(messages)
         /\ \A k : k # m.job => Copies(k)' = Copies(k) /\ (Undelivered(k) => Undelivered(k)')
         /\ IsFiniteSet(Copies(m.job)) =>
              /\ IsFiniteSet(Copies(m.job)')
              /\ Cardinality(Copies(m.job)') = Cardinality(Copies(m.job)) - 1
<1>1. IsABag(messages) /\ BagToSet(messages) \subseteq Ingests
  BY DEF TypeOK, Ingests
<1>2. /\ IsABag(messages') /\ BagToSet(messages') \subseteq BagToSet(messages)
      /\ \A n \in BagToSet(messages) \ {m} : n \in BagToSet(messages')
                                             /\ messages'[n] = messages[n]
  <2>1. IsABag(messages') /\ BagToSet(messages') \subseteq BagToSet(messages)
    BY <1>1, BagTake DEF Take
  <2>2. \A n \in BagToSet(messages) \ {m} : n \in BagToSet(messages')
    BY <1>1, BagTake DEF Take
  <2>3. \A n \in BagToSet(messages) \ {m} : messages'[n] = messages[n]
    BY <1>1, TakeLeaves DEF Take
  <2> QED
    BY <2>1, <2>2, <2>3
<1>3. \A k : k # m.job => CopiesOf(messages', k) = CopiesOf(messages, k)
  BY <1>2 DEF CopiesOf
<1>4. ASSUME IsFiniteSet(CopiesOf(messages, m.job))
      PROVE  /\ IsFiniteSet(CopiesOf(messages', m.job))
             /\ Cardinality(CopiesOf(messages', m.job)) = Cardinality(CopiesOf(messages, m.job)) - 1
  BY <1>1, <1>4, CopiesTake DEF Take
<1>5. \A k : k # m.job => (Undelivered(k) => Undelivered(k)')
  BY <1>2 DEF Undelivered
<1>6. m \in Ingests /\ m.job \in Jobs /\ m.retries \in 0..MaxRetries
  BY <1>1 DEF Ingests
<1> QED
  BY <1>1, <1>2, <1>3, <1>4, <1>5, <1>6 DEF Copies

-----------------------------------------------------------------------------
(* Every variable keeps its type, and the refresh runs alone.              *)

Alone == TypeOK /\ RefreshAlone

LEMMA AloneStep ==
  ASSUME Alone, [Next]_vars
  PROVE  Alone'
<1>t. /\ row \in [Jobs -> Statuses] /\ logs \in [Jobs -> Seq({"completed", "failed"})]
      /\ submitted \subseteq Jobs /\ request \subseteq submitted
      /\ IsABag(messages) /\ BagToSet(messages) \subseteq Ingests
      /\ pc \in RunPCs \cup {"idle", "refresh"}
      /\ run \in Ingests /\ run.job \in Jobs /\ run.retries \in 0..MaxRetries
      /\ outcome \in {"completed", "failed"} /\ usable \in BOOLEAN /\ rejected \subseteq Jobs
      /\ faultsLeft \in 0..MaxFaults /\ lossesLeft \in 0..MaxLosses
      /\ refreshesLeft \in 0..MaxRefreshes
  BY DEF Alone, TypeOK, Ingests
<1>b. MaxFaults \in Nat /\ MaxLosses \in Nat /\ MaxRefreshes \in Nat /\ MaxRetries \in Nat
  BY BudgetAssumption
<1>a. /\ pc = "refresh" => refreshesLeft < MaxRefreshes
      /\ \A j \in Jobs : row[j] = "flushed" => pc = "refresh"
  BY DEF Alone, RefreshAlone
<1>k. messages' = messages => IsABag(messages') /\ BagToSet(messages') \subseteq Ingests
  BY <1>t
<1> USE DEF Ingests, Alone, TypeOK, RefreshAlone
<1>1. ASSUME NEW j \in Jobs, InsertJob(j) \/ EnqueueFails(j) PROVE Alone'
  <2>1. CASE InsertJob(j)
    BY <2>1, <1>t, <1>a, <1>k DEF InsertJob
  <2>2. CASE EnqueueFails(j)
    BY <2>2, <1>t, <1>b, <1>a, <1>k DEF EnqueueFails
  <2> QED
    BY <1>1, <2>1, <2>2
<1>2. ASSUME NEW j \in Jobs, EnqueueJob(j) PROVE Alone'
  <2>1. IsABag(messages') /\ BagToSet(messages') \subseteq Ingests
    BY <1>2, <1>b, Published DEF EnqueueJob
  <2> QED
    BY <1>2, <1>t, <1>a, <2>1 DEF EnqueueJob
<1>3. ASSUME NEW j \in Jobs, RefreshJob(j) PROVE Alone'
  <2>1. IsABag(messages') /\ BagToSet(messages') \subseteq Ingests
    BY <1>3, <1>b, Published DEF RefreshJob
  <2>2. j \notin request
    BY <1>3 DEF RefreshJob, New, Pending
  <2> QED
    BY <1>3, <1>t, <1>a, <2>1, <2>2 DEF RefreshJob
<1>4. CASE Fetch
  <2>1. PICK m \in BagToSet(messages) : Take(m) /\ run' = m
    BY <1>4 DEF Fetch
  <2>2. IsABag(messages') /\ BagToSet(messages') \subseteq Ingests /\ run' \in Ingests
    BY <2>1, Taken
  <2> QED
    BY <1>4, <1>t, <1>a, <2>2 DEF Fetch
<1>5. CASE MarkRunning \/ FinishJob \/ ReportFailure
  <2>1. CASE MarkRunning
    BY <2>1, <1>t, <1>a, <1>k DEF MarkRunning
  <2>2. CASE FinishJob
    BY <2>2, <1>t, <1>a, <1>k DEF FinishJob
  <2>3. CASE ReportFailure
    <3>1. row' \in [Jobs -> Statuses] /\ \A j \in Jobs : row'[j] = "flushed" => row[j] = "flushed"
      BY <2>3, <1>t DEF ReportFailure
    <3> QED
      BY <2>3, <1>t, <1>a, <1>k, <3>1 DEF ReportFailure
  <2> QED
    BY <1>5, <2>1, <2>2, <2>3
<1>6. CASE Ingest \/ IngestPoisoned
  <2>1. CASE Ingest
    <3>1. logs' \in [Jobs -> Seq({"completed", "failed"})] /\ outcome' \in {"completed", "failed"}
      BY <2>1, <1>t DEF Ingest
    <3> QED
      BY <2>1, <1>t, <1>a, <1>k, <3>1 DEF Ingest
  <2>2. CASE IngestPoisoned
    <3>1. usable' \in BOOLEAN
      <4>1. usable' = FALSE
        BY <2>2 DEF IngestPoisoned
      <4> QED
        BY <4>1, Zenon
    <3>2. rejected' \subseteq Jobs
      BY <2>2, <1>t DEF IngestPoisoned
    <3> QED
      BY <2>2, <1>t, <1>a, <1>k, <3>1, <3>2 DEF IngestPoisoned
  <2> QED
    BY <1>6, <2>1, <2>2
<1>7. CASE Retry
  <2>1. IsABag(messages') /\ BagToSet(messages') \subseteq Ingests
    <3>1. CASE run.retries < MaxRetries
      <4>1. run.retries + 1 \in 0..MaxRetries /\ Publish(run.job, run.retries + 1)
        BY <1>7, <1>t, <1>b, <3>1 DEF Retry
      <4> QED
        BY <1>t, <4>1, Published
    <3>2. CASE ~ (run.retries < MaxRetries)
      BY <1>7, <1>k, <3>2 DEF Retry
    <3> QED
      BY <3>1, <3>2
  <2> QED
    BY <1>7, <1>t, <1>a, <2>1 DEF Retry
<1>8. CASE Acknowledge
  BY <1>8, <1>t, <1>a, <1>k DEF Acknowledge
<1>9. CASE RefreshCommit \/ RefreshAborts \/ ChildKilled
  <2>1. row' \in [Jobs -> Statuses] /\ \A j \in Jobs : row'[j] # "flushed"
    BY <1>9, <1>t DEF RefreshCommit, RefreshAborts, ChildKilled, EndTransaction
  <2>2. faultsLeft' \in 0..MaxFaults /\ lossesLeft' \in 0..MaxLosses /\ pc' = "idle"
    BY <1>9, <1>t, <1>b DEF RefreshCommit, RefreshAborts, ChildKilled
  <2>3. UNCHANGED <<logs, submitted, request, messages, run, outcome, usable, rejected,
                    refreshesLeft>>
    BY <1>9 DEF RefreshCommit, RefreshAborts, ChildKilled
  <2> QED
    BY <1>t, <1>k, <2>1, <2>2, <2>3
<1>10. CASE StartRefresh
  BY <1>10, <1>t, <1>b, <1>a, <1>k DEF StartRefresh
<1>11. CASE MessageLost
  <2>1. IsABag(messages') /\ BagToSet(messages') \subseteq Ingests
    <3>1. CASE UNCHANGED messages
      BY <1>k, <3>1
    <3>2. CASE \E m \in BagToSet(messages) : Take(m)
      BY <3>2, Taken
    <3> QED
      BY <1>11, <3>1, <3>2 DEF MessageLost
  <2> QED
    BY <1>11, <1>t, <1>b, <1>a, <2>1 DEF MessageLost
<1>12. CASE StepFails
  <2>1. usable' \in BOOLEAN
    <3>1. usable' \in (IF pc = "mark" THEN BOOLEAN ELSE {FALSE})
      BY <1>12 DEF StepFails
    <3>2. usable' \in {FALSE} => usable' \in BOOLEAN
      BY Zenon
    <3> QED
      BY <3>1, <3>2, Zenon
  <2>2. pc' \in RunPCs \cup {"idle", "refresh"} /\ pc # "refresh" /\ faultsLeft' \in 0..MaxFaults
    BY <1>12, <1>t, <1>b DEF StepFails
  <2>3. UNCHANGED <<row, logs, submitted, request, messages, run, outcome, rejected,
                    lossesLeft, refreshesLeft>> /\ pc' # "refresh"
    BY <1>12 DEF StepFails
  <2> QED
    BY <1>t, <1>a, <1>k, <2>1, <2>2, <2>3
<1>13. CASE Crash
  <2>1. /\ IsABag(messages') /\ BagToSet(messages') \subseteq Ingests
        /\ refreshesLeft' \in 0..MaxRefreshes
    <3>1. CASE pc = "refresh"
      BY <1>13, <1>t, <1>b, <1>a, <1>k, <3>1 DEF Crash
    <3>2. CASE pc # "refresh"
      <4>1. Publish(run.job, run.retries) /\ UNCHANGED refreshesLeft
        BY <1>13, <3>2 DEF Crash
      <4> QED
        BY <1>t, <4>1, Published
    <3> QED
      BY <3>1, <3>2
  <2> QED
    BY <1>13, <1>t, <1>b, <1>a, <2>1 DEF Crash, EndTransaction
<1>14. CASE UNCHANGED vars
  BY <1>14, <1>t, <1>a, <1>k DEF vars
<1> QED
  BY <1>1, <1>2, <1>3, <1>4, <1>5, <1>6, <1>7, <1>8, <1>9, <1>10, <1>11, <1>12, <1>13, <1>14
     DEF Next, WorkerStep

LEMMA AloneInit == Init => Alone
<1> SUFFICES ASSUME Init PROVE Alone
  OBVIOUS
<1> USE DEF Init
<1>1. IsABag(messages) /\ BagToSet(messages) = {}
  BY DEF EmptyBag, SetToBag, IsABag, BagToSet
<1>2. /\ MaxFaults \in Nat /\ MaxLosses \in Nat /\ MaxRefreshes \in Nat /\ MaxRetries \in Nat
  BY BudgetAssumption
<1>3. row \in [Jobs -> Statuses] /\ \A j \in Jobs : row[j] = "none"
  OBVIOUS
<1>4. logs \in [Jobs -> Seq({"completed", "failed"})]
  BY EmptySeq
<1>5. run \in [job : Jobs, retries : 0..MaxRetries]
  BY <1>2
<1>6. usable \in BOOLEAN /\ rejected \subseteq Jobs
  <2>1. usable \in BOOLEAN
    BY Zenon
  <2>2. rejected \subseteq Jobs
    OBVIOUS
  <2> QED
    BY <2>1, <2>2
<1>7. TypeOK
  BY <1>1, <1>2, <1>3, <1>4, <1>5, <1>6 DEF TypeOK
<1> QED
  BY <1>3, <1>7 DEF Alone, RefreshAlone

\* Rows, messages, runs and budgets keep their ranges, and every row that is not
\* committed belongs to a refresh under way.
LEMMA AloneInvariant == Spec => []Alone
<1>1. Alone /\ [Next]_vars => Alone'
  BY AloneStep
<1> QED
  BY <1>1, AloneInit, PTL DEF Spec

\* Every variable has the values the row, the message or the local can have.
THEOREM JobsTypeCorrect == Spec => []TypeOK
<1>1. Alone => TypeOK
  BY DEF Alone
<1> QED
  BY <1>1, AloneInvariant, PTL

-----------------------------------------------------------------------------
(* A worker finds the row of a submitted job.                              *)

LEMMA VisibleStep ==
  ASSUME Alone, SubmittedVisible, [Next]_vars
  PROVE  SubmittedVisible'
<1>t. /\ row \in [Jobs -> Statuses] /\ submitted \subseteq Jobs /\ run.job \in Jobs
  BY DEF Alone, TypeOK
<1>v. \A j \in submitted : row[j] \notin {"none", "flushed"}
  BY DEF SubmittedVisible, RowVisible
<1> USE DEF RowVisible, SubmittedVisible
<1>1. ASSUME NEW j \in Jobs, InsertJob(j) PROVE SubmittedVisible'
  BY <1>1, <1>t, <1>v DEF InsertJob
<1>2. ASSUME NEW j \in Jobs, RefreshJob(j) PROVE SubmittedVisible'
  BY <1>2, <1>t, <1>v DEF RefreshJob
<1>3. CASE MarkRunning \/ FinishJob
  BY <1>3, <1>t, <1>v DEF MarkRunning, FinishJob
<1>4. CASE ReportFailure
  <2>1. \A j \in Jobs : row'[j] = row[j] \/ row'[j] = "failed"
    BY <1>4, <1>t DEF ReportFailure
  <2> QED
    BY <1>4, <1>t, <1>v, <2>1 DEF ReportFailure
<1>5. CASE RefreshCommit \/ RefreshAborts \/ Crash \/ ChildKilled
  <2>1. UNCHANGED submitted /\ \A j \in Jobs : row'[j] = row[j] \/ row[j] = "flushed"
    BY <1>5, <1>t DEF RefreshCommit, RefreshAborts, Crash, ChildKilled, EndTransaction
  <2> QED
    BY <1>t, <1>v, <2>1
<1>6. CASE UNCHANGED <<row, submitted>>
  BY <1>6, <1>v
<1>7. ASSUME NEW j \in Jobs, EnqueueJob(j) \/ EnqueueFails(j) PROVE UNCHANGED <<row, submitted>>
  BY <1>7 DEF EnqueueJob, EnqueueFails
<1>8. Fetch \/ Ingest \/ IngestPoisoned \/ Retry \/ Acknowledge => UNCHANGED <<row, submitted>>
  BY DEF Fetch, Ingest, IngestPoisoned, Retry, Acknowledge
<1>9. StartRefresh \/ MessageLost \/ StepFails \/ UNCHANGED vars => UNCHANGED <<row, submitted>>
  BY DEF StartRefresh, MessageLost, StepFails, vars
<1> QED
  BY <1>1, <1>2, <1>3, <1>4, <1>5, <1>6, <1>7, <1>8, <1>9 DEF Next, WorkerStep

\* A worker always finds the row of a job submitted through the API: the row is
\* committed before the message exists, and never goes away.
THEOREM SubmittedJobFound == Spec => []SubmittedRowExists
<1>1. Init => SubmittedVisible
  BY DEF Init, SubmittedVisible
<1>2. Alone /\ SubmittedVisible /\ [Next]_vars => SubmittedVisible'
  BY VisibleStep
<1>3. SubmittedVisible => SubmittedRowExists
  BY DEF SubmittedVisible, SubmittedRowExists
<1> QED
  BY <1>1, <1>2, <1>3, AloneInvariant, PTL DEF Spec

-----------------------------------------------------------------------------
(* Every ingestion is accounted for.                                       *)

LEMMA Summands ==
  ASSUME TypeOK, NEW j \in Jobs, IsFiniteSet(Copies(j))
  PROVE  /\ Len(logs[j]) \in Nat /\ Cardinality(Copies(j)) \in Nat
         /\ Requested(j) \in 0..1 /\ InRun(j) \in 0..1
BY FS_CardinalityType DEF TypeOK, Requested, InRun

\* A new job has no message, no request and no run.
LEMMA NewIsFree ==
  ASSUME TypeOK, NEW j \in Jobs, New(j)
  PROVE  Copies(j) = {} /\ Len(logs[j]) = 0 /\ Requested(j) = 0 /\ InRun(j) = 0
<1>1. ~ Undelivered(j) /\ ~ Running(j) /\ j \notin request /\ logs[j] = <<>>
  BY DEF New, Pending
<1>2. Copies(j) = {}
  BY <1>1 DEF Copies, CopiesOf, Undelivered
<1> QED
  BY <1>1, <1>2 DEF Requested, InRun

LEMMA AccountedStep ==
  ASSUME Alone, Accounted, [Next]_vars
  PROVE  Accounted'
<1>t. /\ logs \in [Jobs -> Seq({"completed", "failed"})]
      /\ run \in Ingests /\ run.job \in Jobs /\ run.retries \in 0..MaxRetries
      /\ faultsLeft \in 0..MaxFaults /\ MaxFaults \in Nat /\ MaxRetries \in Nat /\ TypeOK
  BY BudgetAssumption DEF Alone, TypeOK, Ingests
<1>f. \A j \in Jobs : IsFiniteSet(Copies(j))
  BY DEF Accounted
<1>b. PICK b \in Nat : b = 1 + MaxFaults - faultsLeft /\ b >= 1
  BY <1>t
<1>e. /\ faultsLeft' = faultsLeft => 1 + MaxFaults - faultsLeft' = b
      /\ faultsLeft' = faultsLeft - 1 => 1 + MaxFaults - faultsLeft' = b + 1
  BY <1>b, <1>t
<1>s. ASSUME NEW j \in Jobs
      PROVE  /\ Len(logs[j]) \in Nat /\ Cardinality(Copies(j)) \in Nat
             /\ Requested(j) \in 0..1 /\ InRun(j) \in 0..1
             /\ Len(logs[j]) + Cardinality(Copies(j)) + Requested(j) + InRun(j) <= b
  BY <1>t, <1>f, <1>b, Summands DEF Accounted, Ingestions
<1> DEFINE Tally(k) ==
             /\ IsFiniteSet(Copies(k)')
             /\ Len(logs'[k]) + Cardinality(Copies(k)') + Requested(k)' + InRun(k)'
                  <= 1 + MaxFaults - faultsLeft'
<1>g. ASSUME \A k \in Jobs : Tally(k)
      PROVE  Accounted'
  BY <1>g DEF Accounted, Ingestions
<1>m. messages' = messages => \A j : Copies(j)' = Copies(j)
  BY DEF Copies
<1>r. request' = request => \A j : Requested(j)' = Requested(j)
  BY DEF Requested
<1>i. ASSUME \A j \in Jobs : /\ IsFiniteSet(Copies(j)')
                             /\ Cardinality(Copies(j)') <= Cardinality(Copies(j))
                             /\ Cardinality(Copies(j)') \in Nat,
             logs' = logs, faultsLeft' = faultsLeft,
             \A j \in Jobs : Requested(j)' \in 0..1 /\ Requested(j)' <= Requested(j),
             \A j \in Jobs : InRun(j)' \in 0..1 /\ InRun(j)' <= InRun(j)
      PROVE  Accounted'
  <2>1. ASSUME NEW k \in Jobs PROVE Tally(k)
    <3>1. PICK l, c, r, i \in Nat :
            /\ l = Len(logs[k]) /\ c = Cardinality(Copies(k))
            /\ r = Requested(k) /\ i = InRun(k)
      BY <1>s
    <3>s. l + c + r + i <= b
      BY <1>s, <3>1
    <3>2. PICK c1, r1, i1 \in Nat :
            /\ c1 = Cardinality(Copies(k)') /\ r1 = Requested(k)' /\ i1 = InRun(k)'
            /\ c1 <= c /\ r1 <= r /\ i1 <= i
      BY <1>i, <3>1
    <3>3. l + c1 + r1 + i1 <= b
      <4>1. c1 <= c /\ r1 <= r /\ i1 <= i
        BY <3>2
      <4> QED
        BY <3>s, <4>1
    <3> QED
      BY <1>e, <1>i, <3>1, <3>2, <3>3
  <2> QED
    BY <1>g, <2>1
<1>c. messages' = messages =>
        \A j \in Jobs : /\ IsFiniteSet(Copies(j)') /\ Cardinality(Copies(j)') \in Nat
                        /\ Cardinality(Copies(j)') <= Cardinality(Copies(j))
  BY <1>f, <1>m, <1>s
<1>1. ASSUME NEW j \in Jobs, InsertJob(j) PROVE Accounted'
  <2>1. /\ New(j) /\ UNCHANGED <<logs, messages, pc, run, faultsLeft>>
        /\ request' = request \cup {j}
    BY <1>1 DEF InsertJob
  <2>2. Requested(j)' = 1 /\ \A k : k # j => Requested(k)' = Requested(k)
    BY <2>1 DEF Requested
  <2>3. \A k : InRun(k)' = InRun(k)
    BY <2>1 DEF InRun, Running
  <2>4. Len(logs[j]) = 0 /\ Cardinality(Copies(j)) = 0 /\ InRun(j) = 0
    BY <1>t, <2>1, NewIsFree, FS_EmptySet
  <2>k. ASSUME NEW k \in Jobs PROVE Tally(k)
    <3>1. PICK l, c, r, i \in Nat :
            /\ l = Len(logs[k]) /\ c = Cardinality(Copies(k))
            /\ r = Requested(k) /\ i = InRun(k)
      BY <1>s
    <3>s. l + c + r + i <= b
      BY <1>s, <3>1
    <3>2. Len(logs'[k]) = l /\ Cardinality(Copies(k)') = c /\ InRun(k)' = i
      BY <1>m, <2>1, <2>3, <3>1
    <3>3. CASE k = j
      <4>1. Requested(k)' = 1 /\ l = 0 /\ c = 0 /\ i = 0
        BY <2>2, <2>4, <3>1, <3>3
      <4>2. 0 + 0 + 1 + 0 <= b
        BY <1>b
      <4> QED
        BY <1>e, <1>f, <1>m, <2>1, <3>2, <4>1, <4>2
    <3>4. CASE k # j
      <4>1. Requested(k)' = r
        BY <2>2, <3>1, <3>4
      <4>2. l + c + r + i <= b
        BY <3>s
      <4> QED
        BY <1>e, <1>f, <1>m, <2>1, <3>2, <4>1, <4>2
    <3> QED
      BY <3>3, <3>4
  <2> QED
    BY <1>g, <2>k
<1>2. ASSUME NEW j \in Jobs, EnqueueJob(j) PROVE Accounted'
  <2>1. /\ j \in request /\ UNCHANGED <<logs, pc, run, faultsLeft>>
        /\ request' = request \ {j} /\ Publish(j, 0) /\ 0 \in 0..MaxRetries
    BY <1>2, <1>t DEF EnqueueJob
  <2>2. Requested(j)' = 0 /\ Requested(j) = 1 /\ \A k : k # j => Requested(k)' = Requested(k)
    BY <2>1 DEF Requested
  <2>3. \A k : InRun(k)' = InRun(k)
    BY <2>1 DEF InRun, Running
  <2>4. /\ \A k : k # j => Copies(k)' = Copies(k)
        /\ IsFiniteSet(Copies(j)') /\ Cardinality(Copies(j)') = Cardinality(Copies(j)) + 1
    BY <1>t, <1>f, <2>1, Published
  <2>k. ASSUME NEW k \in Jobs PROVE Tally(k)
    <3>1. PICK l, c, r, i \in Nat :
            /\ l = Len(logs[k]) /\ c = Cardinality(Copies(k))
            /\ r = Requested(k) /\ i = InRun(k)
      BY <1>s
    <3>s. l + c + r + i <= b
      BY <1>s, <3>1
    <3>2. Len(logs'[k]) = l /\ InRun(k)' = i
      BY <2>1, <2>3, <3>1
    <3>3. CASE k = j
      <4>1. Requested(k)' = 0 /\ r = 1 /\ Cardinality(Copies(k)') = c + 1
        BY <2>2, <2>4, <3>1, <3>3
      <4>2. l + (c + 1) + 0 + i <= b
        BY <3>s, <4>1
      <4> QED
        BY <1>e, <2>1, <2>4, <3>2, <3>3, <4>1, <4>2
    <3>4. CASE k # j
      <4>1. Requested(k)' = r /\ Copies(k)' = Copies(k)
        BY <2>2, <2>4, <3>1, <3>4
      <4>2. l + c + r + i <= b
        BY <3>s
      <4> QED
        BY <1>e, <1>f, <2>1, <3>1, <3>2, <4>1, <4>2
    <3> QED
      BY <3>3, <3>4
  <2> QED
    BY <1>g, <2>k
<1>3. ASSUME NEW j \in Jobs, EnqueueFails(j) PROVE Accounted'
  <2>1. /\ UNCHANGED <<logs, messages, pc, run, faultsLeft>> /\ request' = request \ {j}
    BY <1>3 DEF EnqueueFails
  <2>2. \A k \in Jobs : Requested(k)' \in 0..1 /\ Requested(k)' <= Requested(k)
    BY <2>1 DEF Requested
  <2>3. \A k : InRun(k)' = InRun(k)
    BY <2>1 DEF InRun, Running
  <2> QED
    BY <1>i, <1>c, <1>s, <2>1, <2>2, <2>3
<1>4. ASSUME NEW j \in Jobs, RefreshJob(j) PROVE Accounted'
  <2>1. /\ New(j) /\ UNCHANGED <<logs, pc, run, faultsLeft, request>>
        /\ Publish(j, 0) /\ 0 \in 0..MaxRetries
    BY <1>4, <1>t DEF RefreshJob
  <2>2. \A k : Requested(k)' = Requested(k) /\ InRun(k)' = InRun(k)
    BY <2>1 DEF Requested, InRun, Running
  <2>3. /\ \A k : k # j => Copies(k)' = Copies(k)
        /\ IsFiniteSet(Copies(j)') /\ Cardinality(Copies(j)') = Cardinality(Copies(j)) + 1
    BY <1>t, <1>f, <2>1, Published
  <2>4. Len(logs[j]) = 0 /\ Cardinality(Copies(j)) = 0 /\ Requested(j) = 0 /\ InRun(j) = 0
    BY <1>t, <2>1, NewIsFree, FS_EmptySet
  <2>k. ASSUME NEW k \in Jobs PROVE Tally(k)
    <3>1. PICK l, c, r, i \in Nat :
            /\ l = Len(logs[k]) /\ c = Cardinality(Copies(k))
            /\ r = Requested(k) /\ i = InRun(k)
      BY <1>s
    <3>s. l + c + r + i <= b
      BY <1>s, <3>1
    <3>2. Len(logs'[k]) = l /\ Requested(k)' = r /\ InRun(k)' = i
      BY <2>1, <2>2, <3>1
    <3>3. CASE k = j
      <4>1. Cardinality(Copies(k)') = 1 /\ l = 0 /\ r = 0 /\ i = 0
        BY <2>3, <2>4, <3>1, <3>3
      <4>2. 0 + 1 + 0 + 0 <= b
        BY <1>b
      <4> QED
        BY <1>e, <2>1, <2>3, <3>2, <3>3, <4>1, <4>2
    <3>4. CASE k # j
      <4>1. Copies(k)' = Copies(k)
        BY <2>3, <3>1, <3>4
      <4>2. l + c + r + i <= b
        BY <3>s
      <4> QED
        BY <1>e, <1>f, <2>1, <3>1, <3>2, <4>1, <4>2
    <3> QED
      BY <3>3, <3>4
  <2> QED
    BY <1>g, <2>k
<1>5. CASE Fetch
  <2>1. PICK m \in BagToSet(messages) : Take(m) /\ run' = m
    BY <1>5 DEF Fetch
  <2>2. /\ UNCHANGED <<logs, request, faultsLeft>> /\ pc = "idle" /\ pc' = "mark"
    BY <1>5 DEF Fetch
  <2>3. PICK j \in Jobs : j = m.job
    BY <1>t, <2>1, Taken
  <2>4. /\ \A k : k # j => Copies(k)' = Copies(k)
        /\ IsFiniteSet(Copies(j)') /\ Cardinality(Copies(j)') = Cardinality(Copies(j)) - 1
    BY <1>t, <1>f, <2>1, <2>3, Taken
  <2>5. InRun(j)' = 1 /\ \A k : (k # j => InRun(k)' = 0) /\ InRun(k) = 0
    BY <2>1, <2>2, <2>3 DEF InRun, Running
  <2>k. ASSUME NEW k \in Jobs PROVE Tally(k)
    <3>1. PICK l, c, r, i \in Nat :
            /\ l = Len(logs[k]) /\ c = Cardinality(Copies(k))
            /\ r = Requested(k) /\ i = InRun(k)
      BY <1>s
    <3>s. l + c + r + i <= b
      BY <1>s, <3>1
    <3>2. Len(logs'[k]) = l /\ Requested(k)' = r /\ i = 0
      BY <1>r, <2>2, <2>5, <3>1
    <3>3. CASE k = j
      <4>1. Cardinality(Copies(k)') = c - 1 /\ InRun(k)' = 1
        BY <2>4, <2>5, <3>1, <3>3
      <4>2. l + (c - 1) + r + 1 <= b
        BY <3>s, <3>2
      <4> QED
        BY <1>e, <2>2, <2>4, <3>2, <3>3, <4>1, <4>2
    <3>4. CASE k # j
      <4>1. Copies(k)' = Copies(k) /\ InRun(k)' = 0
        BY <2>4, <2>5, <3>1, <3>4
      <4>2. l + c + r + 0 <= b
        BY <3>s
      <4> QED
        BY <1>e, <1>f, <2>2, <3>1, <3>2, <4>1, <4>2
    <3> QED
      BY <3>3, <3>4
  <2> QED
    BY <1>g, <2>k
<1>6. CASE MarkRunning \/ IngestPoisoned \/ ReportFailure
  <2>1. /\ UNCHANGED <<logs, messages, run, faultsLeft, request>>
        /\ pc \in {"mark", "ingest", "report"} /\ pc' \in {"ingest", "report", "retry"}
    BY <1>6 DEF MarkRunning, IngestPoisoned, ReportFailure
  <2>2. \A k : InRun(k)' = InRun(k)
    BY <2>1 DEF InRun, Running
  <2> QED
    BY <1>i, <1>c, <1>r, <1>s, <2>1, <2>2
<1>7. CASE Ingest
  <2>1. PICK status \in {"completed", "failed"} :
          logs' = [logs EXCEPT ![run.job] = Append(@, status)]
    BY <1>7 DEF Ingest
  <2>2. UNCHANGED <<messages, run, faultsLeft, request>> /\ pc = "ingest" /\ pc' = "finish"
    BY <1>7 DEF Ingest
  <2>3. PICK j \in Jobs : j = run.job
    BY <1>t
  <2>4. /\ Len(logs'[j]) = Len(logs[j]) + 1
        /\ \A k \in Jobs : k # j => logs'[k] = logs[k]
    BY <1>t, <2>1, <2>3
  <2>5. InRun(j) = 1 /\ InRun(j)' = 0 /\ \A k : k # j => InRun(k)' = 0 /\ InRun(k) = 0
    BY <2>2, <2>3 DEF InRun, Running
  <2>k. ASSUME NEW k \in Jobs PROVE Tally(k)
    <3>1. PICK l, c, r, i \in Nat :
            /\ l = Len(logs[k]) /\ c = Cardinality(Copies(k))
            /\ r = Requested(k) /\ i = InRun(k)
      BY <1>s
    <3>s. l + c + r + i <= b
      BY <1>s, <3>1
    <3>2. Copies(k)' = Copies(k) /\ Requested(k)' = r
      BY <1>m, <1>r, <2>2, <3>1
    <3>3. CASE k = j
      <4>1. Len(logs'[k]) = l + 1 /\ i = 1 /\ InRun(k)' = 0
        BY <2>4, <2>5, <3>1, <3>3
      <4>2. (l + 1) + c + r + 0 <= b
        BY <3>s, <4>1
      <4> QED
        BY <1>e, <1>f, <2>2, <3>1, <3>2, <4>1, <4>2
    <3>4. CASE k # j
      <4>1. Len(logs'[k]) = l /\ i = 0 /\ InRun(k)' = 0
        BY <2>4, <2>5, <3>1, <3>4
      <4>2. l + c + r + 0 <= b
        BY <3>s
      <4> QED
        BY <1>e, <1>f, <2>2, <3>1, <3>2, <4>1, <4>2
    <3> QED
      BY <3>3, <3>4
  <2> QED
    BY <1>g, <2>k
<1>8. CASE FinishJob \/ Acknowledge \/ ChildKilled \/ StartRefresh \/ RefreshCommit
  <2>1. /\ UNCHANGED <<logs, messages, run, faultsLeft, request>>
        /\ pc' \in {"ack", "idle", "refresh"}
    BY <1>8 DEF FinishJob, Acknowledge, ChildKilled, StartRefresh, RefreshCommit
  <2>2. \A k : InRun(k)' = 0
    BY <2>1 DEF InRun, Running
  <2> QED
    BY <1>i, <1>c, <1>r, <1>s, <2>1, <2>2
<1>9. CASE Retry
  <2>1. UNCHANGED <<logs, run, faultsLeft, request>> /\ pc = "retry" /\ pc' = "ack"
    BY <1>9 DEF Retry
  <2>2. PICK j \in Jobs : j = run.job
    BY <1>t
  <2>3. InRun(j) = 1 /\ \A k : InRun(k)' = 0
    BY <2>1, <2>2 DEF InRun, Running
  <2>4. CASE run.retries < MaxRetries
    <3>1. run.retries + 1 \in 0..MaxRetries /\ Publish(j, run.retries + 1)
      BY <1>9, <1>t, <2>2, <2>4 DEF Retry
    <3>2. /\ \A k : k # j => Copies(k)' = Copies(k)
          /\ IsFiniteSet(Copies(j)') /\ Cardinality(Copies(j)') = Cardinality(Copies(j)) + 1
      BY <1>t, <1>f, <3>1, Published
    <3>k. ASSUME NEW k \in Jobs PROVE Tally(k)
      <4>1. PICK l, c, r, i \in Nat :
              /\ l = Len(logs[k]) /\ c = Cardinality(Copies(k))
              /\ r = Requested(k) /\ i = InRun(k)
        BY <1>s
      <4>s. l + c + r + i <= b
        BY <1>s, <4>1
      <4>2. Len(logs'[k]) = l /\ Requested(k)' = r /\ InRun(k)' = 0
        BY <1>r, <2>1, <2>3, <4>1
      <4>3. CASE k = j
        <5>1. Cardinality(Copies(k)') = c + 1 /\ i = 1
          BY <2>3, <3>2, <4>1, <4>3
        <5>2. l + (c + 1) + r + 0 <= b
          BY <4>s, <5>1
        <5> QED
          BY <1>e, <2>1, <3>2, <4>2, <4>3, <5>1, <5>2
      <4>4. CASE k # j
        <5>1. Copies(k)' = Copies(k)
          BY <3>2, <4>1, <4>4
        <5>2. l + c + r + 0 <= b
          BY <4>s
        <5> QED
          BY <1>e, <1>f, <2>1, <4>1, <4>2, <5>1, <5>2
      <4> QED
        BY <4>3, <4>4
    <3> QED
      BY <1>g, <3>k
  <2>5. CASE ~ (run.retries < MaxRetries)
    <3>1. messages' = messages
      BY <1>9, <2>5 DEF Retry
    <3> QED
      BY <1>i, <1>c, <1>r, <1>s, <2>1, <2>3, <3>1
  <2> QED
    BY <2>4, <2>5
<1>10. CASE MessageLost
  <2>1. UNCHANGED <<logs, pc, run, faultsLeft, request>>
    BY <1>10 DEF MessageLost
  <2>2. \A k : InRun(k)' = InRun(k)
    BY <2>1 DEF InRun, Running
  <2>3. CASE UNCHANGED messages
    BY <1>i, <1>c, <1>r, <1>s, <2>1, <2>2, <2>3
  <2>4. CASE \E m \in BagToSet(messages) : Take(m)
    <3>1. PICK m \in BagToSet(messages) : Take(m)
      BY <2>4
    <3>2. PICK j \in Jobs : j = m.job
      BY <1>t, <3>1, Taken
    <3>3. /\ \A k : k # j => Copies(k)' = Copies(k)
          /\ IsFiniteSet(Copies(j)') /\ Cardinality(Copies(j)') = Cardinality(Copies(j)) - 1
      BY <1>t, <1>f, <3>1, <3>2, Taken
    <3>k. ASSUME NEW k \in Jobs PROVE Tally(k)
      <4>1. PICK l, c, r, i \in Nat :
              /\ l = Len(logs[k]) /\ c = Cardinality(Copies(k))
              /\ r = Requested(k) /\ i = InRun(k)
        BY <1>s
      <4>s. l + c + r + i <= b
        BY <1>s, <4>1
      <4>2. Len(logs'[k]) = l /\ Requested(k)' = r /\ InRun(k)' = i
        BY <1>r, <2>1, <2>2, <4>1
      <4>3. CASE k = j
        <5>1. Cardinality(Copies(k)') = c - 1
          BY <3>3, <4>1, <4>3
        <5>2. l + (c - 1) + r + i <= b
          BY <4>s
        <5> QED
          BY <1>e, <2>1, <3>3, <4>2, <4>3, <5>1, <5>2
      <4>4. CASE k # j
        <5>1. Copies(k)' = Copies(k)
          BY <3>3, <4>1, <4>4
        <5>2. l + c + r + i <= b
          BY <4>s
        <5> QED
          BY <1>e, <1>f, <2>1, <4>1, <4>2, <5>1, <5>2
      <4> QED
        BY <4>3, <4>4
    <3> QED
      BY <1>g, <3>k
  <2> QED
    BY <1>10, <2>3, <2>4 DEF MessageLost
<1>11. CASE StepFails
  <2>1. /\ UNCHANGED <<logs, messages, run, request>> /\ faultsLeft > 0
        /\ faultsLeft' = faultsLeft - 1
    BY <1>11 DEF StepFails
  <2>2. \A k \in Jobs : InRun(k)' \in 0..1 /\ InRun(k)' <= InRun(k) + 1
    BY DEF InRun
  <2>k. ASSUME NEW k \in Jobs PROVE Tally(k)
    <3>1. PICK l, c, r, i \in Nat :
            /\ l = Len(logs[k]) /\ c = Cardinality(Copies(k))
            /\ r = Requested(k) /\ i = InRun(k)
      BY <1>s
    <3>s. l + c + r + i <= b
      BY <1>s, <3>1
    <3>2. Len(logs'[k]) = l /\ Requested(k)' = r /\ Copies(k)' = Copies(k)
      BY <1>m, <1>r, <2>1, <3>1
    <3>3. PICK i1 \in Nat : i1 = InRun(k)' /\ i1 <= i + 1
      BY <2>2, <3>1
    <3>4. l + c + r + i1 <= b + 1
      BY <3>s, <3>3
    <3> QED
      BY <1>e, <1>f, <2>1, <3>1, <3>2, <3>3, <3>4
  <2> QED
    BY <1>g, <2>k
<1>12. CASE RefreshAborts
  <2>1. /\ UNCHANGED <<logs, messages, run, request>> /\ faultsLeft' = faultsLeft - 1
        /\ pc' = "idle"
    BY <1>12 DEF RefreshAborts
  <2>2. \A k : InRun(k)' = 0
    BY <2>1 DEF InRun, Running
  <2>k. ASSUME NEW k \in Jobs PROVE Tally(k)
    <3>1. PICK l, c, r, i \in Nat :
            /\ l = Len(logs[k]) /\ c = Cardinality(Copies(k))
            /\ r = Requested(k) /\ i = InRun(k)
      BY <1>s
    <3>s. l + c + r + i <= b
      BY <1>s, <3>1
    <3>2. /\ Len(logs'[k]) = l /\ Requested(k)' = r
          /\ Copies(k)' = Copies(k) /\ InRun(k)' = 0
      BY <1>m, <1>r, <2>1, <2>2, <3>1
    <3>3. l + c + r + 0 <= b + 1
      BY <3>s
    <3> QED
      BY <1>e, <1>f, <2>1, <3>1, <3>2, <3>3
  <2> QED
    BY <1>g, <2>k
<1>13. CASE Crash
  <2>1. /\ UNCHANGED <<logs, run, request>> /\ faultsLeft' = faultsLeft - 1 /\ pc' = "idle"
    BY <1>13 DEF Crash
  <2>2. \A k : InRun(k)' = 0
    BY <2>1 DEF InRun, Running
  <2>3. CASE pc = "refresh"
    <3>1. messages' = messages
      BY <1>13, <2>3 DEF Crash
    <3>k. ASSUME NEW k \in Jobs PROVE Tally(k)
      <4>1. PICK l, c, r, i \in Nat :
              /\ l = Len(logs[k]) /\ c = Cardinality(Copies(k))
              /\ r = Requested(k) /\ i = InRun(k)
        BY <1>s
      <4>s. l + c + r + i <= b
        BY <1>s, <4>1
      <4>2. /\ Len(logs'[k]) = l /\ Requested(k)' = r
            /\ Copies(k)' = Copies(k) /\ InRun(k)' = 0
        BY <1>m, <1>r, <2>1, <2>2, <3>1, <4>1
      <4>3. l + c + r + 0 <= b + 1
        BY <4>s
      <4> QED
        BY <1>e, <1>f, <2>1, <4>1, <4>2, <4>3
    <3> QED
      BY <1>g, <3>k
  <2>4. CASE pc # "refresh"
    <3>1. PICK j \in Jobs : j = run.job
      BY <1>t
    <3>2. Publish(j, run.retries)
      BY <1>13, <2>4, <3>1 DEF Crash
    <3>3. /\ \A k : k # j => Copies(k)' = Copies(k)
          /\ IsFiniteSet(Copies(j)') /\ Cardinality(Copies(j)') = Cardinality(Copies(j)) + 1
      BY <1>t, <1>f, <3>2, Published
    <3>k. ASSUME NEW k \in Jobs PROVE Tally(k)
      <4>1. PICK l, c, r, i \in Nat :
              /\ l = Len(logs[k]) /\ c = Cardinality(Copies(k))
              /\ r = Requested(k) /\ i = InRun(k)
        BY <1>s
      <4>s. l + c + r + i <= b
        BY <1>s, <4>1
      <4>2. Len(logs'[k]) = l /\ Requested(k)' = r /\ InRun(k)' = 0
        BY <1>r, <2>1, <2>2, <4>1
      <4>3. CASE k = j
        <5>1. Cardinality(Copies(k)') = c + 1
          BY <3>3, <4>1, <4>3
        <5>2. l + (c + 1) + r + 0 <= b + 1
          BY <4>s
        <5> QED
          BY <1>e, <2>1, <3>3, <4>2, <4>3, <5>1, <5>2
      <4>4. CASE k # j
        <5>1. Copies(k)' = Copies(k)
          BY <3>3, <4>1, <4>4
        <5>2. l + c + r + 0 <= b + 1
          BY <4>s
        <5> QED
          BY <1>e, <1>f, <2>1, <4>1, <4>2, <5>1, <5>2
      <4> QED
        BY <4>3, <4>4
    <3> QED
      BY <1>g, <3>k
  <2> QED
    BY <2>3, <2>4
<1>14. CASE UNCHANGED vars
  <2>1. UNCHANGED <<logs, messages, run, request, pc, faultsLeft>>
    BY <1>14 DEF vars
  <2>2. \A k : InRun(k)' = InRun(k)
    BY <2>1 DEF InRun, Running
  <2> QED
    BY <1>i, <1>c, <1>r, <1>s, <2>1, <2>2
<1> QED
  BY <1>1, <1>2, <1>3, <1>4, <1>5, <1>6, <1>7, <1>8, <1>9, <1>10, <1>11, <1>12, <1>13, <1>14
     DEF Next, WorkerStep

\* A job is ingested once, and once more at most for each crash or outage that
\* struck.
THEOREM IngestedOnce == Spec => []IngestedOncePerDelivery
<1>1. Init => Accounted
  <2> SUFFICES ASSUME Init, NEW j \in Jobs
               PROVE  IsFiniteSet(Copies(j)) /\ Ingestions(j) <= 1 + MaxFaults - faultsLeft
    BY DEF Accounted
  <2>1. Copies(j) = {}
    BY DEF Init, Copies, CopiesOf, EmptyBag, SetToBag, BagToSet
  <2>2. Len(logs[j]) = 0 /\ Requested(j) = 0 /\ InRun(j) = 0
    BY DEF Init, Requested, InRun, Running
  <2>3. IsFiniteSet(Copies(j)) /\ Cardinality(Copies(j)) = 0
    BY <2>1, FS_EmptySet
  <2>4. faultsLeft = MaxFaults /\ MaxFaults \in Nat
    BY BudgetAssumption DEF Init
  <2> QED
    BY <2>2, <2>3, <2>4 DEF Ingestions
<1>2. Alone /\ Accounted /\ [Next]_vars => Accounted'
  BY AccountedStep
<1>3. Alone /\ Accounted => IngestedOncePerDelivery
  <2> SUFFICES ASSUME Alone, Accounted, NEW j \in Jobs
               PROVE  Len(logs[j]) <= 1 + MaxFaults - faultsLeft
    BY DEF IngestedOncePerDelivery
  <2>1. PICK l, c, r, i \in Nat :
          /\ l = Len(logs[j]) /\ c = Cardinality(Copies(j))
          /\ r = Requested(j) /\ i = InRun(j)
    BY Summands DEF Alone, Accounted
  <2>2. PICK b \in Nat : b = 1 + MaxFaults - faultsLeft
    BY BudgetAssumption DEF Alone, TypeOK
  <2>3. l + c + r + i <= b
    BY <2>1, <2>2 DEF Accounted, Ingestions
  <2>4. l <= b
    BY <2>3
  <2> QED
    BY <2>1, <2>2, <2>4
<1> QED
  BY <1>1, <1>2, <1>3, AloneInvariant, PTL DEF Spec

-----------------------------------------------------------------------------
(* A job that was not started has an attempt to come.                      *)

Spared == lossesLeft = MaxLosses /\ MaxFaults - faultsLeft <= MaxRetries

LEMMA AttemptsStep ==
  ASSUME Alone, AttemptsFaulted, AttemptToCome, [Next]_vars
  PROVE  AttemptsFaulted' /\ AttemptToCome'
<1>t. /\ row \in [Jobs -> Statuses] /\ BagToSet(messages) \subseteq Ingests
      /\ run \in Ingests /\ run.job \in Jobs /\ run.retries \in 0..MaxRetries
      /\ faultsLeft \in 0..MaxFaults /\ lossesLeft \in 0..MaxLosses
      /\ MaxFaults \in Nat /\ MaxRetries \in Nat /\ MaxLosses \in Nat /\ TypeOK
      /\ \A j \in Jobs : row[j] = "flushed" => pc = "refresh"
  BY BudgetAssumption DEF Alone, TypeOK, RefreshAlone, Ingests
<1>m. \A m \in BagToSet(messages) : m.job \in Jobs /\ m.retries \in 0..MaxRetries
  BY <1>t DEF Ingests
<1> DEFINE Faulted(j) ==
             /\ \A m \in BagToSet(messages) : m.job = j => m.retries + faultsLeft <= MaxFaults
             /\ Running(j) => /\ pc \notin {"ingest", "finish"}
                              /\ pc = "mark" => run.retries + faultsLeft <= MaxFaults
                              /\ pc \in {"report", "retry", "ack"} =>
                                   run.retries + 1 + faultsLeft <= MaxFaults
           Coming(j) == Undelivered(j) \/ j \in request \/ (Running(j) /\ pc # "ack")
<1>f. \A j \in Jobs : Unstarted(j) => Faulted(j)
  BY DEF AttemptsFaulted
<1>c. Spared => \A j \in Jobs : Unstarted(j) => Coming(j)
  BY DEF AttemptToCome, Spared
<1>g. ASSUME \A j \in Jobs : Unstarted(j)' => Faulted(j)' /\ (Spared' => Coming(j)')
      PROVE  AttemptsFaulted' /\ AttemptToCome'
  BY <1>g DEF AttemptsFaulted, AttemptToCome, Spared
<1>n. ASSUME faultsLeft' <= faultsLeft, faultsLeft' \in 0..MaxFaults,
             lossesLeft' = lossesLeft, Spared'
      PROVE  Spared
  <2>1. PICK f \in Nat, g \in Nat, F \in Nat, R \in Nat :
          f = faultsLeft /\ g = faultsLeft' /\ F = MaxFaults /\ R = MaxRetries
    BY <1>t, <1>n
  <2>2. g <= f /\ F - g <= R
    BY <1>n, <2>1 DEF Spared
  <2>3. F - f <= R
    BY <2>2
  <2> QED
    BY <1>n, <2>1, <2>3 DEF Spared
<1>o. ASSUME NEW j \in Jobs, Unstarted(j), ~ Running(j), ~ Running(j)',
             faultsLeft' <= faultsLeft, faultsLeft' \in 0..MaxFaults, lossesLeft' = lossesLeft,
             \A m \in BagToSet(messages') : m.job = j => m \in BagToSet(messages),
             Undelivered(j) => Undelivered(j)', j \in request => j \in request'
      PROVE  Faulted(j)' /\ (Spared' => Coming(j)')
  <2>1. ASSUME NEW m \in BagToSet(messages'), m.job = j
        PROVE  m.retries + faultsLeft' <= MaxFaults
    <3>1. m \in BagToSet(messages) /\ m.retries \in 0..MaxRetries
      BY <1>m, <1>o, <2>1
    <3>2. m.retries + faultsLeft <= MaxFaults
      BY <1>f, <1>o, <2>1, <3>1
    <3> QED
      BY <1>o, <1>t, <3>1, <3>2
  <2>2. Spared' => Coming(j)'
    BY <1>c, <1>n, <1>o
  <2> QED
    BY <1>o, <2>1, <2>2
<1>1. ASSUME NEW j \in Jobs, InsertJob(j) PROVE AttemptsFaulted' /\ AttemptToCome'
  <2>1. /\ New(j) /\ row' = [row EXCEPT ![j] = "queued"] /\ request' = request \cup {j}
        /\ UNCHANGED <<messages, pc, run, faultsLeft, lossesLeft>>
    BY <1>1 DEF InsertJob
  <2>2. \A k : (Running(k)' <=> Running(k)) /\ (Undelivered(k)' <=> Undelivered(k))
    BY <2>1 DEF Running, Undelivered
  <2>k. ASSUME NEW k \in Jobs, Unstarted(k)' PROVE Faulted(k)' /\ (Spared' => Coming(k)')
    <3>1. CASE k = j
      <4>1. ~ Running(k)' /\ k \in request' /\ ~ Undelivered(k)'
        BY <2>1, <2>2, <3>1 DEF New, Pending
      <4> QED
        BY <4>1 DEF Undelivered
    <3>2. CASE k # j
      <4>1. Unstarted(k)
        BY <1>t, <2>1, <2>k, <3>2 DEF Unstarted
      <4> QED
        BY <1>f, <1>c, <2>1, <2>2, <4>1 DEF Spared
    <3> QED
      BY <3>1, <3>2
  <2> QED
    BY <1>g, <2>k
<1>2. ASSUME NEW j \in Jobs, EnqueueJob(j) PROVE AttemptsFaulted' /\ AttemptToCome'
  <2>1. /\ request' = request \ {j} /\ Publish(j, 0) /\ 0 \in 0..MaxRetries
        /\ UNCHANGED <<row, pc, run, faultsLeft, lossesLeft>>
    BY <1>2, <1>t DEF EnqueueJob
  <2>2. /\ \A m : m \in BagToSet(messages') <=> m \in BagToSet(messages) \/ m = Message(j, 0)
        /\ Undelivered(j)' /\ \A k : Undelivered(k) => Undelivered(k)'
    BY <1>t, <2>1, Published
  <2>3. \A k : (Running(k)' <=> Running(k)) /\ (Unstarted(k)' <=> Unstarted(k))
    BY <2>1 DEF Running, Unstarted
  <2>k. ASSUME NEW k \in Jobs, Unstarted(k)' PROVE Faulted(k)' /\ (Spared' => Coming(k)')
    <3>1. \A m \in BagToSet(messages') : m.job = k => m.retries + faultsLeft' <= MaxFaults
      BY <1>f, <1>t, <2>1, <2>2, <2>3, <2>k
    <3>2. Faulted(k)'
      BY <1>f, <2>1, <2>3, <2>k, <3>1
    <3>3. Spared' => Coming(k)'
      BY <1>c, <2>1, <2>2, <2>3, <2>k DEF Spared
    <3> QED
      BY <3>2, <3>3
  <2> QED
    BY <1>g, <2>k
<1>3. ASSUME NEW j \in Jobs, EnqueueFails(j) PROVE AttemptsFaulted' /\ AttemptToCome'
  <2>1. /\ lossesLeft' = lossesLeft - 1
        /\ UNCHANGED <<row, messages, pc, run, faultsLeft>>
    BY <1>3 DEF EnqueueFails
  <2>2. ~ Spared'
    BY <1>t, <2>1 DEF Spared
  <2>k. ASSUME NEW k \in Jobs, Unstarted(k)' PROVE Faulted(k)' /\ (Spared' => Coming(k)')
    BY <1>f, <2>1, <2>2, <2>k DEF Unstarted, Running
  <2> QED
    BY <1>g, <2>k
<1>4. ASSUME NEW j \in Jobs, RefreshJob(j) PROVE AttemptsFaulted' /\ AttemptToCome'
  <2>1. /\ New(j) /\ row' = [row EXCEPT ![j] = "flushed"] /\ Publish(j, 0)
        /\ 0 \in 0..MaxRetries /\ pc = "refresh"
        /\ UNCHANGED <<request, pc, run, faultsLeft, lossesLeft>>
    BY <1>4, <1>t DEF RefreshJob
  <2>2. /\ \A m : m \in BagToSet(messages') <=> m \in BagToSet(messages) \/ m = Message(j, 0)
        /\ Undelivered(j)' /\ \A k : Undelivered(k) => Undelivered(k)'
    BY <1>t, <2>1, Published
  <2>3. \A k : ~ Running(k) /\ ~ Running(k)'
    BY <2>1 DEF Running
  <2>k. ASSUME NEW k \in Jobs, Unstarted(k)' PROVE Faulted(k)' /\ (Spared' => Coming(k)')
    <3>1. CASE k = j
      <4>1. \A m \in BagToSet(messages) : m.job # j
        BY <2>1 DEF New, Pending, Undelivered
      <4>2. \A m \in BagToSet(messages') : m.job = k => m.retries + faultsLeft' <= MaxFaults
        BY <1>t, <2>1, <2>2, <3>1, <4>1
      <4> QED
        BY <2>2, <2>3, <3>1, <4>2
    <3>2. CASE k # j
      <4>1. Unstarted(k)
        BY <1>t, <2>1, <2>k, <3>2 DEF Unstarted
      <4> QED
        BY <1>o, <1>t, <2>1, <2>2, <2>3, <3>2, <4>1
    <3> QED
      BY <3>1, <3>2
  <2> QED
    BY <1>g, <2>k
<1>5. CASE Fetch
  <2>1. PICK m \in BagToSet(messages) : Take(m) /\ run' = m
    BY <1>5 DEF Fetch
  <2>2. UNCHANGED <<row, request, faultsLeft, lossesLeft>> /\ pc = "idle" /\ pc' = "mark"
    BY <1>5 DEF Fetch
  <2>3. /\ BagToSet(messages') \subseteq BagToSet(messages)
        /\ \A k : k # m.job /\ Undelivered(k) => Undelivered(k)'
    BY <1>t, <2>1, Taken
  <2>4. \A k : ~ Running(k) /\ (Running(k)' <=> k = m.job)
    BY <2>1, <2>2 DEF Running
  <2>k. ASSUME NEW k \in Jobs, Unstarted(k)' PROVE Faulted(k)' /\ (Spared' => Coming(k)')
    <3>1. Unstarted(k)
      BY <2>2, <2>k DEF Unstarted
    <3>2. CASE k = m.job
      <4>1. m.retries + faultsLeft <= MaxFaults
        BY <1>f, <3>1, <3>2
      <4>2. \A n \in BagToSet(messages') : n.job = k => n.retries + faultsLeft' <= MaxFaults
        BY <1>f, <2>2, <2>3, <3>1
      <4> QED
        BY <2>1, <2>2, <2>4, <3>2, <4>1, <4>2
    <3>3. CASE k # m.job
      <4>1. ~ Running(k) /\ ~ Running(k)'
        BY <2>4, <3>3
      <4> QED
        BY <1>o, <1>t, <2>2, <2>3, <3>1, <3>3, <4>1
    <3> QED
      BY <3>2, <3>3
  <2> QED
    BY <1>g, <2>k
<1>6. CASE MarkRunning \/ Ingest \/ IngestPoisoned \/ FinishJob
  <2>1. /\ UNCHANGED <<request, messages, run, faultsLeft, lossesLeft>>
        /\ pc \in {"mark", "ingest", "finish"}
    BY <1>6 DEF MarkRunning, Ingest, IngestPoisoned, FinishJob
  <2>2. \A k \in Jobs : k # run.job => row'[k] = row[k]
    BY <1>6, <1>t DEF MarkRunning, Ingest, IngestPoisoned, FinishJob
  <2>3. ~ Unstarted(run.job)'
    <3>1. CASE MarkRunning
      BY <1>t, <3>1 DEF MarkRunning, RowVisible, Unstarted
    <3>2. CASE Ingest \/ IngestPoisoned
      <4>1. Running(run.job) /\ pc = "ingest" /\ row' = row
        BY <3>2 DEF Running, Ingest, IngestPoisoned
      <4>2. ~ Unstarted(run.job)
        BY <1>f, <1>t, <4>1
      <4> QED
        BY <2>1, <4>1, <4>2 DEF Unstarted
    <3>3. CASE FinishJob
      BY <1>t, <3>3 DEF FinishJob, Unstarted
    <3> QED
      BY <1>6, <3>1, <3>2, <3>3
  <2>k. ASSUME NEW k \in Jobs, Unstarted(k)' PROVE Faulted(k)' /\ (Spared' => Coming(k)')
    <3>1. k # run.job
      BY <2>1, <2>3, <2>k DEF Unstarted
    <3>2. Unstarted(k)
      BY <2>2, <2>k, <3>1 DEF Unstarted
    <3>3. ~ Running(k) /\ ~ Running(k)'
      BY <2>1, <3>1 DEF Running
    <3>4. Undelivered(k) => Undelivered(k)'
      BY <2>1 DEF Undelivered
    <3> QED
      BY <1>o, <1>t, <2>1, <3>2, <3>3, <3>4
  <2> QED
    BY <1>g, <2>k
<1>7. CASE ReportFailure
  <2>1. /\ UNCHANGED <<request, messages, run, faultsLeft, lossesLeft>>
        /\ pc = "report" /\ pc' = "retry"
        /\ \A k \in Jobs : row'[k] \in {row[k], "failed"}
    BY <1>7, <1>t DEF ReportFailure
  <2>2. \A k : (Running(k)' <=> Running(k)) /\ (Undelivered(k)' <=> Undelivered(k))
    BY <2>1 DEF Running, Undelivered
  <2>k. ASSUME NEW k \in Jobs, Unstarted(k)' PROVE Faulted(k)' /\ (Spared' => Coming(k)')
    <3>1. Unstarted(k)
      BY <2>1, <2>k DEF Unstarted
    <3> QED
      BY <1>f, <1>c, <2>1, <2>2, <3>1 DEF Spared
  <2> QED
    BY <1>g, <2>k
<1>8. CASE Retry
  <2>1. UNCHANGED <<row, request, run, faultsLeft, lossesLeft>> /\ pc = "retry" /\ pc' = "ack"
    BY <1>8 DEF Retry
  <2>2. \A k : (Running(k) <=> k = run.job) /\ (Running(k)' <=> k = run.job)
    BY <2>1 DEF Running
  <2>3. PICK j \in Jobs : j = run.job
    BY <1>t
  <2>4. Unstarted(j) => run.retries + 1 + faultsLeft <= MaxFaults
    BY <1>f, <2>1, <2>2, <2>3
  <2>5. CASE run.retries < MaxRetries
    <3>1. run.retries + 1 \in 0..MaxRetries /\ Publish(j, run.retries + 1)
      BY <1>8, <1>t, <2>3, <2>5 DEF Retry
    <3>2. /\ \A m : m \in BagToSet(messages') <=>
                      m \in BagToSet(messages) \/ m = Message(j, run.retries + 1)
          /\ Undelivered(j)' /\ \A k : Undelivered(k) => Undelivered(k)'
      BY <1>t, <3>1, Published
    <3>k. ASSUME NEW k \in Jobs, Unstarted(k)' PROVE Faulted(k)' /\ (Spared' => Coming(k)')
      <4>1. Unstarted(k)
        BY <2>1, <3>k DEF Unstarted
      <4>2. CASE k = j
        <5>1. \A m \in BagToSet(messages') : m.job = k => m.retries + faultsLeft' <= MaxFaults
          BY <1>f, <2>1, <2>4, <3>2, <4>1, <4>2
        <5> QED
          BY <2>1, <2>4, <3>2, <4>1, <4>2, <5>1
      <4>3. CASE k # j
        BY <1>o, <1>t, <2>1, <2>2, <2>3, <3>2, <4>1, <4>3
      <4> QED
        BY <4>2, <4>3
    <3> QED
      BY <1>g, <3>k
  <2>6. CASE ~ (run.retries < MaxRetries)
    <3>1. messages' = messages
      BY <1>8, <2>6 DEF Retry
    <3>k. ASSUME NEW k \in Jobs, Unstarted(k)' PROVE Faulted(k)' /\ (Spared' => Coming(k)')
      <4>1. Unstarted(k) /\ (Undelivered(k) => Undelivered(k)')
        BY <2>1, <3>1, <3>k DEF Unstarted, Undelivered
      <4>2. CASE k = j
        <5>1. PICK r \in Nat, f \in Nat, F \in Nat, R \in Nat :
                r = run.retries /\ f = faultsLeft /\ F = MaxFaults /\ R = MaxRetries
          BY <1>t
        <5>2. r + 1 + f <= F /\ ~ (r < R)
          BY <2>4, <2>6, <4>1, <4>2, <5>1
        <5>3. ~ (F - f <= R)
          BY <5>2
        <5>4. ~ Spared'
          BY <2>1, <5>1, <5>3 DEF Spared
        <5> QED
          BY <1>f, <2>1, <2>4, <3>1, <4>1, <4>2, <5>4
      <4>3. CASE k # j
        BY <1>o, <1>t, <2>1, <2>2, <2>3, <3>1, <4>1, <4>3
      <4> QED
        BY <4>2, <4>3
    <3> QED
      BY <1>g, <3>k
  <2> QED
    BY <2>5, <2>6
<1>9. CASE Acknowledge \/ StartRefresh \/ RefreshCommit
  <2>1. /\ UNCHANGED <<request, messages, run, faultsLeft, lossesLeft>>
        /\ pc \in {"ack", "idle", "refresh"} /\ pc' \in {"idle", "refresh"}
        /\ \A k \in Jobs : row'[k] = row[k] \/ row[k] = "flushed"
    BY <1>9, <1>t DEF Acknowledge, StartRefresh, RefreshCommit, EndTransaction
  <2>2. \A k : /\ ~ Running(k)' /\ (Undelivered(k)' <=> Undelivered(k))
               /\ ~ (Running(k) /\ pc # "ack")
    BY <2>1 DEF Running, Undelivered
  <2>k. ASSUME NEW k \in Jobs, Unstarted(k)' PROVE Faulted(k)' /\ (Spared' => Coming(k)')
    <3>1. Unstarted(k)
      BY <2>1, <2>k DEF Unstarted
    <3> QED
      BY <1>f, <1>c, <2>1, <2>2, <3>1 DEF Spared
  <2> QED
    BY <1>g, <2>k
<1>10. CASE MessageLost \/ ChildKilled
  <2>1. /\ lossesLeft' = lossesLeft - 1 /\ UNCHANGED <<run, faultsLeft>>
        /\ pc' \in {pc, "idle"} /\ \A k \in Jobs : Unstarted(k)' => Unstarted(k)
    BY <1>10, <1>t DEF MessageLost, ChildKilled, EndTransaction, Unstarted
  <2>2. BagToSet(messages') \subseteq BagToSet(messages)
    <3>1. CASE UNCHANGED messages
      BY <3>1
    <3>2. CASE \E m \in BagToSet(messages) : Take(m)
      BY <1>t, <3>2, Taken
    <3> QED
      BY <1>10, <3>1, <3>2 DEF MessageLost, ChildKilled
  <2>3. ~ Spared'
    BY <1>t, <2>1 DEF Spared
  <2>4. \A k : Running(k)' => Running(k) /\ pc' = pc
    BY <2>1 DEF Running
  <2>k. ASSUME NEW k \in Jobs, Unstarted(k)' PROVE Faulted(k)' /\ (Spared' => Coming(k)')
    BY <1>f, <2>1, <2>2, <2>3, <2>4, <2>k
  <2> QED
    BY <1>g, <2>k
<1>11. CASE StepFails
  <2>1. /\ UNCHANGED <<row, request, messages, run, lossesLeft>>
        /\ faultsLeft > 0 /\ faultsLeft' = faultsLeft - 1
        /\ pc \in {"mark", "ingest", "finish"} /\ pc' = "report"
    BY <1>11 DEF StepFails
  <2>2. \A k : /\ Running(k) <=> k = run.job
               /\ Running(k)' <=> k = run.job
               /\ Undelivered(k)' <=> Undelivered(k)
    BY <2>1 DEF Running, Undelivered
  <2>3. PICK f \in Nat, F \in Nat : f = faultsLeft /\ F = MaxFaults /\ f > 0 /\ f - 1 \in 0..F
    BY <1>t, <2>1
  <2>k. ASSUME NEW k \in Jobs, Unstarted(k)' PROVE Faulted(k)' /\ (Spared' => Coming(k)')
    <3>1. Unstarted(k)
      BY <2>1, <2>k DEF Unstarted
    <3>2. CASE k = run.job
      <4>1. PICK r \in Nat : r = run.retries /\ r + f <= F
        BY <1>f, <1>t, <2>1, <2>2, <2>3, <3>1, <3>2
      <4>2. r + 1 + (f - 1) <= F
        BY <4>1
      <4>3. run.retries' + 1 + faultsLeft' <= MaxFaults
        BY <2>1, <2>3, <4>1, <4>2
      <4>4. \A m \in BagToSet(messages') : m.job = k => m.retries + faultsLeft' <= MaxFaults
        <5>1. ASSUME NEW m \in BagToSet(messages'), m.job = k
              PROVE  m.retries + faultsLeft' <= MaxFaults
          <6>1. PICK s \in Nat : s = m.retries /\ s + f <= F
            BY <1>f, <1>m, <1>t, <2>1, <2>3, <3>1, <5>1
          <6> QED
            BY <2>1, <2>3, <6>1
        <5> QED
          BY <5>1
      <4> QED
        BY <2>1, <2>2, <3>2, <4>3, <4>4
    <3>3. CASE k # run.job
      <4>1. /\ ~ Running(k) /\ ~ Running(k)'
            /\ faultsLeft' <= faultsLeft /\ faultsLeft' \in 0..MaxFaults
        BY <2>1, <2>2, <2>3, <3>3
      <4> QED
        BY <1>o, <2>1, <2>2, <3>1, <4>1
    <3> QED
      BY <3>2, <3>3
  <2> QED
    BY <1>g, <2>k
<1>12. CASE RefreshAborts
  <2>1. /\ UNCHANGED <<request, messages, run, lossesLeft>>
        /\ faultsLeft > 0 /\ faultsLeft' = faultsLeft - 1
        /\ pc = "refresh" /\ pc' = "idle" /\ \A k \in Jobs : Unstarted(k)' => Unstarted(k)
    BY <1>12, <1>t DEF RefreshAborts, EndTransaction, Unstarted
  <2>2. \A k : ~ Running(k) /\ ~ Running(k)' /\ (Undelivered(k) => Undelivered(k)')
    BY <2>1 DEF Running, Undelivered
  <2>3. faultsLeft' <= faultsLeft /\ faultsLeft' \in 0..MaxFaults
    BY <1>t, <2>1
  <2>k. ASSUME NEW k \in Jobs, Unstarted(k)' PROVE Faulted(k)' /\ (Spared' => Coming(k)')
    BY <1>o, <2>1, <2>2, <2>3, <2>k
  <2> QED
    BY <1>g, <2>k
<1>13. CASE Crash
  <2>1. /\ UNCHANGED <<request, run, lossesLeft>>
        /\ faultsLeft > 0 /\ faultsLeft' = faultsLeft - 1 /\ pc' = "idle"
        /\ \A k \in Jobs : Unstarted(k)' => Unstarted(k)
        /\ pc = "refresh" => messages' = messages
        /\ pc # "refresh" => Publish(run.job, run.retries)
    BY <1>13, <1>t DEF Crash, EndTransaction, Unstarted
  <2>2. \A k : ~ Running(k)'
    BY <2>1 DEF Running
  <2>3. faultsLeft' <= faultsLeft /\ faultsLeft' \in 0..MaxFaults
    BY <1>t, <2>1
  <2>4. CASE pc = "refresh"
    <3>1. \A k : ~ Running(k) /\ (Undelivered(k) => Undelivered(k)')
      BY <2>1, <2>4 DEF Running, Undelivered
    <3>k. ASSUME NEW k \in Jobs, Unstarted(k)' PROVE Faulted(k)' /\ (Spared' => Coming(k)')
      BY <1>o, <2>1, <2>2, <2>3, <2>4, <3>1, <3>k
    <3> QED
      BY <1>g, <3>k
  <2>5. CASE pc # "refresh"
    <3>1. PICK j \in Jobs : j = run.job
      BY <1>t
    <3>2. /\ \A m : m \in BagToSet(messages') <=>
                      m \in BagToSet(messages) \/ m = Message(j, run.retries)
          /\ Undelivered(j)' /\ \A k : Undelivered(k) => Undelivered(k)'
      BY <1>t, <2>1, <2>5, <3>1, Published
    <3>3. pc # "idle" /\ (Running(j) \/ pc \notin RunPCs)
      BY <1>13, <3>1 DEF Running, Crash
    <3>4. Running(j)
      BY <1>t, <2>5, <3>3 DEF TypeOK
    <3>k. ASSUME NEW k \in Jobs, Unstarted(k)' PROVE Faulted(k)' /\ (Spared' => Coming(k)')
      <4>1. Unstarted(k)
        BY <2>1, <3>k
      <4>2. CASE k = j
        <5>1. PICK r \in Nat, f \in Nat, F \in Nat :
                r = run.retries /\ f = faultsLeft /\ F = MaxFaults /\ f > 0
          BY <1>t, <2>1
        <5>2. pc \in RunPCs /\ pc \notin {"ingest", "finish"}
          BY <1>f, <3>4, <4>1, <4>2 DEF Running
        <5>3. r + f <= F \/ r + 1 + f <= F
          BY <1>f, <3>4, <4>1, <4>2, <5>1, <5>2
        <5>4. r + (f - 1) <= F
          BY <5>1, <5>3
        <5>5. \A m \in BagToSet(messages') : m.job = k => m.retries + faultsLeft' <= MaxFaults
          <6>1. ASSUME NEW m \in BagToSet(messages'), m.job = k
                PROVE  m.retries + faultsLeft' <= MaxFaults
            <7>1. CASE m = Message(j, run.retries)
              BY <2>1, <5>1, <5>4, <7>1
            <7>2. CASE m \in BagToSet(messages)
              <8>1. PICK s \in Nat : s = m.retries /\ s + f <= F
                BY <1>f, <1>m, <1>t, <4>1, <5>1, <6>1, <7>2
              <8> QED
                BY <2>1, <5>1, <8>1
            <7> QED
              BY <3>2, <6>1, <7>1, <7>2
          <6> QED
            BY <6>1
        <5> QED
          BY <2>2, <3>2, <4>2, <5>5
      <4>3. CASE k # j
        <5>1. ~ Running(k)
          BY <3>1, <4>3 DEF Running
        <5> QED
          BY <1>o, <2>1, <2>2, <2>3, <3>2, <4>1, <4>3, <5>1
      <4> QED
        BY <4>2, <4>3
    <3> QED
      BY <1>g, <3>k
  <2> QED
    BY <2>4, <2>5
<1>14. CASE UNCHANGED vars
  <2>1. UNCHANGED <<row, request, messages, pc, run, faultsLeft, lossesLeft>>
    BY <1>14 DEF vars
  <2>k. ASSUME NEW k \in Jobs, Unstarted(k)' PROVE Faulted(k)' /\ (Spared' => Coming(k)')
    BY <1>f, <1>c, <2>1, <2>k DEF Spared, Unstarted, Running, Undelivered
  <2> QED
    BY <1>g, <2>k
<1> QED
  BY <1>1, <1>2, <1>3, <1>4, <1>5, <1>6, <1>7, <1>8, <1>9, <1>10, <1>11, <1>12, <1>13, <1>14
     DEF Next, WorkerStep

\* As long as no message is lost and no more faults struck than a task has retries,
\* a queued job has a message on its way, a run or a request about to send one.
THEOREM QueuedJobsArePending == Spec => []QueuedIsPending
<1>1. Init => AttemptsFaulted /\ AttemptToCome
  BY DEF Init, AttemptsFaulted, AttemptToCome, Unstarted
<1>2. Alone /\ AttemptsFaulted /\ AttemptToCome /\ [Next]_vars
        => AttemptsFaulted' /\ AttemptToCome'
  BY AttemptsStep
<1>3. AttemptToCome => QueuedIsPending
  BY DEF AttemptToCome, QueuedIsPending, Unstarted, Pending
<1> QED
  BY <1>1, <1>2, <1>3, AloneInvariant, PTL DEF Spec


-----------------------------------------------------------------------------
(* A request is the first to send its job.                                 *)

\* No message and no run of a job is older than the request that enqueues it.
RequestFirst == \A j \in request : ~ Undelivered(j) /\ ~ Running(j)

LEMMA RequestStep ==
  ASSUME Alone, RequestFirst, [Next]_vars
  PROVE  RequestFirst'
<1>t. /\ request \subseteq Jobs /\ run.job \in Jobs /\ run.retries \in 0..MaxRetries
      /\ IsABag(messages) /\ MaxRetries \in Nat
  BY BudgetAssumption DEF Alone, TypeOK
<1>n. ASSUME request' \subseteq request,
             \A m \in BagToSet(messages') : m \in BagToSet(messages) \/ m.job \notin request',
             \A j \in request' : Running(j)' => Running(j)
      PROVE  RequestFirst'
  BY <1>n DEF RequestFirst, Undelivered
<1>p. ASSUME NEW j \in Jobs, NEW r \in 0..MaxRetries, Publish(j, r), j \notin request'
      PROVE  \A m \in BagToSet(messages') : m \in BagToSet(messages) \/ m.job \notin request'
  BY <1>p, Published DEF Alone
<1>d. ASSUME NEW m \in BagToSet(messages), Take(m)
      PROVE  BagToSet(messages') \subseteq BagToSet(messages)
  BY <1>d, Taken DEF Alone
<1>r. pc \in RunPCs => run.job \notin request
  BY DEF RequestFirst, Running
<1>1. ASSUME NEW j \in Jobs, InsertJob(j) PROVE RequestFirst'
  BY <1>1 DEF InsertJob, New, Pending, RequestFirst, Undelivered, Running
<1>2. ASSUME NEW j \in Jobs, EnqueueJob(j) PROVE RequestFirst'
  BY <1>2, <1>n, <1>p, <1>t DEF EnqueueJob, Running
<1>3. ASSUME NEW j \in Jobs, EnqueueFails(j) PROVE RequestFirst'
  BY <1>3, <1>n DEF EnqueueFails, Running
<1>4. ASSUME NEW j \in Jobs, RefreshJob(j) PROVE RequestFirst'
  BY <1>4, <1>n, <1>p, <1>t DEF RefreshJob, New, Pending, Running
<1>5. CASE Fetch
  <2>1. PICK m \in BagToSet(messages) : Take(m) /\ run' = m
    BY <1>5 DEF Fetch
  <2>2. request' = request /\ pc' = "mark" /\ BagToSet(messages') \subseteq BagToSet(messages)
    BY <1>5, <1>d, <2>1 DEF Fetch
  <2>3. \A j \in request : m.job # j
    BY DEF RequestFirst, Undelivered
  <2> QED
    BY <2>1, <2>2, <2>3 DEF RequestFirst, Undelivered, Running
<1>6. CASE MessageLost
  <2>1. BagToSet(messages') \subseteq BagToSet(messages)
    BY <1>6, <1>d DEF MessageLost
  <2> QED
    BY <1>6, <1>n, <2>1 DEF MessageLost, Running
<1>7. CASE Retry
  <2>1. /\ run.job \notin request /\ request' = request
        /\ \A j : Running(j)' => Running(j)
    BY <1>7, <1>r DEF Retry, Running
  <2>2. CASE run.retries < MaxRetries
    <3>1. run.retries + 1 \in 0..MaxRetries /\ Publish(run.job, run.retries + 1)
      BY <1>7, <1>t, <2>2 DEF Retry
    <3> QED
      BY <1>n, <1>p, <1>t, <2>1, <3>1
  <2>3. CASE ~ (run.retries < MaxRetries)
    BY <1>7, <1>n, <2>1, <2>3 DEF Retry
  <2> QED
    BY <2>2, <2>3
<1>8. CASE Crash
  <2>1. request' = request /\ \A j : ~ Running(j)'
    BY <1>8 DEF Crash, Running
  <2>2. CASE pc = "refresh"
    BY <1>8, <1>n, <2>1, <2>2 DEF Crash
  <2>3. CASE pc # "refresh"
    <3>1. Publish(run.job, run.retries) /\ run.job \notin request
      BY <1>8, <1>r, <2>3 DEF Crash, Alone, TypeOK
    <3> QED
      BY <1>n, <1>p, <1>t, <2>1, <3>1
  <2> QED
    BY <2>2, <2>3
<1>9. CASE \/ MarkRunning \/ Ingest \/ IngestPoisoned \/ FinishJob \/ ReportFailure
           \/ Acknowledge \/ RefreshCommit \/ StartRefresh \/ RefreshAborts
           \/ StepFails \/ ChildKilled \/ UNCHANGED vars
  <2>1. UNCHANGED <<request, messages, run>>
    BY <1>9 DEF MarkRunning, Ingest, IngestPoisoned, FinishJob, ReportFailure, Acknowledge,
                RefreshCommit, StartRefresh, RefreshAborts, StepFails, ChildKilled, vars
  <2>2. pc' \in RunPCs => pc \in RunPCs
    BY <1>9 DEF MarkRunning, Ingest, IngestPoisoned, FinishJob, ReportFailure, Acknowledge,
                RefreshCommit, StartRefresh, RefreshAborts, StepFails, ChildKilled, vars
  <2> QED
    BY <1>n, <2>1, <2>2 DEF Running
<1> QED
  BY <1>1, <1>2, <1>3, <1>4, <1>5, <1>6, <1>7, <1>8, <1>9 DEF Next, WorkerStep

\* Whoever is about to enqueue a job finds no earlier message or run of it.
LEMMA RequestsStayFirst == Spec => []RequestFirst
<1>1. Init => RequestFirst
  BY DEF Init, RequestFirst
<1>2. Alone /\ RequestFirst /\ [Next]_vars => RequestFirst'
  BY RequestStep
<1> QED
  BY <1>1, <1>2, AloneInvariant, PTL DEF Spec
=============================================================================
