-------------------------- MODULE PaginationProofs --------------------------
(***************************************************************************)
(* Proofs about Pagination, for any rows, places and page size.            *)
(***************************************************************************)
EXTENDS Pagination, FiniteSetTheorems, SequenceTheorems, TLAPS

-----------------------------------------------------------------------------
(* The inductive invariant.                                                *)

\* The rows of an answer are the tenant's, each once, and no younger than the table;
\* the related rows are no older than the rows.
Answers ==
  /\ \A m, n \in DOMAIN items : items[m].id = items[n].id => m = n
  /\ \A n \in DOMAIN items : /\ items[n].id \in Own
                             /\ items[n].version <= version[items[n].id]
  /\ pc = "answered" => /\ DOMAIN related = DOMAIN items
                        /\ \A n \in DOMAIN items : related[n] >= items[n].version

\* No page lies beyond the rows there can be.
PagesExist ==
  /\ pc = "select" => page > 0
  /\ pc \in {"relate", "answered"} /\ page > 0 /\ items # <<>> =>
       Offset + Len(items) <= Cardinality(Own)

\* The rows that were counted are still selected or have departed.
Counted == pc = "select" => total <= Cardinality(Selected \cup departed)

Before(k) == {i \in Selected : Precedes(i, k)}

\* A row that was there at the start and was not disturbed keeps all rows before
\* it before it. If it was not seen, it lies behind the pages that were read.
Walk ==
  /\ pc = "idle" \/ page = 0 => atStart = {}
  /\ \A k \in atStart \ disturbed :
       /\ k \in Selected
       /\ \A i \in Selected \ {k} : place[i] # place[k]
       /\ k \notin seen =>
            /\ pc = "select" => Cardinality(Before(k)) >= Offset
            /\ pc \in {"relate", "answered"} =>
                 Len(items) = PageSize /\ Cardinality(Before(k)) >= Offset + PageSize

Inv == TypeOK /\ Answers /\ PagesExist /\ Counted /\ PagesHoldTheTotal /\ Walk

-----------------------------------------------------------------------------
(* Sets of rows and pages of them.                                         *)

LEMMA RowsFinite ==
  ASSUME NEW S \in SUBSET Own
  PROVE  /\ IsFiniteSet(S) /\ Cardinality(S) \in Nat
         /\ Cardinality(Own) \in Nat /\ Cardinality(S) <= Cardinality(Own)
<1>1. IsFiniteSet(Own)
  BY IdsAssumption, FS_Subset
<1> QED
  BY <1>1, FS_Subset, FS_CardinalityType

LEMMA MoreRows ==
  ASSUME NEW S \in SUBSET Own, NEW T \in SUBSET S
  PROVE  Cardinality(T) <= Cardinality(S)
BY RowsFinite, FS_Subset

LEMMA OffsetOfPage ==
  ASSUME NEW p \in Nat \ {0}
  PROVE  /\ (p - 1) * PageSize \in Nat
         /\ ((p + 1) - 1) * PageSize = (p - 1) * PageSize + PageSize
         /\ p <= (p - 1) * PageSize + PageSize
<1>1. PageSize \in Nat /\ PageSize >= 1
  BY BoundsAssumption
<1>2. PICK q \in Nat : p = q + 1
  <2>1. p - 1 \in Nat /\ p = (p - 1) + 1
    OBVIOUS
  <2> QED
    BY <2>1
<1>3. q * PageSize \in Nat /\ (q + 1) * PageSize = q * PageSize + PageSize
  BY <1>1
<1>4. q <= q * PageSize
  BY <1>1
<1> QED
  BY <1>1, <1>2, <1>3, <1>4

\* total_pages counts the pages that begin before the total.
LEMMA PageWithinTotal ==
  ASSUME NEW p \in Nat \ {0}, NEW t \in Nat, p <= (t + PageSize - 1) \div PageSize
  PROVE  (p - 1) * PageSize < t
<1> DEFINE d == (t + PageSize - 1) \div PageSize
<1>1. PageSize \in Nat /\ PageSize >= 1
  BY BoundsAssumption
<1>2. d \in Nat /\ d * PageSize <= t + PageSize - 1
  BY <1>1
<1> HIDE DEF d
<1>3. p <= d
  BY DEF d
<1>4. p * PageSize <= d * PageSize
  BY <1>1, <1>2, <1>3
<1>5. (p - 1) * PageSize = p * PageSize - PageSize /\ p * PageSize \in Nat
  BY <1>1
<1> QED
  BY <1>1, <1>2, <1>4, <1>5

\* ORDER BY lists every selected row once, in the order of the places.
LEMMA OrdersList ==
  ASSUME NEW s \in Orders
  PROVE  /\ s \in Seq(Selected) /\ Len(s) = Cardinality(Selected) /\ Len(s) \in Nat
         /\ DOMAIN s = 1..Len(s)
         /\ \A i, k \in DOMAIN s : s[i] = s[k] => i = k
         /\ \A r \in Selected : \E n \in DOMAIN s : s[n] = r
         /\ \A i, k \in DOMAIN s : Precedes(s[i], s[k]) => i < k
<1> DEFINE N == Cardinality(Selected)
           D == 1..N
<1>1. Selected \in SUBSET Own
  BY DEF Selected
<1>2. IsFiniteSet(Selected) /\ N \in Nat
  BY <1>1, RowsFinite
<1>3. /\ s \in [D -> Selected]
      /\ \A i, k \in D : i # k => s[i] # s[k]
      /\ \A i, k \in DOMAIN s : Precedes(s[i], s[k]) => i < k
  BY DEF Orders, SetToSeqs
<1>4. s \in Seq(Selected) /\ Len(s) = N
  BY <1>2, <1>3
<1>5. IsFiniteSet(D) /\ Cardinality(D) = N
  BY <1>2, FS_Interval
<1> HIDE DEF D, N
<1>6. s \in Injection(D, Selected)
  BY <1>3 DEF Injection, IsInjective
<1>7. s \in Surjection(D, Selected)
  BY <1>2, <1>5, <1>6, FS_Injection DEF N
<1>8. \A r \in Selected : \E n \in D : s[n] = r
  BY <1>7 DEF Surjection
<1> QED
  BY <1>2, <1>3, <1>4, <1>8 DEF D, N

\* A row that has its place for itself comes after those before it, in every order.
LEMMA PositionOfRow ==
  ASSUME NEW s \in Orders, NEW n \in DOMAIN s,
         place \in [Ids -> Places \cup {Hidden}],
         \A i \in Selected \ {s[n]} : place[i] # place[s[n]]
  PROVE  Cardinality(Before(s[n])) = n - 1
<1> DEFINE k == s[n]
           D == 1..(n - 1)
           b == [m \in D |-> s[m]]
<1>1. /\ s \in Seq(Selected) /\ Len(s) \in Nat /\ DOMAIN s = 1..Len(s)
      /\ \A i, j \in DOMAIN s : s[i] = s[j] => i = j
      /\ \A r \in Selected : \E m \in DOMAIN s : s[m] = r
      /\ \A i, j \in DOMAIN s : Precedes(s[i], s[j]) => i < j
  BY OrdersList
<1>2. n \in Nat \ {0} /\ n <= Len(s)
  BY <1>1
<1>3. \A r \in Selected : place[r] \in Nat
  BY IdsAssumption, BoundsAssumption DEF Selected, Hidden
<1>4. ASSUME NEW m \in D PROVE s[m] \in Before(k)
  <2>1. m \in DOMAIN s /\ m # n /\ ~ (n < m)
    BY <1>1, <1>2
  <2>2. s[m] \in Selected /\ s[n] \in Selected /\ s[m] # s[n]
    BY <1>1, <2>1
  <2>3. place[s[m]] # place[s[n]] /\ ~ Precedes(s[n], s[m])
    BY <1>1, <2>1, <2>2
  <2>4. place[s[m]] \in Nat /\ place[s[n]] \in Nat
    BY <1>3, <2>2
  <2> QED
    BY <2>2, <2>3, <2>4 DEF Before, Precedes
<1>5. ASSUME NEW r \in Before(k) PROVE \E m \in D : s[m] = r
  <2>1. r \in Selected /\ Precedes(r, s[n])
    BY DEF Before
  <2>2. PICK m \in DOMAIN s : s[m] = r
    BY <1>1, <2>1
  <2>3. m < n /\ m \in Nat \ {0}
    BY <1>1, <2>1, <2>2
  <2> QED
    BY <1>2, <2>2, <2>3
<1>6. \A i, j \in D : s[i] = s[j] => i = j
  BY <1>1, <1>2
<1>7. IsFiniteSet(D) /\ Cardinality(D) = n - 1
  <2>1. n - 1 \in Nat /\ n - 1 \in Int /\ 1 \in Int
    BY <1>2
  <2> DEFINE m == n - 1
  <2>2. m \in Nat /\ m \in Int
    BY <2>1
  <2> HIDE DEF m
  <2>3. IsFiniteSet(1..m) /\ Cardinality(1..m) = IF 1 > m THEN 0 ELSE m - 1 + 1
    BY <2>1, <2>2, FS_Interval
  <2>4. IsFiniteSet(1..m) /\ Cardinality(1..m) = m
    BY <2>2, <2>3
  <2> QED
    BY <2>4 DEF m
<1> HIDE DEF D, k
<1>8. b \in Bijection(D, Before(k))
  BY <1>4, <1>5, <1>6 DEF Bijection, Injection, Surjection, IsInjective
<1>9. ExistsBijection(D, Before(k))
  BY <1>8 DEF ExistsBijection
<1> QED
  BY <1>7, <1>9, FS_Bijection DEF k

Upto(a, b) == IF a <= b THEN a ELSE b

LEMMA MinOfTwo ==
  ASSUME NEW a \in Nat, NEW b \in Nat PROVE Min({a, b}) = Upto(a, b)
<1>1. Upto(a, b) \in {a, b} /\ \A y \in {a, b} : Upto(a, b) <= y
  BY DEF Upto
<1>2. \A x \in {a, b} : (\A y \in {a, b} : x <= y) => x = Upto(a, b)
  BY DEF Upto
<1> QED
  BY <1>1, <1>2 DEF Min

\* The rows that OFFSET and LIMIT leave of an order.
RowsOf(s) == SubSeq(s, Offset + 1, Min({Offset + PageSize, Len(s)}))

LEMMA RowsOfPage ==
  ASSUME NEW s \in Orders, page \in Nat \ {0}
  PROVE  /\ RowsOf(s) \in Seq(Selected)
         /\ Len(s) = Cardinality(Selected) /\ Len(s) \in Nat /\ Offset \in Nat
         /\ Len(RowsOf(s)) = IF Offset + PageSize <= Len(s) THEN PageSize
                             ELSE IF Offset <= Len(s) THEN Len(s) - Offset ELSE 0
         /\ \A n \in DOMAIN RowsOf(s) : Offset + n \in DOMAIN s /\ RowsOf(s)[n] = s[Offset + n]
         /\ \A m \in DOMAIN s : m > Offset /\ m <= Offset + PageSize =>
              m - Offset \in DOMAIN RowsOf(s) /\ RowsOf(s)[m - Offset] = s[m]
<1> DEFINE O == Offset
           L == Len(s)
           H == Upto(O + PageSize, L)
           rows == SubSeq(s, O + 1, H)
<1>1. s \in Seq(Selected) /\ L = Cardinality(Selected) /\ L \in Nat /\ DOMAIN s = 1..L
  BY OrdersList
<1>2. O \in Nat /\ PageSize \in Nat \ {0}
  BY OffsetOfPage, BoundsAssumption DEF Offset
<1>3. RowsOf(s) = rows
  <2>1. O + PageSize \in Nat
    BY <1>2
  <2>2. Min({O + PageSize, L}) = H
    BY <1>1, <2>1, MinOfTwo
  <2> QED
    BY <2>2 DEF RowsOf
<1> HIDE DEF O, L
<1>4. H \in Nat /\ H <= L /\ H <= O + PageSize /\ (H = L \/ H = O + PageSize)
  BY <1>1, <1>2 DEF Upto
<1> DEFINE len == IF O <= H THEN H - O ELSE 0
<1>5. len \in Nat /\ (H + 1) - (O + 1) = H - O
  BY <1>2, <1>4
<1>6. \A n \in 1..len : O + n \in 1..L /\ n \in 1..(H - (O + 1) + 1) /\ (O + 1) + n - 1 = O + n
  BY <1>1, <1>2, <1>4
<1>7. /\ rows \in Seq(Selected)
      /\ Len(rows) = IF O + 1 <= H THEN H - (O + 1) + 1 ELSE 0
      /\ \A n \in 1..(H - (O + 1) + 1) : rows[n] = s[(O + 1) + n - 1]
  <2>1. \A n \in (O + 1)..H : s[n] \in Selected
    BY <1>1, <1>2, <1>4
  <2>2. O + 1 \in Int /\ H \in Int
    BY <1>2, <1>4
  <2> HIDE DEF H
  <2> QED
    BY <2>1, <2>2, SubSeqProperties
<1> HIDE DEF rows, H
<1>8. rows \in Seq(Selected) /\ Len(rows) = len /\ DOMAIN rows = 1..len
  <2>1. Len(rows) = len
    BY <1>2, <1>4, <1>7
  <2> QED
    BY <1>7, <2>1
<1>9. len = IF O + PageSize <= L THEN PageSize ELSE IF O <= L THEN L - O ELSE 0
  BY <1>1, <1>2, <1>4 DEF H, Upto
<1>10. \A n \in DOMAIN rows : O + n \in DOMAIN s /\ rows[n] = s[O + n]
  BY <1>1, <1>6, <1>7, <1>8
<1>11. ASSUME NEW m \in DOMAIN s, m > O, m <= O + PageSize
       PROVE  m - O \in DOMAIN rows /\ rows[m - O] = s[m]
  <2>1. m - O \in 1..len /\ O + (m - O) = m
    BY <1>1, <1>2, <1>4, <1>11
  <2> HIDE DEF len
  <2> QED
    BY <1>8, <1>10, <2>1
<1> QED
  BY <1>1, <1>2, <1>3, <1>8, <1>9, <1>10, <1>11 DEF O, L

-----------------------------------------------------------------------------
(* The writers.                                                            *)

LEMMA TablesType ==
  ASSUME TypeOK
  PROVE  /\ place \in [Ids -> Places \cup {Hidden}] /\ version \in [Ids -> 0..MaxVersion]
         /\ \A i \in Ids : place[i] \in Nat /\ version[i] \in Nat
         /\ Own \subseteq Ids /\ Selected \subseteq Own
         /\ MaxVersion \in Nat /\ MaxVersion >= 1
<1>1. place \in [Ids -> Places \cup {Hidden}] /\ version \in [Ids -> 0..MaxVersion]
  BY DEF TypeOK
<1>2. MaxVersion \in Nat /\ MaxVersion >= 1
  BY BoundsAssumption
<1>3. ASSUME NEW i \in Ids PROVE place[i] \in Nat
  <2>1. place[i] \in Places \cup {0}
    BY <1>1 DEF Hidden
  <2>2. Places \cup {0} \subseteq Nat
    BY BoundsAssumption
  <2> QED
    BY <2>1, <2>2
<1>4. \A i \in Ids : version[i] \in Nat
  BY <1>1, <1>2
<1>5. Own \subseteq Ids /\ Selected \subseteq Own
  BY IdsAssumption DEF Selected
<1> QED
  BY <1>1, <1>2, <1>3, <1>4, <1>5

\* What a row on a page is made of.
LEMMA ItemsType ==
  ASSUME TypeOK, NEW n \in DOMAIN items
  PROVE  items[n].id \in Ids /\ items[n].version \in 1..MaxVersion /\ items[n].version \in Nat
<1>1. items[n] \in [id : Ids, version : 1..MaxVersion]
  <2> DEFINE R == [id : Ids, version : 1..MaxVersion]
  <2>1. items \in Seq(R)
    BY DEF TypeOK
  <2> HIDE DEF R
  <2>2. items[n] \in R
    BY <2>1
  <2> QED
    BY <2>2 DEF R
<1>2. items[n].id \in Ids /\ items[n].version \in 1..MaxVersion
  BY <1>1
<1> QED
  BY <1>2, BoundsAssumption

\* What a writer may do without harm: rows grow newer, a row that leaves the
\* selection while a page is being made has departed, and one that is not
\* disturbed stays selected, alone in its place and behind those before it.
LEMMA WriteKeepsInv ==
  ASSUME Inv, UNCHANGED <<pc, answer, seen, atStart>>,
         place' \in [Ids -> Places \cup {Hidden}], version' \in [Ids -> 0..MaxVersion],
         \A i \in Ids : version[i] <= version'[i],
         disturbed \subseteq disturbed', disturbed' \subseteq atStart,
         departed \subseteq departed', departed' \subseteq Own,
         pc = "select" => Selected \subseteq Selected' \cup departed',
         pc # "select" => departed' = departed,
         \A k \in atStart \ disturbed' :
           k \in Selected =>
             /\ k \in Selected'
             /\ (\A i \in Selected \ {k} : place[i] # place[k]) =>
                  \A i \in Selected' \ {k} : place'[i] # place'[k]
             /\ Before(k) \subseteq Before(k)'
  PROVE  Inv'
<1>1. /\ pc' = pc /\ page' = page /\ total' = total /\ items' = items /\ related' = related
      /\ seen' = seen /\ atStart' = atStart /\ Offset' = Offset /\ TotalPages' = TotalPages
  BY DEF answer, Offset, TotalPages
<1>2. TypeOK'
  BY <1>1 DEF Inv, TypeOK
<1>3. Answers'
  <2>1. ASSUME NEW n \in DOMAIN items
        PROVE  items[n].id \in Own /\ items[n].version <= version'[items[n].id]
    <3>1. /\ items[n].id \in Own /\ items[n].version <= version[items[n].id]
          /\ items[n].version \in Nat
      BY ItemsType DEF Inv, Answers
    <3>2. /\ version[items[n].id] \in Nat /\ version'[items[n].id] \in Nat
          /\ version[items[n].id] <= version'[items[n].id]
      BY <3>1, IdsAssumption, BoundsAssumption DEF Inv, TypeOK
    <3> QED
      BY <3>1, <3>2
  <2> QED
    BY <1>1, <2>1 DEF Inv, Answers
<1>4. PagesExist'
  BY <1>1 DEF Inv, PagesExist
<1>5. Counted'
  <2> SUFFICES ASSUME pc = "select" PROVE total <= Cardinality(Selected' \cup departed')
    BY <1>1 DEF Counted
  <2>1. total <= Cardinality(Selected \cup departed) /\ total \in Nat
    BY RowsFinite DEF Inv, Counted, TypeOK
  <2> DEFINE T == Selected' \cup departed'
             S == Selected \cup departed
  <2>2. T \in SUBSET Own /\ S \in SUBSET T
    BY DEF Selected
  <2> HIDE DEF T, S
  <2>3. Cardinality(S) <= Cardinality(T) /\ Cardinality(S) \in Nat /\ Cardinality(T) \in Nat
    BY <2>2, MoreRows, RowsFinite
  <2>4. total <= Cardinality(T)
    BY <2>1, <2>3 DEF S
  <2> QED
    BY <2>4 DEF T
<1>6. PagesHoldTheTotal'
  BY <1>1 DEF Inv, PagesHoldTheTotal
<1>7. Walk'
  <2>1. pc' = "idle" \/ page' = 0 => atStart' = {}
    BY <1>1 DEF Inv, Walk
  <2>2. ASSUME NEW k \in atStart \ disturbed'
        PROVE  /\ k \in Selected'
               /\ \A i \in Selected' \ {k} : place'[i] # place'[k]
               /\ k \notin seen =>
                    /\ pc = "select" => Cardinality(Before(k)') >= Offset
                    /\ pc \in {"relate", "answered"} =>
                         Len(items) = PageSize /\ Cardinality(Before(k)') >= Offset + PageSize
    <3>1. /\ k \in Selected /\ (\A i \in Selected \ {k} : place[i] # place[k])
          /\ k \notin seen =>
               /\ pc = "select" => Cardinality(Before(k)) >= Offset
               /\ pc \in {"relate", "answered"} =>
                    Len(items) = PageSize /\ Cardinality(Before(k)) >= Offset + PageSize
      BY DEF Inv, Walk
    <3>2. /\ k \in Selected' /\ (\A i \in Selected' \ {k} : place'[i] # place'[k])
          /\ Before(k) \subseteq Before(k)'
      BY <3>1
    <3> DEFINE S == Before(k)
               T == Before(k)'
    <3>3. T \in SUBSET Own /\ S \in SUBSET T
      BY <3>2 DEF Before, Selected
    <3> HIDE DEF S, T
    <3>4. Cardinality(S) <= Cardinality(T) /\ Cardinality(S) \in Nat /\ Cardinality(T) \in Nat
      BY <3>3, MoreRows, RowsFinite
    <3>5. Offset \in Int /\ PageSize \in Nat
      BY BoundsAssumption, RowsFinite DEF Inv, TypeOK, Offset
    <3>6. \A n \in Int : Cardinality(S) >= n => Cardinality(T) >= n
      BY <3>4
    <3>7. /\ Cardinality(S) >= Offset => Cardinality(T) >= Offset
          /\ Cardinality(S) >= Offset + PageSize => Cardinality(T) >= Offset + PageSize
      BY <3>5, <3>6
    <3> QED
      BY <3>1, <3>2, <3>7 DEF S, T
  <2> QED
    BY <1>1, <2>1, <2>2 DEF Walk
<1> QED
  BY <1>2, <1>3, <1>4, <1>5, <1>6, <1>7 DEF Inv

LEMMA CreateInv ==
  ASSUME Inv, NEW new \in SUBSET Ids, Create(new) PROVE Inv'
<1>1. PICK p \in [new -> Places \cup {Hidden}] :
        place' = [i \in Ids |-> IF i \in new THEN p[i] ELSE place[i]]
  BY DEF Create
<1>2. /\ version' = [i \in Ids |-> IF i \in new THEN 1 ELSE version[i]]
      /\ \A i \in new : ~ Exists(i)
      /\ disturbed' = disturbed \cup
           {i \in atStart : \E k \in new \cap Own : place'[k] = place[i]}
      /\ UNCHANGED <<pc, answer, seen, atStart, departed>>
  BY DEF Create
<1>3. /\ place \in [Ids -> Places \cup {Hidden}] /\ version \in [Ids -> 0..MaxVersion]
      /\ \A i \in Ids : version[i] \in Nat
      /\ Own \subseteq Ids /\ Selected \subseteq Own /\ 1 \in 0..MaxVersion
  BY TablesType DEF Inv
<1>4. place' \in [Ids -> Places \cup {Hidden}] /\ version' \in [Ids -> 0..MaxVersion]
  BY <1>1, <1>2, <1>3
<1>5. ASSUME NEW i \in Ids PROVE version[i] <= version'[i]
  <2>1. CASE i \in new
    <3>1. version[i] = 0
      BY <1>2, <1>3, <2>1 DEF Exists
    <3> QED
      BY <1>2, <2>1, <3>1
  <2>2. CASE i \notin new
    BY <1>2, <1>3, <2>2
  <2> QED
    BY <2>1, <2>2
<1>6. ASSUME NEW i \in Selected
      PROVE  i \notin new /\ i \in Selected' /\ place'[i] = place[i]
  <2>1. i \in Ids /\ i \notin new
    BY <1>2, <1>3 DEF Selected
  <2>2. place'[i] = place[i] /\ version'[i] = version[i]
    BY <1>1, <1>2, <2>1
  <2> QED
    BY <2>1, <2>2 DEF Selected, Exists
<1>7. ASSUME NEW k \in atStart \ disturbed', k \in Selected
      PROVE  /\ k \in Selected'
             /\ (\A i \in Selected \ {k} : place[i] # place[k]) =>
                  \A i \in Selected' \ {k} : place'[i] # place'[k]
             /\ Before(k) \subseteq Before(k)'
  <2>1. k \in Selected' /\ place'[k] = place[k]
    BY <1>6, <1>7
  <2>2. ASSUME \A i \in Selected \ {k} : place[i] # place[k], NEW i \in Selected' \ {k}
        PROVE  place'[i] # place'[k]
    <3>1. CASE i \in new
      BY <1>2, <2>1, <3>1 DEF Selected
    <3>2. CASE i \notin new
      <4>1. i \in Ids /\ place'[i] = place[i] /\ version'[i] = version[i]
        BY <1>1, <1>2, <1>3, <3>2 DEF Selected
      <4>2. i \in Selected
        BY <4>1 DEF Selected, Exists
      <4> QED
        BY <2>1, <2>2, <4>1, <4>2
    <3> QED
      BY <3>1, <3>2
  <2>3. ASSUME NEW i \in Before(k) PROVE i \in Before(k)'
    <3>1. i \in Selected /\ place[i] < place[k]
      BY DEF Before, Precedes
    <3>2. i \in Selected' /\ place'[i] < place'[k]
      BY <1>6, <2>1, <3>1
    <3> QED
      BY <3>2 DEF Before, Precedes
  <2> QED
    BY <2>1, <2>2, <2>3
<1>8. disturbed' \subseteq atStart /\ departed' \subseteq Own /\ departed' = departed
  BY <1>2 DEF Inv, TypeOK
<1>9. Selected \subseteq Selected'
  BY <1>6
<1> QED
  BY <1>2, <1>4, <1>5, <1>7, <1>8, <1>9, WriteKeepsInv

LEMMA ChangeInv ==
  ASSUME Inv, NEW i \in Ids, Change(i) PROVE Inv'
<1> DEFINE moved == place'[i] # place[i]
<1>1. PICK p \in Places \cup {Hidden} : place' = [place EXCEPT ![i] = p]
  BY DEF Change
<1>2. /\ Exists(i) /\ version[i] < MaxVersion /\ version' = [version EXCEPT ![i] = @ + 1]
      /\ disturbed' =
           IF ~ moved \/ i \notin Own THEN disturbed
           ELSE disturbed \cup {k \in atStart :
                  \/ k = i \/ place'[k] = place'[i]
                  \/ Precedes(i, k) /\ place[i] # Hidden /\ place'[i] \notin 1..(place[k] - 1)}
      /\ departed' = IF moved /\ i \in Selected /\ pc = "select"
                     THEN departed \cup {i} ELSE departed
      /\ UNCHANGED <<pc, answer, seen, atStart>>
  BY DEF Change
<1>3. /\ place \in [Ids -> Places \cup {Hidden}] /\ version \in [Ids -> 0..MaxVersion]
      /\ \A k \in Ids : place[k] \in Nat /\ version[k] \in Nat
      /\ Own \subseteq Ids /\ Selected \subseteq Own /\ MaxVersion \in Nat
  BY TablesType DEF Inv
<1>4. /\ place' \in [Ids -> Places \cup {Hidden}] /\ version' \in [Ids -> 0..MaxVersion]
      /\ place'[i] = p /\ version'[i] = version[i] + 1
      /\ \A k \in Ids \ {i} : place'[k] = place[k] /\ version'[k] = version[k]
  BY <1>1, <1>2, <1>3
<1>5. \A k \in Ids : version[k] <= version'[k]
  BY <1>3, <1>4
<1>6. \A k \in Own : (~ moved \/ k # i) => (k \in Selected' <=> k \in Selected)
  BY <1>2, <1>3, <1>4 DEF Selected, Exists
<1>7. \A k \in Own : k \in Selected' => k \in Own
  OBVIOUS
<1>8. Selected' \subseteq Own
  BY DEF Selected
<1>9. pc = "select" => Selected \subseteq Selected' \cup departed'
  BY <1>2, <1>3, <1>6
<1>10. /\ disturbed \subseteq disturbed' /\ disturbed' \subseteq atStart
       /\ departed \subseteq departed' /\ departed' \subseteq Own
       /\ pc # "select" => departed' = departed
  BY <1>2, <1>3 DEF Inv, TypeOK
<1>11. ASSUME NEW k \in atStart \ disturbed', k \in Selected
       PROVE  /\ k \in Selected'
              /\ (\A j \in Selected \ {k} : place[j] # place[k]) =>
                   \A j \in Selected' \ {k} : place'[j] # place'[k]
              /\ Before(k) \subseteq Before(k)'
  <2>1. CASE ~ moved \/ i \notin Own
    <3>1. \A j \in Own : place'[j] = place[j] /\ (j \in Selected' <=> j \in Selected)
      BY <1>3, <1>4, <1>6, <2>1
    <3>2. \A j \in Selected : j \in Selected' /\ place'[j] = place[j]
      BY <1>3, <3>1
    <3>3. \A j \in Selected' : j \in Selected /\ place'[j] = place[j]
      BY <1>8, <3>1
    <3>4. k \in Selected' /\ place'[k] = place[k]
      BY <1>11, <3>2
    <3>5. \A j \in Before(k) : j \in Before(k)'
      BY <3>2, <3>4 DEF Before, Precedes
    <3> QED
      BY <3>3, <3>4, <3>5
  <2>2. CASE moved /\ i \in Own
    <3>1. /\ k # i /\ place'[k] # place'[i]
          /\ ~ (Precedes(i, k) /\ place[i] # Hidden /\ place'[i] \notin 1..(place[k] - 1))
      BY <1>2, <1>11, <2>2
    <3>2. \A j \in Selected \ {i} : j \in Selected' /\ place'[j] = place[j]
      BY <1>3, <1>4, <1>6
    <3>3. \A j \in Selected' \ {i} : j \in Selected /\ place'[j] = place[j]
      BY <1>3, <1>4, <1>6, <1>8
    <3>4. k \in Selected' /\ place'[k] = place[k]
      BY <1>11, <3>1, <3>2
    <3>5. ASSUME NEW j \in Before(k) PROVE j \in Before(k)'
      <4>1. j \in Selected /\ place[j] < place[k]
        BY DEF Before, Precedes
      <4>2. CASE j # i
        BY <3>2, <3>4, <4>1, <4>2 DEF Before, Precedes
      <4>3. CASE j = i
        <5>1. Precedes(i, k) /\ place[i] # Hidden /\ Exists(i)
          BY <4>1, <4>3 DEF Precedes, Selected
        <5>2. place'[i] \in 1..(place[k] - 1)
          BY <3>1, <5>1
        <5>3. place'[i] < place'[k] /\ place'[i] # Hidden
          BY <1>3, <1>11, <3>4, <5>2 DEF Hidden
        <5>4. version'[i] > 0
          BY <1>3, <1>4
        <5>5. i \in Selected'
          BY <2>2, <5>3, <5>4 DEF Selected, Exists
        <5> QED
          BY <4>3, <5>3, <5>5 DEF Before, Precedes
      <4> QED
        BY <4>2, <4>3
    <3>6. ASSUME \A j \in Selected \ {k} : place[j] # place[k], NEW j \in Selected' \ {k}
          PROVE  place'[j] # place'[k]
      BY <3>1, <3>3, <3>4, <3>6
    <3> QED
      BY <3>4, <3>5, <3>6
  <2> QED
    BY <2>1, <2>2
<1> QED
  BY <1>2, <1>4, <1>5, <1>9, <1>10, <1>11, WriteKeepsInv

-----------------------------------------------------------------------------
(* The handlers.                                                           *)

\* Statements that read leave rows, order and selection as they are.
LEMMA TableUnchanged ==
  ASSUME UNCHANGED table
  PROVE  /\ Selected' = Selected /\ \A k : Before(k)' = Before(k)
         /\ place' = place /\ version' = version
BY DEF table, Selected, Exists, Before, Precedes

LEMMA CountInv ==
  ASSUME Inv, NEW p \in 1..(Cardinality(Own) + 1), CountRows(p),
         atStart' \subseteq Own, seen' \subseteq Own, disturbed' \subseteq atStart',
         \A k \in atStart' \ disturbed' :
           /\ k \in Selected
           /\ \A i \in Selected \ {k} : place[i] # place[k]
           /\ k \notin seen' => Cardinality(Before(k)) >= (p - 1) * PageSize
  PROVE  Inv'
<1>1. /\ total' = Cardinality(Selected) /\ page' = p /\ pc' = "select" /\ departed' = {}
      /\ UNCHANGED <<table, items, related>>
  BY DEF CountRows
<1>2. /\ Selected' = Selected /\ \A k : Before(k)' = Before(k)
      /\ place' = place /\ version' = version
  BY <1>1, TableUnchanged
<1>3. Selected \in SUBSET Own
  BY DEF Selected
<1>4. /\ Cardinality(Selected) \in 0..Cardinality(Own) /\ Cardinality(Own) \in Nat
  BY <1>3, RowsFinite
<1>5. p \in Nat /\ p > 0 /\ p \in 0..(Cardinality(Own) + 1)
  BY <1>4
<1>6. TypeOK'
  BY <1>1, <1>2, <1>4, <1>5 DEF Inv, TypeOK
<1>7. Answers'
  BY <1>1, <1>2 DEF Inv, Answers
<1>8. PagesExist' /\ PagesHoldTheTotal'
  BY <1>1, <1>5 DEF PagesExist, PagesHoldTheTotal
<1>9. Counted'
  <2>1. Selected \cup {} = Selected /\ Cardinality(Selected) <= Cardinality(Selected)
    BY <1>4
  <2> QED
    BY <1>1, <1>2, <2>1 DEF Counted
<1>10. Walk'
  <2>1. Offset' = (p - 1) * PageSize
    BY <1>1 DEF Offset
  <2> QED
    BY <1>1, <1>2, <1>5, <2>1 DEF Walk
<1> QED
  BY <1>6, <1>7, <1>8, <1>9, <1>10 DEF Inv

LEMMA FirstPageInv ==
  ASSUME Inv, FirstPage PROVE Inv'
<1>1. /\ CountRows(1) /\ seen' = {} /\ atStart' = Selected
      /\ disturbed' = SharePlace(Selected)
  BY DEF FirstPage
<1>2. Selected \in SUBSET Own /\ SharePlace(Selected) \subseteq Selected
  BY DEF Selected, SharePlace
<1>3. 1 \in 1..(Cardinality(Own) + 1)
  BY <1>2, RowsFinite
<1>4. (1 - 1) * PageSize = 0
  BY BoundsAssumption
<1>5. ASSUME NEW k \in Selected \ SharePlace(Selected)
      PROVE  /\ \A i \in Selected \ {k} : place[i] # place[k]
             /\ Cardinality(Before(k)) >= 0
  <2>1. Before(k) \in SUBSET Own
    BY <1>2 DEF Before
  <2>2. Cardinality(Before(k)) >= 0
    BY <2>1, RowsFinite
  <2> QED
    BY <2>2 DEF SharePlace
<1> QED
  BY <1>1, <1>2, <1>3, <1>4, <1>5, CountInv

LEMMA NextPageInv ==
  ASSUME Inv, NextPage PROVE Inv'
<1>1. /\ pc = "answered" /\ page > 0 /\ Len(items) = PageSize
      /\ CountRows(page + 1) /\ UNCHANGED <<seen, atStart, disturbed>>
  BY DEF NextPage
<1>2. Cardinality(Own) \in Nat /\ page \in Nat \ {0} /\ PageSize \in Nat \ {0}
  BY <1>1, RowsFinite, BoundsAssumption DEF Inv, TypeOK
<1>3. ((page + 1) - 1) * PageSize = Offset + PageSize /\ page <= Offset + PageSize
  BY <1>2, OffsetOfPage DEF Offset
<1>4. items # <<>>
  BY <1>1, <1>2
<1>5. Offset + PageSize <= Cardinality(Own)
  BY <1>1, <1>4 DEF Inv, PagesExist
<1>6. page + 1 \in 1..(Cardinality(Own) + 1)
  BY <1>2, <1>3, <1>5, OffsetOfPage DEF Offset
<1>7. /\ atStart' \subseteq Own /\ seen' \subseteq Own /\ disturbed' \subseteq atStart'
  BY <1>1 DEF Inv, TypeOK
<1>8. ASSUME NEW k \in atStart \ disturbed
      PROVE  /\ k \in Selected
             /\ \A i \in Selected \ {k} : place[i] # place[k]
             /\ k \notin seen => Cardinality(Before(k)) >= ((page + 1) - 1) * PageSize
  BY <1>1, <1>3 DEF Inv, Walk
<1> QED
  BY <1>1, <1>6, <1>7, <1>8, CountInv

\* The page that an order gives: its rows, and how many there are.
LEMMA PageRead ==
  ASSUME Inv, NEW s \in Orders, page \in Nat \ {0},
         items' = [n \in DOMAIN RowsOf(s) |-> Read(RowsOf(s)[n])]
  PROVE  /\ items' \in Seq([id : Ids, version : 1..MaxVersion])
         /\ Len(items') = Len(RowsOf(s)) /\ DOMAIN items' = DOMAIN RowsOf(s)
         /\ ToSet(RowsOf(s)) \subseteq Selected
         /\ \A n \in DOMAIN items' :
              /\ items'[n].id = s[Offset + n] /\ items'[n].id \in Selected
              /\ items'[n].version = version[items'[n].id]
         /\ \A m, n \in DOMAIN items' : items'[m].id = items'[n].id => m = n
<1> DEFINE rows == RowsOf(s)
           R == [id : Ids, version : 1..MaxVersion]
<1>1. /\ rows \in Seq(Selected) /\ Offset \in Nat
      /\ \A n \in DOMAIN rows : Offset + n \in DOMAIN s /\ rows[n] = s[Offset + n]
  BY RowsOfPage
<1>2. \A m, n \in DOMAIN s : s[m] = s[n] => m = n
  BY OrdersList
<1>3. items' = [n \in DOMAIN rows |-> Read(rows[n])]
  OBVIOUS
<1> HIDE DEF rows
<1>4. DOMAIN rows = 1..Len(rows) /\ Len(rows) \in Nat /\ \A n \in DOMAIN rows : rows[n] \in Selected
  BY <1>1
<1>5. ASSUME NEW k \in Selected PROVE Read(k) \in R
  <2>1. k \in Ids /\ version[k] \in 0..MaxVersion /\ version[k] > 0
    BY TablesType DEF Inv, Selected, Exists
  <2>2. version[k] \in 1..MaxVersion
    BY <2>1, BoundsAssumption
  <2> QED
    BY <2>1, <2>2 DEF Read
<1> HIDE DEF R
<1>6. DOMAIN items' = 1..Len(rows) /\ \A n \in 1..Len(rows) : items'[n] \in R
  BY <1>3, <1>4, <1>5
<1>7. items' = [n \in 1..Len(rows) |-> Read(rows[n])]
  BY <1>3, <1>4
<1>8. \A n \in 1..Len(rows) : Read(rows[n]) \in R
  BY <1>4, <1>5
<1>9. items' \in Seq(R) /\ Len(items') = Len(rows)
  BY <1>4, <1>7, <1>8
<1>10. ASSUME NEW n \in DOMAIN items'
       PROVE  /\ items'[n].id = s[Offset + n] /\ items'[n].id \in Selected
              /\ items'[n].version = version[items'[n].id]
  <2>1. n \in DOMAIN rows /\ items'[n] = [id |-> rows[n], version |-> version[rows[n]]]
    BY <1>3 DEF Read
  <2> QED
    BY <1>1, <1>4, <2>1
<1>11. ASSUME NEW m \in DOMAIN items', NEW n \in DOMAIN items', items'[m].id = items'[n].id
       PROVE  m = n
  <2>1. s[Offset + m] = s[Offset + n] /\ Offset + m \in DOMAIN s /\ Offset + n \in DOMAIN s
    BY <1>1, <1>3, <1>10, <1>11
  <2>2. Offset + m = Offset + n
    BY <1>2, <2>1
  <2>3. m \in Nat /\ n \in Nat
    BY <1>6
  <2> QED
    BY <1>1, <2>2, <2>3
<1>12. ToSet(rows) \subseteq Selected
  BY <1>4 DEF ToSet
<1> QED
  BY <1>3, <1>9, <1>10, <1>11, <1>12 DEF R, rows

LEMMA SelectPageInv ==
  ASSUME Inv, SelectPage PROVE Inv'
<1>1. PICK s \in Orders :
        /\ items' = [n \in DOMAIN RowsOf(s) |-> Read(RowsOf(s)[n])]
        /\ seen' = seen \cup ToSet(RowsOf(s))
  BY DEF SelectPage, RowsOf
<1>2. /\ pc = "select" /\ pc' = "relate"
      /\ UNCHANGED <<table, page, total, related, atStart, disturbed, departed>>
  BY DEF SelectPage
<1>3. /\ Selected' = Selected /\ (\A k : Before(k)' = Before(k))
      /\ place' = place /\ version' = version /\ Offset' = Offset /\ TotalPages' = TotalPages
  BY <1>2, TableUnchanged DEF Offset, TotalPages
<1>4. page \in Nat \ {0}
  BY <1>2, RowsFinite DEF Inv, TypeOK, PagesExist
<1> DEFINE N == Cardinality(Selected)
           len == Len(items')
<1>5. /\ items' \in Seq([id : Ids, version : 1..MaxVersion])
      /\ ToSet(RowsOf(s)) \subseteq Selected
      /\ \A n \in DOMAIN items' :
           /\ items'[n].id = s[Offset + n] /\ items'[n].id \in Selected
           /\ items'[n].version = version[items'[n].id]
      /\ \A m, n \in DOMAIN items' : items'[m].id = items'[n].id => m = n
  BY <1>1, <1>4, PageRead
<1>6. /\ len = IF Offset + PageSize <= N THEN PageSize ELSE IF Offset <= N THEN N - Offset ELSE 0
      /\ Offset \in Nat
  BY <1>1, <1>4, PageRead, RowsOfPage
<1>7. Selected \in SUBSET Own
  BY DEF Selected
<1>8. /\ N \in Nat /\ N <= Cardinality(Own) /\ Cardinality(Own) \in Nat
      /\ IsFiniteSet(Selected) /\ PageSize \in Nat \ {0}
  BY <1>7, RowsFinite, BoundsAssumption
<1>9. TypeOK'
  BY <1>2, <1>3, <1>1, <1>5, <1>7 DEF Inv, TypeOK
<1>10. Answers'
  <2>1. ASSUME NEW n \in DOMAIN items'
        PROVE  items'[n].id \in Own /\ items'[n].version <= version[items'[n].id]
    <3>1. /\ items'[n].id \in Own /\ items'[n].id \in Ids
          /\ items'[n].version = version[items'[n].id]
      BY <1>5, <1>7, IdsAssumption
    <3>2. version[items'[n].id] \in Nat
      BY <3>1, TablesType DEF Inv
    <3> QED
      BY <3>1, <3>2
  <2> QED
    BY <1>2, <1>3, <1>5, <2>1 DEF Answers
<1>11. items' = <<>> \/ Offset + len <= N
  <2>1. len = 0 => items' = <<>>
    BY <1>5
  <2> HIDE DEF len, N
  <2>2. len = 0 \/ Offset + len <= N
    BY <1>6, <1>8
  <2> QED
    BY <2>1, <2>2
<1>12. PagesExist'
  <2>1. len \in Nat
    BY <1>5
  <2>2. items' = <<>> \/ Offset + len <= Cardinality(Own)
    BY <1>6, <1>8, <1>11, <2>1
  <2> QED
    BY <1>2, <1>3, <2>2 DEF PagesExist
<1>13. total \in Nat /\ total <= N + Cardinality(departed) /\ Cardinality(departed) \in Nat
  <2>1. departed \in SUBSET Own /\ total \in Nat /\ total <= Cardinality(Selected \cup departed)
    BY <1>2, <1>8 DEF Inv, TypeOK, Counted
  <2>2. IsFiniteSet(departed) /\ Cardinality(departed) \in Nat
    BY <2>1, RowsFinite
  <2>3. /\ Cardinality(Selected \cup departed) =
             N + Cardinality(departed) - Cardinality(Selected \cap departed)
        /\ Cardinality(Selected \cap departed) \in Nat
    BY <1>8, <2>2, FS_Union, FS_Intersection, FS_CardinalityType
  <2> QED
    BY <1>8, <2>1, <2>2, <2>3
<1>14. PagesHoldTheTotal'
  <2> DEFINE D == Cardinality(departed)
  <2>1. len = PageSize \/ Offset + len + D >= total
    <3> HIDE DEF len, N, D
    <3> QED
      BY <1>6, <1>8, <1>13 DEF D
  <2>2. ASSUME page <= TotalPages, departed = {} PROVE items' # <<>>
    <3>1. Offset < total
      BY <1>4, <1>13, <2>2, PageWithinTotal DEF Offset, TotalPages
    <3>2. D = 0
      BY <2>2, FS_EmptySet
    <3>3. Offset < N
      <4> HIDE DEF N, D
      <4> QED
        BY <1>6, <1>8, <1>13, <3>1, <3>2 DEF D
    <3>4. len > 0
      <4> HIDE DEF len, N
      <4> QED
        BY <1>6, <1>8, <3>3
    <3> QED
      BY <3>4
  <2> QED
    BY <1>2, <1>3, <2>1, <2>2 DEF PagesHoldTheTotal
<1>15. Walk'
  <2>1. atStart' = atStart /\ disturbed' = disturbed /\ page' # 0 /\ pc' # "idle"
    BY <1>2, <1>4
  <2>2. ASSUME NEW k \in atStart \ disturbed
        PROVE  /\ k \in Selected
               /\ \A i \in Selected \ {k} : place[i] # place[k]
               /\ k \notin seen' =>
                    len = PageSize /\ Cardinality(Before(k)) >= Offset + PageSize
    <3>1. /\ k \in Selected /\ (\A i \in Selected \ {k} : place[i] # place[k])
          /\ k \notin seen => Cardinality(Before(k)) >= Offset
      BY <1>2 DEF Inv, Walk
    <3>2. ASSUME k \notin seen'
          PROVE  len = PageSize /\ Cardinality(Before(k)) >= Offset + PageSize
      <4>1. Cardinality(Before(k)) >= Offset
        BY <1>1, <3>1, <3>2
      <4>2. PICK n \in DOMAIN s : s[n] = k
        BY <3>1, OrdersList
      <4>3. place \in [Ids -> Places \cup {Hidden}]
        BY DEF Inv, TypeOK
      <4>4. Cardinality(Before(k)) = n - 1
        BY <3>1, <4>2, <4>3, PositionOfRow
      <4>5. n \in Nat \ {0} /\ n <= N /\ Len(s) = N
        BY <4>2, OrdersList
      <4>6. n > Offset
        BY <1>6, <4>1, <4>4, <4>5
      <4>7. ~ (n <= Offset + PageSize)
        <5> SUFFICES ASSUME n <= Offset + PageSize PROVE FALSE
          OBVIOUS
        <5>1. n - Offset \in DOMAIN RowsOf(s) /\ RowsOf(s)[n - Offset] = k
          BY <1>4, <4>2, <4>6, RowsOfPage
        <5>2. k \in ToSet(RowsOf(s))
          BY <5>1 DEF ToSet
        <5> QED
          BY <1>1, <3>2, <5>2
      <4> HIDE DEF len, N
      <4> QED
        BY <1>6, <1>8, <4>4, <4>5, <4>7
    <3> QED
      BY <3>1, <3>2
  <2> QED
    BY <1>2, <1>3, <2>1, <2>2 DEF Walk
<1>16. Counted'
  BY <1>2 DEF Counted
<1> QED
  BY <1>9, <1>10, <1>12, <1>14, <1>15, <1>16 DEF Inv

LEMMA LoadRelatedInv ==
  ASSUME Inv, LoadRelated PROVE Inv'
<1>1. /\ pc = "relate" /\ pc' = "answered"
      /\ related' = [n \in DOMAIN items |-> version[items[n].id]]
      /\ UNCHANGED <<table, page, total, items, history>>
  BY DEF LoadRelated
<1>2. /\ Selected' = Selected /\ (\A k : Before(k)' = Before(k))
      /\ place' = place /\ version' = version /\ Offset' = Offset /\ TotalPages' = TotalPages
      /\ seen' = seen /\ atStart' = atStart /\ disturbed' = disturbed /\ departed' = departed
  BY <1>1, TableUnchanged DEF Offset, TotalPages, history
<1>3. ASSUME NEW n \in DOMAIN items
      PROVE  version[items[n].id] \in 1..MaxVersion /\ version[items[n].id] >= items[n].version
  <2>1. /\ items[n].id \in Ids /\ items[n].version \in 1..MaxVersion
        /\ items[n].version <= version[items[n].id]
    BY ItemsType DEF Inv, Answers
  <2>2. version[items[n].id] \in 0..MaxVersion
    BY <2>1, TablesType DEF Inv
  <2> QED
    BY <2>1, <2>2, BoundsAssumption
<1>4. related' \in Seq(1..MaxVersion)
  <2> DEFINE S == 1..MaxVersion
  <2>1. \A n \in DOMAIN items : version[items[n].id] \in S
    BY <1>3
  <2>2. DOMAIN items = 1..Len(items) /\ Len(items) \in Nat
    BY DEF Inv, TypeOK
  <2> HIDE DEF S
  <2>3. related' \in Seq(S)
    BY <1>1, <2>1, <2>2
  <2> QED
    BY <2>3 DEF S
<1>5. TypeOK'
  BY <1>1, <1>2, <1>4 DEF Inv, TypeOK
<1>6. Answers'
  BY <1>1, <1>2, <1>3 DEF Inv, Answers
<1>7. PagesExist' /\ Counted'
  BY <1>1, <1>2 DEF Inv, PagesExist, Counted
<1>8. PagesHoldTheTotal'
  BY <1>1, <1>2 DEF Inv, PagesHoldTheTotal
<1>9. Walk'
  BY <1>1, <1>2 DEF Inv, Walk
<1> QED
  BY <1>5, <1>6, <1>7, <1>8, <1>9 DEF Inv

LEMMA GetRowInv ==
  ASSUME Inv, NEW i \in Ids, GetRow(i) PROVE Inv'
<1>1. /\ pc = "idle" /\ pc' = "relate" /\ page' = 0
      /\ items' = IF i \in Own /\ Exists(i) THEN <<Read(i)>> ELSE <<>>
      /\ UNCHANGED <<table, total, related, history>>
  BY DEF GetRow
<1>2. /\ Selected' = Selected /\ (\A k : Before(k)' = Before(k))
      /\ place' = place /\ version' = version
      /\ seen' = seen /\ atStart' = atStart /\ disturbed' = disturbed /\ departed' = departed
  BY <1>1, TableUnchanged DEF history
<1>3. 0 \in 0..(Cardinality(Own) + 1)
  BY RowsFinite
<1> DEFINE R == [id : Ids, version : 1..MaxVersion]
<1>4. /\ items' \in Seq(R)
      /\ \A m, n \in DOMAIN items' : items'[m].id = items'[n].id => m = n
      /\ \A n \in DOMAIN items' : /\ items'[n].id \in Own
                                  /\ items'[n].version <= version[items'[n].id]
  <2>1. CASE i \in Own /\ Exists(i)
    <3>1. version[i] \in 0..MaxVersion /\ version[i] > 0
      BY <2>1, TablesType DEF Inv, Exists
    <3>2. version[i] \in 1..MaxVersion /\ version[i] <= version[i]
      BY <3>1, BoundsAssumption
    <3> DEFINE r == Read(i)
    <3>3. r \in R /\ r.id = i /\ r.version = version[i]
      BY <3>2 DEF Read
    <3> HIDE DEF r, R
    <3>4. items' = <<r>>
      BY <1>1, <2>1 DEF r
    <3>5. items' \in Seq(R) /\ DOMAIN items' = {1} /\ items'[1] = r
      BY <3>3, <3>4
    <3> QED
      BY <2>1, <3>2, <3>3, <3>5
  <2>2. CASE ~ (i \in Own /\ Exists(i))
    <3> HIDE DEF R
    <3>1. items' = <<>>
      BY <1>1, <2>2
    <3> QED
      BY <3>1
  <2> QED
    BY <2>1, <2>2
<1>5. TypeOK'
  BY <1>1, <1>2, <1>3, <1>4 DEF Inv, TypeOK
<1>6. Answers'
  BY <1>1, <1>2, <1>4 DEF Answers
<1>7. PagesExist' /\ Counted' /\ PagesHoldTheTotal'
  BY <1>1 DEF PagesExist, Counted, PagesHoldTheTotal
<1>8. Walk'
  BY <1>1, <1>2 DEF Inv, Walk
<1> QED
  BY <1>5, <1>6, <1>7, <1>8 DEF Inv

-----------------------------------------------------------------------------
(* The invariant holds, and what follows from it.                          *)

LEMMA InitInv ==
  ASSUME Init PROVE Inv
<1>1. /\ pc = "idle" /\ page = 1 /\ total = 0 /\ items = <<>> /\ related = <<>>
      /\ seen = {} /\ atStart = {} /\ disturbed = {} /\ departed = {}
      /\ place = [i \in Ids |-> Hidden] /\ version = [i \in Ids |-> 0]
  BY DEF Init
<1>2. 1 \in 0..(Cardinality(Own) + 1) /\ 0 \in 0..Cardinality(Own) /\ 0 \in 0..MaxVersion
  BY RowsFinite, BoundsAssumption
<1>3. TypeOK
  BY <1>1, <1>2 DEF TypeOK
<1>4. Answers /\ PagesExist /\ Counted /\ PagesHoldTheTotal /\ Walk
  BY <1>1 DEF Answers, PagesExist, Counted, PagesHoldTheTotal, Walk
<1> QED
  BY <1>3, <1>4 DEF Inv

LEMMA Unchanged ==
  ASSUME Inv, UNCHANGED vars PROVE Inv'
<1>1. /\ Selected' = Selected /\ (\A k : Before(k)' = Before(k))
      /\ place' = place /\ version' = version /\ pc' = pc
      /\ page' = page /\ total' = total /\ items' = items /\ related' = related
      /\ seen' = seen /\ atStart' = atStart /\ disturbed' = disturbed /\ departed' = departed
      /\ Offset' = Offset /\ TotalPages' = TotalPages
  BY TableUnchanged DEF vars, answer, history, Offset, TotalPages
<1> QED
  BY <1>1 DEF Inv, TypeOK, Answers, PagesExist, Counted, PagesHoldTheTotal, Walk

LEMMA Invariance == Spec => []Inv
<1>1. Init => Inv
  BY InitInv
<1>2. Inv /\ [Next]_vars => Inv'
  <2> SUFFICES ASSUME Inv, [Next]_vars PROVE Inv'
    OBVIOUS
  <2>1. CASE Write
    BY <2>1, CreateInv, ChangeInv DEF Write
  <2>2. CASE FirstPage
    BY <2>2, FirstPageInv
  <2>3. CASE NextPage
    BY <2>3, NextPageInv
  <2>4. CASE SelectPage
    BY <2>4, SelectPageInv
  <2>5. CASE LoadRelated
    BY <2>5, LoadRelatedInv
  <2>6. CASE \E i \in Ids : GetRow(i)
    BY <2>6, GetRowInv
  <2>7. CASE UNCHANGED vars
    BY <2>7, Unchanged
  <2> QED
    BY <2>1, <2>2, <2>3, <2>4, <2>5, <2>6, <2>7 DEF Next
<1> QED
  BY <1>1, <1>2, PTL DEF Spec

\* Rows, answers and histories have their ranges, whatever the handlers and the
\* writers do between each other's statements.
THEOREM PaginationTypeCorrect == Spec => []TypeOK
<1>1. Inv => TypeOK
  BY DEF Inv
<1> QED
  BY <1>1, Invariance, PTL

\* A listing and a single row show rows of the tenant only, each once, with related
\* rows no older than the row, although each statement has a snapshot of its own.
THEOREM AnswersStaySound == Spec => []AnswersAreSound
<1>1. ASSUME Inv PROVE AnswersAreSound
  <2>1. items \in Seq([id : Ids, version : 1..MaxVersion])
    BY <1>1 DEF Inv, TypeOK
  <2> DEFINE D == DOMAIN items
             f == [n \in D |-> items[n].id]
             L == Len(items)
  <2>2. D = 1..L /\ L \in Nat
    BY <2>1
  <2>3. IsFiniteSet(D) /\ Cardinality(D) = L
    <3> HIDE DEF L, D
    <3> QED
      BY <2>2, FS_Interval
  <2>4. \A m, n \in D : items[m].id = items[n].id => m = n
    BY <1>1 DEF Inv, Answers
  <2>5. f \in Bijection(D, ReadRows)
    BY <2>4 DEF Bijection, Injection, Surjection, IsInjective, ReadRows
  <2> HIDE DEF D, f, L
  <2>6. Cardinality(ReadRows) = L
    BY <2>3, <2>5, FS_Bijection DEF ExistsBijection
  <2>7. ReadRows \subseteq Own
    BY <1>1 DEF Inv, Answers, ReadRows
  <2> QED
    BY <1>1, <2>6, <2>7 DEF L, Inv, Answers, AnswersAreSound
<1> QED
  BY <1>1, Invariance, PTL

\* A page holds what the total and total_pages of its answer promise, less the rows
\* that were re-ingested out of the selection between COUNT and SELECT.
THEOREM PagesKeepTheTotal == Spec => []PagesHoldTheTotal
<1>1. Inv => PagesHoldTheTotal
  BY DEF Inv
<1> QED
  BY <1>1, Invariance, PTL

\* A client that reads pages until one is not full misses no row that was there
\* when it began and was not disturbed, for any page size and any writes meanwhile.
THEOREM NothingIsMissed == Spec => []NothingMissed
<1>1. ASSUME Inv PROVE NothingMissed
  <2> SUFFICES ASSUME pc = "answered", page > 0, Len(items) < PageSize,
                      NEW k \in atStart \ disturbed, k \notin seen
               PROVE  FALSE
    BY DEF NothingMissed
  <2>1. Len(items) = PageSize
    BY <1>1 DEF Inv, Walk
  <2> QED
    BY <2>1, BoundsAssumption
<1> QED
  BY <1>1, Invariance, PTL
=============================================================================
