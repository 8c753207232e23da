------------------------- MODULE ReadingListsProofs -------------------------
(***************************************************************************)
(* Proofs about ReadingLists, for any submissions, patrons and number of   *)
(* books; what the masks that its lists keep promise, for words of every   *)
(* length and any alphabet; and about BookResolution, the lookups of its   *)
(* references, for any catalog, works, ISBNs and answers of Open Library.  *)
(***************************************************************************)
EXTENDS ReadingLists, BookResolution, FiniteSetTheorems, TLAPS

-----------------------------------------------------------------------------
(* The masks of PII.                                                       *)

\* Two words look alike behind a mask of the first character.
SameInitial(v, w) == Len(v) = Len(w) /\ v[1] = w[1]

\* Two words look alike behind a mask of both ends; below three characters the
\* mask does not even give their number away.
SameEnds(v, w) == \/ Len(v) <= 2 /\ Len(w) <= 2 /\ v[1] = w[1]
                  \/ SameInitial(v, w) /\ v[Len(v)] = w[Len(w)]

\* Lower-casing twice is lower-casing once: the stored hash of an address does
\* not depend on how often it was normalised on the way.
LEMMA LowerIdempotent ==
  ASSUME NEW w \in Seq(Characters)
  PROVE  Lower(w) \in Seq(Characters) /\ Lower(Lower(w)) = Lower(w)
BY LowerCaseAssumption DEF Lower

\* mask_name shows nothing of a word but its first character and its length.
THEOREM NameMaskHides ==
  ASSUME NEW a \in FullNames, NEW b \in FullNames,
         Len(a) = Len(b), \A i \in DOMAIN a : SameInitial(a[i], b[i])
  PROVE  MaskName(a) = MaskName(b)
<1>1. DOMAIN a = DOMAIN b
  BY DEF FullNames
<1>2. ASSUME NEW i \in DOMAIN a
      PROVE  MaskWord(a[i]) = MaskWord(b[i])
  <2>1. a[i] \in Seq(Characters) /\ b[i] \in Seq(Characters)
    BY <1>1, <1>2 DEF FullNames, Words
  <2>2. Len(a[i]) = Len(b[i]) /\ a[i][1] = b[i][1]
    BY <1>2 DEF SameInitial
  <2> QED
    BY <2>1, <2>2 DEF MaskWord
<1> QED
  BY <1>1, <1>2 DEF MaskName

\* The mask of both ends is the same for words that differ in between only.
LEMMA EndsMaskHides ==
  ASSUME NEW v \in Words, NEW w \in Words, SameEnds(v, w)
  PROVE  MaskEnds(v) = MaskEnds(w)
<1>1. v \in Seq(Characters) /\ w \in Seq(Characters)
  BY DEF Words
<1>2. CASE Len(v) <= 2 /\ Len(w) <= 2 /\ v[1] = w[1]
  BY <1>2 DEF MaskEnds
<1>3. CASE SameInitial(v, w) /\ v[Len(v)] = w[Len(w)]
  <2>1. Len(v) = Len(w) /\ v[1] = w[1] /\ v[Len(v)] = w[Len(w)]
    BY <1>3 DEF SameInitial
  <2>2. DOMAIN v = DOMAIN w
    BY <1>1, <2>1
  <2>3. \A i \in {1, Len(v)} : v[i] = w[i]
    BY <2>1
  <2> QED
    BY <2>1, <2>2, <2>3 DEF MaskEnds
<1> QED
  BY <1>2, <1>3 DEF SameEnds

\* mask_email shows nothing of an address but the first and last characters
\* of its two masked words, their lengths above two, and the rest of the domain.
THEOREM EmailMaskHides ==
  ASSUME NEW a \in Addresses, NEW b \in Addresses,
         SameEnds(a.local, b.local), SameEnds(a.domain, b.domain), a.tld = b.tld
  PROVE  MaskEmail(a) = MaskEmail(b)
<1>1. MaskEnds(a.local) = MaskEnds(b.local)
  BY EndsMaskHides DEF Addresses
<1>2. MaskEnds(a.domain) = MaskEnds(b.domain)
  BY EndsMaskHides DEF Addresses
<1> QED
  BY <1>1, <1>2 DEF MaskEmail

-----------------------------------------------------------------------------
(* The invariant.                                                          *)

\* Where a submission stands fits what it found and what it holds.
Stages ==
  \A s \in Subs :
    /\ pc[s] \in {"update", "delete", "deleting"} => isUpdate[s]
    /\ pc[s] \in {"new", "insert", "conflict"} => ~ isUpdate[s]
    /\ pc[s] = "resolve" /\ ~ isUpdate[s] => inserting[Patron[s]] = s
    /\ isUpdate[s] \/ pc[s] = "done" => list[Patron[s]] # NoList

\* An insert holds its key until the list is there; an update holds its row.
Holders ==
  \A p \in Patrons :
    /\ inserting[p] # NoSub => /\ Patron[inserting[p]] = p /\ list[p] = NoList
                               /\ pc[inserting[p]] = "resolve" /\ ~ isUpdate[inserting[p]]
    /\ nameLock[p] # NoSub => pc[nameLock[p]] \in {"delete", "deleting", "resolve"}

Created(s) == pc[s] = "done" /\ ~ isUpdate[s]
Creators ==
  /\ \A s, u \in Subs : Created(s) /\ Created(u) /\ Patron[s] = Patron[u] => s = u
  /\ \A p \in Patrons : list[p] # NoList => \E s \in Subs : Created(s) /\ Patron[s] = p

\* Items come and go with all the items of their submission.
Whole(I) == \A i \in I, k \in Item : k.sub = i.sub => k \in I
WholeSubmissions ==
  /\ \A p \in Patrons : /\ Whole(items[p])
                        /\ \A i \in items[p] : pc[i.sub] = "done" /\ Patron[i.sub] = p
                        /\ list[p] # NoList => items[p] # {}
  /\ \A s \in Subs : Whole(targets[s]) /\ Whole(deleted[s])

\* What was answered before a submission is in its way until its DELETE has seen
\* it, and then gone for good.
Replacing ==
  \A s \in Subs :
    /\ \A u \in before[s] : u \in Rivals(s) /\ pc[u] = "done"
    /\ ~ isUpdate[s] => before[s] = {}
    /\ \A i \in items[Patron[s]] : i.sub \in before[s] =>
         /\ pc[s] = "deleting" => i \in targets[s]
         /\ pc[s] = "resolve" => i \in deleted[s]
         /\ pc[s] # "done"

\* Until a rival is answered, the list has the columns that a submission read,
\* and those it wrote.
Unrivalled(s) == \A u \in Rivals(s) : pc[u] = "done" => u \in before[s]
Columned ==
  \A s \in Subs : Unrivalled(s) =>
    /\ pc[s] \in {"update", "delete", "deleting", "resolve"} /\ isUpdate[s] =>
         list[Patron[s]] = loaded[s]
    /\ pc[s] = "done" =>
         \A c \in {"nameHash", "nameMask"} : list[Patron[s]][c] = Columns(s)[c]

-----------------------------------------------------------------------------
(* Types, stages and locks.                                                *)

LEMMA PatronOf == \A s \in Subs : Patron[s] \in Patrons
BY DEF Patrons

\* The columns that a submission fills make a row, and no row is NoList.
LEMMA RowOf ==
  /\ \A s \in Subs : Columns(s) \in ListRow /\ Columns(s) # NoList
  /\ \A r \in ListRow : r # NoList /\ DOMAIN r = {"nameHash", "nameMask", "emailMask"}
<1>1. \A s \in Subs : Columns(s) \in ListRow
  BY DEF ListRow, Columns
<1>2. \A r \in ListRow : r # NoList
  BY NoListAssumption
<1>3. \A r \in ListRow : DOMAIN r = {"nameHash", "nameMask", "emailMask"}
  BY DEF ListRow
<1> QED
  BY <1>1, <1>2, <1>3

\* What the UPDATE of s makes of a row.
Renamed(s, r) == [c \in DOMAIN r |-> IF c \in Changed(s) THEN Columns(s)[c] ELSE r[c]]

LEMMA RenamedRow ==
  ASSUME NEW s \in Subs, NEW r \in ListRow
  PROVE  Renamed(s, r) \in ListRow
<1>1. DOMAIN r = {"nameHash", "nameMask", "emailMask"} /\ Columns(s) \in ListRow
  BY RowOf
<1>2. \A c \in {"nameHash", "nameMask", "emailMask"} :
         Renamed(s, r)[c] = Columns(s)[c] \/ Renamed(s, r)[c] = r[c]
  BY <1>1 DEF Renamed
<1>3. Renamed(s, r) = [nameHash |-> Renamed(s, r).nameHash,
                       nameMask |-> Renamed(s, r).nameMask,
                       emailMask |-> Renamed(s, r).emailMask]
  BY <1>1 DEF Renamed
<1> DEFINE R == Renamed(s, r)
<1>4. /\ R.nameHash \in {Columns(u).nameHash : u \in Subs}
      /\ R.nameMask \in {Columns(u).nameMask : u \in Subs}
      /\ R.emailMask \in {Columns(u).emailMask : u \in Subs}
  BY <1>2, <1>1 DEF ListRow
<1> QED
  BY <1>3, <1>4 DEF ListRow

Base == TypeOK /\ Stages /\ Holders

LEMMA BaseStep ==
  ASSUME Base, [Next]_vars
  PROVE  Base'
<1>t. /\ list \in [Patrons -> ListRow \cup {NoList}]
      /\ loaded \in [Subs -> ListRow \cup {NoList}]
      /\ items \in [Patrons -> SUBSET Item]
      /\ inserting \in [Patrons -> Subs \cup {NoSub}]
      /\ nameLock \in [Patrons -> Subs \cup {NoSub}]
      /\ deleted \in [Subs -> SUBSET Item] /\ targets \in [Subs -> SUBSET Item]
      /\ isUpdate \in [Subs -> BOOLEAN] /\ left \in [Subs -> 0..NumBooks]
      /\ pc \in [Subs -> PCs] /\ before \in [Subs -> SUBSET Subs]
      /\ \A s \in Subs : isUpdate[s] <=> loaded[s] # NoList
  BY DEF Base, TypeOK
<1>s. Stages
  BY DEF Base
<1>h. Holders
  BY DEF Base
<1>g. ASSUME Stages', Holders',
             list' \in [Patrons -> ListRow \cup {NoList}],
             loaded' \in [Subs -> ListRow \cup {NoList}],
             items' \in [Patrons -> SUBSET Item],
             inserting' \in [Patrons -> Subs \cup {NoSub}],
             nameLock' \in [Patrons -> Subs \cup {NoSub}],
             deleted' \in [Subs -> SUBSET Item], targets' \in [Subs -> SUBSET Item],
             isUpdate' \in [Subs -> BOOLEAN], left' \in [Subs -> 0..NumBooks],
             pc' \in [Subs -> PCs], before' \in [Subs -> SUBSET Subs],
             \A s \in Subs : isUpdate'[s] <=> loaded'[s] # NoList
      PROVE  Base'
  <2>1. \A p \in Patrons : \A s \in {inserting'[p], nameLock'[p]} \ {NoSub} :
          pc'[s] \in OpenPCs
    BY <1>g DEF Holders, OpenPCs
  <2> QED
    BY <1>g, <2>1 DEF Base, TypeOK
<1>n. \A s \in Subs : s # NoSub
  BY NothingAssumption
<1> USE DEF PCs
<1>1. ASSUME NEW s \in Subs, Lookup(s) PROVE Base'
  <2>1. PICK p \in Patrons : p = Patron[s]
    BY PatronOf
  <2>2. /\ pc[s] = "new" /\ loaded' = [loaded EXCEPT ![s] = list[p]]
        /\ isUpdate' = [isUpdate EXCEPT ![s] = list[p] # NoList]
        /\ pc' = [pc EXCEPT ![s] = IF list[p] = NoList THEN "insert" ELSE "update"]
        /\ UNCHANGED <<list, items, inserting, nameLock, deleted, targets, left>>
    BY <1>1, <2>1 DEF Lookup, Goto, locks
  <2>3. before' \in [Subs -> SUBSET Subs]
    BY <1>1, <1>t DEF Lookup, Rivals
  <2>4. isUpdate' \in [Subs -> BOOLEAN]
    <3>1. (list[p] # NoList) \in BOOLEAN
      BY Zenon
    <3> QED
      BY <1>t, <2>2, <3>1
  <2>5. \A u \in Subs : isUpdate'[u] <=> loaded'[u] # NoList
    BY <1>t, <2>2
  <2>6. Stages'
    BY <1>s, <1>t, <2>1, <2>2 DEF Stages
  <2>7. Holders'
    BY <1>h, <1>t, <1>n, <2>1, <2>2 DEF Holders
  <2>8. loaded' \in [Subs -> ListRow \cup {NoList}] /\ pc' \in [Subs -> PCs]
    BY <1>t, <2>1, <2>2
  <2> QED
    BY <1>g, <1>t, <2>2, <2>3, <2>4, <2>5, <2>6, <2>7, <2>8
<1>2. ASSUME NEW s \in Subs, InsertList(s) PROVE Base'
  <2>1. PICK p \in Patrons : p = Patron[s]
    BY PatronOf
  <2>2. /\ pc[s] = "insert" /\ inserting[p] = NoSub
        /\ UNCHANGED <<list, items, nameLock, deleted, targets, loaded, isUpdate, left, before>>
    BY <1>2, <2>1 DEF InsertList, locals
  <2>3. CASE list[p] = NoList
    <3>1. inserting' = [inserting EXCEPT ![p] = s] /\ pc' = [pc EXCEPT ![s] = "resolve"]
      BY <1>2, <2>1, <2>3 DEF InsertList, Goto
    <3>2. Stages'
      BY <1>n, <1>s, <1>t, <2>1, <2>2, <2>3, <3>1, PatronOf DEF Stages
    <3>3. Holders'
      BY <1>h, <1>s, <1>t, <1>n, <2>1, <2>2, <2>3, <3>1 DEF Holders, Stages
    <3> QED
      BY <1>g, <1>t, <2>2, <3>1, <3>2, <3>3
  <2>4. CASE list[p] # NoList
    <3>1. inserting' = inserting /\ pc' = [pc EXCEPT ![s] = "conflict"]
      BY <1>2, <2>1, <2>4 DEF InsertList, Goto
    <3>2. Stages'
      BY <1>s, <1>t, <2>1, <2>2, <3>1 DEF Stages
    <3>3. Holders'
      BY <1>h, <1>t, <1>n, <2>1, <2>2, <3>1 DEF Holders
    <3> QED
      BY <1>g, <1>t, <2>2, <3>1, <3>2, <3>3
  <2> QED
    BY <2>3, <2>4
<1>3. ASSUME NEW s \in Subs, UpdateName(s) PROVE Base'
  <2>1. PICK p \in Patrons : p = Patron[s]
    BY PatronOf
  <2>2. /\ pc[s] = "update" /\ pc' = [pc EXCEPT ![s] = "delete"]
        /\ nameLock' = nameLock \/ nameLock' = [nameLock EXCEPT ![p] = s]
        /\ UNCHANGED <<list, items, inserting, deleted, targets, loaded, isUpdate, left, before>>
    BY <1>3, <2>1 DEF UpdateName, Goto, locals
  <2>3. Stages'
    BY <1>s, <1>t, <2>2 DEF Stages
  <2>4. Holders'
    BY <1>h, <1>t, <1>n, <2>2 DEF Holders
  <2> QED
    BY <1>g, <1>t, <2>2, <2>3, <2>4
<1>4. ASSUME NEW s \in Subs, StartDelete(s) \/ EndDelete(s) PROVE Base'
  <2>1. PICK p \in Patrons : p = Patron[s]
    BY PatronOf
  <2>2. /\ pc[s] \in {"delete", "deleting"}
        /\ pc' = [pc EXCEPT ![s] = IF pc[s] = "delete" THEN "deleting" ELSE "resolve"]
        /\ targets' \in [Subs -> SUBSET Item] /\ deleted' \in [Subs -> SUBSET Item]
        /\ UNCHANGED <<list, items, inserting, nameLock, loaded, isUpdate, left, before>>
    BY <1>4, <1>t, <2>1 DEF StartDelete, EndDelete, Goto, locals, locks
  <2>3. Stages'
    BY <1>s, <1>t, <2>2 DEF Stages
  <2>4. Holders'
    BY <1>h, <1>t, <1>n, <2>2 DEF Holders
  <2> QED
    BY <1>g, <1>t, <2>2, <2>3, <2>4
<1>5. ASSUME NEW s \in Subs, ResolveBook(s) PROVE Base'
  <2>1. /\ left' \in [Subs -> 0..NumBooks]
        /\ UNCHANGED <<list, items, inserting, nameLock, deleted, targets, loaded, isUpdate,
                       pc, before>>
    BY <1>5, <1>t, NumBooksAssumption DEF ResolveBook, locks
  <2>2. Stages' /\ Holders'
    BY <1>s, <1>h, <2>1 DEF Stages, Holders
  <2> QED
    BY <1>g, <1>t, <2>1, <2>2
<1>6. ASSUME NEW s \in Subs, CommitList(s) PROVE Base'
  <2>1. PICK p \in Patrons : p = Patron[s]
    BY PatronOf
  <2>2. /\ pc[s] = "resolve" /\ pc' = [pc EXCEPT ![s] = "done"]
        /\ items' = [items EXCEPT ![p] = (@ \ deleted[s]) \cup ItemsOf(s)]
        /\ list' = [list EXCEPT ![p] = IF inserting[p] = s THEN Columns(s) ELSE Renamed(s, @)]
        /\ Unlock(s) /\ UNCHANGED <<targets, loaded, isUpdate, left, before>>
    BY <1>6, <2>1 DEF CommitList, Goto, locals, Renamed
  <2>3. /\ inserting' \in [Patrons -> Subs \cup {NoSub}]
        /\ nameLock' \in [Patrons -> Subs \cup {NoSub}]
        /\ deleted' \in [Subs -> SUBSET Item]
        /\ \A q \in Patrons : /\ inserting[q] = s => inserting'[q] = NoSub
                              /\ inserting[q] # s => inserting'[q] = inserting[q]
                              /\ nameLock[q] = s => nameLock'[q] = NoSub
                              /\ nameLock[q] # s => nameLock'[q] = nameLock[q]
    BY <1>t, <2>2 DEF Unlock
  <2>4. list' \in [Patrons -> ListRow \cup {NoList}] /\ list'[p] # NoList
    <3>1. inserting[p] # s => list[p] \in ListRow
      BY <1>s, <1>t, <2>1, <2>2 DEF Stages
    <3> QED
      BY <1>t, <2>2, <3>1, RowOf, RenamedRow
  <2>5. items' \in [Patrons -> SUBSET Item]
    BY <1>t, <2>2 DEF ItemsOf, Item
  <2>6. \A q \in Patrons : q # p => list'[q] = list[q]
    BY <1>t, <2>2
  <2>7. Stages'
    BY <1>s, <1>t, <1>n, <2>1, <2>2, <2>3, <2>4, <2>6, PatronOf DEF Stages
  <2>8. Holders'
    <3>1. inserting[p] # NoSub => inserting[p] = s
      BY <1>h, <1>s, <1>t, <2>1, <2>2 DEF Holders, Stages
    <3> QED
      BY <1>h, <1>t, <1>n, <2>1, <2>2, <2>3, <2>6, <3>1 DEF Holders
  <2> QED
    BY <1>g, <1>t, <2>2, <2>3, <2>4, <2>5, <2>7, <2>8
<1>7. ASSUME NEW s \in Subs, Abort(s) PROVE Base'
  <2>1. /\ pc' = [pc EXCEPT ![s] = "failed"]
        /\ Unlock(s) /\ UNCHANGED <<list, items, targets, loaded, isUpdate, left, before>>
    BY <1>7 DEF Abort, Goto, locals
  <2>2. /\ inserting' \in [Patrons -> Subs \cup {NoSub}]
        /\ nameLock' \in [Patrons -> Subs \cup {NoSub}]
        /\ deleted' \in [Subs -> SUBSET Item]
        /\ \A q \in Patrons : /\ inserting[q] = s => inserting'[q] = NoSub
                              /\ inserting[q] # s => inserting'[q] = inserting[q]
                              /\ nameLock[q] = s => nameLock'[q] = NoSub
                              /\ nameLock[q] # s => nameLock'[q] = nameLock[q]
    BY <1>t, <2>1 DEF Unlock
  <2>3. Stages'
    BY <1>s, <1>t, <1>n, <2>1, <2>2, PatronOf DEF Stages
  <2>4. Holders'
    BY <1>h, <1>t, <1>n, <2>1, <2>2 DEF Holders
  <2> QED
    BY <1>g, <1>t, <2>1, <2>2, <2>3, <2>4
<1>8. CASE UNCHANGED vars
  <2>1. UNCHANGED <<list, items, inserting, nameLock, deleted, targets, loaded, isUpdate,
                    left, pc, before>>
    BY <1>8 DEF vars, locks, locals
  <2>2. Stages' /\ Holders'
    BY <1>s, <1>h, <2>1 DEF Stages, Holders
  <2> QED
    BY <1>g, <1>t, <2>1, <2>2
<1> QED
  BY <1>1, <1>2, <1>3, <1>4, <1>5, <1>6, <1>7, <1>8 DEF Next, Statement

LEMMA BaseInvariant == Spec => []Base
<1>1. Init => Base
  <2> SUFFICES ASSUME Init PROVE Base
    OBVIOUS
  <2> USE DEF Init
  <2>1. isUpdate \in [Subs -> BOOLEAN] /\ \A s \in Subs : ~ isUpdate[s] /\ loaded[s] = NoList
    BY Zenon
  <2>2. left \in [Subs -> 0..NumBooks]
    BY NumBooksAssumption
  <2>3. /\ list \in [Patrons -> ListRow \cup {NoList}]
        /\ loaded \in [Subs -> ListRow \cup {NoList}]
        /\ items \in [Patrons -> SUBSET Item]
        /\ inserting \in [Patrons -> Subs \cup {NoSub}]
        /\ nameLock \in [Patrons -> Subs \cup {NoSub}]
        /\ deleted \in [Subs -> SUBSET Item] /\ targets \in [Subs -> SUBSET Item]
        /\ pc \in [Subs -> PCs] /\ before \in [Subs -> SUBSET Subs]
    BY DEF PCs
  <2>4. TypeOK
    BY <2>1, <2>2, <2>3 DEF TypeOK
  <2>5. Stages /\ Holders
    BY <2>1 DEF Stages, Holders
  <2> QED
    BY <2>4, <2>5 DEF Base
<1>2. Base /\ [Next]_vars => Base'
  BY BaseStep
<1> QED
  BY <1>1, <1>2, PTL DEF Spec

\* Rows, locks and locals keep their ranges, and a lock is held by an open
\* submission: no way out of a transaction forgets to let go.
THEOREM ListsTypeCorrect == Spec => []TypeOK
<1>1. Base => TypeOK
  BY DEF Base
<1> QED
  BY <1>1, BaseInvariant, PTL

-----------------------------------------------------------------------------
(* What the actions do to lists and items.                                 *)

\* Only a commit changes lists and items, and only those of its patron.
LEMMA CommitOnly ==
  ASSUME Base, [Next]_vars
  PROVE  \/ /\ UNCHANGED <<list, items>>
            /\ \A u \in Subs : pc'[u] = "done" <=> pc[u] = "done"
            /\ \A u \in Subs : Created(u)' <=> Created(u)
         \/ \E s \in Subs : CommitList(s)
<1>t. pc \in [Subs -> PCs]
  BY DEF Base, TypeOK
<1>1. ASSUME NEW s \in Subs,
             Lookup(s) \/ InsertList(s) \/ UpdateName(s) \/ StartDelete(s) \/ EndDelete(s)
               \/ ResolveBook(s) \/ Abort(s)
      PROVE  /\ UNCHANGED <<list, items>>
             /\ \A u \in Subs : pc'[u] = "done" <=> pc[u] = "done"
             /\ \A u \in Subs : Created(u)' <=> Created(u)
  <2>1. UNCHANGED <<list, items>> /\ pc[s] # "done"
    BY <1>1 DEF Lookup, InsertList, UpdateName, StartDelete, EndDelete, ResolveBook, Abort,
                OpenPCs
  <2>2. \A u \in Subs : u # s => pc'[u] = pc[u] /\ isUpdate'[u] = isUpdate[u]
    <3>1. CASE Lookup(s)
      BY <1>t, <3>1 DEF Lookup, Goto, Base, TypeOK
    <3>2. CASE InsertList(s) \/ UpdateName(s)
      BY <1>t, <3>2 DEF InsertList, UpdateName, Goto, locals
    <3>3. CASE StartDelete(s) \/ EndDelete(s) \/ ResolveBook(s) \/ Abort(s)
      BY <1>t, <3>3 DEF StartDelete, EndDelete, ResolveBook, Abort, Goto, locals
    <3> QED
      BY <1>1, <3>1, <3>2, <3>3
  <2>3. pc'[s] # "done"
    <3>1. CASE Lookup(s)
      BY <1>t, <3>1 DEF Lookup, Goto
    <3>2. CASE InsertList(s)
      BY <1>t, <3>2 DEF InsertList, Goto
    <3>3. CASE UpdateName(s) \/ StartDelete(s) \/ EndDelete(s) \/ ResolveBook(s) \/ Abort(s)
      BY <1>t, <2>1, <3>3 DEF UpdateName, StartDelete, EndDelete, ResolveBook, Abort, Goto
    <3> QED
      BY <1>1, <3>1, <3>2, <3>3
  <2> QED
    BY <2>1, <2>2, <2>3 DEF Created
<1>2. CASE UNCHANGED vars
  BY <1>2 DEF vars, locals, Created
<1> QED
  BY <1>1, <1>2 DEF Next, Statement

LEMMA Committed ==
  ASSUME Base, NEW s \in Subs, CommitList(s)
  PROVE  /\ pc[s] = "resolve" /\ pc'[s] = "done" /\ \A u \in Subs : u # s => pc'[u] = pc[u]
         /\ items'[Patron[s]] = (items[Patron[s]] \ deleted[s]) \cup ItemsOf(s)
         /\ \A p \in Patrons : p # Patron[s] => items'[p] = items[p] /\ list'[p] = list[p]
         /\ list'[Patron[s]] # NoList
         /\ isUpdate[s] => /\ list[Patron[s]] \in ListRow
                           /\ list'[Patron[s]] = Renamed(s, list[Patron[s]])
         /\ ~ isUpdate[s] => list[Patron[s]] = NoList /\ list'[Patron[s]] = Columns(s)
         /\ \A u \in Subs : u # s => deleted'[u] = deleted[u]
         /\ UNCHANGED <<targets, loaded, isUpdate, before>>
<1>t. /\ list \in [Patrons -> ListRow \cup {NoList}] /\ items \in [Patrons -> SUBSET Item]
      /\ pc \in [Subs -> PCs] /\ deleted \in [Subs -> SUBSET Item]
      /\ inserting \in [Patrons -> Subs \cup {NoSub}]
  BY DEF Base, TypeOK
<1>p. PICK p \in Patrons : p = Patron[s]
  BY PatronOf
<1>1. /\ pc[s] = "resolve" /\ pc' = [pc EXCEPT ![s] = "done"]
      /\ items' = [items EXCEPT ![p] = (@ \ deleted[s]) \cup ItemsOf(s)]
      /\ list' = [list EXCEPT ![p] = IF inserting[p] = s THEN Columns(s) ELSE Renamed(s, @)]
      /\ deleted' = [deleted EXCEPT ![s] = {}]
      /\ UNCHANGED <<targets, loaded, isUpdate, before>>
  BY <1>p DEF CommitList, Goto, locals, Renamed, Unlock
<1>2. isUpdate[s] => inserting[p] # s /\ list[p] \in ListRow
  BY <1>p, <1>t, NothingAssumption DEF Base, Stages, Holders
<1>3. ~ isUpdate[s] => inserting[p] = s /\ list[p] = NoList
  BY <1>1, <1>p, <1>t, NothingAssumption DEF Base, Stages, Holders
<1>4. /\ isUpdate[s] => list'[p] = Renamed(s, list[p])
      /\ ~ isUpdate[s] => list'[p] = Columns(s)
  BY <1>1, <1>2, <1>3, <1>t
<1>5. list'[p] # NoList
  BY <1>2, <1>4, RowOf, RenamedRow
<1>6. \A q \in Patrons : q # p => items'[q] = items[q] /\ list'[q] = list[q]
  BY <1>1, <1>t
<1>7. items'[p] = (items[p] \ deleted[s]) \cup ItemsOf(s)
  BY <1>1, <1>t
<1>8. /\ pc'[s] = "done" /\ \A u \in Subs : u # s => pc'[u] = pc[u]
      /\ \A u \in Subs : u # s => deleted'[u] = deleted[u]
  BY <1>1, <1>t
<1> QED
  BY <1>1, <1>2, <1>3, <1>4, <1>5, <1>6, <1>7, <1>8, <1>p

-----------------------------------------------------------------------------
(* Exactly one submission makes a list.                                    *)

LEMMA CreatorsStep ==
  ASSUME Base, Creators, [Next]_vars
  PROVE  Creators'
<1>1. CASE /\ UNCHANGED <<list, items>>
           /\ \A u \in Subs : Created(u)' <=> Created(u)
  BY <1>1 DEF Creators
<1>2. ASSUME NEW s \in Subs, CommitList(s) PROVE Creators'
  <2>1. \A u \in Subs : u # s => (Created(u)' <=> Created(u))
    BY <1>2, Committed DEF Created
  <2>2. CASE isUpdate[s]
    <3>1. ~ Created(s)' /\ ~ Created(s) /\ list[Patron[s]] # NoList
      BY <1>2, <2>2, Committed DEF Created, Base, Stages
    <3>2. \A p \in Patrons : list'[p] # NoList => list[p] # NoList
      BY <1>2, <3>1, Committed
    <3> QED
      BY <2>1, <3>1, <3>2 DEF Creators
  <2>3. CASE ~ isUpdate[s]
    <3>1. Created(s)' /\ list[Patron[s]] = NoList
      BY <1>2, <2>3, Committed DEF Created
    <3>2. \A u \in Subs : Created(u) => Patron[u] # Patron[s]
      BY <3>1 DEF Base, Stages, Created
    <3>3. \A p \in Patrons : p # Patron[s] => list'[p] = list[p]
      BY <1>2, Committed
    <3> QED
      BY <2>1, <3>1, <3>2, <3>3 DEF Creators
  <2> QED
    BY <2>2, <2>3
<1> QED
  BY <1>1, <1>2, CommitOnly

\* Of the submissions of a patron exactly one is told that it made the list,
\* however many found none, and however the address was spelt.
THEOREM ListHasOneCreator == Spec => []OneCreator
<1>1. Init => Creators
  BY DEF Init, Creators, Created
<1>2. Base /\ Creators /\ [Next]_vars => Creators'
  BY CreatorsStep
<1>3. Base /\ Creators => OneCreator
  <2> SUFFICES ASSUME Base, Creators, NEW p \in Patrons
               PROVE  Cardinality({s \in Subs : Patron[s] = p /\ pc[s] = "done"
                                                              /\ ~ isUpdate[s]})
                        = IF list[p] = NoList THEN 0 ELSE 1
    BY DEF OneCreator
  <2> DEFINE Made == {s \in Subs : Patron[s] = p /\ pc[s] = "done" /\ ~ isUpdate[s]}
  <2>1. CASE list[p] = NoList
    <3>1. Made = {}
      BY <2>1 DEF Base, Stages
    <3> QED
      BY <2>1, <3>1, FS_EmptySet
  <2>2. CASE list[p] # NoList
    <3>1. PICK s \in Subs : Created(s) /\ Patron[s] = p
      BY <2>2 DEF Creators
    <3>2. \A u \in Made : u = s
      BY <3>1 DEF Creators, Created
    <3>3. Made = {s}
      BY <3>1, <3>2 DEF Created
    <3> QED
      BY <2>2, <3>3, FS_Singleton
  <2> QED
    BY <2>1, <2>2
<1> QED
  BY <1>1, <1>2, <1>3, BaseInvariant, PTL DEF Spec

-----------------------------------------------------------------------------
(* Lists are whole.                                                        *)

LEMMA ItemOf ==
  ASSUME NEW s \in Subs
  PROVE  /\ \A i : i \in ItemsOf(s) <=> i \in Item /\ i.sub = s
         /\ [sub |-> s, book |-> 1] \in ItemsOf(s)
BY NumBooksAssumption DEF ItemsOf, Item

LEMMA WholeStep ==
  ASSUME Base, WholeSubmissions, [Next]_vars
  PROVE  WholeSubmissions'
<1>t. /\ items \in [Patrons -> SUBSET Item] /\ deleted \in [Subs -> SUBSET Item]
      /\ targets \in [Subs -> SUBSET Item]
  BY DEF Base, TypeOK
<1>w. /\ \A p \in Patrons : /\ Whole(items[p])
                            /\ \A i \in items[p] : pc[i.sub] = "done" /\ Patron[i.sub] = p
                            /\ list[p] # NoList => items[p] # {}
      /\ \A s \in Subs : Whole(targets[s]) /\ Whole(deleted[s])
  BY DEF WholeSubmissions
<1>e. Whole({})
  BY DEF Whole
<1>d. \A i \in Item : i.sub \in Subs
  BY DEF Item
<1>1. ASSUME UNCHANGED <<list, items>>, \A u \in Subs : pc'[u] = "done" <=> pc[u] = "done",
             \A u \in Subs : Whole(targets'[u]) /\ Whole(deleted'[u])
      PROVE  WholeSubmissions'
  <2>1. ASSUME NEW p \in Patrons
        PROVE  /\ Whole(items'[p])
               /\ \A i \in items'[p] : pc'[i.sub] = "done" /\ Patron[i.sub] = p
               /\ list'[p] # NoList => items'[p] # {}
    BY <1>1, <1>d, <1>t, <1>w
  <2> QED
    BY <1>1, <2>1 DEF WholeSubmissions, Whole
<1>2. ASSUME NEW s \in Subs, CommitList(s) PROVE WholeSubmissions'
  <2>p. PICK p \in Patrons : p = Patron[s]
    BY PatronOf
  <2>1. \A q \in Patrons : q # p => items'[q] = items[q] /\ list'[q] = list[q]
    BY <1>2, <2>p, Committed
  <2>2. items'[p] = (items[p] \ deleted[s]) \cup ItemsOf(s)
    BY <1>2, <2>p, Committed
  <2>3. \A u \in Subs : pc[u] = "done" \/ u = s => pc'[u] = "done"
    BY <1>2, Committed
  <2>4. Whole(items'[p])
    <3> SUFFICES ASSUME NEW i \in items'[p], NEW k \in Item, k.sub = i.sub
                 PROVE  k \in items'[p]
      BY DEF Whole
    <3>1. CASE i \in ItemsOf(s)
      BY <2>2, <3>1, ItemOf
    <3>2. CASE i \in items[p] \ deleted[s]
      <4>1. i \in Item /\ k \in items[p]
        BY <1>t, <1>w, <3>2 DEF Whole
      <4>2. k \notin deleted[s]
        BY <1>w, <3>2, <4>1 DEF Whole
      <4> QED
        BY <2>2, <4>1, <4>2
    <3> QED
      BY <2>2, <3>1, <3>2
  <2>5. \A i \in items'[p] : pc'[i.sub] = "done" /\ Patron[i.sub] = p
    <3>1. ASSUME NEW i \in items'[p] PROVE pc'[i.sub] = "done" /\ Patron[i.sub] = p
      <4>1. CASE i \in ItemsOf(s)
        BY <2>3, <2>p, <4>1, ItemOf
      <4>2. CASE i \in items[p]
        <5>1. i.sub \in Subs /\ pc[i.sub] = "done" /\ Patron[i.sub] = p
          BY <1>d, <1>t, <1>w, <4>2
        <5> QED
          BY <2>3, <5>1
      <4> QED
        BY <2>2, <4>1, <4>2
    <3> QED
      BY <3>1
  <2>6. items'[p] # {}
    BY <2>2, ItemOf
  <2>7. \A u \in Subs : Whole(targets'[u]) /\ Whole(deleted'[u])
    <3>1. targets' = targets /\ \A u \in Subs : deleted'[u] = deleted[u] \/ deleted'[u] = {}
      BY <1>2, <1>t, Committed DEF CommitList, Unlock
    <3> QED
      BY <1>e, <1>w, <3>1
  <2>8. ASSUME NEW q \in Patrons, q # p
        PROVE  /\ Whole(items'[q])
               /\ \A i \in items'[q] : pc'[i.sub] = "done" /\ Patron[i.sub] = q
               /\ list'[q] # NoList => items'[q] # {}
    BY <1>d, <1>t, <1>w, <2>1, <2>3, <2>8
  <2>9. \A q \in Patrons :
           /\ Whole(items'[q])
           /\ \A i \in items'[q] : pc'[i.sub] = "done" /\ Patron[i.sub] = q
           /\ list'[q] # NoList => items'[q] # {}
    BY <2>4, <2>5, <2>6, <2>8
  <2> QED
    BY <2>7, <2>9 DEF WholeSubmissions, Whole
<1>3. ASSUME ~ \E s \in Subs : CommitList(s)
      PROVE  \A u \in Subs : Whole(targets'[u]) /\ Whole(deleted'[u])
  <2>1. ASSUME NEW s \in Subs, Lookup(s) \/ InsertList(s) \/ UpdateName(s) \/ ResolveBook(s)
        PROVE  targets' = targets /\ deleted' = deleted
    BY <2>1 DEF Lookup, InsertList, UpdateName, ResolveBook, locks, locals
  <2>2. ASSUME NEW s \in Subs, StartDelete(s)
        PROVE  \A u \in Subs : Whole(targets'[u]) /\ Whole(deleted'[u])
    <3>1. /\ deleted' = deleted
          /\ \A u \in Subs : targets'[u] = IF u = s THEN items[Patron[s]] ELSE targets[u]
      BY <1>t, <2>2 DEF StartDelete, locks
    <3> QED
      BY <1>w, <3>1, PatronOf
  <2>3. ASSUME NEW s \in Subs, EndDelete(s)
        PROVE  \A u \in Subs : Whole(targets'[u]) /\ Whole(deleted'[u])
    <3>1. /\ targets' = targets
          /\ \A u \in Subs : deleted'[u] = IF u = s THEN targets[s] \cap items[Patron[s]]
                                                     ELSE deleted[u]
      BY <1>t, <2>3 DEF EndDelete, locals
    <3>2. Whole(targets[s] \cap items[Patron[s]])
      BY <1>w, PatronOf DEF Whole
    <3> QED
      BY <1>w, <3>1, <3>2
  <2>4. ASSUME NEW s \in Subs, Abort(s)
        PROVE  \A u \in Subs : Whole(targets'[u]) /\ Whole(deleted'[u])
    <3>1. targets' = targets /\ \A u \in Subs : deleted'[u] = IF u = s THEN {} ELSE deleted[u]
      BY <1>t, <2>4 DEF Abort, Unlock, locals
    <3> QED
      BY <1>e, <1>w, <3>1
  <2>5. UNCHANGED vars => targets' = targets /\ deleted' = deleted
    BY DEF vars, locks, locals
  <2> QED
    BY <1>3, <1>w, <2>1, <2>2, <2>3, <2>4, <2>5 DEF Next, Statement
<1> QED
  BY <1>1, <1>2, <1>3, CommitOnly

LEMMA WholeInvariant == Spec => []WholeSubmissions
<1>1. Init => WholeSubmissions
  BY PatronOf DEF Init, WholeSubmissions, Whole
<1>2. Base /\ WholeSubmissions /\ [Next]_vars => WholeSubmissions'
  BY WholeStep
<1> QED
  BY <1>1, <1>2, BaseInvariant, PTL DEF Spec

\* A list that exists has all the books of a submission that succeeded, and
\* nothing that is not part of one: no failure between the DELETE and the commit,
\* and no rival, leaves it empty or with some of the books.
THEOREM NoListIsTorn == Spec => []ListsAreWhole
<1>1. Base /\ WholeSubmissions => ListsAreWhole
  <2> SUFFICES ASSUME Base, WholeSubmissions, NEW p \in Patrons
               PROVE  LET whole == {s \in Subs : pc[s] = "done" /\ ItemsOf(s) \subseteq items[p]}
                      IN  /\ items[p] = UNION {ItemsOf(s) : s \in whole}
                          /\ list[p] # NoList => whole # {}
    BY DEF ListsAreWhole
  <2> DEFINE whole == {s \in Subs : pc[s] = "done" /\ ItemsOf(s) \subseteq items[p]}
  <2>1. ASSUME NEW i \in items[p] PROVE i.sub \in whole /\ i \in ItemsOf(i.sub)
    <3>1. i \in Item /\ i.sub \in Subs /\ pc[i.sub] = "done"
      BY DEF Base, TypeOK, WholeSubmissions, Item
    <3>2. i \in ItemsOf(i.sub)
      BY <3>1, ItemOf
    <3>3. ItemsOf(i.sub) \subseteq items[p]
      <4>1. \A k \in ItemsOf(i.sub) : k \in Item /\ k.sub = i.sub
        BY <3>1, ItemOf
      <4>2. \A k \in Item : k.sub = i.sub => k \in items[p]
        BY DEF WholeSubmissions, Whole
      <4> QED
        BY <4>1, <4>2
    <3> QED
      BY <3>1, <3>2, <3>3
  <2>2. items[p] = UNION {ItemsOf(s) : s \in whole}
    BY <2>1
  <2>3. list[p] # NoList => whole # {}
    BY <2>1 DEF WholeSubmissions
  <2> QED
    BY <2>2, <2>3
<1> QED
  BY <1>1, BaseInvariant, WholeInvariant, PTL

-----------------------------------------------------------------------------
(* A later submission replaces the earlier ones.                           *)

\* An action of s that does not commit leaves the others where they are.
Untouched(u) == /\ pc'[u] = pc[u] /\ isUpdate'[u] = isUpdate[u] /\ loaded'[u] = loaded[u]
                /\ before'[u] = before[u] /\ targets'[u] = targets[u]
                /\ deleted'[u] = deleted[u]

LEMMA OthersUntouched ==
  ASSUME Base, NEW s \in Subs, Statement(s) \/ Abort(s)
  PROVE  \A u \in Subs : u # s => Untouched(u)
<1>t. /\ pc \in [Subs -> PCs] /\ isUpdate \in [Subs -> BOOLEAN]
      /\ loaded \in [Subs -> ListRow \cup {NoList}] /\ before \in [Subs -> SUBSET Subs]
      /\ targets \in [Subs -> SUBSET Item] /\ deleted \in [Subs -> SUBSET Item]
  BY DEF Base, TypeOK
<1> USE DEF Untouched, Goto, locals, locks
<1>1. CASE Lookup(s)
  BY <1>1, <1>t DEF Lookup
<1>2. CASE InsertList(s)
  BY <1>2, <1>t DEF InsertList
<1>3. CASE UpdateName(s)
  BY <1>3, <1>t DEF UpdateName
<1>4. CASE StartDelete(s)
  BY <1>4, <1>t DEF StartDelete
<1>5. CASE EndDelete(s)
  BY <1>5, <1>t DEF EndDelete
<1>6. CASE ResolveBook(s)
  BY <1>6, <1>t DEF ResolveBook
<1>7. CASE CommitList(s)
  BY <1>7, <1>t DEF CommitList, Unlock
<1>8. CASE Abort(s)
  BY <1>8, <1>t DEF Abort, Unlock
<1> QED
  BY <1>1, <1>2, <1>3, <1>4, <1>5, <1>6, <1>7, <1>8 DEF Statement

\* Whoever makes the list has nobody before him.
LEMMA NobodyBefore ==
  ASSUME Base, NEW s \in Subs, list[Patron[s]] = NoList
  PROVE  \A u \in Rivals(s) : pc[u] # "done"
BY DEF Base, Stages, Rivals

LEMMA ReplacingStep ==
  ASSUME Base, WholeSubmissions, Replacing, [Next]_vars
  PROVE  Replacing'
<1>t. /\ pc \in [Subs -> PCs] /\ isUpdate \in [Subs -> BOOLEAN]
      /\ before \in [Subs -> SUBSET Subs] /\ items \in [Patrons -> SUBSET Item]
      /\ targets \in [Subs -> SUBSET Item] /\ deleted \in [Subs -> SUBSET Item]
  BY DEF Base, TypeOK
<1> DEFINE Gone(u) ==
             /\ \A v \in before[u] : v \in Rivals(u) /\ pc[v] = "done"
             /\ ~ isUpdate[u] => before[u] = {}
             /\ \A i \in items[Patron[u]] : i.sub \in before[u] =>
                  /\ pc[u] = "deleting" => i \in targets[u]
                  /\ pc[u] = "resolve" => i \in deleted[u]
                  /\ pc[u] # "done"
<1>r. \A u \in Subs : Gone(u)
  BY DEF Replacing
<1>g. ASSUME \A u \in Subs : Gone(u)'
      PROVE  Replacing'
  BY <1>g DEF Replacing, Rivals
<1>v. \A u \in Subs : Rivals(u) \subseteq Subs
  BY DEF Rivals
<1>1. ASSUME UNCHANGED <<list, items>>, \A u \in Subs : pc'[u] = "done" <=> pc[u] = "done",
             NEW s \in Subs, Statement(s) \/ Abort(s)
      PROVE  Replacing'
  <2>1. ASSUME NEW u \in Subs, u # s PROVE Gone(u)'
    <3>1. Untouched(u)
      BY <1>1, <2>1, OthersUntouched
    <3>2. \A v \in before'[u] : v \in Rivals(u)' /\ pc'[v] = "done"
      BY <1>1, <1>r, <1>v, <3>1 DEF Untouched, Rivals
    <3> QED
      BY <1>1, <1>r, <3>1, <3>2 DEF Untouched
  <2>2. Gone(s)'
    <3>1. CASE Lookup(s)
      <4>1. /\ before'[s] = {u \in Rivals(s) : pc[u] = "done"} /\ pc'[s] \in {"insert", "update"}
            /\ isUpdate'[s] <=> list[Patron[s]] # NoList
        BY <1>t, <3>1 DEF Lookup, Goto
      <4>2. ~ isUpdate'[s] => before'[s] = {}
        BY <4>1, NobodyBefore
      <4> QED
        BY <1>1, <1>v, <4>1, <4>2 DEF Rivals
    <3>2. CASE ~ Lookup(s)
      <4>1. before'[s] = before[s] /\ isUpdate'[s] = isUpdate[s]
        BY <1>1, <3>2 DEF Statement, InsertList, UpdateName, StartDelete, EndDelete,
                          ResolveBook, CommitList, Abort, locals
      <4>2. \A v \in before'[s] : v \in Rivals(s)' /\ pc'[v] = "done"
        BY <1>1, <1>r, <1>v, <4>1 DEF Rivals
      <4>3. ASSUME NEW i \in items'[Patron[s]], i.sub \in before'[s]
            PROVE  /\ pc'[s] = "deleting" => i \in targets'[s]
                   /\ pc'[s] = "resolve" => i \in deleted'[s]
                   /\ pc'[s] # "done"
        <5>1. /\ i \in items[Patron[s]] /\ i.sub \in before[s] /\ isUpdate[s] /\ pc[s] # "done"
              /\ pc[s] = "deleting" => i \in targets[s]
              /\ pc[s] = "resolve" => i \in deleted[s]
          BY <1>1, <1>r, <4>1, <4>3
        <5>2. pc'[s] # "done"
          BY <1>1, <5>1
        <5>3. CASE InsertList(s)
          BY <5>1, <5>3 DEF InsertList, Base, Stages
        <5>4. CASE UpdateName(s)
          BY <1>t, <5>2, <5>4 DEF UpdateName, Goto
        <5>5. CASE StartDelete(s)
          BY <1>t, <5>1, <5>2, <5>5 DEF StartDelete, Goto
        <5>6. CASE EndDelete(s)
          BY <1>t, <5>1, <5>2, <5>6 DEF EndDelete, Goto
        <5>7. CASE ResolveBook(s)
          BY <1>t, <5>1, <5>2, <5>7 DEF ResolveBook, locks
        <5>8. CASE Abort(s)
          BY <1>t, <5>8 DEF Abort, Goto
        <5>9. CASE CommitList(s)
          BY <5>2, <5>9, Committed
        <5> QED
          BY <1>1, <3>2, <5>3, <5>4, <5>5, <5>6, <5>7, <5>8, <5>9 DEF Statement
      <4> QED
        BY <1>r, <4>1, <4>2, <4>3
    <3> QED
      BY <3>1, <3>2
  <2> QED
    BY <1>g, <2>1, <2>2
<1>2. ASSUME NEW s \in Subs, CommitList(s) PROVE Replacing'
  <2>1. /\ pc[s] = "resolve" /\ pc'[s] = "done" /\ UNCHANGED <<targets, isUpdate, before>>
        /\ \A u \in Subs : u # s => pc'[u] = pc[u] /\ deleted'[u] = deleted[u]
    BY <1>2, Committed
  <2>2. \A q \in Patrons : \A i \in items'[q] :
          i \in ItemsOf(s) \/ (i \in items[q] /\ (q = Patron[s] => i \notin deleted[s]))
    BY <1>2, Committed
  <2>3. ASSUME NEW u \in Subs PROVE Gone(u)'
    <3>1. \A v \in before'[u] : v \in Rivals(u)' /\ pc'[v] = "done"
      BY <1>r, <1>v, <2>1 DEF Rivals
    <3>2. s \notin before[u]
      BY <1>r, <2>1
    <3>3. ASSUME NEW i \in items'[Patron[u]], i.sub \in before'[u]
          PROVE  /\ pc'[u] = "deleting" => i \in targets'[u]
                 /\ pc'[u] = "resolve" => i \in deleted'[u]
                 /\ pc'[u] # "done"
      <4>1. i \in items[Patron[u]] /\ (Patron[u] = Patron[s] => i \notin deleted[s])
        BY <2>1, <2>2, <3>2, <3>3, ItemOf, PatronOf
      <4>2. /\ pc[u] = "deleting" => i \in targets[u]
            /\ pc[u] = "resolve" => i \in deleted[u]
            /\ pc[u] # "done"
        BY <1>r, <2>1, <3>3, <4>1
      <4>3. u # s
        BY <2>1, <4>1, <4>2
      <4> QED
        BY <2>1, <4>2, <4>3
    <3> QED
      BY <1>r, <2>1, <3>1, <3>3
  <2> QED
    BY <1>g, <2>3
<1>3. CASE UNCHANGED vars
  BY <1>3, <1>g, <1>r DEF vars, locals, locks, Rivals
<1> QED
  BY <1>1, <1>2, <1>3, CommitOnly DEF Next

LEMMA ColumnedStep ==
  ASSUME Base, Replacing, Columned, [Next]_vars
  PROVE  Columned'
<1>t. /\ pc \in [Subs -> PCs] /\ isUpdate \in [Subs -> BOOLEAN]
      /\ loaded \in [Subs -> ListRow \cup {NoList}]
  BY DEF Base, TypeOK
<1> DEFINE Kept(u) ==
             /\ pc[u] \in {"update", "delete", "deleting", "resolve"} /\ isUpdate[u] =>
                  list[Patron[u]] = loaded[u]
             /\ pc[u] = "done" =>
                  \A c \in {"nameHash", "nameMask"} : list[Patron[u]][c] = Columns(u)[c]
<1>k. \A u \in Subs : Unrivalled(u) => Kept(u)
  BY DEF Columned
<1>g. ASSUME \A u \in Subs : Unrivalled(u)' => Kept(u)'
      PROVE  Columned'
  BY <1>g DEF Columned
<1>1. ASSUME UNCHANGED <<list, items>>, \A u \in Subs : pc'[u] = "done" <=> pc[u] = "done",
             NEW s \in Subs, Statement(s) \/ Abort(s)
      PROVE  Columned'
  <2>1. ASSUME NEW u \in Subs, u # s, Unrivalled(u)' PROVE Kept(u)'
    <3>1. Untouched(u)
      BY <1>1, <2>1, OthersUntouched
    <3>2. Unrivalled(u)
      BY <1>1, <2>1, <3>1 DEF Unrivalled, Untouched, Rivals
    <3> QED
      BY <1>1, <1>k, <3>1, <3>2 DEF Untouched
  <2>2. ASSUME Unrivalled(s)' PROVE Kept(s)'
    <3>1. CASE Lookup(s)
      <4>1. /\ loaded'[s] = list[Patron[s]] /\ pc'[s] \in {"insert", "update"}
        BY <1>t, <3>1 DEF Lookup, Goto
      <4> QED
        BY <1>1, <4>1
    <3>2. CASE ~ Lookup(s)
      <4>1. before'[s] = before[s] /\ isUpdate'[s] = isUpdate[s] /\ loaded'[s] = loaded[s]
        BY <1>1, <3>2 DEF Statement, InsertList, UpdateName, StartDelete, EndDelete,
                          ResolveBook, CommitList, Abort, locals
      <4>2. Kept(s)
        BY <1>1, <1>k, <2>2, <4>1 DEF Unrivalled, Rivals
      <4>3. pc'[s] \in {"update", "delete", "deleting", "resolve"} /\ isUpdate[s] =>
              pc[s] \in {"update", "delete", "deleting", "resolve"}
        <5>1. pc[s] = "insert" => ~ isUpdate[s]
          BY DEF Base, Stages
        <5>2. CASE InsertList(s)
          BY <5>1, <5>2 DEF InsertList
        <5>3. CASE UpdateName(s) \/ StartDelete(s) \/ EndDelete(s) \/ ResolveBook(s)
          BY <5>3 DEF UpdateName, StartDelete, EndDelete, ResolveBook
        <5>4. CASE CommitList(s) \/ Abort(s)
          BY <1>t, <5>4 DEF CommitList, Abort, Goto
        <5> QED
          BY <1>1, <3>2, <5>2, <5>3, <5>4 DEF Statement
      <4> QED
        BY <1>1, <4>1, <4>2, <4>3
    <3> QED
      BY <3>1, <3>2
  <2> QED
    BY <1>g, <2>1, <2>2
<1>2. ASSUME NEW s \in Subs, CommitList(s) PROVE Columned'
  <2>1. /\ pc[s] = "resolve" /\ pc'[s] = "done" /\ UNCHANGED <<loaded, isUpdate, before>>
        /\ \A u \in Subs : u # s => pc'[u] = pc[u]
    BY <1>2, Committed
  <2>2. ASSUME NEW u \in Subs, u # s, Unrivalled(u)' PROVE Kept(u)'
    <3>1. Patron[u] # Patron[s]
      <4>1. Patron[u] = Patron[s] => s \in Rivals(u)
        BY <2>2 DEF Rivals
      <4>2. s \in Rivals(u) => s \in before[u]
        BY <2>1, <2>2 DEF Unrivalled, Rivals
      <4>3. s \notin before[u]
        BY <2>1 DEF Replacing
      <4> QED
        BY <4>1, <4>2, <4>3
    <3>2. list'[Patron[u]] = list[Patron[u]]
      BY <1>2, <3>1, Committed, PatronOf
    <3>3. Unrivalled(u)
      BY <2>1, <2>2 DEF Unrivalled, Rivals
    <3> QED
      BY <1>k, <2>1, <2>2, <3>2, <3>3
  <2>3. ASSUME Unrivalled(s)' PROVE Kept(s)'
    <3>1. Unrivalled(s)
      BY <2>1, <2>3 DEF Unrivalled, Rivals
    <3>2. CASE isUpdate[s]
      <4>1. /\ list[Patron[s]] = loaded[s] /\ loaded[s] \in ListRow
            /\ list'[Patron[s]] = Renamed(s, loaded[s])
        BY <1>2, <1>k, <2>1, <3>1, <3>2, Committed
      <4>2. DOMAIN loaded[s] = {"nameHash", "nameMask", "emailMask"}
        BY <4>1, RowOf
      <4>3. \A c \in {"nameHash", "nameMask"} : Renamed(s, loaded[s])[c] = Columns(s)[c]
        BY <4>2 DEF Renamed, Changed
      <4> QED
        BY <2>1, <4>1, <4>3
    <3>3. CASE ~ isUpdate[s]
      BY <1>2, <2>1, <3>3, Committed
    <3> QED
      BY <3>2, <3>3
  <2> QED
    BY <1>g, <2>2, <2>3
<1>3. CASE UNCHANGED vars
  BY <1>3, <1>g, <1>k DEF vars, locals, Unrivalled, Rivals
<1> QED
  BY <1>1, <1>2, <1>3, CommitOnly DEF Next

\* A submission replaces what was answered before it was made, whatever other
\* submissions of the patron are under way; and if none of those succeeds, the
\* list is this submission's, in its books and in both columns of the name.
THEOREM LaterWins == Spec => []LaterReplacesEarlier
<1>1. Init => Replacing /\ Columned
  BY PatronOf DEF Init, Replacing, Columned
<1>2. Base /\ WholeSubmissions /\ Replacing /\ [Next]_vars => Replacing'
  BY ReplacingStep
<1>3. Base /\ Replacing /\ Columned /\ [Next]_vars => Columned'
  BY ColumnedStep
<1>4. Base /\ WholeSubmissions /\ Replacing /\ Columned => LaterReplacesEarlier
  <2> SUFFICES ASSUME Base, WholeSubmissions, Replacing, Columned,
                      NEW s \in Subs, pc[s] = "done"
               PROVE  /\ \A u \in before[s] : ItemsOf(u) \cap items[Patron[s]] = {}
                      /\ {u \in Rivals(s) : pc[u] = "done"} \subseteq before[s] =>
                           /\ items[Patron[s]] = ItemsOf(s)
                           /\ \A c \in {"nameHash", "nameMask"} :
                                list[Patron[s]][c] = Columns(s)[c]
    BY DEF LaterReplacesEarlier
  <2>1. \A i \in items[Patron[s]] : i.sub \notin before[s]
    BY DEF Replacing
  <2>2. \A u \in before[s] : u \in Subs
    BY DEF Replacing, Rivals
  <2>3. \A u \in before[s] : ItemsOf(u) \cap items[Patron[s]] = {}
    <3>1. ASSUME NEW u \in before[s], NEW i \in ItemsOf(u)
          PROVE  i \notin items[Patron[s]]
      <4>1. i.sub = u
        BY <2>2, ItemOf
      <4> QED
        BY <2>1, <4>1
    <3> QED
      BY <3>1
  <2>4. ASSUME {u \in Rivals(s) : pc[u] = "done"} \subseteq before[s]
        PROVE  /\ items[Patron[s]] = ItemsOf(s)
               /\ \A c \in {"nameHash", "nameMask"} : list[Patron[s]][c] = Columns(s)[c]
    <3>1. Unrivalled(s)
      BY <2>4 DEF Unrivalled
    <3>2. \A i \in items[Patron[s]] : /\ i \in Item /\ i.sub \in Subs /\ pc[i.sub] = "done"
                                      /\ Patron[i.sub] = Patron[s]
      BY PatronOf DEF Base, TypeOK, WholeSubmissions, Item
    <3>3. \A i \in items[Patron[s]] : i.sub = s
      BY <2>1, <3>1, <3>2 DEF Unrivalled, Rivals
    <3>4. PICK i \in items[Patron[s]] : TRUE
      BY PatronOf DEF Base, Stages, WholeSubmissions
    <3>5. \A k \in Item : k.sub = s => k \in items[Patron[s]]
      BY <3>3, <3>4, PatronOf DEF WholeSubmissions, Whole
    <3>6. items[Patron[s]] = ItemsOf(s)
      BY <3>2, <3>3, <3>5, ItemOf
    <3> QED
      BY <3>1, <3>6 DEF Columned
  <2> QED
    BY <2>3, <2>4
<1> QED
  BY <1>1, <1>2, <1>3, <1>4, BaseInvariant, WholeInvariant, PTL DEF Spec

-----------------------------------------------------------------------------
(* BookResolution: one reference.                                          *)

\* The work's page is asked for only after the catalog was, and what is known of
\* the work when the item is about to be stored.
Asked ==
  /\ stage \in {"findByIsbn", "askIsbn", "findByKey"} => "work" \notin asked
  /\ stage = "askWork" => missed
  /\ stage = "onOL" => "work" \in asked /\ workKey \in OnOL
  /\ CatalogFirst

\* A work key that the reference lacks is that of an edition of its ISBN.
Known ==
  /\ stage \in {"findByIsbn", "askIsbn"} => ref.isbn # None
  /\ ref.key = None /\ workKey # None => workKey \in EditionOf[ref.isbn]
  /\ stage = "inCatalog" => workKey \in DOMAIN catalog
  /\ stage # "done" => item = NoItem

LookupInv == LookupTypeOK /\ Asked /\ Known /\ ItemsAreRight

LEMMA CatalogType ==
  ASSUME LookupTypeOK
  PROVE  /\ DOMAIN catalog \subseteq OnOL /\ OnOL \subseteq Works
         /\ catalog \in [DOMAIN catalog -> Isbns \cup {None}]
         /\ \A w \in DOMAIN catalog : catalog[w] = None \/ catalog[w] \in IsbnsFirst[w]
         /\ None \notin Works /\ None \notin Isbns
         /\ ref.key \in Works \cup {None} /\ ref.isbn \in Isbns \cup {None}
<1>1. catalog \in Catalogs /\ CatalogOfOL(catalog) /\ ref \in References
  BY DEF LookupTypeOK
<1>2. PICK S \in SUBSET OnOL : catalog \in [S -> Isbns \cup {None}]
  BY <1>1 DEF Catalogs
<1> QED
  BY <1>1, <1>2, OpenLibraryAssumption, NoneAssumption DEF CatalogOfOL, References

LEMMA LookupInitInv == ASSUME LookupInit PROVE LookupInv
<1>1. /\ catalog \in Catalogs /\ CatalogOfOL(catalog) /\ ref \in References
      /\ ref.key # None \/ ref.isbn # None
      /\ workKey = ref.key /\ asked = {} /\ missed = FALSE /\ item = NoItem
      /\ stage = IF ref.isbn = None THEN "findByKey" ELSE "findByIsbn"
  BY DEF LookupInit
<1>2. ref.key \in Works \cup {None} /\ ref.isbn \in Isbns \cup {None}
  BY <1>1 DEF References
<1>3. LookupTypeOK
  BY <1>1, <1>2 DEF LookupTypeOK, NoItem
<1>4. Asked /\ Known /\ ItemsAreRight
  BY <1>1 DEF Asked, Known, ItemsAreRight, CatalogFirst, NoItem
<1> QED
  BY <1>3, <1>4 DEF LookupInv

\* An ingestion run only adds to the catalog what Open Library has.
LEMMA LookupIngestedInv ==
  ASSUME LookupInv, NEW w \in Works, NEW i \in Isbns \cup {None}, Ingested(w, i)
  PROVE  LookupInv'
<1> DEFINE D == DOMAIN catalog \cup {w}
<1>1. /\ w \in OnOL /\ i \in IsbnsFirst[w] \cup {None}
      /\ catalog' = [u \in D |-> IF u = w THEN i ELSE catalog[u]]
      /\ UNCHANGED <<ref, workKey, asked, missed, item, stage>>
  BY DEF Ingested
<1>2. /\ DOMAIN catalog \subseteq OnOL
      /\ catalog \in [DOMAIN catalog -> Isbns \cup {None}]
      /\ \A u \in DOMAIN catalog : catalog[u] = None \/ catalog[u] \in IsbnsFirst[u]
  BY CatalogType DEF LookupInv
<1>3. D \in SUBSET OnOL /\ catalog' \in [D -> Isbns \cup {None}]
  BY <1>1, <1>2
<1>4. catalog' \in Catalogs
  BY <1>3 DEF Catalogs
<1>5. CatalogOfOL(catalog)'
  BY <1>1, <1>2 DEF CatalogOfOL
<1>6. LookupTypeOK'
  BY <1>1, <1>4, <1>5 DEF LookupInv, LookupTypeOK
<1>7. DOMAIN catalog \subseteq DOMAIN catalog'
  BY <1>1
<1> QED
  BY <1>1, <1>6, <1>7 DEF LookupInv, Asked, Known, ItemsAreRight, CatalogFirst

\* The calls before the item is stored: what changes is the work key, what was
\* asked and whether the catalog had it.
LEMMA LookupStepInv ==
  ASSUME LookupInv, FindByIsbn \/ AskIsbn \/ FindByKey \/ AskWork \/ AskFails
  PROVE  LookupInv'
<1>1. catalog' = catalog /\ ref' = ref /\ item' = item
  BY DEF FindByIsbn, AskIsbn, FindByKey, AskWork, AskFails, Resolve, Ask
<1>2. /\ DOMAIN catalog \subseteq OnOL /\ OnOL \subseteq Works /\ None \notin Works
      /\ \A u \in DOMAIN catalog : catalog[u] = None \/ catalog[u] \in IsbnsFirst[u]
      /\ None \notin Isbns /\ ref.isbn \in Isbns \cup {None}
  BY CatalogType DEF LookupInv
<1>3. /\ asked \subseteq {"isbn", "work"} /\ missed \in BOOLEAN
      /\ workKey \in Works \cup {None}
  BY DEF LookupInv, LookupTypeOK
<1>4. stage # "done" /\ item = NoItem
  BY DEF LookupInv, Known, FindByIsbn, AskIsbn, FindByKey, AskWork, AskFails
<1>5. ItemsAreRight'
  BY <1>1, <1>4 DEF ItemsAreRight, NoItem
<1>6. CASE FindByIsbn
  <2>1. stage = "findByIsbn" /\ ref.isbn # None /\ asked' = asked /\ missed' = missed
    BY <1>6 DEF LookupInv, Known, FindByIsbn, Resolve
  <2>2. CASE \E w \in Found(ref.isbn) : Found(ref.isbn) = {w} /\ Resolve(w, "inCatalog")
    <3>1. PICK w \in DOMAIN catalog : /\ catalog[w] = ref.isbn
                                      /\ workKey' = w /\ stage' = "inCatalog"
      BY <2>2 DEF Found, Resolve
    <3>2. w \in OnOL /\ w \in Works /\ w # None /\ ref.isbn \in IsbnsFirst[w]
      BY <1>2, <2>1, <3>1
    <3>3. w \in EditionOf[ref.isbn]
      BY <3>2, OpenLibraryAssumption
    <3>4. LookupTypeOK'
      BY <1>1, <2>1, <3>1, <3>2 DEF LookupInv, LookupTypeOK
    <3>5. Asked' /\ Known'
      BY <1>1, <1>4, <2>1, <3>1, <3>3 DEF LookupInv, Asked, Known, CatalogFirst, NoItem
    <3> QED
      BY <1>5, <3>4, <3>5 DEF LookupInv
  <2>3. CASE Resolve(workKey, "ambiguous")
    <3>1. workKey' = workKey /\ stage' = "ambiguous"
      BY <2>3 DEF Resolve
    <3> QED
      BY <1>1, <1>4, <1>5, <2>1, <3>1
         DEF LookupInv, LookupTypeOK, Asked, Known, CatalogFirst, NoItem
  <2>4. CASE Resolve(workKey, IF workKey = None THEN "askIsbn" ELSE "findByKey")
    <3>1. workKey' = workKey /\ stage' = IF workKey = None THEN "askIsbn" ELSE "findByKey"
      BY <2>4 DEF Resolve
    <3> QED
      BY <1>1, <1>4, <1>5, <2>1, <3>1
         DEF LookupInv, LookupTypeOK, Asked, Known, CatalogFirst, NoItem
  <2> QED
    BY <1>6, <2>2, <2>3, <2>4 DEF FindByIsbn
<1>7. CASE AskIsbn
  <2>1. /\ stage = "askIsbn" /\ ref.isbn # None /\ "work" \notin asked
        /\ asked' = asked \cup {"isbn"} /\ missed' = missed
    BY <1>7 DEF LookupInv, Known, Asked, AskIsbn, Ask
  <2>2. CASE \E w \in EditionOf[ref.isbn] : Ask("isbn", w, "findByKey")
    <3>1. PICK w \in EditionOf[ref.isbn] : workKey' = w /\ stage' = "findByKey"
      BY <2>2 DEF Ask
    <3>2. w \in Works /\ w # None
      BY <1>2, <2>1, OpenLibraryAssumption
    <3>3. LookupTypeOK'
      BY <1>1, <1>3, <2>1, <3>1, <3>2 DEF LookupInv, LookupTypeOK
    <3>4. Asked' /\ Known'
      BY <1>1, <1>4, <2>1, <3>1 DEF LookupInv, Asked, Known, CatalogFirst, NoItem
    <3> QED
      BY <1>5, <3>3, <3>4 DEF LookupInv
  <2>3. CASE Ask("isbn", None, "unresolved")
    <3>1. workKey' = None /\ stage' = "unresolved"
      BY <2>3 DEF Ask
    <3> QED
      BY <1>1, <1>3, <1>4, <1>5, <2>1, <3>1
         DEF LookupInv, LookupTypeOK, Asked, Known, CatalogFirst, NoItem
  <2> QED
    BY <1>7, <2>2, <2>3 DEF AskIsbn
<1>8. CASE FindByKey
  <2>1. /\ stage = "findByKey" /\ "work" \notin asked /\ workKey # None
        /\ stage' = IF workKey \in DOMAIN catalog THEN "inCatalog" ELSE "askWork"
        /\ missed' = (workKey \notin DOMAIN catalog)
        /\ workKey' = workKey /\ asked' = asked
    BY <1>8 DEF LookupInv, LookupTypeOK, Asked, FindByKey
  <2>2. missed' \in BOOLEAN
    BY <2>1
  <2>3. LookupTypeOK'
    BY <1>1, <2>1, <2>2 DEF LookupInv, LookupTypeOK
  <2>4. stage' = "askWork" => missed'
    BY <2>1
  <2>5. Asked' /\ Known'
    BY <1>1, <1>4, <2>1, <2>4 DEF LookupInv, Asked, Known, CatalogFirst, NoItem
  <2> QED
    BY <1>5, <2>3, <2>5 DEF LookupInv
<1>9. CASE AskWork
  <2>1. /\ stage = "askWork" /\ missed /\ asked' = asked \cup {"work"} /\ missed' = missed
        /\ workKey' = workKey /\ stage' \in {"onOL", "unresolved"}
        /\ stage' = "onOL" => workKey \in OnOL
    BY <1>9 DEF LookupInv, Asked, AskWork, Ask
  <2>2. workKey # None
    BY <2>1 DEF LookupInv, LookupTypeOK
  <2> QED
    BY <1>1, <1>3, <1>4, <1>5, <2>1, <2>2
       DEF LookupInv, LookupTypeOK, Asked, Known, CatalogFirst, NoItem
<1>10. CASE AskFails
  BY <1>1, <1>4, <1>5, <1>10
     DEF LookupInv, LookupTypeOK, Asked, Known, CatalogFirst, NoItem, AskFails
<1> QED
  BY <1>6, <1>7, <1>8, <1>9, <1>10

\* The item says what was found out.
LEMMA LookupStoreInv ==
  ASSUME LookupInv, StoreFound \/ StoreOnOL \/ StoreUnresolved
  PROVE  LookupInv'
<1>1. /\ stage' = "done"
      /\ UNCHANGED <<catalog, ref, workKey, asked, missed>>
  BY DEF StoreFound, StoreOnOL, StoreUnresolved, Store
<1>2. /\ DOMAIN catalog \subseteq OnOL /\ OnOL \subseteq Works
      /\ ref.key \in Works \cup {None} /\ None \notin Works
  BY CatalogType DEF LookupInv
<1>3. Asked'
  BY <1>1 DEF LookupInv, Asked, CatalogFirst
<1>4. Known'
  BY <1>1 DEF LookupInv, Known
<1>5. ASSUME item' \in [key : Works \cup {None}, book : Works \cup {None},
                        resolved : BOOLEAN]
      PROVE  LookupTypeOK'
  BY <1>1, <1>5 DEF LookupInv, LookupTypeOK
<1>6. CASE StoreFound
  <2>1. /\ workKey \in DOMAIN catalog
        /\ item' = [key |-> workKey, book |-> workKey, resolved |-> TRUE]
    BY <1>6 DEF LookupInv, Known, StoreFound, Store
  <2>2. workKey \in Works /\ workKey \in OnOL /\ workKey # None
    BY <1>2, <2>1
  <2>3. LookupTypeOK'
    BY <1>5, <2>1, <2>2
  <2>4. ItemsAreRight'
    BY <1>1, <2>1, <2>2 DEF LookupInv, Known, ItemsAreRight
  <2> QED
    BY <1>3, <1>4, <2>3, <2>4 DEF LookupInv
<1>7. CASE StoreOnOL
  <2>1. /\ workKey \in OnOL /\ "work" \in asked
        /\ item' = [key |-> workKey, book |-> None, resolved |-> TRUE]
    BY <1>7 DEF LookupInv, Asked, StoreOnOL, Store
  <2>2. workKey \in Works /\ workKey # None
    BY <1>2, <2>1
  <2>3. LookupTypeOK'
    BY <1>5, <2>1, <2>2
  <2>4. ItemsAreRight'
    BY <1>1, <2>1, <2>2 DEF LookupInv, Known, ItemsAreRight
  <2> QED
    BY <1>3, <1>4, <2>3, <2>4 DEF LookupInv
<1>8. CASE StoreUnresolved
  <2>1. item' = [key |-> ref.key, book |-> None, resolved |-> FALSE]
    BY <1>8 DEF StoreUnresolved, Store
  <2>2. LookupTypeOK'
    BY <1>2, <1>5, <2>1
  <2>3. ItemsAreRight'
    BY <2>1 DEF ItemsAreRight
  <2> QED
    BY <1>3, <1>4, <2>2, <2>3 DEF LookupInv
<1> QED
  BY <1>6, <1>7, <1>8

LEMMA LookupInvariance == LookupSpec => []LookupInv
<1>1. ASSUME LookupInv, UNCHANGED lookupVars PROVE LookupInv'
  BY <1>1 DEF LookupInv, LookupTypeOK, Asked, Known, ItemsAreRight, CatalogFirst, CatalogOfOL, lookupVars
<1>2. LookupInv /\ [LookupNext]_lookupVars => LookupInv'
  BY <1>1, LookupIngestedInv, LookupStepInv, LookupStoreInv DEF LookupNext, Ended
<1> QED
  BY <1>2, LookupInitInv, PTL DEF LookupSpec

\* Whatever is ingested between the lookups, a reference and its item keep their types,
\* and no lookup by work key is made without one.
THEOREM LookupTypeCorrect == LookupSpec => []LookupTypeOK
<1>1. LookupInv => LookupTypeOK
  BY DEF LookupInv
<1> QED
  BY <1>1, LookupInvariance, PTL

\* Open Library is asked for a work's page only after the catalog was looked at for
\* that work and did not have it.
THEOREM CatalogIsAskedFirst == LookupSpec => []CatalogFirst
<1>1. LookupInv => CatalogFirst
  BY DEF LookupInv, Asked
<1> QED
  BY <1>1, LookupInvariance, PTL

\* A resolved item has a work that Open Library knows, one with an edition of the ISBN
\* if that was all it was given, and the catalog's book of this work or none.
THEOREM ItemsStayRight == LookupSpec => []ItemsAreRight
<1>1. LookupInv => ItemsAreRight
  BY DEF LookupInv
<1> QED
  BY <1>1, LookupInvariance, PTL

------------
=============================================================================
