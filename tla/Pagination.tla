----------------------------- MODULE Pagination -----------------------------
(***************************************************************************)
(* The paginated listings of a tenant: books by title, and ingestion jobs, *)
(* log entries and reading lists newest first. They are made alike: COUNT, *)
(* SELECT with ORDER BY, OFFSET and LIMIT, and for books and reading lists *)
(* one more SELECT for the related rows; three statements, each with a     *)
(* snapshot of its own, while ingestion and submissions go on.             *)
(*                                                                         *)
(* A client reads page after page until one is not full. A row's place is  *)
(* its rank by title, or by age counted backwards: created_at is the time  *)
(* at which a transaction began, so rows may be committed at any place,    *)
(* and rows of one transaction share theirs. Rows are never deleted, but a *)
(* later ingestion may give a book another title, and may take it out of   *)
(* what the filters of the request select or into it.                      *)
(***************************************************************************)
EXTENDS Naturals, FiniteSets, Sequences, SequencesExt

CONSTANTS Ids,          \* ids of rows
          Own,          \* those that belong to the tenant of the requests
          Places,       \* ranks in the order of the listing
          PageSize,     \* page_size
          MaxVersion    \* bound: changes of a row

ASSUME IdsAssumption == Own \subseteq Ids /\ IsFiniteSet(Ids)
ASSUME BoundsAssumption ==
  Places \subseteq Nat \ {0} /\ PageSize \in Nat \ {0} /\ MaxVersion \in Nat \ {0}

VARIABLES place,      \* the place of each row; Hidden: no filter selects it
          version,    \* of a row and of what is related to it; 0: no row yet
          pc,         \* the next statement of the handler, or "answered"
          page,       \* the page asked for, 0 for one row by its id
          total,
          items,      \* the rows read, with the version of each
          related,    \* the versions of the related rows read for them
          seen,       \* history: rows on the pages of this walk
          atStart,    \* history: rows selected when the walk began
          disturbed,  \* history: those that moved, shared a place or lost a
                      \* predecessor since
          departed    \* history: rows that left the selection since COUNT

table == <<place, version>>
answer == <<page, total, items, related>>
history == <<seen, atStart, disturbed, departed>>
vars == <<table, pc, answer, history>>

Hidden == 0
Exists(i) == version[i] > 0

\* Wrong variant: the tenant is not among the conditions.
SelectedOfAllTenants == {i \in Ids : Exists(i) /\ place[i] # Hidden}

\* where(tenant_id == ...) and the filters of the request
Selected == {i \in Own : Exists(i) /\ place[i] # Hidden}

Init == /\ place = [i \in Ids |-> Hidden] /\ version = [i \in Ids |-> 0]
        /\ pc = "idle" /\ page = 1 /\ total = 0
        /\ items = <<>> /\ related = <<>>
        /\ seen = {} /\ atStart = {} /\ disturbed = {}
        /\ departed = {}

-----------------------------------------------------------------------------
(* The writers: ingestion, submissions, refresh.                           *)

\* Rows of one transaction get one created_at; titles are free.
Create(new) == /\ \A i \in new : ~ Exists(i)
               /\ place' \in {[i \in Ids |-> IF i \in new THEN p[i] ELSE place[i]] :
                                p \in [new -> Places \cup {Hidden}]}
               /\ version' = [i \in Ids |-> IF i \in new THEN 1 ELSE version[i]]
               /\ disturbed' = disturbed \cup
                    {i \in atStart : \E k \in new \cap Own : place'[k] = place[i]}
               /\ UNCHANGED <<pc, answer, seen, atStart, departed>>

Precedes(i, k) == place[i] < place[k]

\* Another ingestion of a book, or a resubmission of a list, which keeps its
\* place.
Change(i) == /\ Exists(i) /\ version[i] < MaxVersion
             /\ place' \in {[place EXCEPT ![i] = p] : p \in Places \cup {Hidden}}
             /\ version' = [version EXCEPT ![i] = @ + 1]
             /\ LET moved == place'[i] # place[i] IN
                /\ disturbed' =
                     IF ~ moved \/ i \notin Own THEN disturbed
                     ELSE disturbed \cup {k \in atStart :
                            \/ k = i \/ place'[k] = place'[i]
                            \/ Precedes(i, k) /\ place[i] # Hidden
                                 /\ place'[i] \notin 1..(place[k] - 1)}
                /\ departed' = IF moved /\ i \in Selected /\ pc = "select"
                               THEN departed \cup {i} ELSE departed
             /\ UNCHANGED <<pc, answer, seen, atStart>>

-----------------------------------------------------------------------------
(* The handlers.                                                           *)

SharePlace(S) == {i \in S : \E k \in S \ {i} : place[i] = place[k]}

\* select(func.count())
CountRows(p) == /\ total' = Cardinality(Selected)
                /\ page' = p
                /\ pc' = "select"
                /\ departed' = {}
                /\ UNCHANGED <<table, items, related>>

FirstPage == /\ pc = "idle"
             /\ CountRows(1)
             /\ seen' = {} /\ atStart' = Selected /\ disturbed' = SharePlace(Selected)

NextPage == /\ pc = "answered" /\ page > 0 /\ Len(items) = PageSize
            /\ CountRows(page + 1)
            /\ UNCHANGED <<seen, atStart, disturbed>>

\* Wrong variant: no ORDER BY.
OrdersOfAnyKind == SetToSeqs(Selected)

\* ORDER BY a column that is not unique: ties come in any order.
Orders == {s \in SetToSeqs(Selected) :
             \A i, k \in DOMAIN s : Precedes(s[i], s[k]) => i < k}

\* Wrong variant: the first page is number 0.
OffsetFromZero == page * PageSize

Offset == (page - 1) * PageSize

Read(i) == [id |-> i, version |-> version[i]]

SelectPage == /\ pc = "select"
              /\ \E s \in Orders :
                   LET rows == SubSeq(s, Offset + 1, Min({Offset + PageSize, Len(s)})) IN
                   /\ items' = [n \in DOMAIN rows |-> Read(rows[n])]
                   /\ seen' = seen \cup ToSet(rows)
              /\ pc' = "relate"
              /\ UNCHANGED <<table, page, total, related, atStart, disturbed,
                             departed>>

\* Wrong variant: the related rows of the page before are kept.
LoadRelatedOnce == /\ pc = "relate"
                   /\ related' = [n \in DOMAIN items |->
                        IF n \in DOMAIN related THEN related[n]
                                                ELSE version[items[n].id]]
                   /\ pc' = "answered"
                   /\ UNCHANGED <<table, page, total, items, history>>

\* selectinload, and the answer
LoadRelated == /\ pc = "relate"
               /\ related' = [n \in DOMAIN items |-> version[items[n].id]]
               /\ pc' = "answered"
               /\ UNCHANGED <<table, page, total, items, history>>

\* The row with this id and the tenant's, or 404.
GetRow(i) == /\ pc = "idle"
             /\ page' = 0
             /\ items' = IF i \in Own /\ Exists(i) THEN <<Read(i)>> ELSE <<>>
             /\ pc' = "relate"
             /\ UNCHANGED <<table, total, related, history>>

TotalPages == (total + PageSize - 1) \div PageSize

Write == \/ \E new \in SUBSET Ids : new # {} /\ Create(new)
         \/ \E i \in Ids : Change(i)

Next == \/ Write \/ FirstPage \/ NextPage \/ SelectPage \/ LoadRelated
        \/ \E i \in Ids : GetRow(i)

Spec == Init /\ [][Next]_vars

-----------------------------------------------------------------------------
(* Properties.                                                             *)

ReadRows == {items[n].id : n \in DOMAIN items}

\* Rows, answers and histories have their ranges.
TypeOK == /\ place \in [Ids -> Places \cup {Hidden}]
          /\ version \in [Ids -> 0..MaxVersion]
          /\ pc \in {"idle", "select", "relate", "answered"}
          /\ page \in 0..(Cardinality(Own) + 1) /\ total \in 0..Cardinality(Own)
          /\ items \in Seq([id : Ids, version : 1..MaxVersion])
          /\ related \in Seq(1..MaxVersion)
          /\ atStart \subseteq Own /\ seen \subseteq Own
          /\ disturbed \subseteq atStart /\ departed \subseteq Own

\* An answer shows rows of the tenant only, none twice and none with related
\* rows older than itself, however the statements fall between commits.
AnswersAreSound ==
  /\ ReadRows \subseteq Own /\ Cardinality(ReadRows) = Len(items)
  /\ pc = "answered" =>
       /\ DOMAIN related = DOMAIN items
       /\ \A n \in DOMAIN items : related[n] >= items[n].version

\* COUNT and SELECT may see different tables, but a page holds what the total
\* promises, less the rows that were re-ingested out of the selection; a page
\* up to total_pages is empty for no other reason.
PagesHoldTheTotal ==
  pc \in {"relate", "answered"} /\ page > 0 =>
    /\ \/ Len(items) = PageSize
       \/ Offset + Len(items) + Cardinality(departed) >= total
    /\ page <= TotalPages /\ departed = {} => items # <<>>

\* A client that reads on to a page that is not full has seen every row that was
\* there when it began, whatever rows were added meanwhile, unless the row or one
\* before it moved or its place is not its own.
NothingMissed ==
  pc = "answered" /\ page > 0 /\ Len(items) < PageSize => atStart \ disturbed \subseteq seen

\* The same of a client that stops at total_pages.
TotalPagesSuffice ==
  pc = "answered" /\ page > 0 /\ page >= TotalPages => atStart \ disturbed \subseteq seen

\* The same without regard to places: jobs, logs and reading lists never move,
\* but may have one created_at.
NoneMissedAmongEquals ==
  pc = "answered" /\ page > 0 /\ Len(items) < PageSize /\ (\A i \in Ids : version[i] <= 1)
    => atStart \subseteq seen
=============================================================================
