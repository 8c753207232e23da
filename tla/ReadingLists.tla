---------------------------- MODULE ReadingLists ----------------------------
(***************************************************************************)
(* ReadingListService.submit: concurrent submissions of patrons' reading   *)
(* lists, each one transaction of the API server on PostgreSQL at its      *)
(* default isolation level, READ COMMITTED. A submission looks its         *)
(* patron's list up, inserts it or deletes its items, resolves every book  *)
(* reference (calls to Open Library, where other requests get their turn)  *)
(* and commits the list with the new items.                                *)
(*                                                                         *)
(* What PostgreSQL does is modelled from these uses: a statement sees what *)
(* is committed when it starts and waits for the transaction that holds a  *)
(* row or a unique key it needs.                                           *)
(***************************************************************************)
EXTENDS PII, FiniteSets

CONSTANTS Subs,       \* submissions
          TenantOf,   \* TenantOf[s]: the tenant s is sent to
          Email, Name,  \* Email[s], Name[s]: what s says of its patron
          NumBooks,   \* len(submission.books)
          NoList,     \* there is no list
          NoSub       \* nobody

ASSUME SubsAssumption == \A s \in Subs : Email[s] \in Addresses /\ Name[s] \in FullNames
ASSUME NumBooksAssumption == NumBooks \in Nat \ {0}
ASSUME NothingAssumption == NoSub \notin Subs

VARIABLES list,        \* the committed list of each patron: its PII, or NoList
          items,       \* its committed items, each [sub, book]
          inserting,   \* the transaction that inserted the list and is still open
          nameLock,    \* the open transaction that updated the list's row
          deleted,     \* items deleted by each open transaction
          targets,     \* items its DELETE statement saw
          loaded,      \* what submit read into its object
          isUpdate,    \* is_update
          left,        \* how many book references are not resolved yet
          pc,          \* the next statement of each submission
          before       \* history: submissions answered before this one started

locks == <<inserting, nameLock, deleted>>
locals == <<targets, loaded, isUpdate, left>>
vars == <<list, items, locks, locals, pc, before>>

\* uq_reading_lists_tenant_email: one list for a tenant and an email hash.
Patron == [s \in Subs |-> <<TenantOf[s], HashedEmail(Email[s])>>]
Patrons == {Patron[s] : s \in Subs}

\* The columns filled from submission s.
Columns(s) == [nameHash |-> HashedName(Name[s]), nameMask |-> MaskName(Name[s]),
               emailMask |-> MaskEmail(Email[s])]

\* A row of reading_lists: a later submission may change some of the columns.
ListRow == [nameHash : {Columns(s).nameHash : s \in Subs},
            nameMask : {Columns(s).nameMask : s \in Subs},
            emailMask : {Columns(s).emailMask : s \in Subs}]

ASSUME NoListAssumption == NoList \notin ListRow

Item == [sub : Subs, book : 1..NumBooks]
ItemsOf(s) == [sub : {s}, book : 1..NumBooks]
Rivals(s) == {u \in Subs \ {s} : Patron[u] = Patron[s]}

PCs == {"new", "insert", "update", "delete", "deleting", "resolve",
        "done", "conflict", "failed"}
OpenPCs == {"insert", "update", "delete", "deleting", "resolve"}

Init == /\ list = [p \in Patrons |-> NoList]
        /\ items = [p \in Patrons |-> {}]
        /\ inserting = [p \in Patrons |-> NoSub]
        /\ nameLock = [p \in Patrons |-> NoSub]
        /\ deleted = [s \in Subs |-> {}]
        /\ targets = [s \in Subs |-> {}]
        /\ loaded = [s \in Subs |-> NoList]
        /\ isUpdate = [s \in Subs |-> FALSE]
        /\ left = [s \in Subs |-> NumBooks]
        /\ pc = [s \in Subs |-> "new"]
        /\ before = [s \in Subs |-> {}]

Goto(s, label) == pc' = [pc EXCEPT ![s] = label]

\* select(ReadingList).where(tenant_id, email_hash)
Lookup(s) == /\ pc[s] = "new"
             /\ loaded' = [loaded EXCEPT ![s] = list[Patron[s]]]
             /\ isUpdate' = [isUpdate EXCEPT ![s] = list[Patron[s]] # NoList]
             /\ Goto(s, IF list[Patron[s]] = NoList THEN "insert" ELSE "update")
             /\ before' = [before EXCEPT ![s] = {u \in Rivals(s) : pc[u] = "done"}]
             /\ UNCHANGED <<list, items, locks, targets, left>>

\* Wrong variant: no unique constraint on tenant and email hash.
InsertListUnconstrained(s) ==
  /\ pc[s] = "insert" /\ inserting[Patron[s]] = NoSub
  /\ inserting' = [inserting EXCEPT ![Patron[s]] = s]
  /\ Goto(s, "resolve")
  /\ UNCHANGED <<list, items, nameLock, deleted, locals, before>>

\* INSERT waits for an open insert of the same key, then meets
\* uq_reading_lists_tenant_email if that one was committed.
InsertList(s) == /\ pc[s] = "insert" /\ inserting[Patron[s]] = NoSub
                 /\ IF list[Patron[s]] = NoList
                    THEN /\ inserting' = [inserting EXCEPT ![Patron[s]] = s]
                         /\ Goto(s, "resolve")
                    ELSE /\ Goto(s, "conflict")
                         /\ UNCHANGED inserting
                 /\ UNCHANGED <<list, items, nameLock, deleted, locals, before>>

\* Attributes that are given a new value; the address is not among them.
Changed(s) == {c \in {"nameHash", "nameMask"} : Columns(s)[c] # loaded[s][c]}

\* Wrong variant: the items are only cleared along with a change of the name.
UpdateNameOrKeep(s) ==
  /\ pc[s] = "update"
  /\ \/ Changed(s) = {} /\ UNCHANGED nameLock
     \/ /\ Changed(s) # {} /\ nameLock[Patron[s]] = NoSub
        /\ nameLock' = [nameLock EXCEPT ![Patron[s]] = s]
  /\ Goto(s, IF "nameHash" \in Changed(s) THEN "delete" ELSE "resolve")
  /\ UNCHANGED <<list, items, inserting, deleted, locals, before>>

\* The session emits UPDATE before the DELETE, and only for the columns that
\* differ from those it loaded; UPDATE waits for an open one of the same row.
UpdateName(s) == /\ pc[s] = "update"
                 /\ \/ /\ Changed(s) = {}
                       /\ UNCHANGED nameLock
                    \/ /\ Changed(s) # {}
                       /\ nameLock[Patron[s]] = NoSub
                       /\ nameLock' = [nameLock EXCEPT ![Patron[s]] = s]
                 /\ Goto(s, "delete")
                 /\ UNCHANGED <<list, items, inserting, deleted, locals, before>>

\* DELETE FROM reading_list_items: its snapshot, ...
StartDelete(s) == /\ pc[s] = "delete"
                  /\ targets' = [targets EXCEPT ![s] = items[Patron[s]]]
                  /\ Goto(s, "deleting")
                  /\ UNCHANGED <<list, items, locks, loaded, isUpdate, left, before>>

\* Wrong variant: commit instead of flush after the DELETE.
EndDeleteCommits(s) ==
  /\ pc[s] = "deleting"
  /\ \A u \in Rivals(s) : deleted[u] \cap targets[s] = {}
  /\ items' = [items EXCEPT ![Patron[s]] = @ \ targets[s]]
  /\ Goto(s, "resolve")
  /\ UNCHANGED <<list, locks, locals, before>>

\* ... and its end, when no other open transaction has deleted one of the
\* items it saw; items gone by then are skipped, later ones are not seen.
EndDelete(s) == /\ pc[s] = "deleting"
                /\ \A u \in Rivals(s) : deleted[u] \cap targets[s] = {}
                /\ deleted' = [deleted EXCEPT ![s] = targets[s] \cap items[Patron[s]]]
                /\ Goto(s, "resolve")
                /\ UNCHANGED <<list, items, inserting, nameLock, locals, before>>

\* Wrong variant: commit after every book.
ResolveBookCommits(s) ==
  /\ pc[s] = "resolve" /\ left[s] > 0
  /\ left' = [left EXCEPT ![s] = @ - 1]
  /\ items' = [items EXCEPT ![Patron[s]] = @ \cup {[sub |-> s, book |-> left[s]]}]
  /\ UNCHANGED <<list, locks, targets, loaded, isUpdate, pc, before>>

\* Resolved or not, the reference becomes an item of the list.
ResolveBook(s) == /\ pc[s] = "resolve" /\ left[s] > 0
                  /\ left' = [left EXCEPT ![s] = @ - 1]
                  /\ UNCHANGED <<list, items, locks, targets, loaded, isUpdate, pc,
                                 before>>

\* Wrong variant: a transaction that never ends keeps its lock on the list.
UnlockInsertOnly(s) ==
  /\ inserting' = [p \in Patrons |-> IF inserting[p] = s THEN NoSub ELSE inserting[p]]
  /\ deleted' = [deleted EXCEPT ![s] = {}]
  /\ UNCHANGED nameLock

Unlock(s) == /\ inserting' = [p \in Patrons |-> IF inserting[p] = s THEN NoSub
                                                                   ELSE inserting[p]]
             /\ nameLock' = [p \in Patrons |-> IF nameLock[p] = s THEN NoSub
                                                                 ELSE nameLock[p]]
             /\ deleted' = [deleted EXCEPT ![s] = {}]

CommitList(s) ==
  /\ pc[s] = "resolve" /\ left[s] = 0
  /\ items' = [items EXCEPT ![Patron[s]] = (@ \ deleted[s]) \cup ItemsOf(s)]
  /\ list' = [list EXCEPT ![Patron[s]] =
                IF inserting[Patron[s]] = s THEN Columns(s)
                ELSE [c \in DOMAIN @ |-> IF c \in Changed(s) THEN Columns(s)[c] ELSE @[c]]]
  /\ Unlock(s)
  /\ Goto(s, "done")
  /\ UNCHANGED <<locals, before>>

\* An exception nobody handles (a connection error, two books of one ISBN, a
\* database failure) closes the session: the transaction rolls back.
Abort(s) == /\ pc[s] \in OpenPCs
            /\ Unlock(s)
            /\ Goto(s, "failed")
            /\ UNCHANGED <<list, items, locals, before>>

Statement(s) == \/ Lookup(s) \/ InsertList(s) \/ UpdateName(s) \/ StartDelete(s)
                \/ EndDelete(s) \/ ResolveBook(s) \/ CommitList(s)

Next == \E s \in Subs : Statement(s) \/ Abort(s)

Spec == Init /\ [][Next]_vars

\* The server goes on with the requests it has accepted, and PostgreSQL wakes
\* a waiting statement up.
Fairness == \A s \in Subs : WF_vars(pc[s] # "new" /\ Statement(s))

FairSpec == Spec /\ Fairness

-----------------------------------------------------------------------------
(* Properties.                                                             *)

\* The values of rows, locks and locals; a lock is held by an open submission.
TypeOK == /\ list \in [Patrons -> ListRow \cup {NoList}]
          /\ loaded \in [Subs -> ListRow \cup {NoList}]
          /\ items \in [Patrons -> SUBSET Item]
          /\ inserting \in [Patrons -> Subs \cup {NoSub}]
          /\ nameLock \in [Patrons -> Subs \cup {NoSub}]
          /\ deleted \in [Subs -> SUBSET Item] /\ targets \in [Subs -> SUBSET Item]
          /\ isUpdate \in [Subs -> BOOLEAN]
          /\ \A s \in Subs : isUpdate[s] <=> loaded[s] # NoList
          /\ left \in [Subs -> 0..NumBooks]
          /\ pc \in [Subs -> PCs]
          /\ before \in [Subs -> SUBSET Subs]
          /\ \A p \in Patrons : \A s \in {inserting[p], nameLock[p]} \ {NoSub} :
               pc[s] \in OpenPCs

\* A list that exists has all the books of a submission that succeeded, and
\* nothing that is not part of one: no failure between the DELETE and the commit,
\* and no rival, leaves it empty or with some of the books.
ListsAreWhole ==
  \A p \in Patrons :
    LET whole == {s \in Subs : pc[s] = "done" /\ ItemsOf(s) \subseteq items[p]}
    IN /\ items[p] = UNION {ItemsOf(s) : s \in whole}
       /\ list[p] # NoList => whole # {}

\* A submission replaces what was answered before it was made, whatever other
\* submissions of the patron are under way; and if none of those succeeds, the
\* list is this submission's, in its books and in both columns of the name.
LaterReplacesEarlier ==
  \A s \in Subs : pc[s] = "done" =>
    /\ \A u \in before[s] : ItemsOf(u) \cap items[Patron[s]] = {}
    /\ {u \in Rivals(s) : pc[u] = "done"} \subseteq before[s] =>
         /\ items[Patron[s]] = ItemsOf(s)
         /\ \A c \in {"nameHash", "nameMask"} : list[Patron[s]][c] = Columns(s)[c]

\* Of the submissions of a patron exactly one is told that it made the list,
\* however many found none, and however the address was spelt.
OneCreator ==
  \A p \in Patrons :
    Cardinality({s \in Subs : Patron[s] = p /\ pc[s] = "done" /\ ~ isUpdate[s]})
      = IF list[p] = NoList THEN 0 ELSE 1

\* Every submission is answered: the waits of INSERT, UPDATE and DELETE for
\* each other's transactions never form a circle, and a failed one lets go.
EveryoneAnswered ==
  \A s \in Subs : pc[s] # "new" ~> pc[s] \in {"done", "conflict", "failed"}

\* "Resubmitting with the same email replaces the previous reading list items
\* rather than appending": a list has the books of one submission.
OneSubmissionPerList ==
  \A p \in Patrons : \A i, k \in items[p] : i.sub = k.sub

\* "Update name in case it changed": the list bears the name given in the
\* submission its books come from.
NameMatchesBooks ==
  \A p \in Patrons : \A s \in Subs :
    items[p] = ItemsOf(s) => list[p].nameHash = Columns(s).nameHash

\* The hash and the mask of a list's name come from one submission.
NameIsOneSubmissions ==
  \A p \in Patrons : list[p] # NoList =>
    \E s \in Subs : \A c \in {"nameHash", "nameMask"} : list[p][c] = Columns(s)[c]
=============================================================================
