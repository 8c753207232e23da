--------------------------- MODULE CatalogIngestion ---------------------------
(***************************************************************************)
(* IngestionService.ingest for one tenant: a search of Open Library, then  *)
(* every work found is completed from its own page and its authors' pages  *)
(* and stored, and one commit at the end makes the books, the authors, the *)
(* links and the log row visible together. Runs follow each other (one     *)
(* worker process): the daily refresh and resubmitted queries ingest the   *)
(* same works again.                                                       *)
(*                                                                         *)
(* A name stands for the author who bears it, the "Unknown" of a nameless  *)
(* author's page included: the rows are right when key and name belong     *)
(* together. Of a book's columns there are the title, which every update   *)
(* overwrites, and one of those that an update keeps if it lacks them.     *)
(***************************************************************************)
EXTENDS Naturals, Sequences, FiniteSets, SequencesExt

CONSTANTS Works,            \* works of Open Library
          Authors,          \* its authors: keys and names
          AuthorsOf,        \* AuthorsOf[w]: the authors of w in order
          MaxRuns,          \* bound: runs of ingest
          MaxFaults,        \* bound: failed works, failed searches and crashes
          InlineGaps,       \* search results may lack single names or keys
          AuthorPagesFail   \* get_author may end in an OpenLibraryError

ASSUME AuthorsOfAssumption == AuthorsOf \in [Works -> Seq(Authors)]
ASSUME KeysAssumption == \A a \in Authors : a \notin {"unknown"} \X Nat
ASSUME BoundsAssumption == MaxRuns \in Nat /\ MaxFaults \in Nat
ASSUME ModesAssumption == InlineGaps \in BOOLEAN /\ AuthorPagesFail \in BOOLEAN

VARIABLES db,        \* what is committed: books, the fields known of them, authors,
             \* links of books and authors, logs
          session,   \* what the session's transaction sees
          log,       \* the log row under way; its counts are kept as sets of works
          todo,      \* search results not handled yet
          poisoned,  \* a flush failed: the session refuses every statement
          gapMet,    \* history: names or keys stored lacked more than a tail
          pc, runsLeft, faultsLeft

vars == <<db, session, log, todo, poisoned, gapMet, pc, runsLeft, faultsLeft>>

\* What can be known of a book. Without "title" it bears the client's "Unknown", or
\* an empty title.
Fields == {"title", "cover"}
Optional == Fields \ {"title"}
Known(tables, w) == {f \in Fields : <<w, f>> \in tables.fields}

Keys(tables) == {a.key : a \in tables.authors}
IsUnknown(key) == key \notin Authors

NewLog == [status |-> "running", fetched |-> {}, stored |-> {}, failed |-> {}]

Init == /\ db = [books |-> {}, fields |-> {}, authors |-> {}, links |-> {}, logs |-> <<>>]
        /\ session = db
        /\ log = NewLog
        /\ todo = {}
        /\ poisoned = FALSE /\ gapMet = FALSE
        /\ pc = "idle"
        /\ runsLeft = MaxRuns
        /\ faultsLeft = MaxFaults

Spend == faultsLeft > 0 /\ faultsLeft' = faultsLeft - 1

-----------------------------------------------------------------------------
(* What Open Library answers.                                              *)

\* What may remain of s when some of its entries are missing.
Remains(s) ==
  UNION {{[n \in 1..k |-> s[at[n]]] :
            at \in {p \in [1..k -> DOMAIN s] : \A m, n \in 1..k : m < n => p[m] < p[n]}}
         : k \in 0..Len(s)}

\* What a list of authors may keep of their names, or of their keys.
Listings(w) == IF InlineGaps THEN Remains(AuthorsOf[w]) ELSE {AuthorsOf[w], <<>>}

\* A search result: names and keys are two lists, made one without the other.
Results(w) == [names : Listings(w), keys : Listings(w), fields : SUBSET Fields,
               subjects : BOOLEAN]

\* The names read from the authors' pages; the loop leaves failed ones out.
NamesRead(refs) == IF AuthorPagesFail THEN Remains(refs) ELSE {refs}

NeedsEnrichment(r) == ~ r.subjects \/ r.names = <<>> \/ "cover" \notin r.fields

\* get_work supplies what the result lacks, and the authors if it has no names. (An
\* empty title, that is; "Unknown" counts as one, and stays.)
Enriched(w, r) ==
  LET fields == {r.fields \cup f : f \in SUBSET Fields} IN
  IF r.names # <<>>
  THEN [names : {r.names}, keys : {r.keys}, fields : fields]
  ELSE [names : NamesRead(AuthorsOf[w]), keys : {AuthorsOf[w]}, fields : fields]
         \cup [names : {<<>>}, keys : {r.keys}, fields : fields]

Partial(r) == [names |-> r.names, keys |-> r.keys, fields |-> r.fields]

\* What is stored of w: the result, completed if something is missing and the
\* work's page could be read.
Details == [w \in Works |->
              UNION {IF NeedsEnrichment(r) THEN Enriched(w, r) \cup {Partial(r)}
                                           ELSE {Partial(r)} : r \in Results(w)}]

-----------------------------------------------------------------------------
(* _enrich_and_store.                                                      *)

\* "unknown-" and eight random digits: a key no row has.
UnknownKey(n) == <<"unknown", Cardinality({k \in Keys(session) : IsUnknown(k)}) + n>>

\* Wrong variant: enumerate from one.
KeyAtOffByOne(d, i) == IF i + 1 <= Len(d.keys) THEN d.keys[i + 1]
                       ELSE UnknownKey(i - Len(d.keys) + 1)

\* The i-th name goes with the i-th key.
KeyAt(d, i) == IF i <= Len(d.keys) THEN d.keys[i] ELSE UnknownKey(i - Len(d.keys))

AuthorAt(d, i) == [key |-> KeyAt(d, i), name |-> d.names[i]]

\* Wrong variant: authors are looked up by name.
MissingAuthorsByName(d) ==
  {AuthorAt(d, i) : i \in {n \in DOMAIN d.names :
                             \A b \in session.authors : b.name # d.names[n]}}

\* A row that is there already, or came earlier in the list, keeps its name.
MissingAuthors(d) ==
  {AuthorAt(d, i) : i \in {n \in DOMAIN d.names :
                             /\ KeyAt(d, n) \notin Keys(session)
                             /\ \A m \in 1..(n - 1) : KeyAt(d, m) # KeyAt(d, n)}}

\* Wrong variant: an update takes the new values as they are.
StoredFieldsOverwritten(w, d) ==
  {f \in session.fields : f[1] # w} \cup ({w} \X d.fields)

\* An update takes the title as it is, and keeps the optional fields that the new
\* values lack.
StoredFields(w, d) ==
  {f \in session.fields : f # <<w, "title">>} \cup ({w} \X d.fields)

HasGap(w, d) == ~ (IsPrefix(d.names, AuthorsOf[w]) /\ IsPrefix(d.keys, AuthorsOf[w]))

UpsertWork(w, d) ==
  /\ session' = [session EXCEPT
                   !.books = @ \cup {w},
                   !.fields = StoredFields(w, d),
                   !.authors = @ \cup MissingAuthors(d),
                   !.links = @ \cup {<<w, KeyAt(d, i)>> : i \in DOMAIN d.names}]
  /\ gapMet' = (gapMet \/ HasGap(w, d))

-----------------------------------------------------------------------------
(* ingest.                                                                 *)

StartRun == /\ pc = "idle" /\ runsLeft > 0
            /\ runsLeft' = runsLeft - 1
            /\ session' = db
            /\ log' = NewLog
            /\ poisoned' = FALSE
            /\ pc' = "search"
            /\ UNCHANGED <<db, todo, gapMet, faultsLeft>>

Search == /\ pc = "search"
          /\ \E found \in SUBSET Works : /\ todo' = found
                                         /\ log' = [log EXCEPT !.fetched = found]
          /\ pc' = "works"
          /\ UNCHANGED <<db, session, poisoned, gapMet, runsLeft, faultsLeft>>

SearchFails == /\ pc = "search" /\ Spend
               /\ log' = [log EXCEPT !.status = "failed"]
               /\ pc' = "commit"
               /\ UNCHANGED <<db, session, todo, poisoned, gapMet, runsLeft>>

\* Wrong variant: commit after every work.
StoreWorkCommits(w) ==
  /\ pc = "works" /\ w \in todo /\ ~ poisoned
  /\ \E d \in Details[w] : UpsertWork(w, d)
  /\ db' = session'
  /\ todo' = todo \ {w}
  /\ log' = [log EXCEPT !.stored = @ \cup {w}]
  /\ UNCHANGED <<poisoned, pc, runsLeft, faultsLeft>>

StoreWork(w) == /\ pc = "works" /\ w \in todo /\ ~ poisoned
                /\ \E d \in Details[w] : UpsertWork(w, d)
                /\ todo' = todo \ {w}
                /\ log' = [log EXCEPT !.stored = @ \cup {w}]
                /\ UNCHANGED <<db, poisoned, pc, runsLeft, faultsLeft>>

\* An exception other than OpenLibraryError while the pages are read.
WorkUnreadable(w) == /\ pc = "works" /\ w \in todo /\ Spend
                     /\ todo' = todo \ {w}
                     /\ log' = [log EXCEPT !.failed = @ \cup {w}]
                     /\ UNCHANGED <<db, session, poisoned, gapMet, pc, runsLeft>>

\* The driver refuses a subject that is no string. The book and its authors are
\* flushed already, and the session stays usable: they will be committed.
WorkHalfStored(w) == /\ pc = "works" /\ w \in todo /\ ~ poisoned /\ Spend
                     /\ \E d \in Details[w] : UpsertWork(w, d)
                     /\ todo' = todo \ {w}
                     /\ log' = [log EXCEPT !.failed = @ \cup {w}]
                     /\ UNCHANGED <<db, poisoned, pc, runsLeft>>

\* Wrong variant: the handler rolls the session back and adds the log again.
WorkRejectedRollsBack(w) == /\ pc = "works" /\ w \in todo /\ ~ poisoned /\ Spend
                            /\ session' = db
                            /\ todo' = todo \ {w}
                            /\ log' = [log EXCEPT !.failed = @ \cup {w}]
                            /\ UNCHANGED <<db, poisoned, gapMet, pc, runsLeft>>

\* A flush fails, on a value too long for its column, say. The transaction is
\* gone, the session waits for a rollback, and the loop goes on without one.
WorkRejected(w) == /\ pc = "works" /\ w \in todo /\ ~ poisoned /\ Spend
                   /\ poisoned' = TRUE
                   /\ session' = db
                   /\ todo' = todo \ {w}
                   /\ log' = [log EXCEPT !.failed = @ \cup {w}]
                   /\ UNCHANGED <<db, gapMet, pc, runsLeft>>

\* Every later work meets the unusable session.
WorkRefused(w) == /\ pc = "works" /\ w \in todo /\ poisoned
                  /\ todo' = todo \ {w}
                  /\ log' = [log EXCEPT !.failed = @ \cup {w}]
                  /\ UNCHANGED <<db, session, poisoned, gapMet, pc, runsLeft, faultsLeft>>

\* Wrong variant: only failures set the status.
FinishWorksStillRunning == /\ pc = "works" /\ todo = {}
                           /\ pc' = "commit"
                           /\ UNCHANGED <<db, session, log, todo, poisoned, gapMet, runsLeft,
                                          faultsLeft>>

FinishWorks == /\ pc = "works" /\ todo = {}
               /\ log' = [log EXCEPT !.status = "completed"]
               /\ pc' = "commit"
               /\ UNCHANGED <<db, session, todo, poisoned, gapMet, runsLeft, faultsLeft>>

\* commit() raises in a poisoned session, and ingest with it.
Commit == /\ pc = "commit"
          /\ db' = IF poisoned THEN db
                   ELSE [session EXCEPT !.logs = Append(@, log)]
          /\ pc' = "idle"
          /\ UNCHANGED <<session, log, todo, poisoned, gapMet, runsLeft, faultsLeft>>

\* The worker dies or loses the database: the transaction is rolled back.
Crash == /\ pc # "idle" /\ Spend
         /\ session' = db
         /\ todo' = {}
         /\ pc' = "idle"
         /\ UNCHANGED <<db, log, poisoned, gapMet, runsLeft>>

HandleWork(w) == \/ StoreWork(w) \/ WorkUnreadable(w) \/ WorkHalfStored(w)
                 \/ WorkRejected(w) \/ WorkRefused(w)

Next == \/ StartRun \/ Search \/ SearchFails
        \/ \E w \in Works : HandleWork(w)
        \/ FinishWorks \/ Commit \/ Crash

Spec == Init /\ [][Next]_vars

-----------------------------------------------------------------------------
(* Properties.                                                             *)

Logs(statuses) == [status : statuses, fetched : SUBSET Works,
                   stored : SUBSET Works, failed : SUBSET Works]

Key == Authors \cup ({"unknown"} \X Nat)
Tables == [books : SUBSET Works, fields : SUBSET (Works \X Fields),
           authors : SUBSET [key : Key, name : Authors], links : SUBSET (Works \X Key),
           logs : Seq(Logs({"completed", "failed"}))]

\* Tables and locals have their columns' values; no row is committed as running.
TypeOK == /\ {db, session} \subseteq Tables
          /\ \A tables \in {db, session} : tables.fields \subseteq tables.books \X Fields
          /\ log \in Logs({"running", "completed", "failed"})
          /\ todo \subseteq Works
          /\ poisoned \in BOOLEAN /\ gapMet \in BOOLEAN
          /\ pc \in {"idle", "search", "works", "commit"}
          /\ runsLeft \in 0..MaxRuns /\ faultsLeft \in 0..MaxFaults

\* The transaction never has two authors of one key, which uq_authors_tenant_ol_key
\* would reject, and never a link without its book or its author: runs over the
\* same works and works that share authors find what is there.
CatalogConsistent ==
  /\ \A a, b \in session.authors : a.key = b.key => a = b
  /\ \A l \in session.links : l[1] \in session.books /\ l[2] \in Keys(session)

\* What a committed row of the activity log counts as stored is in the catalog,
\* and the row of a completed run accounts for every work fetched: no work that
\* fails takes the ones stored before it along.
LogMatchesCatalog ==
  \A i \in DOMAIN db.logs : LET row == db.logs[i] IN
    /\ row.stored \subseteq db.books
    /\ row.stored \cap row.failed = {}
    /\ row.status = "completed" => row.fetched = row.stored \cup row.failed

\* The step adds or changes the book of w.
Touched(w) == \/ ~ (w \in db'.books <=> w \in db.books)
              \/ Known(db', w) # Known(db, w)

\* What a step that changes the database may do to w.
LoggedChange(w) ==
  /\ w \in db.books => w \in db'.books
  /\ Known(db, w) \cap Optional \subseteq Known(db', w)
  /\ Touched(w) => /\ Len(db'.logs) = Len(db.logs) + 1
                   /\ w \in Last(db'.logs).stored \cup Last(db'.logs).failed

\* A book stays, and so do its optional fields, though the same work comes back with
\* less data; and what is known of a book, its title included, changes only together
\* with the log, and only if the new row counts the work, as stored or as failed.
ChangesAreLogged == [][db' # db => \A w \in Works : LoggedChange(w)]_vars

\* A title that was known stays known: a work that comes back without one does not
\* turn its book into "Unknown".
TitlesKept == [][\A w \in Works : "title" \in Known(db, w) => "title" \in Known(db', w)]_vars

\* A work counted as failed left nothing in the catalog.
FailedWorksUntouched ==
  [][\A w \in Works : Touched(w) => w \in Last(db'.logs).stored]_vars

\* "Resolve each work's author information": the authors of a book are authors
\* of its work, and the row of a known key bears that author's name.
AuthorsRight ==
  \A a \in db.authors : \A w \in Works : <<w, a.key>> \in db.links =>
    /\ a.name \in ToSet(AuthorsOf[w])
    /\ IsUnknown(a.key) \/ a.key = a.name

\* The authors are right as long as every list of names and of keys that Open
\* Library gave was complete from its head on: joining the two by position and
\* making up keys for names that have none does no harm then, nor does ingesting
\* again with more or fewer keys.
AuthorsRightWithoutGaps == ~ gapMet => AuthorsRight

\* "Find or create an author": a book has every author once.
NoAuthorRepeated ==
  \A w \in Works : \A a, b \in db.authors :
    {<<w, a.key>>, <<w, b.key>>} \subseteq db.links /\ a.name = b.name => a = b
=============================================================================
