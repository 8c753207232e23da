---------------------------- MODULE BookResolution ----------------------------
(***************************************************************************)
(* ReadingListService._resolve_book and the part of submit that turns its  *)
(* result into an item: one book reference (an ISBN, a work key or both)   *)
(* is looked up in the tenant's catalog by ISBN, then by work key, then at *)
(* Open Library. Between two of these calls an ingestion run may commit    *)
(* new books, or another ISBN of a known one; Open Library may fail to     *)
(* answer. Lookup marks the names that ReadingLists, of which a submission *)
(* consists otherwise, has as well.                                        *)
(***************************************************************************)
EXTENDS Naturals, FiniteSets

CONSTANTS Works,       \* work keys a reference or Open Library may name
          Isbns,       \* ISBNs, likewise
          OnOL,        \* works that Open Library has
          EditionOf,   \* EditionOf[i]: the works with an edition of ISBN i
          IsbnsFirst,  \* IsbnsFirst[w]: the ISBNs a search may list first for w
          None         \* a field left empty

ASSUME OpenLibraryAssumption == /\ OnOL \subseteq Works
                                /\ EditionOf \in [Isbns -> SUBSET OnOL]
                                /\ IsbnsFirst \in [OnOL -> SUBSET Isbns]
                                /\ \A w \in OnOL : \A i \in IsbnsFirst[w] :
                                     w \in EditionOf[i]
ASSUME NoneAssumption == None \notin Works \cup Isbns

VARIABLES catalog,   \* the tenant's books: ISBN by work key
          ref,       \* book_ref: the reference, [key, isbn]
          workKey,   \* work_key
          asked,     \* history: calls made to Open Library
          missed,    \* history: the work was not in the catalog when it was looked up
          item,      \* the item stored: work key, book (its work key), resolved
          stage

lookupVars == <<catalog, ref, workKey, asked, missed, item, stage>>

References == [key : Works \cup {None}, isbn : Isbns \cup {None}]
Catalogs == UNION {[S -> Isbns \cup {None}] : S \in SUBSET OnOL}
CatalogOfOL(c) == \A w \in DOMAIN c : c[w] = None \/ c[w] \in IsbnsFirst[w]
NoItem == [key |-> None, book |-> None, resolved |-> FALSE]

\* The validator rejects a reference without ISBN and work key.
LookupInit == /\ catalog \in {c \in Catalogs : CatalogOfOL(c)}
              /\ ref \in {r \in References : r.key # None \/ r.isbn # None}
              /\ workKey = ref.key
              /\ asked = {} /\ missed = FALSE
              /\ item = NoItem
              /\ stage = IF ref.isbn = None THEN "findByKey" ELSE "findByIsbn"

\* A run of ingest commits: a new book, or another ISBN of a known one.
Ingested(w, i) == /\ w \in OnOL /\ i \in IsbnsFirst[w] \cup {None}
                  /\ w \in DOMAIN catalog => i # None
                  /\ catalog' = [u \in DOMAIN catalog \cup {w} |->
                                   IF u = w THEN i ELSE catalog[u]]
                  /\ UNCHANGED <<ref, workKey, asked, missed, item, stage>>

Found(isbn) == {w \in DOMAIN catalog : catalog[w] = isbn}

Resolve(key, label) == /\ workKey' = key
                       /\ stage' = label
                       /\ UNCHANGED <<catalog, ref, asked, missed, item>>

\* scalar_one_or_none raises when two books bear the ISBN.
FindByIsbn == /\ stage = "findByIsbn"
              /\ \/ \E w \in Found(ref.isbn) :
                      Found(ref.isbn) = {w} /\ Resolve(w, "inCatalog")
                 \/ /\ Cardinality(Found(ref.isbn)) > 1
                    /\ Resolve(workKey, "ambiguous")
                 \/ /\ Found(ref.isbn) = {}
                    /\ Resolve(workKey, IF workKey = None THEN "askIsbn"
                                                          ELSE "findByKey")

Ask(call, key, label) == /\ asked' = asked \cup {call}
                         /\ workKey' = key
                         /\ stage' = label
                         /\ UNCHANGED <<catalog, ref, missed, item>>

\* Wrong variant: the check that a work key was found is missing.
AskIsbnUnchecked ==
  /\ stage = "askIsbn"
  /\ \E w \in EditionOf[ref.isbn] \cup {None} : Ask("isbn", w, "findByKey")

\* resolve_isbn: the work of an edition; None if there is none or Open Library
\* fails.
AskIsbn == /\ stage = "askIsbn"
           /\ \/ \E w \in EditionOf[ref.isbn] : Ask("isbn", w, "findByKey")
              \/ Ask("isbn", None, "unresolved")

\* Wrong variant: the catalog is not looked at for the work key of an ISBN.
FindByKeyGivenOnly ==
  /\ stage = "findByKey"
  /\ stage' = IF workKey \in DOMAIN catalog /\ ref.key # None THEN "inCatalog" ELSE "askWork"
  /\ missed' = (workKey \notin DOMAIN catalog)
  /\ UNCHANGED <<catalog, ref, workKey, asked, item>>

FindByKey == /\ stage = "findByKey"
             /\ stage' = IF workKey \in DOMAIN catalog THEN "inCatalog" ELSE "askWork"
             /\ missed' = (workKey \notin DOMAIN catalog)
             /\ UNCHANGED <<catalog, ref, workKey, asked, item>>

\* get_work; an OpenLibraryError, be it a 404 or an outage, is "not found".
AskWork == /\ stage = "askWork"
           /\ \/ workKey \in OnOL /\ Ask("work", workKey, "onOL")
              \/ Ask("work", workKey, "unresolved")

\* An error the client does not translate.
AskFails == /\ stage \in {"askIsbn", "askWork"}
            /\ stage' = "otherError"
            /\ UNCHANGED <<catalog, ref, workKey, asked, missed, item>>

Store(newItem) == /\ item' = newItem
                  /\ stage' = "done"
                  /\ UNCHANGED <<catalog, ref, workKey, asked, missed>>

\* Wrong variant: the item keeps the work key of the reference.
StoreFoundAsGiven ==
  /\ stage = "inCatalog"
  /\ Store([key |-> ref.key, book |-> workKey, resolved |-> TRUE])

\* found_in_catalog: the book is looked up again, for its id.
StoreFound ==
  /\ stage = "inCatalog"
  /\ Store([key |-> workKey,
            book |-> IF workKey \in DOMAIN catalog THEN workKey ELSE None,
            resolved |-> TRUE])

StoreOnOL == stage = "onOL" /\ Store([key |-> workKey, book |-> None, resolved |-> TRUE])

\* The item keeps what the patron wrote.
StoreUnresolved ==
  stage = "unresolved" /\ Store([key |-> ref.key, book |-> None, resolved |-> FALSE])

\* An exception closes the request; everything else ends with an item.
Ended == stage \in {"done", "ambiguous", "otherError"} /\ UNCHANGED lookupVars

LookupNext == \/ \E w \in Works, i \in Isbns \cup {None} : Ingested(w, i)
              \/ FindByIsbn \/ AskIsbn \/ FindByKey \/ AskWork \/ AskFails
              \/ StoreFound \/ StoreOnOL \/ StoreUnresolved \/ Ended

LookupSpec == LookupInit /\ [][LookupNext]_lookupVars

-----------------------------------------------------------------------------
(* Properties.                                                             *)

\* Variables have their Python values; the work key is known whenever the
\* catalog or Open Library is asked for it.
LookupTypeOK == /\ catalog \in {c \in Catalogs : CatalogOfOL(c)}
                /\ ref \in References /\ workKey \in Works \cup {None}
                /\ asked \subseteq {"isbn", "work"} /\ missed \in BOOLEAN
                /\ item \in [key : Works \cup {None}, book : Works \cup {None},
                             resolved : BOOLEAN]
                /\ stage \in {"findByIsbn", "askIsbn", "findByKey", "askWork", "inCatalog",
                              "onOL", "unresolved", "done", "ambiguous", "otherError"}
                /\ stage \in {"findByKey", "askWork", "inCatalog", "onOL"} => workKey # None

\* "The service checks the local catalog before making an Open Library API
\* call": the work's page is asked for only after its work key was looked up
\* in the catalog and missing there, whichever way the key was learnt.
CatalogFirst == "work" \in asked => missed

\* A resolved item is linked to the catalog's book of its own work, or has a work
\* Open Library confirmed, whatever is ingested between the two lookups; an item
\* given by ISBN alone has a work with an edition of that ISBN.
ItemsAreRight ==
  item.resolved =>
    /\ item.key \in OnOL
    /\ item.book # None => item.book = item.key /\ item.book \in DOMAIN catalog
    /\ item.book = None => "work" \in asked
    /\ ref.key = None => item.key \in EditionOf[ref.isbn]

\* The answer confirms "which books were resolved successfully and which could
\* not be found": no reference to a book in the catalog fails.
LookupsAnswer == stage # "ambiguous"
=============================================================================
