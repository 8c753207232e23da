----------------------- MODULE CatalogIngestionProofs -----------------------
(***************************************************************************)
(* Proofs about CatalogIngestion, for any works and lists of authors (in   *)
(* which an author may occur more than once), any number of runs and       *)
(* faults, and whatever gaps the answers of Open Library have; and about   *)
(* OpenLibraryClient, through which a run asks for them, for any clients,  *)
(* number of attempts and lengths of interval, backoff and Retry-After.    *)
(***************************************************************************)
EXTENDS CatalogIngestion, OpenLibraryClient, FiniteSetTheorems, WellFoundedInduction, TLAPS

-----------------------------------------------------------------------------
(* The inductive invariant.                                                *)

\* The keys that were made up for authors without one.
MadeUp(tables) == {k \in Keys(tables) : IsUnknown(k)}

\* One author for each key; links lead to rows.
Consistent(tables) ==
  /\ \A a, b \in tables.authors : a.key = b.key => a = b
  /\ tables.links \subseteq tables.books \X Keys(tables)

\* Made-up keys are numbered without gaps, so that the next number is fresh.
Numbered(tables) == \E n \in Nat : MadeUp(tables) = {"unknown"} \X (1..n)

\* The transaction extends what is committed; it adds no log row before its end.
Ahead == /\ db.books \subseteq session.books
         /\ \A w \in Works : Known(db, w) \cap Optional \subseteq Known(session, w)
         /\ pc # "idle" => session.logs = db.logs

\* Where the catalog of the transaction and that of the database differ, the
\* work is one that the log counts.
StoredWorks ==
  /\ \A w \in Works \ (log.stored \cup log.failed) :
       (w \in session.books => w \in db.books) /\ Known(session, w) = Known(db, w)
  /\ ~ poisoned => log.stored \subseteq session.books

\* What the log row counts while its run is under way.
Counts ==
  /\ pc = "search" => session = db /\ log = NewLog /\ ~ poisoned
  /\ pc \in {"works", "commit"} => StoredWorks /\ log.stored \cap log.failed = {}
  /\ pc = "works" => /\ log.fetched = log.stored \cup log.failed \cup todo
                     /\ todo \cap (log.stored \cup log.failed) = {}
  /\ pc = "commit" => /\ log.status # "running"
                      /\ log.status = "completed" =>
                           log.fetched = log.stored \cup log.failed

\* A row of a known key bears the name that goes with it, linked or not.
AuthorsAgree(tables) ==
  \A a \in tables.authors :
    /\ IsUnknown(a.key) \/ a.key = a.name
    /\ \A w \in Works : <<w, a.key>> \in tables.links => a.name \in ToSet(AuthorsOf[w])

Catalogs == /\ Consistent(db) /\ Consistent(session)
            /\ Numbered(db) /\ Numbered(session)

Agreement == ~ gapMet => AuthorsAgree(db) /\ AuthorsAgree(session)

Inv == TypeOK /\ Catalogs /\ Ahead /\ Counts /\ LogMatchesCatalog /\ Agreement

-----------------------------------------------------------------------------
(* What Open Library answers.                                              *)

LEMMA RemainsAreLists ==
  ASSUME NEW S, NEW s \in Seq(S), NEW t \in Remains(s)
  PROVE  t \in Seq(S)
<1>1. PICK k \in 0..Len(s) :
        t \in {[n \in 1..k |-> s[at[n]]] :
                 at \in {p \in [1..k -> DOMAIN s] :
                           \A m, n \in 1..k : m < n => p[m] < p[n]}}
  BY DEF Remains
<1>2. PICK at \in [1..k -> DOMAIN s] : t = [n \in 1..k |-> s[at[n]]]
  BY <1>1
<1>3. k \in Nat
  BY <1>1
<1>4. \A n \in 1..k : s[at[n]] \in S
  BY <1>2
<1> QED
  BY <1>2, <1>3, <1>4

LEMMA ListingsAreLists ==
  ASSUME NEW w \in Works, NEW t \in Listings(w)
  PROVE  t \in Seq(Authors)
<1>1. AuthorsOf[w] \in Seq(Authors)
  BY AuthorsOfAssumption
<1>2. CASE InlineGaps
  BY <1>1, <1>2, RemainsAreLists DEF Listings
<1>3. CASE ~ InlineGaps
  <2>1. <<>> \in Seq(Authors)
    OBVIOUS
  <2> QED
    BY <1>1, <1>3, <2>1 DEF Listings
<1> QED
  BY <1>2, <1>3

LEMMA NamesReadAreLists ==
  ASSUME NEW w \in Works, NEW t \in NamesRead(AuthorsOf[w])
  PROVE  t \in Seq(Authors)
<1>1. AuthorsOf[w] \in Seq(Authors)
  BY AuthorsOfAssumption
<1> QED
  BY <1>1, RemainsAreLists DEF NamesRead

\* What is known of a work when it is stored: lists of names and of keys.
Detail == [names : Seq(Authors), keys : Seq(Authors), fields : SUBSET Fields]

LEMMA DetailsType ==
  ASSUME NEW w \in Works, NEW d \in Details[w]
  PROVE  d \in Detail
<1>1. PICK r \in Results(w) :
        d \in IF NeedsEnrichment(r) THEN Enriched(w, r) \cup {Partial(r)} ELSE {Partial(r)}
  BY DEF Details
<1>2. r.names \in Seq(Authors) /\ r.keys \in Seq(Authors) /\ r.fields \subseteq Fields
  <2>1. r.names \in Listings(w) /\ r.keys \in Listings(w) /\ r.fields \subseteq Fields
    BY DEF Results
  <2> QED
    BY <2>1, ListingsAreLists
<1>3. CASE d = Partial(r)
  BY <1>2, <1>3 DEF Partial, Detail
<1>4. CASE d \in Enriched(w, r)
  <2> DEFINE fields == {r.fields \cup f : f \in SUBSET Fields}
  <2>1. \A f \in fields : f \subseteq Fields
    BY <1>2
  <2>2. AuthorsOf[w] \in Seq(Authors) /\ <<>> \in Seq(Authors)
    BY AuthorsOfAssumption
  <2> HIDE DEF fields
  <2>3. CASE d \in [names : {r.names}, keys : {r.keys}, fields : fields]
    BY <1>2, <2>1, <2>3 DEF Detail
  <2>4. CASE d \in [names : NamesRead(AuthorsOf[w]), keys : {AuthorsOf[w]}, fields : fields]
    BY <2>1, <2>2, <2>4, NamesReadAreLists DEF Detail
  <2>5. CASE d \in [names : {<<>>}, keys : {r.keys}, fields : fields]
    BY <1>2, <2>1, <2>2, <2>5 DEF Detail
  <2> QED
    BY <1>4, <2>3, <2>4, <2>5 DEF Enriched, fields
<1> QED
  BY <1>1, <1>3, <1>4

-----------------------------------------------------------------------------
(* Keys of authors.                                                        *)

LEMMA NumbersCounted ==
  ASSUME NEW n \in Nat
  PROVE  Cardinality({"unknown"} \X (1..n)) = n
<1> DEFINE word == {"unknown"}
           numbers == 1..n
<1>1. IsFiniteSet(word) /\ Cardinality(word) = 1
  BY FS_Singleton
<1>2. IsFiniteSet(numbers) /\ Cardinality(numbers) = n
  BY FS_Interval
<1> HIDE DEF word, numbers
<1>3. Cardinality(word \X numbers) = Cardinality(word) * Cardinality(numbers)
  BY <1>1, <1>2, FS_Product
<1>4. Cardinality(word \X numbers) = n
  BY <1>1, <1>2, <1>3
<1> QED
  BY <1>4 DEF word, numbers

\* A made-up key is no author's, and goes on where the numbers end.
LEMMA UnknownKeyFresh ==
  ASSUME NEW n \in Nat, MadeUp(session) = {"unknown"} \X (1..n), NEW i \in Nat \ {0}
  PROVE  /\ UnknownKey(i) = <<"unknown", n + i>>
         /\ UnknownKey(i) \in Key /\ IsUnknown(UnknownKey(i))
         /\ UnknownKey(i) \notin Keys(session)
<1>1. Cardinality(MadeUp(session)) = n
  BY NumbersCounted
<1>2. UnknownKey(i) = <<"unknown", n + i>>
  BY <1>1 DEF UnknownKey, MadeUp
<1>3. UnknownKey(i) \in {"unknown"} \X Nat
  BY <1>2
<1>4. IsUnknown(UnknownKey(i))
  BY <1>3, KeysAssumption DEF IsUnknown
<1>5. UnknownKey(i) \notin MadeUp(session)
  BY <1>2
<1> QED
  BY <1>2, <1>3, <1>4, <1>5 DEF MadeUp, Key

\* The key of a name: an author's as far as there are keys, a fresh one after that.
LEMMA KeyOfName ==
  ASSUME NEW n \in Nat, MadeUp(session) = {"unknown"} \X (1..n),
         NEW d \in Detail, NEW i \in DOMAIN d.names
  PROVE  /\ KeyAt(d, i) \in Key
         /\ i <= Len(d.keys) => KeyAt(d, i) = d.keys[i] /\ ~ IsUnknown(KeyAt(d, i))
         /\ ~ (i <= Len(d.keys)) => /\ KeyAt(d, i) = <<"unknown", n + (i - Len(d.keys))>>
                                    /\ IsUnknown(KeyAt(d, i))
                                    /\ KeyAt(d, i) \notin Keys(session)
<1>1. /\ d.names \in Seq(Authors) /\ d.keys \in Seq(Authors)
      /\ i \in Nat \ {0} /\ Len(d.keys) \in Nat
  BY DEF Detail
<1>2. CASE i <= Len(d.keys)
  <2>1. KeyAt(d, i) = d.keys[i]
    BY <1>2 DEF KeyAt
  <2>2. d.keys[i] \in Authors
    BY <1>1, <1>2
  <2> QED
    BY <1>2, <2>1, <2>2 DEF Key, IsUnknown
<1>3. CASE ~ (i <= Len(d.keys))
  <2>1. i - Len(d.keys) \in Nat \ {0}
    BY <1>1, <1>3
  <2>2. KeyAt(d, i) = UnknownKey(i - Len(d.keys))
    BY <1>3 DEF KeyAt
  <2> QED
    BY <1>3, <2>1, <2>2, UnknownKeyFresh
<1> QED
  BY <1>2, <1>3

\* The first element of a set of positions.
LEMMA FirstPosition ==
  ASSUME NEW S \in SUBSET Nat, S # {}
  PROVE  \E x \in S : \A y \in S : x <= y
<1> DEFINE R == {ss \in Nat \X Nat : ss[1] < ss[2]}
<1>1. IsWellFoundedOn(R, Nat)
  BY NatLessThanWellFounded DEF OpToRel
<1>2. PICK x \in S : \A y \in S : <<y, x>> \notin R
  BY <1>1, WFMin
<1>3. ASSUME NEW y \in S PROVE x <= y
  <2>1. <<y, x>> \in Nat \X Nat /\ <<y, x>> \notin R
    BY <1>2
  <2>2. ~ (y < x)
    BY <2>1 DEF R
  <2> QED
    BY <2>2
<1> QED
  BY <1>3

\* Every name has a row after the authors were added: that of its key.
LEMMA KeysAdded ==
  ASSUME NEW d \in Detail, NEW tables,
         tables.authors = session.authors \cup MissingAuthors(d)
  PROVE  Keys(tables) = Keys(session) \cup {KeyAt(d, i) : i \in DOMAIN d.names}
<1>1. \A a \in MissingAuthors(d) : \E i \in DOMAIN d.names : a.key = KeyAt(d, i)
  BY DEF MissingAuthors, AuthorAt
<1>2. ASSUME NEW i \in DOMAIN d.names PROVE KeyAt(d, i) \in Keys(tables)
  <2>1. CASE KeyAt(d, i) \in Keys(session)
    BY <2>1 DEF Keys
  <2>2. CASE KeyAt(d, i) \notin Keys(session)
    <3> DEFINE S == {j \in DOMAIN d.names : KeyAt(d, j) = KeyAt(d, i)}
    <3>1. S \in SUBSET Nat /\ i \in S
      BY DEF Detail
    <3>2. PICK x \in S : \A y \in S : x <= y
      BY <3>1, FirstPosition
    <3>3. x \in DOMAIN d.names /\ x \in Nat /\ KeyAt(d, x) = KeyAt(d, i)
      BY <3>1
    <3>4. ASSUME NEW m \in 1..(x - 1) PROVE KeyAt(d, m) # KeyAt(d, x)
      <4>1. m \in DOMAIN d.names /\ ~ (x <= m)
        BY <3>3 DEF Detail
      <4> QED
        BY <3>2, <3>3, <4>1
    <3>5. AuthorAt(d, x) \in MissingAuthors(d)
      BY <2>2, <3>3, <3>4 DEF MissingAuthors
    <3>6. AuthorAt(d, x).key = KeyAt(d, i)
      BY <3>3 DEF AuthorAt
    <3> QED
      BY <3>5, <3>6 DEF Keys
  <2> QED
    BY <2>1, <2>2
<1> QED
  BY <1>1, <1>2 DEF Keys

\* The transaction after a work was stored.
Stored(w, d) == [session EXCEPT
                   !.books = @ \cup {w},
                   !.fields = StoredFields(w, d),
                   !.authors = @ \cup MissingAuthors(d),
                   !.links = @ \cup {<<w, KeyAt(d, i)>> : i \in DOMAIN d.names}]

LEMMA StoredTables ==
  ASSUME session \in Tables, NEW w, NEW d
  PROVE  /\ Stored(w, d).books = session.books \cup {w}
         /\ Stored(w, d).fields = StoredFields(w, d)
         /\ Stored(w, d).authors = session.authors \cup MissingAuthors(d)
         /\ Stored(w, d).links = session.links \cup
                                 {<<w, KeyAt(d, i)>> : i \in DOMAIN d.names}
         /\ Stored(w, d).logs = session.logs
         /\ DOMAIN Stored(w, d) = {"books", "fields", "authors", "links", "logs"}
<1>1. DOMAIN session = {"books", "fields", "authors", "links", "logs"}
  BY DEF Tables
<1>2. Stored(w, d).books = session.books \cup {w}
  BY <1>1 DEF Stored
<1>3. Stored(w, d).fields = StoredFields(w, d)
  BY <1>1 DEF Stored
<1>4. Stored(w, d).authors = session.authors \cup MissingAuthors(d)
  BY <1>1 DEF Stored
<1>5. Stored(w, d).links = session.links \cup
                             {<<w, KeyAt(d, i)>> : i \in DOMAIN d.names}
  BY <1>1 DEF Stored
<1>6. Stored(w, d).logs = session.logs
  BY <1>1 DEF Stored
<1>7. DOMAIN Stored(w, d) = DOMAIN session
  BY DEF Stored
<1> QED
  BY <1>1, <1>2, <1>3, <1>4, <1>5, <1>6, <1>7

\* Storing a work changes what is known of this work only, and of that it may forget
\* the title.
LEMMA StoredKnown ==
  ASSUME session \in Tables, NEW w \in Works, NEW d \in Detail, NEW u \in Works
  PROVE  /\ Known(session, u) \cap Optional \subseteq Known(Stored(w, d), u)
         /\ u # w => Known(Stored(w, d), u) = Known(session, u)
<1>1. Stored(w, d).fields = StoredFields(w, d)
  BY StoredTables
<1> QED
  BY <1>1 DEF Known, StoredFields, Optional

LEMMA StoredConsistent ==
  ASSUME session \in Tables, Consistent(session), NEW w, NEW d \in Detail
  PROVE  Consistent(Stored(w, d))
<1> DEFINE t == Stored(w, d)
<1>1. /\ t.books = session.books \cup {w}
      /\ t.authors = session.authors \cup MissingAuthors(d)
      /\ t.links = session.links \cup {<<w, KeyAt(d, i)>> : i \in DOMAIN d.names}
  BY StoredTables
<1> HIDE DEF t
<1>2. \A a \in MissingAuthors(d) : a.key \notin Keys(session)
  BY DEF MissingAuthors, AuthorAt
<1>3. ASSUME NEW a \in MissingAuthors(d), NEW b \in MissingAuthors(d), a.key = b.key
      PROVE  a = b
  <2>1. PICK i \in DOMAIN d.names :
          /\ a = AuthorAt(d, i)
          /\ \A m \in 1..(i - 1) : KeyAt(d, m) # KeyAt(d, i)
    BY DEF MissingAuthors
  <2>2. PICK j \in DOMAIN d.names :
          /\ b = AuthorAt(d, j)
          /\ \A m \in 1..(j - 1) : KeyAt(d, m) # KeyAt(d, j)
    BY DEF MissingAuthors
  <2>3. KeyAt(d, i) = KeyAt(d, j)
    BY <1>3, <2>1, <2>2 DEF AuthorAt
  <2>4. i \in Nat \ {0} /\ j \in Nat \ {0}
    BY DEF Detail
  <2>5. ~ (i < j)
    BY <2>2, <2>3, <2>4
  <2>6. ~ (j < i)
    BY <2>1, <2>3, <2>4
  <2>7. i = j
    BY <2>4, <2>5, <2>6
  <2> QED
    BY <2>1, <2>2, <2>7
<1>4. \A a, b \in t.authors : a.key = b.key => a = b
  <2> SUFFICES ASSUME NEW a \in t.authors, NEW b \in t.authors, a.key = b.key
               PROVE  a = b
    OBVIOUS
  <2>1. CASE a \in session.authors /\ b \in session.authors
    BY <2>1 DEF Consistent
  <2>2. CASE a \in session.authors /\ b \in MissingAuthors(d)
    BY <1>2, <2>2 DEF Keys
  <2>3. CASE a \in MissingAuthors(d) /\ b \in session.authors
    BY <1>2, <2>3 DEF Keys
  <2>4. CASE a \in MissingAuthors(d) /\ b \in MissingAuthors(d)
    BY <1>3, <2>4
  <2> QED
    BY <1>1, <2>1, <2>2, <2>3, <2>4
<1>5. Keys(t) = Keys(session) \cup {KeyAt(d, i) : i \in DOMAIN d.names}
  BY <1>1, KeysAdded
<1>6. t.links \subseteq t.books \X Keys(t)
  BY <1>1, <1>5 DEF Consistent
<1> QED
  BY <1>4, <1>6 DEF Consistent, t

LEMMA StoredNumbered ==
  ASSUME session \in Tables, Numbered(session), NEW w, NEW d \in Detail
  PROVE  Numbered(Stored(w, d))
<1>1. PICK n \in Nat : MadeUp(session) = {"unknown"} \X (1..n)
  BY DEF Numbered
<1> DEFINE t == Stored(w, d)
           names == Len(d.names)
           keys == Len(d.keys)
           N == IF names <= keys THEN n ELSE n + (names - keys)
<1>2. /\ names \in Nat /\ keys \in Nat /\ DOMAIN d.names = 1..names
      /\ N \in Nat /\ n <= N
  BY DEF Detail
<1>3. Keys(t) = Keys(session) \cup {KeyAt(d, i) : i \in DOMAIN d.names}
  BY StoredTables, KeysAdded
<1> HIDE DEF t, names, keys
<1>4. ASSUME NEW k \in MadeUp(t) PROVE k \in {"unknown"} \X (1..N)
  <2>1. CASE k \in Keys(session)
    <3>1. k \in {"unknown"} \X (1..n)
      BY <1>1, <2>1 DEF MadeUp
    <3>2. PICK m \in 1..n : k = <<"unknown", m>>
      BY <3>1
    <3>3. m \in 1..N
      BY <1>2
    <3> HIDE DEF N
    <3> QED
      BY <3>2, <3>3
  <2>2. CASE k \notin Keys(session)
    <3>1. PICK i \in 1..names : k = KeyAt(d, i)
      BY <1>2, <1>3, <2>2 DEF MadeUp
    <3>2. ~ (i <= keys) /\ k = <<"unknown", n + (i - keys)>>
      BY <1>1, <1>2, <1>4, <3>1, KeyOfName DEF MadeUp, keys
    <3>3. n + (i - keys) \in 1..N
      BY <1>2, <3>2
    <3> HIDE DEF N
    <3> QED
      BY <3>2, <3>3
  <2> QED
    BY <2>1, <2>2
<1>5. ASSUME NEW m \in 1..N PROVE <<"unknown", m>> \in MadeUp(t)
  <2>1. CASE m <= n
    <3>1. <<"unknown", m>> \in MadeUp(session)
      BY <1>1, <1>2, <2>1
    <3> QED
      BY <1>3, <3>1 DEF MadeUp
  <2>2. CASE ~ (m <= n)
    <3>1. ~ (names <= keys) /\ (m - n) + keys \in 1..names /\ ~ ((m - n) + keys <= keys)
      BY <1>2, <2>2
    <3> DEFINE i == (m - n) + keys
    <3>2. n + (i - keys) = m
      BY <1>2
    <3>3. i \in DOMAIN d.names /\ ~ (i <= keys)
      BY <1>2, <3>1
    <3> HIDE DEF i
    <3>4. KeyAt(d, i) = <<"unknown", m>> /\ IsUnknown(KeyAt(d, i))
      BY <1>1, <3>2, <3>3, KeyOfName DEF keys
    <3> QED
      BY <1>3, <3>3, <3>4 DEF MadeUp
  <2> QED
    BY <2>1, <2>2
<1>6. MadeUp(t) = {"unknown"} \X (1..N)
  <2> HIDE DEF N
  <2>1. ASSUME NEW k \in {"unknown"} \X (1..N) PROVE k \in MadeUp(t)
    <3>1. PICK m \in 1..N : k = <<"unknown", m>>
      OBVIOUS
    <3> QED
      BY <1>5, <3>1
  <2> QED
    BY <1>4, <2>1
<1> QED
  BY <1>2, <1>6 DEF Numbered, t

LEMMA StoredType ==
  ASSUME session \in Tables, session.fields \subseteq session.books \X Fields,
         Numbered(session), NEW w \in Works, NEW d \in Detail
  PROVE  /\ Stored(w, d) \in Tables
         /\ Stored(w, d).fields \subseteq Stored(w, d).books \X Fields
<1> DEFINE added == {<<w, KeyAt(d, i)>> : i \in DOMAIN d.names}
           t == Stored(w, d)
<1>1. /\ t.books = session.books \cup {w}
      /\ t.fields = StoredFields(w, d)
      /\ t.authors = session.authors \cup MissingAuthors(d)
      /\ t.links = session.links \cup added
      /\ t.logs = session.logs
  BY StoredTables
<1>2. /\ session.books \subseteq Works /\ session.links \subseteq Works \X Key
      /\ session.authors \subseteq [key : Key, name : Authors]
      /\ session.logs \in Seq(Logs({"completed", "failed"}))
  BY DEF Tables
<1>3. PICK n \in Nat : MadeUp(session) = {"unknown"} \X (1..n)
  BY DEF Numbered
<1>4. ASSUME NEW i \in DOMAIN d.names PROVE KeyAt(d, i) \in Key /\ d.names[i] \in Authors
  BY <1>3, KeyOfName DEF Detail
<1>5. MissingAuthors(d) \subseteq [key : Key, name : Authors]
  BY <1>4 DEF MissingAuthors, AuthorAt
<1>6. added \subseteq Works \X Key
  BY <1>4
<1>7. d.fields \subseteq Fields
  BY DEF Detail
<1>8. t = [books |-> t.books, fields |-> t.fields, authors |-> t.authors,
           links |-> t.links, logs |-> t.logs]
  <2>1. t = [x \in DOMAIN t |-> t[x]]
    BY DEF Stored
  <2>2. DOMAIN t = {"books", "fields", "authors", "links", "logs"}
    BY StoredTables
  <2> HIDE DEF t
  <2> QED
    BY <2>1, <2>2
<1> HIDE DEF added, t
<1>9. t.books \subseteq Works /\ t.fields \subseteq t.books \X Fields
  BY <1>1, <1>2, <1>7 DEF StoredFields
<1>10. t.fields \subseteq Works \X Fields
  BY <1>9
<1>11. t.authors \subseteq [key : Key, name : Authors] /\ t.links \subseteq Works \X Key
  BY <1>1, <1>2, <1>5, <1>6
<1>12. t \in Tables
  BY <1>1, <1>2, <1>8, <1>9, <1>10, <1>11 DEF Tables
<1> QED
  BY <1>9, <1>12 DEF t

\* Without gaps, the names and keys that are joined by position belong together.
LEMMA StoredAgrees ==
  ASSUME session \in Tables, Consistent(session), Numbered(session), AuthorsAgree(session),
         NEW w \in Works, NEW d \in Detail, ~ HasGap(w, d)
  PROVE  AuthorsAgree(Stored(w, d))
<1> DEFINE t == Stored(w, d)
           of == AuthorsOf[w]
<1>1. /\ t.authors = session.authors \cup MissingAuthors(d)
      /\ t.links = session.links \cup {<<w, KeyAt(d, i)>> : i \in DOMAIN d.names}
  BY StoredTables
<1>2. PICK n \in Nat : MadeUp(session) = {"unknown"} \X (1..n)
  BY DEF Numbered
<1>3. d.names \in Seq(Authors) /\ d.keys \in Seq(Authors) /\ of \in Seq(Authors)
  BY AuthorsOfAssumption DEF Detail
<1>4. /\ \A i \in DOMAIN d.names : i \in DOMAIN of /\ d.names[i] = of[i]
      /\ \A i \in DOMAIN d.keys : i \in DOMAIN of /\ d.keys[i] = of[i]
  BY <1>3 DEF HasGap, IsPrefix
<1>5. ASSUME NEW i \in DOMAIN d.names
      PROVE  /\ d.names[i] \in ToSet(of)
             /\ i <= Len(d.keys) => KeyAt(d, i) = d.names[i] /\ ~ IsUnknown(KeyAt(d, i))
             /\ ~ (i <= Len(d.keys)) => /\ IsUnknown(KeyAt(d, i))
                                        /\ KeyAt(d, i) \notin Keys(session)
  <2>1. d.names[i] \in ToSet(of)
    BY <1>4 DEF ToSet
  <2>2. ASSUME i <= Len(d.keys) PROVE d.keys[i] = d.names[i]
    <3>1. i \in DOMAIN d.keys
      BY <1>3, <2>2
    <3> QED
      BY <1>4, <3>1
  <2> QED
    BY <1>2, <2>1, <2>2, KeyOfName
<1> HIDE DEF t, of
<1>6. ASSUME NEW a \in session.authors
      PROVE  /\ IsUnknown(a.key) \/ a.key = a.name
             /\ \A u \in Works : <<u, a.key>> \in t.links => a.name \in ToSet(AuthorsOf[u])
  <2>1. IsUnknown(a.key) \/ a.key = a.name
    BY DEF AuthorsAgree
  <2>2. ASSUME NEW u \in Works, <<u, a.key>> \in t.links
        PROVE  a.name \in ToSet(AuthorsOf[u])
    <3>1. CASE <<u, a.key>> \in session.links
      BY <3>1 DEF AuthorsAgree
    <3>2. CASE <<u, a.key>> \notin session.links
      <4>1. PICK i \in DOMAIN d.names : u = w /\ a.key = KeyAt(d, i)
        BY <1>1, <2>2, <3>2
      <4>2. a.key \in Keys(session)
        BY DEF Keys
      <4>3. a.key = d.names[i] /\ ~ IsUnknown(a.key)
        BY <1>5, <4>1, <4>2
      <4> QED
        BY <1>5, <2>1, <4>1, <4>3 DEF of
    <3> QED
      BY <3>1, <3>2
  <2> QED
    BY <2>1, <2>2
<1>7. ASSUME NEW a \in MissingAuthors(d)
      PROVE  /\ IsUnknown(a.key) \/ a.key = a.name
             /\ \A u \in Works : <<u, a.key>> \in t.links => a.name \in ToSet(AuthorsOf[u])
  <2>1. PICK i \in DOMAIN d.names : a = AuthorAt(d, i) /\ KeyAt(d, i) \notin Keys(session)
    BY DEF MissingAuthors
  <2>2. a.key = KeyAt(d, i) /\ a.name = d.names[i]
    BY <2>1 DEF AuthorAt
  <2>3. IsUnknown(a.key) \/ a.key = a.name
    BY <1>5, <2>2
  <2>4. ASSUME NEW u \in Works, <<u, a.key>> \in t.links PROVE u = w
    <3>1. <<u, a.key>> \notin session.links
      BY <2>1, <2>2 DEF Consistent
    <3> QED
      BY <1>1, <2>4, <3>1
  <2> QED
    BY <1>5, <2>2, <2>3, <2>4 DEF of
<1> QED
  BY <1>1, <1>6, <1>7 DEF AuthorsAgree, t

-----------------------------------------------------------------------------
(* The invariant.                                                          *)

LEMMA InitInv == Init => Inv
<1> SUFFICES ASSUME Init PROVE Inv
  OBVIOUS
<1> USE DEF Init
<1>1. /\ db.books = {} /\ db.fields = {} /\ db.authors = {} /\ db.links = {}
      /\ db.logs = <<>> /\ session = db
  OBVIOUS
<1>2. TypeOK
  <2>1. db \in Tables
    BY DEF Tables
  <2>2. log \in Logs({"running", "completed", "failed"})
    BY DEF NewLog, Logs
  <2>3. poisoned \in BOOLEAN /\ gapMet \in BOOLEAN
    OBVIOUS
  <2>4. runsLeft \in 0..MaxRuns /\ faultsLeft \in 0..MaxFaults
    BY BoundsAssumption
  <2>5. {db, session} \subseteq Tables
    BY <1>1, <2>1
  <2>6. \A tables \in {db, session} : tables.fields \subseteq tables.books \X Fields
    BY <1>1
  <2> HIDE DEF Init
  <2>7. todo \subseteq Works /\ pc \in {"idle", "search", "works", "commit"}
    BY DEF Init
  <2> QED
    BY <2>2, <2>3, <2>4, <2>5, <2>6, <2>7 DEF TypeOK
<1>3. Catalogs
  <2>1. Consistent(db)
    BY <1>1 DEF Consistent
  <2>2. MadeUp(db) = {"unknown"} \X (1..0)
    BY <1>1 DEF MadeUp, Keys
  <2>3. Numbered(db)
    BY <2>2 DEF Numbered
  <2> QED
    BY <1>1, <2>1, <2>3 DEF Catalogs
<1>4. Ahead /\ Counts /\ LogMatchesCatalog
  BY <1>1 DEF Ahead, Counts, LogMatchesCatalog
<1>5. Agreement
  BY <1>1 DEF Agreement, AuthorsAgree
<1> QED
  BY <1>2, <1>3, <1>4, <1>5 DEF Inv

\* Steps that store nothing leave the tables as they are, or roll back.
LEMMA TablesKept ==
  ASSUME Inv, db' = db, session' \in {db, session}, gapMet' = gapMet
  PROVE  /\ {db', session'} \subseteq Tables
         /\ \A tables \in {db', session'} : tables.fields \subseteq tables.books \X Fields
         /\ Catalogs' /\ LogMatchesCatalog' /\ Agreement'
         /\ db.books \subseteq session'.books
         /\ \A w \in Works : Known(db, w) \cap Optional \subseteq Known(session', w)
<1>1. /\ {db', session'} \subseteq Tables
      /\ \A tables \in {db', session'} : tables.fields \subseteq tables.books \X Fields
  BY DEF Inv, TypeOK
<1>2. Catalogs'
  <2>1. CASE session' = db
    BY <2>1 DEF Inv, Catalogs, Consistent, Numbered, MadeUp, Keys
  <2>2. CASE session' = session
    BY <2>2 DEF Inv, Catalogs, Consistent, Numbered, MadeUp, Keys
  <2> QED
    BY <2>1, <2>2
<1>3. LogMatchesCatalog'
  BY DEF Inv, LogMatchesCatalog
<1>4. Agreement'
  <2>1. CASE session' = db
    BY <2>1 DEF Inv, Agreement, AuthorsAgree
  <2>2. CASE session' = session
    BY <2>2 DEF Inv, Agreement, AuthorsAgree
  <2> QED
    BY <2>1, <2>2
<1>5. /\ db.books \subseteq session'.books
      /\ \A w \in Works : Known(db, w) \cap Optional \subseteq Known(session', w)
  BY DEF Inv, Ahead
<1> QED
  BY <1>1, <1>2, <1>3, <1>4, <1>5

LEMMA StartRunInv ==
  ASSUME Inv, StartRun PROVE Inv'
<1> USE DEF StartRun
<1>1. db' = db /\ session' \in {db, session} /\ gapMet' = gapMet
  OBVIOUS
<1>2. TypeOK'
  <2>1. /\ todo' \subseteq Works
        /\ pc' \in {"idle", "search", "works", "commit"}
        /\ runsLeft' \in 0..MaxRuns /\ faultsLeft' \in 0..MaxFaults
    BY BoundsAssumption DEF Inv, TypeOK, Spend
  <2>2. poisoned' \in BOOLEAN /\ gapMet' \in BOOLEAN
    BY DEF Inv, TypeOK
  <2>3. log' \in Logs({"running", "completed", "failed"})
    BY DEF Inv, TypeOK, Logs, NewLog
  <2> QED
    BY <1>1, <2>1, <2>2, <2>3, TablesKept DEF TypeOK
<1>3. Ahead'
  BY <1>1, TablesKept DEF Inv, Ahead
<1>4. Counts'
  BY DEF Counts, NewLog
<1> QED
  BY <1>1, <1>2, <1>3, <1>4, TablesKept DEF Inv

LEMMA SearchInv ==
  ASSUME Inv, Search PROVE Inv'
<1> USE DEF Search
<1>1. db' = db /\ session' \in {db, session} /\ gapMet' = gapMet
  OBVIOUS
<1>2. TypeOK'
  <2>1. /\ todo' \subseteq Works
        /\ pc' \in {"idle", "search", "works", "commit"}
        /\ runsLeft' \in 0..MaxRuns /\ faultsLeft' \in 0..MaxFaults
    BY BoundsAssumption DEF Inv, TypeOK, Spend
  <2>2. poisoned' \in BOOLEAN /\ gapMet' \in BOOLEAN
    BY DEF Inv, TypeOK
  <2>3. log' \in Logs({"running", "completed", "failed"})
    BY DEF Inv, TypeOK, Logs
  <2> QED
    BY <1>1, <2>1, <2>2, <2>3, TablesKept DEF TypeOK
<1>3. Ahead'
  BY <1>1, TablesKept DEF Inv, Ahead
<1>4. Counts'
  BY DEF Inv, Counts, StoredWorks, NewLog, TypeOK, Logs
<1> QED
  BY <1>1, <1>2, <1>3, <1>4, TablesKept DEF Inv

LEMMA SearchFailsInv ==
  ASSUME Inv, SearchFails PROVE Inv'
<1> USE DEF SearchFails
<1>1. db' = db /\ session' \in {db, session} /\ gapMet' = gapMet
  OBVIOUS
<1>2. TypeOK'
  <2>1. /\ todo' \subseteq Works
        /\ pc' \in {"idle", "search", "works", "commit"}
        /\ runsLeft' \in 0..MaxRuns /\ faultsLeft' \in 0..MaxFaults
    BY BoundsAssumption DEF Inv, TypeOK, Spend
  <2>2. poisoned' \in BOOLEAN /\ gapMet' \in BOOLEAN
    BY DEF Inv, TypeOK
  <2>3. log' \in Logs({"running", "completed", "failed"})
    BY DEF Inv, TypeOK, Logs
  <2> QED
    BY <1>1, <2>1, <2>2, <2>3, TablesKept DEF TypeOK
<1>3. Ahead'
  BY <1>1, TablesKept DEF Inv, Ahead
<1>4. Counts'
  BY DEF Inv, Counts, StoredWorks, NewLog, TypeOK, Logs
<1> QED
  BY <1>1, <1>2, <1>3, <1>4, TablesKept DEF Inv

LEMMA WorkUnreadableInv ==
  ASSUME Inv, NEW w \in Works, WorkUnreadable(w) PROVE Inv'
<1> USE DEF WorkUnreadable
<1>1. db' = db /\ session' \in {db, session} /\ gapMet' = gapMet
  OBVIOUS
<1>2. TypeOK'
  <2>1. /\ todo' \subseteq Works
        /\ pc' \in {"idle", "search", "works", "commit"}
        /\ runsLeft' \in 0..MaxRuns /\ faultsLeft' \in 0..MaxFaults
    BY BoundsAssumption DEF Inv, TypeOK, Spend
  <2>2. poisoned' \in BOOLEAN /\ gapMet' \in BOOLEAN
    BY DEF Inv, TypeOK
  <2>3. log' \in Logs({"running", "completed", "failed"})
    BY DEF Inv, TypeOK, Logs
  <2> QED
    BY <1>1, <2>1, <2>2, <2>3, TablesKept DEF TypeOK
<1>3. Ahead'
  BY <1>1, TablesKept DEF Inv, Ahead
<1>4. Counts'
  BY DEF Inv, Counts, StoredWorks, TypeOK, Logs
<1> QED
  BY <1>1, <1>2, <1>3, <1>4, TablesKept DEF Inv

LEMMA WorkRejectedInv ==
  ASSUME Inv, NEW w \in Works, WorkRejected(w) PROVE Inv'
<1> USE DEF WorkRejected
<1>1. db' = db /\ session' \in {db, session} /\ gapMet' = gapMet
  OBVIOUS
<1>2. TypeOK'
  <2>1. /\ todo' \subseteq Works
        /\ pc' \in {"idle", "search", "works", "commit"}
        /\ runsLeft' \in 0..MaxRuns /\ faultsLeft' \in 0..MaxFaults
    BY BoundsAssumption DEF Inv, TypeOK, Spend
  <2>2. poisoned' \in BOOLEAN /\ gapMet' \in BOOLEAN
    BY DEF Inv, TypeOK
  <2>3. log' \in Logs({"running", "completed", "failed"})
    BY DEF Inv, TypeOK, Logs
  <2> QED
    BY <1>1, <2>1, <2>2, <2>3, TablesKept DEF TypeOK
<1>3. Ahead'
  BY <1>1, TablesKept DEF Inv, Ahead
<1>4. Counts'
  BY DEF Inv, Counts, StoredWorks, TypeOK, Logs
<1> QED
  BY <1>1, <1>2, <1>3, <1>4, TablesKept DEF Inv

LEMMA WorkRefusedInv ==
  ASSUME Inv, NEW w \in Works, WorkRefused(w) PROVE Inv'
<1> USE DEF WorkRefused
<1>1. db' = db /\ session' \in {db, session} /\ gapMet' = gapMet
  OBVIOUS
<1>2. TypeOK'
  <2>1. /\ todo' \subseteq Works
        /\ pc' \in {"idle", "search", "works", "commit"}
        /\ runsLeft' \in 0..MaxRuns /\ faultsLeft' \in 0..MaxFaults
    BY BoundsAssumption DEF Inv, TypeOK, Spend
  <2>2. poisoned' \in BOOLEAN /\ gapMet' \in BOOLEAN
    BY DEF Inv, TypeOK
  <2>3. log' \in Logs({"running", "completed", "failed"})
    BY DEF Inv, TypeOK, Logs
  <2> QED
    BY <1>1, <2>1, <2>2, <2>3, TablesKept DEF TypeOK
<1>3. Ahead'
  BY <1>1, TablesKept DEF Inv, Ahead
<1>4. Counts'
  BY DEF Inv, Counts, StoredWorks, TypeOK, Logs
<1> QED
  BY <1>1, <1>2, <1>3, <1>4, TablesKept DEF Inv

LEMMA FinishWorksInv ==
  ASSUME Inv, FinishWorks PROVE Inv'
<1> USE DEF FinishWorks
<1>1. db' = db /\ session' \in {db, session} /\ gapMet' = gapMet
  OBVIOUS
<1>2. TypeOK'
  <2>1. /\ todo' \subseteq Works
        /\ pc' \in {"idle", "search", "works", "commit"}
        /\ runsLeft' \in 0..MaxRuns /\ faultsLeft' \in 0..MaxFaults
    BY BoundsAssumption DEF Inv, TypeOK, Spend
  <2>2. poisoned' \in BOOLEAN /\ gapMet' \in BOOLEAN
    BY DEF Inv, TypeOK
  <2>3. log' \in Logs({"running", "completed", "failed"})
    BY DEF Inv, TypeOK, Logs
  <2> QED
    BY <1>1, <2>1, <2>2, <2>3, TablesKept DEF TypeOK
<1>3. Ahead'
  BY <1>1, TablesKept DEF Inv, Ahead
<1>4. Counts'
  BY DEF Inv, Counts, StoredWorks, TypeOK, Logs
<1> QED
  BY <1>1, <1>2, <1>3, <1>4, TablesKept DEF Inv

LEMMA CrashInv ==
  ASSUME Inv, Crash PROVE Inv'
<1> USE DEF Crash
<1>1. db' = db /\ session' \in {db, session} /\ gapMet' = gapMet
  OBVIOUS
<1>2. TypeOK'
  <2>1. /\ todo' \subseteq Works
        /\ pc' \in {"idle", "search", "works", "commit"}
        /\ runsLeft' \in 0..MaxRuns /\ faultsLeft' \in 0..MaxFaults
    BY BoundsAssumption DEF Inv, TypeOK, Spend
  <2>2. poisoned' \in BOOLEAN /\ gapMet' \in BOOLEAN
    BY DEF Inv, TypeOK
  <2>3. log' \in Logs({"running", "completed", "failed"})
    BY DEF Inv, TypeOK, Logs
  <2> QED
    BY <1>1, <2>1, <2>2, <2>3, TablesKept DEF TypeOK
<1>3. Ahead'
  BY <1>1, TablesKept DEF Inv, Ahead
<1>4. Counts'
  BY DEF Inv, Counts
<1> QED
  BY <1>1, <1>2, <1>3, <1>4, TablesKept DEF Inv

\* A work is stored, and counted one way or the other.
LEMMA UpsertInv ==
  ASSUME Inv, NEW w \in Works, NEW d \in Details[w], UpsertWork(w, d),
         pc = "works", w \in todo, ~ poisoned, todo' = todo \ {w},
         \/ log' = [log EXCEPT !.stored = @ \cup {w}]
         \/ log' = [log EXCEPT !.failed = @ \cup {w}],
         UNCHANGED <<db, poisoned, pc, runsLeft>>, faultsLeft' \in 0..MaxFaults
  PROVE  Inv'
<1>2. d \in Detail
  BY DetailsType
<1>3. session' = Stored(w, d) /\ gapMet' = (gapMet \/ HasGap(w, d))
  BY DEF UpsertWork, Stored
<1>4. /\ pc = "works" /\ w \in todo /\ ~ poisoned
      /\ todo' = todo \ {w}
      /\ UNCHANGED <<db, poisoned, pc, runsLeft>>
  OBVIOUS
<1>5. /\ session \in Tables /\ db \in Tables
      /\ session.fields \subseteq session.books \X Fields
      /\ db.fields \subseteq db.books \X Fields
      /\ Consistent(session) /\ Numbered(session)
      /\ log \in Logs({"running", "completed", "failed"})
  BY DEF Inv, TypeOK, Catalogs
<1>6. /\ session'.books = session.books \cup {w}
      /\ session'.logs = session.logs
      /\ \A u \in Works : /\ Known(session, u) \cap Optional \subseteq Known(session', u)
                          /\ u # w => Known(session', u) = Known(session, u)
  BY <1>2, <1>3, <1>5, StoredTables, StoredKnown
<1>7. TypeOK'
  <2>1. session' \in Tables /\ session'.fields \subseteq session'.books \X Fields
    BY <1>2, <1>3, <1>5, StoredType
  <2>2. log' \in Logs({"running", "completed", "failed"})
    BY <1>4, <1>5 DEF Logs
  <2>3. gapMet' \in BOOLEAN
    BY <1>3
  <2>4. poisoned' \in BOOLEAN
    BY <1>4 DEF Inv, TypeOK
  <2>5. /\ todo' \subseteq Works /\ pc' \in {"idle", "search", "works", "commit"}
        /\ runsLeft' \in 0..MaxRuns /\ faultsLeft' \in 0..MaxFaults
    BY <1>4 DEF Inv, TypeOK
  <2>6. {db', session'} \subseteq Tables
    BY <1>4, <1>5, <2>1
  <2>7. \A tables \in {db', session'} : tables.fields \subseteq tables.books \X Fields
    BY <1>4, <1>5, <2>1
  <2> QED
    BY <2>2, <2>3, <2>4, <2>5, <2>6, <2>7 DEF TypeOK
<1>8. Catalogs'
  <2>1. Consistent(session') /\ Numbered(session')
    BY <1>2, <1>3, <1>5, StoredConsistent, StoredNumbered
  <2>2. Consistent(db') /\ Numbered(db')
    BY <1>4 DEF Inv, Catalogs
  <2> QED
    BY <2>1, <2>2 DEF Catalogs, Consistent, Numbered, MadeUp, Keys
<1>9. Ahead'
  BY <1>4, <1>6 DEF Inv, Ahead
<1>10. Counts'
  <2>1. /\ \/ log'.stored = log.stored \cup {w} /\ log'.failed = log.failed
           \/ log'.stored = log.stored /\ log'.failed = log.failed \cup {w}
        /\ log'.fetched = log.fetched
    BY <1>5 DEF Logs
  <2>2. StoredWorks /\ log.stored \cap log.failed = {}
    BY <1>4 DEF Inv, Counts
  <2>3. StoredWorks'
    <3>1. ASSUME NEW u \in Works, u \notin log'.stored \cup log'.failed
          PROVE  (u \in session'.books => u \in db'.books) /\ Known(session', u) = Known(db', u)
      <4>1. u # w /\ u \notin log.stored \cup log.failed
        BY <2>1, <3>1
      <4> QED
        BY <1>4, <1>6, <2>2, <4>1 DEF StoredWorks
    <3>2. log'.stored \subseteq session'.books
      BY <1>4, <1>6, <2>1, <2>2 DEF StoredWorks
    <3> QED
      BY <3>1, <3>2 DEF StoredWorks, Known
  <2>4. /\ log.fetched = log.stored \cup log.failed \cup todo
        /\ todo \cap (log.stored \cup log.failed) = {}
    BY <1>4 DEF Inv, Counts
  <2> QED
    BY <1>4, <2>1, <2>2, <2>3, <2>4 DEF Counts
<1>11. LogMatchesCatalog'
  BY <1>4 DEF Inv, LogMatchesCatalog
<1>12. Agreement'
  <2> SUFFICES ASSUME ~ gapMet' PROVE AuthorsAgree(db)' /\ AuthorsAgree(session)'
    BY DEF Agreement
  <2>1. ~ gapMet /\ ~ HasGap(w, d)
    BY <1>3
  <2>2. AuthorsAgree(db) /\ AuthorsAgree(session)
    BY <2>1 DEF Inv, Agreement
  <2>3. AuthorsAgree(session')
    BY <1>2, <1>3, <1>5, <2>1, <2>2, StoredAgrees
  <2> QED
    BY <1>4, <2>2, <2>3 DEF AuthorsAgree
<1> QED
  BY <1>7, <1>8, <1>9, <1>10, <1>11, <1>12 DEF Inv

LEMMA StoreWorkInv ==
  ASSUME Inv, NEW w \in Works, StoreWork(w) PROVE Inv'
<1>1. faultsLeft' \in 0..MaxFaults
  BY DEF StoreWork, Inv, TypeOK
<1> QED
  BY <1>1, UpsertInv DEF StoreWork

LEMMA WorkHalfStoredInv ==
  ASSUME Inv, NEW w \in Works, WorkHalfStored(w) PROVE Inv'
<1>1. faultsLeft' \in 0..MaxFaults
  BY BoundsAssumption DEF WorkHalfStored, Spend, Inv, TypeOK
<1> QED
  BY <1>1, UpsertInv DEF WorkHalfStored

\* A commit that succeeds makes the transaction's catalog and the log row visible.
LEMMA CommitSucceeds ==
  ASSUME Inv, Commit, ~ poisoned
  PROVE  /\ db'.books = session.books /\ db'.fields = session.fields
         /\ db'.authors = session.authors /\ db'.links = session.links
         /\ db'.logs = Append(db.logs, log)
         /\ db' = [session EXCEPT !.logs = Append(db.logs, log)]
<1>1. DOMAIN session = {"books", "fields", "authors", "links", "logs"}
  BY DEF Inv, TypeOK, Tables
<1>2. session.logs = db.logs
  BY DEF Inv, Ahead, Commit
<1>3. db' = [session EXCEPT !.logs = Append(db.logs, log)]
  BY <1>2 DEF Commit
<1> QED
  BY <1>1, <1>3

LEMMA CommitInv ==
  ASSUME Inv, Commit, ~ poisoned PROVE Inv'
<1>1. /\ db'.books = session.books /\ db'.fields = session.fields
      /\ db'.authors = session.authors /\ db'.links = session.links
      /\ db'.logs = Append(db.logs, log)
      /\ db' = [session EXCEPT !.logs = Append(db.logs, log)]
  BY CommitSucceeds
<1>2. /\ pc = "commit" /\ pc' = "idle"
      /\ UNCHANGED <<session, log, todo, poisoned, gapMet, runsLeft, faultsLeft>>
  BY DEF Commit
<1>3. StoredWorks /\ log.stored \cap log.failed = {} /\ log.status # "running"
  BY <1>2 DEF Inv, Counts
<1>4. log \in Logs({"completed", "failed"})
  BY <1>3 DEF Inv, TypeOK, Logs
<1>5. db.logs \in Seq(Logs({"completed", "failed"})) /\ session \in Tables
  BY DEF Inv, TypeOK, Tables
<1>6. db'.logs \in Seq(Logs({"completed", "failed"}))
  BY <1>1, <1>4, <1>5
<1>7. TypeOK'
  <2>1. db' \in Tables
    BY <1>1, <1>5, <1>6 DEF Tables
  <2>2. db'.fields \subseteq db'.books \X Fields
    BY <1>1 DEF Inv, TypeOK
  <2> QED
    BY <1>2, <2>1, <2>2 DEF Inv, TypeOK
<1>8. Catalogs'
  BY <1>1, <1>2 DEF Inv, Catalogs, Consistent, Numbered, MadeUp, Keys
<1>9. Ahead' /\ Counts'
  BY <1>1, <1>2 DEF Ahead, Counts, Known
<1>10. LogMatchesCatalog'
  <2> SUFFICES ASSUME NEW i \in DOMAIN db'.logs
               PROVE  /\ db'.logs[i].stored \subseteq db'.books
                      /\ db'.logs[i].stored \cap db'.logs[i].failed = {}
                      /\ db'.logs[i].status = "completed" =>
                           db'.logs[i].fetched = db'.logs[i].stored \cup db'.logs[i].failed
    BY DEF LogMatchesCatalog
  <2>1. CASE i \in DOMAIN db.logs
    <3>1. db'.logs[i] = db.logs[i]
      BY <1>1, <1>5, <2>1
    <3>2. db.books \subseteq db'.books
      BY <1>1 DEF Inv, Ahead
    <3> QED
      BY <2>1, <3>1, <3>2 DEF Inv, LogMatchesCatalog
  <2>2. CASE i \notin DOMAIN db.logs
    <3>1. db'.logs[i] = log
      BY <1>1, <1>5, <2>2
    <3>2. log.stored \subseteq db'.books
      BY <1>1, <1>3 DEF StoredWorks
    <3> QED
      BY <1>2, <1>3, <3>1, <3>2 DEF Inv, Counts
  <2> QED
    BY <2>1, <2>2
<1>11. Agreement'
  BY <1>1, <1>2 DEF Inv, Agreement, AuthorsAgree
<1> QED
  BY <1>7, <1>8, <1>9, <1>10, <1>11 DEF Inv

\* One that fails, or a step that changes nothing, keeps everything.
LEMMA UnchangedInv ==
  ASSUME Inv, UNCHANGED <<db, session, log, todo, poisoned, gapMet, runsLeft, faultsLeft>>,
         pc' \in {pc, "idle"}
  PROVE  Inv'
<1>1. Catalogs' /\ LogMatchesCatalog' /\ Agreement'
  BY TablesKept
<1>2. TypeOK'
  BY DEF Inv, TypeOK
<1>3. Ahead' /\ Counts'
  BY DEF Inv, Ahead, Counts, StoredWorks
<1> QED
  BY <1>1, <1>2, <1>3 DEF Inv

LEMMA Invariance == Spec => []Inv
<1>1. Inv /\ [Next]_vars => Inv'
  <2> SUFFICES ASSUME Inv, [Next]_vars PROVE Inv'
    OBVIOUS
  <2>1. CASE StartRun
    BY <2>1, StartRunInv
  <2>2. CASE Search
    BY <2>2, SearchInv
  <2>3. CASE SearchFails
    BY <2>3, SearchFailsInv
  <2>4. ASSUME NEW w \in Works, HandleWork(w) PROVE Inv'
    BY <2>4, StoreWorkInv, WorkUnreadableInv, WorkHalfStoredInv, WorkRejectedInv,
          WorkRefusedInv DEF HandleWork
  <2>5. CASE FinishWorks
    BY <2>5, FinishWorksInv
  <2>6. CASE Commit
    <3>1. CASE poisoned
      BY <2>6, <3>1, UnchangedInv DEF Commit
    <3> QED
      BY <2>6, <3>1, CommitInv
  <2>7. CASE Crash
    BY <2>7, CrashInv
  <2>8. CASE UNCHANGED vars
    BY <2>8, UnchangedInv DEF vars
  <2> QED
    BY <2>1, <2>2, <2>3, <2>4, <2>5, <2>6, <2>7, <2>8 DEF Next
<1> QED
  BY <1>1, InitInv, PTL DEF Spec

-----------------------------------------------------------------------------
(* The theorems.                                                           *)

\* The tables hold values of their columns, and no log row is committed as running.
THEOREM CatalogTypeCorrect == Spec => []TypeOK
<1>1. Inv => TypeOK
  BY DEF Inv
<1> QED
  BY <1>1, Invariance, PTL

\* Whatever works are ingested again, share authors or lack keys: one author for
\* each key, and no link without its book and its author.
THEOREM CatalogStaysConsistent == Spec => []CatalogConsistent
<1>1. Inv => CatalogConsistent
  <2> SUFFICES ASSUME Inv PROVE CatalogConsistent
    OBVIOUS
  <2>1. Consistent(session)
    BY DEF Inv, Catalogs
  <2>2. ASSUME NEW l \in session.links PROVE l[1] \in session.books /\ l[2] \in Keys(session)
    BY <2>1 DEF Consistent
  <2> QED
    BY <2>1, <2>2 DEF Consistent, CatalogConsistent
<1> QED
  BY <1>1, Invariance, PTL

\* Every row of the activity log is true of the catalog, and stays so.
THEOREM LogIsTrue == Spec => []LogMatchesCatalog
<1>1. Inv => LogMatchesCatalog
  BY DEF Inv
<1> QED
  BY <1>1, Invariance, PTL

\* As long as no list had a gap, the author a book is linked to is one of its
\* work's, under the right key.
THEOREM AuthorsStayRight == Spec => []AuthorsRightWithoutGaps
<1>1. Inv => AuthorsRightWithoutGaps
  BY DEF Inv, Agreement, AuthorsAgree, AuthorsRightWithoutGaps, AuthorsRight
<1> QED
  BY <1>1, Invariance, PTL

\* A book and its optional fields stay, and what is known of a book, the title
\* included, changes only together with a log row that counts the work.
THEOREM ChangesStayLogged == Spec => ChangesAreLogged
<1>1. ASSUME Inv, [Next]_vars, db' # db, NEW w \in Works
      PROVE  LoggedChange(w)
  <2>1. Commit /\ ~ poisoned
    BY <1>1 DEF Next, vars, StartRun, Search, SearchFails, HandleWork, StoreWork,
      WorkUnreadable, WorkHalfStored, WorkRejected, WorkRefused, FinishWorks, Commit, Crash
  <2>2. /\ db'.books = session.books /\ db'.fields = session.fields
        /\ db'.logs = Append(db.logs, log)
    BY <1>1, <2>1, CommitSucceeds
  <2>3. Known(db', w) = Known(session, w)
    BY <2>2 DEF Known
  <2>4. (w \in db.books => w \in db'.books) /\ Known(db, w) \cap Optional \subseteq Known(db', w)
    BY <1>1, <2>2, <2>3 DEF Inv, Ahead
  <2>5. db.logs \in Seq(Logs({"completed", "failed"}))
    BY <1>1 DEF Inv, TypeOK, Tables
  <2>6. Len(db'.logs) = Len(db.logs) + 1 /\ Last(db'.logs) = log
    BY <2>2, <2>5 DEF Last
  <2>7. StoredWorks
    BY <1>1, <2>1 DEF Inv, Counts, Commit
  <2>8. ASSUME Touched(w) PROVE w \in log.stored \cup log.failed
    BY <2>2, <2>3, <2>4, <2>7, <2>8 DEF StoredWorks, Touched
  <2> QED
    BY <2>4, <2>6, <2>8 DEF LoggedChange
<1>2. ASSUME Inv, [Next]_vars
      PROVE  [db' # db => \A w \in Works : LoggedChange(w)]_vars
  BY <1>1, <1>2
<1> QED
  BY <1>2, Invariance, PTL DEF Spec, ChangesAreLogged

-----------------------------------------------------------------------------
(* The client.                                                             *)

\* The attempt under way is one of those that MAX_RETRIES allows, during its pause, too.
AttemptsLeft ==
  \A c \in Clients :
    call[c] \in {"pace", "send", "sent", "pause"} => attempt[c] < MaxAttempts

\* Who sleeps before a request will have kept the interval when the sleep is over.
SleepCoversInterval ==
  \A c \in Clients : call[c] = "send" => sleep[c] + since[c] >= Interval

ClientInv == ClientTypeOK /\ AttemptsLeft /\ SleepCoversInterval

\* The library knows powers of two as the numbers of subsets.
LEMMA BackoffIsNatural ==
  ASSUME NEW n \in Nat PROVE 2 ^ n \in Nat
<1> DEFINE S == 1..n
<1>1. IsFiniteSet(S) /\ Cardinality(S) = n
  BY FS_Interval
<1> HIDE DEF S
<1>2. IsFiniteSet(SUBSET S) /\ Cardinality(SUBSET S) = 2 ^ n
  BY <1>1, FS_SUBSET
<1> QED
  BY <1>2, FS_CardinalityType

LEMMA ClientInitInv == ASSUME ClientInit PROVE ClientInv
BY CountsAssumption, TicksAssumption DEF ClientInit, ClientInv, ClientTypeOK, AttemptsLeft,
       SleepCoversInterval, PCs

\* The steps of one client: Pace sleeps for what is missing to the interval, the
\* pauses come before the next Pace, and only NextAttempt counts.
LEMMA ClientStepInv ==
  ASSUME ClientInv, NEW c \in Clients,
         \/ Call(c) \/ Pace(c) \/ Send(c)
         \/ Answer(c) \/ NextAttempt(c)
  PROVE  ClientInv'
<1>1. /\ call \in [Clients -> PCs] /\ attempt \in [Clients -> 0..MaxAttempts]
      /\ sleep \in [Clients -> Nat] /\ since \in [Clients -> 0..Interval]
      /\ quiet \in 0..Interval
      /\ MaxAttempts \in Nat \ {0} /\ Interval \in Nat \ {0}
  BY CountsAssumption, TicksAssumption DEF ClientInv, ClientTypeOK
<1>2. CASE Call(c)
  BY <1>1, <1>2
     DEF ClientInv, ClientTypeOK, AttemptsLeft, SleepCoversInterval, Call,
         Goto, PCs
<1>3. CASE Pace(c)
  BY <1>1, <1>3
     DEF ClientInv, ClientTypeOK, AttemptsLeft, SleepCoversInterval, Pace,
         Goto, PCs
<1>4. CASE Send(c)
  BY <1>1, <1>4
     DEF ClientInv, ClientTypeOK, AttemptsLeft, SleepCoversInterval, Send,
         Goto, PCs
<1>5. CASE Answer(c)
  <2>1. ASSUME NEW how \in Ended, call[c] = "sent", End(c, how)
        PROVE  ClientInv'
    BY <1>1, <2>1
       DEF ClientInv, ClientTypeOK, AttemptsLeft, SleepCoversInterval, End,
           Goto, PCs, Ended
  <2>2. ASSUME NEW seconds \in Nat, call[c] = "sent", Pause(c, seconds)
        PROVE  ClientInv'
    <3>1. seconds * Second \in Nat
      BY CountsAssumption, TicksAssumption
    <3> DEFINE ticks == seconds * Second
    <3>2. sleep' = [sleep EXCEPT ![c] = ticks] /\ ticks \in Nat
      BY <2>2, <3>1 DEF Pause
    <3> HIDE DEF ticks
    <3> QED
      BY <1>1, <2>2, <3>2
         DEF ClientInv, ClientTypeOK, AttemptsLeft, SleepCoversInterval, Pause,
             Goto, PCs
  <2>3. CASE Succeed(c) \/ ClientError(c) \/ TransportFails(c)
    BY <2>1, <2>3
       DEF Succeed, ClientError, TransportFails, Ended
  <2>4. CASE TooManyRequests(c)
    <3>1. PICK seconds \in 0..MaxRetryAfter : Pause(c, seconds)
      BY <2>4 DEF TooManyRequests
    <3>2. seconds \in Nat
      BY CountsAssumption, TicksAssumption
    <3> QED
      BY <2>2, <2>4, <3>1, <3>2 DEF TooManyRequests
  <2>5. CASE Unavailable(c)
    <3>1. 2 ^ attempt[c] \in Nat
      BY <1>1, BackoffIsNatural
    <3>2. /\ call[c] = "sent"
          /\ End(c, "OpenLibraryError") \/ Pause(c, 2 ^ attempt[c])
      BY <2>5 DEF Unavailable
    <3> QED
      BY <2>1, <2>2, <3>1, <3>2 DEF Ended
  <2> QED
    BY <1>5, <2>3, <2>4, <2>5 DEF Answer
<1>6. CASE NextAttempt(c)
  <2>1. attempt[c] < MaxAttempts
    BY <1>6 DEF ClientInv, AttemptsLeft, NextAttempt
  <2> QED
    BY <1>1, <1>6, <2>1
       DEF ClientInv, ClientTypeOK, AttemptsLeft, SleepCoversInterval,
           NextAttempt, LastAttempt, Goto, PCs, Ended
<1> QED
  BY <1>2, <1>3, <1>4, <1>5, <1>6

\* A tick of the sleep is a tick since the last request.
LEMMA TickInv == ASSUME ClientInv, Tick PROVE ClientInv'
<1>1. /\ call \in [Clients -> PCs] /\ attempt \in [Clients -> 0..MaxAttempts]
      /\ sleep \in [Clients -> Nat] /\ since \in [Clients -> 0..Interval]
      /\ quiet \in 0..Interval /\ Interval \in Nat \ {0}
  BY CountsAssumption, TicksAssumption DEF ClientInv, ClientTypeOK
<1>2. /\ sleep' = [c \in Clients |-> IF sleep[c] > 0 THEN sleep[c] - 1 ELSE 0]
      /\ since' = [c \in Clients |-> Upto(since[c] + 1, Interval)]
      /\ quiet' = Upto(quiet + 1, Interval)
      /\ call' = call /\ attempt' = attempt
      /\ \A c \in Clients : call[c] = "send" => sleep[c] > 0
  BY DEF Tick
<1>3. ASSUME NEW n \in 0..Interval
      PROVE  Upto(n + 1, Interval) \in 0..Interval
  BY <1>1 DEF Upto
<1>4. ClientTypeOK'
  BY <1>1, <1>2, <1>3 DEF ClientInv, ClientTypeOK
<1>5. AttemptsLeft'
  BY <1>2 DEF ClientInv, AttemptsLeft
<1>6. ASSUME NEW c \in Clients, call'[c] = "send" PROVE sleep'[c] + since'[c] >= Interval
  <2>1. sleep[c] + since[c] >= Interval /\ sleep[c] > 0
    BY <1>2, <1>6 DEF ClientInv, SleepCoversInterval
  <2>2. sleep'[c] = sleep[c] - 1 /\ since'[c] = Upto(since[c] + 1, Interval)
    BY <1>2, <2>1
  <2> QED
    BY <1>1, <2>1, <2>2 DEF Upto
<1> QED
  BY <1>4, <1>5, <1>6 DEF ClientInv, SleepCoversInterval

LEMMA ClientInvariance == ClientSpec => []ClientInv
<1>1. ClientInv /\ UNCHANGED clientVars => ClientInv'
  BY DEF ClientInv, ClientTypeOK, AttemptsLeft, SleepCoversInterval, clientVars
<1>2. ClientInv /\ [ClientNext]_clientVars => ClientInv'
  BY <1>1, TickInv, ClientStepInv DEF ClientNext
<1> QED
  BY <1>2, ClientInitInv, PTL DEF ClientSpec

\* No call makes more than MAX_RETRIES attempts, and its counters keep their types,
\* whatever answers, timeouts and pauses follow each other.
THEOREM ClientTypeCorrect == ClientSpec => []ClientTypeOK
<1>1. ClientInv => ClientTypeOK
  BY DEF ClientInv
<1> QED
  BY <1>1, ClientInvariance, PTL

\* A client sends no two requests within the interval: not after a pause that was
\* shorter, and not in the first request of its next call.
THEOREM ClientKeepsInterval == ClientSpec => ClientSpacing
<1>1. ASSUME ClientInv, [ClientNext]_clientVars
      PROVE  [\A c \in Clients : call[c] = "send" /\ call'[c] = "sent" =>
                since[c] = Interval]_clientVars
  <2> SUFFICES ASSUME NEW c \in Clients, call[c] = "send", call'[c] = "sent"
               PROVE  since[c] = Interval
    OBVIOUS
  <2>1. sleep[c] = 0
    <3>1. ASSUME NEW d \in Clients, d # c,
                 \/ Call(d) \/ Pace(d) \/ Send(d)
                 \/ Answer(d) \/ NextAttempt(d)
          PROVE  call'[c] = call[c]
      BY <1>1, <3>1
         DEF ClientInv, ClientTypeOK, Call, Pace, Send,
             Answer, NextAttempt, Succeed, TooManyRequests,
             Unavailable, ClientError, TransportFails,
             Pause, End, Goto
    <3>2. ~ (Call(c) \/ Pace(c) \/ Answer(c) \/ NextAttempt(c))
      BY DEF Call, Pace, Answer, NextAttempt,
             Succeed, TooManyRequests, Unavailable,
             ClientError, TransportFails, Ended
    <3>3. call' # call
      OBVIOUS
    <3>4. Send(c)
      BY <1>1, <3>1, <3>2, <3>3 DEF ClientNext, Tick, clientVars
    <3> QED
      BY <3>4 DEF Send
  <2>2. sleep[c] + since[c] >= Interval /\ since[c] \in 0..Interval
    BY <1>1 DEF ClientInv, SleepCoversInterval, ClientTypeOK
  <2> QED
    BY <2>1, <2>2, CountsAssumption, TicksAssumption
<1> QED
  BY <1>1, ClientInvariance, PTL DEF ClientSpec, ClientSpacing
=============================================================================
