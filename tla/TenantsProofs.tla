---------------------------- MODULE TenantsProofs ----------------------------
(***************************************************************************)
(* The tenants table for any requests, any default tenants and any number  *)
(* of restarts and lost connections: names and slugs stay unique, the      *)
(* server can always be started with all its default tenants, and every    *)
(* answer to a request is true.                                            *)
(***************************************************************************)
EXTENDS Tenants, FiniteSetTheorems, TLAPS

\* The types of TypeOK, and that holding is a function on the requests.
Typed ==
  /\ rows \subseteq Tenant
  /\ server \in {"seeding", "up", "failed"}
  /\ unseeded \subseteq Defaults /\ added \subseteq Defaults
  /\ pc \in [Requests -> OpenPCs \cup Answers \cup {"new", "refresh"}]
  /\ holding \in [Requests -> SUBSET {Held(r, f) : r \in Requests, f \in {"name", "slug"}}]
  /\ \A r \in Requests : holding[r] \subseteq {Held(r, "name"), Held(r, "slug")}
  /\ crashesLeft \in 0..MaxCrashes /\ outagesLeft \in 0..MaxOutages

Unique == \A t, u \in rows : Clash(t, u) => t = u

\* Open transactions exclude each other from the values they have entered.
Exclusive == \A r, q \in Requests : r # q => holding[r] \cap holding[q] = {}

\* What a transaction has entered into an index it holds, and no committed row
\* has it.
Entered(r, field) == /\ Held(r, field) \in holding[r]
                     /\ \A t \in rows : t[field] # Body[r][field]
EntriesHeld ==
  \A r \in Requests : /\ pc[r] \in {"index", "commit"} => Entered(r, "name")
                      /\ pc[r] = "commit" => Entered(r, "slug")

\* Nobody is served while the container starts.
ServedWhenUp ==
  server # "up" => \A r \in Requests : pc[r] \notin OpenPCs \cup {"refresh"}

\* The first start adds all defaults to an empty table, every other one finds
\* them there and adds none.
FirstOrAgain ==
  /\ server \in {"seeding", "up"}
  /\ server = "up" => Defaults \subseteq rows
  /\ server = "seeding" => \/ rows = {} /\ added \cup unseeded = Defaults
                           \/ Defaults \subseteq rows /\ added = {}

Inv == Typed /\ Unique /\ Exclusive /\ EntriesHeld /\ ServedWhenUp /\ FirstOrAgain

USE DEF OpenPCs, Answers

LEMMA InitInv == Init => Inv
<1> SUFFICES ASSUME Init PROVE Inv
  OBVIOUS
<1>1. Typed
  BY BoundsAssumption DEF Init, Typed
<1>2. Unique /\ Exclusive /\ EntriesHeld /\ ServedWhenUp /\ FirstOrAgain
  BY DEF Init, Unique, Exclusive, EntriesHeld, ServedWhenUp, FirstOrAgain
<1> QED
  BY <1>1, <1>2 DEF Inv

\* Two transactions that hold a value each in one index hold different ones.
LEMMA HeldDiffer ==
  ASSUME Exclusive, NEW r \in Requests, NEW q \in Requests, r # q,
         NEW field \in {"name", "slug"},
         Held(r, field) \in holding[r], Held(q, field) \in holding[q]
  PROVE  Body[r][field] # Body[q][field]
BY DEF Exclusive, Held

\* A step that ends the transaction of r, or begins it, and changes no row.
LEMMA NothingEntered ==
  ASSUME Inv, NEW r \in Requests, NEW label \in Answers \cup {"lookup", "insert", "refresh"},
         Goto(r, label), UNCHANGED <<rows, startup>>,
         holding' \in {holding, [holding EXCEPT ![r] = {}]},
         crashesLeft' \in 0..MaxCrashes, outagesLeft' \in 0..MaxOutages,
         label \in {"lookup", "insert", "refresh"} => server = "up"
  PROVE  Inv'
<1>1. Typed'
  BY DEF Inv, Typed, Goto, startup
<1>2. \A q \in Requests : /\ holding'[q] \subseteq holding[q]
                          /\ q # r => holding'[q] = holding[q] /\ pc'[q] = pc[q]
  BY DEF Inv, Typed, Goto
<1>3. pc'[r] = label
  BY DEF Inv, Typed, Goto
<1>4. Unique' /\ FirstOrAgain'
  BY DEF Inv, Unique, FirstOrAgain, startup
<1>5. Exclusive'
  BY <1>2 DEF Inv, Exclusive
<1>6. EntriesHeld'
  BY <1>2, <1>3 DEF Inv, EntriesHeld, Entered, Held
<1>7. ServedWhenUp'
  BY <1>2, <1>3 DEF Inv, ServedWhenUp, startup
<1> QED
  BY <1>1, <1>4, <1>5, <1>6, <1>7 DEF Inv

\* An index entry that meets neither an open transaction nor a row.
LEMMA EntersFree ==
  ASSUME Inv, NEW r \in Requests, NEW field \in {"name", "slug"}, NEW next,
         \/ field = "name" /\ next = "index" /\ pc[r] = "insert"
         \/ field = "slug" /\ next = "commit" /\ pc[r] = "index",
         \A q \in Requests \ {r} : Held(r, field) \notin holding[q],
         \A t \in rows : t[field] # Body[r][field],
         holding' = [holding EXCEPT ![r] = @ \cup {Held(r, field)}],
         Goto(r, next), UNCHANGED <<rows, startup, budgets>>
  PROVE  Inv'
<1>1. Typed'
  <2>1. holding[r] \cup {Held(r, field)} \subseteq {Held(r, "name"), Held(r, "slug")}
    BY DEF Inv, Typed
  <2>2. holding[r] \cup {Held(r, field)}
          \in SUBSET {Held(q, f) : q \in Requests, f \in {"name", "slug"}}
    BY <2>1
  <2> QED
    BY <2>1, <2>2 DEF Inv, Typed, Goto, startup, budgets, Held
<1>2. \A q \in Requests \ {r} : holding'[q] = holding[q] /\ pc'[q] = pc[q]
  BY DEF Inv, Typed, Goto
<1>3. holding'[r] = holding[r] \cup {Held(r, field)} /\ pc'[r] = next
  BY DEF Inv, Typed, Goto
<1>4. Unique' /\ FirstOrAgain'
  BY DEF Inv, Unique, FirstOrAgain, startup
<1>5. Exclusive'
  BY <1>2, <1>3 DEF Inv, Exclusive
<1>6. EntriesHeld'
  <2>1. ASSUME NEW q \in Requests, q # r
        PROVE  /\ pc'[q] \in {"index", "commit"} => Entered(q, "name")'
               /\ pc'[q] = "commit" => Entered(q, "slug")'
    BY <1>2, <2>1 DEF Inv, EntriesHeld, Entered, Held
  <2>2. /\ pc'[r] \in {"index", "commit"} => Entered(r, "name")'
        /\ pc'[r] = "commit" => Entered(r, "slug")'
    BY <1>3 DEF Inv, EntriesHeld, Entered, Held
  <2> QED
    BY <2>1, <2>2 DEF EntriesHeld
<1>7. ServedWhenUp'
  BY <1>2, <1>3 DEF Inv, ServedWhenUp, startup
<1> QED
  BY <1>1, <1>4, <1>5, <1>6, <1>7 DEF Inv

LEMMA EnterKeepsInv ==
  ASSUME Inv, NEW r \in Requests, Insert(r)
  PROVE  Inv'
<1>1. ASSUME NEW field \in {"name", "slug"}, NEW next,
             \/ field = "name" /\ next = "index" /\ pc[r] = "insert"
             \/ field = "slug" /\ next = "commit" /\ pc[r] = "index",
             Enter(r, field, next)
      PROVE  Inv'
  <2>1. UNCHANGED <<rows, startup, budgets>>
    BY DEF Insert
  <2>2. CASE \E t \in rows : t[field] = Body[r][field]
    <3>1. holding' = [holding EXCEPT ![r] = {}] /\ Goto(r, "rejected")
      BY <1>1, <2>2 DEF Enter
    <3>2. crashesLeft' \in 0..MaxCrashes /\ outagesLeft' \in 0..MaxOutages
      BY <2>1 DEF Inv, Typed, budgets
    <3> QED
      BY <2>1, <3>1, <3>2, NothingEntered
  <2>3. CASE ~ \E t \in rows : t[field] = Body[r][field]
    <3>1. /\ \A q \in Requests \ {r} : Held(r, field) \notin holding[q]
          /\ holding' = [holding EXCEPT ![r] = @ \cup {Held(r, field)}]
          /\ Goto(r, next)
      BY <1>1, <2>3 DEF Enter
    <3> QED
      BY <1>1, <2>1, <2>3, <3>1, EntersFree
  <2> QED
    BY <2>2, <2>3
<1>2. \/ pc[r] = "insert" /\ Enter(r, "name", "index")
      \/ pc[r] = "index" /\ Enter(r, "slug", "commit")
  BY DEF Insert
<1> QED
  BY <1>1, <1>2

LEMMA CommitKeepsInv ==
  ASSUME Inv, NEW r \in Requests, Commit(r)
  PROVE  Inv'
<1>1. /\ pc[r] = "commit" /\ rows' = rows \cup {Body[r]}
      /\ \A q \in Requests \ {r} : holding'[q] = holding[q] /\ pc'[q] = pc[q]
      /\ holding'[r] = {} /\ pc'[r] = "refresh"
      /\ UNCHANGED <<server, unseeded, added, crashesLeft, outagesLeft>>
  BY DEF Inv, Typed, Commit, Goto, startup, budgets
<1>2. server = "up"
  BY <1>1 DEF Inv, ServedWhenUp
<1>3. Entered(r, "name") /\ Entered(r, "slug")
  BY <1>1 DEF Inv, EntriesHeld
<1>4. Typed'
  BY <1>1 DEF Inv, Typed, Commit, Goto, Tenant
<1>5. Unique'
  <2>1. \A t \in rows : ~ Clash(t, Body[r]) /\ ~ Clash(Body[r], t)
    BY <1>3 DEF Entered, Clash
  <2> QED
    BY <1>1, <2>1 DEF Inv, Unique
<1>6. Exclusive'
  BY <1>1 DEF Inv, Exclusive
<1>7. EntriesHeld'
  <2>1. ASSUME NEW q \in Requests \ {r}, NEW field \in {"name", "slug"},
               Entered(q, field)
        PROVE  Entered(q, field)'
    <3>1. Body[r][field] # Body[q][field]
      BY <1>3, <2>1, HeldDiffer DEF Inv, Entered
    <3> QED
      BY <1>1, <2>1, <3>1 DEF Entered, Held
  <2> QED
    BY <1>1, <2>1 DEF Inv, EntriesHeld
<1>8. ServedWhenUp' /\ FirstOrAgain'
  BY <1>1, <1>2 DEF Inv, ServedWhenUp, FirstOrAgain
<1> QED
  BY <1>4, <1>5, <1>6, <1>7, <1>8 DEF Inv

LEMMA SeedTenantKeepsInv ==
  ASSUME Inv, NEW t \in Defaults, SeedTenant(t)
  PROVE  Inv'
<1>1. Typed'
  BY DEF Inv, Typed, SeedTenant, budgets
<1>2. Unique' /\ Exclusive' /\ EntriesHeld' /\ ServedWhenUp'
  BY DEF Inv, Unique, Exclusive, EntriesHeld, Entered, Held, ServedWhenUp, SeedTenant
<1>3. FirstOrAgain'
  <2>1. CASE rows = {}
    BY <2>1 DEF Inv, FirstOrAgain, SeedTenant
  <2>2. CASE Defaults \subseteq rows /\ added = {}
    BY <2>2 DEF Inv, FirstOrAgain, SeedTenant
  <2> QED
    BY <2>1, <2>2 DEF Inv, FirstOrAgain, SeedTenant
<1> QED
  BY <1>1, <1>2, <1>3 DEF Inv

LEMMA SeedCommitKeepsInv ==
  ASSUME Inv, SeedCommit
  PROVE  Inv'
<1>1. \/ rows = {} /\ added = Defaults
      \/ Defaults \subseteq rows /\ added = {}
  BY DEF Inv, FirstOrAgain, SeedCommit
<1>2. server = "seeding" /\ server' = "up" /\ rows' = rows \cup added
  BY <1>1 DEF SeedCommit
<1>3. Typed'
  BY <1>2 DEF Inv, Typed, SeedCommit, budgets, Tenant
<1>4. Unique'
  BY <1>1, <1>2, DefaultsAssumption DEF Inv, Unique, Clash
<1>5. Exclusive'
  BY DEF Inv, Exclusive, SeedCommit
<1>6. EntriesHeld' /\ ServedWhenUp' /\ FirstOrAgain'
  BY <1>1, <1>2 DEF Inv, EntriesHeld, ServedWhenUp, FirstOrAgain, SeedCommit
<1> QED
  BY <1>3, <1>4, <1>5, <1>6 DEF Inv

LEMMA CrashKeepsInv ==
  ASSUME Inv, Crash
  PROVE  Inv'
<1>1. /\ \A r \in Requests : /\ holding'[r] = {}
                             /\ pc'[r] \notin OpenPCs \cup {"refresh"}
      /\ rows' = rows /\ server' = "seeding" /\ unseeded' = Defaults /\ added' = {}
  BY DEF Inv, Typed, Crash
<1>2. Typed'
  BY <1>1, BoundsAssumption DEF Inv, Typed, Crash
<1>3. Unique' /\ Exclusive' /\ EntriesHeld' /\ ServedWhenUp'
  BY <1>1 DEF Inv, Unique, Exclusive, EntriesHeld, ServedWhenUp
<1>4. FirstOrAgain'
  BY <1>1 DEF Inv, FirstOrAgain
<1> QED
  BY <1>2, <1>3, <1>4 DEF Inv

LEMMA NextInv == Inv /\ [Next]_vars => Inv'
<1> SUFFICES ASSUME Inv, [Next]_vars PROVE Inv'
  OBVIOUS
<1>1. CASE Seed
  BY <1>1, SeedTenantKeepsInv, SeedCommitKeepsInv DEF Seed
<1>2. CASE Crash
  BY <1>2, CrashKeepsInv
<1>3. ASSUME NEW r \in Requests, Receive(r) PROVE Inv'
  BY <1>3, NothingEntered DEF Inv, Typed, Receive, budgets
<1>4. ASSUME NEW r \in Requests, Lookup(r) PROVE Inv'
  <2>1. server = "up"
    BY <1>4 DEF Inv, ServedWhenUp, Lookup
  <2>2. PICK label \in {"insert", "ambiguous", "slugTaken", "nameTaken"} : Goto(r, label)
    BY <1>4 DEF Lookup, Field
  <2>3. UNCHANGED <<rows, startup, holding, budgets>>
    BY <1>4 DEF Lookup
  <2>4. crashesLeft' \in 0..MaxCrashes /\ outagesLeft' \in 0..MaxOutages
    BY <2>3 DEF Inv, Typed, budgets
  <2>5. label \in Answers \cup {"lookup", "insert", "refresh"}
    BY <2>2
  <2> QED
    BY <2>1, <2>2, <2>3, <2>4, <2>5, NothingEntered
<1>5. ASSUME NEW r \in Requests, Insert(r) PROVE Inv'
  BY <1>5, EnterKeepsInv
<1>6. ASSUME NEW r \in Requests, Commit(r) PROVE Inv'
  BY <1>6, CommitKeepsInv
<1>7. ASSUME NEW r \in Requests, Refresh(r) PROVE Inv'
  BY <1>7, NothingEntered DEF Inv, Typed, Refresh, budgets
<1>8. ASSUME NEW r \in Requests, ConnectionLost(r) PROVE Inv'
  <2>1. /\ Goto(r, "error") /\ UNCHANGED <<rows, startup>>
        /\ holding' = [holding EXCEPT ![r] = {}]
    BY <1>8 DEF ConnectionLost
  <2>2. crashesLeft' \in 0..MaxCrashes /\ outagesLeft' \in 0..MaxOutages
    BY <1>8, BoundsAssumption DEF Inv, Typed, ConnectionLost
  <2> QED
    BY <2>1, <2>2, NothingEntered
<1>9. CASE UNCHANGED vars
  BY <1>9 DEF Inv, Typed, Unique, Exclusive, EntriesHeld, Entered, Held, ServedWhenUp,
              FirstOrAgain, vars
<1> QED
  BY <1>1, <1>2, <1>3, <1>4, <1>5, <1>6, <1>7, <1>8, <1>9 DEF Next, Statement

LEMMA Invariance == Spec => []Inv
BY InitInv, NextInv, PTL DEF Spec

\* Names and slugs are unique, in the table and among open transactions, whatever
\* requests rival, whenever the container restarts or connections break.
THEOREM NamesAndSlugsUnique == Spec => []TypeOK
<1>1. Inv => TypeOK
  BY DEF Inv, Typed, Unique, Exclusive, TypeOK
<1> QED
  BY <1>1, Invariance, PTL

\* The API container can always be started, and serves with all its default
\* tenants, for any defaults of distinct names and slugs.
THEOREM AlwaysServed == Spec => []DefaultsServed
<1>1. Inv => DefaultsServed
  BY DEF Inv, FirstOrAgain, DefaultsServed
<1> QED
  BY <1>1, Invariance, PTL

-----------------------------------------------------------------------------
(* What the answers say.                                                   *)

\* A request that made its tenant, told already or not.
Made(r) == pc[r] \in {"refresh", "created"}

\* The answers, with the answer "ambiguous" in terms of two rows.
TrueSoFar ==
  /\ \A r \in Requests :
       /\ pc[r] = "slugTaken" => \E t \in rows : t.slug = Body[r].slug
       /\ pc[r] = "nameTaken" => \E t \in rows : t.name = Body[r].name
                                                 /\ t.slug # Body[r].slug
       /\ pc[r] = "rejected" => \E t \in rows : Clash(t, Body[r])
       /\ pc[r] = "ambiguous" => \E t, u \in rows : /\ t # u
                                                    /\ Clash(t, Body[r])
                                                    /\ Clash(u, Body[r])
       /\ Made(r) => Body[r] \in rows
  /\ \A r, q \in Requests : Made(r) /\ Made(q) /\ Clash(Body[r], Body[q]) => r = q
  /\ \A t \in rows \ Defaults : \E r \in Requests :
       t = Body[r] /\ (Made(r) \/ pc[r] = "error")

\* More than one row in conflict with a request are two: one of its name, the
\* other of its slug.
LEMMA TwoInConflict ==
  ASSUME Unique, NEW r \in Requests
  PROVE  /\ Cardinality(Existing(r)) > 1 <=>
              \E t, u \in rows : t # u /\ Clash(t, Body[r]) /\ Clash(u, Body[r])
         /\ Cardinality(Existing(r)) > 1 => Cardinality(Existing(r)) = 2
<1>1. ASSUME Existing(r) = {}
      PROVE  /\ Cardinality(Existing(r)) = 0
             /\ ~ \E v, u \in rows : v # u /\ Clash(v, Body[r]) /\ Clash(u, Body[r])
  <2>1. Cardinality(Existing(r)) = 0
    BY <1>1, FS_EmptySet
  <2>2. ~ \E v, u \in rows : v # u /\ Clash(v, Body[r]) /\ Clash(u, Body[r])
    BY <1>1 DEF Existing
  <2> QED
    BY <2>1, <2>2
<1>2. ASSUME NEW t, Existing(r) = {t}
      PROVE  /\ Cardinality(Existing(r)) = 1
             /\ ~ \E v, u \in rows : v # u /\ Clash(v, Body[r]) /\ Clash(u, Body[r])
  <2>1. Cardinality(Existing(r)) = 1
    BY <1>2, FS_Singleton
  <2>2. ~ \E v, u \in rows : v # u /\ Clash(v, Body[r]) /\ Clash(u, Body[r])
    BY <1>2 DEF Existing
  <2> QED
    BY <2>1, <2>2
<1>3. ASSUME NEW t \in Existing(r), NEW u \in Existing(r), t # u
      PROVE  Cardinality(Existing(r)) = 2
  <2>1. \A v \in Existing(r) : v = t \/ v = u
    BY <1>3 DEF Existing, Clash, Unique
  <2>2. Existing(r) = {t} \cup {u}
    BY <2>1
  <2>3. IsFiniteSet({t}) /\ Cardinality({t}) = 1
    BY FS_Singleton
  <2> QED
    BY <1>3, <2>2, <2>3, FS_AddElement
<1>4. \/ Existing(r) = {} \/ \E t : Existing(r) = {t}
      \/ \E t, u \in Existing(r) : t # u
  OBVIOUS
<1>5. CASE \E t, u \in Existing(r) : t # u
  <2>1. Cardinality(Existing(r)) = 2
    BY <1>3, <1>5
  <2>2. \E t, u \in rows : t # u /\ Clash(t, Body[r]) /\ Clash(u, Body[r])
    BY <1>5 DEF Existing
  <2> QED
    BY <2>1, <2>2
<1> QED
  BY <1>1, <1>2, <1>4, <1>5

LEMMA InitTrueSoFar == Init => TrueSoFar
BY DEF Init, TrueSoFar, Made

\* The rows stay, and the answer of one request at most becomes another, one that
\* is true.
LEMMA AnswerGiven ==
  ASSUME Inv, TrueSoFar, NEW r \in Requests, NEW label, Goto(r, label), rows' = rows,
         label = "slugTaken" => \E t \in rows : t.slug = Body[r].slug,
         label = "nameTaken" => \E t \in rows : t.name = Body[r].name
                                              /\ t.slug # Body[r].slug,
         label = "rejected" => \E t \in rows : Clash(t, Body[r]),
         label = "ambiguous" => \E t, u \in rows : t # u /\ Clash(t, Body[r])
                                                         /\ Clash(u, Body[r]),
         label \in {"refresh", "created"} => Made(r),
         Made(r) => label \in {"refresh", "created", "error"},
         pc[r] # "error"
  PROVE  TrueSoFar'
<1>1. /\ \A q \in Requests \ {r} : pc'[q] = pc[q]
      /\ pc'[r] = label
  BY DEF Inv, Typed, Goto
<1>2. \A q \in Requests : Made(q)' => Made(q)
  BY <1>1 DEF Made
<1>3. \A q \in Requests : Made(q) \/ pc[q] = "error" => Made(q)' \/ pc'[q] = "error"
  BY <1>1 DEF Made
<1>4. \A q \in Requests :
        /\ pc'[q] = "slugTaken" => \E t \in rows : t.slug = Body[q].slug
        /\ pc'[q] = "nameTaken" => \E t \in rows : t.name = Body[q].name
                                                 /\ t.slug # Body[q].slug
        /\ pc'[q] = "rejected" => \E t \in rows : Clash(t, Body[q])
        /\ pc'[q] = "ambiguous" => \E t, u \in rows : /\ t # u
                                                     /\ Clash(t, Body[q])
                                                     /\ Clash(u, Body[q])
        /\ Made(q)' => Body[q] \in rows
  BY <1>1, <1>2 DEF TrueSoFar
<1>5. \A q, u \in Requests : Made(q)' /\ Made(u)' /\ Clash(Body[q], Body[u]) => q = u
  BY <1>2 DEF TrueSoFar
<1>6. \A t \in rows' \ Defaults : \E q \in Requests :
        t = Body[q] /\ (Made(q)' \/ pc'[q] = "error")
  BY <1>3 DEF TrueSoFar
<1>7. \A t, u : Clash(t, u)' <=> Clash(t, u)
  BY DEF Clash
<1> QED
  BY <1>4, <1>5, <1>6, <1>7 DEF TrueSoFar, Clash

\* No step of the start, and no crash, takes anything from an answer.
LEMMA RestartKeepsAnswers ==
  ASSUME Inv, TrueSoFar, Seed \/ Crash
  PROVE  TrueSoFar'
<1>1. rows \subseteq rows' /\ rows' \subseteq rows \cup Defaults
  BY DEF Seed, SeedTenant, SeedCommit, Crash, Inv, Typed
<1>2. \A r \in Requests : \/ pc'[r] = pc[r]
                          \/ pc[r] \in OpenPCs \cup {"refresh"} /\ pc'[r] = "error"
  BY DEF Seed, SeedTenant, SeedCommit, Crash, Inv, Typed
<1>3. \A r \in Requests : /\ Made(r)' => Made(r)
                          /\ Made(r) \/ pc[r] = "error" => Made(r)' \/ pc'[r] = "error"
  BY <1>2 DEF Made
<1>4. \A r \in Requests :
        /\ pc'[r] = "slugTaken" => \E t \in rows' : t.slug = Body[r].slug
        /\ pc'[r] = "nameTaken" => \E t \in rows' : t.name = Body[r].name
                                                  /\ t.slug # Body[r].slug
        /\ pc'[r] = "rejected" => \E t \in rows' : Clash(t, Body[r])
        /\ pc'[r] = "ambiguous" => \E t, u \in rows' : /\ t # u
                                                      /\ Clash(t, Body[r])
                                                      /\ Clash(u, Body[r])
        /\ Made(r)' => Body[r] \in rows'
  BY <1>1, <1>2, <1>3 DEF TrueSoFar
<1>5. \A q, u \in Requests : Made(q)' /\ Made(u)' /\ Clash(Body[q], Body[u]) => q = u
  BY <1>3 DEF TrueSoFar
<1>6. \A t \in rows' \ Defaults : \E q \in Requests :
        t = Body[q] /\ (Made(q)' \/ pc'[q] = "error")
  BY <1>1, <1>3 DEF TrueSoFar
<1> QED
  BY <1>4, <1>5, <1>6 DEF TrueSoFar, Clash

\* A commit makes one tenant, which clashes with no other that was made.
LEMMA CommitKeepsAnswers ==
  ASSUME Inv, TrueSoFar, NEW r \in Requests, Commit(r)
  PROVE  TrueSoFar'
<1>1. /\ pc[r] = "commit" /\ rows' = rows \cup {Body[r]} /\ pc'[r] = "refresh"
      /\ \A q \in Requests \ {r} : pc'[q] = pc[q]
  BY DEF Inv, Typed, Commit, Goto
<1>2. \A q \in Requests : /\ q # r => (Made(q)' <=> Made(q))
                          /\ Made(r)'
  BY <1>1 DEF Made
<1>3. \A t \in rows : ~ Clash(t, Body[r]) /\ ~ Clash(Body[r], t)
  BY <1>1 DEF Inv, EntriesHeld, Entered, Clash
<1>4. \A q \in Requests :
        /\ pc'[q] = "slugTaken" => \E t \in rows' : t.slug = Body[q].slug
        /\ pc'[q] = "nameTaken" => \E t \in rows' : t.name = Body[q].name
                                                  /\ t.slug # Body[q].slug
        /\ pc'[q] = "rejected" => \E t \in rows' : Clash(t, Body[q])
        /\ pc'[q] = "ambiguous" => \E t, u \in rows' : /\ t # u
                                                      /\ Clash(t, Body[q])
                                                      /\ Clash(u, Body[q])
        /\ Made(q)' => Body[q] \in rows'
  BY <1>1, <1>2 DEF TrueSoFar
<1>5. \A q, u \in Requests : Made(q)' /\ Made(u)' /\ Clash(Body[q], Body[u]) => q = u
  BY <1>2, <1>3 DEF TrueSoFar
<1>6. \A t \in rows' \ Defaults : \E q \in Requests :
        t = Body[q] /\ (Made(q)' \/ pc'[q] = "error")
  BY <1>1, <1>2 DEF TrueSoFar
<1> QED
  BY <1>4, <1>5, <1>6 DEF TrueSoFar, Clash

LEMMA NextTrueSoFar == Inv /\ TrueSoFar /\ [Next]_vars => TrueSoFar'
<1> SUFFICES ASSUME Inv, TrueSoFar, [Next]_vars PROVE TrueSoFar'
  OBVIOUS
<1>1. CASE Seed \/ Crash
  BY <1>1, RestartKeepsAnswers
<1>2. ASSUME NEW r \in Requests, Receive(r) PROVE TrueSoFar'
  BY <1>2, AnswerGiven DEF Receive, Made
<1>3. ASSUME NEW r \in Requests, Lookup(r) PROVE TrueSoFar'
  <2>1. rows' = rows /\ pc[r] = "lookup"
    BY <1>3 DEF Lookup
  <2>2. CASE Existing(r) = {} /\ Goto(r, "insert")
    BY <2>1, <2>2, AnswerGiven DEF Made
  <2>3. CASE Cardinality(Existing(r)) > 1 /\ Goto(r, "ambiguous")
    BY <2>1, <2>3, TwoInConflict, AnswerGiven DEF Made, Inv
  <2>4. ASSUME NEW t \in rows, Existing(r) = {t}, Goto(r, Field(t, r))
        PROVE  TrueSoFar'
    <3>1. Clash(t, Body[r])
      BY <2>4 DEF Existing
    <3>2. CASE t.slug = Body[r].slug
      <4>1. Goto(r, "slugTaken")
        BY <2>4, <3>2 DEF Field
      <4> QED
        BY <2>1, <3>2, <4>1, AnswerGiven DEF Made
    <3>3. CASE t.slug # Body[r].slug
      <4>1. Goto(r, "nameTaken") /\ t.name = Body[r].name
        BY <2>4, <3>1, <3>3 DEF Field, Clash
      <4> QED
        BY <2>1, <3>3, <4>1, AnswerGiven DEF Made
    <3> QED
      BY <3>2, <3>3
  <2> QED
    BY <1>3, <2>2, <2>3, <2>4 DEF Lookup
<1>4. ASSUME NEW r \in Requests, Insert(r) PROVE TrueSoFar'
  <2>1. rows' = rows /\ pc[r] \in {"insert", "index"}
    BY <1>4 DEF Insert
  <2>2. \/ Goto(r, "index") \/ Goto(r, "commit")
        \/ Goto(r, "rejected") /\ \E t \in rows : Clash(t, Body[r])
    BY <1>4 DEF Insert, Enter, Clash
  <2> QED
    BY <2>1, <2>2, AnswerGiven DEF Made
<1>5. ASSUME NEW r \in Requests, Commit(r) PROVE TrueSoFar'
  BY <1>5, CommitKeepsAnswers
<1>6. ASSUME NEW r \in Requests, Refresh(r) PROVE TrueSoFar'
  BY <1>6, AnswerGiven DEF Refresh, Made
<1>7. ASSUME NEW r \in Requests, ConnectionLost(r) PROVE TrueSoFar'
  BY <1>7, AnswerGiven DEF ConnectionLost, Made
<1>8. CASE UNCHANGED vars
  BY <1>8 DEF TrueSoFar, Made, Clash, vars
<1> QED
  BY <1>1, <1>2, <1>3, <1>4, <1>5, <1>6, <1>7, <1>8 DEF Next, Statement

\* Every answer is true, for any requests: who is refused collides with a tenant
\* that exists, in the field named; one of rivals at most is told that it made the
\* tenant, and there are no tenants that nobody asked for.
THEOREM AnswersTrue == Spec => []AnswersAreTrue
<1>1. Inv /\ TrueSoFar => AnswersAreTrue
  <2> SUFFICES ASSUME Inv, TrueSoFar PROVE AnswersAreTrue
    OBVIOUS
  <2>1. RefusalsAreTrue
    BY TwoInConflict DEF Inv, TrueSoFar, RefusalsAreTrue, Existing
  <2>2. CreatedOnce
    BY DEF TrueSoFar, CreatedOnce, Made
  <2> QED
    BY <2>1, <2>2 DEF AnswersAreTrue
<1> QED
  BY <1>1, InitTrueSoFar, NextTrueSoFar, Invariance, PTL DEF Spec
=============================================================================
