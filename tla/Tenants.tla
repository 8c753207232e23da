------------------------------ MODULE Tenants ------------------------------
(***************************************************************************)
(* The tenants table: create_tenant, whose requests run concurrently in    *)
(* the API server, and seed_tenants, which runs to completion before every *)
(* start of that server. Both look before they insert; the unique          *)
(* constraints on name and slug decide what the lookup could not see.      *)
(*                                                                         *)
(* PostgreSQL enters a new row into the index on name, then into the one   *)
(* on slug, and waits at each for an open transaction that holds the value.*)
(***************************************************************************)
EXTENDS Naturals, FiniteSets

CONSTANTS Requests,     \* POST /tenants
          Body,         \* Body[r]: the name and slug of request r
          Defaults,     \* DEFAULT_TENANTS
          MaxCrashes,   \* bound: deaths of the API process
          MaxOutages    \* bound: statements that lose their connection

Tenant == {Body[r] : r \in Requests} \cup Defaults

ASSUME BodyAssumption ==
  \A t \in Tenant : DOMAIN t = {"name", "slug"}
ASSUME DefaultsAssumption ==
  \A t, u \in Defaults : t.name = u.name \/ t.slug = u.slug => t = u
ASSUME BoundsAssumption == MaxCrashes \in Nat /\ MaxOutages \in Nat

VARIABLES rows,      \* the committed rows
          server,    \* "seeding", "up", or "failed": the container has exited
          unseeded,  \* defaults that the running seed_tenants did not look up yet
          added,     \* rows in its session
          holding,   \* the unique values each open transaction has entered
          pc,        \* the next statement, or the answer, of each request
          crashesLeft, outagesLeft

vars == <<rows, server, unseeded, added, holding, pc, crashesLeft, outagesLeft>>
startup == <<server, unseeded, added>>
budgets == <<crashesLeft, outagesLeft>>

Init == /\ rows = {} /\ server = "seeding"
        /\ unseeded = Defaults /\ added = {}
        /\ holding = [r \in Requests |-> {}]
        /\ pc = [r \in Requests |-> "new"]
        /\ crashesLeft = MaxCrashes /\ outagesLeft = MaxOutages

Goto(r, label) == pc' = [pc EXCEPT ![r] = label]
OpenPCs == {"lookup", "insert", "index", "commit"}

-----------------------------------------------------------------------------
(* seed_tenants, between the migrations and uvicorn.                       *)

\* Wrong variant: the lookup is left out.
SeedTenantUnchecked(t) == /\ server = "seeding" /\ t \in unseeded
                          /\ unseeded' = unseeded \ {t}
                          /\ added' = added \cup {t}
                          /\ UNCHANGED <<rows, server, holding, pc, budgets>>

SeedTenant(t) == /\ server = "seeding" /\ t \in unseeded
                 /\ unseeded' = unseeded \ {t}
                 /\ added' = IF \E u \in rows : u.slug = t.slug
                             THEN added ELSE added \cup {t}
                 /\ UNCHANGED <<rows, server, holding, pc, budgets>>

Clash(t, u) == t.name = u.name \/ t.slug = u.slug

\* Only a commit without a conflict lets the server start.
SeedCommit == /\ server = "seeding" /\ unseeded = {}
              /\ IF \E t \in added, u \in rows : Clash(t, u)
                 THEN server' = "failed" /\ UNCHANGED rows
                 ELSE server' = "up" /\ rows' = rows \cup added
              /\ UNCHANGED <<unseeded, added, holding, pc, budgets>>

-----------------------------------------------------------------------------
(* create_tenant.                                                          *)

Receive(r) == /\ server = "up" /\ pc[r] = "new"
              /\ Goto(r, "lookup")
              /\ UNCHANGED <<rows, startup, holding, budgets>>

Existing(r) == {t \in rows : Clash(t, Body[r])}

\* Wrong variant: the other field is compared.
FieldOfOther(t, r) == IF t.name = Body[r].name THEN "slugTaken" ELSE "nameTaken"

Field(t, r) == IF t.slug = Body[r].slug THEN "slugTaken" ELSE "nameTaken"

\* scalar_one_or_none raises when one row has the slug and another the name.
Lookup(r) == /\ pc[r] = "lookup"
             /\ \/ Existing(r) = {} /\ Goto(r, "insert")
                \/ Cardinality(Existing(r)) > 1 /\ Goto(r, "ambiguous")
                \/ \E t \in rows : Existing(r) = {t} /\ Goto(r, Field(t, r))
             /\ UNCHANGED <<rows, startup, holding, budgets>>

Held(r, field) == <<field, Body[r][field]>>

\* Wrong variant: there is no constraint on the field.
EnterUnconstrained(r, field, next) ==
  /\ holding' = [holding EXCEPT ![r] = @ \cup {Held(r, field)}]
  /\ Goto(r, next)

\* The index entry waits for open ones of the same value and then meets the
\* committed one, if there is one by now: IntegrityError.
Enter(r, field, next) ==
  /\ \A q \in Requests \ {r} : Held(r, field) \notin holding[q]
  /\ IF \E t \in rows : t[field] = Body[r][field]
     THEN /\ holding' = [holding EXCEPT ![r] = {}]
          /\ Goto(r, "rejected")
     ELSE /\ holding' = [holding EXCEPT ![r] = @ \cup {Held(r, field)}]
          /\ Goto(r, next)

Insert(r) == /\ \/ pc[r] = "insert" /\ Enter(r, "name", "index")
                \/ pc[r] = "index" /\ Enter(r, "slug", "commit")
             /\ UNCHANGED <<rows, startup, budgets>>

Commit(r) == /\ pc[r] = "commit"
             /\ rows' = rows \cup {Body[r]}
             /\ holding' = [holding EXCEPT ![r] = {}]
             /\ Goto(r, "refresh")
             /\ UNCHANGED <<startup, budgets>>

\* session.refresh, and the answer 201.
Refresh(r) == /\ pc[r] = "refresh"
              /\ Goto(r, "created")
              /\ UNCHANGED <<rows, startup, holding, budgets>>

\* Wrong variant: the connection goes back to the pool with its transaction.
ConnectionLostHolding(r) == /\ pc[r] \in OpenPCs \cup {"refresh"} /\ outagesLeft > 0
                            /\ outagesLeft' = outagesLeft - 1
                            /\ Goto(r, "error")
                            /\ UNCHANGED <<rows, startup, holding, crashesLeft>>

\* Nobody handles it: 500, and an open transaction rolls back. After the commit
\* only the answer is lost.
ConnectionLost(r) == /\ pc[r] \in OpenPCs \cup {"refresh"} /\ outagesLeft > 0
                     /\ outagesLeft' = outagesLeft - 1
                     /\ holding' = [holding EXCEPT ![r] = {}]
                     /\ Goto(r, "error")
                     /\ UNCHANGED <<rows, startup, crashesLeft>>

\* The container dies and is started again.
Crash == /\ crashesLeft > 0
         /\ crashesLeft' = crashesLeft - 1
         /\ server' = "seeding" /\ unseeded' = Defaults /\ added' = {}
         /\ holding' = [r \in Requests |-> {}]
         /\ pc' = [r \in Requests |-> IF pc[r] \in OpenPCs \cup {"refresh"}
                                      THEN "error" ELSE pc[r]]
         /\ UNCHANGED <<rows, outagesLeft>>

Seed == SeedCommit \/ \E t \in Defaults : SeedTenant(t)
Statement(r) == Lookup(r) \/ Insert(r) \/ Commit(r) \/ Refresh(r)

Next == \/ Seed \/ Crash
        \/ \E r \in Requests : Receive(r) \/ Statement(r) \/ ConnectionLost(r)

Spec == Init /\ [][Next]_vars

\* The server goes on with what it has begun, and PostgreSQL wakes a waiting
\* INSERT up.
FairSpec == Spec /\ WF_vars(Seed) /\ \A r \in Requests : WF_vars(Statement(r))

-----------------------------------------------------------------------------
(* Properties.                                                             *)

Answers == {"created", "slugTaken", "nameTaken", "ambiguous", "rejected", "error"}

\* Rows, sessions and answers; no two rows, and no two open transactions, share
\* a name or a slug.
TypeOK == /\ rows \subseteq Tenant
          /\ \A t, u \in rows : Clash(t, u) => t = u
          /\ server \in {"seeding", "up", "failed"}
          /\ unseeded \subseteq Defaults /\ added \subseteq Defaults
          /\ pc \in [Requests -> OpenPCs \cup Answers \cup {"new", "refresh"}]
          /\ \A r \in Requests :
               holding[r] \subseteq {Held(r, f) : f \in {"name", "slug"}}
          /\ \A r, q \in Requests : r # q => holding[r] \cap holding[q] = {}
          /\ crashesLeft \in 0..MaxCrashes /\ outagesLeft \in 0..MaxOutages

\* Whoever is refused really collides with a tenant that exists, in the field
\* the answer names: no request fails because of a rival that fails itself, in
\* a chain of waiting inserts either.
RefusalsAreTrue ==
  \A r \in Requests :
    /\ pc[r] = "slugTaken" => \E t \in rows : t.slug = Body[r].slug
    /\ pc[r] = "nameTaken" => \E t \in rows : t.name = Body[r].name
                                              /\ t.slug # Body[r].slug
    /\ pc[r] = "rejected" => Existing(r) # {}
    /\ pc[r] = "ambiguous" => Cardinality(Existing(r)) = 2

\* Of rival requests one at most is told that it made the tenant, the tenant is
\* there for good, and there are no others than those somebody asked for.
CreatedOnce ==
  /\ \A r \in Requests : pc[r] \in {"refresh", "created"} => Body[r] \in rows
  /\ \A r, q \in Requests : pc[r] = "created" /\ pc[q] = "created"
                              /\ Clash(Body[r], Body[q]) => r = q
  /\ \A t \in rows \ Defaults : \E r \in Requests :
       t = Body[r] /\ pc[r] \in {"refresh", "created", "error"}

\* Every answer is true, the refusals and the successes.
AnswersAreTrue == RefusalsAreTrue /\ CreatedOnce

\* Seeding looks at slugs only, yet the API can always be started again, and
\* serves with all default tenants: no request can have taken the name of one.
DefaultsServed == server # "failed" /\ (server = "up" => Defaults \subseteq rows)

\* Every request is answered: inserts that wait for one another never form a
\* circle, and one that fails lets the next go on.
EveryoneAnswered == \A r \in Requests : pc[r] # "new" ~> pc[r] \in Answers

-----------------------------------------------------------------------------
(* Beyond the run: violated by the code.                                   *)

\* "Check for duplicate slug or name": a conflict that is there at the lookup
\* is answered with 409.
DuplicatesAre409 == \A r \in Requests : pc[r] # "ambiguous"
=============================================================================
