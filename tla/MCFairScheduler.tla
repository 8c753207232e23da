-------------------------- MODULE MCFairScheduler --------------------------
(***************************************************************************)
(* Instances of FairScheduler for TLC: two tenants, of which the first has *)
(* up to two jobs in the system and the second one.                        *)
(***************************************************************************)
EXTENDS FairScheduler, TLC

CONSTANTS a1, a2, b1, w1, w2

MCTenants == {1, 2}
MCJobs == {a1, a2, b1}
MCOwner == (a1 :> 1) @@ (a2 :> 1) @@ (b1 :> 2)

\* Two workers are interchangeable, and so are the two jobs of one tenant.
MCSymmetry == Permutations({a1, a2}) \cup Permutations({w1, w2})
=============================================================================
