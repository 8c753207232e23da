----------------------------- MODULE MCRateLimit -----------------------------
(***************************************************************************)
(* Instances of RateLimit for TLC: tenants a and b; a minute of two ticks  *)
(* makes every position of a request in its minute matter.                 *)
(***************************************************************************)
EXTENDS RateLimit, TLC

CONSTANTS a, b, a1, a2, a3, a4, b1

MCTenantOf == [r \in Requests |-> IF r = b1 THEN b ELSE a]

\* Requests of one tenant are interchangeable.
MCSymmetry == Permutations({a1, a2, a3, a4} \cap Requests)
=============================================================================
