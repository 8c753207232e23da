-------------------------- MODULE MCBookResolution --------------------------
(***************************************************************************)
(* Instances of BookResolution for TLC: u and v are on Open Library, x is  *)
(* not; both have an edition of the omnibus's ISBN o, v one of its own.    *)
(***************************************************************************)
EXTENDS BookResolution, TLC

CONSTANTS u, v, x, o, i

MCEditionOf == (o :> {u, v}) @@ (i :> {v})
MCIsbnsFirst == (u :> {o}) @@ (v :> {o, i})
=============================================================================
