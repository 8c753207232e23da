------------------------- MODULE MCIngestionPipeline -------------------------
(***************************************************************************)
(* Instances of IngestionPipeline for TLC: one job each of two tenants.    *)
(***************************************************************************)
EXTENDS IngestionPipeline, TLC

CONSTANTS a, b

MCTenants == {1, 2}
MCOwnerOf == (a :> 1) @@ (b :> 2)
=============================================================================
