------------------------- MODULE MCCatalogIngestion -------------------------
(***************************************************************************)
(* Instances of CatalogIngestion for TLC: two works that share an author.  *)
(***************************************************************************)
EXTENDS CatalogIngestion, TLC

CONSTANTS v, w, x, y

MCAuthorsOf == (v :> <<x, y>>) @@ (w :> <<y>>)
=============================================================================
