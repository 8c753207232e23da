---------------------------- MODULE MCPagination ----------------------------
(***************************************************************************)
(* Instances of Pagination for TLC: three rows of the tenant and one of    *)
(* another, on pages of one row.                                           *)
(***************************************************************************)
EXTENDS Pagination, TLC

CONSTANTS o1, o2, o3, x1

OwnSymmetry == Permutations(Own)
=============================================================================
