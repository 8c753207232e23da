------------------------ MODULE MCOpenLibraryClient ------------------------
(***************************************************************************)
(* Instances of OpenLibraryClient for TLC: interval and second are chosen  *)
(* so that a pause may be shorter than, equal to or longer than the        *)
(* interval.                                                               *)
(***************************************************************************)
EXTENDS OpenLibraryClient

CONSTANTS c1, c2
=============================================================================
