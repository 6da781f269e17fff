----------------------------- MODULE MCProbenet -----------------------------
(***************************************************************************)
(* Three targets, so that some answer while others do not, and two         *)
(* pages, so that the second meets the cookie of the first.  No symmetry:  *)
(* liveness is checked.                                                    *)
(***************************************************************************)
EXTENDS Probenet
=============================================================================
