------------------------ MODULE MCConstructiveEdits ------------------------
(***************************************************************************)
(* Two edits, each of which can be a revert, be reverted, or survive.      *)
(* The threshold is no multiple of the interval, and the clock covers      *)
(* four intervals.                                                         *)
(***************************************************************************)
EXTENDS ConstructiveEdits, TLC

Symmetry == Permutations(Edit)
=============================================================================
