--------------------------- MODULE MCSearchSession -------------------------
(***************************************************************************)
(* Two tabs and enough sessions for one to be lost and another started     *)
(* while pages of the first are still open.  MCKinds leaves out pages of   *)
(* results that no autocomplete result led to, which log what those do but *)
(* a visitPage, and plain pages, which do what visited ones may before     *)
(* their DOM is ready.                                                     *)
(***************************************************************************)
EXTENDS SearchSession, TLC

Symmetry == Permutations(Tab) \cup Permutations(Test)

MCKinds == {"visit", "suggested", "suggestedSerp"}

MCFailures == {{}, {"end"}, {"sid"}}
NoFailure == {{}}
=============================================================================
