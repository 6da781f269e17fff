--------------------------- MODULE MCSessionTick ---------------------------
(***************************************************************************)
(* Two tabs, with the order of magnitude of the delays kept:               *)
(* DEBOUNCE < TICK < IDLE < RESET, and RESET no multiple of TICK.          *)
(***************************************************************************)
EXTENDS SessionTick, TLC

Symmetry == Permutations(Tab)
=============================================================================
