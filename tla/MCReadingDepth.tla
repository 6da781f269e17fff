--------------------------- MODULE MCReadingDepth ---------------------------
(***************************************************************************)
(* Time enough to be hidden twice, before and after the page is tracked.   *)
(***************************************************************************)
EXTENDS ReadingDepth
=============================================================================
