--------------------------- MODULE MCStatsBuffer ---------------------------
(***************************************************************************)
(* Three lines against a batch of 6 characters: a short one that shares a  *)
(* batch, one that fits only in a nearly empty batch, and one longer than  *)
(* any batch.                                                              *)
(***************************************************************************)
EXTENDS StatsBuffer

MCLine == {"short", "medium", "long"}

MCLineLength(l) == CASE l = "short" -> 2 [] l = "medium" -> 4 [] l = "long" -> 8
=============================================================================
