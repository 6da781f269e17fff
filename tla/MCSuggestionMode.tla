-------------------------- MODULE MCSuggestionMode --------------------------
(***************************************************************************)
(* Two attempts, in one target or in two.  Three units of time, in which a *)
(* session can qualify in time and late, and be followed by one that does. *)
(***************************************************************************)
EXTENDS SuggestionMode
=============================================================================
