------------------------------ MODULE MCStatsd ------------------------------
(***************************************************************************)
(* Bucket lists: one valid, one with a duplicate, one out of order, one    *)
(* with an invalid entry, one too long, and an entry that is no array.     *)
(***************************************************************************)
EXTENDS Statsd

MCNumber == {-2, 2, 3}

MCBuckets == {NONE, <<2, 4>>, <<2, 2>>, <<4, 2>>, <<TEXT>>, <<0, 2, 4, 6>>}
=============================================================================
