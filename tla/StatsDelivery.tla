--------------------------- MODULE StatsDelivery ---------------------------
(***************************************************************************)
(* What the stats buffers of modules/ext.wikimediaEvents/statsd.js promise *)
(* to the callers of mw.track(): every accepted line reaches the beacon    *)
(* endpoint once, in the order of the calls.  How lines are grouped into   *)
(* beacons, and when a beacon leaves, is not said here; module StatsBuffer *)
(* refines this specification.                                             *)
(***************************************************************************)
EXTENDS Naturals, Sequences

CONSTANTS
    Line,       \* the lines a caller can submit
    MaxLines    \* bound on the lines submitted in one behaviour

VARIABLES
    accepted,   \* the lines accepted so far, in call order
    delivered   \* the lines handed to sendBeacon so far, in beacon order

vars == <<accepted, delivered>>

Init ==
    /\ accepted = <<>>
    /\ delivered = <<>>

(* A line is accepted; what was waiting before it may leave to make room.  *)
Accept(line) ==
    /\ Len(accepted) < MaxLines
    /\ accepted' = Append(accepted, line)
    /\ delivered' \in {delivered, accepted}

(* Everything that waits leaves.                                           *)
Deliver ==
    /\ delivered # accepted
    /\ delivered' = accepted
    /\ UNCHANGED accepted

Next == (\E line \in Line : Accept(line)) \/ Deliver

Spec == Init /\ [][Next]_vars /\ WF_vars(Deliver)
=============================================================================
