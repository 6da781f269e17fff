------------------------- MODULE ConstructiveEdits -------------------------
(***************************************************************************)
(* maintenance/InstrumentConstructiveEdits.php: a script that runs once in *)
(* every interval, on one wiki, and reports the edits of one interval that *)
(* have not been reverted for THRESHOLD.  Each run computes the range of   *)
(* its edits from its own clock; nothing is kept between runs.             *)
(*                                                                         *)
(* A run comes at any moment of its interval, for foreachwiki reaches each *)
(* wiki at a different one.  A missed run is replayed with --as-of.  Dry   *)
(* runs, which send nothing, are left out.                                 *)
(*                                                                         *)
(* ran is the operator's knowledge of the runs made; reported and          *)
(* reportedAt are history.  No query reads them.                           *)
(***************************************************************************)
EXTENDS Integers

CONSTANTS
    Edit,      \* the edits that can be made
    NONE,      \* not yet
    INTERVAL,  \* --interval, in units of time
    THRESHOLD, \* --threshold
    Start,     \* when the script is first installed
    MaxNow     \* bound on the clock

ASSUME WindowAssumption ==
    /\ INTERVAL \in Nat \ {0}
    /\ THRESHOLD \in Nat /\ Start \in Nat /\ MaxNow \in Nat
    /\ NONE \notin Int

VARIABLES
    now,        \* the time
    made,       \* the time of each edit, its rc_timestamp
    reverting,  \* the edits with one of the REVERT_TAGS
    reverted,   \* the time that an edit got TAG_REVERTED
    ran,        \* the intervals that have had their run
    reported,   \* history: how many events each edit was sent in
    reportedAt  \* history: the time of the last of them

edits == <<made, reverting, reverted>>
reports == <<ran, reported, reportedAt>>
vars == <<now, edits, reports>>

Interval(t) == t \div INTERVAL

(***************************************************************************)
(* The script                                                              *)
(***************************************************************************)
\* Mutants of InRange: measured back from the time of the run, the newest
\* bound included in the next range too, no threshold.
InRangeMoving(t, at) ==
    t >= at - THRESHOLD - INTERVAL /\ t <= at - THRESHOLD - 1

InRangeClosed(t, at) ==
    LET newest == Interval(at) * INTERVAL - THRESHOLD
    IN  t >= newest - INTERVAL /\ t <= newest

InRangeYoung(t, at) ==
    LET newest == Interval(at) * INTERVAL - THRESHOLD + INTERVAL
    IN  t >= newest - INTERVAL /\ t <= newest - 1

(* getTimestampRange: the bounds, both inclusive, for a run at time at.    *)
InRange(t, at) ==
    LET newest == Interval(at) * INTERVAL - THRESHOLD
    IN  t >= newest - INTERVAL /\ t <= newest - 1

\* Mutant of Found: reverted edits are not excluded.
FoundReverted(at) == { e \in Edit : made[e] # NONE /\ InRange(made[e], at) /\ e \notin reverting }

(* findAllEdits: the tags are those of the moment of the query.            *)
Found(at) ==
    { e \in Edit : /\ made[e] # NONE /\ InRange(made[e], at)
                   /\ e \notin reverting
                   /\ reverted[e] = NONE }

(* execute and logConstructiveEdits                                        *)
Execute(at) ==
    /\ reported' = [e \in Edit |-> IF e \in Found(at) THEN reported[e] + 1 ELSE reported[e]]
    /\ reportedAt' = [e \in Edit |-> IF e \in Found(at) THEN now ELSE reportedAt[e]]
    /\ ran' = ran \cup {Interval(at)}
    /\ UNCHANGED <<now, edits>>

(* The periodic run, once in its interval.                                 *)
Scheduled ==
    /\ Interval(now) \notin ran
    /\ Execute(now)

(* "Any time inside the target interval works" (:36).                      *)
Replay(at) ==
    /\ Interval(at) < Interval(now) /\ Interval(at) >= Interval(Start)
    /\ Interval(at) \notin ran
    /\ Execute(at)

(***************************************************************************)
(* The wiki.  A job tags what a revert reverted, some time after it.       *)
(***************************************************************************)
Save(e) ==
    /\ made[e] = NONE
    /\ made' = [made EXCEPT ![e] = now]
    /\ UNCHANGED <<now, reverting, reverted, reports>>

SaveRevert(e) ==
    /\ made[e] = NONE
    /\ made' = [made EXCEPT ![e] = now]
    /\ reverting' = reverting \cup {e}
    /\ UNCHANGED <<now, reverted, reports>>

TagReverted(e) ==
    /\ made[e] # NONE /\ reverted[e] = NONE
    /\ \E f \in reverting \ {e} : made[f] >= made[e]
    /\ reverted' = [reverted EXCEPT ![e] = now]
    /\ UNCHANGED <<now, made, reverting, reports>>

Advance ==
    /\ now < MaxNow
    /\ now' = now + 1
    /\ UNCHANGED <<edits, reports>>

Init ==
    /\ now = Start
    /\ made = [e \in Edit |-> NONE]
    /\ reverting = {}
    /\ reverted = [e \in Edit |-> NONE]
    /\ ran = {}
    /\ reported = [e \in Edit |-> 0]
    /\ reportedAt = [e \in Edit |-> NONE]

Next ==
    \/ Scheduled
    \/ \E at \in Start..MaxNow : Replay(at)
    \/ \E e \in Edit : Save(e) \/ SaveRevert(e) \/ TagReverted(e)
    \/ Advance

Spec == Init /\ [][Next]_vars

(***************************************************************************)
(* Properties                                                              *)
(***************************************************************************)
Times == Nat \cup {NONE}

TypeOK ==
    /\ now \in Nat
    /\ made \in [Edit -> Times] /\ reverted \in [Edit -> Times]
    /\ reverting \subseteq Edit
    /\ ran \subseteq Nat
    /\ reported \in [Edit -> Nat] /\ reportedAt \in [Edit -> Times]

(* The run that is responsible for an edit: the one in the interval after  *)
(* that in which the edit reaches the threshold.                           *)
Responsible(e) == Interval(made[e] + THRESHOLD) + 1

(* "Edits near the bounds are then reported twice, or not at all" (:64-65) *)
(* is what the alignment avoids: whenever the runs of the intervals come,  *)
(* on time, replayed or out of order, an edit is never reported twice, and *)
(* only by the run responsible for it.                                     *)
ReportedOnce ==
    \A e \in Edit : reported[e] > 0 =>
        reported[e] = 1 /\ made[e] # NONE /\ Responsible(e) \in ran

(* An edit that was neither a revert nor reverted has been reported when   *)
(* its run has been made, wherever in its interval that came.              *)
NoneMissed ==
    \A e \in Edit :
        (made[e] # NONE /\ Responsible(e) \in ran /\ e \notin reverting /\ reverted[e] = NONE)
            => reported[e] > 0

(* "This is a constructive edit (not reverted within a certain time)"      *)
(* (:136): a reported edit is no revert, was older than the threshold when *)
(* it was reported, and had not been reverted by then.                     *)
ReportedSurvived ==
    \A e \in Edit : reported[e] > 0 =>
        /\ e \notin reverting
        /\ reportedAt[e] > made[e] + THRESHOLD
        /\ reverted[e] # NONE => reverted[e] >= reportedAt[e]
=============================================================================
