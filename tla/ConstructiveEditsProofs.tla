----------------------- MODULE ConstructiveEditsProofs -----------------------
(***************************************************************************)
(* The runs of InstrumentConstructiveEdits.php report every edit that      *)
(* survives, and report it once, for every interval, threshold and moment  *)
(* of the runs.                                                            *)
(***************************************************************************)
EXTENDS ConstructiveEdits, TLAPS

(* No run, edit or report comes from the future.  Without it an edit could *)
(* be saved into an interval that has had its run.                         *)
NoneAhead ==
    /\ \A k \in ran : k <= Interval(now)
    /\ \A e \in Edit : made[e] # NONE => made[e] <= now
    /\ \A e \in Edit : reportedAt[e] # NONE => reportedAt[e] <= now
    /\ \A e \in Edit : reported[e] > 0 => reportedAt[e] # NONE

IInv == TypeOK /\ NoneAhead /\ ReportedOnce /\ NoneMissed /\ ReportedSurvived

(***************************************************************************)
(* Arithmetic of intervals                                                 *)
(***************************************************************************)

(* Interval is integer division.                                           *)
LEMMA IntervalBounds ==
    ASSUME NEW t \in Nat
    PROVE  /\ Interval(t) \in Nat
           /\ INTERVAL * Interval(t) <= t
           /\ t < INTERVAL * Interval(t) + INTERVAL
  BY WindowAssumption, SMT DEF Interval

(* A later interval starts at least one interval later.                    *)
LEMMA NextMultiple ==
    ASSUME NEW j \in Int, NEW k \in Int, j < k
    PROVE  INTERVAL * j + INTERVAL <= INTERVAL * k
  <1>1. PICK d \in Nat : k = j + 1 + d
    <2>1. k - j - 1 \in Nat /\ k = j + 1 + (k - j - 1)
      OBVIOUS
    <2>2. QED
      BY <2>1
  <1>2. INTERVAL \in Nat /\ INTERVAL * d \in Nat
    BY WindowAssumption
  <1>3. INTERVAL * (j + 1 + d) = INTERVAL * j + INTERVAL + INTERVAL * d
    BY <1>2, SMT
  <1>4. QED
    BY <1>1, <1>2, <1>3

(* Time and intervals pass in the same order.                              *)
LEMMA IntervalMonotone ==
    ASSUME NEW s \in Nat, NEW t \in Nat
    PROVE  /\ s <= t => Interval(s) <= Interval(t)
           /\ Interval(s) < Interval(t) => s < t
  <1>1. /\ Interval(s) \in Nat /\ INTERVAL * Interval(s) <= s
        /\ s < INTERVAL * Interval(s) + INTERVAL
        /\ Interval(t) \in Nat /\ INTERVAL * Interval(t) <= t
        /\ t < INTERVAL * Interval(t) + INTERVAL
    BY IntervalBounds
  <1>2. INTERVAL \in Nat /\ INTERVAL * Interval(s) \in Nat /\ INTERVAL * Interval(t) \in Nat
    BY <1>1, WindowAssumption
  <1>3. Interval(t) < Interval(s) => INTERVAL * Interval(t) + INTERVAL <= INTERVAL * Interval(s)
    BY <1>1, NextMultiple
  <1>4. Interval(s) < Interval(t) => INTERVAL * Interval(s) + INTERVAL <= INTERVAL * Interval(t)
    BY <1>1, NextMultiple
  <1>5. QED
    BY <1>1, <1>2, <1>3, <1>4

(* The ranges of getTimestampRange() tile the time line: the range of a    *)
(* run holds exactly the times for which its interval is responsible.      *)
LEMMA RangesTile ==
    ASSUME NEW t \in Nat, NEW at \in Nat
    PROVE  InRange(t, at) <=> Interval(t + THRESHOLD) + 1 = Interval(at)
  <1> DEFINE r == Interval(t + THRESHOLD)
             q == Interval(at)
  <1>1. THRESHOLD \in Nat /\ INTERVAL \in Nat \ {0} /\ t + THRESHOLD \in Nat
    BY WindowAssumption
  <1>2. /\ r \in Nat /\ INTERVAL * r <= t + THRESHOLD
        /\ t + THRESHOLD < INTERVAL * r + INTERVAL
        /\ q \in Nat
    BY <1>1, IntervalBounds
  <1>3. /\ INTERVAL * r \in Nat /\ INTERVAL * q \in Nat /\ q * INTERVAL = INTERVAL * q
    BY <1>1, <1>2
  <1>4. InRange(t, at) <=> /\ t + THRESHOLD + INTERVAL >= INTERVAL * q
                           /\ t + THRESHOLD < INTERVAL * q
    BY <1>1, <1>2, <1>3 DEF InRange
  <1>5. r < q => INTERVAL * r + INTERVAL <= INTERVAL * q
    BY <1>2, NextMultiple
  <1>6. q <= r => INTERVAL * q <= INTERVAL * r
    <2>1. q < r => INTERVAL * q + INTERVAL <= INTERVAL * r
      BY <1>2, NextMultiple
    <2>2. QED
      BY <1>1, <1>2, <1>3, <2>1
  <1>7. r + 1 < q => INTERVAL * (r + 1) + INTERVAL <= INTERVAL * q
    BY <1>2, NextMultiple
  <1>8. INTERVAL * (r + 1) = INTERVAL * r + INTERVAL
    BY <1>1, <1>2, SMT
  <1>9. QED
    <2> HIDE DEF r, q
    <2>1. InRange(t, at) => r + 1 = q
      BY <1>1, <1>2, <1>3, <1>4, <1>6, <1>7, <1>8
    <2>2. r + 1 = q => InRange(t, at)
      BY <1>1, <1>2, <1>3, <1>4, <1>8
    <2>3. QED
      BY <2>1, <2>2 DEF r, q

(* An edit in the range of a run is older than the threshold.              *)
LEMMA InRangeOld ==
    ASSUME NEW t \in Nat, NEW at \in Nat, InRange(t, at)
    PROVE  t + THRESHOLD < at
  <1>1. INTERVAL * Interval(at) <= at /\ Interval(at) \in Nat
    BY IntervalBounds
  <1>2. Interval(at) * INTERVAL = INTERVAL * Interval(at) /\ INTERVAL * Interval(at) \in Nat
    BY <1>1, WindowAssumption
  <1>3. QED
    BY <1>1, <1>2, WindowAssumption DEF InRange

(***************************************************************************)
(* The inductive invariant                                                 *)
(***************************************************************************)
THEOREM InitIInv == Init => IInv
  <1> SUFFICES ASSUME Init PROVE IInv
    OBVIOUS
  <1> USE WindowAssumption DEF Init
  <1>1. TypeOK
    BY DEF TypeOK, Times
  <1>2. NoneAhead
    BY DEF NoneAhead
  <1>3. ReportedOnce /\ NoneMissed /\ ReportedSurvived
    BY DEF ReportedOnce, NoneMissed, ReportedSurvived
  <1>4. QED
    BY <1>1, <1>2, <1>3 DEF IInv

(* A run at a time that is not ahead, in an interval that has had none.    *)
LEMMA ExecuteInv ==
    ASSUME IInv, NEW at \in Nat, at <= now, Interval(at) \notin ran, Execute(at)
    PROVE  IInv'
  <1> USE DEF IInv
  <1>1. /\ now' = now /\ made' = made /\ reverting' = reverting /\ reverted' = reverted
        /\ ran' = ran \cup {Interval(at)}
        /\ Interval(at) \in Nat /\ Interval(at) <= Interval(now)
    BY IntervalBounds, IntervalMonotone DEF Execute, edits, TypeOK
  <1>2. ASSUME NEW e \in Edit
        PROVE  /\ e \in Found(at) => /\ reported[e] = 0 /\ reported'[e] = 1 /\ reportedAt'[e] = now
                                     /\ made[e] \in Nat /\ made[e] # NONE
                                     /\ Responsible(e) = Interval(at)
                                     /\ e \notin reverting /\ reverted[e] = NONE
                                     /\ made[e] + THRESHOLD < now
               /\ e \notin Found(at) => reported'[e] = reported[e] /\ reportedAt'[e] = reportedAt[e]
    <2>1. CASE e \in Found(at)
      <3>1. /\ made[e] # NONE /\ InRange(made[e], at) /\ e \notin reverting /\ reverted[e] = NONE
            /\ made[e] \in Nat
        BY <2>1 DEF Found, TypeOK, Times
      <3>2. Responsible(e) = Interval(at)
        BY <3>1, RangesTile DEF Responsible
      <3>3. reported[e] = 0
        BY <3>2 DEF ReportedOnce, TypeOK
      <3>4. made[e] + THRESHOLD < now
        <4>1. made[e] + THRESHOLD < at
          BY <3>1, InRangeOld
        <4>2. QED
          BY <4>1, <3>1, WindowAssumption DEF TypeOK
      <3>5. QED
        BY <2>1, <3>1, <3>2, <3>3, <3>4 DEF Execute
    <2>2. CASE e \notin Found(at)
      BY <2>2 DEF Execute
    <2>3. QED
      BY <2>1, <2>2
  <1>3. TypeOK'
    <2>1. reported' \in [Edit -> Nat] /\ reportedAt' \in [Edit -> Times]
      BY DEF Execute, TypeOK, Times
    <2>2. QED
      BY <1>1, <2>1 DEF TypeOK
  <1>4. NoneAhead'
    BY <1>1, <1>2, WindowAssumption DEF NoneAhead, TypeOK
  <1>5. ReportedOnce'
    BY <1>1, <1>2 DEF ReportedOnce, Responsible
  <1>6. NoneMissed'
    <2> SUFFICES ASSUME NEW e \in Edit, made[e] # NONE, Responsible(e) \in ran',
                        e \notin reverting, reverted[e] = NONE
                 PROVE  reported'[e] > 0
      BY <1>1 DEF NoneMissed, Responsible
    <2>1. CASE Responsible(e) \in ran
      BY <1>2, <2>1 DEF NoneMissed
    <2>2. CASE Responsible(e) = Interval(at)
      <3>1. made[e] \in Nat
        BY DEF TypeOK, Times
      <3>2. InRange(made[e], at)
        BY <2>2, <3>1, RangesTile DEF Responsible
      <3>3. QED
        BY <1>2, <3>2 DEF Found
    <2>3. QED
      BY <1>1, <2>1, <2>2
  <1>7. ReportedSurvived'
    BY <1>1, <1>2, WindowAssumption DEF ReportedSurvived, TypeOK
  <1>8. QED
    BY <1>3, <1>4, <1>5, <1>6, <1>7

(* An edit saved now, a revert or not.                                     *)
LEMMA SaveInv ==
    ASSUME IInv, NEW e \in Edit, made[e] = NONE,
           made' = [made EXCEPT ![e] = now],
           reverting' \in {reverting, reverting \cup {e}},
           UNCHANGED <<now, reverted, reports>>
    PROVE  IInv'
  <1> USE DEF IInv
  <1>1. /\ now \in Nat /\ now' = now /\ now # NONE
        /\ ran' = ran /\ reverted' = reverted /\ reported' = reported /\ reportedAt' = reportedAt
        /\ made'[e] = now /\ \A x \in Edit \ {e} : made'[x] = made[x]
        /\ reported[e] = 0
    BY WindowAssumption DEF TypeOK, reports, ReportedOnce
  <1>3. TypeOK'
    <2>1. made' \in [Edit -> Times]
      BY DEF TypeOK, Times
    <2>2. QED
      BY <1>1, <2>1 DEF TypeOK
  <1>4. NoneAhead'
    BY <1>1 DEF NoneAhead, TypeOK
  <1>5. ReportedOnce'
    BY <1>1 DEF ReportedOnce, Responsible, TypeOK
  <1>6. NoneMissed'
    <2> SUFFICES ASSUME NEW x \in Edit, made'[x] # NONE, (Responsible(x))' \in ran,
                        x \notin reverting', reverted'[x] = NONE
                 PROVE  reported[x] > 0
      BY <1>1 DEF NoneMissed
    <2>1. CASE x = e
      <3>1. (Responsible(x))' = Interval(now + THRESHOLD) + 1
        BY <1>1, <2>1 DEF Responsible
      <3>2. now + THRESHOLD \in Nat /\ now <= now + THRESHOLD
        BY <1>1, WindowAssumption
      <3>3. Interval(now) <= Interval(now + THRESHOLD)
        BY <1>1, <3>2, IntervalMonotone
      <3>4. Interval(now) \in Nat /\ Interval(now + THRESHOLD) \in Nat
        BY <1>1, <3>2, IntervalBounds
      <3>5. QED
        BY <3>1, <3>3, <3>4 DEF NoneAhead
    <2>2. CASE x # e
      BY <1>1, <2>2 DEF NoneMissed, Responsible
    <2>3. QED
      BY <2>1, <2>2
  <1>7. ReportedSurvived'
    <2> SUFFICES ASSUME NEW x \in Edit, reported[x] > 0
                 PROVE  /\ x \notin reverting'
                        /\ reportedAt[x] > made'[x] + THRESHOLD
                        /\ reverted'[x] # NONE => reverted'[x] >= reportedAt[x]
      BY <1>1 DEF ReportedSurvived
    <2>1. x # e
      BY <1>1
    <2>2. reportedAt[x] \in Nat /\ reportedAt[x] <= now
      BY DEF NoneAhead, TypeOK, Times
    <2>3. QED
      BY <1>1, <2>1, <2>2 DEF ReportedSurvived
  <1>8. QED
    BY <1>3, <1>4, <1>5, <1>6, <1>7

(* An edit of which the job now says that it was reverted.                 *)
LEMMA TagInv ==
    ASSUME IInv, NEW e \in Edit, TagReverted(e)
    PROVE  IInv'
  <1> USE DEF IInv
  <1>1. /\ now \in Nat /\ now # NONE /\ UNCHANGED <<now, made, reverting, ran, reported, reportedAt>>
        /\ reverted[e] = NONE /\ reverted'[e] = now
        /\ \A x \in Edit \ {e} : reverted'[x] = reverted[x]
    BY WindowAssumption DEF TypeOK, TagReverted, reports
  <1>2. TypeOK'
    <2>1. reverted' \in [Edit -> Times]
      BY DEF TagReverted, TypeOK, Times
    <2>2. QED
      BY <1>1, <2>1 DEF TypeOK
  <1>3. NoneAhead'
    BY <1>1 DEF NoneAhead
  <1>4. ReportedOnce'
    BY <1>1 DEF ReportedOnce, Responsible
  <1>5. NoneMissed'
    BY <1>1 DEF NoneMissed, Responsible
  <1>6. ReportedSurvived'
    <2>1. \A x \in Edit : reported[x] > 0 => reportedAt[x] \in Nat /\ reportedAt[x] <= now
      BY DEF NoneAhead, TypeOK, Times
    <2>2. QED
      BY <1>1, <2>1 DEF ReportedSurvived
  <1>7. QED
    BY <1>2, <1>3, <1>4, <1>5, <1>6

(* Every step of the wiki, of a run or of a replay keeps IInv.              *)
THEOREM NextIInv == IInv /\ [Next]_vars => IInv'
  <1> SUFFICES ASSUME IInv, [Next]_vars PROVE IInv'
    OBVIOUS
  <1>0. now \in Nat
    BY DEF IInv, TypeOK
  <1>1. CASE Scheduled
    BY <1>0, <1>1, ExecuteInv DEF Scheduled
  <1>2. ASSUME NEW at \in Start..MaxNow, Replay(at) PROVE IInv'
    <2>1. at \in Nat
      BY WindowAssumption
    <2>2. at <= now
      BY <1>0, <1>2, <2>1, IntervalMonotone DEF Replay
    <2>3. QED
      BY <1>2, <2>1, <2>2, ExecuteInv DEF Replay
  <1>3. ASSUME NEW e \in Edit, Save(e) PROVE IInv'
    BY <1>3, SaveInv DEF Save
  <1>4. ASSUME NEW e \in Edit, SaveRevert(e) PROVE IInv'
    BY <1>4, SaveInv DEF SaveRevert
  <1>5. ASSUME NEW e \in Edit, TagReverted(e) PROVE IInv'
    BY <1>5, TagInv
  <1>6. CASE Advance
    <2> USE DEF IInv
    <2>1. /\ now \in Nat /\ now' = now + 1 /\ UNCHANGED <<edits, reports>>
          /\ Interval(now) \in Nat /\ Interval(now + 1) \in Nat
          /\ Interval(now) <= Interval(now + 1)
      BY <1>0, <1>6, IntervalBounds, IntervalMonotone DEF Advance
    <2>2. TypeOK' /\ ReportedOnce' /\ NoneMissed' /\ ReportedSurvived'
      BY <1>0, <2>1 DEF TypeOK, ReportedOnce, NoneMissed, ReportedSurvived, Responsible, edits, reports
    <2>3. NoneAhead'
      <3>1. \A k \in ran : k <= Interval(now + 1)
        BY <2>1 DEF NoneAhead, TypeOK
      <3>2. QED
        BY <2>1, <3>1 DEF NoneAhead, TypeOK, Times, edits, reports
    <2>4. QED
      BY <2>2, <2>3
  <1>7. CASE UNCHANGED vars
    BY <1>7 DEF IInv, TypeOK, NoneAhead, ReportedOnce, NoneMissed, ReportedSurvived,
                Responsible, vars, edits, reports
  <1>8. QED
    BY <1>1, <1>2, <1>3, <1>4, <1>5, <1>6, <1>7 DEF Next

(* IInv holds after any sequence of runs, edits and reverts.                *)
THEOREM InvariantIInv == Spec => []IInv
  BY InitIInv, NextIInv, PTL DEF Spec

(* Whenever the runs come, no edit is reported twice.                      *)
THEOREM EditsOnce == Spec => []ReportedOnce
  <1>1. IInv => ReportedOnce
    BY DEF IInv
  <1>2. QED
    BY <1>1, InvariantIInv, PTL

(* Once its run is made, a surviving edit has been reported.               *)
THEOREM EditsNotMissed == Spec => []NoneMissed
  <1>1. IInv => NoneMissed
    BY DEF IInv
  <1>2. QED
    BY <1>1, InvariantIInv, PTL

(* A reported edit was older than the threshold and not reverted.          *)
THEOREM EditsSurvived == Spec => [](TypeOK /\ ReportedSurvived)
  <1>1. IInv => TypeOK /\ ReportedSurvived
    BY DEF IInv
  <1>2. QED
    BY <1>1, InvariantIInv, PTL
=============================================================================
