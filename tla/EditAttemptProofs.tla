------------------------- MODULE EditAttemptProofs -------------------------
(***************************************************************************)
(* Proofs about EditAttempt for any number of attempts, ids and feature    *)
(* uses, and about SuggestionMode, whose every step is one of EditAttempt  *)
(* or leaves its variables alone, and whose funnel is treated last, for    *)
(* any number of targets and sessions.                                     *)
(*                                                                         *)
(* The handler guesses from its timings what the editor is doing.  The     *)
(* invariant says how far that is right: which timings belong to the       *)
(* attempt (Fresh), and what they tell of the phase (Telling).             *)
(***************************************************************************)
EXTENDS SuggestionMode, SequenceTheorems, TLAPS

TimingPast == began <= now /\ \A a \in Action : timing[a] # NONE => timing[a] <= now

(* The handler's variables begin with the first attempt, which every       *)
(* editor that is open belongs to.                                         *)
Begun ==
    /\ attempt = 0 <=> session = NONE
    /\ firstInitDone <=> attempt > 0
    /\ phase # "closed" => attempt > 0

(* Ids of attempts come from the ids generated so far.                     *)
IdsApart ==
    /\ attempt > 0 => session = idOf[attempt]
    /\ \A a \in 1..attempt : idOf[a] \in 0..ids
    /\ \A a, b \in 1..attempt : a # b => idOf[a] # idOf[b]

(* The uses that were tracked, with the ids they were logged with.         *)
UsesInOrder ==
    /\ Len(uses) <= MaxUses
    /\ \A u \in DOMAIN uses : uses[u].attempt <= attempt
    /\ UsesLoggedOnce

(* The timing of an abort marks a switch, and what it still swallows.      *)
Opened ==
    /\ logged.ready <= 1 /\ logged.loaded <= 1
    /\ phase = "closed" => timing["abort"] = NONE
    /\ phase = "opening" =>
           IF timing["abort"] = NONE THEN logged.ready = 0 /\ logged.loaded = 0
           ELSE logged.ready = 1 /\ logged.loaded = 1
    /\ phase = "ready" =>
           logged.ready = 1 /\ logged.loaded = IF timing["abort"] = NONE THEN 0 ELSE 1
    /\ phase \in {"open", "reviewing", "saving", "failed"} =>
           timing["abort"] = NONE /\ logged.ready = 1 /\ logged.loaded = 1

(* A timing that belongs to the attempt.                                   *)
Own(a) == timing[a] # NONE /\ began <= timing[a]

Fresh ==
    /\ phase # "closed" => Own("init")
    /\ phase \notin {"closed", "opening"} => Own("ready")
    /\ phase = "opening" /\ timing["abort"] # NONE => Own("ready")
    /\ phase \in {"reviewing", "saving", "failed"} => Own("saveIntent")
    /\ ~answered /\ phase = "closed" => timing = NoTiming
    /\ ~answered => \A a \in Action : timing[a] # NONE => Own(a)

(* Without an answer to a save the timings tell the phase.                 *)
Telling ==
    ~answered =>
        /\ timing["saveSuccess"] = NONE /\ timing["saveFailure"] = NONE
        /\ phase = "saving" <=> timing["saveAttempt"] # NONE
        /\ phase # "closed" =>
               (timing["ready"] = NONE <=> phase = "opening" /\ timing["abort"] = NONE)

IInv ==
    /\ TypeOK /\ TimingPast
    /\ Begun /\ IdsApart /\ UsesInOrder
    /\ Opened /\ Fresh /\ Telling
    /\ AttemptsKeepApart

(***************************************************************************)
(* What the handler does with an event of each kind                        *)
(***************************************************************************)
Lasting == Action \ {"init", "abort"}

LEMMA TimingType ==
    ASSUME IInv
    PROVE  /\ NONE \notin Int \cup STRING /\ MaxNow \in Nat \ {0}
           /\ now \in Int /\ now \in Time
           /\ \A a \in Action : timing[a] # NONE => timing[a] \in Int /\ 1 <= timing[a] /\ timing[a] <= now
           /\ now <= MaxNow /\ 1 <= now
           /\ began \in Int /\ began <= now /\ 1 <= began
           /\ timing \in [Action -> Time \cup {NONE}]
  BY EditAssumption DEF IInv, TypeOK, TimingPast, Time

(* Every duration is a time that has passed, or -1.                        *)
LEMMA DurationType ==
    ASSUME IInv, NEW action \in Action, NEW type
    PROVE  computeDuration(action, type) \in -1 .. MaxNow
  <1>1. action \notin {"init", "saveSuccess", "saveFailure"} => Since(action, type) \in Action
    BY DEF Since, Action
  <1> QED
    BY <1>1, TimingType DEF computeDuration

LEMMA LastingFacts ==
    ASSUME IInv, NEW action \in Lasting, handle(action, NONE), session # NONE
    PROVE  /\ UNCHANGED <<now, session, firstInitDone, attempt, began, idOf>>
           /\ timing' \in [Action -> Time \cup {NONE}]
           /\ timing'[action] = now
           /\ \A a \in Action \ {action, "abort"} : timing'[a] = timing[a]
           /\ timing'["abort"] = IF action = "loaded" THEN NONE ELSE timing["abort"]
           /\ answered' = (answered \/ action \in {"saveSuccess", "saveFailure"})
           /\ logged' \in [ready : Nat, loaded : Nat]
           /\ logged'.ready = IF action = "ready" /\ timing["abort"] = NONE
                              THEN logged.ready + 1 ELSE logged.ready
           /\ logged'.loaded = IF action = "loaded" /\ timing["abort"] = NONE
                               THEN logged.loaded + 1 ELSE logged.loaded
           /\ \A e \in out' : e.action = action /\ e.id = session
                              /\ e.duration = computeDuration(action, NONE)
  <1>1. /\ action \in Action /\ action # "init" /\ action # "abort"
        /\ timing \in [Action -> Time \cup {NONE}] /\ now \in Time /\ NONE \notin Time
        /\ logged \in [ready : Nat, loaded : Nat] /\ answered \in BOOLEAN
        /\ firstInitDone \in BOOLEAN
    BY EditAssumption DEF IInv, TypeOK, Lasting, Time
  <1> DEFINE timed == [timing EXCEPT ![action] = now]
  <1>2. newTiming(action, NONE) = timed
    BY <1>1 DEF newTiming
  <1>3. ~NewSession(action)
    BY <1>1 DEF NewSession
  <1>4. /\ UNCHANGED <<now, session, attempt, began, idOf>>
        /\ timing' = IF action = "loaded" THEN [timed EXCEPT !["abort"] = NONE] ELSE timed
    BY <1>1, <1>2, <1>3 DEF handle
  <1>5. firstInitDone' = firstInitDone
    <2>1. firstInitDone' = (firstInitDone \/ action = "init")
      BY DEF handle
    <2> QED
      BY <2>1, <1>1
  <1>6. \A e \in out' : e.action = action /\ e.id = session
                          /\ e.duration = computeDuration(action, NONE)
    <2>1. out' = IF ~Suppressed(action, NONE)
                 THEN {[action |-> action, type |-> NONE, id |-> session,
                        duration |-> computeDuration(action, NONE)]} ELSE {}
      BY <1>1, <1>3 DEF handle
    <2> QED
      BY <2>1
  <1>7. logged' = CASE action = "init" -> [ready |-> 0, loaded |-> 0]
                     [] action \in {"ready", "loaded"} /\ ~Suppressed(action, NONE)
                        -> [logged EXCEPT ![action] = @ + 1]
                     [] OTHER -> logged
    BY <1>1 DEF handle
  <1>8. answered' = CASE timing' = NoTiming -> FALSE
                       [] action \in {"saveSuccess", "saveFailure"} -> TRUE
                       [] OTHER -> answered
    BY DEF handle
  <1>9. "abort" \in Action /\ timed["abort"] = timing["abort"]
    BY <1>1 DEF Action
  <1>10. /\ timing' \in [Action -> Time \cup {NONE}]
        /\ timing'[action] = now
        /\ \A a \in Action \ {action, "abort"} : timing'[a] = timing[a]
        /\ timing'["abort"] = IF action = "loaded" THEN NONE ELSE timing["abort"]
    BY <1>1, <1>4, <1>9
  <1>11. timing' # NoTiming
    BY <1>1, <1>10 DEF NoTiming
  <1>12. answered' = (answered \/ action \in {"saveSuccess", "saveFailure"})
    BY <1>1, <1>8, <1>11
  <1>13. Suppressed(action, NONE) <=> timing["abort"] # NONE /\ action \in {"ready", "loaded"}
    BY <1>1, <1>2, <1>9 DEF Suppressed
  <1>14. /\ logged' \in [ready : Nat, loaded : Nat]
         /\ logged'.ready = IF action = "ready" /\ timing["abort"] = NONE
                            THEN logged.ready + 1 ELSE logged.ready
         /\ logged'.loaded = IF action = "loaded" /\ timing["abort"] = NONE
                             THEN logged.loaded + 1 ELSE logged.loaded
    <2>1. CASE action \in {"ready", "loaded"} /\ timing["abort"] = NONE
      <3>1. logged' = [logged EXCEPT ![action] = @ + 1]
        BY <1>1, <1>7, <1>13, <2>1
      <3>2. CASE action = "ready"
        BY <1>1, <3>1, <3>2, <2>1
      <3>3. CASE action = "loaded"
        BY <1>1, <3>1, <3>3, <2>1
      <3> QED
        BY <2>1, <3>2, <3>3
    <2>2. CASE ~(action \in {"ready", "loaded"} /\ timing["abort"] = NONE)
      <3>1. logged' = logged
        BY <1>1, <1>7, <1>13, <2>2
      <3> QED
        BY <1>1, <2>2, <3>1
    <2> QED
      BY <2>1, <2>2
  <1> QED
    BY <1>1, <1>4, <1>5, <1>6, <1>10, <1>12, <1>14

LEMMA InitFacts ==
    ASSUME IInv, handle("init", NONE), attempt < MaxAttempts
    PROVE  /\ UNCHANGED now /\ firstInitDone' = TRUE /\ attempt' = attempt + 1 /\ began' = now
           /\ session' = IF firstInitDone THEN ids + 1 ELSE IF session = NONE THEN ServiceId ELSE session
           /\ timing' \in [Action -> Time \cup {NONE}]
           /\ timing'["init"] = now
           /\ \A a \in Action \ {"init"} : timing'[a] = timing[a]
           /\ answered' = answered
           /\ logged' \in [ready : Nat, loaded : Nat] /\ logged'.ready = 0 /\ logged'.loaded = 0
           /\ idOf' = [idOf EXCEPT ![attempt + 1] = session']
           /\ \A e \in out' : e.action = "init" /\ e.id = session' /\ e.duration = 0
  <1>1. /\ timing \in [Action -> Time \cup {NONE}] /\ now \in Time /\ NONE \notin Time
        /\ "init" \in Action /\ answered \in BOOLEAN /\ firstInitDone \in BOOLEAN
    BY EditAssumption DEF IInv, TypeOK, Action, Time
  <1>2. newTiming("init", NONE) = [timing EXCEPT !["init"] = now]
    BY DEF newTiming
  <1>3. NewSession("init") <=> firstInitDone
    BY <1>1 DEF NewSession
  <1>4. /\ UNCHANGED now /\ attempt' = attempt + 1 /\ began' = now
        /\ session' = IF NewSession("init") THEN ids + 1 ELSE IF session = NONE THEN ServiceId ELSE session
        /\ timing' = [timing EXCEPT !["init"] = now]
        /\ logged' = [ready |-> 0, loaded |-> 0]
        /\ idOf' = [idOf EXCEPT ![attempt'] = session']
        /\ firstInitDone' = TRUE
    BY <1>1, <1>2 DEF handle
  <1>5. \A e \in out' : e.action = "init" /\ e.id = session' /\ e.duration = 0
    <2>1. computeDuration("init", NONE) = 0
      BY DEF computeDuration
    <2>2. out' = IF ~Suppressed("init", NONE)
                 THEN {[action |-> "init", type |-> NONE, id |-> session',
                        duration |-> computeDuration("init", NONE)]} ELSE {}
      BY DEF handle
    <2> QED
      BY <2>1, <2>2
  <1>6. /\ timing' \in [Action -> Time \cup {NONE}]
        /\ timing'["init"] = now
        /\ \A a \in Action \ {"init"} : timing'[a] = timing[a]
    BY <1>1, <1>4
  <1>7. timing' # NoTiming
    BY <1>1, <1>6 DEF NoTiming
  <1>8. answered' = answered
    <2>1. answered' = CASE timing' = NoTiming -> FALSE
                        [] "init" \in {"saveSuccess", "saveFailure"} -> TRUE
                        [] OTHER -> answered
      BY DEF handle
    <2> QED
      BY <2>1, <1>7
  <1> QED
    BY <1>3, <1>4, <1>6, <1>8, <1>5

(* The reported type of an abort is unknown, or tells of a switch.         *)
LEMMA AbortTypes ==
    ASSUME NEW reported \in {"unknown", "unknown-edited"}
    PROVE  /\ abortType(reported) \in {"abandonMidsave", "preinit", "nochange", "abandon"}
           /\ abortType("switchnochange") = "switchnochange"
  BY DEF abortType

LEMMA AbortFacts ==
    ASSUME IInv, NEW reported \in {"unknown", "unknown-edited"}, handle("abort", reported), session # NONE
    PROVE  /\ UNCHANGED <<now, session, firstInitDone, attempt, began, idOf, logged>>
           /\ timing' = NoTiming /\ answered' = FALSE
           /\ \A e \in out' : e.action = "abort" /\ e.id = session /\ e.type = abortType(reported)
                              /\ e.duration = computeDuration("abort", abortType(reported))
  <1> DEFINE type == abortType(reported)
  <1>1. type # "switchnochange" /\ firstInitDone \in BOOLEAN
    BY AbortTypes DEF IInv, TypeOK
  <1> HIDE DEF type
  <1>2. newTiming("abort", type) = NoTiming /\ ~NewSession("abort")
    BY <1>1 DEF newTiming, NewSession
  <1>3. /\ UNCHANGED <<now, session, firstInitDone, attempt, began, idOf>>
        /\ timing' = NoTiming
        /\ \A e \in out' : e.action = "abort" /\ e.id = session /\ e.type = type
                           /\ e.duration = computeDuration("abort", type)
    BY <1>1, <1>2 DEF handle, type
  <1>4. logged' = logged
    BY DEF handle
  <1>5. answered' = FALSE
    <2>1. answered' = CASE timing' = NoTiming -> FALSE
                        [] "abort" \in {"saveSuccess", "saveFailure"} -> TRUE
                        [] OTHER -> answered
      BY DEF handle
    <2> QED
      BY <2>1, <1>3
  <1> QED
    BY <1>3, <1>4, <1>5 DEF type

LEMMA SwitchFacts ==
    ASSUME IInv, handle("abort", "switchnochange"), session # NONE
    PROVE  /\ UNCHANGED <<now, session, firstInitDone, attempt, began, idOf, logged, answered>>
           /\ timing' \in [Action -> Time \cup {NONE}]
           /\ timing'["abort"] = now
           /\ \A a \in Action \ {"abort"} : timing'[a] = timing[a]
           /\ out' = {}
  <1>1. /\ timing \in [Action -> Time \cup {NONE}] /\ now \in Time /\ NONE \notin Time
        /\ "abort" \in Action /\ firstInitDone \in BOOLEAN /\ answered \in BOOLEAN
    BY EditAssumption DEF IInv, TypeOK, Action, Time
  <1>2. abortType("switchnochange") = "switchnochange"
    BY AbortTypes
  <1>3. /\ newTiming("abort", "switchnochange") = [timing EXCEPT !["abort"] = now]
        /\ Suppressed("abort", "switchnochange") /\ ~NewSession("abort")
    BY DEF newTiming, Suppressed, NewSession
  <1>4. /\ UNCHANGED <<now, session, firstInitDone, attempt, began, idOf>>
        /\ timing' = [timing EXCEPT !["abort"] = now] /\ out' = {}
    BY <1>1, <1>2, <1>3 DEF handle
  <1>5. logged' = logged
    BY DEF handle
  <1>6. /\ timing' \in [Action -> Time \cup {NONE}] /\ timing'["abort"] = now
        /\ \A a \in Action \ {"abort"} : timing'[a] = timing[a]
    BY <1>1, <1>4
  <1>7. timing' # NoTiming
    BY <1>1, <1>6 DEF NoTiming
  <1>8. answered' = answered
    <2>1. answered' = CASE timing' = NoTiming -> FALSE
                        [] "abort" \in {"saveSuccess", "saveFailure"} -> TRUE
                        [] OTHER -> answered
      BY DEF handle
    <2> QED
      BY <2>1, <1>7
  <1> QED
    BY <1>4, <1>5, <1>6, <1>8

(***************************************************************************)
(* The ids: a step that keeps the attempt keeps all that is said of them   *)
(***************************************************************************)
IdParts == Begun /\ IdsApart /\ UsesInOrder /\ AttemptsKeepApart

LEMMA Opening ==
    ASSUME IInv, phase # "closed"
    PROVE  /\ attempt > 0 /\ session # NONE /\ session = idOf[attempt]
           /\ attempt \in 0..MaxAttempts /\ attempt \in Int
  BY EditAssumption DEF IInv, TypeOK, Begun, IdsApart

LEMMA SameUses ==
    ASSUME IInv, UNCHANGED <<session, attempt, idOf, uses, useIds>>
    PROVE  UsesInOrder'
  BY DEF IInv, UsesInOrder, UsesLoggedOnce

LEMMA SameAttempt ==
    ASSUME IInv, UNCHANGED <<session, firstInitDone, attempt, idOf>>,
           phase' # "closed" => phase # "closed",
           ids' \in Id, ids <= ids',
           \A e \in out' : phase # "closed" /\ e.id = session
    PROVE  Begun' /\ IdsApart' /\ AttemptsKeepApart'
  <1>1. ids \in Int /\ ids' \in Int
    BY EditAssumption DEF IInv, TypeOK, Id
  <1>2. Begun'
    BY DEF IInv, Begun
  <1>3. IdsApart'
    BY <1>1 DEF IInv, IdsApart
  <1>4. AttemptsKeepApart'
    BY Opening DEF IInv, AttemptsKeepApart
  <1> QED
    BY <1>2, <1>3, <1>4

(* A use is logged with the session's id, once there is one.               *)
LEMMA UseStep ==
    ASSUME IInv, NEW kind \in Kind, TrackUse(kind), UNCHANGED <<session, attempt, idOf>>
    PROVE  /\ UsesInOrder'
           /\ uses' \in Seq([kind : Kind, attempt : 0..MaxAttempts])
           /\ useIds' \in [1..MaxUses -> Seq(Id)]
  <1> DEFINE Use == [kind : Kind, attempt : 0..MaxAttempts]
  <1> DEFINE use == [kind |-> kind, attempt |-> attempt]
             given == IF session = NONE THEN <<>> ELSE <<session>>
  <1>1. /\ uses \in Seq(Use) /\ useIds \in [1..MaxUses -> Seq(Id)] /\ attempt \in 0..MaxAttempts
        /\ MaxAttempts \in Nat /\ MaxUses \in Nat /\ session \in Id \cup {NONE} /\ NONE \notin Id
    BY EditAssumption DEF IInv, TypeOK, Id
  <1>2. use \in Use /\ use.attempt = attempt
    BY <1>1
  <1>3. given \in Seq(Id)
    BY <1>1
  <1>4. Len(uses) < MaxUses /\ uses' = Append(uses, use) /\ useIds' = [useIds EXCEPT ![Len(uses) + 1] = given]
    BY DEF TrackUse
  <1>5. (session = NONE => attempt = 0) /\ (attempt > 0 => given = <<idOf[attempt]>>)
    BY <1>1 DEF IInv, Begun, IdsApart
  <1>6. session = NONE => given = <<>>
    OBVIOUS
  <1> HIDE DEF Use, use, given
  <1>7. /\ uses' \in Seq(Use) /\ DOMAIN uses = 1..Len(uses) /\ DOMAIN uses' = 1..(Len(uses) + 1)
        /\ Len(uses) \in Nat /\ Len(uses') = Len(uses) + 1
        /\ uses'[Len(uses) + 1] = use /\ \A u \in 1..Len(uses) : uses'[u] = uses[u]
    BY <1>1, <1>2, <1>4, AppendProperties, LenProperties
  <1>8. /\ useIds' \in [1..MaxUses -> Seq(Id)]
        /\ useIds'[Len(uses) + 1] = given /\ \A u \in 1..Len(uses) : useIds'[u] = useIds[u]
    BY <1>1, <1>3, <1>4, <1>7
  <1>9. ASSUME NEW u \in DOMAIN uses'
        PROVE  /\ uses'[u].attempt <= attempt'
               /\ session' = NONE => useIds'[u] = <<>>
               /\ uses'[u].attempt > 0 => useIds'[u] = << idOf'[uses'[u].attempt] >>
    <2>1. CASE u \in 1..Len(uses)
      BY <1>7, <1>8, <2>1 DEF IInv, UsesInOrder, UsesLoggedOnce
    <2>2. CASE u = Len(uses) + 1
      BY <1>1, <1>2, <1>5, <1>6, <1>7, <1>8, <2>2
    <2> QED
      BY <1>7, <2>1, <2>2
  <1> QED
    <2>1. Len(uses') <= MaxUses
      BY <1>1, <1>4, <1>7
    <2>2. UsesInOrder'
      BY <1>9, <2>1, Zenon DEF UsesInOrder, UsesLoggedOnce
    <2> QED
      BY <1>7, <1>8, <2>2 DEF Use

(***************************************************************************)
(* Events of an open editor                                                *)
(***************************************************************************)
EditorParts == Opened /\ Fresh /\ Telling

(* What there is to show of a step that keeps the attempt.                 *)
LEMMA AttemptStep ==
    ASSUME IInv, UNCHANGED <<now, session, firstInitDone, attempt, began, idOf, uses, useIds>>,
           phase' # "closed" => phase # "closed", phase' \in Phase, edited' \in BOOLEAN,
           ids' \in Id, ids <= ids', lastSessionId' \in Id \cup {NONE},
           timing' \in [Action -> Time \cup {NONE}],
           \A a \in Action : timing'[a] \in {timing[a], NONE, now},
           logged' \in [ready : Nat, loaded : Nat], answered' \in BOOLEAN,
           \A e \in out' : /\ phase # "closed" /\ e.id = session
                           /\ e.action \in Action /\ e.duration \in -1 .. MaxNow,
           EditorParts'
    PROVE  IInv'
  <1>1. Begun' /\ IdsApart' /\ AttemptsKeepApart'
    BY SameAttempt
  <1>2. UsesInOrder'
    BY SameUses
  <1>3. TimingPast'
    BY TimingType DEF IInv, TimingPast
  <1>4. TypeOK'
    BY DEF IInv, TypeOK
  <1> QED
    BY <1>1, <1>2, <1>3, <1>4 DEF IInv, EditorParts

LEMMA LastingStep ==
    ASSUME IInv, NEW action \in Lasting, Track(action, NONE), phase # "closed",
           phase' \in Phase, edited' \in BOOLEAN, EditorParts'
    PROVE  IInv'
  <1>1. session # NONE /\ action \in Action
    BY Opening DEF Lasting
  <1>2. handle(action, NONE) /\ UNCHANGED <<lastSessionId, ids, uses, useIds>>
    BY <1>1 DEF Track, Subscribe, Subscribes, GeneratesId, NewSession, Lasting
  <1>3. /\ answered \in BOOLEAN /\ now \in Time /\ ids \in Id /\ ids \in Int
        /\ lastSessionId \in Id \cup {NONE} /\ "abort" \in Action
    BY EditAssumption DEF IInv, TypeOK, Id, Action
  <1>4. \A a \in Action : timing'[a] \in {timing[a], NONE, now}
    BY <1>1, <1>2, LastingFacts
  <1>5. \A e \in out' : e.id = session /\ e.action \in Action /\ e.duration \in -1 .. MaxNow
    BY <1>1, <1>2, LastingFacts, DurationType
  <1>6. answered' \in BOOLEAN
    BY <1>1, <1>2, <1>3, LastingFacts
  <1>7. /\ UNCHANGED <<now, session, firstInitDone, attempt, began, idOf>>
        /\ timing' \in [Action -> Time \cup {NONE}] /\ logged' \in [ready : Nat, loaded : Nat]
    BY <1>1, <1>2, LastingFacts
  <1> QED
    BY <1>2, <1>3, <1>4, <1>5, <1>6, <1>7, AttemptStep

LEMMA EditorFacts ==
    ASSUME IInv, NEW action \in Lasting, Track(action, NONE), phase # "closed"
    PROVE  /\ UNCHANGED <<now, began>>
           /\ timing'[action] = now /\ now \in Int /\ NONE \notin Int /\ began <= now
           /\ \A a \in Action \ {action, "abort"} : timing'[a] = timing[a]
           /\ timing'["abort"] = IF action = "loaded" THEN NONE ELSE timing["abort"]
           /\ answered' = (answered \/ action \in {"saveSuccess", "saveFailure"})
           /\ logged.ready \in Nat /\ logged.loaded \in Nat
           /\ logged'.ready = IF action = "ready" /\ timing["abort"] = NONE
                              THEN logged.ready + 1 ELSE logged.ready
           /\ logged'.loaded = IF action = "loaded" /\ timing["abort"] = NONE
                               THEN logged.loaded + 1 ELSE logged.loaded
  <1>1. session # NONE /\ handle(action, NONE)
    BY Opening DEF Track
  <1>2. logged.ready \in Nat /\ logged.loaded \in Nat
    BY DEF IInv, TypeOK
  <1> QED
    BY <1>1, <1>2, LastingFacts, TimingType

(* The event's timing belongs to the attempt, and so do those that did.    *)
LEMMA OwnKept ==
    ASSUME IInv, NEW action \in Lasting, Track(action, NONE), phase # "closed"
    PROVE  /\ Own(action)' /\ \A a \in Action \ {"abort"} : Own(a) => Own(a)'
           /\ timing'["abort"] # NONE => timing["abort"] # NONE
           /\ ~answered' => ~answered /\ action \notin {"saveSuccess", "saveFailure"}
           /\ ~answered' => \A a \in Action : timing'[a] # NONE => Own(a)'
  <1>1. action \in Action \ {"abort"} /\ "abort" \in Action
    BY DEF Lasting, Action
  <1>2. Own(action)' /\ \A a \in Action \ {action, "abort"} : Own(a)' <=> Own(a)
    BY <1>1, EditorFacts DEF Own
  <1>3. timing'["abort"] # NONE => timing'["abort"] = timing["abort"]
    BY EditorFacts
  <1>4. timing'["abort"] # NONE => (Own("abort")' <=> Own("abort"))
    BY <1>3, EditorFacts DEF Own
  <1>5. ~answered' => ~answered /\ action \notin {"saveSuccess", "saveFailure"}
    BY EditorFacts
  <1>6. \A a \in Action \ {action, "abort"} : timing'[a] = timing[a]
    BY EditorFacts
  <1>7. ~answered => \A a \in Action : timing[a] # NONE => Own(a)
    BY DEF IInv, Fresh
  <1>8. ASSUME ~answered', NEW a \in Action, timing'[a] # NONE
        PROVE  Own(a)'
    <2>1. CASE a = action
      BY <1>2, <2>1
    <2>2. CASE a = "abort"
      BY <1>3, <1>4, <1>5, <1>7, <1>8, <2>2
    <2>3. CASE a \in Action \ {action, "abort"}
      BY <1>2, <1>5, <1>6, <1>7, <1>8, <2>3
    <2> QED
      BY <2>1, <2>2, <2>3
  <1> QED
    BY <1>1, <1>2, <1>3, <1>5, <1>8

LEMMA ReadyStep ==
    ASSUME IInv, Ready
    PROVE  IInv'
  <1>1. /\ "ready" \in Lasting /\ Track("ready", NONE) /\ phase # "closed"
        /\ phase' \in Phase /\ edited' \in BOOLEAN /\ edited \in BOOLEAN
    BY DEF IInv, TypeOK, Ready, Goes, Lasting, Action, Phase
  <1>2. Opened'
    BY <1>1, EditorFacts DEF IInv, Opened, Ready, Goes, Action
  <1>3. Fresh'
    BY <1>1, OwnKept DEF IInv, Fresh, Ready, Goes, Action
  <1>4. Telling'
    <2>1. phase = "opening" /\ phase' = "ready" /\ timing'["ready"] # NONE
      BY <1>1, EditorFacts DEF Ready, Goes
    <2>2. /\ ~answered' => ~answered
          /\ \A a \in {"saveAttempt", "saveSuccess", "saveFailure"} : timing'[a] = timing[a]
      BY <1>1, EditorFacts DEF Action
    <2> QED
      BY <2>1, <2>2 DEF IInv, Telling
  <1> QED
    BY <1>1, <1>2, <1>3, <1>4, LastingStep DEF EditorParts

LEMMA LoadedStep ==
    ASSUME IInv, Loaded
    PROVE  IInv'
  <1>1. /\ "loaded" \in Lasting /\ Track("loaded", NONE) /\ phase # "closed"
        /\ phase' \in Phase /\ edited' \in BOOLEAN /\ edited \in BOOLEAN
    BY DEF IInv, TypeOK, Loaded, Goes, Lasting, Action, Phase
  <1>2. Opened'
    BY <1>1, EditorFacts DEF IInv, Opened, Loaded, Goes, Action
  <1>3. Fresh'
    BY <1>1, OwnKept DEF IInv, Fresh, Loaded, Goes, Action
  <1>4. Telling'
    BY <1>1, EditorFacts DEF IInv, Opened, Telling, Loaded, Goes, Action
  <1> QED
    BY <1>1, <1>2, <1>3, <1>4, LastingStep DEF EditorParts

LEMMA FirstChangeStep ==
    ASSUME IInv, FirstChange
    PROVE  IInv'
  <1>1. /\ "firstChange" \in Lasting /\ Track("firstChange", NONE) /\ phase # "closed"
        /\ phase' \in Phase /\ edited' \in BOOLEAN /\ edited \in BOOLEAN
    BY DEF IInv, TypeOK, FirstChange, Goes, Lasting, Action, Phase
  <1>2. Opened'
    BY <1>1, EditorFacts DEF IInv, Opened, FirstChange, Goes, Action
  <1>3. Fresh'
    BY <1>1, OwnKept DEF IInv, Fresh, FirstChange, Goes, Action
  <1>4. Telling'
    BY <1>1, EditorFacts DEF IInv, Opened, Telling, FirstChange, Goes, Action
  <1> QED
    BY <1>1, <1>2, <1>3, <1>4, LastingStep DEF EditorParts

LEMMA SaveIntentStep ==
    ASSUME IInv, SaveIntent
    PROVE  IInv'
  <1>1. /\ "saveIntent" \in Lasting /\ Track("saveIntent", NONE) /\ phase # "closed"
        /\ phase' \in Phase /\ edited' \in BOOLEAN /\ edited \in BOOLEAN
    BY DEF IInv, TypeOK, SaveIntent, Goes, Lasting, Action, Phase
  <1>2. Opened'
    BY <1>1, EditorFacts DEF IInv, Opened, SaveIntent, Goes, Action
  <1>3. Fresh'
    BY <1>1, OwnKept DEF IInv, Fresh, SaveIntent, Goes, Action
  <1>4. Telling'
    BY <1>1, EditorFacts DEF IInv, Opened, Telling, SaveIntent, Goes, Action
  <1> QED
    BY <1>1, <1>2, <1>3, <1>4, LastingStep DEF EditorParts

LEMMA SaveAttemptStep ==
    ASSUME IInv, SaveAttempt
    PROVE  IInv'
  <1>1. /\ "saveAttempt" \in Lasting /\ Track("saveAttempt", NONE) /\ phase # "closed"
        /\ phase' \in Phase /\ edited' \in BOOLEAN /\ edited \in BOOLEAN
    BY DEF IInv, TypeOK, SaveAttempt, Goes, Lasting, Action, Phase
  <1>2. Opened'
    BY <1>1, EditorFacts DEF IInv, Opened, SaveAttempt, Goes, Action
  <1>3. Fresh'
    BY <1>1, OwnKept DEF IInv, Fresh, SaveAttempt, Goes, Action
  <1>4. Telling'
    BY <1>1, EditorFacts DEF IInv, Opened, Telling, SaveAttempt, Goes, Action
  <1> QED
    BY <1>1, <1>2, <1>3, <1>4, LastingStep DEF EditorParts

LEMMA SaveFailureStep ==
    ASSUME IInv, SaveFailure
    PROVE  IInv'
  <1>1. /\ "saveFailure" \in Lasting /\ Track("saveFailure", NONE) /\ phase # "closed"
        /\ phase' \in Phase /\ edited' \in BOOLEAN /\ edited \in BOOLEAN
    BY DEF IInv, TypeOK, SaveFailure, Goes, Lasting, Action, Phase
  <1>2. Opened'
    BY <1>1, EditorFacts DEF IInv, Opened, SaveFailure, Goes, Action
  <1>3. Fresh'
    BY <1>1, OwnKept DEF IInv, Fresh, SaveFailure, Goes, Action
  <1>4. Telling'
    BY <1>1, EditorFacts DEF IInv, Opened, Telling, SaveFailure, Goes, Action
  <1> QED
    BY <1>1, <1>2, <1>3, <1>4, LastingStep DEF EditorParts

LEMMA SaveSuccessStep ==
    ASSUME IInv, SaveSuccess
    PROVE  IInv'
  <1>1. /\ "saveSuccess" \in Lasting /\ Track("saveSuccess", NONE) /\ phase # "closed"
        /\ phase' \in Phase /\ edited' \in BOOLEAN /\ edited \in BOOLEAN
    BY DEF IInv, TypeOK, SaveSuccess, Goes, Lasting, Action, Phase
  <1>2. Opened'
    BY <1>1, EditorFacts DEF IInv, Opened, SaveSuccess, Goes, Action
  <1>3. Fresh'
    BY <1>1, OwnKept DEF IInv, Fresh, SaveSuccess, Goes, Action
  <1>4. Telling'
    BY <1>1, EditorFacts DEF IInv, Opened, Telling, SaveSuccess, Goes, Action
  <1> QED
    BY <1>1, <1>2, <1>3, <1>4, LastingStep DEF EditorParts

(***************************************************************************)
(* The editor is left, or switched                                         *)
(***************************************************************************)
LEMMA AbortStep ==
    ASSUME IInv, Abort
    PROVE  IInv'
  <1> DEFINE reported == IF edited THEN "unknown-edited" ELSE "unknown"
  <1>1. /\ reported \in {"unknown", "unknown-edited"} /\ Track("abort", reported)
        /\ phase # "closed" /\ phase' = "closed" /\ edited' = edited /\ edited \in BOOLEAN
    BY DEF IInv, TypeOK, Abort
  <1> HIDE DEF reported
  <1>2. session # NONE
    BY <1>1, Opening
  <1>3. handle("abort", reported) /\ UNCHANGED <<lastSessionId, ids, uses, useIds>>
    BY <1>1, <1>2 DEF Track, Subscribe, Subscribes, GeneratesId, NewSession
  <1>4. /\ UNCHANGED <<now, session, firstInitDone, attempt, began, idOf, logged>>
        /\ timing' = NoTiming /\ answered' = FALSE
        /\ \A e \in out' : e.action = "abort" /\ e.id = session
                           /\ e.duration = computeDuration("abort", abortType(reported))
    BY <1>1, <1>2, <1>3, AbortFacts
  <1>5. /\ \A a \in Action : timing'[a] = NONE
        /\ timing' \in [Action -> Time \cup {NONE}]
    BY <1>4 DEF NoTiming
  <1>6. /\ phase' \in Phase /\ "abort" \in Action /\ logged \in [ready : Nat, loaded : Nat]
        /\ ids \in Id /\ ids \in Int /\ lastSessionId \in Id \cup {NONE}
    BY <1>1, EditAssumption DEF IInv, TypeOK, Phase, Action, Id
  <1>7. Opened'
    BY <1>1, <1>4, <1>5, <1>6 DEF IInv, Opened
  <1>8. Fresh'
    BY <1>1, <1>4, <1>5 DEF Fresh, Own
  <1>9. Telling'
    BY <1>1, <1>4, <1>5 DEF Telling, Action
  <1>10. \A e \in out' : e.action \in Action /\ e.duration \in -1 .. MaxNow
    BY <1>4, <1>6, DurationType
  <1>11. answered' \in BOOLEAN /\ logged' \in [ready : Nat, loaded : Nat]
    BY <1>4, <1>6
  <1>12. /\ \A a \in Action : timing'[a] \in {timing[a], NONE, now}
         /\ ids' \in Id /\ ids <= ids' /\ lastSessionId' \in Id \cup {NONE}
    BY <1>3, <1>5, <1>6
  <1> QED
    BY <1>1, <1>3, <1>4, <1>5, <1>6, <1>7, <1>8, <1>9, <1>10, <1>11, <1>12, AttemptStep DEF EditorParts

LEMMA SwitchStep ==
    ASSUME IInv, Switch
    PROVE  IInv'
  <1>1. /\ Track("abort", "switchnochange") /\ phase = "open" /\ phase' = "opening"
        /\ edited' = edited /\ edited \in BOOLEAN
    BY DEF IInv, TypeOK, Switch, Goes
  <1>2. session # NONE
    BY <1>1, Opening
  <1>3. handle("abort", "switchnochange") /\ UNCHANGED <<lastSessionId, ids, uses, useIds>>
    BY <1>1, <1>2 DEF Track, Subscribe, Subscribes, GeneratesId, NewSession
  <1>4. /\ UNCHANGED <<now, session, firstInitDone, attempt, began, idOf, logged, answered>>
        /\ timing' \in [Action -> Time \cup {NONE}] /\ timing'["abort"] = now
        /\ \A a \in Action \ {"abort"} : timing'[a] = timing[a]
        /\ out' = {}
    BY <1>2, <1>3, SwitchFacts
  <1>5. /\ phase' \in Phase /\ "abort" \in Action /\ logged \in [ready : Nat, loaded : Nat]
        /\ ids \in Id /\ ids \in Int /\ lastSessionId \in Id \cup {NONE} /\ answered \in BOOLEAN
        /\ now # NONE /\ now \in Int /\ began \in Int /\ began <= now
    BY <1>1, EditAssumption, TimingType DEF IInv, TypeOK, Phase, Action, Id
  <1>6. Opened'
    BY <1>1, <1>4, <1>5 DEF IInv, Opened
  <1>7. Fresh'
    BY <1>1, <1>4, <1>5 DEF IInv, Fresh, Own, Action
  <1>8. Telling'
    BY <1>1, <1>4, <1>5 DEF IInv, Telling, Fresh, Own, Action
  <1> QED
    BY <1>1, <1>3, <1>4, <1>5, <1>6, <1>7, <1>8, AttemptStep DEF EditorParts


(***************************************************************************)
(* An attempt begins                                                       *)
(***************************************************************************)
LEMMA BeginFacts ==
    ASSUME IInv, EditorInit
    PROVE  /\ phase = "closed" /\ phase' = "opening" /\ edited' = FALSE
           /\ attempt \in Nat /\ attempt' = attempt + 1 /\ attempt' \in 1..MaxAttempts
           /\ UNCHANGED <<now, answered, uses>> /\ began' = now /\ firstInitDone' = TRUE
           /\ timing' \in [Action -> Time \cup {NONE}] /\ timing'["init"] = now
           /\ \A a \in Action \ {"init"} : timing'[a] = timing[a]
           /\ logged' \in [ready : Nat, loaded : Nat] /\ logged'.ready = 0 /\ logged'.loaded = 0
           /\ idOf' = [idOf EXCEPT ![attempt'] = session']
           /\ useIds' = IF session = NONE
                         THEN [u \in 1..MaxUses |->
                                  IF u \in DOMAIN uses THEN Append(useIds[u], session') ELSE <<>>]
                         ELSE useIds
           /\ \A e \in out' : e.action = "init" /\ e.id = session' /\ e.duration = 0
  <1>1. handle("init", NONE) /\ Subscribe("init") /\ attempt < MaxAttempts
        /\ phase = "closed" /\ phase' = "opening" /\ edited' = FALSE
    BY DEF EditorInit, Goes, Track
  <1>2. attempt \in Nat /\ MaxAttempts \in Nat
    BY EditAssumption DEF IInv, TypeOK
  <1> QED
    BY <1>1, <1>2, InitFacts DEF Subscribe, Subscribes

(* The new attempt gets an id that was generated for it, or the page's.    *)
LEMMA NewId ==
    ASSUME IInv, EditorInit
    PROVE  /\ session' \in Id /\ ids' \in Id /\ ids <= ids' /\ session' \in 0..ids'
           /\ lastSessionId' \in Id \cup {NONE}
           /\ attempt > 0 => session' > ids
           /\ attempt = 0 <=> session = NONE
  <1>1. /\ ids \in Nat /\ ids <= MaxIds /\ MaxIds \in Nat /\ Id = 0..MaxIds
        /\ lastSessionId \in Id \cup {NONE} /\ Provided \in BOOLEAN /\ attempt \in Nat
    BY EditAssumption DEF IInv, TypeOK, Id
  <1>2. /\ attempt = 0 <=> session = NONE
        /\ firstInitDone <=> attempt > 0
    BY DEF IInv, Begun
  <1>3. handle("init", NONE) /\ Track("init", NONE) /\ attempt < MaxAttempts
    BY DEF EditorInit, Track
  <1>4. session' = IF firstInitDone THEN ids + 1 ELSE IF session = NONE THEN ServiceId ELSE session
    BY <1>3, InitFacts
  <1>5. CASE session = NONE
    <2>1. FromService /\ session' = ServiceId
      BY <1>1, <1>2, <1>3, <1>4, <1>5 DEF Track
    <2> QED
      BY <1>1, <1>2, <1>5, <2>1 DEF FromService, GeneratesId, ServiceId, PageId
  <1>6. CASE session # NONE
    <2>1. firstInitDone = TRUE
      BY <1>1, <1>2, <1>6 DEF IInv, TypeOK
    <2>2. NewSession("init") = TRUE
      BY <2>1 DEF NewSession
    <2>3. GeneratesId(TRUE) /\ UNCHANGED lastSessionId
      BY <1>3, <1>6, <2>2 DEF Track
    <2>4. session' = ids + 1
      BY <1>4, <2>1
    <2> QED
      BY <1>1, <1>2, <1>6, <2>3, <2>4 DEF GeneratesId
  <1> QED
    BY <1>5, <1>6

LEMMA BeginIds ==
    ASSUME IInv, EditorInit
    PROVE  Begun' /\ IdsApart' /\ AttemptsKeepApart'
  <1>1. /\ idOf \in [1..MaxAttempts -> Id \cup {NONE}] /\ MaxAttempts \in Nat
        /\ MaxIds \in Nat /\ ids \in Nat /\ NONE \notin Id
    BY EditAssumption DEF IInv, TypeOK, Id
  <1>2. /\ attempt \in Nat /\ attempt' = attempt + 1 /\ attempt' \in 1..MaxAttempts
        /\ idOf' = [idOf EXCEPT ![attempt'] = session'] /\ firstInitDone' = TRUE
    BY BeginFacts
  <1>3. /\ idOf'[attempt'] = session'
        /\ \A a \in 1..attempt : idOf'[a] = idOf[a]
    BY <1>1, <1>2
  <1>4. /\ session' \in 0..ids' /\ session' \in Id /\ ids' \in Nat /\ ids <= ids'
        /\ attempt > 0 => session' > ids
    BY <1>1, NewId DEF Id
  <1>5. \A a \in 1..attempt : idOf[a] \in 0..ids
    BY DEF IInv, IdsApart
  <1>6. \A a, b \in 1..attempt : a # b => idOf[a] # idOf[b]
    BY DEF IInv, IdsApart
  <1>7. Begun'
    BY <1>1, <1>2, <1>4 DEF Begun
  <1>8. \A a \in 1..attempt' : idOf'[a] \in 0..ids'
    BY <1>1, <1>2, <1>3, <1>4, <1>5
  <1>9. \A a \in 1..attempt : idOf'[a] # idOf'[attempt']
    BY <1>1, <1>2, <1>3, <1>4, <1>5
  <1>10. \A a, b \in 1..attempt' : a # b => idOf'[a] # idOf'[b]
    BY <1>2, <1>3, <1>6, <1>9
  <1>11. AttemptsKeepApart'
    BY <1>3, <1>10, BeginFacts DEF AttemptsKeepApart
  <1> QED
    BY <1>3, <1>7, <1>8, <1>10, <1>11 DEF IdsApart

(* The first event logs the earlier uses with its id.                      *)
LEMMA BeginUses ==
    ASSUME IInv, EditorInit
    PROVE  UsesInOrder' /\ useIds' \in [1..MaxUses -> Seq(Id)]
  <1> DEFINE Use == [kind : Kind, attempt : 0..MaxAttempts]
  <1>1. /\ uses \in Seq(Use) /\ useIds \in [1..MaxUses -> Seq(Id)] /\ MaxAttempts \in Nat
        /\ idOf \in [1..MaxAttempts -> Id \cup {NONE}] /\ NONE \notin Id
    BY EditAssumption DEF IInv, TypeOK, Id
  <1>2. /\ attempt \in Nat /\ attempt' = attempt + 1 /\ attempt' \in 1..MaxAttempts /\ uses' = uses
        /\ idOf' = [idOf EXCEPT ![attempt'] = session']
        /\ useIds' = IF session = NONE
                      THEN [u \in 1..MaxUses |->
                               IF u \in DOMAIN uses THEN Append(useIds[u], session') ELSE <<>>]
                      ELSE useIds
    BY BeginFacts
  <1>3. session' \in Id /\ session' # NONE /\ (attempt = 0 <=> session = NONE)
    BY <1>1, NewId
  <1>4. \A u \in DOMAIN uses : uses[u] \in Use
    BY <1>1, LenProperties, ElementOfSeq
  <1>5. \A u \in DOMAIN uses : uses[u].attempt \in Nat /\ uses[u].attempt <= attempt
    BY <1>1, <1>4 DEF IInv, UsesInOrder
  <1>6. \A a \in 1..MaxAttempts : idOf'[a] = IF a = attempt + 1 THEN session' ELSE idOf[a]
    BY <1>1, <1>2
  <1>7. useIds' \in [1..MaxUses -> Seq(Id)]
    <2> DEFINE appended(u) == IF u \in DOMAIN uses THEN Append(useIds[u], session') ELSE <<>>
    <2>1. ASSUME NEW u \in 1..MaxUses PROVE appended(u) \in Seq(Id)
      <3>1. Append(useIds[u], session') \in Seq(Id) /\ <<>> \in Seq(Id)
        BY <1>1, <1>3, AppendProperties
      <3> QED
        BY <3>1
    <2> DEFINE all == [u \in 1..MaxUses |-> appended(u)]
    <2>2. useIds' = IF session = NONE THEN all ELSE useIds
      BY <1>2
    <2> HIDE DEF appended
    <2>3. all \in [1..MaxUses -> Seq(Id)]
      BY <2>1
    <2> HIDE DEF all
    <2> QED
      BY <1>1, <2>2, <2>3
  <1>8. DOMAIN uses \subseteq 1..MaxUses
    <2>1. MaxUses \in Nat /\ Len(uses) <= MaxUses
      BY EditAssumption DEF IInv, UsesInOrder
    <2>2. DOMAIN uses = 1..Len(uses) /\ Len(uses) \in Nat
      BY <1>1, LenProperties
    <2> QED
      BY <2>1, <2>2
  <1> HIDE DEF Use
  <1>9. ASSUME NEW u \in DOMAIN uses
        PROVE  /\ uses[u].attempt <= attempt'
               /\ uses[u].attempt > 0 => useIds'[u] = << idOf'[uses[u].attempt] >>
    <2>1. uses[u].attempt <= attempt'
      BY <1>2, <1>5
    <2>2. CASE uses[u].attempt > 0
      <3>1. session # NONE /\ uses[u].attempt \in 1..MaxAttempts /\ uses[u].attempt # attempt + 1
        BY <1>1, <1>2, <1>3, <1>5, <2>2
      <3>2. useIds'[u] = useIds[u]
        BY <1>2, <1>8, <3>1
      <3>3. useIds[u] = << idOf[uses[u].attempt] >>
        BY <2>2 DEF IInv, UsesInOrder, UsesLoggedOnce
      <3> QED
        BY <1>6, <2>1, <3>1, <3>2, <3>3
    <2> QED
      BY <2>1, <2>2
  <1> QED
    BY <1>2, <1>3, <1>7, <1>9 DEF IInv, UsesInOrder, UsesLoggedOnce

LEMMA EditorInitStep ==
    ASSUME IInv, EditorInit
    PROVE  IInv'
  <1>1. /\ now \in Time /\ now \in Int /\ now # NONE /\ answered \in BOOLEAN
        /\ uses \in Seq([kind : Kind, attempt : 0..MaxAttempts]) /\ MaxAttempts \in Nat
        /\ "init" \in Action /\ MaxNow \in Nat
        /\ idOf \in [1..MaxAttempts -> Id \cup {NONE}]
    BY EditAssumption, TimingType DEF IInv, TypeOK, Action
  <1>2. idOf' \in [1..MaxAttempts -> Id \cup {NONE}]
    BY <1>1, BeginFacts, NewId
  <1>3. /\ phase = "closed" /\ phase' = "opening" /\ (~answered' => ~answered)
        /\ now' = now /\ began' = now /\ logged'.ready = 0 /\ logged'.loaded = 0
        /\ timing'["init"] = now /\ \A a \in Action \ {"init"} : timing'[a] = timing[a]
    BY BeginFacts
  <1>4. \A a \in Action \ {"init"} : ~answered => timing'[a] = NONE
    BY <1>3 DEF IInv, Fresh, NoTiming
  <1>5. TypeOK'
    <2>1. /\ phase' \in Phase /\ edited' \in BOOLEAN /\ firstInitDone' \in BOOLEAN
          /\ uses' = uses /\ attempt' \in 0..MaxAttempts /\ answered' = answered
      BY <1>1, BeginFacts DEF Phase
    <2>2. \A e \in out' : e.action \in Action /\ e.duration \in -1 .. MaxNow
      BY <1>1, BeginFacts
    <2>3. timing' \in [Action -> Time \cup {NONE}] /\ logged' \in [ready : Nat, loaded : Nat]
      BY BeginFacts
    <2> QED
      BY <1>1, <1>2, <1>3, <2>1, <2>2, <2>3, NewId, BeginUses DEF TypeOK
  <1>6. TimingPast'
    BY <1>1, <1>3, TimingType DEF TimingPast
  <1>7. Opened'
    <2>1. timing["abort"] = NONE
      BY <1>3 DEF IInv, Opened
    <2> QED
      BY <1>3, <2>1 DEF Opened, Action
  <1>8. Fresh'
    BY <1>1, <1>3, <1>4 DEF Fresh, Own, Opened, IInv, Action
  <1>9. Telling'
    BY <1>1, <1>3, <1>4 DEF Telling, Action
  <1> QED
    BY <1>5, <1>6, <1>7, <1>8, <1>9, BeginIds, BeginUses DEF IInv

(***************************************************************************)
(* The captcha, uses of features, and the clock                            *)
(***************************************************************************)
LEMMA CaptchaStep ==
    ASSUME IInv, CaptchaOpens
    PROVE  IInv'
  <1>1. /\ phase = "saving" /\ phase' = "saving" /\ handle("saveFailure", NONE) /\ FromService
        /\ "saveFailure" \in Lasting /\ TrackUse("other") /\ "other" \in Kind /\ UNCHANGED edited
    BY DEF CaptchaOpens, Lasting, Action, Kind
  <1>2. session # NONE /\ "saveFailure" \in Action
    BY <1>1, Opening DEF Action
  <1>3. /\ UNCHANGED <<now, session, firstInitDone, attempt, began, idOf>>
        /\ timing' \in [Action -> Time \cup {NONE}]
        /\ timing'["saveFailure"] = now
        /\ \A a \in Action \ {"saveFailure", "abort"} : timing'[a] = timing[a]
        /\ timing'["abort"] = timing["abort"]
        /\ answered' = TRUE
        /\ logged' \in [ready : Nat, loaded : Nat]
        /\ logged'.ready = logged.ready /\ logged'.loaded = logged.loaded
        /\ \A e \in out' : e.action = "saveFailure" /\ e.id = session
                           /\ e.duration = computeDuration("saveFailure", NONE)
    BY <1>1, <1>2, LastingFacts
  <1>4. /\ ids' \in Id /\ ids <= ids' /\ lastSessionId' \in Id \cup {NONE}
    <2>1. ids \in Nat /\ ids <= MaxIds /\ MaxIds \in Nat /\ lastSessionId \in Id \cup {NONE}
          /\ Provided \in BOOLEAN
      BY EditAssumption DEF IInv, TypeOK, Id
    <2> QED
      BY <1>1, <2>1 DEF FromService, GeneratesId, ServiceId, PageId, Id
  <1>5. /\ UsesInOrder' /\ uses' \in Seq([kind : Kind, attempt : 0..MaxAttempts])
        /\ useIds' \in [1..MaxUses -> Seq(Id)]
    BY <1>1, <1>3, UseStep
  <1>6. Begun' /\ IdsApart' /\ AttemptsKeepApart'
    BY <1>1, <1>3, <1>4, SameAttempt
  <1>7. \A e \in out' : e.action \in Action /\ e.duration \in -1 .. MaxNow
    BY <1>2, <1>3, DurationType
  <1>8. TypeOK'
    BY <1>1, <1>3, <1>4, <1>5, <1>7 DEF IInv, TypeOK
  <1>9. TimingPast'
    BY <1>3, TimingType DEF IInv, TimingPast
  <1>10. Opened' /\ Fresh' /\ Telling'
    BY <1>1, <1>3 DEF IInv, Opened, Fresh, Telling, Own, Action
  <1> QED
    BY <1>5, <1>6, <1>8, <1>9, <1>10 DEF IInv

LEMMA FeatureUseStep ==
    ASSUME IInv, NEW kind \in Kind, FeatureUse(kind)
    PROVE  IInv'
  <1>1. /\ TrackUse(kind) /\ out' = {}
        /\ UNCHANGED <<now, session, firstInitDone, timing, lastSessionId, ids, phase, edited,
                       attempt, began, idOf, logged, answered>>
    BY DEF FeatureUse, handlerVars, history
  <1>2. /\ UsesInOrder' /\ uses' \in Seq([kind : Kind, attempt : 0..MaxAttempts])
        /\ useIds' \in [1..MaxUses -> Seq(Id)]
    BY <1>1, UseStep
  <1>3. TypeOK'
    BY <1>1, <1>2 DEF IInv, TypeOK
  <1>4. TimingPast' /\ Begun' /\ IdsApart' /\ AttemptsKeepApart'
    BY <1>1 DEF IInv, TimingPast, Begun, IdsApart, AttemptsKeepApart
  <1>5. Opened' /\ Fresh' /\ Telling'
    BY <1>1 DEF IInv, Opened, Fresh, Telling, Own
  <1> QED
    BY <1>2, <1>3, <1>4, <1>5 DEF IInv

LEMMA AdvanceStep ==
    ASSUME IInv, Advance
    PROVE  IInv'
  <1>1. /\ now < MaxNow /\ now' = now + 1 /\ out' = {}
        /\ UNCHANGED <<session, firstInitDone, timing, lastSessionId, ids, uses, useIds, phase, edited,
                       attempt, began, idOf, logged, answered>>
    BY DEF Advance, handlerVars, featureVars, history
  <1>2. now' \in Time
    BY <1>1, TimingType DEF Time
  <1>3. TypeOK'
    BY <1>1, <1>2 DEF IInv, TypeOK
  <1>4. TimingPast'
    BY <1>1, TimingType DEF TimingPast
  <1>5. Begun' /\ IdsApart' /\ UsesInOrder' /\ AttemptsKeepApart'
    BY <1>1 DEF IInv, Begun, IdsApart, UsesInOrder, UsesLoggedOnce, AttemptsKeepApart
  <1>6. Opened' /\ Fresh' /\ Telling'
    BY <1>1 DEF IInv, Opened, Fresh, Telling, Own
  <1> QED
    BY <1>3, <1>4, <1>5, <1>6 DEF IInv

LEMMA SameStep ==
    ASSUME IInv, UNCHANGED vars
    PROVE  IInv'
  <1>1. UNCHANGED <<now, session, firstInitDone, timing, lastSessionId, ids, uses, useIds, phase,
                    edited, attempt, began, idOf, logged, answered, out>>
    BY DEF vars, handlerVars, featureVars, history
  <1> QED
    BY <1>1 DEF IInv, TypeOK, TimingPast, Begun, IdsApart, UsesInOrder, UsesLoggedOnce, AttemptsKeepApart,
                Opened, Fresh, Telling, Own

LEMMA InitHolds ==
    ASSUME Init
    PROVE  IInv
  <1>1. /\ 1 \in Time /\ 0 \in Id /\ 0 \in 0..MaxAttempts /\ NONE \notin Int
        /\ MaxAttempts \in Nat
    BY EditAssumption DEF Time, Id
  <1>2. <<>> \in Seq([kind : Kind, attempt : 0..MaxAttempts]) /\ <<>> \in Seq(Id)
        /\ DOMAIN <<>> = {}
    BY EmptySeq
  <1>3. NoTiming \in [Action -> Time \cup {NONE}] /\ \A a \in Action : NoTiming[a] = NONE
    BY DEF NoTiming
  <1>4. TypeOK
    BY <1>1, <1>2, <1>3 DEF Init, TypeOK, Phase
  <1>5. TimingPast /\ Begun /\ IdsApart /\ AttemptsKeepApart
    BY <1>1, <1>2, <1>3 DEF Init, TimingPast, Begun, IdsApart, AttemptsKeepApart
  <1>7. UsesInOrder
    <2>1. uses = <<>> /\ Len(uses) = 0 /\ MaxUses \in Nat
      BY EditAssumption DEF Init
    <2> QED
      BY <1>2, <2>1 DEF UsesInOrder, UsesLoggedOnce
  <1>6. Opened /\ Fresh /\ Telling
    BY <1>3 DEF Init, Opened, Fresh, Telling, Own, Action
  <1> QED
    BY <1>4, <1>5, <1>6, <1>7 DEF IInv

LEMMA NextHolds ==
    ASSUME IInv, [Next]_vars
    PROVE  IInv'
  BY EditorInitStep, ReadyStep, LoadedStep, FirstChangeStep, SaveIntentStep, SaveAttemptStep,
     SaveFailureStep, SaveSuccessStep, AbortStep, SwitchStep, CaptchaStep, FeatureUseStep,
     AdvanceStep, SameStep DEF Next

(* IInv holds of every page, for any sequence of events that editors send.  *)
THEOREM Invariant == Spec => []IInv
  <1>1. Init => IInv
    BY InitHolds
  <1>2. IInv /\ [Next]_vars => IInv'
    BY NextHolds
  <1> QED
    BY <1>1, <1>2, PTL DEF Spec

(***************************************************************************)
(* What the instrument promises                                            *)
(***************************************************************************)
(* Every event has a duration that has passed, and every use an id.        *)
THEOREM TypeCorrect == Spec => []TypeOK
  <1>1. IInv => TypeOK
    BY DEF IInv
  <1> QED
    BY <1>1, Invariant, PTL

(* Any number of attempts on a page keep their ids apart.                  *)
THEOREM AttemptsApart == Spec => []AttemptsKeepApart
  <1>1. IInv => AttemptsKeepApart
    BY DEF IInv
  <1> QED
    BY <1>1, Invariant, PTL

(* However often modes are switched, one ready and one loaded is logged.   *)
THEOREM OpenedOnceAlways == Spec => []OpenedOnce
  <1>1. IInv => OpenedOnce
    <2> SUFFICES ASSUME IInv PROVE OpenedOnce
      OBVIOUS
    <2>1. logged \in [ready : Nat, loaded : Nat] /\ Opened
      BY DEF IInv, TypeOK
    <2>2. logged = [ready |-> logged.ready, loaded |-> logged.loaded]
      BY <2>1
    <2> QED
      BY <2>1, <2>2 DEF Opened, OpenedOnce
  <1> QED
    BY <1>1, Invariant, PTL

(* No use is logged before an editor, and each one made in an attempt is  *)
(* logged once, with that attempt's id.                                    *)
THEOREM UsesOnce == Spec => []UsesLoggedOnce
  <1>1. IInv => UsesLoggedOnce
    BY DEF IInv, UsesInOrder
  <1> QED
    BY <1>1, Invariant, PTL

(***************************************************************************)
(* What the events of a step tell                                          *)
(***************************************************************************)
AbortsTrue == ~answered => \A e \in out' : AbortsTell(e)

WithinAttempt == \A e \in out' : (e.action = "abort" => ~answered) => e.duration <= now - began

(* A duration is relative to an action of the attempt, or -1.              *)
LEMMA DurationOwn ==
    ASSUME IInv, NEW action \in Action, NEW type,
           action \notin {"init", "saveSuccess", "saveFailure"} => Own(Since(action, type))
    PROVE  computeDuration(action, type) <= now - began
  <1>1. now \in Int /\ began \in Int /\ began <= now
    BY TimingType
  <1>2. CASE action \in {"init", "saveSuccess", "saveFailure"}
    BY <1>1, <1>2 DEF computeDuration
  <1>3. CASE action \notin {"init", "saveSuccess", "saveFailure"}
    <2>1. Since(action, type) \in Action
      BY <1>3 DEF Since, Action
    <2>2. Own(Since(action, type))
      BY <1>3
    <2>3. timing[Since(action, type)] \in Int /\ began <= timing[Since(action, type)]
      BY <2>1, <2>2, TimingType DEF Own
    <2>4. computeDuration(action, type) = now - timing[Since(action, type)]
      BY <1>3, <2>2 DEF computeDuration, Own
    <2> QED
      BY <1>1, <2>3, <2>4
  <1> QED
    BY <1>2, <1>3

LEMMA LastingTells ==
    ASSUME IInv, NEW action \in Lasting, handle(action, NONE), phase # "closed",
           action \notin {"saveSuccess", "saveFailure"} => Own(Since(action, NONE))
    PROVE  AbortsTrue /\ WithinAttempt
  <1>1. \A e \in out' : e.action = action /\ e.duration = computeDuration(action, NONE)
    BY Opening, LastingFacts
  <1>2. action \in Action /\ action # "abort"
    BY DEF Lasting
  <1> QED
    BY <1>1, <1>2, DurationOwn DEF AbortsTrue, AbortsTell, WithinAttempt

LEMMA AbortTells ==
    ASSUME IInv, Abort
    PROVE  AbortsTrue /\ WithinAttempt
  <1> DEFINE reported == IF edited THEN "unknown-edited" ELSE "unknown"
  <1> DEFINE type == abortType(reported)
  <1>1. /\ reported \in {"unknown", "unknown-edited"} /\ handle("abort", reported) /\ phase # "closed"
        /\ (reported = "unknown" <=> ~edited)
    BY DEF Abort, Track
  <1>2. \A e \in out' : e.action = "abort" /\ e.type = type
                       /\ e.duration = computeDuration("abort", type)
    BY <1>1, Opening, AbortFacts
  <1>3. CASE answered
    BY <1>2, <1>3 DEF AbortsTrue, WithinAttempt
  <1>4. CASE ~answered
    <2>1. /\ timing["saveSuccess"] = NONE /\ timing["saveFailure"] = NONE
          /\ phase = "saving" <=> timing["saveAttempt"] # NONE
          /\ timing["ready"] = NONE <=> phase = "opening" /\ timing["abort"] = NONE
          /\ timing["init"] # NONE
      BY <1>1, <1>4 DEF IInv, Telling, Fresh, Own
    <2>2. phase = "opening" => (timing["abort"] = NONE <=> logged.ready = 0)
      BY DEF IInv, Opened
    <2>3. TrueAbortType(type)
      BY <1>1, <2>1, <2>2 DEF abortType, TrueAbortType
    <2>4. type = "abandonMidsave" <=> phase = "saving"
      BY <1>1, <2>1 DEF abortType
    <2>5. type = "preinit" <=> timing["ready"] = NONE /\ phase # "saving"
      BY <1>1, <2>1 DEF abortType
    <2> HIDE DEF type
    <2>6. "abort" \in Action /\ \A a \in Action : timing[a] # NONE => Own(a)
      BY <1>4 DEF IInv, Fresh, Action
    <2>7. Own(Since("abort", type))
      BY <2>1, <2>4, <2>5, <2>6 DEF Since, Action
    <2>8. computeDuration("abort", type) <= now - began
      BY <2>6, <2>7, DurationOwn
    <2> QED
      BY <1>2, <2>3, <2>8 DEF AbortsTrue, AbortsTell, WithinAttempt, type
  <1> QED
    BY <1>3, <1>4

LEMMA StepTells ==
    ASSUME IInv, Next
    PROVE  AbortsTrue /\ WithinAttempt
  <1>1. CASE EditorInit
    <2>1. \A e \in out' : e.action = "init" /\ e.duration = 0
      BY <1>1, BeginFacts
    <2> QED
      BY <2>1, TimingType DEF AbortsTrue, AbortsTell, WithinAttempt
  <1>2. CASE Ready \/ Loaded
    BY <1>2, LastingTells DEF Ready, Loaded, Goes, Track, Since, IInv, Fresh, Lasting, Action
  <1>3. CASE FirstChange \/ SaveIntent
    BY <1>3, LastingTells DEF FirstChange, SaveIntent, Goes, Track, Since, IInv, Fresh, Lasting, Action
  <1>4. CASE SaveAttempt
    BY <1>4, LastingTells DEF SaveAttempt, Goes, Track, Since, IInv, Fresh, Lasting, Action
  <1>5. CASE SaveFailure \/ SaveSuccess \/ CaptchaOpens
    BY <1>5, LastingTells DEF SaveFailure, SaveSuccess, CaptchaOpens, Goes, Track, Lasting, Action
  <1>6. CASE Switch
    <2>1. handle("abort", "switchnochange") /\ phase # "closed"
      BY <1>6 DEF Switch, Goes, Track
    <2>2. out' = {}
      BY <2>1, Opening, SwitchFacts
    <2> QED
      BY <2>2 DEF AbortsTrue, WithinAttempt
  <1>7. CASE Advance \/ \E kind \in Kind : FeatureUse(kind)
    BY <1>7 DEF Advance, FeatureUse, AbortsTrue, WithinAttempt
  <1> QED
    BY <1>1, <1>2, <1>3, <1>4, <1>5, <1>6, <1>7, AbortTells DEF Next

(* Until a save is answered, every abort has its true type.                *)
THEOREM AbortTypesTrue == Spec => AbortTypeRight
  <1>1. IInv /\ [Next]_vars => [~answered => \A e \in out' : AbortsTell(e)]_vars
    BY StepTells DEF AbortsTrue
  <1> QED
    BY <1>1, Invariant, PTL DEF Spec, AbortTypeRight

(* And no duration reaches back into an earlier attempt, but for that of   *)
(* an abort after an answered save, which may take an earlier ready.       *)
THEOREM DurationsWithin == Spec => DurationWithinAttempt
  <1>1. IInv /\ [Next]_vars =>
            [\A e \in out' : (e.action = "abort" => ~answered) => e.duration <= now - began]_vars
    BY StepTells DEF WithinAttempt
  <1> QED
    BY <1>1, Invariant, PTL DEF Spec, DurationWithinAttempt

(* Beside suggestionMode.js the instrument does what it does alone, so all *)
(* of the above holds of the composition.                                  *)
THEOREM CompositionImplements == SSpec => Spec
  <1>1. SInit => Init
    BY DEF SInit
  <1>2. ASSUME [SNext]_allVars
        PROVE  [Next]_vars
    <2>1. CASE UNCHANGED allVars
      BY <2>1 DEF allVars
    <2>2. CASE OpenEditor \/ EditorReady \/ Changes \/ Saves \/ Leaves \/ SuggestionUse
      BY <2>2 DEF OpenEditor, EditorReady, Changes, Saves, Leaves, SuggestionUse, Next, Kind
    <2>3. CASE OtherEvent
      BY <2>3 DEF OtherEvent, Next, Kind
    <2>4. CASE FullPage \/ ChangesAgain \/ Resolve \/ \E t \in Target : Qualifies(t)
      BY <2>4 DEF FullPage, ChangesAgain, Resolve, Qualifies
    <2> QED
      BY <1>2, <2>1, <2>2, <2>3, <2>4 DEF SNext
  <1> QED
    BY <1>1, <1>2, PTL DEF Spec, SSpec

(***************************************************************************)
(* The funnel of edit suggestions                                          *)
(*                                                                         *)
(* What a target's variables say is what was told of its session (Told).   *)
(* The rest follows the target in use: it has no outcome while its editor  *)
(* shows a surface (Undecided), and has one when it is closed (Decided).   *)
(***************************************************************************)
FunnelAction == {"exposure", "first_change", "edit_saved", "abort", "session_qualified"}

Handlers == [once : BOOLEAN, listening : BOOLEAN, abandoned : BOOLEAN, saved : BOOLEAN,
             changed : BOOLEAN, ready : Int \cup {NONE}, timers : SUBSET Int]

FunnelType ==
    /\ sections \in BOOLEAN /\ resolved \in BOOLEAN
    /\ target \in 0..attempt
    /\ handlers \in [Target -> Handlers]
    /\ story \in [Target -> [FunnelAction -> Nat]]

(* The variables h of a target and its story s.                            *)
Told(h, s) ==
    /\ s["first_change"] = IF h.changed THEN 1 ELSE 0
    /\ s["edit_saved"] = IF h.saved THEN 1 ELSE 0
    /\ s["abort"] = IF h.abandoned THEN 1 ELSE 0
    /\ s["exposure"] = IF h.ready = NONE THEN 0 ELSE 1
    /\ ~(h.saved /\ h.abandoned)
    /\ h.timers # {} =>
           h.ready # NONE /\ h.timers = {h.ready + QUALIFY} /\ s["session_qualified"] = 0

TargetsTold == \A t \in Target : Told(handlers[t], story[t])

Unused == \A t \in Target : ~resolved \/ t > target => handlers[t] = NewHandlers

InUse == phase # "closed" \/ ending # NONE => target > 0

Undecided ==
    phase \notin {"closed", "opening"} \/ (sections /\ phase # "closed") =>
        ~handlers[target].saved /\ ~handlers[target].abandoned

Decided ==
    phase = "closed" /\ ending \notin {NONE, "opening", "saving"} =>
        (handlers[target].ready # NONE => handlers[target].saved \/ handlers[target].abandoned)

(* The id of the first attempt came from the service.                      *)
Joined ==
    attempt = 1 =>
        IF Provided THEN session = PageId
        ELSE ids > 0 /\ (ids = 1 => session = lastSessionId)

(* Suggestions are used in an editor.                                      *)
NoneEarly == session = NONE => Suggestions = {}

FInv ==
    /\ FunnelType /\ TargetsTold
    /\ Unused /\ InUse /\ Undecided /\ Decided
    /\ Joined /\ NoneEarly

LEMMA TargetInUse ==
    ASSUME IInv, FInv, target > 0
    PROVE  /\ target \in Target
           /\ handlers[target] \in Handlers /\ story[target] \in [FunnelAction -> Nat]
           /\ Told(handlers[target], story[target])
  <1>1. target \in Target
    BY EditAssumption DEF FInv, FunnelType, IInv, TypeOK, Target
  <1> QED
    BY <1>1 DEF FInv, FunnelType, TargetsTold

(***************************************************************************)
(* Sending                                                                 *)
(***************************************************************************)
LEMMA Sent ==
    ASSUME FInv, NEW t \in Target, NEW actions \in SUBSET FunnelAction, NEW subtype,
           Send(t, actions, subtype)
    PROVE  /\ story' \in [Target -> [FunnelAction -> Nat]]
           /\ \A u \in Target \ {t} : story'[u] = story[u]
           /\ \A a \in FunnelAction :
                  story'[t][a] = (IF "exposure" \in actions THEN 0 ELSE story[t][a])
                                 + (IF a \in actions THEN 1 ELSE 0)
           /\ \A e \in funnel' :
                  /\ e.action \in actions /\ e.subtype = subtype
                  /\ e.target = t /\ e.token = Token(t)
                  /\ e.since = IF handlers[t].ready = NONE THEN NONE ELSE now - handlers[t].ready
  <1> DEFINE s == [a \in FunnelAction |-> (IF "exposure" \in actions THEN 0 ELSE story[t][a])
                                          + (IF a \in actions THEN 1 ELSE 0)]
  <1>1. story \in [Target -> [FunnelAction -> Nat]]
    BY DEF FInv, FunnelType
  <1>2. DOMAIN story[t] = FunnelAction /\ s \in [FunnelAction -> Nat]
    BY <1>1
  <1>3. story' = [story EXCEPT ![t] = s]
    BY <1>1, <1>2 DEF Send
  <1>4. \A a \in FunnelAction : s[a] = (IF "exposure" \in actions THEN 0 ELSE story[t][a])
                                       + (IF a \in actions THEN 1 ELSE 0)
    OBVIOUS
  <1>5. funnel' = {Event(t, a, subtype) : a \in actions}
    BY DEF Send
  <1> HIDE DEF s
  <1>6. /\ story' \in [Target -> [FunnelAction -> Nat]] /\ story'[t] = s
        /\ \A u \in Target \ {t} : story'[u] = story[u]
    BY <1>1, <1>2, <1>3
  <1>7. \A e \in funnel' :
            /\ e.action \in actions /\ e.subtype = subtype
            /\ e.target = t /\ e.token = Token(t)
            /\ e.since = IF handlers[t].ready = NONE THEN NONE ELSE now - handlers[t].ready
    BY <1>5 DEF Event
  <1> QED
    BY <1>4, <1>6, <1>7

(* One more of an action that begins no session.                           *)
SentAlone(t, b, subtype) ==
    /\ story' \in [Target -> [FunnelAction -> Nat]]
    /\ \A u \in Target \ {t} : story'[u] = story[u]
    /\ story'[t][b] = story[t][b] + 1
    /\ \A a \in FunnelAction \ {b} : story'[t][a] = story[t][a]
    /\ \A e \in funnel' :
           /\ e.action = b /\ e.subtype = subtype
           /\ e.target = t
           /\ e.since = IF handlers[t].ready = NONE THEN NONE ELSE now - handlers[t].ready

LEMMA SentOne ==
    ASSUME FInv, NEW t \in Target, NEW b \in FunnelAction \ {"exposure"}, NEW subtype,
           Send(t, {b}, subtype)
    PROVE  SentAlone(t, b, subtype)
  <1>1. {b} \in SUBSET FunnelAction /\ "exposure" \notin {b}
    OBVIOUS
  <1>2. /\ story' \in [Target -> [FunnelAction -> Nat]]
        /\ \A u \in Target \ {t} : story'[u] = story[u]
        /\ \A a \in FunnelAction :
               story'[t][a] = (IF "exposure" \in {b} THEN 0 ELSE story[t][a]) + (IF a \in {b} THEN 1 ELSE 0)
        /\ \A e \in funnel' :
               /\ e.action \in {b} /\ e.subtype = subtype
               /\ e.target = t /\ e.token = Token(t)
               /\ e.since = IF handlers[t].ready = NONE THEN NONE ELSE now - handlers[t].ready
    BY <1>1, Sent
  <1>3. \A a \in FunnelAction : story[t][a] \in Nat
    BY DEF FInv, FunnelType
  <1>4. story'[t][b] = story[t][b] + 1
    BY <1>1, <1>2
  <1>5. ASSUME NEW a \in FunnelAction \ {b} PROVE story'[t][a] = story[t][a]
    <2>1. story'[t][a] = story[t][a] + 0 /\ story[t][a] \in Nat
      BY <1>1, <1>2, <1>3
    <2> QED
      BY <2>1
  <1> QED
    BY <1>2, <1>4, <1>5 DEF SentAlone

(* A step that changes one target keeps the others as they are told.       *)
LEMMA OneTarget ==
    ASSUME FInv, NEW t \in Target,
           handlers' \in [Target -> Handlers],
           \A u \in Target \ {t} : handlers'[u] = handlers[u] /\ story'[u] = story[u],
           Told(handlers'[t], story'[t])
    PROVE  TargetsTold'
  <1>1. Target' = Target
    BY DEF Target
  <1>2. ASSUME NEW u \in Target PROVE Told(handlers'[u], story'[u])
    <2>1. CASE u = t
      BY <2>1
    <2>2. CASE u # t
      BY <2>2 DEF FInv, TargetsTold, Told
    <2> QED
      BY <2>1, <2>2
  <1> QED
    BY <1>1, <1>2 DEF TargetsTold, Told

(* Nothing that the funnel reads has changed.                              *)
LEMMA Untold ==
    ASSUME FInv, UNCHANGED <<handlers, story>>
    PROVE  TargetsTold'
  BY DEF FInv, TargetsTold, Told, Target

LEMMA NewTold ==
    ASSUME NEW t \in Target, FInv, handlers[t] = NewHandlers
    PROVE  /\ handlers[t].ready = NONE /\ handlers[t].timers = {}
           /\ ~handlers[t].saved /\ ~handlers[t].abandoned /\ ~handlers[t].changed
           /\ ~handlers[t].once /\ ~handlers[t].listening
  BY DEF NewHandlers

(***************************************************************************)
(* The steps of the target in use                                          *)
(***************************************************************************)
(* What the events of a step say.                                          *)
FunnelRight ==
    \A e \in funnel' :
        /\ e.action = "abort" =>
               e.subtype = IF story'[e.target]["first_change"] = 1 THEN "abandon" ELSE "nochange"
        /\ e.action = "session_qualified" =>
               /\ e.since >= QUALIFY
               /\ story[e.target]["abort"] = 0 /\ story[e.target]["session_qualified"] = 0

(* The part of FInv that a step of a target can disturb.                   *)
TargetKept ==
    /\ handlers' \in [Target -> Handlers] /\ story' \in [Target -> [FunnelAction -> Nat]]
    /\ TargetsTold'
    /\ \A t \in Target : ~resolved \/ t > target => handlers'[t] = NewHandlers

LEMMA Starting ==
    ASSUME NEW h \in Handlers, now \in Int
    PROVE  /\ onSessionStart(h) \in Handlers
           /\ onSessionStart(h).ready = now /\ onSessionStart(h).timers = {now + QUALIFY}
           /\ ~onSessionStart(h).saved /\ ~onSessionStart(h).abandoned /\ ~onSessionStart(h).changed
  <1>1. QUALIFY \in Int
    BY QualifyAssumption
  <1>2. /\ clearSession(h) \in Handlers
        /\ clearSession(h).timers = {} /\ ~clearSession(h).saved /\ ~clearSession(h).abandoned
        /\ ~clearSession(h).changed
    BY DEF clearSession, Handlers
  <1> DEFINE c == clearSession(h)
  <1>3. onSessionStart(h) = [c EXCEPT !.ready = now, !.timers = c.timers \cup {now + QUALIFY}]
    BY DEF onSessionStart
  <1> HIDE DEF c
  <1>4. c \in Handlers /\ c.timers = {} /\ ~c.saved /\ ~c.abandoned /\ ~c.changed
    BY <1>2 DEF c
  <1> DEFINE due == {now + QUALIFY}
             s == [c EXCEPT !.ready = now, !.timers = due]
  <1>5. due \in SUBSET Int /\ onSessionStart(h) = s
    BY <1>1, <1>3, <1>4
  <1> HIDE DEF due
  <1>6. /\ s \in Handlers /\ s.ready = now /\ s.timers = due
        /\ ~s.saved /\ ~s.abandoned /\ ~s.changed
    BY <1>4, <1>5 DEF Handlers
  <1> QED
    BY <1>5, <1>6 DEF due

LEMMA SurfaceReadyStep ==
    ASSUME IInv, FInv, target > 0, SurfaceReady
    PROVE  /\ TargetKept /\ FunnelRight
           /\ Starts(handlers[target]) =>
                  ~handlers'[target].saved /\ ~handlers'[target].abandoned
           /\ ~Starts(handlers[target]) =>
                  /\ handlers'[target].saved = handlers[target].saved
                  /\ handlers'[target].abandoned = handlers[target].abandoned
  <1> DEFINE h == handlers[target]
             started == IF Starts(h) THEN onSessionStart(h) ELSE h
             shown == [started EXCEPT !.once = resolved, !.listening = resolved]
  <1>1. /\ target \in Target /\ h \in Handlers /\ story[target] \in [FunnelAction -> Nat]
        /\ Told(h, story[target])
    BY TargetInUse
  <1>2. now \in Int /\ resolved \in BOOLEAN /\ handlers \in [Target -> Handlers]
        /\ story \in [Target -> [FunnelAction -> Nat]]
    BY TimingType DEF FInv, FunnelType
  <1>3. handlers' = [handlers EXCEPT ![target] = shown]
    BY DEF SurfaceReady
  <1>4. started \in Handlers
    BY <1>1, <1>2, Starting
  <1>5. /\ shown \in Handlers /\ shown.ready = started.ready /\ shown.timers = started.timers
        /\ shown.saved = started.saved /\ shown.abandoned = started.abandoned
        /\ shown.changed = started.changed
    <2> HIDE DEF started
    <2> QED
      BY <1>2, <1>4 DEF Handlers
  <1> HIDE DEF shown
  <1>6. /\ handlers' \in [Target -> Handlers] /\ handlers'[target] = shown
        /\ \A u \in Target \ {target} : handlers'[u] = handlers[u]
    BY <1>1, <1>2, <1>3, <1>5
  <1>7. CASE Starts(h)
    <2>1. Send(target, {"exposure"}, NONE)
      BY <1>7 DEF SurfaceReady
    <2>2. {"exposure"} \in SUBSET FunnelAction
      BY DEF FunnelAction
    <2>3. /\ story' \in [Target -> [FunnelAction -> Nat]]
          /\ \A u \in Target \ {target} : story'[u] = story[u]
          /\ \A a \in FunnelAction : story'[target][a] = 0 + (IF a = "exposure" THEN 1 ELSE 0)
          /\ \A e \in funnel' : e.action = "exposure"
      BY <1>1, <2>1, <2>2, Sent
    <2>4. started = onSessionStart(h)
      BY <1>7
    <2>5. /\ shown.ready = now /\ shown.timers = {now + QUALIFY}
          /\ ~shown.saved /\ ~shown.abandoned /\ ~shown.changed
      BY <1>1, <1>2, <1>5, <2>4, Starting
    <2>6. now # NONE
      BY <1>2, EditAssumption
    <2>7. Told(shown, story'[target])
      BY <2>3, <2>5, <2>6 DEF Told, FunnelAction
    <2>8. TargetsTold'
      BY <1>1, <1>6, <2>3, <2>7, OneTarget
    <2>9. FunnelRight
      BY <2>3 DEF FunnelRight
    <2>10. resolved /\ target \in Int
      BY <1>1, <1>7 DEF Starts, Target
    <2>11. \A t \in Target : ~resolved \/ t > target => handlers'[t] = NewHandlers
      BY <1>6, <2>10 DEF FInv, Unused, Target
    <2> QED
      BY <1>6, <1>7, <2>3, <2>5, <2>8, <2>9, <2>11 DEF TargetKept
  <1>8. CASE ~Starts(h)
    <2>1. UNCHANGED story /\ funnel' = {}
      BY <1>8 DEF SurfaceReady, Silent
    <2>2. started = h
      BY <1>8
    <2>3. Told(shown, story'[target])
      BY <1>1, <1>5, <2>1, <2>2 DEF Told
    <2>4. TargetsTold'
      BY <1>1, <1>6, <2>1, <2>3, OneTarget
    <2>5. FunnelRight
      BY <2>1 DEF FunnelRight
    <2>6. ASSUME NEW t \in Target, ~resolved \/ t > target
          PROVE  handlers'[t] = NewHandlers
      <3>1. handlers[t] = NewHandlers
        BY <2>6 DEF FInv, Unused
      <3>2. CASE t # target
        BY <1>6, <3>1, <3>2
      <3>3. CASE t = target
        <4>1. ~resolved /\ resolved = FALSE
          BY <1>2, <2>6, <3>3 DEF Target
        <4>2. shown = [NewHandlers EXCEPT !.once = FALSE, !.listening = FALSE]
          BY <2>2, <3>1, <3>3, <4>1 DEF shown
        <4>3. shown = NewHandlers
          BY <4>2 DEF NewHandlers
        <4> QED
          BY <1>6, <3>3, <4>3
      <3> QED
        BY <3>2, <3>3
    <2> QED
      BY <1>2, <1>5, <1>6, <1>8, <2>1, <2>2, <2>4, <2>5, <2>6 DEF TargetKept
  <1> QED
    BY <1>7, <1>8

LEMMA TransactStep ==
    ASSUME IInv, FInv, target > 0, Transact
    PROVE  /\ TargetKept /\ FunnelRight
           /\ handlers'[target].saved = handlers[target].saved
           /\ handlers'[target].abandoned = handlers[target].abandoned
  <1> DEFINE h == handlers[target]
             typed == [h EXCEPT !.listening = FALSE, !.changed = h.changed \/ h.listening]
  <1>1. /\ target \in Target /\ h \in Handlers /\ story[target] \in [FunnelAction -> Nat]
        /\ Told(h, story[target])
    BY TargetInUse
  <1>2. resolved \in BOOLEAN /\ handlers \in [Target -> Handlers]
        /\ story \in [Target -> [FunnelAction -> Nat]]
    BY DEF FInv, FunnelType
  <1>3. handlers' = [handlers EXCEPT ![target] = typed]
    BY DEF Transact
  <1>4. /\ typed \in Handlers /\ typed.ready = h.ready /\ typed.timers = h.timers
        /\ typed.saved = h.saved /\ typed.abandoned = h.abandoned
        /\ typed.changed <=> h.changed \/ h.listening
    BY <1>1 DEF Handlers
  <1> HIDE DEF typed
  <1>5. /\ handlers' \in [Target -> Handlers] /\ handlers'[target] = typed
        /\ \A u \in Target \ {target} : handlers'[u] = handlers[u]
    BY <1>1, <1>2, <1>3, <1>4
  <1>6. /\ Told(typed, story'[target]) /\ \A u \in Target \ {target} : story'[u] = story[u]
        /\ story' \in [Target -> [FunnelAction -> Nat]]
        /\ \A e \in funnel' : e.action = "first_change"
    <2>1. CASE FirstOfSession(h)
      <3>1. Send(target, {"first_change"}, NONE) /\ "first_change" \in FunnelAction \ {"exposure"}
        BY <2>1 DEF Transact, FunnelAction
      <3> SentAlone(target, "first_change", NONE)
        BY <1>1, <3>1, SentOne
      <3>2. /\ story' \in [Target -> [FunnelAction -> Nat]]
            /\ \A u \in Target \ {target} : story'[u] = story[u]
            /\ story'[target]["first_change"] = story[target]["first_change"] + 1
            /\ \A a \in FunnelAction \ {"first_change"} : story'[target][a] = story[target][a]
            /\ \A e \in funnel' : e.action = "first_change"
        BY DEF SentAlone
      <3>3. typed.changed /\ ~h.changed
        BY <1>4, <2>1 DEF FirstOfSession
      <3> HIDE DEF h
      <3>5. story[target]["first_change"] = 0
        BY <1>1, <3>3 DEF Told
      <3>6. Told(typed, story'[target])
        <4>1. story'[target]["first_change"] = IF typed.changed THEN 1 ELSE 0
          BY <3>2, <3>3, <3>5
        <4>2. /\ story'[target]["edit_saved"] = story[target]["edit_saved"]
              /\ story'[target]["abort"] = story[target]["abort"]
              /\ story'[target]["exposure"] = story[target]["exposure"]
              /\ story'[target]["session_qualified"] = story[target]["session_qualified"]
          BY <3>2 DEF FunnelAction
        <4> QED
          BY <1>1, <1>4, <4>1, <4>2 DEF Told
      <3> QED
        BY <3>2, <3>6
    <2>2. CASE ~FirstOfSession(h)
      <3>1. UNCHANGED story /\ funnel' = {}
        BY <2>2 DEF Transact, Silent
      <3>2. typed.changed <=> h.changed
        BY <1>4, <2>2 DEF FirstOfSession
      <3>3. story'[target] = story[target]
        BY <3>1
      <3> HIDE DEF h
      <3>4. Told(typed, story[target])
        BY <1>1, <1>4, <3>2 DEF Told
      <3> QED
        BY <1>2, <3>1, <3>3, <3>4
    <2> QED
      BY <2>1, <2>2
  <1>7. TargetsTold'
    BY <1>1, <1>5, <1>6, OneTarget
  <1>8. ASSUME NEW t \in Target, ~resolved \/ t > target
        PROVE  handlers'[t] = NewHandlers
    <2>1. handlers[t] = NewHandlers
      BY <1>8 DEF FInv, Unused
    <2>2. CASE t # target
      BY <1>5, <2>1, <2>2
    <2>3. CASE t = target
      <3>1. typed = [NewHandlers EXCEPT !.listening = FALSE,
                                        !.changed = NewHandlers.changed \/ NewHandlers.listening]
        BY <2>1, <2>3 DEF typed
      <3>2. (NewHandlers.changed \/ NewHandlers.listening) = FALSE
        BY DEF NewHandlers
      <3>3. typed = NewHandlers
        BY <3>1, <3>2 DEF NewHandlers
      <3> QED
        BY <1>5, <2>3, <3>3
    <2> QED
      BY <2>2, <2>3
  <1>9. FunnelRight
    BY <1>6 DEF FunnelRight
  <1> QED
    BY <1>4, <1>5, <1>6, <1>7, <1>8, <1>9 DEF TargetKept

(* An outcome is told once, of a target that has none.                     *)
LEMMA Outcome ==
    ASSUME IInv, FInv, target > 0, resolved, NEW b \in {"abort", "edit_saved"}, NEW subtype,
           ~handlers[target].saved, ~handlers[target].abandoned,
           NEW over, handlers' = [handlers EXCEPT ![target] = over],
           over = IF b = "abort" THEN [handlers[target] EXCEPT !.abandoned = TRUE]
                                 ELSE [handlers[target] EXCEPT !.saved = TRUE],
           Send(target, {b}, subtype),
           b = "abort" => subtype = IF handlers[target].changed THEN "abandon" ELSE "nochange"
    PROVE  /\ TargetKept /\ FunnelRight
           /\ handlers'[target].ready = handlers[target].ready
           /\ handlers'[target].saved \/ handlers'[target].abandoned
  <1> DEFINE h == handlers[target]
  <1>1. /\ target \in Target /\ h \in Handlers /\ story[target] \in [FunnelAction -> Nat]
        /\ Told(h, story[target])
    BY TargetInUse
  <1>2. handlers \in [Target -> Handlers] /\ b \in FunnelAction \ {"exposure"}
    BY DEF FInv, FunnelType, FunnelAction
  <1> SentAlone(target, b, subtype)
    BY <1>1, <1>2, SentOne
  <1>3. /\ story' \in [Target -> [FunnelAction -> Nat]]
        /\ \A u \in Target \ {target} : story'[u] = story[u]
        /\ story'[target][b] = story[target][b] + 1
        /\ \A a \in FunnelAction \ {b} : story'[target][a] = story[target][a]
        /\ \A e \in funnel' :
               /\ e.action = b /\ e.subtype = subtype
               /\ e.target = target
               /\ e.since = IF h.ready = NONE THEN NONE ELSE now - h.ready
    BY DEF SentAlone
  <1>4. /\ over \in Handlers /\ over.ready = h.ready /\ over.timers = h.timers
        /\ over.changed = h.changed
        /\ over.saved = (b = "edit_saved") /\ over.abandoned = (b = "abort")
    <2>1. h.saved = FALSE /\ h.abandoned = FALSE
      BY <1>1 DEF Handlers
    <2>2. CASE b = "abort"
      BY <1>1, <2>1, <2>2 DEF Handlers
    <2>3. CASE b = "edit_saved"
      BY <1>1, <2>1, <2>3 DEF Handlers
    <2> QED
      BY <2>2, <2>3
  <1>5. /\ handlers' \in [Target -> Handlers] /\ handlers'[target] = over
        /\ \A u \in Target \ {target} : handlers'[u] = handlers[u]
    BY <1>1, <1>2, <1>4
  <1>6. Told(over, story'[target])
    <2>1. /\ story[target]["edit_saved"] = 0 /\ story[target]["abort"] = 0
          /\ ~(over.saved /\ over.abandoned)
      BY <1>1, <1>4 DEF Told
    <2>2. /\ story'[target]["edit_saved"] = IF over.saved THEN 1 ELSE 0
          /\ story'[target]["abort"] = IF over.abandoned THEN 1 ELSE 0
      <3>1. CASE b = "abort"
        <4>1. over.abandoned /\ ~over.saved
          BY <1>4, <3>1
        <4>2. story'[target]["abort"] = 1 /\ story'[target]["edit_saved"] = 0
          BY <1>3, <2>1, <3>1 DEF FunnelAction
        <4> QED
          BY <4>1, <4>2
      <3>2. CASE b = "edit_saved"
        <4>1. over.saved /\ ~over.abandoned
          BY <1>4, <3>2
        <4>2. story'[target]["abort"] = 0 /\ story'[target]["edit_saved"] = 1
          BY <1>3, <2>1, <3>2 DEF FunnelAction
        <4> QED
          BY <4>1, <4>2
      <3> QED
        BY <3>1, <3>2
    <2>3. /\ story'[target]["first_change"] = story[target]["first_change"]
          /\ story'[target]["exposure"] = story[target]["exposure"]
          /\ story'[target]["session_qualified"] = story[target]["session_qualified"]
      BY <1>3 DEF FunnelAction
    <2> HIDE DEF h
    <2> QED
      BY <1>1, <1>4, <2>1, <2>2, <2>3 DEF Told
  <1>7. TargetsTold'
    BY <1>1, <1>3, <1>5, <1>6, OneTarget
  <1>8. \A t \in Target : ~resolved \/ t > target => handlers'[t] = NewHandlers
    <2>1. target \in Int
      BY <1>1 DEF Target
    <2> QED
      BY <1>5, <2>1 DEF FInv, Unused, Target
  <1>9. FunnelRight
    <2>1. CASE b = "abort"
      <3>1. story'[target]["first_change"] = IF h.changed THEN 1 ELSE 0
        BY <1>1, <1>3, <2>1 DEF Told, FunnelAction
      <3> QED
        BY <1>3, <2>1, <3>1 DEF FunnelRight
    <2>2. CASE b = "edit_saved"
      BY <1>3, <2>2 DEF FunnelRight
    <2> QED
      BY <2>1, <2>2
  <1> QED
    BY <1>3, <1>4, <1>5, <1>7, <1>8, <1>9 DEF TargetKept

(* Where no outcome is told, nothing is.                                   *)
LEMMA Quiet ==
    ASSUME FInv, UNCHANGED handlers, Silent
    PROVE  TargetKept /\ FunnelRight
  <1>1. TargetsTold'
    BY Untold DEF Silent
  <1> QED
    BY <1>1 DEF TargetKept, FunnelRight, Silent, FInv, FunnelType, Unused

(* A session that is left is decided, unless its surface was not ready or  *)
(* a save under way.                                                       *)
LEMMA TeardownStep ==
    ASSUME IInv, FInv, target > 0, Teardown, phase # "closed"
    PROVE  /\ TargetKept /\ FunnelRight
           /\ phase \notin {"opening", "saving"} =>
                  (handlers'[target].ready # NONE =>
                       handlers'[target].saved \/ handlers'[target].abandoned)
  <1>1. CASE Aborts(handlers[target])
    <2>1. resolved /\ ~handlers[target].saved /\ ~handlers[target].abandoned
      BY <1>1 DEF Aborts, FInv, Undecided
    <2>2. /\ handlers' = [handlers EXCEPT ![target].abandoned = TRUE]
          /\ Send(target, {"abort"}, IF handlers[target].changed THEN "abandon" ELSE "nochange")
      BY <1>1 DEF Teardown
    <2>3. handlers' = [handlers EXCEPT ![target] = [handlers[target] EXCEPT !.abandoned = TRUE]]
      BY <2>2
    <2> QED
      BY <2>1, <2>2, <2>3, Outcome
  <1>2. CASE ~Aborts(handlers[target])
    <2>1. UNCHANGED handlers /\ Silent
      BY <1>2 DEF Teardown
    <2>2. target \in Target
      BY TargetInUse
    <2>3. phase \notin {"opening", "saving"} => ~resolved
      BY <1>2 DEF Aborts, FInv, Undecided
    <2>4. ~resolved => handlers[target].ready = NONE
      BY <2>2, NewTold DEF FInv, Unused
    <2> QED
      BY <2>1, <2>3, <2>4, Quiet
  <1> QED
    BY <1>1, <1>2

LEMMA SaveStep ==
    ASSUME IInv, FInv, target > 0, SaveAndTeardown, phase = "saving"
    PROVE  /\ TargetKept /\ FunnelRight
           /\ handlers'[target].ready # NONE =>
                  handlers'[target].saved \/ handlers'[target].abandoned
  <1>1. CASE resolved
    <2>1. ~handlers[target].saved /\ ~handlers[target].abandoned
      BY DEF FInv, Undecided
    <2>2. /\ handlers' = [handlers EXCEPT ![target].saved = TRUE]
          /\ Send(target, {"edit_saved"}, NONE)
      BY <1>1 DEF SaveAndTeardown
    <2>3. handlers' = [handlers EXCEPT ![target] = [handlers[target] EXCEPT !.saved = TRUE]]
      BY <2>2
    <2> QED
      BY <1>1, <2>1, <2>2, <2>3, Outcome
  <1>2. CASE ~resolved
    <2>1. UNCHANGED handlers /\ Silent
      BY <1>2 DEF SaveAndTeardown
    <2>2. target \in Target
      BY TargetInUse
    <2>3. handlers[target].ready = NONE
      BY <1>2, <2>2, NewTold DEF FInv, Unused
    <2> QED
      BY <2>1, <2>3, Quiet
  <1> QED
    BY <1>1, <1>2

(* A timer that is due belongs to the session that runs.                   *)
LEMMA QualifyStep ==
    ASSUME IInv, FInv, NEW t \in Target, Qualifies(t)
    PROVE  /\ TargetKept /\ FunnelRight
           /\ \A u \in Target :
                  /\ handlers'[u].ready = handlers[u].ready
                  /\ handlers'[u].saved = handlers[u].saved
                  /\ handlers'[u].abandoned = handlers[u].abandoned
  <1> DEFINE h == handlers[t]
  <1>1. /\ h \in Handlers /\ story[t] \in [FunnelAction -> Nat] /\ Told(h, story[t])
        /\ handlers \in [Target -> Handlers] /\ story \in [Target -> [FunnelAction -> Nat]]
    BY DEF FInv, FunnelType, TargetsTold
  <1>2. PICK due \in h.timers : now >= due /\ handlers' = [handlers EXCEPT ![t].timers = h.timers \ {due}]
    BY <1>1 DEF Qualifies
  <1>3. /\ h.ready # NONE /\ h.timers = {h.ready + QUALIFY} /\ due = h.ready + QUALIFY
        /\ story[t]["session_qualified"] = 0
    BY <1>1, <1>2 DEF Told
  <1> DEFINE rung == [h EXCEPT !.timers = {}]
  <1>4. handlers' = [handlers EXCEPT ![t] = rung]
    BY <1>1, <1>2, <1>3
  <1>5. /\ rung \in Handlers /\ rung.timers = {} /\ rung.ready = h.ready
        /\ rung.saved = h.saved /\ rung.abandoned = h.abandoned /\ rung.changed = h.changed
    BY <1>1 DEF Handlers
  <1> HIDE DEF rung
  <1>6. /\ handlers' \in [Target -> Handlers] /\ handlers'[t] = rung
        /\ \A u \in Target \ {t} : handlers'[u] = handlers[u]
    BY <1>1, <1>4, <1>5
  <1>7. /\ story' \in [Target -> [FunnelAction -> Nat]]
        /\ \A u \in Target \ {t} : story'[u] = story[u]
        /\ \A a \in FunnelAction \ {"session_qualified"} : story'[t][a] = story[t][a]
        /\ FunnelRight
    <2>1. CASE h.abandoned
      <3>1. UNCHANGED story /\ funnel' = {}
        BY <2>1 DEF Qualifies, Silent
      <3> QED
        BY <1>1, <3>1 DEF FunnelRight
    <2>2. CASE ~h.abandoned
      <3>1. Send(t, {"session_qualified"}, NONE) /\ "session_qualified" \in FunnelAction \ {"exposure"}
        BY <2>2 DEF Qualifies, FunnelAction
      <3> SentAlone(t, "session_qualified", NONE)
        BY <3>1, SentOne
      <3>2. /\ story' \in [Target -> [FunnelAction -> Nat]]
            /\ \A u \in Target \ {t} : story'[u] = story[u]
            /\ \A a \in FunnelAction \ {"session_qualified"} : story'[t][a] = story[t][a]
            /\ \A e \in funnel' :
                   /\ e.action = "session_qualified" /\ e.target = t
                   /\ e.since = IF h.ready = NONE THEN NONE ELSE now - h.ready
        BY DEF SentAlone
      <3>3. h.ready \in Int /\ now \in Int /\ QUALIFY \in Int
        BY <1>1, <1>3, TimingType, QualifyAssumption DEF Handlers
      <3> HIDE DEF h
      <3>4. now - h.ready >= QUALIFY
        BY <1>2, <1>3, <3>3
      <3>5. story[t]["abort"] = 0
        BY <1>1, <2>2 DEF Told
      <3>6. FunnelRight
        BY <1>3, <3>2, <3>4, <3>5 DEF FunnelRight
      <3> QED
        BY <3>2, <3>6
    <2> QED
      BY <2>1, <2>2
  <1>8. Told(rung, story'[t])
    <2>1. /\ story'[t]["first_change"] = story[t]["first_change"]
          /\ story'[t]["edit_saved"] = story[t]["edit_saved"]
          /\ story'[t]["abort"] = story[t]["abort"]
          /\ story'[t]["exposure"] = story[t]["exposure"]
      BY <1>7 DEF FunnelAction
    <2> HIDE DEF h
    <2> QED
      BY <1>1, <1>5, <2>1 DEF Told
  <1>9. TargetsTold'
    BY <1>6, <1>7, <1>8, OneTarget
  <1>10. ASSUME NEW u \in Target, ~resolved \/ u > target PROVE handlers'[u] = NewHandlers
    <2>1. u # t
      BY <1>3, <1>10, NewTold DEF FInv, Unused
    <2> QED
      BY <1>6, <1>10, <2>1 DEF FInv, Unused
  <1> QED
    BY <1>5, <1>6, <1>7, <1>9, <1>10 DEF TargetKept

(***************************************************************************)
(* The session's id during the first attempt                               *)
(***************************************************************************)
LEMMA AllTokens ==
    ASSUME SNext, NEW e \in funnel'
    PROVE  e.token = Token(1)
  <1>1. ASSUME NEW t, NEW actions, NEW subtype, Send(t, actions, subtype) PROVE e.token = Token(1)
    BY <1>1 DEF Send, Event, Token
  <1>2. ASSUME NEW targets, NEW which, Suggested(targets, which) PROVE e.token = Token(1)
    BY <1>2 DEF Suggested, Event, Token
  <1>3. ~Silent
    BY DEF Silent
  <1>4. CASE OpenEditor \/ Resolve \/ SuggestionUse
    BY <1>2, <1>3, <1>4 DEF OpenEditor, Resolve, SuggestionUse, Subscription
  <1>5. CASE EditorReady \/ FullPage \/ Changes \/ ChangesAgain
    BY <1>1, <1>3, <1>5 DEF EditorReady, FullPage, Changes, ChangesAgain, SurfaceReady, Transact
  <1>6. CASE Saves \/ Leaves \/ \E t \in Target : Qualifies(t)
    BY <1>1, <1>3, <1>6 DEF Saves, Leaves, Qualifies, SaveAndTeardown, Teardown
  <1>7. CASE OtherEvent
    BY <1>3, <1>7 DEF OtherEvent
  <1> QED
    BY <1>4, <1>5, <1>6, <1>7 DEF SNext

(* The abort types that an editor reports, and none.                       *)
Reported == {NONE, "unknown", "unknown-edited", "switchnochange"}

(* What a step of an editor that is open leaves alone.                     *)
LEMMA SameSession ==
    ASSUME IInv,
           \/ Ready \/ Loaded \/ FirstChange \/ SaveIntent \/ SaveAttempt \/ SaveFailure
           \/ SaveSuccess \/ Abort \/ Switch
    PROVE  UNCHANGED <<session, attempt, ids, lastSessionId, uses>> /\ phase # "closed"
  <1>1. \E action \in Action \ {"init"}, reported \in Reported : Track(action, reported)
    BY DEF Ready, Loaded, FirstChange, SaveIntent, SaveAttempt, SaveFailure, SaveSuccess, Abort,
           Switch, Action, Reported
  <1>2. PICK action \in Action \ {"init"}, reported \in Reported : Track(action, reported)
    BY <1>1
  <1>3. phase # "closed"
    BY DEF Ready, Loaded, FirstChange, SaveIntent, SaveAttempt, SaveFailure, SaveSuccess, Abort,
           Switch, Goes
  <1>4. session # NONE /\ ~NewSession(action)
    BY <1>2, <1>3, Opening DEF NewSession
  <1>5. session' = session /\ attempt' = attempt
    BY <1>2, <1>4 DEF Track, handle
  <1>6. ids' = ids /\ UNCHANGED lastSessionId
    BY <1>2, <1>4 DEF Track, GeneratesId
  <1>7. UNCHANGED uses
    BY <1>2 DEF Track, Subscribe
  <1> QED
    BY <1>3, <1>5, <1>6, <1>7

IdsKept ==
    /\ UNCHANGED <<session, attempt>> /\ ids' \in Int /\ ids <= ids'
    /\ Joined' /\ NoneEarly'

LEMMA SameIds ==
    ASSUME IInv, FInv, UNCHANGED <<session, attempt, ids, lastSessionId, uses>>
    PROVE  IdsKept
  BY EditAssumption DEF IInv, TypeOK, Id, FInv, IdsKept, Joined, NoneEarly, Suggestions

LEMMA CaptchaIds ==
    ASSUME IInv, FInv, CaptchaOpens
    PROVE  IdsKept /\ phase # "closed" /\ UNCHANGED phase
  <1>1. /\ phase = "saving" /\ phase' = phase /\ handle("saveFailure", NONE) /\ FromService
        /\ session # NONE /\ "saveFailure" \in Lasting
    BY Opening DEF CaptchaOpens, Lasting, Action
  <1>2. UNCHANGED <<session, attempt>>
    BY <1>1, LastingFacts
  <1>3. /\ Provided \in BOOLEAN /\ ids \in Int /\ ids' = IF Provided THEN ids ELSE ids + 1
        /\ Provided => UNCHANGED lastSessionId
    BY <1>1, EditAssumption DEF IInv, TypeOK, Id, FromService, GeneratesId
  <1>4. Joined'
    BY <1>2, <1>3 DEF FInv, Joined
  <1>5. NoneEarly'
    BY <1>1, <1>2 DEF NoneEarly
  <1> QED
    BY <1>1, <1>2, <1>3, <1>4, <1>5 DEF IdsKept

(* No suggestion is used before an editor was opened.                      *)
LEMMA UseIds ==
    ASSUME IInv, FInv, NEW kind \in Kind, FeatureUse(kind),
           kind = "suggestion" => session # NONE
    PROVE  IdsKept /\ UNCHANGED phase
  <1> DEFINE use == [kind |-> kind, attempt |-> attempt]
             Use == [kind : Kind, attempt : 0..MaxAttempts]
  <1>1. /\ UNCHANGED <<session, attempt, ids, lastSessionId, phase>> /\ uses' = Append(uses, use)
        /\ uses \in Seq(Use) /\ use \in Use /\ use.kind = kind
    BY DEF FeatureUse, TrackUse, handlerVars, history, IInv, TypeOK
  <1>2. ids \in Int /\ Joined'
    BY <1>1, EditAssumption DEF IInv, TypeOK, Id, FInv, Joined
  <1>3. ASSUME session' = NONE PROVE Suggestions' = {}
    <2>1. session = NONE /\ kind # "suggestion" /\ Suggestions = {}
      BY <1>1, <1>3 DEF FInv, NoneEarly
    <2> HIDE DEF use, Use
    <2>2. /\ DOMAIN uses = 1..Len(uses) /\ Len(uses) \in Nat
          /\ DOMAIN uses' = 1 .. Len(uses) + 1
          /\ \A u \in 1..Len(uses) : uses'[u] = uses[u]
          /\ uses'[Len(uses) + 1] = use
      BY <1>1, AppendProperties, LenProperties
    <2>3. ASSUME NEW u \in DOMAIN uses' PROVE uses'[u].kind # "suggestion"
      <3>1. CASE u = Len(uses) + 1
        BY <1>1, <2>1, <2>2, <3>1
      <3>2. CASE u \in 1..Len(uses)
        BY <2>1, <2>2, <3>2 DEF Suggestions
      <3> QED
        BY <2>2, <2>3, <3>1, <3>2
    <2> QED
      BY <2>3 DEF Suggestions
  <1> QED
    BY <1>1, <1>2, <1>3 DEF IdsKept, NoneEarly

(* The funnel's token is the session's id.                                 *)
LEMMA TokensJoin ==
    ASSUME IInv, FInv, SNext, IdsKept
    PROVE  FunnelJoins'
  <1>1. ids \in Nat /\ Provided \in BOOLEAN /\ PageId = 0
    BY EditAssumption DEF IInv, TypeOK, Id, PageId
  <1>2. ASSUME attempt' = 1, ids' <= 1, NEW e \in funnel' PROVE e.token = session'
    <2>1. attempt = 1 /\ ids <= 1 /\ session' = session
      BY <1>1, <1>2 DEF IdsKept
    <2>2. e.token = Token(1)
      BY AllTokens
    <2>3. Token(1) = session
      BY <1>1, <2>1 DEF FInv, Joined, Token
    <2> QED
      BY <2>1, <2>2, <2>3
  <1> QED
    BY <1>2 DEF FunnelJoins

(***************************************************************************)
(* The steps of both instruments                                           *)
(***************************************************************************)
LEMMA Together ==
    ASSUME IInv, FInv, SNext, TargetKept, IdsKept, UNCHANGED <<sections, resolved, target>>,
           phase' # "closed" \/ ending' # NONE => target > 0,
           Undecided', Decided'
    PROVE  FInv' /\ FunnelJoins'
  <1>1. FunnelType'
    BY DEF FInv, FunnelType, TargetKept, IdsKept, Target
  <1>2. Unused' /\ InUse' /\ TargetsTold'
    BY DEF TargetKept, Unused, InUse, Target
  <1> QED
    BY <1>1, <1>2, TokensJoin DEF FInv, IdsKept

(* No variable of a target that Undecided and Decided speak of changes.    *)
LEMMA SameOutcome ==
    ASSUME FInv, UNCHANGED <<sections, target, ending, handlers>>,
           \/ UNCHANGED phase
           \/ phase \notin {"closed", "opening"} /\ phase' # "closed"
    PROVE  Undecided' /\ Decided'
  BY DEF FInv, Undecided, Decided

LEMMA OpenEditorStep ==
    ASSUME IInv, FInv, OpenEditor
    PROVE  FInv' /\ FunnelRight /\ FunnelJoins'
  <1>1. /\ EditorInit /\ UNCHANGED <<handlers, sections, resolved, ending>> /\ UNCHANGED story
        /\ \A e \in funnel' : e.action = "suggestion"
        /\ target' = IF sections \/ target = 0 THEN target + 1 ELSE target
        /\ Suggestions = {} => funnel' = {}
    BY DEF OpenEditor, Subscription, Suggested, Silent, Event
  <1>2. /\ attempt \in Nat /\ attempt' = attempt + 1 /\ attempt' \in 1..MaxAttempts
        /\ phase' = "opening" /\ uses' = uses
    BY <1>1, BeginFacts
  <1>3. target \in 0..attempt /\ MaxAttempts \in Nat /\ sections \in BOOLEAN
    BY EditAssumption DEF FInv, FunnelType
  <1>4. target' \in 1..attempt' /\ target <= target' /\ target' \in Target
    BY <1>1, <1>2, <1>3 DEF Target
  <1>5. FunnelType'
    BY <1>1, <1>4 DEF FInv, FunnelType, Target
  <1>6. TargetsTold'
    BY <1>1, Untold
  <1>7. Unused'
    BY <1>1, <1>3, <1>4 DEF FInv, Unused, Target
  <1>8. InUse' /\ Decided'
    BY <1>2, <1>3, <1>4 DEF InUse, Decided
  <1>9. Undecided'
    <2>1. CASE sections
      <3>1. handlers[target'] = NewHandlers
        BY <1>1, <1>3, <1>4, <2>1 DEF FInv, Unused
      <3> QED
        BY <1>1, <1>4, <3>1, NewTold DEF Undecided
    <2>2. CASE ~sections
      BY <1>1, <1>2, <2>2 DEF Undecided
    <2> QED
      BY <2>1, <2>2
  <1>10. ASSUME attempt' = 1
         PROVE  session = NONE /\ session' # NONE /\ Joined'
    <2>1. attempt = 0 /\ session = NONE /\ ~firstInitDone
      BY <1>2, <1>10 DEF IInv, Begun
    <2>2. session' = ServiceId /\ FromService
      BY <1>1, <2>1 DEF EditorInit, Track, handle, NewSession
    <2>3. ids \in Nat /\ Provided \in BOOLEAN /\ NONE \notin Int
      BY EditAssumption DEF IInv, TypeOK, Id
    <2> QED
      BY <2>1, <2>2, <2>3 DEF ServiceId, FromService, GeneratesId, Joined, PageId
  <1>11. Joined'
    BY <1>10 DEF Joined
  <1>12. NoneEarly'
    <2>1. session' # NONE
      BY <1>1, NewId, EditAssumption DEF Id
    <2> QED
      BY <2>1 DEF NoneEarly
  <1>13. FunnelJoins'
    BY <1>1, <1>10 DEF FInv, NoneEarly, FunnelJoins
  <1>14. FunnelRight
    BY <1>1 DEF FunnelRight
  <1> QED
    BY <1>5, <1>6, <1>7, <1>8, <1>9, <1>11, <1>12, <1>13, <1>14 DEF FInv

LEMMA SurfaceSteps ==
    ASSUME IInv, FInv, EditorReady \/ FullPage
    PROVE  FInv' /\ FunnelRight /\ FunnelJoins'
  <1>1. /\ SurfaceReady /\ UNCHANGED <<sections, resolved, target, ending>>
        /\ phase # "closed" /\ phase' \notin {"closed", "opening"} /\ target > 0
    BY DEF EditorReady, FullPage, Stays, Ready, Goes, vars, FInv, InUse
  <1>2. IdsKept
    BY SameSession, SameIds DEF EditorReady, FullPage, vars, handlerVars, history, featureVars
  <1>3. TargetKept /\ FunnelRight
    BY <1>1, SurfaceReadyStep
  <1>4. Undecided'
    <2>1. ~handlers'[target].saved /\ ~handlers'[target].abandoned
      <3>1. CASE Starts(handlers[target])
        BY <1>1, <3>1, SurfaceReadyStep
      <3>2. CASE ~Starts(handlers[target])
        <4>1. handlers'[target].saved = handlers[target].saved
              /\ handlers'[target].abandoned = handlers[target].abandoned
          BY <1>1, <3>2, SurfaceReadyStep
        <4>2. target \in Target
          BY <1>1, TargetInUse
        <4>3. CASE ~resolved
          BY <4>1, <4>2, <4>3, NewTold DEF FInv, Unused
        <4>4. CASE sections
          BY <1>1, <4>1, <4>4 DEF FInv, Undecided
        <4> QED
          BY <3>2, <4>3, <4>4 DEF Starts
      <3> QED
        BY <3>1, <3>2
    <2> QED
      BY <1>1, <2>1 DEF Undecided
  <1>5. Decided'
    BY <1>1 DEF Decided
  <1>6. SNext
    BY DEF SNext
  <1> QED
    BY <1>1, <1>2, <1>3, <1>4, <1>5, <1>6, Together

LEMMA ChangeSteps ==
    ASSUME IInv, FInv, Changes \/ ChangesAgain
    PROVE  FInv' /\ FunnelRight /\ FunnelJoins'
  <1>1. /\ Transact /\ UNCHANGED <<sections, resolved, target, ending>>
        /\ phase = "open" /\ phase' = "open" /\ target > 0
    BY DEF Changes, ChangesAgain, Stays, FirstChange, Goes, vars, FInv, InUse
  <1>2. IdsKept
    BY SameSession, SameIds DEF Changes, ChangesAgain, vars, handlerVars, history, featureVars
  <1>3. /\ TargetKept /\ FunnelRight
        /\ handlers'[target].saved = handlers[target].saved
        /\ handlers'[target].abandoned = handlers[target].abandoned
    BY <1>1, TransactStep
  <1>4. Undecided' /\ Decided'
    BY <1>1, <1>3 DEF FInv, Undecided, Decided
  <1>5. SNext
    BY DEF SNext
  <1> QED
    BY <1>1, <1>2, <1>3, <1>4, <1>5, Together

LEMMA EndSteps ==
    ASSUME IInv, FInv, Saves \/ Leaves
    PROVE  FInv' /\ FunnelRight /\ FunnelJoins'
  <1>1. /\ UNCHANGED <<sections, resolved, target>>
        /\ phase # "closed" /\ phase' = "closed" /\ target > 0
    BY DEF Saves, Leaves, SaveSuccess, Abort, Goes, FInv, InUse
  <1>2. IdsKept
    BY SameSession, SameIds DEF Saves, Leaves
  <1>3. /\ TargetKept /\ FunnelRight
        /\ ending' \notin {"opening", "saving"} =>
               (handlers'[target].ready # NONE =>
                    handlers'[target].saved \/ handlers'[target].abandoned)
    <2>1. CASE Saves
      BY <1>1, <2>1, SaveStep DEF Saves, SaveSuccess, Goes
    <2>2. CASE Leaves
      BY <1>1, <2>2, TeardownStep DEF Leaves
    <2> QED
      BY <2>1, <2>2
  <1>4. Undecided' /\ Decided'
    BY <1>1, <1>3 DEF Undecided, Decided
  <1>5. SNext
    BY DEF SNext
  <1> QED
    BY <1>1, <1>2, <1>3, <1>4, <1>5, Together

LEMMA SuggestionStep ==
    ASSUME IInv, FInv, SuggestionUse
    PROVE  FInv' /\ FunnelRight /\ FunnelJoins'
  <1>1. /\ phase # "closed" /\ FeatureUse("suggestion") /\ "suggestion" \in Kind
        /\ UNCHANGED <<sections, resolved, target, ending, handlers, story>>
        /\ \A e \in funnel' : e.action = "suggestion"
    BY DEF SuggestionUse, Stays, Suggested, Silent, Event, Kind
  <1>2. IdsKept /\ UNCHANGED phase
    BY <1>1, UseIds, Opening
  <1>3. TargetKept
    BY <1>1, Untold DEF TargetKept, FInv, FunnelType, Unused
  <1>4. FunnelRight
    BY <1>1 DEF FunnelRight
  <1>5. Undecided' /\ Decided'
    BY <1>1, <1>2, SameOutcome
  <1>6. SNext /\ target > 0
    BY <1>1 DEF SNext, FInv, InUse
  <1> QED
    BY <1>1, <1>2, <1>3, <1>4, <1>5, <1>6, Together

LEMMA OtherStep ==
    ASSUME IInv, FInv, OtherEvent
    PROVE  FInv' /\ FunnelRight /\ FunnelJoins'
  <1>1. UNCHANGED <<sections, resolved, target, ending, handlers>> /\ Silent
    BY DEF OtherEvent, Stays
  <1>2. /\ IdsKept
        /\ \/ UNCHANGED phase
           \/ phase \notin {"closed", "opening"} /\ phase' # "closed"
    <2>1. CASE Loaded \/ SaveIntent \/ SaveAttempt \/ SaveFailure \/ Switch
      BY <2>1, SameSession, SameIds DEF Loaded, SaveIntent, SaveAttempt, SaveFailure, Switch, Goes
    <2>2. CASE CaptchaOpens
      BY <2>2, CaptchaIds
    <2>3. CASE FeatureUse("other")
      BY <2>3, UseIds DEF Kind
    <2>4. CASE Advance
      BY <2>4, SameIds DEF Advance, handlerVars, history, featureVars
    <2> QED
      BY <2>1, <2>2, <2>3, <2>4 DEF OtherEvent
  <1>3. TargetKept /\ FunnelRight
    BY <1>1, Quiet
  <1>4. Undecided' /\ Decided'
    BY <1>1, <1>2, SameOutcome
  <1>5. SNext /\ (phase' # "closed" \/ ending' # NONE => target > 0)
    BY <1>1, <1>2 DEF SNext, FInv, InUse
  <1> QED
    BY <1>1, <1>2, <1>3, <1>4, <1>5, Together

LEMMA TimerStep ==
    ASSUME IInv, FInv, NEW t \in Target, Qualifies(t)
    PROVE  FInv' /\ FunnelRight /\ FunnelJoins'
  <1>1. UNCHANGED <<vars, sections, resolved, target, ending>>
    BY DEF Qualifies
  <1>2. UNCHANGED <<phase, session, attempt, ids, lastSessionId, uses>>
    BY <1>1 DEF vars, handlerVars, history, featureVars
  <1>3. IdsKept
    BY <1>2, SameIds
  <1>4. TargetKept /\ FunnelRight
    BY QualifyStep
  <1>5. Undecided' /\ Decided'
    <2>1. CASE target > 0
      <3>1. /\ handlers'[target].saved = handlers[target].saved
            /\ handlers'[target].abandoned = handlers[target].abandoned
            /\ handlers'[target].ready = handlers[target].ready
        BY <2>1, TargetInUse, QualifyStep
      <3> QED
        BY <1>1, <1>2, <3>1 DEF FInv, Undecided, Decided
    <2>2. CASE ~(target > 0)
      BY <1>1, <1>2, <2>2 DEF FInv, InUse, Undecided, Decided
    <2> QED
      BY <2>1, <2>2
  <1>6. SNext /\ (phase' # "closed" \/ ending' # NONE => target > 0)
    BY <1>1, <1>2 DEF SNext, FInv, InUse
  <1> QED
    BY <1>1, <1>3, <1>4, <1>5, <1>6, Together

LEMMA ResolveStep ==
    ASSUME IInv, FInv, Resolve
    PROVE  FInv' /\ FunnelRight /\ FunnelJoins'
  <1>1. /\ UNCHANGED <<vars, handlers, sections, target, ending, story>>
        /\ ~resolved /\ resolved' = TRUE
        /\ \A e \in funnel' : e.action = "suggestion"
    BY DEF Resolve, Subscription, Suggested, Event
  <1>2. UNCHANGED <<phase, session, attempt, ids, lastSessionId, uses>>
    BY <1>1 DEF vars, handlerVars, history, featureVars
  <1>3. IdsKept
    BY <1>2, SameIds
  <1>4. FunnelRight
    BY <1>1 DEF FunnelRight
  <1>5. Undecided' /\ Decided'
    BY <1>1, <1>2, SameOutcome
  <1>6. FunnelType' /\ TargetsTold' /\ Unused' /\ InUse'
    BY <1>1, <1>2, Untold DEF FInv, FunnelType, Unused, InUse, Target
  <1>7. SNext
    BY DEF SNext
  <1> QED
    BY <1>3, <1>4, <1>5, <1>6, <1>7, TokensJoin DEF FInv, IdsKept

LEMMA FunnelNext ==
    ASSUME IInv, FInv, SNext
    PROVE  FInv' /\ FunnelRight /\ FunnelJoins'
  BY OpenEditorStep, SurfaceSteps, ChangeSteps, EndSteps, SuggestionStep, OtherStep, TimerStep,
     ResolveStep DEF SNext

(* An abort of the last step tells whether the first change was sent.      *)
AbortsCalled ==
    \A e \in funnel : e.action = "abort" =>
        e.subtype = IF story[e.target].first_change = 1 THEN "abandon" ELSE "nochange"

LEMMA FunnelInit ==
    ASSUME SInit
    PROVE  FInv /\ AbortsCalled /\ FunnelJoins
  <1>1. MaxAttempts \in Nat /\ QUALIFY \in Nat /\ NONE \notin Int
    BY EditAssumption, QualifyAssumption
  <1>2. NewHandlers \in Handlers
    BY DEF NewHandlers, Handlers
  <1>3. /\ handlers \in [Target -> Handlers] /\ \A t \in Target : handlers[t] = NewHandlers
        /\ story \in [Target -> [FunnelAction -> Nat]]
        /\ \A t \in Target : \A a \in FunnelAction : story[t][a] = 0
    BY <1>2 DEF SInit, FunnelAction
  <1>4. FunnelType
    <2>1. target \in 0..attempt
      <3>1. target = 0 /\ attempt = 0
        BY DEF SInit, Init
      <3> QED
        BY <3>1
    <2>2. sections \in BOOLEAN /\ resolved \in BOOLEAN
      <3>1. sections \in BOOLEAN /\ resolved = FALSE
        BY DEF SInit
      <3> QED
        BY <3>1
    <2> QED
      BY <1>3, <2>1, <2>2 DEF FunnelType
  <1>5. TargetsTold
    BY <1>3 DEF TargetsTold, Told, NewHandlers, FunnelAction
  <1>6. Unused /\ InUse /\ Undecided /\ Decided
    BY <1>3 DEF SInit, Init, Unused, InUse, Undecided, Decided
  <1>7. Joined
    BY DEF SInit, Init, Joined
  <1>8. NoneEarly
    <2>1. DOMAIN uses = {}
      BY EmptySeq DEF SInit, Init
    <2> QED
      BY <2>1 DEF NoneEarly, Suggestions
  <1>9. AbortsCalled /\ FunnelJoins
    BY DEF SInit, AbortsCalled, FunnelJoins
  <1> QED
    BY <1>4, <1>5, <1>6, <1>7, <1>8, <1>9 DEF FInv

LEMMA FunnelSame ==
    ASSUME FInv, AbortsCalled, FunnelJoins, UNCHANGED allVars
    PROVE  FInv' /\ AbortsCalled' /\ FunnelJoins'
  <1>1. UNCHANGED <<sections, resolved, target, handlers, story, ending, funnel, phase, session, attempt,
                    ids, lastSessionId, uses>>
    BY DEF allVars, suggestionVars, vars, handlerVars, history, featureVars
  <1>2. TargetsTold'
    BY <1>1, Untold
  <1> QED
    BY <1>1, <1>2 DEF FInv, FunnelType, Unused, InUse, Undecided, Decided, Joined, NoneEarly,
                      Suggestions, AbortsCalled, FunnelJoins, Target

FunnelInv == FInv /\ AbortsCalled /\ FunnelJoins

(* What the funnel's variables say of its session holds over any number of *)
(* attempts and targets, whenever the experiment is resolved.              *)
THEOREM FunnelInvariant == SSpec => []FunnelInv
  <1>1. SInit => FunnelInv
    BY FunnelInit DEF FunnelInv
  <1>2. IInv /\ FunnelInv /\ [SNext]_allVars => FunnelInv'
    BY FunnelNext, FunnelSame DEF FunnelInv, FunnelRight, AbortsCalled
  <1>3. SSpec => []IInv
    BY CompositionImplements, Invariant, PTL
  <1> QED
    BY <1>1, <1>2, <1>3, PTL DEF SSpec

(* At most one first change and one outcome is sent of a session, and a    *)
(* session that was started has its outcome when it is over.               *)
THEOREM OutcomeOnce == SSpec => []OneOutcome
  <1>1. IInv /\ FunnelInv => OneOutcome
    <2> SUFFICES ASSUME IInv, FunnelInv PROVE OneOutcome
      OBVIOUS
    <2>1. ASSUME NEW t \in Target
          PROVE  /\ story[t].first_change <= 1 /\ story[t].abort + story[t].edit_saved <= 1
                 /\ story[t].exposure = 1 => handlers[t].ready # NONE
                 /\ handlers[t].saved \/ handlers[t].abandoned =>
                        story[t].abort + story[t].edit_saved = 1
      BY DEF FunnelInv, FInv, TargetsTold, Told
    <2>2. ASSUME phase = "closed", ending \notin {NONE, "opening", "saving"},
                 story[target].exposure = 1
          PROVE  story[target].abort + story[target].edit_saved = 1
      <3>1. target > 0 /\ (handlers[target].ready # NONE =>
                               handlers[target].saved \/ handlers[target].abandoned)
        BY <2>2 DEF FunnelInv, FInv, InUse, Decided
      <3>2. target \in Target
        BY <3>1, TargetInUse DEF FunnelInv
      <3> QED
        BY <2>1, <2>2, <3>1, <3>2
    <2> QED
      BY <2>1, <2>2 DEF FunnelInv, AbortsCalled, OneOutcome
  <1>2. SSpec => []IInv
    BY CompositionImplements, Invariant, PTL
  <1> QED
    BY <1>1, <1>2, FunnelInvariant, PTL

(* The funnel's token is the session id while the first attempt lasts.     *)
THEOREM FunnelsJoin == SSpec => []FunnelJoins
  BY FunnelInvariant, PTL DEF FunnelInv

(* A session is qualified once, in time, and not after its abort.          *)
THEOREM QualifiedOnce == SSpec => QualifiedRight
  <1>1. IInv /\ FunnelInv /\ [SNext]_allVars =>
            [\A e \in funnel' : e.action = "session_qualified" =>
                /\ e.since >= QUALIFY
                /\ story[e.target].abort = 0 /\ story[e.target].session_qualified = 0]_allVars
    BY FunnelNext DEF FunnelInv, FunnelRight
  <1>2. SSpec => []IInv
    BY CompositionImplements, Invariant, PTL
  <1> QED
    BY <1>1, <1>2, FunnelInvariant, PTL DEF SSpec, QualifiedRight
=============================================================================
