---------------------------- MODULE EditAttempt ----------------------------
(***************************************************************************)
(* modules/ext.wikimediaEvents/editAttemptStep.js, with its session ids    *)
(* from editingSessionService.js, and hCaptcha.js, which emits into it: a  *)
(* page on which an editor is opened, used and closed any number of times. *)
(*                                                                         *)
(* The editor is not part of the repository.  Its protocol, one action per *)
(* event it tracks, is what the handler's branches and comments tell of    *)
(* it: every attempt begins with init, a switch of modes is an abort of    *)
(* type switchnochange followed by ready and loaded and no init, any other *)
(* abort and saveSuccess end the attempt.                                  *)
(*                                                                         *)
(* Uses of VisualEditor's features are tracked by VisualEditor, in an      *)
(* editor or in another feature that embeds it.                            *)
(*                                                                         *)
(* attempt, began, idOf, logged, answered, useIds and out are history.     *)
(***************************************************************************)
EXTENDS Integers, Sequences

CONSTANTS
    NONE,        \* undefined
    Provided,    \* the page has a session id of its own (config, URL or form)
    MaxAttempts, \* bound on the attempts
    MaxIds,      \* bound on the session ids generated
    MaxUses,     \* bound on the uses of features
    MaxNow       \* bound on mw.now()

ASSUME EditAssumption ==
    /\ Provided \in BOOLEAN
    /\ MaxAttempts \in Nat /\ MaxIds \in Nat
    /\ MaxUses \in Nat /\ MaxNow \in Nat \ {0}
    /\ NONE \notin Int \cup STRING

VARIABLES
    now,            \* mw.now()
    session,        \* session.editing_session_id, NONE before the first event
    firstInitDone,
    timing,         \* the time of each action, NONE when undefined
    lastSessionId,  \* of the session service
    ids,            \* number of ids generated
    phase, edited,  \* the editor: what it is doing, whether a change was made
    uses,           \* mw.track's queue of visualEditorFeatureUse: kind and attempt
    useIds,         \* history: the session ids that each use was logged with
    attempt, began, \* history: number of the attempt and when it began
    idOf,           \* history: the session id at the init of each attempt
    logged,         \* history: the ready and loaded events of this attempt
    answered,       \* history: a save was answered since timing was emptied
    out             \* history: the events logged by the last step

handlerVars == <<session, firstInitDone, timing, lastSessionId, ids>>
history == <<attempt, began, idOf, logged, answered>>
featureVars == <<uses, useIds>>
vars == <<now, handlerVars, featureVars, phase, edited, history, out>>

PageId == 0
Kind == {"suggestion", "other"}
Action == {"init", "ready", "loaded", "firstChange", "saveIntent", "saveAttempt",
           "saveFailure", "saveSuccess", "abort"}
NoTiming == [a \in Action |-> NONE]

(***************************************************************************)
(* getEditingSessionId() without arguments                                 *)
(***************************************************************************)
GeneratesId(generates) ==
    /\ generates => ids < MaxIds
    /\ ids' = IF generates THEN ids + 1 ELSE ids

ServiceId == IF Provided THEN PageId ELSE ids + 1

FromService ==
    /\ GeneratesId(~Provided)
    /\ lastSessionId' = IF Provided THEN lastSessionId ELSE ServiceId

(***************************************************************************)
(* editAttemptStepHandler                                                  *)
(***************************************************************************)

\* Mutant of abortType: a save under way is not looked for.
abortTypeUnsaved(type) ==
    IF type \notin {"unknown", "unknown-edited"} THEN type
    ELSE IF timing["init"] # NONE /\ timing["ready"] = NONE THEN "preinit"
    ELSE IF type = "unknown" THEN "nochange" ELSE "abandon"

\* Fill in abort type based on previous events
abortType(type) ==
    IF type \notin {"unknown", "unknown-edited"} THEN type
    ELSE IF timing["saveAttempt"] # NONE /\ timing["saveSuccess"] = NONE /\ timing["saveFailure"] = NONE
         THEN "abandonMidsave"
    ELSE IF timing["init"] # NONE /\ timing["ready"] = NONE THEN "preinit"
    ELSE IF type = "unknown" THEN "nochange" ELSE "abandon"

\* The action that the duration of a step is relative to.
Since(action, type) ==
    CASE action \in {"ready", "loaded"} -> "init"
      [] action \in {"firstChange", "saveIntent"} -> "ready"
      [] action = "saveAttempt" -> "saveIntent"
      [] action = "abort" /\ type = "preinit" -> "init"
      [] action = "abort" /\ type = "abandonMidsave" -> "saveAttempt"
      [] action = "abort" /\ type \notin {"preinit", "abandonMidsave"} -> "ready"

\* -1 where there is nothing to be relative to; the caller times a save.
computeDuration(action, type) ==
    IF action = "init" THEN 0
    ELSE IF action \in {"saveSuccess", "saveFailure"} THEN -1
    ELSE IF timing[Since(action, type)] = NONE THEN -1
    ELSE now - timing[Since(action, type)]

\* Mutant of newTiming: an abort leaves the timings of its attempt.
keptTiming(action, type) == [timing EXCEPT ![action] = now]

newTiming(action, type) ==
    IF action = "abort" /\ type # "switchnochange" THEN NoTiming
    ELSE [timing EXCEPT ![action] = now]

\* Mutant of Suppressed: only the abort of a switch is.
AbortSuppressed(action, type) == action = "abort" /\ type = "switchnochange"

\* Events of a switch are not logged; loaded ends the switch.
Suppressed(action, type) ==
    \/ action = "abort" /\ type = "switchnochange"
    \/ newTiming(action, type)["abort"] # NONE /\ action \in {"ready", "loaded"}

\* Mutant of NewSession: the test of firstInitDone inverted.
FirstIsNew(action) == action = "init" /\ ~firstInitDone

\* Start a new session if this isn't the first init event
NewSession(action) == action = "init" /\ firstInitDone

handle(action, reported) ==
    LET type    == IF action = "abort" THEN abortType(reported) ELSE NONE
        first   == session = NONE
        id      == IF NewSession(action) THEN ids + 1 ELSE IF first THEN ServiceId ELSE session
        timed   == newTiming(action, type)
        logs    == ~Suppressed(action, type)
    IN  /\ session' = id
        /\ firstInitDone' = (firstInitDone \/ action = "init")
        /\ timing' = IF action = "loaded" THEN [timed EXCEPT !["abort"] = NONE] ELSE timed
        /\ out' = IF logs THEN {[action |-> action, type |-> type, id |-> id,
                                 duration |-> computeDuration(action, type)]} ELSE {}
        /\ attempt' = IF action = "init" THEN attempt + 1 ELSE attempt
        /\ began' = IF action = "init" THEN now ELSE began
        /\ idOf' = IF action = "init" THEN [idOf EXCEPT ![attempt'] = id] ELSE idOf
        /\ logged' = CASE action = "init" -> [ready |-> 0, loaded |-> 0]
                       [] action \in {"ready", "loaded"} /\ logs -> [logged EXCEPT ![action] = @ + 1]
                       [] OTHER -> logged
        /\ answered' = CASE timing' = NoTiming -> FALSE
                         [] action \in {"saveSuccess", "saveFailure"} -> TRUE
                         [] OTHER -> answered
        /\ UNCHANGED now

(***************************************************************************)
(* visualEditorFeatureUse: the first event of editAttemptStep subscribes   *)
(* the handler, which mw.track then calls with all earlier uses too.       *)
(***************************************************************************)
\* Mutant of Subscribes: every init subscribes.
SubscribesAgain(action) == session = NONE \/ action = "init"

Subscribes(action) == session = NONE

Subscribe(action) ==
    /\ useIds' = IF Subscribes(action)
                  THEN [u \in 1..MaxUses |->
                           IF u \in DOMAIN uses THEN Append(useIds[u], session') ELSE <<>>]
                  ELSE useIds
    /\ UNCHANGED uses

\* mw.track( 'visualEditorFeatureUse', ... )
TrackUse(kind) ==
    /\ Len(uses) < MaxUses
    /\ uses' = Append(uses, [kind |-> kind, attempt |-> attempt])
    /\ useIds' = [useIds EXCEPT ![Len(uses) + 1] = IF session = NONE THEN <<>> ELSE <<session>>]

\* mw.track( 'editAttemptStep', ... ): the first event takes an id from the
\* service, a later init generates one without it.
Track(action, reported) ==
    /\ handle(action, reported)
    /\ Subscribe(action)
    /\ IF session = NONE THEN FromService
       ELSE /\ GeneratesId(NewSession(action))
            /\ UNCHANGED lastSessionId

(***************************************************************************)
(* The editor's events                                                     *)
(***************************************************************************)
Goes(from, to) == phase \in from /\ phase' = to

EditorInit ==
    /\ Goes({"closed"}, "opening")
    /\ attempt < MaxAttempts
    /\ Track("init", NONE)
    /\ edited' = FALSE

Ready == Goes({"opening"}, "ready") /\ Track("ready", NONE) /\ UNCHANGED edited

Loaded == Goes({"ready"}, "open") /\ Track("loaded", NONE) /\ UNCHANGED edited

FirstChange ==
    /\ ~edited /\ edited' = TRUE
    /\ Goes({"open"}, "open")
    /\ Track("firstChange", NONE)

SaveIntent ==
    /\ edited
    /\ Goes({"open", "failed"}, "reviewing")
    /\ Track("saveIntent", NONE)
    /\ UNCHANGED edited

SaveAttempt ==
    /\ Goes({"reviewing", "failed"}, "saving")
    /\ Track("saveAttempt", NONE)
    /\ UNCHANGED edited

SaveFailure ==
    /\ Goes({"saving"}, "failed")
    /\ Track("saveFailure", NONE)
    /\ UNCHANGED edited

SaveSuccess ==
    /\ Goes({"saving"}, "closed")
    /\ Track("saveSuccess", NONE)
    /\ UNCHANGED edited

\* The user leaves the editor, at any point; or switches its mode.
Abort ==
    /\ phase # "closed" /\ phase' = "closed"
    /\ Track("abort", IF edited THEN "unknown-edited" ELSE "unknown")
    /\ UNCHANGED edited

Switch ==
    /\ ~edited
    /\ Goes({"open"}, "opening")
    /\ Track("abort", "switchnochange")
    /\ UNCHANGED edited

\* hCaptcha.js on the render event "open": it tracks a saveFailure, posts the
\* wikitext with an id from the service, not the session's, and tracks a use.
\* What it posts is not an event of editAttemptStep and not in out.
\* The save goes on when the challenge is solved.
CaptchaOpens ==
    /\ phase = "saving"
    /\ handle("saveFailure", NONE)
    /\ FromService
    /\ TrackUse("other")
    /\ UNCHANGED <<phase, edited>>

FeatureUse(kind) ==
    /\ TrackUse(kind)
    /\ out' = {}
    /\ UNCHANGED <<now, handlerVars, phase, edited, history>>

Advance ==
    /\ now < MaxNow
    /\ now' = now + 1
    /\ out' = {}
    /\ UNCHANGED <<handlerVars, featureVars, phase, edited, history>>

Init ==
    /\ now = 1
    /\ session = NONE /\ firstInitDone = FALSE /\ timing = NoTiming
    /\ lastSessionId = NONE /\ ids = 0
    /\ uses = <<>> /\ useIds = [u \in 1..MaxUses |-> <<>>]
    /\ phase = "closed" /\ edited = FALSE
    /\ attempt = 0 /\ began = 1 /\ idOf = [a \in 1..MaxAttempts |-> NONE]
    /\ logged = [ready |-> 0, loaded |-> 0] /\ answered = FALSE
    /\ out = {}

Next ==
    \/ EditorInit \/ Ready \/ Loaded \/ FirstChange
    \/ SaveIntent \/ SaveAttempt \/ SaveFailure \/ SaveSuccess
    \/ Abort \/ Switch
    \/ CaptchaOpens
    \/ \E kind \in Kind : FeatureUse(kind)
    \/ Advance

Spec == Init /\ [][Next]_vars

(***************************************************************************)
(* Properties                                                              *)
(***************************************************************************)
Time == 1..MaxNow
Id == 0..MaxIds
Phase == {"closed", "opening", "ready", "open", "reviewing", "saving", "failed"}

TypeOK ==
    /\ now \in Time
    /\ session \in Id \cup {NONE} /\ lastSessionId \in Id \cup {NONE} /\ ids \in Id
    /\ firstInitDone \in BOOLEAN
    /\ timing \in [Action -> Time \cup {NONE}]
    /\ uses \in Seq([kind : Kind, attempt : 0..MaxAttempts])
    /\ useIds \in [1..MaxUses -> Seq(Id)]
    /\ phase \in Phase /\ edited \in BOOLEAN
    /\ attempt \in 0..MaxAttempts /\ began \in Time
    /\ idOf \in [1..MaxAttempts -> Id \cup {NONE}]
    /\ logged \in [ready : Nat, loaded : Nat] /\ answered \in BOOLEAN
    /\ \A e \in out : e.action \in Action /\ e.duration \in -1 .. MaxNow

(* "Stores data common to all events in an editing session (from opening   *)
(* an editor to saving or cancelling the edit)" (editAttemptStep.js:12-13):*)
(* the events of an attempt carry its id and no other attempt has it.      *)
AttemptsKeepApart ==
    /\ \A e \in out : e.id = idOf[attempt]
    /\ \A a, b \in 1..attempt : a # b => idOf[a] # idOf[b]

(* However often the mode is switched, an attempt logs the first ready and *)
(* the first loaded of its editor and no other, and neither is swallowed   *)
(* by a switch that an earlier attempt did not finish.                     *)
OpenedOnce ==
    /\ logged.ready <= 1 /\ logged.loaded <= 1
    /\ phase \in {"open", "reviewing", "saving", "failed"} => logged = [ready |-> 1, loaded |-> 1]

\* The abort type that the state of the editor calls for.
TrueAbortType(type) ==
    CASE phase = "saving" -> type = "abandonMidsave"
      [] phase = "opening" /\ logged.ready = 0 -> type = "preinit"
      [] OTHER -> type = IF edited THEN "abandon" ELSE "nochange"

AbortsTell(e) == e.action = "abort" => TrueAbortType(e.type)

(* "Only enabled if 'editAttemptStep' events are being logged" (:377-378): *)
(* no use is logged before, and one made in an attempt is logged once,     *)
(* with that attempt's id, however many editors came before.  Nothing is   *)
(* said of uses from before any editor: those "other features that use VE" *)
(* make were not to be logged (:48-50), but mw.trackSubscribe replays them.*)
UsesLoggedOnce ==
    \A u \in DOMAIN uses :
        /\ session = NONE => useIds[u] = <<>>
        /\ uses[u].attempt > 0 => useIds[u] = << idOf[uses[u].attempt] >>

(* The type of an abort tells what the editor was doing, on every page     *)
(* where no save has been answered since the timings were last emptied.    *)
AbortTypeRight == [][~answered => \A e \in out' : AbortsTell(e)]_vars

(* A duration never reaches back into an earlier attempt; for an abort,    *)
(* under the same condition.                                               *)
DurationWithinAttempt ==
    [][\A e \in out' : (e.action = "abort" => ~answered) => e.duration <= now - began]_vars
=============================================================================
