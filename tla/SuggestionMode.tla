--------------------------- MODULE SuggestionMode ---------------------------
(***************************************************************************)
(* modules/ext.wikimediaEvents/suggestionMode.js beside editAttemptStep.js:*)
(* the funnel of edit suggestions, for a user who is in the experiment.    *)
(* Both follow the same editor; the funnel's token comes from the service  *)
(* that also gave the first session id.                                    *)
(*                                                                         *)
(* An editor is a target.  Where sections can be edited visually, on       *)
(* mobile, each opening has a target of its own and a surface that shows a *)
(* section can be replaced by one with the full page; elsewhere one target *)
(* is opened again and again.  A target reports surfaceReady, save and     *)
(* teardown, and its document transact.                                    *)
(*                                                                         *)
(* story, ending and funnel are history.                                   *)
(***************************************************************************)
EXTENDS EditAttempt

CONSTANT QUALIFY  \* the 2000 ms after which a session is qualified

ASSUME QualifyAssumption == QUALIFY \in Nat \ {0}

VARIABLES
    sections,   \* target.enableVisualSectionEditing
    resolved,   \* experimentPromise is resolved
    target,     \* the number of targets, the last one in use
    handlers,   \* of each target, the variables of its closure
    story,      \* history: of each target, the actions sent since its last start
    ending,     \* history: what the editor was doing when it was last left
    funnel      \* history: the events sent by the last step

suggestionVars == <<sections, resolved, target, handlers, story, ending, funnel>>
allVars == <<vars, suggestionVars>>

Target == 1..MaxAttempts

\* The variables as they are declared; once: the handler that is called once
\* was; listening: the document's transact is waited for.
NewHandlers ==
    [once |-> FALSE, listening |-> FALSE, abandoned |-> FALSE,
     saved |-> FALSE, changed |-> FALSE, ready |-> NONE, timers |-> {}]

(***************************************************************************)
(* Sending                                                                 *)
(***************************************************************************)
\* Mutant of Token: a new id for the funnel.
TokenGenerated(t) == lastSessionId + 1

\* getEditingSessionId( null, true ).  An editor was opened, so the service
\* has an id.
Token(t) == IF Provided THEN PageId ELSE lastSessionId

Event(t, action, subtype) ==
    [action |-> action, subtype |-> subtype, target |-> t, token |-> Token(t),
     since |-> IF handlers[t].ready = NONE THEN NONE ELSE now - handlers[t].ready]

\* The target sends these actions; an exposure begins its story.
Send(t, actions, subtype) ==
    /\ funnel' = {Event(t, a, subtype) : a \in actions}
    /\ story' = [story EXCEPT ![t] =
           [a \in DOMAIN @ |-> (IF "exposure" \in actions THEN 0 ELSE @[a])
                               + (IF a \in actions THEN 1 ELSE 0)]]

Silent == funnel' = {} /\ UNCHANGED story

(***************************************************************************)
(* The handlers of one target                                              *)
(***************************************************************************)
\* Mutants of clearSession: the timer runs on; saved stays.
clearSessionOnly(h) == [h EXCEPT !.saved = FALSE, !.abandoned = FALSE, !.changed = FALSE]
clearSessionSaved(h) == [h EXCEPT !.abandoned = FALSE, !.changed = FALSE, !.timers = {}]

clearSession(h) ==
    [h EXCEPT !.saved = FALSE, !.abandoned = FALSE, !.changed = FALSE, !.timers = {}]

onSessionStart(h) ==
    [clearSession(h) EXCEPT !.ready = now, !.timers = @ \cup {now + QUALIFY}]

\* Clicking "edit" starts a session, switching to the full page does not.
Starts(h) == resolved /\ ~(sections /\ h.once)

SurfaceReady ==
    LET h == handlers[target]
        started == IF Starts(h) THEN onSessionStart(h) ELSE h
    IN  /\ handlers' = [handlers EXCEPT ![target] =
               [started EXCEPT !.once = resolved, !.listening = resolved]]
        /\ IF Starts(h) THEN Send(target, {"exposure"}, NONE) ELSE Silent

\* The once of a document and the test of changed.
FirstOfSession(h) == h.listening /\ ~h.changed

Transact ==
    LET h == handlers[target]
    IN  /\ handlers' = [handlers EXCEPT ![target] =
               [h EXCEPT !.listening = FALSE, !.changed = @ \/ h.listening]]
        /\ IF FirstOfSession(h) THEN Send(target, {"first_change"}, NONE) ELSE Silent

\* target.activating, target.saving or saved
Aborts(h) == resolved /\ phase \notin {"opening", "saving"} /\ ~h.saved

Teardown ==
    LET h == handlers[target]
    IN  IF Aborts(h)
        THEN /\ handlers' = [handlers EXCEPT ![target].abandoned = TRUE]
             /\ Send(target, {"abort"}, IF h.changed THEN "abandon" ELSE "nochange")
        ELSE UNCHANGED handlers /\ Silent

\* The save, and the teardown that follows it.
SaveAndTeardown ==
    LET h == handlers[target]
    IN  IF resolved
        THEN /\ handlers' = [handlers EXCEPT ![target].saved = TRUE]
             /\ Send(target, {"edit_saved"}, NONE)
        ELSE UNCHANGED handlers /\ Silent

\* The callback of setTimeout.
Qualifies(t) ==
    /\ \E due \in handlers[t].timers :
           /\ now >= due
           /\ handlers' = [handlers EXCEPT ![t].timers = @ \ {due}]
    /\ IF handlers[t].abandoned THEN Silent ELSE Send(t, {"session_qualified"}, NONE)
    /\ UNCHANGED <<vars, sections, resolved, target, ending>>

Suggestions == {u \in DOMAIN uses : uses[u].kind = "suggestion"}

\* The subscriber of visualEditorFeatureUse of each target, called with uses.
Suggested(targets, which) ==
    /\ funnel' = {Event(t, "suggestion", u) : t \in targets, u \in which}
    /\ UNCHANGED story

\* Once a target subscribes it is called with all uses of the page.
Subscription(targets, subscribes) ==
    IF subscribes THEN Suggested(targets, Suggestions) ELSE Silent

(***************************************************************************)
(* The editor, with both instruments                                       *)
(***************************************************************************)
Stays == UNCHANGED <<sections, resolved, target, ending>>

\* The hook ve.newTarget comes with a new target.
OpenEditor ==
    /\ EditorInit
    /\ IF sections \/ target = 0
       THEN target' = target + 1 /\ Subscription({target'}, resolved)
       ELSE UNCHANGED target /\ Silent
    /\ UNCHANGED <<handlers, sections, resolved, ending>>

\* The promise of the experiment is answered, which may be late: its
\* callbacks register the handlers of the targets there are.
Resolve ==
    /\ ~resolved /\ resolved' = TRUE
    /\ Subscription(1..target, TRUE)
    /\ UNCHANGED <<vars, handlers, sections, target, ending>>

EditorReady == Ready /\ SurfaceReady /\ Stays

\* The surface of a section is replaced.  Nothing is tracked.
FullPage ==
    /\ sections /\ phase = "open"
    /\ SurfaceReady /\ Stays
    /\ UNCHANGED vars

Changes == FirstChange /\ Transact /\ Stays

\* A further change, after the surface was replaced.
ChangesAgain ==
    /\ sections /\ phase = "open" /\ edited
    /\ Transact /\ Stays
    /\ UNCHANGED vars

Saves ==
    /\ SaveSuccess
    /\ SaveAndTeardown
    /\ ending' = "saved"
    /\ UNCHANGED <<sections, resolved, target>>

Leaves ==
    /\ Abort
    /\ Teardown
    /\ ending' = phase
    /\ UNCHANGED <<sections, resolved, target>>

\* A suggestion is seen, shown, accepted or declined.
SuggestionUse ==
    /\ phase # "closed"
    /\ FeatureUse("suggestion")
    /\ IF resolved THEN Suggested(1..target, {Len(uses')}) ELSE Silent
    /\ UNCHANGED handlers /\ Stays

\* The rest concerns editAttemptStep.js only.
OtherEvent ==
    /\ \/ Loaded \/ SaveIntent \/ SaveAttempt \/ SaveFailure
       \/ Switch
       \/ CaptchaOpens \/ FeatureUse("other")
       \/ Advance
    /\ UNCHANGED handlers /\ Silent /\ Stays

SInit ==
    /\ Init
    /\ sections \in BOOLEAN /\ resolved = FALSE
    /\ target = 0
    /\ handlers = [t \in Target |-> NewHandlers]
    /\ story = [t \in Target |-> [a \in {"exposure", "first_change", "edit_saved", "abort",
                                         "session_qualified"} |-> 0]]
    /\ ending = NONE
    /\ funnel = {}

SNext ==
    \/ OpenEditor \/ EditorReady \/ FullPage
    \/ Changes \/ ChangesAgain \/ Saves \/ Leaves
    \/ SuggestionUse \/ OtherEvent
    \/ \E t \in Target : Qualifies(t)
    \/ Resolve

SSpec == SInit /\ [][SNext]_allVars

(***************************************************************************)
(* Properties                                                              *)
(***************************************************************************)
(* A session is qualified when it has lasted for QUALIFY, once, and not    *)
(* after it was reported as aborted: the timer of a session that is over   *)
(* does not qualify the one that follows it (suggestionMode.js:67-88).     *)
QualifiedRight ==
    [][\A e \in funnel' : e.action = "session_qualified" =>
           /\ e.since >= QUALIFY
           /\ story[e.target].abort = 0 /\ story[e.target].session_qualified = 0]_allVars

(* Of one session at most one first change and one outcome is sent,        *)
(* however often its surface is replaced, and an abort is of type abandon  *)
(* exactly if the first change was sent (:102-131).  A session that was    *)
(* started has its outcome when it is over, unless it was left before its  *)
(* surface was ready or in the middle of a save ("we're ignoring 'preinit' *)
(* or 'abandonMidsave'", :126): also after the target had one saved.       *)
OneOutcome ==
    /\ \A t \in Target : story[t].first_change <= 1 /\ story[t].abort + story[t].edit_saved <= 1
    /\ \A e \in funnel : e.action = "abort" =>
           e.subtype = IF story[e.target].first_change = 1 THEN "abandon" ELSE "nochange"
    /\ phase = "closed" /\ ending \notin {NONE, "opening", "saving"} =>
           (story[target].exposure = 1 => story[target].abort + story[target].edit_saved = 1)

(* During the first attempt the funnel's token is the session id of        *)
(* editAttemptStep.js, which lets the two streams be joined, as long as no *)
(* captcha made the service generate another id.                           *)
FunnelJoins ==
    attempt = 1 /\ ids <= 1 => \A e \in funnel : e.token = session
=============================================================================
