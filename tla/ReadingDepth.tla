---------------------------- MODULE ReadingDepth ----------------------------
(***************************************************************************)
(* The two instruments that time how long a page is visible:               *)
(* modules/ext.wikimediaEvents/readingDepth.js, from the moment it starts  *)
(* to track until the page is unloaded, and universalLanguageSelector.js,  *)
(* from its execution until the interface language is changed.  Both       *)
(* follow the same visibilitychange events, but start at different times.  *)
(*                                                                         *)
(* A page can survive a beforeunload: the user stays, or comes back to it  *)
(* from the browser's cache.                                               *)
(*                                                                         *)
(* seen, shown and out are history; no action reads them.                  *)
(***************************************************************************)
EXTENDS Integers

CONSTANTS
    NULL,    \* null or undefined
    MaxNow   \* bound on performance.now()

ASSUME ClockAssumption == MaxNow \in Nat \ {0} /\ NULL \notin Int

VARIABLES
    now,                      \* performance.now(), mw.now()
    open,                     \* the page is there
    hidden,                   \* document.visibilityState is "hidden"
    visibilityListenersAdded, \* NULL until the page is tracked
    pausedAt, msPaused,       \* of readingDepth.js
    startedAt, hiddenAt, timeHidden, \* of universalLanguageSelector.js
    seen,                     \* history: the visible time since the page is tracked
    shown,                    \* history: the visible time since startedAt
    out                       \* history: the events of the last step

depth == <<visibilityListenersAdded, pausedAt, msPaused>>
uls == <<startedAt, hiddenAt, timeHidden>>
vars == <<now, open, hidden, depth, uls, seen, shown, out>>

tracked == visibilityListenersAdded # NULL

(***************************************************************************)
(* pause() and resume(), onHide() and onShow()                             *)
(***************************************************************************)
pause == pausedAt' = IF pausedAt = NULL THEN now ELSE pausedAt

\* Mutant of resume: the pause is not ended.
resumeStillPaused ==
    /\ msPaused' = IF pausedAt # NULL THEN msPaused + (now - pausedAt) ELSE msPaused
    /\ UNCHANGED pausedAt

resume ==
    /\ msPaused' = IF pausedAt # NULL THEN msPaused + (now - pausedAt) ELSE msPaused
    /\ pausedAt' = NULL

onHide == hiddenAt' = IF hiddenAt = NULL THEN now ELSE hiddenAt

\* Mutant of onShow: only the last hidden time is kept.
onShowLast ==
    /\ timeHidden' = IF hiddenAt # NULL THEN now - hiddenAt ELSE timeHidden
    /\ hiddenAt' = NULL

onShow ==
    /\ timeHidden' = IF hiddenAt # NULL THEN timeHidden + (now - hiddenAt) ELSE timeHidden
    /\ hiddenAt' = NULL

(***************************************************************************)
(* Events                                                                  *)
(***************************************************************************)

\* The idle callback, enableTracking() and onLoad(), in a sampled session.
Track ==
    /\ open /\ ~tracked
    /\ visibilityListenersAdded' = now
    /\ IF hidden THEN pause ELSE UNCHANGED pausedAt
    /\ out' = {[action |-> "pageLoaded"]}
    /\ UNCHANGED <<now, open, hidden, msPaused, uls, seen, shown>>

\* visibilitychange.  Before the page is tracked only the other instrument
\* listens.
Hide ==
    /\ open /\ ~hidden
    /\ hidden' = TRUE
    /\ onHide
    /\ IF tracked THEN pause ELSE UNCHANGED pausedAt
    /\ out' = {}
    /\ UNCHANGED <<now, open, visibilityListenersAdded, msPaused, startedAt, timeHidden, seen, shown>>

Show ==
    /\ open /\ hidden
    /\ hidden' = FALSE
    /\ onShow
    /\ IF tracked THEN resume ELSE UNCHANGED <<pausedAt, msPaused>>
    /\ out' = {}
    /\ UNCHANGED <<now, open, visibilityListenersAdded, startedAt, seen, shown>>

\* beforeunload.  What the event tells does not regard a running pause.
PageUnloaded ==
    LET total == now - visibilityListenersAdded
    IN  [action |-> "pageUnloaded", total_length |-> total, visible_length |-> total - msPaused]

BeforeUnload ==
    /\ open
    /\ open' \in BOOLEAN
    /\ out' = IF tracked THEN {PageUnloaded} ELSE {}
    /\ UNCHANGED <<now, hidden, depth, uls, seen, shown>>

\* interfaceLanguageChange(), by a click on a visible page.
LanguageChange ==
    /\ open /\ ~hidden
    /\ out' = {[action |-> "language-change",
                timeToChangeLanguage |-> now - startedAt - timeHidden]}
    /\ UNCHANGED <<now, open, hidden, depth, uls, seen, shown>>

Advance ==
    /\ now < MaxNow
    /\ now' = now + 1
    /\ seen' = IF tracked /\ ~hidden THEN seen + 1 ELSE seen
    /\ shown' = IF ~hidden THEN shown + 1 ELSE shown
    /\ out' = {}
    /\ UNCHANGED <<open, hidden, depth, uls>>

(***************************************************************************)
(* Specification.  The page may load in a background tab.                  *)
(***************************************************************************)
Init ==
    /\ now = 1 /\ open = TRUE
    /\ hidden \in BOOLEAN
    /\ visibilityListenersAdded = NULL /\ pausedAt = NULL /\ msPaused = 0
    /\ startedAt = 1 /\ timeHidden = 0
    /\ hiddenAt = IF hidden THEN 1 ELSE NULL
    /\ seen = 0 /\ shown = 0 /\ out = {}

Next == Track \/ Hide \/ Show \/ BeforeUnload \/ LanguageChange \/ Advance

Spec == Init /\ [][Next]_vars

(***************************************************************************)
(* Properties                                                              *)
(***************************************************************************)
Time == 0..MaxNow

TypeOK ==
    /\ now \in Time
    /\ open \in BOOLEAN /\ hidden \in BOOLEAN
    /\ visibilityListenersAdded \in Time \cup {NULL}
    /\ pausedAt \in Time \cup {NULL} /\ msPaused \in Time
    /\ startedAt \in Time /\ hiddenAt \in Time \cup {NULL} /\ timeHidden \in Time
    /\ seen \in Time /\ shown \in Time

Unloads == { e \in out : e.action = "pageUnloaded" }

(* "Pause the user's page session length timer" when the page is hidden    *)
(* (:108-109): of a page that is unloaded while visible, visible_length is *)
(* the time that it was visible since it is tracked, over any sequence of  *)
(* hides and shows, and for one that survives and is unloaded again.  A    *)
(* page unloaded while hidden is left out: the code does not take off the  *)
(* pause that runs.                                                        *)
VisibleLengthExact == \A e \in Unloads : ~hidden => e.visible_length = seen

(* timeToChangeLanguage is "the number of milliseconds that the page was   *)
(* visible before the user changed their interface language"               *)
(* (universalLanguageSelector.js:213-214).                                 *)
TimeToChangeExact ==
    \A e \in out : e.action = "language-change" => e.timeToChangeLanguage = shown

=============================================================================
