---------------------------- MODULE SessionTick ----------------------------
(***************************************************************************)
(* modules/ext.wikimediaEvents/sessionTick.js: the regulator that each     *)
(* page of an origin runs to measure the length of the user's session.     *)
(*                                                                         *)
(* Every tab has its own timers; the tabs share two localStorage entries.  *)
(* A timer is the time left until it is due, NONE when it is not armed and *)
(* negative when it is late: the event loop runs a due timer at most       *)
(* MAX_DELAY late.  Tabs take turns on one event loop, so a run() is one   *)
(* step.                                                                   *)
(*                                                                         *)
(* quiet, start, emitted and sent are history: they say what happened, for *)
(* the properties, and no action reads them.                               *)
(***************************************************************************)
EXTENDS Integers

CONSTANTS
    Tab,         \* the tabs that can show a page of the origin
    NONE,        \* an unarmed timer
    TICK,        \* TICK_MS
    IDLE,        \* IDLE_MS
    RESET,       \* RESET_MS
    DEBOUNCE,    \* DEBOUNCE_MS
    MAX_DELAY,   \* how late a due timer can run
    MaxPending,  \* bound on the idle callbacks a tab has pending
    MaxNow       \* bound on the clock

ASSUME TimeAssumption ==
    /\ TICK \in Nat \ {0} /\ IDLE \in Nat \ {0} /\ RESET \in Nat \ {0} /\ DEBOUNCE \in Nat \ {0}
    /\ TICK <= RESET
    /\ MAX_DELAY \in Nat /\ MaxPending \in Nat /\ MaxNow \in Nat
    /\ NONE \notin Int

VARIABLES
    now,           \* Date.now()
    lastTime,      \* the entry KEY_LAST_TIME, 0 when absent
    count,         \* the entry KEY_COUNT, 0 when absent
    loaded,        \* the tabs whose regulator runs
    hidden,        \* the tabs whose document.hidden is true
    tick,          \* tickTimeout of each tab
    idle,          \* idleTimeout
    debounce,      \* debounceTimeout
    pending,       \* per tab, the calls mw.requestIdleCallback( setActive )
                   \* that have not run
    threw,         \* sessionTick has thrown
    start, emitted, sent,          \* history of the session: its start, the tick
                                   \* numbers submitted and how many were submitted
    quiet                          \* history: for how long no page was active

store == <<lastTime, count, start, emitted, sent, threw>>
timers == <<tick, idle, debounce>>
vars == <<now, store, loaded, hidden, timers, pending, quiet>>

\* Mutant of TICK_LIMIT: computed from the wrong delay.
IDLE_LIMIT == (IDLE + TICK - 1) \div TICK

\* The most ticks that could be sent at once
TICK_LIMIT == (RESET + TICK - 1) \div TICK

(***************************************************************************)
(* run(), sessionReset() and sessionTick(): what a run does to the shared  *)
(* entries and which ticks it submits.                                     *)
(***************************************************************************)
gap == now - lastTime

\* Mutant of NewSession: a gap of more than one tick resets.
NewSessionEarly ==
    /\ gap > TICK
    /\ lastTime' = now
    /\ count' = 1
    /\ start' = now
    /\ emitted' = {0}
    /\ sent' = 1
    /\ UNCHANGED threw

NewSession ==
    /\ gap > RESET
    /\ lastTime' = now
    /\ count' = 1
    /\ start' = now
    /\ emitted' = {0}
    /\ sent' = 1
    /\ UNCHANGED threw

\* Mutants of Ticks: one tick too many, the remainder of the gap dropped, the
\* last tick time not written, no upper bound on the gap.
TicksWith(incr, last, upper) ==
    /\ gap <= upper
    /\ gap > TICK
    /\ lastTime' = last
    /\ count' = count + incr
    /\ emitted' = emitted \cup count .. (count + incr - 1)
    /\ sent' = sent + incr
    /\ UNCHANGED <<start, threw>>

TicksOneMore ==
    /\ gap \in TICK + 1 .. RESET
    /\ lastTime' = now - (gap % TICK)
    /\ count' = count + gap \div TICK
    /\ emitted' = emitted \cup count .. (count + gap \div TICK)
    /\ sent' = sent + gap \div TICK + 1
    /\ UNCHANGED <<start, threw>>

TicksDrifting  == TicksWith(gap \div TICK, now, RESET)
TicksForgotten == TicksWith(gap \div TICK, lastTime, RESET)
TicksUnbounded == TicksWith(gap \div TICK, now - (gap % TICK), MaxNow)

\* An exception would also keep run() from arming the timer; there is none
\* (LimitNeverExceeded).
Ticks ==
    LET incr == gap \div TICK
    IN  /\ gap <= RESET
        /\ gap > TICK
        /\ lastTime' = now - (gap % TICK)
        /\ IF incr > TICK_LIMIT
           THEN /\ threw' = TRUE
                /\ UNCHANGED <<count, emitted, sent>>
           ELSE /\ count' = count + incr
                /\ emitted' = emitted \cup count .. (count + incr - 1)
                /\ sent' = sent + incr
                /\ UNCHANGED threw
        /\ UNCHANGED start

TooSoon ==
    /\ gap <= TICK
    /\ UNCHANGED store

Run == NewSession \/ Ticks \/ TooSoon

(***************************************************************************)
(* The regulator's functions for tab t                                     *)
(***************************************************************************)
\* Mutant of setInactive: the tick timer goes on.
setInactiveTicking(t) ==
    /\ idle' = [idle EXCEPT ![t] = NONE]
    /\ debounce' = [debounce EXCEPT ![t] = NONE]
    /\ UNCHANGED tick

setInactive(t) ==
    /\ idle' = [idle EXCEPT ![t] = NONE]
    /\ tick' = [tick EXCEPT ![t] = NONE]
    /\ debounce' = [debounce EXCEPT ![t] = NONE]

setActive(t) ==
    /\ \/ /\ tick[t] = NONE
          /\ Run
          /\ tick' = [tick EXCEPT ![t] = TICK]
       \/ /\ tick[t] # NONE
          /\ UNCHANGED <<store, tick>>
    /\ idle' = [idle EXCEPT ![t] = IDLE]
    /\ quiet' = 0

(***************************************************************************)
(* Events                                                                  *)
(***************************************************************************)
Due(timer, t) == timer[t] # NONE /\ timer[t] <= 0

\* The page finishes loading, visible or in a background tab.
LoadVisible(t) ==
    /\ t \notin loaded
    /\ loaded' = loaded \cup {t}
    /\ hidden' = hidden \ {t}
    /\ setActive(t)
    /\ UNCHANGED <<now, debounce, pending>>

LoadHidden(t) ==
    /\ t \notin loaded
    /\ loaded' = loaded \cup {t}
    /\ hidden' = hidden \cup {t}
    /\ setInactive(t)
    /\ UNCHANGED <<now, store, pending, quiet>>

\* The tab is closed or navigates away: its callbacks die with the page.
Unload(t) ==
    /\ t \in loaded
    /\ loaded' = loaded \ {t}
    /\ setInactive(t)
    /\ pending' = [pending EXCEPT ![t] = 0]
    /\ UNCHANGED <<now, store, hidden, quiet>>

\* click, keyup or scroll: setActiveDebounce, which ignores the event while
\* the debounce timer is armed.
UserEvent(t) ==
    /\ t \in loaded \ hidden
    /\ debounce[t] = NONE
    /\ pending[t] < MaxPending
    /\ debounce' = [debounce EXCEPT ![t] = DEBOUNCE]
    /\ pending' = [pending EXCEPT ![t] = @ + 1]
    /\ UNCHANGED <<now, store, loaded, hidden, tick, idle, quiet>>

DebounceTimeout(t) ==
    /\ Due(debounce, t)
    /\ debounce' = [debounce EXCEPT ![t] = NONE]
    /\ UNCHANGED <<now, store, loaded, hidden, tick, idle, pending, quiet>>

IdleCallback(t) ==
    /\ pending[t] > 0
    /\ pending' = [pending EXCEPT ![t] = @ - 1]
    /\ setActive(t)
    /\ UNCHANGED <<now, loaded, hidden, debounce>>

TickTimeout(t) ==
    /\ Due(tick, t)
    /\ Run
    /\ tick' = [tick EXCEPT ![t] = TICK]
    /\ UNCHANGED <<now, loaded, hidden, idle, debounce, pending, quiet>>

IdleTimeout(t) ==
    /\ Due(idle, t)
    /\ setInactive(t)
    /\ UNCHANGED <<now, store, loaded, hidden, pending, quiet>>

\* visibilitychange
Hide(t) ==
    /\ t \in loaded \ hidden
    /\ hidden' = hidden \cup {t}
    /\ setInactive(t)
    /\ UNCHANGED <<now, store, loaded, pending, quiet>>

Show(t) ==
    /\ t \in loaded \cap hidden
    /\ hidden' = hidden \ {t}
    /\ setActive(t)
    /\ UNCHANGED <<now, loaded, debounce, pending>>

\* Time passes, unless a timer would become later than MAX_DELAY.
Elapse(timer) == [t \in Tab |-> IF timer[t] = NONE THEN NONE ELSE timer[t] - 1]
Pressing(timer) == \E t \in Tab : timer[t] # NONE /\ timer[t] <= -MAX_DELAY

Advance ==
    /\ now < MaxNow
    /\ ~(Pressing(tick) \/ Pressing(idle) \/ Pressing(debounce))
    /\ now' = now + 1
    /\ tick' = Elapse(tick)
    /\ idle' = Elapse(idle)
    /\ debounce' = Elapse(debounce)
    /\ quiet' = IF \E t \in Tab : tick[t] # NONE THEN 0 ELSE quiet + 1
    /\ UNCHANGED <<store, loaded, hidden, pending>>

(***************************************************************************)
(* Specification.  The clock starts late enough for the absent entry       *)
(* KEY_LAST_TIME, read as 0, to look older than RESET.                     *)
(***************************************************************************)
NoTimer == [t \in Tab |-> NONE]

Init ==
    /\ now = RESET + 1
    /\ lastTime = 0 /\ count = 0
    /\ loaded = {} /\ hidden = {}
    /\ tick = NoTimer /\ idle = NoTimer /\ debounce = NoTimer
    /\ pending = [t \in Tab |-> 0]
    /\ threw = FALSE
    /\ start = 0 /\ emitted = {} /\ sent = 0 /\ quiet = 0

TabEvent(t) ==
    \/ LoadVisible(t) \/ LoadHidden(t) \/ Unload(t)
    \/ Hide(t) \/ Show(t) \/ UserEvent(t)
    \/ DebounceTimeout(t) \/ IdleCallback(t) \/ TickTimeout(t) \/ IdleTimeout(t)

Next == (\E t \in Tab : TabEvent(t)) \/ Advance

Spec == Init /\ [][Next]_vars

(***************************************************************************)
(* Properties                                                              *)
(***************************************************************************)
Timer(max) == [Tab -> {NONE} \cup -MAX_DELAY .. max]

TypeOK ==
    /\ now \in Nat /\ lastTime \in Nat /\ count \in Nat
    /\ loaded \subseteq Tab /\ hidden \subseteq Tab
    /\ tick \in Timer(TICK) /\ idle \in Timer(IDLE) /\ debounce \in Timer(DEBOUNCE)
    /\ pending \in [Tab -> 0..MaxPending]
    /\ threw \in BOOLEAN
    /\ start \in Nat /\ emitted \subseteq Nat /\ sent \in Nat /\ quiet \in Nat

(* The ticks of a session are numbered 0, 1, 2, ... and each number is     *)
(* submitted once, whichever tabs submitted them and however many a run    *)
(* caught up with.                                                         *)
EachTickOnce ==
    /\ emitted = 0 .. count - 1
    /\ sent = count

(* Tick n stands for n whole periods: catching up keeps the remainder of   *)
(* the gap, so the last tick time never drifts from the session's start.   *)
NoDrift == count > 0 => lastTime = start + (count - 1) * TICK

(* TICK_LIMIT is high enough for every gap that is not a reset, also when  *)
(* RESET is not a multiple of TICK: sessionTick never throws.              *)
LimitNeverExceeded == ~threw

(* A page that ticks is a page that will stop ticking: the tick timer is   *)
(* armed exactly when the timer that ends it is.                           *)
TickingPageIdlesOut == \A t \in Tab : tick[t] # NONE <=> idle[t] # NONE

(* While some page is active the count lags the clock by no more than two  *)
(* periods and one delay, and afterwards by the quiet time on top of that. *)
CountLag == count > 0 => now - lastTime <= quiet + 2 * TICK + MAX_DELAY

Resets == count > 0 /\ start' # start

(* A session ends only after a long quiet time.  The definition in the     *)
(* header of the file asks for RESET; the code falls short of it by up to  *)
(* two periods, because it measures from the last tick and not from the    *)
(* last activity.                                                          *)
ResetNeedsQuiet == [][Resets => quiet > RESET - (2 * TICK + MAX_DELAY)]_vars

(* A quiet time longer than RESET always ends the session: a page that     *)
(* becomes active after it starts a new one.                               *)
QuietEndsSession ==
    [][(\E t \in Tab : tick[t] = NONE /\ tick'[t] # NONE) /\ quiet > RESET => start' = now]_vars
=============================================================================
