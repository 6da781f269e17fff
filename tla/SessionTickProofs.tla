------------------------- MODULE SessionTickProofs -------------------------
(***************************************************************************)
(* Proofs about SessionTick for any set of tabs and any delays.            *)
(*                                                                         *)
(* The inductive invariant has three parts.  StoreInv is about the shared  *)
(* entries alone: what a run() finds and leaves.  TimerInv is about the    *)
(* timers of each tab.  LagInv ties them together: a tab whose tick timer  *)
(* has r left ran TICK - r ago, and a run leaves a gap of at most TICK.    *)
(***************************************************************************)
EXTENDS SessionTick, TLAPS

StoreInv ==
    /\ now \in Nat /\ lastTime \in Nat /\ count \in Nat /\ start \in Nat /\ sent \in Nat
    /\ now > RESET
    /\ lastTime <= now
    /\ threw = FALSE
    /\ EachTickOnce
    /\ NoDrift
    /\ count = 0 => lastTime = 0

TimerInv ==
    /\ loaded \subseteq Tab /\ hidden \subseteq Tab
    /\ tick \in Timer(TICK) /\ idle \in Timer(IDLE) /\ debounce \in Timer(DEBOUNCE)
    /\ pending \in [Tab -> 0..MaxPending]
    /\ TickingPageIdlesOut

LagInv ==
    /\ quiet \in Nat
    /\ quiet <= now - lastTime
    /\ \A t \in Tab : tick[t] # NONE =>
          quiet = 0 /\ count > 0 /\ now - lastTime <= 2 * TICK - tick[t]
    /\ CountLag

IInv == StoreInv /\ TimerInv /\ LagInv

(***************************************************************************)
(* Arithmetic of a gap                                                     *)
(***************************************************************************)
LEMMA DivMod ==
    ASSUME NEW g \in Nat, NEW d \in Nat \ {0}
    PROVE  /\ g \div d \in Nat /\ g % d \in 0 .. d - 1
           /\ g = d * (g \div d) + (g % d)
  BY SMT

LEMMA NonNegative ==
    ASSUME NEW a \in Nat, NEW b \in Nat, a <= b
    PROVE  0 <= b - a
  OBVIOUS

(* No gap within RESET holds more than TICK_LIMIT ticks.                   *)
LEMMA LimitSuffices ==
    ASSUME NEW g \in Nat, g <= RESET
    PROVE  g \div TICK <= TICK_LIMIT
  <1> DEFINE q == g \div TICK
             l == (RESET + TICK - 1) \div TICK
  <1>1. TICK \in Nat \ {0} /\ RESET \in Nat
    BY TimeAssumption
  <1>2. q \in Nat /\ TICK * q <= g
    BY <1>1, DivMod
  <1>3. l \in Nat /\ TICK * l + TICK > RESET + TICK - 1
    BY <1>1, DivMod
  <1> HIDE DEF q, l
  <1>4. TICK * q <= TICK * l + TICK - 1 + 0
    BY <1>1, <1>2, <1>3
  <1>5. ASSUME q >= l + 1 PROVE FALSE
    <2>1. TICK * q >= TICK * (l + 1)
      BY <1>1, <1>2, <1>3, <1>5
    <2>2. TICK * (l + 1) = TICK * l + TICK
      BY <1>1, <1>3
    <2> QED
      BY <1>1, <1>2, <1>3, <1>4, <2>1, <2>2
  <1> QED
    BY <1>2, <1>3, <1>5 DEF q, l, TICK_LIMIT

(***************************************************************************)
(* What run() does to the shared entries                                   *)
(***************************************************************************)
LEMMA RunFacts ==
    ASSUME StoreInv, Run, now' = now
    PROVE  /\ StoreInv'
           /\ lastTime <= lastTime'
           /\ now - lastTime' <= TICK
           /\ count' > 0
  <1>1. TICK \in Nat \ {0} /\ RESET \in Nat /\ TICK <= RESET
    BY TimeAssumption
  <1>2. gap \in Nat /\ now \in Nat /\ lastTime \in Nat /\ now = lastTime + gap
    BY DEF StoreInv, gap
  <1>3. CASE NewSession
    BY <1>1, <1>2, <1>3 DEF NewSession, StoreInv, EachTickOnce, NoDrift
  <1>4. CASE TooSoon
    BY <1>1, <1>2, <1>4 DEF TooSoon, store, StoreInv, EachTickOnce, NoDrift, gap
  <1>5. CASE Ticks
    <2> DEFINE q == gap \div TICK
    <2>1. q \in Nat /\ gap % TICK \in 0 .. TICK - 1 /\ gap = TICK * q + (gap % TICK)
      BY <1>1, <1>2, DivMod
    <2>2. q <= TICK_LIMIT
      BY <1>2, <1>5, LimitSuffices DEF Ticks
    <2>3. /\ lastTime' = now - (gap % TICK)
          /\ count' = count + q
          /\ emitted' = emitted \cup count .. (count + q - 1)
          /\ sent' = sent + q
          /\ threw' = threw /\ start' = start
      BY <1>5, <2>1, <2>2, <1>1 DEF Ticks, TICK_LIMIT
    <2>4. gap > TICK
      BY <1>5 DEF Ticks
    <2> HIDE DEF q
    <2>5. q > 0
      BY <1>1, <2>1, <2>4
    <2>6. count > 0
      BY <1>1, <1>5 DEF Ticks, StoreInv, gap
    <2>7. lastTime' = lastTime + TICK * q
      <3>1. gap % TICK \in Int /\ TICK * q \in Int
        BY <1>1, <2>1
      <3> QED
        BY <1>2, <2>1, <2>3, <3>1
    <2>8. EachTickOnce'
      BY <2>1, <2>3, <2>5 DEF EachTickOnce, StoreInv
    <2>9. NoDrift'
      <3>1. lastTime = start + (count - 1) * TICK
        BY <2>6 DEF StoreInv, NoDrift
      <3>2. (count - 1) * TICK + TICK * q = (count + q - 1) * TICK
        BY <1>1, <2>1 DEF StoreInv
      <3> QED
        BY <1>1, <2>1, <2>3, <2>7, <3>1, <3>2 DEF StoreInv, NoDrift
    <2> QED
      BY <1>1, <1>2, <2>1, <2>3, <2>5, <2>6, <2>7, <2>8, <2>9 DEF StoreInv
  <1> QED
    BY <1>3, <1>4, <1>5 DEF Run
(***************************************************************************)
(* The regulator's functions                                               *)
(***************************************************************************)
LEMMA UnchangedStore ==
    ASSUME StoreInv, UNCHANGED store, now' = now
    PROVE  StoreInv'
  BY DEF store, StoreInv, EachTickOnce, NoDrift

(* Arming the tick timer of t with TICK after a run.                       *)
LEMMA ArmAfterRun ==
    ASSUME IInv, NEW t \in Tab, Run, now' = now, quiet' = quiet \/ quiet' = 0,
           quiet' = 0 \/ tick[t] # NONE,
           tick' = [tick EXCEPT ![t] = TICK]
    PROVE  StoreInv' /\ LagInv' /\ tick' \in Timer(TICK)
  <1>1. /\ StoreInv' /\ lastTime <= lastTime' /\ now - lastTime' <= TICK /\ count' > 0
    BY RunFacts DEF IInv
  <1>2. TICK \in Nat \ {0} /\ MAX_DELAY \in Nat /\ NONE \notin Int
    BY TimeAssumption
  <1>3. tick \in Timer(TICK) /\ tick' \in Timer(TICK)
    BY <1>2 DEF IInv, TimerInv, Timer
  <1>4. quiet' = 0
    BY DEF IInv, LagInv
  <1>5. now \in Nat /\ lastTime \in Nat /\ lastTime' \in Nat /\ lastTime' <= now
    BY <1>1 DEF StoreInv, IInv
  <1>6. ASSUME NEW u \in Tab, tick'[u] # NONE
        PROVE  quiet' = 0 /\ count' > 0 /\ now' - lastTime' <= 2 * TICK - tick'[u]
    <2>1. CASE u = t
      <3>1. tick'[u] = TICK
        BY <1>3, <2>1 DEF Timer
      <3>2. now' - lastTime' <= TICK /\ 2 * TICK - TICK = TICK
        BY <1>1, <1>2
      <3> QED
        BY <1>1, <1>4, <3>1, <3>2
    <2>2. CASE u # t
      <3>1. tick'[u] = tick[u] /\ tick[u] \in Int
        BY <1>3, <1>6, <2>2 DEF Timer
      <3>2. now - lastTime <= 2 * TICK - tick[u]
        BY <1>6, <3>1 DEF IInv, LagInv
      <3> QED
        BY <1>1, <1>2, <1>4, <1>5, <3>1, <3>2
    <2> QED
      BY <2>1, <2>2
  <1>7. CountLag'
    <2>1. now' - lastTime' <= TICK /\ TICK <= 0 + 2 * TICK + MAX_DELAY
      BY <1>1, <1>2
    <2>2. now' - lastTime' \in Int
      BY <1>5
    <2>3. now' - lastTime' <= 0 + 2 * TICK + MAX_DELAY
      BY <1>2, <2>1, <2>2
    <2> QED
      BY <1>4, <2>3 DEF CountLag
  <1>8. quiet' <= now' - lastTime'
    <2>1. now' \in Nat /\ lastTime' \in Nat /\ lastTime' <= now'
      BY <1>1, <1>5
    <2>2. 0 <= now' - lastTime'
      BY <2>1, NonNegative
    <2> QED
      BY <1>4, <2>2
  <1> QED
    <2>1. LagInv'
      BY <1>4, <1>6, <1>7, <1>8 DEF LagInv
    <2> QED
      BY <1>1, <1>3, <2>1

LEMMA SetActiveInv ==
    ASSUME IInv, NEW t \in Tab, setActive(t), now' = now
    PROVE  /\ StoreInv' /\ LagInv'
           /\ tick' \in Timer(TICK) /\ idle' \in Timer(IDLE)
           /\ TickingPageIdlesOut'
  <1>1. IDLE \in Nat /\ TICK \in Nat /\ MAX_DELAY \in Nat /\ NONE \notin Int
    BY TimeAssumption
  <1>2. idle' = [idle EXCEPT ![t] = IDLE] /\ quiet' = 0
    BY DEF setActive
  <1>3. tick \in Timer(TICK) /\ idle \in Timer(IDLE)
    BY DEF IInv, TimerInv
  <1>4. idle' \in Timer(IDLE) /\ idle'[t] # NONE
    BY <1>1, <1>2, <1>3 DEF Timer
  <1>5. CASE tick[t] = NONE
    <2>1. Run /\ tick' = [tick EXCEPT ![t] = TICK]
      BY <1>5 DEF setActive
    <2>2. StoreInv' /\ LagInv' /\ tick' \in Timer(TICK)
      BY <1>2, <2>1, ArmAfterRun
    <2>3. TickingPageIdlesOut'
      BY <1>1, <1>2, <1>3, <2>1 DEF TickingPageIdlesOut, Timer, IInv, TimerInv
    <2> QED
      BY <1>4, <2>2, <2>3
  <1>6. CASE tick[t] # NONE
    <2>1. UNCHANGED store /\ tick' = tick
      BY <1>6 DEF setActive
    <2>2. StoreInv'
      BY <2>1, UnchangedStore DEF IInv
    <2>3. quiet = 0
      BY <1>6 DEF IInv, LagInv
    <2>4. LagInv'
      BY <1>2, <2>1, <2>3 DEF IInv, LagInv, CountLag, store
    <2>5. TickingPageIdlesOut'
      BY <1>1, <1>2, <1>3, <1>6, <2>1 DEF TickingPageIdlesOut, Timer, IInv, TimerInv
    <2> QED
      BY <1>3, <1>4, <2>1, <2>2, <2>4, <2>5
  <1> QED
    BY <1>5, <1>6

LEMMA SetInactiveInv ==
    ASSUME IInv, NEW t \in Tab, setInactive(t), now' = now, quiet' = quiet, UNCHANGED store
    PROVE  /\ StoreInv' /\ LagInv'
           /\ tick' \in Timer(TICK) /\ idle' \in Timer(IDLE) /\ debounce' \in Timer(DEBOUNCE)
           /\ TickingPageIdlesOut'
  <1>1. StoreInv'
    BY UnchangedStore DEF IInv
  <1>2. tick \in Timer(TICK) /\ idle \in Timer(IDLE) /\ debounce \in Timer(DEBOUNCE)
    BY DEF IInv, TimerInv
  <1>3. tick' \in Timer(TICK) /\ idle' \in Timer(IDLE) /\ debounce' \in Timer(DEBOUNCE)
    BY <1>2 DEF setInactive, Timer
  <1>4. \A u \in Tab : tick'[u] = (IF u = t THEN NONE ELSE tick[u])
    BY <1>2 DEF setInactive, Timer
  <1>5. \A u \in Tab : idle'[u] = (IF u = t THEN NONE ELSE idle[u])
    BY <1>2 DEF setInactive, Timer
  <1>6. LagInv'
    BY <1>4 DEF IInv, LagInv, CountLag, store
  <1>7. TickingPageIdlesOut'
    BY <1>4, <1>5 DEF IInv, TimerInv, TickingPageIdlesOut
  <1> QED
    BY <1>1, <1>3, <1>6, <1>7

(***************************************************************************)
(* The invariant of the specification                                      *)
(***************************************************************************)
THEOREM InitIInv == Init => IInv
  <1> SUFFICES ASSUME Init PROVE IInv
    OBVIOUS
  <1>1. /\ RESET \in Nat /\ TICK \in Nat /\ MAX_DELAY \in Nat /\ MaxPending \in Nat
    BY TimeAssumption
  <1>2. StoreInv
    BY <1>1 DEF Init, StoreInv, EachTickOnce, NoDrift
  <1>3. TimerInv
    BY <1>1 DEF Init, TimerInv, Timer, NoTimer, TickingPageIdlesOut
  <1>4. LagInv
    BY <1>1 DEF Init, LagInv, CountLag, NoTimer
  <1> QED
    BY <1>2, <1>3, <1>4 DEF IInv

(* Every step of every tab keeps IInv.                                      *)
THEOREM NextIInv == IInv /\ [Next]_vars => IInv'
  <1> SUFFICES ASSUME IInv, [Next]_vars PROVE IInv'
    OBVIOUS
  <1>1. ASSUME NEW t \in Tab, LoadVisible(t) PROVE IInv'
    <2>1. setActive(t) /\ now' = now
      BY <1>1 DEF LoadVisible
    <2> QED
      BY <1>1, <2>1, SetActiveInv DEF LoadVisible, IInv, TimerInv
  <1>2. ASSUME NEW t \in Tab, LoadHidden(t) PROVE IInv'
    <2>1. setInactive(t) /\ now' = now /\ quiet' = quiet /\ UNCHANGED store
      BY <1>2 DEF LoadHidden
    <2> QED
      BY <1>2, <2>1, SetInactiveInv DEF LoadHidden, IInv, TimerInv
  <1>3. ASSUME NEW t \in Tab, Unload(t) PROVE IInv'
    <2>1. setInactive(t) /\ now' = now /\ quiet' = quiet /\ UNCHANGED store
      BY <1>3 DEF Unload
    <2>2. pending' \in [Tab -> 0..MaxPending]
      BY <1>3, TimeAssumption DEF Unload, IInv, TimerInv
    <2> QED
      BY <1>3, <2>1, <2>2, SetInactiveInv DEF Unload, IInv, TimerInv
  <1>4. ASSUME NEW t \in Tab, UserEvent(t) PROVE IInv'
    <2>1. StoreInv'
      BY <1>4, UnchangedStore DEF UserEvent, IInv
    <2>2. LagInv'
      BY <1>4 DEF UserEvent, IInv, LagInv, CountLag, store
    <2>3. debounce' \in Timer(DEBOUNCE) /\ pending' \in [Tab -> 0..MaxPending]
      BY <1>4, TimeAssumption DEF UserEvent, IInv, TimerInv, Timer
    <2> QED
      BY <1>4, <2>1, <2>2, <2>3 DEF UserEvent, IInv, TimerInv, TickingPageIdlesOut
  <1>5. ASSUME NEW t \in Tab, DebounceTimeout(t) PROVE IInv'
    <2>1. StoreInv'
      BY <1>5, UnchangedStore DEF DebounceTimeout, IInv
    <2>2. LagInv'
      BY <1>5 DEF DebounceTimeout, IInv, LagInv, CountLag, store
    <2>3. debounce' \in Timer(DEBOUNCE)
      BY <1>5 DEF DebounceTimeout, IInv, TimerInv, Timer
    <2> QED
      BY <1>5, <2>1, <2>2, <2>3 DEF DebounceTimeout, IInv, TimerInv, TickingPageIdlesOut
  <1>6. ASSUME NEW t \in Tab, IdleCallback(t) PROVE IInv'
    <2>1. setActive(t) /\ now' = now
      BY <1>6 DEF IdleCallback
    <2>2. pending' \in [Tab -> 0..MaxPending]
      BY <1>6, TimeAssumption DEF IdleCallback, IInv, TimerInv
    <2> QED
      BY <1>6, <2>1, <2>2, SetActiveInv DEF IdleCallback, IInv, TimerInv
  <1>7. ASSUME NEW t \in Tab, TickTimeout(t) PROVE IInv'
    <2>1. tick[t] # NONE /\ Run /\ now' = now /\ quiet' = quiet /\ tick' = [tick EXCEPT ![t] = TICK]
      BY <1>7 DEF TickTimeout, Due
    <2>2. StoreInv' /\ LagInv' /\ tick' \in Timer(TICK)
      BY <2>1, ArmAfterRun
    <2>3. TickingPageIdlesOut'
      BY <1>7, <2>1, TimeAssumption DEF TickTimeout, IInv, TimerInv, TickingPageIdlesOut, Timer
    <2> QED
      BY <1>7, <2>2, <2>3 DEF TickTimeout, IInv, TimerInv
  <1>8. ASSUME NEW t \in Tab, IdleTimeout(t) PROVE IInv'
    <2>1. setInactive(t) /\ now' = now /\ quiet' = quiet /\ UNCHANGED store
      BY <1>8 DEF IdleTimeout
    <2> QED
      BY <1>8, <2>1, SetInactiveInv DEF IdleTimeout, IInv, TimerInv
  <1>9. ASSUME NEW t \in Tab, Hide(t) PROVE IInv'
    <2>1. setInactive(t) /\ now' = now /\ quiet' = quiet /\ UNCHANGED store
      BY <1>9 DEF Hide
    <2> QED
      BY <1>9, <2>1, SetInactiveInv DEF Hide, IInv, TimerInv
  <1>10. ASSUME NEW t \in Tab, Show(t) PROVE IInv'
    <2>1. setActive(t) /\ now' = now
      BY <1>10 DEF Show
    <2> QED
      BY <1>10, <2>1, SetActiveInv DEF Show, IInv, TimerInv
  <1>11. CASE Advance
    <2>1. /\ now' = now + 1 /\ UNCHANGED <<store, loaded, hidden, pending>>
          /\ tick' = Elapse(tick) /\ idle' = Elapse(idle) /\ debounce' = Elapse(debounce)
          /\ ~Pressing(tick) /\ ~Pressing(idle) /\ ~Pressing(debounce)
      BY <1>11 DEF Advance
    <2>2. StoreInv'
      <3>1. UNCHANGED <<lastTime, count, start, emitted, sent, threw>>
        BY <2>1 DEF store
      <3>2. now' \in Nat /\ now' > RESET /\ lastTime' <= now'
        BY <2>1, <3>1, TimeAssumption DEF IInv, StoreInv
      <3> QED
        BY <3>1, <3>2 DEF IInv, StoreInv, EachTickOnce, NoDrift
    <2>3. ASSUME NEW timer, NEW max \in Nat, timer \in Timer(max), ~Pressing(timer)
          PROVE  Elapse(timer) \in Timer(max)
      BY <2>3, TimeAssumption DEF Elapse, Timer, Pressing
    <2>4. tick' \in Timer(TICK) /\ idle' \in Timer(IDLE) /\ debounce' \in Timer(DEBOUNCE)
      BY <2>1, <2>3, TimeAssumption DEF IInv, TimerInv
    <2>5. \A t \in Tab : /\ tick'[t] = NONE <=> tick[t] = NONE
                         /\ idle'[t] = NONE <=> idle[t] = NONE
      BY <2>1, TimeAssumption DEF Elapse, IInv, TimerInv, Timer
    <2>6. TickingPageIdlesOut'
      BY <2>5 DEF IInv, TimerInv, TickingPageIdlesOut
    <2>7. ASSUME NEW t \in Tab, tick'[t] # NONE
          PROVE  /\ tick[t] # NONE /\ tick'[t] = tick[t] - 1
                 /\ tick[t] \in Int /\ tick'[t] >= -MAX_DELAY
      BY <2>1, <2>4, <2>7, TimeAssumption DEF Elapse, IInv, TimerInv, Timer
    <2>8. now \in Nat /\ lastTime \in Nat /\ lastTime' = lastTime /\ count' = count /\ quiet \in Nat
      BY <2>1 DEF IInv, StoreInv, LagInv, store
    <2>9. \A t \in Tab : tick'[t] # NONE =>
             quiet' = 0 /\ count' > 0 /\ now' - lastTime' <= 2 * TICK - tick'[t]
      <3>1. SUFFICES ASSUME NEW t \in Tab, tick'[t] # NONE
                     PROVE  quiet' = 0 /\ count' > 0 /\ now' - lastTime' <= 2 * TICK - tick'[t]
        OBVIOUS
      <3>2. tick[t] # NONE /\ tick'[t] = tick[t] - 1 /\ tick[t] \in Int
        BY <2>7, <3>1
      <3>3. count > 0 /\ now - lastTime <= 2 * TICK - tick[t]
        BY <3>2 DEF IInv, LagInv
      <3>4. quiet' = 0
        BY <1>11, <3>2 DEF Advance
      <3> QED
        BY <2>1, <2>8, <3>2, <3>3, <3>4, TimeAssumption
    <2>10. CASE \E t \in Tab : tick[t] # NONE
      <3>1. PICK t \in Tab : tick[t] # NONE
        BY <2>10
      <3>2. tick'[t] # NONE
        BY <2>5, <3>1
      <3>3. quiet' = 0 /\ count' > 0 /\ now' - lastTime' <= 2 * TICK - tick'[t] /\ tick'[t] >= -MAX_DELAY
            /\ tick'[t] \in Int
        BY <2>7, <2>9, <3>2
      <3>4. CountLag'
        BY <2>1, <2>8, <3>3, TimeAssumption DEF CountLag
      <3>5. lastTime <= now
        BY DEF IInv, StoreInv
      <3> QED
        BY <2>1, <2>2, <2>4, <2>6, <2>8, <2>9, <3>3, <3>4, <3>5 DEF IInv, TimerInv, LagInv
    <2>11. CASE ~ \E t \in Tab : tick[t] # NONE
      <3>1. quiet' = quiet + 1
        BY <1>11, <2>11 DEF Advance
      <3>2. CountLag' /\ quiet' <= now' - lastTime'
        BY <2>1, <2>8, <3>1, TimeAssumption DEF CountLag, IInv, LagInv
      <3> QED
        BY <2>1, <2>2, <2>4, <2>6, <2>8, <2>9, <3>1, <3>2 DEF IInv, TimerInv, LagInv
    <2> QED
      BY <2>10, <2>11
  <1>12. CASE UNCHANGED vars
    BY <1>12 DEF vars, store, timers, IInv, StoreInv, TimerInv, LagInv, EachTickOnce, NoDrift,
                 TickingPageIdlesOut, CountLag
  <1> QED
    BY <1>1, <1>2, <1>3, <1>4, <1>5, <1>6, <1>7, <1>8, <1>9, <1>10, <1>11, <1>12
       DEF Next, TabEvent

(* IInv holds for any number of tabs.                                       *)
THEOREM InvariantIInv == Spec => []IInv
  BY InitIInv, NextIInv, PTL DEF Spec

(* Type correctness.                                                       *)
THEOREM TypeCorrect == Spec => []TypeOK
  <1>1. IInv => TypeOK
    <2> SUFFICES ASSUME IInv PROVE TypeOK
      OBVIOUS
    <2>2. emitted \subseteq Nat
      BY DEF IInv, StoreInv, EachTickOnce
    <2>3. threw \in BOOLEAN
      BY DEF IInv, StoreInv
    <2>4. /\ now \in Nat /\ lastTime \in Nat /\ count \in Nat
          /\ start \in Nat /\ sent \in Nat /\ quiet \in Nat
      BY DEF IInv, StoreInv, LagInv
    <2>5. /\ loaded \subseteq Tab /\ hidden \subseteq Tab
          /\ tick \in Timer(TICK) /\ idle \in Timer(IDLE) /\ debounce \in Timer(DEBOUNCE)
          /\ pending \in [Tab -> 0..MaxPending]
      BY DEF IInv, TimerInv
    <2> QED
      BY <2>2, <2>3, <2>4, <2>5 DEF TypeOK
  <1> QED
    BY <1>1, InvariantIInv, PTL

(* For any number of tabs and any delays, every tick number of a session   *)
(* is submitted once.                                                      *)
THEOREM TicksExact == Spec => []EachTickOnce
  <1>1. IInv => EachTickOnce
    BY DEF IInv, StoreInv
  <1> QED
    BY <1>1, InvariantIInv, PTL

(* Catching up never drifts from the start of the session.                 *)
THEOREM TicksAligned == Spec => []NoDrift
  <1>1. IInv => NoDrift
    BY DEF IInv, StoreInv
  <1> QED
    BY <1>1, InvariantIInv, PTL

(* The exception of sessionTick() is unreachable.                          *)
THEOREM NeverThrows == Spec => []LimitNeverExceeded
  <1>1. IInv => LimitNeverExceeded
    BY DEF IInv, StoreInv, LimitNeverExceeded
  <1> QED
    BY <1>1, InvariantIInv, PTL

(* While a page is active the count lags the clock by a bounded time.      *)
THEOREM LagBounded == Spec => []CountLag
  <1>1. IInv => CountLag
    BY DEF IInv, LagInv
  <1> QED
    BY <1>1, InvariantIInv, PTL

(* Whatever hides, shows, events and callbacks come, the tick timer is     *)
(* armed only together with the timer that ends it (setActive and          *)
(* setInactive, sessionTick.js:176-190).                                   *)
THEOREM NoEndlessTicking == Spec => []TickingPageIdlesOut
  <1>1. IInv => TickingPageIdlesOut
    BY DEF IInv, TimerInv
  <1> QED
    BY <1>1, InvariantIInv, PTL

(***************************************************************************)
(* Action properties                                                       *)
(***************************************************************************)

(* Only a run can change the session.                                      *)
LEMMA OnlyRunResets ==
    ASSUME [Next]_vars, start' # start
    PROVE  NewSession
  <1>1. ASSUME NEW t \in Tab, setActive(t) PROVE NewSession
    BY <1>1 DEF setActive, Run, Ticks, TooSoon, store
  <1>2. ASSUME NEW t \in Tab, TabEvent(t) PROVE NewSession
    <2>1. CASE LoadVisible(t) \/ IdleCallback(t) \/ Show(t)
      BY <1>1, <2>1 DEF LoadVisible, IdleCallback, Show
    <2>2. CASE TickTimeout(t)
      BY <2>2 DEF TickTimeout, Run, Ticks, TooSoon, store
    <2>3. CASE LoadHidden(t) \/ Unload(t) \/ Hide(t) \/ UserEvent(t) \/ DebounceTimeout(t) \/ IdleTimeout(t)
      BY <2>3 DEF LoadHidden, Unload, Hide, UserEvent, DebounceTimeout, IdleTimeout, store
    <2> QED
      BY <1>2, <2>1, <2>2, <2>3 DEF TabEvent
  <1>3. ~Advance /\ ~UNCHANGED vars
    BY DEF Advance, vars, store
  <1> QED
    BY <1>2, <1>3 DEF Next

(* A session is ended by a reset only after a quiet time of RESET less two *)
(* periods and a delay (run, sessionTick.js:159-174).                      *)
THEOREM ResetAfterQuiet == Spec => ResetNeedsQuiet
  <1>1. IInv /\ [Next]_vars => (Resets => quiet > RESET - (2 * TICK + MAX_DELAY))
    <2> SUFFICES ASSUME IInv, [Next]_vars, Resets
                 PROVE  quiet > RESET - (2 * TICK + MAX_DELAY)
      OBVIOUS
    <2>1. now - lastTime > RESET
      BY OnlyRunResets DEF Resets, NewSession, gap
    <2>2. now - lastTime <= quiet + 2 * TICK + MAX_DELAY
      BY DEF IInv, LagInv, CountLag, Resets
    <2>3. now \in Nat /\ lastTime \in Nat /\ quiet \in Nat
      BY DEF IInv, StoreInv, LagInv
    <2>4. RESET \in Nat /\ TICK \in Nat /\ MAX_DELAY \in Nat
      BY TimeAssumption
    <2> QED
      BY <2>1, <2>2, <2>3, <2>4
  <1> QED
    BY <1>1, InvariantIInv, PTL DEF Spec, ResetNeedsQuiet

(* A page that becomes active after a quiet time longer than RESET starts  *)
(* a new session (setActive and run, sessionTick.js:159-190).              *)
THEOREM NewSessionAfterQuiet == Spec => QuietEndsSession
  <1>1. ASSUME IInv, [Next]_vars, NEW t \in Tab, tick[t] = NONE, tick'[t] # NONE, quiet > RESET
        PROVE  start' = now
    <2>1. tick \in Timer(TICK)
      BY <1>1 DEF IInv, TimerInv
    <2>2. quiet \in Nat /\ quiet <= now - lastTime /\ now \in Nat /\ lastTime \in Nat
      BY <1>1 DEF IInv, LagInv, StoreInv
    <2>3. RESET \in Nat /\ TICK \in Nat \ {0} /\ TICK <= RESET
      BY TimeAssumption
    <2>4. gap > RESET /\ ~(gap <= RESET) /\ ~(gap <= TICK)
      BY <1>1, <2>2, <2>3 DEF gap
    <2>5. ASSUME NEW u \in Tab, setActive(u) PROVE start' = now
      <3>1. Run
        BY <1>1, <2>1, <2>5 DEF setActive, Timer
      <3> QED
        BY <2>4, <3>1 DEF Run, NewSession, Ticks, TooSoon
    <2>6. ASSUME NEW u \in Tab, TabEvent(u) PROVE start' = now
      <3>1. CASE LoadVisible(u) \/ IdleCallback(u) \/ Show(u)
        BY <2>5, <3>1 DEF LoadVisible, IdleCallback, Show
      <3>2. CASE TickTimeout(u)
        BY <1>1, <2>1, <3>2 DEF TickTimeout, Due, Timer
      <3>3. CASE LoadHidden(u) \/ Unload(u) \/ Hide(u) \/ IdleTimeout(u)
        BY <1>1, <2>1, <3>3 DEF LoadHidden, Unload, Hide, IdleTimeout, setInactive, Timer
      <3>4. CASE UserEvent(u) \/ DebounceTimeout(u)
        BY <1>1, <3>4 DEF UserEvent, DebounceTimeout
      <3> QED
        BY <2>6, <3>1, <3>2, <3>3, <3>4 DEF TabEvent
    <2>7. ~Advance
      BY <1>1 DEF Advance, Elapse
    <2>8. ~UNCHANGED vars
      BY <1>1 DEF vars, timers
    <2> QED
      BY <1>1, <2>6, <2>7, <2>8 DEF Next
  <1>2. IInv /\ [Next]_vars =>
          ((\E t \in Tab : tick[t] = NONE /\ tick'[t] # NONE) /\ quiet > RESET => start' = now)
    BY <1>1
  <1> QED
    BY <1>2, InvariantIInv, PTL DEF Spec, QuietEndsSession
=============================================================================
