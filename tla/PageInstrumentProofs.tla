------------------------ MODULE PageInstrumentProofs ------------------------
(***************************************************************************)
(* Proofs about the instruments of one page, each on its own:              *)
(* ReadingDepth, Probenet and ClickThroughRate.                            *)
(***************************************************************************)
EXTENDS ReadingDepth, Probenet, ClickThroughRate, SequenceTheorems, WellFoundedInduction,
        TLAPS

(***************************************************************************)
(* ReadingDepth.  Both instruments tell the visible time exactly of a page *)
(* that is visible, however long it is used.  Each keeps an account of the *)
(* time since it began: what was visible, what was hidden and ended, and   *)
(* the hidden time that runs.                                              *)
(***************************************************************************)
(* The hidden time since start, when it is running.                        *)
Running(start) == IF hidden THEN now - start ELSE 0

DepthAccount ==
    /\ ~tracked => pausedAt = NULL /\ msPaused = 0 /\ seen = 0
    /\ tracked =>
        /\ visibilityListenersAdded <= now
        /\ hidden <=> pausedAt # NULL
        /\ hidden => pausedAt <= now
        /\ seen + msPaused + Running(pausedAt) = now - visibilityListenersAdded

UlsAccount ==
    /\ startedAt = 1 /\ startedAt <= now
    /\ hidden <=> hiddenAt # NULL
    /\ hidden => hiddenAt <= now
    /\ shown + timeHidden + Running(hiddenAt) = now - startedAt

DepthInv == TypeOK /\ DepthAccount /\ UlsAccount

(* An instrument is in step with its account when it tells the time.       *)
LEMMA Visible ==
    ASSUME DepthInv, tracked, ~hidden
    PROVE  PageUnloaded.visible_length = seen
  <1>1. /\ now \in Int /\ visibilityListenersAdded \in Int /\ msPaused \in Int /\ seen \in Int
        /\ Running(pausedAt) = 0
    BY ClockAssumption DEF DepthInv, TypeOK, DepthAccount, tracked, Time, Running
  <1>2. seen + msPaused + Running(pausedAt) = now - visibilityListenersAdded
    BY DEF DepthInv, DepthAccount
  <1>3. PageUnloaded.visible_length = now - visibilityListenersAdded - msPaused
    BY DEF PageUnloaded
  <1> QED
    BY <1>1, <1>2, <1>3

LEMMA DepthInitHolds ==
    ASSUME Init
    PROVE  DepthInv /\ VisibleLengthExact /\ TimeToChangeExact
  <1>1. 1 \in Time /\ 0 \in Time /\ NULL \notin Int
    BY ClockAssumption DEF Time
  <1>2. TypeOK
    BY <1>1 DEF Init, TypeOK
  <1>3. DepthAccount /\ UlsAccount
    BY <1>1 DEF Init, DepthAccount, UlsAccount, tracked, Running
  <1> QED
    BY <1>2, <1>3 DEF Init, DepthInv, VisibleLengthExact, TimeToChangeExact, Unloads

(* The invariant in terms of integers.                                     *)
LEMMA Times ==
    ASSUME DepthInv
    PROVE  /\ MaxNow \in Int /\ NULL \notin Int
           /\ now \in Int /\ 1 <= now /\ now <= MaxNow
           /\ msPaused \in Int /\ 0 <= msPaused /\ seen \in Int /\ 0 <= seen
           /\ startedAt = 1
           /\ timeHidden \in Int /\ 0 <= timeHidden /\ shown \in Int /\ 0 <= shown
           /\ pausedAt # NULL => pausedAt \in Int /\ 0 <= pausedAt /\ pausedAt <= MaxNow
           /\ hiddenAt # NULL => hiddenAt \in Int /\ 0 <= hiddenAt /\ hiddenAt <= MaxNow
           /\ visibilityListenersAdded # NULL =>
                  visibilityListenersAdded \in Int /\ 0 <= visibilityListenersAdded
                      /\ visibilityListenersAdded <= MaxNow
           /\ hidden \in BOOLEAN /\ open \in BOOLEAN
  BY ClockAssumption DEF DepthInv, TypeOK, UlsAccount, Time

LEMMA TrackStep ==
    ASSUME DepthInv, Track
    PROVE  DepthInv'
  <1>1. TypeOK'
    BY Times DEF DepthInv, TypeOK, Track, pause, uls, Time
  <1>2. DepthAccount'
    BY Times DEF DepthInv, DepthAccount, Track, pause, tracked, Running
  <1>3. UlsAccount'
    BY DEF DepthInv, UlsAccount, Track, uls, Running
  <1> QED
    BY <1>1, <1>2, <1>3 DEF DepthInv

LEMMA HideStep ==
    ASSUME DepthInv, Hide
    PROVE  DepthInv'
  <1>1. TypeOK'
    BY Times DEF DepthInv, TypeOK, Hide, pause, onHide, Time
  <1>2. DepthAccount'
    BY Times DEF DepthInv, DepthAccount, Hide, pause, tracked, Running
  <1>3. UlsAccount'
    BY Times DEF DepthInv, UlsAccount, Hide, onHide, Running
  <1> QED
    BY <1>1, <1>2, <1>3 DEF DepthInv

LEMMA ShowStep ==
    ASSUME DepthInv, Show
    PROVE  DepthInv'
  <1>1. /\ msPaused' \in Time
        /\ tracked => msPaused' = msPaused + Running(pausedAt)
        /\ ~tracked => msPaused' = msPaused
    BY Times DEF DepthInv, DepthAccount, Show, resume, tracked, Running, Time
  <1>2. timeHidden' \in Time /\ timeHidden' = timeHidden + Running(hiddenAt)
    BY Times DEF DepthInv, UlsAccount, Show, onShow, Running, Time
  <1>3. TypeOK'
    BY <1>1, <1>2 DEF DepthInv, TypeOK, Show, resume, onShow
  <1>4. DepthAccount'
    BY <1>1, Times DEF DepthInv, DepthAccount, Show, resume, tracked, Running
  <1>5. UlsAccount'
    BY <1>2, Times DEF DepthInv, UlsAccount, Show, onShow, Running
  <1> QED
    BY <1>3, <1>4, <1>5 DEF DepthInv

LEMMA AdvanceStep ==
    ASSUME DepthInv, Advance
    PROVE  DepthInv'
  <1>1. /\ UNCHANGED <<open, hidden, visibilityListenersAdded, pausedAt, msPaused, startedAt, hiddenAt, timeHidden>>
        /\ now' = now + 1 /\ now < MaxNow
        /\ seen' = IF tracked /\ ~hidden THEN seen + 1 ELSE seen
        /\ shown' = IF ~hidden THEN shown + 1 ELSE shown
    BY DEF Advance, depth, uls
  <1>2. DepthAccount'
    BY <1>1, Times DEF DepthInv, DepthAccount, tracked, Running
  <1>3. UlsAccount'
    BY <1>1, Times DEF DepthInv, UlsAccount, Running
  <1>4. TypeOK'
    <2>1. now' \in Time
      BY <1>1, Times DEF Time
    <2>2. seen' \in Time
      BY <1>1, Times DEF DepthInv, DepthAccount, tracked, Running, Time
    <2>3. shown' \in Time
      BY <1>1, Times DEF DepthInv, UlsAccount, Running, Time
    <2> QED
      BY <1>1, <2>1, <2>2, <2>3 DEF DepthInv, TypeOK
  <1> QED
    BY <1>2, <1>3, <1>4 DEF DepthInv

(* The variables of the invariant stay.                                    *)
LEMMA SameStep ==
    ASSUME DepthInv, open' \in BOOLEAN, UNCHANGED <<now, hidden, depth, uls, seen, shown>>
    PROVE  DepthInv'
  BY DEF DepthInv, TypeOK, DepthAccount, UlsAccount, depth, uls, tracked, Running

LEMMA DepthNextHolds ==
    ASSUME DepthInv, [Next]_vars
    PROVE  DepthInv'
  <1>1. CASE BeforeUnload
    BY <1>1, SameStep DEF BeforeUnload
  <1>2. CASE LanguageChange
    BY <1>2, SameStep, Times DEF LanguageChange
  <1>3. CASE UNCHANGED vars
    BY <1>3, SameStep, Times DEF vars
  <1> QED
    BY <1>1, <1>2, <1>3, TrackStep, HideStep, ShowStep, AdvanceStep DEF Next

(* An event that a step sends tells the time exactly.                      *)
LEMMA EventsExact ==
    ASSUME DepthInv, [Next]_vars, VisibleLengthExact, TimeToChangeExact
    PROVE  VisibleLengthExact' /\ TimeToChangeExact'
  <1>1. CASE out' = {}
    BY <1>1 DEF VisibleLengthExact, TimeToChangeExact, Unloads
  <1>2. CASE Track
    BY <1>2 DEF Track, VisibleLengthExact, TimeToChangeExact, Unloads
  <1>3. CASE BeforeUnload /\ tracked
    <2>1. out' = {PageUnloaded} /\ UNCHANGED <<now, hidden, pausedAt, seen>>
      BY <1>3 DEF BeforeUnload, depth
    <2>2. PageUnloaded.action = "pageUnloaded"
      BY DEF PageUnloaded
    <2>3. ~hidden => PageUnloaded.visible_length = seen
      BY <1>3, Visible
    <2> QED
      BY <2>1, <2>2, <2>3 DEF VisibleLengthExact, TimeToChangeExact, Unloads
  <1>4. CASE LanguageChange
    <2> DEFINE event == [action |-> "language-change", timeToChangeLanguage |-> now - startedAt - timeHidden]
    <2>1. out' = {event} /\ shown' = shown /\ ~hidden
      BY <1>4 DEF LanguageChange
    <2>2. event.action = "language-change" /\ event.timeToChangeLanguage = now - startedAt - timeHidden
      OBVIOUS
    <2> HIDE DEF event
    <2>3. now - startedAt - timeHidden = shown
      BY <2>1, Times DEF DepthInv, UlsAccount, Running
    <2> QED
      BY <2>1, <2>2, <2>3 DEF VisibleLengthExact, TimeToChangeExact, Unloads
  <1>5. CASE UNCHANGED vars
    BY <1>5 DEF vars, depth, VisibleLengthExact, TimeToChangeExact, Unloads
  <1> QED
    BY <1>1, <1>2, <1>3, <1>4, <1>5 DEF Next, Hide, Show, BeforeUnload, Advance

(* Both accounts balance, and every event sent is exact, at any time.      *)
THEOREM DepthInvariant == Spec => [](DepthInv /\ VisibleLengthExact /\ TimeToChangeExact)
  <1>1. Init => DepthInv /\ VisibleLengthExact /\ TimeToChangeExact
    BY DepthInitHolds
  <1>2. DepthInv /\ VisibleLengthExact /\ TimeToChangeExact /\ [Next]_vars
        => (DepthInv /\ VisibleLengthExact /\ TimeToChangeExact)'
    BY DepthNextHolds, EventsExact
  <1> QED
    BY <1>1, <1>2, PTL DEF Spec

(* All times stay within the bound of the clock, for every bound: no       *)
(* pause is taken off twice.                                               *)
THEOREM DepthTypeCorrect == Spec => []TypeOK
  <1>1. DepthInv => TypeOK
    BY DEF DepthInv
  <1> QED
    BY <1>1, DepthInvariant, PTL

(* The visible length of a page that is visible when it is unloaded is     *)
(* exact for every sequence of hides and shows before, whenever the page   *)
(* was first tracked.                                                      *)
THEOREM VisibleLengthRight == Spec => []VisibleLengthExact
  BY DepthInvariant, PTL

(* So is the time to a change of language.                                 *)
THEOREM TimeToChangeRight == Spec => []TimeToChangeExact
  BY DepthInvariant, PTL

(***************************************************************************)
(* Probenet, for any set of targets and any number of pulses.  The         *)
(* invariant adds to ResultsInStep that a pulse is over only when all its  *)
(* requests are answered, so that the next pulse, or the report, finds one *)
(* more result of every target.                                            *)
(***************************************************************************)
PulseOver ==
    phase \in {"delay", "complete"} => \A t \in Target : request[t] = "answered"

LastPulse == phase = "complete" => pulse + 1 = PULSES

ProbeInv == ProbeTypeOK /\ ResultsInStep /\ PulseOver /\ LastPulse /\ ReportComplete

(***************************************************************************)
(* The results of the first n pulses                                       *)
(***************************************************************************)
LEMMA UpToFacts ==
    ASSUME NEW n \in Nat
    PROVE  /\ UpTo(n) \in Seq(Nat)
           /\ Len(UpTo(n)) = n
           /\ \A i \in 1..n : UpTo(n)[i] = i - 1
  <1>1. UpTo(n) \in [1..n -> Nat] /\ \A i \in 1..n : UpTo(n)[i] = i - 1
    BY DEF UpTo
  <1> QED
    BY <1>1

LEMMA UpToType ==
    ASSUME NEW n \in 0..PULSES
    PROVE  UpTo(n) \in Seq(0 .. PULSES - 1)
  <1>1. PULSES \in Nat
    BY RecipeAssumption
  <1>2. UpTo(n) \in [1..n -> 0 .. PULSES - 1]
    BY <1>1 DEF UpTo
  <1> QED
    BY <1>1, <1>2

LEMMA UpToAppend ==
    ASSUME NEW n \in 0 .. PULSES - 1
    PROVE  Append(UpTo(n), n) = UpTo(n + 1)
  <1> DEFINE s == UpTo(n)
             r == UpTo(n + 1)
  <1>1. n \in Nat
    BY RecipeAssumption
  <1>2. s \in Seq(Nat) /\ Len(s) = n /\ \A i \in 1..n : s[i] = i - 1
    BY <1>1, UpToFacts
  <1>3. r \in Seq(Nat) /\ Len(r) = n + 1 /\ \A i \in 1 .. n + 1 : r[i] = i - 1
    BY <1>1, UpToFacts
  <1> HIDE DEF s, r
  <1>4. /\ Append(s, n) \in Seq(Nat)
        /\ Len(Append(s, n)) = n + 1
        /\ \A i \in 1..n : Append(s, n)[i] = s[i]
        /\ Append(s, n)[n + 1] = n
    BY <1>1, <1>2, AppendProperties
  <1>5. \A i \in 1 .. n + 1 : Append(s, n)[i] = r[i]
    <2>1. \A i \in 1..n : Append(s, n)[i] = r[i]
      BY <1>1, <1>2, <1>3, <1>4
    <2>2. Append(s, n)[n + 1] = r[n + 1]
      BY <1>1, <1>3, <1>4
    <2> SUFFICES ASSUME NEW i \in 1 .. n + 1 PROVE Append(s, n)[i] = r[i]
      OBVIOUS
    <2>3. CASE i = n + 1
      BY <2>2, <2>3
    <2>4. CASE i \in 1..n
      BY <2>1, <2>4
    <2>5. i = n + 1 \/ i \in 1..n
      BY <1>1
    <2> QED
      BY <2>3, <2>4, <2>5
  <1>6. Append(s, n) = r
    BY <1>3, <1>4, <1>5, SeqEqual
  <1> QED
    BY <1>6 DEF s, r

LEMMA UpToZero == UpTo(0) = <<>>
  <1>1. UpTo(0) \in Seq(Nat) /\ Len(UpTo(0)) = 0
    BY UpToFacts
  <1> QED
    BY <1>1, EmptySeq

(***************************************************************************)
(* The inductive invariant                                                 *)
(***************************************************************************)
THEOREM ProbeInitHolds == ProbeInit => ProbeInv
  <1> SUFFICES ASSUME ProbeInit PROVE ProbeInv
    OBVIOUS
  <1>1. PULSES \in Nat \ {0} /\ MaxVisits \in Nat
    BY RecipeAssumption
  <1>2. UpTo(0) = <<>>
    BY UpToZero
  <1>3. ProbeTypeOK
    <2>1. NoData \in [Target -> Seq(0 .. PULSES - 1)]
      BY DEF NoData
    <2>2. AllSent \in [Target -> Status]
      BY DEF AllSent, Status
    <2>3. 0 \in 0 .. PULSES - 1 /\ 0 \in 0..MaxVisits
      BY <1>1
    <2> QED
      BY <2>1, <2>2, <2>3 DEF ProbeInit, ProbeTypeOK
  <1>4. ResultsInStep
    BY <1>2 DEF ProbeInit, ResultsInStep, NoData, AllSent
  <1> QED
    BY <1>3, <1>4 DEF ProbeInit, ProbeInv, PulseOver, LastPulse, ReportComplete

(* Every step of a probe keeps ProbeInv, whether its requests are answered,*)
(* time out or fail.                                                       *)
THEOREM ProbeNextHolds == ProbeInv /\ [ProbeNext]_probeVars => ProbeInv'
  <1> SUFFICES ASSUME ProbeInv, [ProbeNext]_probeVars PROVE ProbeInv'
    OBVIOUS
  <1> USE DEF ProbeInv
  <1>1. PULSES \in Nat \ {0} /\ MaxVisits \in Nat
    BY RecipeAssumption
  <1>2. UpTo(0) = <<>>
    BY UpToZero
  <1>3. ASSUME NEW sampled \in BOOLEAN, Visit(sampled) PROVE ProbeInv'
    <2>1. ProbeTypeOK'
      BY <1>1, <1>3 DEF Visit, ProbeTypeOK, NoData, AllSent, Status
    <2>2. ResultsInStep'
      BY <1>2, <1>3 DEF Visit, ResultsInStep, NoData, AllSent
    <2> QED
      BY <1>3, <2>1, <2>2 DEF Visit, PulseOver, LastPulse, ReportComplete
  <1>4. CASE Leave \/ CookieExpires
    BY <1>4 DEF Leave, CookieExpires, ProbeTypeOK, ResultsInStep, PulseOver, LastPulse, ReportComplete
  <1>5. ASSUME NEW t \in Target, Answer(t) PROVE ProbeInv'
    <2>1. pulse \in 0 .. PULSES - 1 /\ pulse \in Nat /\ pulse + 1 \in 0..PULSES
      BY <1>1 DEF ProbeTypeOK
    <2>2. data[t] = UpTo(pulse)
      BY <1>5 DEF Answer, ResultsInStep
    <2>3. data' = [data EXCEPT ![t] = UpTo(pulse + 1)]
      BY <1>5, <2>1, <2>2, UpToAppend DEF Answer
    <2>4. ProbeTypeOK'
      <3>1. data' \in [Target -> Seq(0 .. PULSES - 1)]
        BY <2>1, <2>3, UpToType DEF ProbeTypeOK
      <3> QED
        BY <1>5, <3>1 DEF Answer, ProbeTypeOK, Status
    <2>5. ResultsInStep'
      <3> SUFFICES ASSUME NEW u \in Target
                   PROVE  data'[u] = UpTo(IF request'[u] = "answered" THEN pulse + 1 ELSE pulse)
        BY <1>5 DEF Answer, ResultsInStep
      <3>1. CASE u = t
        <4>1. request'[t] = "answered" /\ data'[t] = UpTo(pulse + 1)
          BY <1>5, <2>3 DEF Answer, ProbeTypeOK
        <4> QED
          BY <3>1, <4>1
      <3>2. CASE u # t
        <4>1. request'[u] = request[u] /\ data'[u] = data[u]
          BY <1>5, <2>3, <3>2 DEF Answer, ProbeTypeOK
        <4> QED
          BY <4>1 DEF ResultsInStep
      <3> QED
        BY <3>1, <3>2
    <2> QED
      BY <1>5, <2>4, <2>5 DEF Answer, PulseOver, LastPulse, ReportComplete
  <1>6. ASSUME NEW t \in Target, AnswerWithoutEntry(t) \/ FetchFails(t) \/ Timeout(t)
        PROVE  ProbeInv'
    <2>1. \E s \in {"rejected", "failed"} : request' = [request EXCEPT ![t] = s]
      BY <1>6 DEF AnswerWithoutEntry, FetchFails, Timeout
    <2>2. phase' = "pulse" /\ request[t] # "answered"
          /\ UNCHANGED <<phase, pulse, data, cookie, report, visits>>
      BY <1>6 DEF AnswerWithoutEntry, FetchFails, Timeout
    <2>3. ProbeTypeOK'
      BY <2>1, <2>2 DEF ProbeTypeOK, Status
    <2>4. \A u \in Target : request'[u] = "answered" <=> request[u] = "answered"
      BY <2>1, <2>2 DEF ProbeTypeOK
    <2>5. ResultsInStep'
      BY <2>2, <2>4 DEF ResultsInStep
    <2> QED
      BY <2>2, <2>3, <2>5 DEF PulseOver, LastPulse, ReportComplete
  <1>7. CASE PulseEnds
    BY <1>7 DEF PulseEnds, ProbeTypeOK, ResultsInStep, PulseOver, LastPulse, ReportComplete
  <1>8. CASE NextPulse
    <2>1. ProbeTypeOK'
      BY <1>1, <1>8 DEF NextPulse, ProbeTypeOK, AllSent, Status
    <2>2. ResultsInStep'
      BY <1>8 DEF NextPulse, ResultsInStep, PulseOver, AllSent
    <2> QED
      BY <1>8, <2>1, <2>2 DEF NextPulse, PulseOver, LastPulse, ReportComplete
  <1>9. CASE Report
    <2>1. ProbeTypeOK' /\ ResultsInStep'
      BY <1>9 DEF Report, generateReport, ProbeTypeOK, ResultsInStep
    <2>2. \A t \in Target : data[t] = UpTo(PULSES)
      BY <1>9 DEF Report, generateReport, ResultsInStep, PulseOver
    <2>3. ReportComplete'
      BY <1>9, <2>2 DEF Report, generateReport, ProbeTypeOK, ReportComplete
    <2> QED
      BY <1>9, <2>1, <2>3 DEF Report, generateReport, PulseOver, LastPulse
  <1>10. CASE UNCHANGED probeVars
    BY <1>10 DEF probeVars, ProbeTypeOK, ResultsInStep, PulseOver, LastPulse, ReportComplete
  <1> QED
    BY <1>3, <1>4, <1>5, <1>6, <1>7, <1>8, <1>9, <1>10 DEF ProbeNext, TargetStep

(* ProbeInv holds of all probes on all pages.                              *)
THEOREM ProbeInvariant == ProbeSpec => []ProbeInv
  BY ProbeInitHolds, ProbeNextHolds, PTL DEF ProbeSpec

(* A report has exactly one result of every pulse for every target,        *)
(* whatever was late, failed or closed before (generateReport and          *)
(* onComplete, probenet.js:316-334).                                       *)
THEOREM ReportsComplete == ProbeSpec => []ReportComplete
  <1>1. ProbeInv => ReportComplete
    BY DEF ProbeInv
  <1> QED
    BY <1>1, ProbeInvariant, PTL

(* While a probe runs its targets advance together (probeHttpGetPulse,     *)
(* probenet.js:150-188), and the state stays well-typed.                   *)
THEOREM ResultsStepwise == ProbeSpec => [](ProbeTypeOK /\ ResultsInStep)
  <1>1. ProbeInv => ProbeTypeOK /\ ResultsInStep
    BY DEF ProbeInv
  <1> QED
    BY <1>1, ProbeInvariant, PTL

(* No pulse begins before every request of the last one is answered.       *)
THEOREM NoOverlap == ProbeSpec => PulsesNeverOverlap
  <1>1. ProbeInv /\ [ProbeNext]_probeVars
        => (pulse' > pulse => \A t \in Target : request[t] = "answered")
    <2> SUFFICES ASSUME ProbeInv, [ProbeNext]_probeVars, pulse' > pulse
                 PROVE  \A t \in Target : request[t] = "answered"
      OBVIOUS
    <2>1. pulse \in Nat
      BY RecipeAssumption DEF ProbeInv, ProbeTypeOK
    <2>2. NextPulse
      BY <2>1 DEF ProbeNext, Visit, Leave, CookieExpires, TargetStep, Answer, AnswerWithoutEntry,
                  FetchFails, Timeout, PulseEnds, Report, probeVars
    <2> QED
      BY <2>2 DEF NextPulse, ProbeInv, PulseOver
  <1> QED
    BY <1>1, ProbeInvariant, PTL DEF ProbeSpec, PulsesNeverOverlap

(***************************************************************************)
(* ClickThroughRate, for any document and any number of instruments.  The  *)
(* list of entries has no selector and no token twice, single-click        *)
(* entries come first, and an entry with an element of its own whose       *)
(* impression is sent is neither observed nor about to be notified.        *)
(***************************************************************************)
RateType ==
    /\ state \in Seq(Entry)
    /\ handles \subseteq Selector
    /\ starts \in 0..MaxStarts
    /\ sent \in [impressions : [Token -> Nat], click : SUBSET Token]

TokensGenerated == \A i \in DOMAIN state : state[i].funnelEntryToken <= starts

SinglesFirst ==
    \A i, j \in DOMAIN state : i < j /\ state[j].trackSingleClick => state[i].trackSingleClick

NoneInAdvance == \A k \in Token : k > starts => sent.impressions[k] = 0

DoneWith(i) ==
    LET impressions == sent.impressions[state[i].funnelEntryToken]
        element == ElementOf[state[i].selector]
    IN  /\ impressions <= 1
        /\ impressions = 1 => element \notin observed /\ element \notin notified

ImpressionsCounted == \A i \in DOMAIN state : Unshared(state[i].selector) => DoneWith(i)

ListInv == SelectorOnce /\ TokensGenerated /\ SinglesFirst

RateInv == RateType /\ ListInv /\ NoneInAdvance /\ ImpressionsCounted

(***************************************************************************)
(* The list of entries                                                     *)
(***************************************************************************)
LEMMA RemoveAtFacts ==
    ASSUME NEW S, NEW s \in Seq(S), NEW m \in 1..Len(s)
    PROVE  /\ RemoveAt(s, m) \in Seq(S)
           /\ Len(RemoveAt(s, m)) = Len(s) - 1
           /\ \A i \in 1 .. Len(s) - 1 : RemoveAt(s, m)[i] = IF i < m THEN s[i] ELSE s[i + 1]
  <1> DEFINE before == SubSeq(s, 1, m - 1)
             after == SubSeq(s, m + 1, Len(s))
  <1>1. Len(s) \in Nat /\ m \in Nat /\ m >= 1 /\ m <= Len(s) /\ \A i \in 1..Len(s) : s[i] \in S
    BY LenProperties, ElementOfSeq
  <1>2. \A i \in 1 .. m - 1 : s[i] \in S
    BY <1>1
  <1>3. \A i \in m + 1 .. Len(s) : s[i] \in S
    BY <1>1
  <1>4. /\ before \in Seq(S)
        /\ Len(before) = IF 1 <= m - 1 THEN m - 1 - 1 + 1 ELSE 0
        /\ \A i \in 1 .. m - 1 - 1 + 1 : before[i] = s[1 + i - 1]
    <2>1. 1 \in Int /\ m - 1 \in Int
      BY <1>1
    <2> QED
      BY <1>2, <2>1, SubSeqProperties
  <1>5. /\ after \in Seq(S)
        /\ Len(after) = IF m + 1 <= Len(s) THEN Len(s) - (m + 1) + 1 ELSE 0
        /\ \A i \in 1 .. Len(s) - (m + 1) + 1 : after[i] = s[m + 1 + i - 1]
    <2>1. m + 1 \in Int /\ Len(s) \in Int
      BY <1>1
    <2> QED
      BY <1>3, <2>1, SubSeqProperties
  <1> HIDE DEF before, after
  <1>6. Len(before) = m - 1 /\ \A i \in 1 .. m - 1 : before[i] = s[i]
    BY <1>1, <1>4
  <1>7. Len(after) = Len(s) - m /\ \A i \in 1 .. Len(s) - m : after[i] = s[m + i]
    BY <1>1, <1>5
  <1>8. /\ before \o after \in Seq(S)
        /\ Len(before \o after) = Len(before) + Len(after)
        /\ \A i \in 1 .. Len(before) + Len(after) :
              (before \o after)[i] = IF i <= Len(before) THEN before[i] ELSE after[i - Len(before)]
    BY <1>4, <1>5, ConcatProperties
  <1>9. RemoveAt(s, m) = before \o after
    BY DEF RemoveAt, before, after
  <1>10. \A i \in 1 .. Len(s) - 1 : (before \o after)[i] = IF i < m THEN s[i] ELSE s[i + 1]
    <2> SUFFICES ASSUME NEW i \in 1 .. Len(s) - 1
                 PROVE  (before \o after)[i] = IF i < m THEN s[i] ELSE s[i + 1]
      OBVIOUS
    <2>1. (before \o after)[i] = IF i <= Len(before) THEN before[i] ELSE after[i - Len(before)]
      BY <1>1, <1>6, <1>7, <1>8
    <2>2. CASE i < m
      BY <1>1, <1>6, <2>1, <2>2
    <2>3. CASE ~(i < m)
      <3>1. i - (m - 1) \in 1 .. Len(s) - m /\ m + (i - (m - 1)) = i + 1
        BY <1>1, <2>3
      <3>2. (before \o after)[i] = after[i - (m - 1)]
        BY <1>1, <1>6, <2>1, <2>3
      <3>3. after[i - (m - 1)] = s[m + (i - (m - 1))]
        BY <1>7, <3>1
      <3> QED
        BY <2>3, <3>1, <3>2, <3>3
    <2> QED
      BY <2>2, <2>3
  <1>11. Len(before \o after) = Len(s) - 1
    BY <1>1, <1>6, <1>7, <1>8
  <1> QED
    BY <1>8, <1>9, <1>10, <1>11

LEMMA PrependFacts ==
    ASSUME NEW S, NEW s \in Seq(S), NEW e \in S
    PROVE  /\ <<e>> \o s \in Seq(S)
           /\ Len(<<e>> \o s) = Len(s) + 1
           /\ (<<e>> \o s)[1] = e
           /\ \A i \in 2 .. Len(s) + 1 : (<<e>> \o s)[i] = s[i - 1]
  <1> DEFINE one == <<e>>
  <1>1. one \in Seq(S) /\ Len(one) = 1 /\ one[1] = e
    OBVIOUS
  <1>2. Len(s) \in Nat
    BY LenProperties
  <1> HIDE DEF one
  <1>3. /\ one \o s \in Seq(S)
        /\ Len(one \o s) = Len(one) + Len(s)
        /\ \A i \in 1 .. Len(one) + Len(s) :
              (one \o s)[i] = IF i <= Len(one) THEN one[i] ELSE s[i - Len(one)]
    BY <1>1, ConcatProperties
  <1>4. (one \o s)[1] = e
    BY <1>1, <1>2, <1>3
  <1>5. \A i \in 2 .. Len(s) + 1 : (one \o s)[i] = s[i - 1]
    BY <1>1, <1>2, <1>3
  <1>6. one \o s \in Seq(S) /\ Len(one \o s) = Len(s) + 1
    BY <1>1, <1>2, <1>3
  <1> QED
    BY <1>4, <1>5, <1>6 DEF one

(* What the list and its entries are.                                      *)
LEMMA Listed ==
    ASSUME RateInv
    PROVE  /\ Len(state) \in Nat /\ DOMAIN state = 1..Len(state)
           /\ \A i \in 1..Len(state) :
                 /\ state[i] \in Entry
                 /\ state[i].selector \in Selector
                 /\ state[i].trackSingleClick \in BOOLEAN
                 /\ state[i].funnelEntryToken \in Token
                 /\ state[i].funnelEntryToken <= starts
           /\ starts \in Nat /\ MaxStarts \in Nat
  <1>1. state \in Seq(Entry) /\ starts \in 0..MaxStarts
    BY DEF RateInv, RateType
  <1>2. Len(state) \in Nat /\ DOMAIN state = 1..Len(state)
    BY <1>1, LenProperties
  <1>3. \A i \in 1..Len(state) : state[i] \in Entry
    BY <1>1, ElementOfSeq
  <1>4. MaxStarts \in Nat
    BY DocumentAssumption
  <1>5. \A i \in 1..Len(state) : state[i].funnelEntryToken <= starts
    BY <1>2 DEF RateInv, ListInv, TokensGenerated
  <1> QED
    BY <1>1, <1>2, <1>3, <1>4, <1>5 DEF Entry

LEMMA Placed ==
    ASSUME RateInv, NEW entry \in Entry
    PROVE  /\ Place(entry) \in Seq(Entry)
           /\ Len(Place(entry)) = Len(state) + 1
           /\ entry.trackSingleClick =>
                 /\ Place(entry)[1] = entry
                 /\ \A i \in 2 .. Len(state) + 1 : Place(entry)[i] = state[i - 1]
           /\ ~entry.trackSingleClick =>
                 /\ Place(entry)[Len(state) + 1] = entry
                 /\ \A i \in 1..Len(state) : Place(entry)[i] = state[i]
  <1>1. state \in Seq(Entry) /\ Len(state) \in Nat
    BY Listed DEF RateInv, RateType
  <1>2. CASE entry.trackSingleClick
    BY <1>1, <1>2, PrependFacts DEF Place
  <1>3. CASE ~entry.trackSingleClick
    <2>1. /\ Append(state, entry) \in Seq(Entry)
          /\ Len(Append(state, entry)) = Len(state) + 1
          /\ \A i \in 1..Len(state) : Append(state, entry)[i] = state[i]
          /\ Append(state, entry)[Len(state) + 1] = entry
      BY <1>1, AppendProperties
    <2> QED
      BY <1>3, <2>1 DEF Place
  <1> QED
    BY <1>2, <1>3

(* A new entry differs from those that are there.                          *)
LEMMA CreatedList ==
    ASSUME RateInv, NEW selector \in Selector, NEW single \in BOOLEAN, Created(selector, single)
    PROVE  /\ state' \in Seq(Entry) /\ starts' = starts + 1 /\ starts + 1 \in 1..MaxStarts
           /\ ListInv'
           /\ \A i \in DOMAIN state' :
                 \/ state'[i].selector = selector /\ state'[i].funnelEntryToken = starts + 1
                 \/ \E j \in DOMAIN state : state'[i] = state[j] /\ state[j].selector # selector
  <1> DEFINE entry == [selector |-> selector, trackSingleClick |-> single,
                       funnelEntryToken |-> starts + 1]
             n == Len(state)
  <1>1. /\ n \in Nat /\ DOMAIN state = 1..n /\ starts \in Nat
        /\ \A i \in 1..n : state[i] \in Entry
        /\ \A i \in 1..n : state[i].funnelEntryToken \in Token /\ state[i].funnelEntryToken <= starts
    BY Listed
  <1>2. starts' = starts + 1 /\ starts + 1 \in 1..MaxStarts
    BY <1>1, Listed DEF Created
  <1>3. entry \in Entry
    BY <1>2 DEF Entry, Token
  <1>4. /\ entry.selector = selector /\ entry.trackSingleClick = single
        /\ entry.funnelEntryToken = starts + 1
    OBVIOUS
  <1>5. state' = Place(entry)
    BY DEF Created
  <1>6. \A i \in 1..n : state[i].selector # selector
    BY <1>1 DEF Created, findBySelector
  <1>7. \A i \in 1..n : state[i].funnelEntryToken # starts + 1
    BY <1>1 DEF Token
  <1>8. /\ \A i, j \in 1..n : i # j => /\ state[i].selector # state[j].selector
                                       /\ state[i].funnelEntryToken # state[j].funnelEntryToken
        /\ \A i, j \in 1..n : i < j /\ state[j].trackSingleClick => state[i].trackSingleClick
    BY <1>1 DEF RateInv, ListInv, SelectorOnce, SinglesFirst
  <1> HIDE DEF entry, n
  <1>9. /\ state' \in Seq(Entry)
        /\ Len(state') = n + 1
        /\ single =>
              /\ state'[1] = entry
              /\ \A i \in 2 .. n + 1 : state'[i] = state[i - 1]
        /\ ~single =>
              /\ state'[n + 1] = entry
              /\ \A i \in 1..n : state'[i] = state[i]
    BY <1>3, <1>4, <1>5, Placed DEF n
  <1>10. DOMAIN state' = 1 .. n + 1
    BY <1>9, LenProperties
  <1> DEFINE p == IF single THEN 1 ELSE n + 1
             From(i) == IF single THEN i - 1 ELSE i
  <1>11. /\ p \in 1 .. n + 1 /\ state'[p] = entry
         /\ \A i \in 1 .. n + 1 : i # p => From(i) \in 1..n /\ state'[i] = state[From(i)]
    <2>1. CASE single
      BY <1>1, <1>9, <2>1
    <2>2. CASE ~single
      BY <1>1, <1>9, <2>2
    <2> QED
      BY <2>1, <2>2
  <1>12. \A i, j \in 1 .. n + 1 : (i < j => From(i) < From(j)) /\ (i # j => From(i) # From(j))
    BY <1>1
  <1>13. (single => \A j \in 1 .. n + 1 : j >= p) /\ (~single => \A j \in 1 .. n + 1 : j <= p)
    BY <1>1
  <1> HIDE DEF p, From
  <1>14. SelectorOnce'
    <2> SUFFICES ASSUME NEW i \in 1 .. n + 1, NEW j \in 1 .. n + 1, i # j
                 PROVE  /\ state'[i].selector # state'[j].selector
                        /\ state'[i].funnelEntryToken # state'[j].funnelEntryToken
      BY <1>10 DEF SelectorOnce
    <2>1. CASE i = p
      BY <1>4, <1>6, <1>7, <1>11, <2>1
    <2>2. CASE j = p
      BY <1>4, <1>6, <1>7, <1>11, <2>2
    <2>3. CASE i # p /\ j # p
      BY <1>8, <1>11, <1>12, <2>3
    <2> QED
      BY <2>1, <2>2, <2>3
  <1>15. TokensGenerated'
    <2> SUFFICES ASSUME NEW i \in 1 .. n + 1
                 PROVE  state'[i].funnelEntryToken <= starts + 1
      BY <1>2, <1>10 DEF TokensGenerated
    <2>1. CASE i = p
      BY <1>1, <1>4, <1>11, <2>1
    <2>2. CASE i # p
      <3>1. From(i) \in 1..n /\ state'[i] = state[From(i)]
        BY <1>11, <2>2
      <3>2. state[From(i)].funnelEntryToken \in Nat /\ state[From(i)].funnelEntryToken <= starts
        BY <1>1, <3>1 DEF Token
      <3> QED
        BY <1>1, <3>1, <3>2
    <2> QED
      BY <2>1, <2>2
  <1>16. SinglesFirst'
    <2> SUFFICES ASSUME NEW i \in 1 .. n + 1, NEW j \in 1 .. n + 1, i < j,
                        state'[j].trackSingleClick
                 PROVE  state'[i].trackSingleClick
      BY <1>10 DEF SinglesFirst
    <2>1. CASE i # p /\ j # p
      BY <1>8, <1>11, <1>12, <2>1
    <2>2. CASE i = p
      <3>1. single
        BY <1>1, <1>11, <1>13, <2>2
      <3> QED
        BY <1>4, <1>11, <2>2, <3>1
    <2>3. CASE j = p
      <3>1. single
        BY <1>4, <1>11, <2>3
      <3> QED
        BY <1>1, <1>11, <1>13, <2>3, <3>1
    <2> QED
      BY <2>1, <2>2, <2>3
  <1>17. \A i \in DOMAIN state' :
            \/ state'[i].selector = selector /\ state'[i].funnelEntryToken = starts + 1
            \/ \E j \in DOMAIN state : state'[i] = state[j] /\ state[j].selector # selector
    BY <1>1, <1>4, <1>6, <1>10, <1>11
  <1> QED
    BY <1>2, <1>9, <1>14, <1>15, <1>16, <1>17 DEF ListInv

(* What is left of the list when an entry is removed is in the same order. *)
LEMMA WithoutList ==
    ASSUME RateInv, NEW selector, state' = Without(selector), starts' = starts
    PROVE  /\ state' \in Seq(Entry)
           /\ ListInv'
           /\ \A i \in DOMAIN state' : \E j \in DOMAIN state : state'[i] = state[j]
  <1> DEFINE n == Len(state)
  <1>1. /\ n \in Nat /\ DOMAIN state = 1..n
        /\ state \in Seq(Entry)
    BY Listed DEF RateInv, RateType
  <1>2. CASE state = <<>>
    <2>1. state' = state
      BY <1>2 DEF Without
    <2> QED
      BY <1>1, <2>1 DEF RateInv, ListInv, SelectorOnce, TokensGenerated, SinglesFirst
  <1>3. CASE state # <<>>
    <2> DEFINE found == findBySelector(selector)
               m == IF found # {} THEN CHOOSE i \in found : TRUE ELSE n
    <2>1. n # 0
      BY <1>1, <1>3, EmptySeq
    <2>2. m \in 1..n
      <3>1. found \subseteq 1..n
        BY <1>1 DEF findBySelector
      <3>2. CASE found # {}
        BY <3>1, <3>2
      <3>3. CASE found = {}
        BY <1>1, <2>1, <3>3
      <3> QED
        BY <3>2, <3>3
    <2>3. state' = RemoveAt(state, m)
      BY <1>3 DEF Without
    <2> DEFINE From(i) == IF i < m THEN i ELSE i + 1
    <2> HIDE DEF n, m
    <2>4. /\ state' \in Seq(Entry)
          /\ Len(state') = n - 1
          /\ \A i \in 1 .. n - 1 : state'[i] = IF i < m THEN state[i] ELSE state[i + 1]
      BY <1>1, <2>2, <2>3, RemoveAtFacts DEF n
    <2>5. DOMAIN state' = 1 .. n - 1
      BY <2>4, LenProperties
    <2>6. \A i \in 1 .. n - 1 : From(i) \in 1..n /\ state'[i] = state[From(i)]
      BY <1>1, <2>2, <2>4
    <2>7. \A i, j \in 1 .. n - 1 : (i < j => From(i) < From(j)) /\ (i # j => From(i) # From(j))
      BY <1>1, <2>2
    <2> HIDE DEF From
    <2>8. SelectorOnce' /\ SinglesFirst'
      BY <1>1, <2>5, <2>6, <2>7 DEF RateInv, ListInv, SelectorOnce, SinglesFirst
    <2>9. TokensGenerated'
      BY <1>1, <2>5, <2>6 DEF RateInv, ListInv, TokensGenerated
    <2> QED
      BY <1>1, <2>4, <2>5, <2>6, <2>8, <2>9 DEF ListInv
  <1> QED
    BY <1>2, <1>3

(***************************************************************************)
(* The inductive invariant                                                 *)
(***************************************************************************)
LEMMA RateInitHolds ==
    ASSUME RateInit
    PROVE  RateInv
  <1>1. MaxStarts \in Nat
    BY DocumentAssumption
  <1>2. state \in Seq(Entry) /\ DOMAIN state = {}
    <2>1. state \in Seq(Entry) /\ Len(state) = 0
      BY EmptySeq DEF RateInit
    <2> QED
      BY <2>1, LenProperties
  <1>3. [k \in Token |-> 0] \in [Token -> Nat]
    OBVIOUS
  <1>4. sent \in [impressions : [Token -> Nat], click : SUBSET Token]
    BY <1>3 DEF RateInit
  <1>5. RateType
    BY <1>1, <1>2, <1>4 DEF RateInit, RateType
  <1> QED
    BY <1>2, <1>5 DEF RateInit, RateInv, ListInv, SelectorOnce, TokensGenerated, SinglesFirst,
                      NoneInAdvance, ImpressionsCounted

LEMMA KnownStep ==
    ASSUME RateInv, NEW selector \in Selector, Known(selector),
           handles' = handles \cup {selector}, UNCHANGED <<notified, sent>>
    PROVE  RateInv'
  BY DEF RateInv, RateType, ListInv, SelectorOnce, TokensGenerated, SinglesFirst,
         NoneInAdvance, ImpressionsCounted, DoneWith, Known

LEMMA CreatedStep ==
    ASSUME RateInv, NEW selector \in Selector, NEW single \in BOOLEAN,
           Created(selector, single), handles' = handles \cup {selector},
           UNCHANGED <<notified, sent>>
    PROVE  RateInv'
  <1>1. /\ state' \in Seq(Entry) /\ starts' = starts + 1 /\ starts + 1 \in 1..MaxStarts
        /\ ListInv'
        /\ \A i \in DOMAIN state' :
              \/ state'[i].selector = selector /\ state'[i].funnelEntryToken = starts + 1
              \/ \E j \in DOMAIN state : state'[i] = state[j] /\ state[j].selector # selector
    BY CreatedList
  <1>2. observed' = observed \cup {ElementOf[selector]}
    BY DEF Created
  <1>3. starts \in Nat /\ MaxStarts \in Nat
    BY Listed
  <1>4. RateType'
    BY <1>1, <1>3 DEF RateInv, RateType
  <1>5. NoneInAdvance'
    BY <1>1, <1>3 DEF RateInv, NoneInAdvance, Token
  <1>6. ImpressionsCounted'
    <2> SUFFICES ASSUME NEW i \in DOMAIN state', Unshared(state'[i].selector)
                 PROVE  DoneWith(i)'
      BY DEF ImpressionsCounted
    <2>1. CASE state'[i].selector = selector /\ state'[i].funnelEntryToken = starts + 1
      <3>1. sent.impressions[starts + 1] = 0
        BY <1>1, <1>3 DEF RateInv, NoneInAdvance, Token
      <3> QED
        BY <2>1, <3>1 DEF DoneWith
    <2>2. ASSUME NEW j \in DOMAIN state, state'[i] = state[j], state[j].selector # selector
          PROVE  DoneWith(i)'
      <3>1. DoneWith(j)
        BY <2>2 DEF RateInv, ImpressionsCounted
      <3>2. ElementOf[state[j].selector] # ElementOf[selector]
        BY <2>2 DEF Unshared
      <3> QED
        BY <1>2, <2>2, <3>1, <3>2 DEF DoneWith
    <2> QED
      BY <1>1, <2>1, <2>2
  <1> QED
    BY <1>1, <1>4, <1>5, <1>6 DEF RateInv

LEMMA StopStep ==
    ASSUME RateInv, NEW selector \in Selector, Stop(selector)
    PROVE  RateInv'
  <1>1. /\ state' = Without(selector) /\ observed' \subseteq observed
        /\ UNCHANGED <<notified, handles, starts, sent>>
    BY DEF Stop
  <1>2. /\ state' \in Seq(Entry)
        /\ ListInv'
        /\ \A i \in DOMAIN state' : \E j \in DOMAIN state : state'[i] = state[j]
    BY <1>1, WithoutList
  <1>3. RateType' /\ NoneInAdvance'
    BY <1>1, <1>2 DEF RateInv, RateType, NoneInAdvance
  <1>4. ImpressionsCounted'
    <2> SUFFICES ASSUME NEW i \in DOMAIN state', Unshared(state'[i].selector)
                 PROVE  DoneWith(i)'
      BY DEF ImpressionsCounted
    <2>1. PICK j \in DOMAIN state : state'[i] = state[j]
      BY <1>2
    <2>2. DoneWith(j)
      BY <2>1 DEF RateInv, ImpressionsCounted
    <2> QED
      BY <1>1, <2>1, <2>2 DEF DoneWith
  <1> QED
    BY <1>2, <1>3, <1>4 DEF RateInv

(* An element that is notified of was observed.                            *)
LEMMA FrameStep ==
    ASSUME RateInv, Frame
    PROVE  RateInv'
  <1>1. notified' = observed /\ UNCHANGED <<state, observed, handles, starts, sent>>
    BY DEF Frame
  <1>2. RateType' /\ ListInv' /\ NoneInAdvance'
    BY <1>1 DEF RateInv, RateType, ListInv, SelectorOnce, TokensGenerated, SinglesFirst,
                NoneInAdvance
  <1>3. ImpressionsCounted'
    BY <1>1 DEF RateInv, ImpressionsCounted, DoneWith
  <1> QED
    BY <1>2, <1>3 DEF RateInv

(* The impression is sent for the entries of the elements notified of, and *)
(* for no other.                                                           *)
LEMMA ImpressionsSent ==
    ASSUME RateInv, sent' = CountImpressions
    PROVE  /\ sent' \in [impressions : [Token -> Nat], click : SUBSET Token]
           /\ \A k \in Token :
                 sent'.impressions[k] = IF k \in Impressed(notified)
                                        THEN sent.impressions[k] + 1 ELSE sent.impressions[k]
           /\ \A i \in DOMAIN state :
                 state[i].funnelEntryToken \in Impressed(notified)
                     <=> ElementOf[state[i].selector] \in notified
           /\ \A k \in Impressed(notified) : k <= starts
  <1>1. sent.impressions \in [Token -> Nat] /\ sent.click \in SUBSET Token
    BY DEF RateInv, RateType
  <1> DEFINE counted == [k \in Token |-> IF k \in Impressed(notified)
                                         THEN sent.impressions[k] + 1 ELSE sent.impressions[k]]
  <1>2. counted \in [Token -> Nat]
    BY <1>1
  <1>3. sent' = [sent EXCEPT !.impressions = counted]
    BY DEF CountImpressions
  <1>4. \A k \in Token :
            counted[k] = IF k \in Impressed(notified)
                         THEN sent.impressions[k] + 1 ELSE sent.impressions[k]
    OBVIOUS
  <1> HIDE DEF counted
  <1>5. /\ sent' \in [impressions : [Token -> Nat], click : SUBSET Token]
        /\ sent'.impressions = counted
    BY <1>1, <1>2, <1>3 DEF RateInv, RateType
  <1>6. \A i \in DOMAIN state :
            state[i].funnelEntryToken \in Impressed(notified)
                <=> ElementOf[state[i].selector] \in notified
    BY DEF Impressed, RateInv, ListInv, SelectorOnce
  <1>7. \A k \in Impressed(notified) : k <= starts
    BY DEF Impressed, RateInv, ListInv, TokensGenerated
  <1> QED
    BY <1>4, <1>5, <1>6, <1>7

LEMMA NotifyStep ==
    ASSUME RateInv, Notify
    PROVE  RateInv'
  <1>1. /\ sent' = CountImpressions
        /\ observed' = observed \ notified /\ notified' = {}
        /\ UNCHANGED <<state, handles, starts>>
    BY DEF Notify
  <1>2. /\ sent' \in [impressions : [Token -> Nat], click : SUBSET Token]
        /\ \A k \in Token :
              sent'.impressions[k] = IF k \in Impressed(notified)
                                     THEN sent.impressions[k] + 1 ELSE sent.impressions[k]
        /\ \A i \in DOMAIN state :
              state[i].funnelEntryToken \in Impressed(notified)
                  <=> ElementOf[state[i].selector] \in notified
        /\ \A k \in Impressed(notified) : k <= starts
    BY <1>1, ImpressionsSent
  <1>3. RateType' /\ ListInv'
    BY <1>1, <1>2 DEF RateInv, RateType, ListInv, SelectorOnce, TokensGenerated, SinglesFirst
  <1>4. NoneInAdvance'
    <2> SUFFICES ASSUME NEW k \in Token, k > starts
                 PROVE  sent'.impressions[k] = 0
      BY <1>1 DEF NoneInAdvance
    <2>1. k \notin Impressed(notified)
      <3>1. k \in Nat /\ starts \in Nat
        BY Listed DEF Token
      <3> QED
        BY <1>2, <3>1
    <2>2. sent.impressions[k] = 0
      BY DEF RateInv, NoneInAdvance
    <2> QED
      BY <1>2, <2>1, <2>2
  <1>5. ImpressionsCounted'
    <2> SUFFICES ASSUME NEW i \in DOMAIN state, Unshared(state[i].selector)
                 PROVE  DoneWith(i)'
      BY <1>1 DEF ImpressionsCounted
    <2> DEFINE k == state[i].funnelEntryToken
               element == ElementOf[state[i].selector]
    <2>1. k \in Token
      BY Listed
    <2>2. sent.impressions[k] \in Nat
      BY <2>1 DEF RateInv, RateType
    <2>3. /\ sent.impressions[k] <= 1
          /\ sent.impressions[k] = 1 => element \notin observed /\ element \notin notified
      BY DEF RateInv, ImpressionsCounted, DoneWith
    <2>4. /\ sent'.impressions[k] = IF element \in notified
                                    THEN sent.impressions[k] + 1 ELSE sent.impressions[k]
      BY <1>2, <2>1
    <2> HIDE DEF k, element
    <2>5. /\ sent'.impressions[k] <= 1
          /\ sent'.impressions[k] = 1 => element \notin observed' /\ element \notin notified'
      BY <1>1, <2>2, <2>3, <2>4
    <2> QED
      BY <1>1, <2>5 DEF DoneWith, k, element
  <1> QED
    BY <1>3, <1>4, <1>5 DEF RateInv

LEMMA ClickStep ==
    ASSUME RateInv, NEW target \in Element, Click(target)
    PROVE  RateInv'
  <1> DEFINE clicked == { state[i].funnelEntryToken : i \in Recipients(target) }
  <1>1. clicked \in SUBSET Token
    BY Listed DEF Recipients
  <1>2. sent' = [sent EXCEPT !.click = clicked] /\ UNCHANGED <<state, observed, notified, handles, starts>>
    BY DEF Click
  <1> HIDE DEF clicked
  <1>3. /\ sent' \in [impressions : [Token -> Nat], click : SUBSET Token]
        /\ sent'.impressions = sent.impressions
    BY <1>1, <1>2 DEF RateInv, RateType
  <1> QED
    BY <1>2, <1>3 DEF RateInv, RateType, ListInv, SelectorOnce, TokensGenerated, SinglesFirst,
                      NoneInAdvance, ImpressionsCounted, DoneWith

LEMMA RateNextHolds ==
    ASSUME RateInv, [RateNext]_rateVars
    PROVE  RateInv'
  <1>1. ASSUME NEW selector \in Selector, NEW single \in BOOLEAN, Start(selector, single)
        PROVE  RateInv'
    BY <1>1, KnownStep, CreatedStep DEF Start
  <1>2. ASSUME NEW element \in Scrolled, Scroll(element)
        PROVE  RateInv'
    BY <1>2 DEF Scroll, RateInv, RateType, ListInv, SelectorOnce, TokensGenerated,
                SinglesFirst, NoneInAdvance, ImpressionsCounted, DoneWith
  <1>3. CASE UNCHANGED rateVars
    BY <1>3 DEF rateVars, RateInv, RateType, ListInv, SelectorOnce, TokensGenerated,
                SinglesFirst, NoneInAdvance, ImpressionsCounted, DoneWith
  <1> QED
    BY <1>1, <1>2, <1>3, StopStep, FrameStep, NotifyStep, ClickStep DEF RateNext

(* However instruments are started and stopped, the list and the           *)
(* impressions sent are in step.                                           *)
THEOREM RateInvariant == RateSpec => []RateInv
  <1>1. RateInit => RateInv
    BY RateInitHolds
  <1>2. RateInv /\ [RateNext]_rateVars => RateInv'
    BY RateNextHolds
  <1> QED
    BY <1>1, <1>2, PTL DEF RateSpec

(***************************************************************************)
(* What the invariant implies                                              *)
(***************************************************************************)
(* start() and stop() keep one entry per selector and one per token, also  *)
(* when stop() is called with a copy whose entry is gone                   *)
(* (ClickThroughRateInstrument.js:139-225).                                *)
THEOREM OneEntryEach == RateSpec => []SelectorOnce
  <1>1. RateInv => SelectorOnce
    BY DEF RateInv, ListInv
  <1> QED
    BY <1>1, RateInvariant, PTL

(* The impression of an entry whose element is its own is sent once at     *)
(* most, whatever is stopped or restarted while a notification waits.      *)
THEOREM OneImpressionEach == RateSpec => []ImpressedOnce
  <1>1. RateInv => ImpressedOnce
    BY DEF RateInv, ImpressionsCounted, DoneWith, ImpressedOnce
  <1> QED
    BY <1>1, RateInvariant, PTL

(* Of the single-click entries around the target of a click the first in   *)
(* the list is the only entry that the click is sent for: those before it  *)
(* in the list track single clicks too, so they are not around the target, *)
(* and those after it are not reached.                                     *)
LEMMA FirstSingle ==
    ASSUME RateInv
    PROVE  SingleGetsClick
  <1> DEFINE Singles(target) ==
                 { i \in DOMAIN state : Around(state[i], target) /\ state[i].trackSingleClick }
             R == {ss \in Nat \X Nat : ss[1] < ss[2]}
  <1> SUFFICES ASSUME NEW target \in Element, Singles(target) # {}
               PROVE  \E i \in Singles(target) : Recipients(target) = {i}
    BY DEF SingleGetsClick
  <1>1. /\ DOMAIN state = 1..Len(state) /\ Len(state) \in Nat
        /\ \A i, j \in DOMAIN state :
              i < j /\ state[j].trackSingleClick => state[i].trackSingleClick
    BY Listed DEF RateInv, ListInv, SinglesFirst
  <1>2. Singles(target) \subseteq Nat
    BY <1>1
  <1>3. PICK p \in Singles(target) : \A i \in Singles(target) : ~ (<<i, p>> \in R)
    <2>1. IsWellFoundedOn(R, Nat)
      BY NatLessThanWellFounded DEF OpToRel
    <2> HIDE DEF R, Singles
    <2> QED
      BY <1>2, <2>1, WFMin
  <1>4. /\ p \in DOMAIN state /\ Around(state[p], target) /\ state[p].trackSingleClick
        /\ \A i \in Singles(target) : ~(i < p)
    BY <1>2, <1>3
  <1>5. p \in Recipients(target)
    <2> SUFFICES ASSUME NEW j \in 1 .. p - 1
                 PROVE  ~(Around(state[j], target) /\ state[j].trackSingleClick)
      BY <1>4 DEF Recipients
    <2>1. j \in DOMAIN state /\ j < p
      BY <1>1, <1>4
    <2> QED
      BY <1>4, <2>1
  <1>6. ASSUME NEW i \in Recipients(target), i # p
        PROVE  FALSE
    <2>1. /\ i \in DOMAIN state /\ Around(state[i], target)
          /\ \A j \in 1 .. i - 1 : ~(Around(state[j], target) /\ state[j].trackSingleClick)
      BY DEF Recipients
    <2>2. CASE i < p
      <3>1. state[i].trackSingleClick
        BY <1>1, <1>4, <2>1, <2>2
      <3> QED
        BY <1>4, <2>1, <2>2, <3>1
    <2>3. CASE p < i
      <3>1. p \in 1 .. i - 1
        BY <1>1, <1>4, <2>1, <2>3
      <3> QED
        BY <1>4, <2>1, <3>1
    <2>4. i < p \/ p < i
      BY <1>1, <1>4, <1>6, <2>1
    <2> QED
      BY <2>2, <2>3, <2>4
  <1>7. Recipients(target) = {p}
    BY <1>5, <1>6
  <1> QED
    BY <1>3, <1>7

(* A click inside nested instruments is not counted twice where one of     *)
(* them asks for it (start and the click listener,                         *)
(* ClickThroughRateInstrument.js:93-137,176-181).                          *)
THEOREM SingleAlone == RateSpec => []SingleGetsClick
  BY RateInvariant, FirstSingle, PTL
=============================================================================
