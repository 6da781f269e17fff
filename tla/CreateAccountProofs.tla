------------------------ MODULE CreateAccountProofs ------------------------
(***************************************************************************)
(* Proofs about CreateAccount for any number of users, visits and fields,  *)
(* and about AccountCreation, which contains it.                           *)
(* Tokens: each that is kept anywhere belongs to the user it was sent for. *)
(* Times: only the field that has the focus has a listener of its blur,    *)
(* and the fields and the visit are timed from within one interaction.     *)
(***************************************************************************)
EXTENDS AccountCreation, TLAPS

(* Tokens that are kept were sent for the user they are kept for, and, as  *)
(* long as the storage works, every user who sent an event has one.        *)
Owned ==
    /\ \A e, f \in sent : e[2] = f[2] => e[1] = f[1]
    /\ \A u \in 0..MaxUsers : storage[u] # NONE => <<u, storage[u]>> \in sent
    /\ token # NONE => <<user, token>> \in sent
    /\ kept => \A e \in sent : storage[e[1]] = e[2]

(* A listener waits for the blur of the field that has the focus.          *)
Listening ==
    /\ page = "away" => focused = NONE
    /\ page # "away" => \A f \in Field : blurs[f] # {} =>
           /\ focused = f /\ blurs[f] = {focusedAt} /\ focusedAt # NONE
           /\ interactionStart # NONE /\ interactionStart <= focusedAt

(* The end of what inFields counts.                                        *)
Counted == IF focused # NONE /\ blurs[focused] # {} THEN focusedAt ELSE now

Interaction ==
    /\ interactionStart = NONE => viewed = 0 /\ inFields = 0
    /\ interactionStart # NONE => viewed = 1 /\ inFields <= Counted - interactionStart
    /\ page = "loaded" => interactionStart = NONE
    /\ page = "ready" => formReady # NONE

IInv == TypeOK /\ Owned /\ Listening /\ Interaction /\ TimesAgree

LEMMA Types ==
    ASSUME IInv
    PROVE  /\ now \in Int /\ now >= 1 /\ NONE \notin Int /\ NONE \notin Field
           /\ focusedAt # NONE => focusedAt \in Int /\ 1 <= focusedAt /\ focusedAt <= now
           /\ interactionStart # NONE =>
                  interactionStart \in Int /\ 1 <= interactionStart /\ interactionStart <= now
           /\ inFields \in Int /\ viewed \in Int
           /\ blurs \in [Field -> SUBSET Time] /\ focused \in Field \cup {NONE}
           /\ MaxUsers \in Nat /\ user \in Nat /\ users \in Nat /\ users <= MaxUsers /\ user <= users
  BY FormAssumption DEF IInv, TypeOK, Time, Field

LEMMA CountedPast ==
    ASSUME IInv
    PROVE  Counted \in Int /\ Counted <= now
  <1>1. CASE focused # NONE /\ blurs[focused] # {}
    <2>1. focusedAt # NONE
      BY <1>1, Types DEF IInv, Listening
    <2> QED
      BY <1>1, <2>1, Types DEF Counted
  <1>2. CASE ~(focused # NONE /\ blurs[focused] # {})
    BY <1>2, Types DEF Counted
  <1> QED
    BY <1>1, <1>2

(***************************************************************************)
(* Sending events                                                          *)
(***************************************************************************)
IdentityType ==
    /\ kept \in BOOLEAN /\ tokens \in Nat
    /\ token \in Token \cup {NONE}
    /\ storage \in [0..MaxUsers -> Token \cup {NONE}]
    /\ sent \subseteq (0..users) \X Token

(* Whoever sends, with whatever the storage does, keeps tokens apart.      *)
LEMMA Sending ==
    ASSUME IInv, NEW events, submitInteraction(events), UNCHANGED user, users' \in users..MaxUsers
    PROVE  Owned' /\ IdentityType' /\ out' = events
  <1>1. /\ user \in 0..users /\ users \in 0..MaxUsers /\ user \in 0..MaxUsers
        /\ MaxUsers \in Nat /\ users' \in Nat /\ users <= users' /\ tokens \in Nat /\ kept \in BOOLEAN
        /\ NONE \notin Int /\ token \in Token \cup {NONE}
        /\ storage \in [0..MaxUsers -> Token \cup {NONE}]
        /\ Stored = storage[user] /\ Stored \in Token \cup {NONE}
    BY FormAssumption DEF IInv, TypeOK, Stored, Key
  <1>2. /\ sent \subseteq (0..users) \X Token /\ Owned
        /\ \A e \in sent : e = <<e[1], e[2]>> /\ e[1] \in 0..users /\ e[2] \in Token
    BY DEF IInv, TypeOK
  <1>3. CASE events = {}
    <2>1. UNCHANGED <<token, storage, tokens, sent, kept>>
      BY <1>3 DEF submitInteraction, identity
    <2>2. sent' \subseteq (0..users') \X Token
      BY <1>1, <1>2, <2>1
    <2> QED
      BY <1>1, <1>2, <1>3, <2>1, <2>2 DEF Owned, IdentityType, Token, submitInteraction
  <1>4. CASE events # {} /\ token # NONE
    <2>1. /\ token' = token /\ tokens' = tokens /\ sent' = sent \cup {<<user, token>>}
          /\ UNCHANGED <<storage, kept>>
      BY <1>4 DEF submitInteraction, funnelEntryToken
    <2>2. sent' = sent
      BY <1>2, <1>4, <2>1 DEF Owned
    <2>3. sent' \subseteq (0..users') \X Token
      BY <1>1, <1>2, <2>2
    <2> QED
      BY <1>1, <1>2, <1>4, <2>1, <2>2, <2>3 DEF Owned, IdentityType, Token, submitInteraction
  <1>5. CASE events # {} /\ token = NONE /\ Stored # NONE
    <2>1. /\ token' = Stored /\ tokens' = tokens /\ sent' = sent \cup {<<user, Stored>>} /\ kept' = kept
          /\ storage' = [storage EXCEPT ![user] = Stored]
      BY <1>5 DEF submitInteraction, funnelEntryToken, Key
    <2>2. sent' = sent /\ <<user, Stored>> \in sent
      BY <1>1, <1>2, <1>5, <2>1 DEF Owned
    <2>3. storage' = storage
      BY <1>1, <2>1
    <2>4. sent' \subseteq (0..users') \X Token
      BY <1>1, <1>2, <2>2
    <2> QED
      BY <1>1, <1>2, <1>5, <2>1, <2>2, <2>3, <2>4 DEF Owned, IdentityType, Token, submitInteraction
  <1>6. CASE events # {} /\ token = NONE /\ Stored = NONE
    <2> DEFINE new == tokens + 1
    <2>1. /\ token' = new /\ tokens' = new /\ sent' = sent \cup {<<user, new>>} /\ out' = events
          /\ \/ storage' = [storage EXCEPT ![user] = new] /\ kept' = kept
             \/ kept' = FALSE /\ storage' = storage
      BY <1>6 DEF submitInteraction, funnelEntryToken, Key
    <2>2. /\ new \in Nat /\ new \in Token' /\ new # NONE /\ \A t \in Token : t \in Token' /\ t # new
      BY <1>1, <2>1 DEF Token
    <2> HIDE DEF new
    <2>3. \A e \in sent : e[2] # new
      BY <1>2, <2>2
    <2>4. \A u \in 0..MaxUsers : storage'[u] \in {storage[u], new} /\ (storage'[u] # storage[u] => u = user)
      BY <1>1, <2>1
    <2>5. storage' \in [0..MaxUsers -> Token' \cup {NONE}]
      BY <1>1, <2>1, <2>2
    <2>6. sent' \subseteq (0..users') \X Token'
      BY <1>1, <1>2, <2>1, <2>2
    <2>7. \A e, f \in sent' : e[2] = f[2] => e[1] = f[1]
      BY <1>2, <2>1, <2>3 DEF Owned
    <2>8. \A u \in 0..MaxUsers : storage'[u] # NONE => <<u, storage'[u]>> \in sent'
      BY <1>1, <1>2, <2>1, <2>4 DEF Owned
    <2>9. ASSUME kept', NEW e \in sent'
          PROVE  storage'[e[1]] = e[2]
      <3>1. kept /\ storage' = [storage EXCEPT ![user] = new]
        BY <1>1, <2>1, <2>9
      <3>2. CASE e = <<user, new>>
        BY <1>1, <3>1, <3>2
      <3>3. CASE e \in sent
        <4>1. storage[e[1]] = e[2] /\ e[2] # NONE /\ e[1] \in 0..MaxUsers
          BY <1>1, <1>2, <3>1, <3>3 DEF Owned, Token
        <4>2. e[1] # user
          BY <1>1, <1>6, <4>1
        <4> QED
          BY <1>1, <3>1, <4>1, <4>2
      <3> QED
        BY <2>1, <3>2, <3>3
    <2> QED
      BY <1>1, <2>1, <2>2, <2>5, <2>6, <2>7, <2>8, <2>9 DEF Owned, IdentityType
  <1> QED
    BY <1>3, <1>4, <1>5, <1>6

(* What there is to show of the form, when something may be sent.          *)
FormType ==
    /\ now \in Nat \ {0}
    /\ pages \in Nat /\ page \in {"away", "loaded", "ready"}
    /\ focused \in Field \cup {NONE} /\ focusedAt \in Time \cup {NONE}
    /\ pending \in BOOLEAN
    /\ formReady \in Time \cup {NONE} /\ interactionStart \in Time \cup {NONE}
    /\ blurs \in [Field -> SUBSET Time]
    /\ viewed \in Nat /\ inFields \in Int

FormInv == FormType /\ Listening /\ Interaction

LEMMA FormHolds ==
    ASSUME IInv
    PROVE  FormInv /\ viewed <= 1
  BY DEF IInv, TypeOK, FormInv, FormType, Interaction

LEMMA SendingStep ==
    ASSUME IInv, NEW events, submitInteraction(events), UNCHANGED user, users' \in users..MaxUsers,
           FormInv',
           \A e \in events :
               /\ e.action = "blur" => Told(e) = now' - focusedAt'
               /\ e.action = "submit" => viewed' = 1 /\ Told(e) >= inFields'
    PROVE  IInv'
  <1>1. Owned' /\ IdentityType' /\ out' = events
    BY Sending
  <1>2. user' \in 0..users' /\ users' \in 0..MaxUsers
    BY Types
  <1>3. TypeOK'
    BY <1>1, <1>2 DEF TypeOK, FormInv, FormType, IdentityType
  <1>4. viewed' <= 1
    BY DEF FormInv, Interaction
  <1>5. TimesAgree'
    BY <1>1, <1>4 DEF TimesAgree
  <1> QED
    BY <1>1, <1>3, <1>5 DEF IInv, FormInv

(* A step that leaves the form alone.                                      *)
LEMMA SameForm ==
    ASSUME IInv, UNCHANGED <<now, pages, page, focused, focusedAt, form>>, pending' \in BOOLEAN
    PROVE  FormInv'
  <1>1. UNCHANGED <<formReady, interactionStart, blurs, viewed, inFields>>
    BY DEF form
  <1> QED
    BY <1>1, FormHolds DEF FormInv, FormType, Listening, Interaction, Counted, Time

LEMMA AnEvent ==
    ASSUME NEW action, NEW elapsed \in Int, NONE \notin Int
    PROVE  Event(action, elapsed).action = action /\ Told(Event(action, elapsed)) = elapsed
  BY DEF Event, Told

LEMMA AnotherEvent ==
    ASSUME NEW action, NEW elapsed
    PROVE  Event(action, elapsed).action = action
  BY DEF Event

(***************************************************************************)
(* The instrument                                                          *)
(***************************************************************************)
LEMMA SetupStep ==
    ASSUME IInv, Setup
    PROVE  IInv'
  <1> DEFINE events == IF pending THEN {Event("other", NONE)} ELSE {}
  <1>1. /\ submitInteraction(events) /\ page = "loaded" /\ page' = "ready" /\ pending' = FALSE
        /\ formReady' = now
        /\ UNCHANGED <<now, user, pages, users, focused, focusedAt,
                       interactionStart, blurs, viewed, inFields>>
    BY DEF Setup, focus
  <1>2. \A e \in events : e.action = "other"
    BY AnotherEvent
  <1> HIDE DEF events
  <1>3. now \in Time /\ now # NONE
    BY Types DEF Time
  <1>4. FormType'
    BY <1>1, <1>3, FormHolds DEF FormInv, FormType, Time
  <1>5. Listening' /\ Interaction'
    BY <1>1, <1>3 DEF IInv, Listening, Interaction, Counted
  <1>6. FormInv'
    BY <1>4, <1>5 DEF FormInv
  <1>7. users' \in users..MaxUsers
    BY <1>1, Types
  <1> QED
    BY <1>1, <1>2, <1>6, <1>7, SendingStep

LEMMA SubmitStep ==
    ASSUME IInv, Submit
    PROVE  IInv'
  <1> DEFINE events == IF page = "ready" /\ interactionStart # NONE
                       THEN {Event("submit", now - interactionStart)} ELSE {}
  <1>1. /\ submitInteraction(events)
        /\ UNCHANGED <<now, user, page, pages, users, focused, focusedAt, form, pending, viewed, inFields>>
    BY DEF Submit, tab, focus, form
  <1>2. \A e \in events : /\ e.action = "submit" /\ interactionStart # NONE
                          /\ Told(e) = now - interactionStart
    <2>1. CASE page = "ready" /\ interactionStart # NONE
      <3>1. now - interactionStart \in Int /\ NONE \notin Int
        BY <2>1, Types
      <3>2. events = {Event("submit", now - interactionStart)}
        BY <2>1
      <3> QED
        BY <2>1, <3>1, <3>2, AnEvent
    <2>2. CASE ~(page = "ready" /\ interactionStart # NONE)
      BY <2>2
    <2> QED
      BY <2>1, <2>2
  <1> HIDE DEF events
  <1>3. \A e \in events : viewed' = 1 /\ Told(e) >= inFields'
    <2> SUFFICES ASSUME NEW e \in events
                 PROVE  viewed = 1 /\ Told(e) >= inFields
      BY <1>1
    <2>1. interactionStart # NONE /\ Told(e) = now - interactionStart
      BY <1>2
    <2>2. viewed = 1 /\ inFields <= Counted - interactionStart
      BY <2>1 DEF IInv, Interaction
    <2> QED
      BY <2>1, <2>2, CountedPast, Types
  <1>4. FormInv'
    BY <1>1, SameForm DEF IInv, TypeOK
  <1>5. users' \in users..MaxUsers
    BY <1>1, Types
  <1> QED
    BY <1>1, <1>2, <1>3, <1>4, <1>5, SendingStep

LEMMA OtherStep ==
    ASSUME IInv, Other
    PROVE  IInv'
  <1> DEFINE events == {Event("other", NONE)}
  <1>1. /\ submitInteraction(events)
        /\ UNCHANGED <<now, user, page, pages, users, focused, focusedAt, form, pending>>
    BY DEF Other, tab, focus
  <1>2. \A e \in events : e.action = "other"
    BY AnotherEvent
  <1> HIDE DEF events
  <1>3. FormInv'
    BY <1>1, SameForm DEF IInv, TypeOK
  <1>4. users' \in users..MaxUsers
    BY <1>1, Types
  <1> QED
    BY <1>1, <1>2, <1>3, <1>4, SendingStep

LEMMA FocusStep ==
    ASSUME IInv, NEW f \in Field, Focus(f)
    PROVE  IInv'
  <1>1. /\ page # "away" /\ focused = NONE /\ focused' = f /\ focusedAt' = now /\ OnFocus(f)
        /\ UNCHANGED <<now, user, page, pages, users, pending>>
    BY DEF Focus, tab
  <1>2. /\ now \in Nat \ {0} /\ now \in Time /\ now # NONE /\ f # NONE /\ users' \in users..MaxUsers
        /\ \A g \in Field : blurs[g] = {}
    BY <1>1, Types DEF IInv, Listening, TypeOK, Time
  <1>3. CASE page = "ready"
    <2> DEFINE events == IF Begins THEN {Event("view", now - formReady)} ELSE {}
    <2>1. /\ submitInteraction(events)
          /\ interactionStart' = IF interactionStart = NONE THEN now ELSE interactionStart
          /\ blurs' = IF f \in Named THEN [blurs EXCEPT ![f] = @ \cup {now}] ELSE blurs
          /\ viewed' = IF interactionStart = NONE THEN viewed + 1 ELSE viewed
          /\ UNCHANGED <<formReady, inFields>>
      BY <1>1, <1>3 DEF OnFocus, Begins
    <2>2. \A e \in events : e.action = "view"
      BY AnotherEvent
    <2> HIDE DEF events
    <2>3. \A g \in Field : blurs'[g] = IF g = f /\ f \in Named THEN {now} ELSE {}
      BY <1>2, <2>1, Types
    <2>4. /\ blurs' \in [Field -> SUBSET Time]
          /\ interactionStart' \in Time /\ interactionStart' <= now /\ interactionStart' # NONE
      BY <1>2, <2>1, Types DEF Time
    <2>5. FormType'
      BY <1>1, <1>2, <2>1, <2>4, FormHolds DEF FormInv, FormType, Time
    <2>6. Listening'
      BY <1>1, <1>2, <2>3, <2>4 DEF Listening
    <2>7. Counted' = now
      BY <1>1, <2>3 DEF Counted
    <2>8. viewed' = 1 /\ inFields <= now - interactionStart'
      <3>1. CASE interactionStart = NONE
        BY <2>1, <3>1, <1>2 DEF IInv, Interaction
      <3>2. CASE interactionStart # NONE
        BY <1>1, <2>1, <3>2 DEF IInv, Interaction, Counted
      <3> QED
        BY <3>1, <3>2
    <2>9. Interaction'
      BY <1>1, <1>3, <2>1, <2>4, <2>7, <2>8 DEF IInv, Interaction
    <2> QED
      BY <1>1, <1>2, <2>1, <2>2, <2>5, <2>6, <2>9, SendingStep DEF FormInv
  <1>4. CASE page # "ready"
    <2>1. submitInteraction({}) /\ UNCHANGED <<formReady, interactionStart, blurs, viewed, inFields>>
      BY <1>1, <1>4 DEF OnFocus, form
    <2>2. Counted' = now
      BY <1>1, <1>2, <2>1 DEF Counted
    <2>3. FormInv'
      BY <1>1, <1>2, <1>4, <2>1, <2>2, FormHolds DEF FormInv, FormType, Listening, Interaction, Time
    <2> QED
      BY <1>1, <1>2, <2>1, <2>3, SendingStep
  <1> QED
    BY <1>3, <1>4

LEMMA BlurStep ==
    ASSUME IInv, Blur
    PROVE  IInv'
  <1> DEFINE events == {Event("blur", now - start) : start \in blurs[focused]}
  <1>1. /\ focused \in Field /\ focused # NONE /\ focused' = NONE
        /\ submitInteraction(events)
        /\ blurs' = [blurs EXCEPT ![focused] = {}]
        /\ inFields' = IF blurs[focused] # {} THEN inFields + now - focusedAt ELSE inFields
        /\ UNCHANGED <<now, user, page, pages, users, pending, focusedAt,
                       formReady, interactionStart, viewed>>
    BY Types DEF Blur, OnBlur, Remaining, tab
  <1>2. page # "away"
    BY <1>1 DEF IInv, Listening
  <1>3. /\ users' \in users..MaxUsers /\ now \in Int /\ focused # NONE
        /\ blurs[focused] # {} => /\ blurs[focused] = {focusedAt} /\ focusedAt # NONE
                                 /\ interactionStart # NONE
    BY <1>1, <1>2, Types DEF IInv, Listening
  <1>4. \A e \in events : e.action = "blur" /\ Told(e) = now - focusedAt
    BY <1>1, <1>3, AnEvent, Types
  <1> HIDE DEF events
  <1>5. /\ blurs' \in [Field -> SUBSET Time] /\ \A g \in Field : blurs'[g] = {}
        /\ inFields' \in Int
    <2>1. \A g \in Field \ {focused} : blurs[g] = {}
      BY <1>2 DEF IInv, Listening
    <2> QED
      BY <1>1, <1>3, <2>1, Types
  <1>6. FormType'
    BY <1>1, <1>5, FormHolds DEF FormInv, FormType, Time
  <1>7. Listening'
    BY <1>1, <1>5 DEF Listening
  <1>8. Interaction'
    <2>1. Counted' = now
      BY <1>1 DEF Counted
    <2>2. interactionStart # NONE => inFields' <= now - interactionStart
      <3>1. CASE blurs[focused] # {}
        <4>1. interactionStart # NONE /\ inFields <= focusedAt - interactionStart
          BY <1>3, <3>1 DEF IInv, Interaction, Counted
        <4> QED
          BY <1>1, <1>3, <3>1, <4>1, Types
      <3>2. CASE blurs[focused] = {}
        BY <1>1, <3>2 DEF IInv, Interaction, Counted
      <3> QED
        BY <3>1, <3>2
    <2>3. interactionStart = NONE => inFields' = 0
      BY <1>1, <1>3 DEF IInv, Interaction
    <2> QED
      BY <1>1, <2>1, <2>2, <2>3 DEF IInv, Interaction
  <1> QED
    BY <1>1, <1>3, <1>4, <1>6, <1>7, <1>8, SendingStep DEF FormInv

(***************************************************************************)
(* The user, the page and the clock                                        *)
(***************************************************************************)
LEMMA TrackEarlyStep ==
    ASSUME IInv, TrackEarly
    PROVE  IInv'
  <1>1. submitInteraction({}) /\ pending' = TRUE
        /\ UNCHANGED <<now, user, page, pages, users, focused, focusedAt, form>>
    BY DEF TrackEarly, tab, focus
  <1>2. FormInv'
    BY <1>1, SameForm
  <1>3. users' \in users..MaxUsers
    BY <1>1, Types
  <1> QED
    BY <1>1, <1>2, <1>3, SendingStep

(* Whoever loads a page begins without a token, and with a fresh form.     *)
LEMMA LoadStep ==
    ASSUME IInv, NEW u \in 0..users, NEW rejected \in BOOLEAN, Load(u, rejected)
    PROVE  IInv'
  <1>1. /\ pages' = pages + 1 /\ user' = u /\ page' = "loaded" /\ pending' = rejected /\ token' = NONE
        /\ formReady' = NONE /\ interactionStart' = NONE /\ blurs' = NoListeners
        /\ viewed' = 0 /\ inFields' = 0 /\ focused' = NONE /\ out' = {}
        /\ UNCHANGED <<now, users, storage, tokens, sent, kept, focusedAt>>
    BY DEF Load
  <1>2. blurs' \in [Field -> SUBSET Time] /\ \A f \in Field : blurs'[f] = {}
    BY <1>1 DEF NoListeners
  <1>3. TypeOK'
    BY <1>1, <1>2 DEF IInv, TypeOK, Time, Token
  <1>4. Owned'
    BY <1>1 DEF IInv, Owned
  <1>5. Listening' /\ Interaction' /\ TimesAgree'
    BY <1>1, <1>2 DEF Listening, Interaction, TimesAgree
  <1> QED
    BY <1>3, <1>4, <1>5 DEF IInv

LEMMA LeaveStep ==
    ASSUME IInv, Leave
    PROVE  IInv'
  <1>1. /\ submitInteraction({}) /\ page # "away" /\ page' = "away"
        /\ users' \in {users, users + 1} /\ users' <= MaxUsers /\ focused' = NONE
        /\ UNCHANGED <<now, user, pages, form, focusedAt, pending>>
    BY DEF Leave
  <1>2. UNCHANGED <<formReady, interactionStart, blurs, viewed, inFields>>
    BY <1>1 DEF form
  <1>3. users' \in users..MaxUsers
    BY <1>1, Types
  <1>4. Counted' = now
    BY <1>1 DEF Counted
  <1>5. interactionStart # NONE => inFields <= now - interactionStart
    BY CountedPast, Types DEF IInv, Interaction
  <1>6. FormInv'
    BY <1>1, <1>2, <1>4, <1>5, FormHolds DEF FormInv, FormType, Listening, Interaction, Time
  <1> QED
    BY <1>1, <1>3, <1>6, SendingStep

LEMMA AdvanceStep ==
    ASSUME IInv, Advance
    PROVE  IInv'
  <1>1. /\ submitInteraction({}) /\ now' = now + 1
        /\ UNCHANGED <<user, page, pages, users, focused, focusedAt, pending,
                       formReady, interactionStart, blurs, viewed, inFields>>
    BY DEF Advance, tab, focus, form
  <1>2. /\ users' \in users..MaxUsers /\ now' \in Nat \ {0}
        /\ \A t \in Time : t \in Time'
    BY <1>1, Types DEF Time
  <1>3. FormType'
    <2>1. blurs \in [Field -> SUBSET Time']
      BY <1>2, Types
    <2> QED
      BY <1>1, <1>2, <2>1, FormHolds DEF FormInv, FormType
  <1>4. Listening'
    BY <1>1 DEF IInv, Listening
  <1>5. Interaction'
    <2>1. Counted <= Counted' /\ Counted \in Int /\ Counted' \in Int
      <3>1. CASE focused # NONE /\ blurs[focused] # {}
        BY <1>1, <3>1, CountedPast DEF Counted
      <3>2. CASE ~(focused # NONE /\ blurs[focused] # {})
        BY <1>1, <3>2, Types DEF Counted
      <3> QED
        BY <3>1, <3>2
    <2>2. interactionStart # NONE => inFields <= Counted' - interactionStart
      BY <2>1, Types DEF IInv, Interaction
    <2> QED
      BY <1>1, <2>2 DEF IInv, Interaction
  <1> QED
    BY <1>1, <1>2, <1>3, <1>4, <1>5, SendingStep DEF FormInv

LEMMA SameStep ==
    ASSUME IInv, UNCHANGED vars
    PROVE  IInv'
  <1>1. /\ UNCHANGED <<now, user, page, pages, users, focused, focusedAt, pending, out>>
        /\ UNCHANGED <<token, storage, tokens, sent, kept>>
        /\ UNCHANGED <<formReady, interactionStart, blurs, viewed, inFields>>
    BY DEF vars, tab, identity, form, focus
  <1> QED
    BY <1>1 DEF IInv, TypeOK, Owned, Listening, Interaction, Counted, TimesAgree, Time, Token

LEMMA NextHolds ==
    ASSUME IInv, [Next]_vars
    PROVE  IInv'
  <1>1. CASE Visit
    BY <1>1, LoadStep DEF Visit
  <1>2. CASE Rejected
    BY <1>2, LoadStep, Types DEF Rejected, IInv, TypeOK
  <1> QED
    BY <1>1, <1>2, SetupStep, SubmitStep, OtherStep, FocusStep, BlurStep, TrackEarlyStep, LeaveStep,
       AdvanceStep, SameStep DEF Next

LEMMA InitHolds ==
    ASSUME Init
    PROVE  IInv
  <1>1. MaxUsers \in Nat /\ NONE \notin Int
    BY FormAssumption
  <1>2. blurs \in [Field -> SUBSET Time] /\ \A f \in Field : blurs[f] = {}
    BY DEF Init, NoListeners
  <1>3. storage \in [0..MaxUsers -> Token \cup {NONE}] /\ \A u \in 0..MaxUsers : storage[u] = NONE
    BY DEF Init
  <1>4. TypeOK
    <2>1. kept \in BOOLEAN /\ pending \in BOOLEAN
      BY DEF Init
    <2>2. sent \subseteq (0..users) \X Token
      BY DEF Init
    <2> QED
      BY <1>1, <1>2, <1>3, <2>1, <2>2 DEF Init, TypeOK
  <1>5. Owned
    BY <1>3 DEF Init, Owned
  <1> QED
    BY <1>2, <1>4, <1>5 DEF Init, IInv, Listening, Interaction, TimesAgree

(* IInv holds of every tab, on all pages of Special:CreateAccount.          *)
THEOREM Invariant == Spec => []IInv
  <1>1. Init => IInv
    BY InitHolds
  <1>2. IInv /\ [Next]_vars => IInv'
    BY NextHolds
  <1> QED
    BY <1>1, <1>2, PTL DEF Spec

(* Types, among them that no time and no token is kept that is not past or  *)
(* generated.                                                               *)
THEOREM TypeCorrect == Spec => []TypeOK
  <1>1. IInv => TypeOK
    BY DEF IInv
  <1> QED
    BY <1>1, Invariant, PTL

(* No two users of a tab share a token, and one user has the same on all   *)
(* pages as long as no write to the storage failed.                        *)
THEOREM TokensApart == Spec => []OneTokenPerUser
  <1>1. IInv => OneTokenPerUser
    BY DEF IInv, Owned, OneTokenPerUser
  <1> QED
    BY <1>1, Invariant, PTL

(* A page reports one view, and times that agree with one another, in      *)
(* whatever order fields are focused and the instrument is set up.         *)
THEOREM TimesRight == Spec => []TimesAgree
  <1>1. IInv => TimesAgree
    BY DEF IInv
  <1> QED
    BY <1>1, Invariant, PTL

(***************************************************************************)
(* AccountCreation                                                         *)
(***************************************************************************)
(* The form among the pages and log-ins of its tab does what CreateAccount *)
(* says, so that the theorems above hold of it there.                      *)
THEOREM FormImplements == ASpec => Spec
  <1>1. AInit => Init
    BY DEF AInit
  <1>2. [ANext]_allVars => [Next]_vars
    <2> SUFFICES ASSUME [ANext]_allVars
                 PROVE  [Next]_vars
      OBVIOUS
    <2>1. CASE FormStep
      BY <2>1 DEF FormStep, Next
    <2>2. CASE OpenForm
      BY <2>2 DEF OpenForm, Next
    <2>3. CASE Refused
      BY <2>3 DEF Refused, Next
    <2>4. CASE \E captcha \in BOOLEAN : SignUp(captcha)
      BY <2>4 DEF SignUp, Next
    <2>5. CASE LeaveForm
      BY <2>5 DEF LeaveForm, Next
    <2>6. CASE UNCHANGED vars
      BY <2>6
    <2>7. CASE UNCHANGED allVars
      BY <2>6, <2>7 DEF allVars
    <2> QED
      BY <2>1, <2>2, <2>3, <2>4, <2>5, <2>6, <2>7
         DEF ANext, OpenPage, OpenLogin, Ask, Fail, LogIn, accountCreated, Research, OtherTab, Forget
  <1> QED
    BY <1>1, <1>2, PTL DEF ASpec, Spec

(* What the tab shows, and who it is shown to.                             *)
Shown ==
    /\ screen \in {"form", "page", "login"}
    /\ screen = "form" <=> page # "away"
    /\ asked \in Factor \cup {NONE}
    /\ asked # NONE => screen = "login"
    /\ screen = "login" => session = 0
    /\ session \in 0..users
    /\ param \in BOOLEAN /\ flag \in BOOLEAN

(* An account that is not told of yet has its parameter in the URL of the  *)
(* page, until a log-in carries one on.                                    *)
Telling ==
    /\ told \in Nat /\ signups \in Nat
    /\ told <= signups
    /\ ~carried /\ screen = "page" /\ param => told + 1 <= signups
    /\ screen = "page" /\ flag /\ "accountCreated" \notin ran => param

(* Whoever has left the experiment is remembered.                          *)
Leaving ==
    /\ left \in {0, 1}
    /\ noted /\ left = 1 => marks # {}

AInv == TypeOK /\ Shown /\ Telling /\ Leaving

LEMMA FactorTypes == NONE \notin Factor /\ EMAIL \in Factor /\ EMAIL \notin Module /\ EMAIL # NONE /\ NONE \notin Module
  BY FactorAssumption DEF Factor

LEMMA FormShown ==
    ASSUME AInv, FormStep
    PROVE  Shown' /\ Telling' /\ Leaving'
  <1>1. UNCHANGED <<screen, session, asked, param, flag, ran, marks, noted, carried, signups, told, left>>
    BY DEF FormStep, view, counts
  <1>2. UNCHANGED users /\ (page' = "away" <=> page = "away")
    BY DEF FormStep, Setup, Submit, Other, Blur, TrackEarly, Advance, Focus, tab
  <1> QED
    BY <1>1, <1>2 DEF AInv, Shown, Telling, Leaving

LEMMA ResearchLeaves ==
    ASSUME Leaving, NEW created, main(created)
    PROVE  Leaving'
  <1>1. CASE marks # {} \/ session = 0
    BY <1>1 DEF main, Leaving
  <1>2. CASE ~(marks # {} \/ session = 0)
    <2>1. CASE noted'
      <3>1. noted /\ left = 0 /\ left' = left + 1
        BY <1>2, <2>1 DEF main, remember, Leaving
      <3>2. marks' # {}
        BY <1>2, <2>1 DEF main, remember
      <3> QED
        BY <3>1, <3>2 DEF Leaving
    <2>2. CASE ~noted'
      BY <1>2, <2>2 DEF main, Leaving
    <2> QED
      BY <2>1, <2>2
  <1> QED
    BY <1>1, <1>2

LEMMA AStepHolds ==
    ASSUME AInv, [ANext]_allVars, TypeOK'
    PROVE  AInv'
  <1> USE FactorTypes DEF AInv, ShowPage, view, counts
  <1>0. page \in {"away", "loaded", "ready"} /\ users \in Nat
    BY FormAssumption DEF TypeOK
  <1>1. CASE FormStep
    BY <1>1, FormShown
  <1>2. CASE OpenForm
    <2>1. /\ page' = "loaded" /\ users' = users /\ screen' = "form" /\ asked' = NONE
          /\ param' = FALSE /\ flag' = FALSE
          /\ UNCHANGED <<session, signups, told, left, noted, marks>>
      BY <1>2 DEF OpenForm, Visit, Load
    <2> QED
      BY <2>1 DEF Shown, Telling, Leaving
  <1>3. CASE Refused
    <2>1. /\ page' = "loaded" /\ page # "away" /\ users' = users
          /\ UNCHANGED <<screen, session, asked, param, flag, ran, marks, noted, carried, signups, told, left>>
      BY <1>3 DEF Refused, Rejected, Load
    <2> QED
      BY <2>1 DEF Shown, Telling, Leaving
  <1>4. ASSUME NEW captcha \in BOOLEAN, SignUp(captcha)
        PROVE  AInv'
    <2>1. /\ page' = "away" /\ screen' = "page" /\ asked' = NONE /\ users' = users + 1
          /\ session' \in {users', session}
          /\ IF session = 0 THEN signups' = signups + 1 ELSE signups' = signups /\ param' = FALSE
          /\ param' = flag' /\ param' \in BOOLEAN
          /\ UNCHANGED <<told, left, noted, marks>>
      BY <1>4 DEF SignUp, Leave, ReturnParam
    <2>2. Shown'
      BY <1>0, <2>1 DEF Shown
    <2> QED
      BY <2>1, <2>2 DEF Telling, Leaving
  <1>5. CASE LeaveForm
    <2>1. /\ page' = "away" /\ screen' = "page" /\ asked' = NONE /\ users' = users /\ session' = session
          /\ param' = FALSE /\ flag' = FALSE
          /\ UNCHANGED <<signups, told, left, noted, marks>>
      BY <1>5 DEF LeaveForm, Leave
    <2> QED
      BY <2>1 DEF Shown, Telling, Leaving
  <1>6. ASSUME NEW viewer \in 0..users, NEW query \in BOOLEAN, OpenPage(viewer, query)
        PROVE  AInv'
    <2>1. /\ page = "away" /\ page' = page /\ screen' = "page" /\ asked' = NONE /\ users' = users
          /\ session' = viewer /\ param' = query /\ flag' = query
          /\ query => param /\ screen = "page"
          /\ UNCHANGED <<signups, told, carried, left, noted, marks>>
      BY <1>6 DEF OpenPage, Elsewhere, vars, tab
    <2> QED
      BY <2>1 DEF Shown, Telling, Leaving
  <1>7. CASE OpenLogin
    <2>1. /\ page = "away" /\ page' = page /\ screen' = "login" /\ asked' = NONE /\ users' = users
          /\ session = 0 /\ flag' = FALSE /\ param' \in BOOLEAN
          /\ UNCHANGED <<session, signups, told, carried, left, noted, marks>>
      BY <1>7 DEF OpenLogin, Elsewhere, vars, tab, Shown
    <2> QED
      BY <2>1 DEF Shown, Telling, Leaving
  <1>8. ASSUME NEW factor \in Factor, Ask(factor)
        PROVE  AInv'
    <2>1. /\ UNCHANGED <<page, users, screen, session, param, flag, ran, signups, told, carried, left, noted, marks>>
          /\ screen = "login" /\ asked' = factor
      BY <1>8 DEF Ask, vars, tab
    <2> QED
      BY <2>1 DEF Shown, Telling, Leaving
  <1>9. CASE Fail
    <2>1. /\ UNCHANGED <<page, users, screen, session, param, flag, ran, signups, told, carried, left, noted, marks>>
          /\ screen = "login" /\ asked' = NONE
      BY <1>9 DEF Fail, vars, tab
    <2> QED
      BY <2>1 DEF Shown, Telling, Leaving
  <1>10. ASSUME NEW viewer \in 1..users, LogIn(viewer)
         PROVE  AInv'
    <2>1. /\ screen = "login" /\ screen' = "page" /\ asked' = NONE /\ session' = viewer
          /\ param' = param /\ flag' = param /\ carried' = (carried \/ param)
          /\ UNCHANGED <<page, users, signups, told, left, noted, marks>>
      BY <1>10 DEF LogIn, ReturnParam, vars, tab, Shown
    <2> QED
      BY <1>0, <2>1 DEF Shown, Telling, Leaving
  <1>11. CASE accountCreated
    <2>1. /\ UNCHANGED <<page, users, screen, session, asked, flag, signups, carried, left, noted, marks>>
          /\ screen = "page" /\ "accountCreated" \notin ran /\ ran' = ran \cup {"accountCreated"}
          /\ param' = IF flag THEN FALSE ELSE param
          /\ told' = IF flag /\ ~carried THEN told + 1 ELSE told
      BY <1>11 DEF accountCreated, removeQueryParam, vars, tab
    <2>2. Shown' /\ Leaving'
      BY <2>1 DEF Shown, Leaving
    <2>3. CASE flag
      <3>1. param
        BY <2>1, <2>3 DEF Telling
      <3>2. param' = FALSE /\ ~carried => told + 1 <= signups
        BY <2>1, <2>3, <3>1 DEF Telling
      <3> QED
        BY <2>1, <2>2, <2>3, <3>2 DEF Telling
    <2>4. CASE ~flag
      BY <2>1, <2>2, <2>4 DEF Telling
    <2> QED
      BY <2>3, <2>4
  <1>12. CASE Research
    <2>1. /\ UNCHANGED <<page, users, screen, session, asked, param, flag, signups, carried, told>>
          /\ ran' = ran \cup {"attributionResearch"} /\ main(flag)
      BY <1>12 DEF Research, vars, tab
    <2>2. Leaving'
      BY <2>1, ResearchLeaves
    <2> QED
      BY <2>1, <2>2 DEF Shown, Telling
  <1>13. CASE OtherTab
    <2>1. /\ UNCHANGED <<page, users, screen, session, asked, param, flag, ran, signups, carried, told>>
          /\ main(FALSE)
      BY <1>13 DEF OtherTab, vars, tab
    <2>2. Leaving'
      BY <2>1, ResearchLeaves
    <2> QED
      BY <2>1, <2>2 DEF Shown, Telling
  <1>14. CASE Forget
    <2>1. /\ UNCHANGED <<page, users, screen, session, asked, param, flag, ran, signups, carried, told, left>>
          /\ noted' = FALSE
      BY <1>14 DEF Forget, vars, tab
    <2> QED
      BY <2>1 DEF Shown, Telling, Leaving
  <1>15. CASE UNCHANGED allVars
    BY <1>15 DEF allVars, vars, tab, Shown, Telling, Leaving
  <1> QED
    BY <1>1, <1>2, <1>3, <1>4, <1>5, <1>6, <1>7, <1>8, <1>9, <1>10, <1>11, <1>12, <1>13, <1>14, <1>15
       DEF ANext

LEMMA AInvariant == ASpec => []AInv
  <1>1. AInit /\ TypeOK => AInv
    <2> SUFFICES ASSUME AInit, TypeOK
                 PROVE  Shown /\ Telling /\ Leaving
      BY DEF AInv
    <2>1. Shown
      <3>1. users = 0 /\ page = "away" /\ session = 0 /\ screen = "page" /\ asked = NONE
        BY DEF AInit, Init
      <3>2. param = FALSE /\ flag = FALSE
        BY DEF AInit
      <3>3. session \in 0..users /\ asked \in Factor \cup {NONE}
        BY <3>1
      <3>4. param \in BOOLEAN /\ flag \in BOOLEAN
        BY <3>2
      <3> QED
        BY <3>1, <3>3, <3>4 DEF Shown
    <2>2. Telling
      BY DEF AInit, Telling
    <2>3. Leaving
      BY DEF AInit, Leaving
    <2> QED
      BY <2>1, <2>2, <2>3
  <1>2. AInv /\ [ANext]_allVars /\ TypeOK' => AInv'
    BY AStepHolds
  <1>3. ASpec => []TypeOK
    BY FormImplements, TypeCorrect, PTL
  <1> QED
    BY <1>1, <1>2, <1>3, PTL DEF ASpec

(* No account is told of twice, and no browser leaves the experiment twice *)
(* (accountCreated.js:31-39, attributionResearch.js:50-144), for any       *)
(* number of users, reloads, log-outs and other tabs.                      *)
THEOREM ToldOnce == ASpec => []ConversionToldOnce
  <1>1. AInv => ConversionToldOnce
    BY DEF AInv, Telling, Leaving, ConversionToldOnce
  <1> QED
    BY <1>1, AInvariant, PTL

(***************************************************************************)
(* The events of a log-in                                                  *)
(***************************************************************************)
(* Events that are neither of a challenge nor of a log-in.                 *)
Unrelated(events) ==
    \A e \in events :
        /\ e.type \notin {"emailauth-challenge", "2fa-challenge", "2fa-switch"}
        /\ ~(e.stream = "login" /\ e.type = "success")

LEMMA UnrelatedEvents ==
    ASSUME NEW viewer, NEW redirected, NEW stream, NEW type \in {"success", "failure"}
    PROVE  /\ Unrelated(Pageview(viewer, redirected))
           /\ Unrelated({Impression(stream)}) /\ Unrelated({Creation(type)})
           /\ \A captcha : Unrelated(Tested(captcha))
  <1>1. Impression(stream).type = "impression"
    BY DEF Impression, Logged
  <1>2. Creation(type).type = type /\ Creation(type).stream = "register"
    BY DEF Creation, Logged
  <1>3. \A e \in Pageview(viewer, redirected) : e.type = "pageview"
    BY DEF Pageview, Product, Logged
  <1>4. \A captcha : \A e \in Tested(captcha) : e.type = "captcha_class_serverside"
    BY DEF Tested, NoScript, Product, Logged
  <1> QED
    BY <1>1, <1>2, <1>3, <1>4 DEF Unrelated

LEMMA SubmittedEvents == \A e \in Submitted : e.type = "js"
  BY DEF Submitted, NoScript, Logged

LEMMA UnrelatedStep ==
    ASSUME AInv, Unrelated(log'), log' = {} \/ asked' = NONE
    PROVE  StepLogged
  BY FactorTypes DEF Unrelated, StepLogged, ChallengeEvents, Challenged

LEMMA MfaData ==
    ASSUME NEW module \in Module, NEW newModule \in Module \cup {NONE}
    PROVE  LET switch == [current |-> module, newModule |-> newModule]
           IN  /\ switch # NONE
               /\ getMfaData(switch) = [type |-> IF newModule = NONE THEN module ELSE newModule,
                                        from |-> IF newModule = NONE THEN NONE ELSE module]
  <1>1. [current |-> module, newModule |-> newModule] # NONE
    BY FactorAssumption
  <1> QED
    BY <1>1, FactorTypes DEF getMfaData

LEMMA AskLogs ==
    ASSUME AInv, NEW factor \in Factor, Ask(factor)
    PROVE  StepLogged
  <1> DEFINE newModule == IF asked \in {NONE, factor} THEN NONE ELSE factor
             first == Requests(asked, newModule)
             second == Requests(factor, NONE)
  <1>1. /\ screen = "login" /\ asked' = factor /\ log' = SecondCall(first, second) \cup Submitted
        /\ asked = NONE \/ asked = factor \/ (asked \in Module /\ factor \in Module)
    BY DEF Ask
  <1>2. factor # NONE
    BY FactorTypes
  <1>3. CASE factor = EMAIL
    <2>1. second.email
      BY <1>3 DEF Requests
    <2>2. log' = {Logged("login", "emailauth-challenge", getMfaData(NONE))} \cup Submitted
      BY <1>1, <2>1 DEF SecondCall
    <2>3. log' = {[stream |-> "login", type |-> "emailauth-challenge", mfa_type |-> NONE, switched_from |-> NONE]} \cup Submitted
      BY <2>2 DEF Logged, getMfaData
    <2> HIDE DEF first, second
    <2> QED
      BY <1>1, <1>2, <1>3, <2>3, FactorTypes, SubmittedEvents DEF StepLogged, ChallengeEvents, Challenged
  <1>4. CASE factor \in Module
    <2>1. ~second.email /\ second.switch = [current |-> factor, newModule |-> NONE] /\ second.switch # NONE
      BY <1>4, MfaData, FactorTypes DEF Requests
    <2>2. CASE asked \in {NONE, factor}
      <3>1. first.switch \in {NONE, second.switch}
        BY <1>4, <2>1, <2>2, FactorTypes DEF Requests
      <3>2. OldestSwitchRequest(first, second) = second.switch
        BY <3>1 DEF OldestSwitchRequest
      <3>3. getMfaData(second.switch) = [type |-> factor, from |-> NONE]
        BY <1>4, <2>1, MfaData
      <3> HIDE DEF first, second
      <3>4. log' = {Logged("login", "2fa-challenge", [type |-> factor, from |-> NONE])} \cup Submitted
        BY <1>1, <2>1, <3>2, <3>3 DEF SecondCall
      <3>5. log' = {[stream |-> "login", type |-> "2fa-challenge", mfa_type |-> factor, switched_from |-> NONE]} \cup Submitted
        BY <3>4 DEF Logged
      <3> QED
        BY <1>1, <1>2, <1>4, <2>2, <3>5, FactorTypes, SubmittedEvents DEF StepLogged, ChallengeEvents, Challenged
    <2>3. CASE asked \notin {NONE, factor}
      <3>1. asked \in Module /\ asked # NONE
        BY <1>1, <2>3
      <3>2. first.switch = [current |-> asked, newModule |-> factor]
        BY <2>3, <3>1 DEF Requests
      <3>3. first.switch # NONE /\ getMfaData(first.switch) = [type |-> factor, from |-> asked]
        BY <1>2, <1>4, <3>1, <3>2, MfaData
      <3> HIDE DEF first, second
      <3>4. OldestSwitchRequest(first, second) = first.switch
        BY <3>3 DEF OldestSwitchRequest
      <3>5. log' = {Logged("login", "2fa-switch", [type |-> factor, from |-> asked])} \cup Submitted
        BY <1>1, <2>1, <3>1, <3>3, <3>4 DEF SecondCall
      <3>6. log' = {[stream |-> "login", type |-> "2fa-switch", mfa_type |-> factor, switched_from |-> asked]} \cup Submitted
        BY <3>5 DEF Logged
      <3> QED
        BY <1>1, <1>2, <1>4, <2>3, <3>1, <3>6, FactorTypes, SubmittedEvents DEF StepLogged, ChallengeEvents, Challenged
    <2> QED
      BY <2>2, <2>3
  <1> QED
    BY <1>3, <1>4 DEF Factor

LEMMA FailLogs ==
    ASSUME AInv, Fail
    PROVE  StepLogged
  <1> DEFINE first == Requests(asked, NONE)
             second == Requests(NONE, NONE)
  <1>1. asked' = NONE /\ log' = Submitted \cup {Audit("failure", first)} \cup SecondCall(first, second)
    BY DEF Fail
  <1>2. Audit("failure", first).type = "failure"
    BY DEF Audit, Logged
  <1>3. ~second.email /\ second.switch = NONE
    BY FactorTypes DEF Requests
  <1>4. asked \notin Module => first.switch = NONE
    BY DEF Requests
  <1> HIDE DEF first, second
  <1>5. \A e \in SecondCall(first, second) : e.type \in {"2fa-challenge", "2fa-switch"}
    BY <1>3 DEF SecondCall, Logged
  <1>6. asked \notin Module => SecondCall(first, second) = {}
    BY <1>3, <1>4 DEF SecondCall, OldestSwitchRequest
  <1>7. \A e \in log' : e.type # "success"
    BY <1>1, <1>2, <1>5, SubmittedEvents
  <1>8. asked \notin Module => ChallengeEvents = {}
    BY <1>1, <1>2, <1>6, SubmittedEvents DEF ChallengeEvents
  <1> QED
    BY <1>1, <1>7, <1>8, FactorTypes DEF StepLogged

LEMMA LogInLogs ==
    ASSUME AInv, NEW viewer \in 1..users, LogIn(viewer)
    PROVE  StepLogged
  <1>1. /\ asked' = NONE /\ session' = viewer /\ session = 0
        /\ log' = Submitted \cup {Audit("success", Requests(asked, NONE))}
    BY DEF LogIn, ShowPage, AInv, Shown
  <1>2. Audit("success", Requests(asked, NONE)).type = "success"
    BY DEF Audit, Logged
  <1>3. viewer # 0
    BY DEF AInv, TypeOK
  <1>4. ChallengeEvents = {}
    BY <1>1, <1>2, SubmittedEvents DEF ChallengeEvents
  <1> QED
    BY <1>1, <1>3, <1>4, FactorTypes DEF StepLogged

LEMMA AStepLogs ==
    ASSUME AInv, [ANext]_allVars
    PROVE  StepLogged \/ UNCHANGED allVars
  <1>1. Unrelated({}) /\ \A S, T : Unrelated(S) /\ Unrelated(T) => Unrelated(S \cup T)
    BY DEF Unrelated
  <1>2. \A viewer, redirected : Unrelated(Pageview(viewer, redirected))
    BY UnrelatedEvents
  <1>3. /\ \A stream : Unrelated({Impression(stream)})
        /\ Unrelated({Creation("success")}) /\ Unrelated({Creation("failure")})
        /\ \A captcha : Unrelated(Tested(captcha))
    BY UnrelatedEvents
  <1>4. page # "away" => asked = NONE
    BY DEF AInv, Shown
  <1>5. CASE FormStep
    BY <1>1, <1>5, UnrelatedStep DEF FormStep
  <1>6. CASE OpenForm
    <2>1. asked' = NONE /\ log' = {Impression("register")} \cup Pageview(session, FALSE)
      BY <1>6 DEF OpenForm
    <2> QED
      BY <1>1, <1>2, <1>3, <2>1, UnrelatedStep
  <1>7. CASE Refused
    <2>1. page # "away" /\ asked' = asked
      BY <1>7 DEF Refused, Rejected, view
    <2>2. PICK result \in {{}} \cup { Tested(captcha) \cup {Creation("failure")} : captcha \in BOOLEAN } :
               log' = result \cup Pageview(session, FALSE)
      BY <1>7 DEF Refused
    <2>3. Unrelated(log')
      BY <1>1, <1>2, <1>3, <2>2
    <2> QED
      BY <1>4, <2>1, <2>3, UnrelatedStep
  <1>8. ASSUME NEW captcha \in BOOLEAN, SignUp(captcha)
        PROVE  StepLogged
    <2>1. /\ asked' = NONE
          /\ \/ log' = Tested(captcha) \cup {Creation("success")}
             \/ log' = Tested(captcha) \cup {Creation("success")} \cup Pageview(session, FALSE)
      BY <1>8 DEF SignUp, ShowPage
    <2> DEFINE created == Tested(captcha) \cup {Creation("success")}
               shown == Pageview(session, FALSE)
    <2>2. Unrelated(created)
      BY <1>1, <1>3
    <2>3. Unrelated(created \cup shown)
      <3>1. Unrelated(shown)
        BY <1>2
      <3> HIDE DEF created, shown
      <3> QED
        BY <1>1, <2>2, <3>1
    <2>4. Unrelated(log')
      BY <2>1, <2>2, <2>3
    <2> QED
      BY <2>1, <2>4, UnrelatedStep
  <1>9. CASE LeaveForm
    <2>1. asked' = NONE /\ log' = Pageview(session, FALSE)
      BY <1>9 DEF LeaveForm, ShowPage
    <2> QED
      BY <1>2, <2>1, UnrelatedStep
  <1>10. ASSUME NEW viewer \in 0..users, NEW query \in BOOLEAN, OpenPage(viewer, query)
         PROVE  StepLogged
    <2>1. asked' = NONE /\ log' = Pageview(viewer, FALSE)
      BY <1>10 DEF OpenPage, ShowPage
    <2> QED
      BY <1>2, <2>1, UnrelatedStep
  <1>11. CASE OpenLogin
    <2>1. asked' = NONE /\ log' = {Impression("login")}
      BY <1>11 DEF OpenLogin
    <2> QED
      BY <1>3, <2>1, UnrelatedStep
  <1>12. CASE accountCreated \/ Research \/ Forget
    <2>1. log' = {}
      BY <1>12 DEF accountCreated, Research, Forget
    <2> QED
      BY <1>1, <2>1, UnrelatedStep
  <1>13. CASE OtherTab
    <2>1. asked' = asked /\ log' = Pageview(session, FALSE)
      BY <1>13 DEF OtherTab, view
    <2>2. asked # NONE => log' = {}
      BY <2>1 DEF AInv, Shown, Pageview
    <2> QED
      BY <1>2, <2>1, <2>2, UnrelatedStep
  <1> QED
    BY <1>5, <1>6, <1>7, <1>8, <1>9, <1>10, <1>11, <1>12, <1>13, AskLogs, FailLogs, LogInLogs DEF ANext

(* Every challenge of every log-in is logged once, as what it is, for any  *)
(* modules and any order of switches, wrong answers and failures           *)
(* (AccountCreationHandler.php:113-215).                                   *)
THEOREM LoginStepsRight == ASpec => LoginStepsLogged
  <1>1. AInv /\ [ANext]_allVars => [StepLogged]_allVars
    BY AStepLogs
  <1> QED
    BY <1>1, AInvariant, PTL DEF ASpec, LoginStepsLogged
=============================================================================
