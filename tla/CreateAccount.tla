--------------------------- MODULE CreateAccount ---------------------------
(***************************************************************************)
(* modules/ext.wikimediaEvents/specialCreateAccount/: the instrument of    *)
(* Special:CreateAccount in one tab, from the first visit of the form      *)
(* over rejected submissions to the new account and beyond.                *)
(*                                                                         *)
(* The instrument is set up some time after the form is there, and the     *)
(* user may be filling it in by then.  The token of the funnel is kept in  *)
(* a variable of the page and in the session storage of the tab, where a   *)
(* write can fail.  Events that only carry data are one action, Other.     *)
(*                                                                         *)
(* sent, kept, viewed, focusedAt, inFields and out are history.            *)
(***************************************************************************)
EXTENDS Integers

CONSTANTS
    Named,    \* the fields with an entry in contextsByFieldName
    Unnamed,  \* the other fields
    MaxUsers, \* bound on the accounts
    MaxPages, \* bound on the visits of the form
    MaxNow,   \* bound on Date.now()
    NONE      \* null or undefined

ASSUME FormAssumption ==
    /\ Named \cap Unnamed = {}
    /\ MaxUsers \in Nat /\ MaxPages \in Nat /\ MaxNow \in Nat
    /\ NONE \notin Int \cup Named \cup Unnamed

VARIABLES
    now,
    user,             \* mw.user.getId() of the page, 0 when logged out
    page,             \* "away", "loaded" or, after setupInstrumentation, "ready"
    pages, users,     \* numbers of visits and of accounts so far
    focused,          \* the field that has the focus
    pending,          \* an error to report, or what mw.track keeps till set-up
    token,            \* funnelEntryToken
    storage,          \* the session storage, a token for each user id
    tokens,           \* number of tokens generated
    formReady, interactionStart,
    blurs,            \* of each field the listeners of its blur, as their times
    sent,             \* history: users and tokens of all events
    kept,             \* history: no write to the storage has failed
    viewed,           \* history: the number of views sent by this page
    focusedAt,        \* history: when the focus last began
    inFields,         \* history: the time told by the blurs of this page
    out               \* history: the events sent by the last step

Field == Named \cup Unnamed
tab == <<user, page, pages, users>>
identity == <<token, storage, tokens, sent, kept>>
form == <<formReady, interactionStart, blurs, viewed, inFields>>
focus == <<focused, focusedAt>>
vars == <<now, tab, identity, form, focus, pending, out>>

(***************************************************************************)
(* useInstrument: the function that it returns                             *)
(***************************************************************************)
\* Mutant of Key: one for all users.
KeyOfAll(u) == 0

\* 'SpecialCreateAccountFunnelToken-' + mw.user.getId()
Key(u) == u

Stored == storage[Key(user)]
funnelEntryToken == IF token # NONE THEN token ELSE IF Stored # NONE THEN Stored ELSE tokens + 1

\* An event; data.context is left out when it is 0.
Event(action, elapsed) ==
    [action |-> action, elapsed |-> IF elapsed = 0 THEN NONE ELSE elapsed]

\* The page sends events, the first of which look for the token.
submitInteraction(events) ==
    /\ out' = events
    /\ IF events = {} THEN UNCHANGED identity
       ELSE /\ token' = funnelEntryToken
            /\ tokens' = IF token = NONE /\ Stored = NONE THEN tokens + 1 ELSE tokens
            /\ sent' = sent \cup {<<user, token'>>}
            /\ \/ /\ storage' = IF token = NONE THEN [storage EXCEPT ![Key(user)] = token'] ELSE storage
                  /\ UNCHANGED kept
               \/ /\ token = NONE /\ Stored = NONE
                  /\ kept' = FALSE
                  /\ UNCHANGED storage

(***************************************************************************)
(* setupInstrumentation                                                    *)
(***************************************************************************)
NoListeners == [f \in Field |-> {}]

Setup ==
    /\ page = "loaded" /\ page' = "ready"
    /\ submitInteraction(IF pending THEN {Event("other", NONE)} ELSE {})
    /\ pending' = FALSE
    /\ formReady' = now
    /\ UNCHANGED <<now, user, pages, users, focus,
                   interactionStart, blurs, viewed, inFields>>

\* Mark the first time the user interacts with the form.
Begins == interactionStart = NONE

\* The listener of focus, once it is there.
OnFocus(f) ==
    IF page = "ready"
    THEN /\ submitInteraction(IF Begins THEN {Event("view", now - formReady)} ELSE {})
         /\ interactionStart' = IF Begins THEN now ELSE interactionStart
         /\ blurs' = IF f \in Named THEN [blurs EXCEPT ![f] = @ \cup {now}] ELSE blurs
         /\ viewed' = IF Begins THEN viewed + 1 ELSE viewed
         /\ UNCHANGED <<formReady, inFields>>
    ELSE submitInteraction({}) /\ UNCHANGED form

\* Mutant of Remaining: on( 'blur' ), whose listeners stay.
RemainingAll(f) == blurs[f]

\* one( 'blur' ): a listener is called once.
Remaining(f) == {}

\* Every listener of the field's blur sends its event.
OnBlur(f) ==
    /\ submitInteraction({Event("blur", now - start) : start \in blurs[f]})
    /\ blurs' = [blurs EXCEPT ![f] = Remaining(f)]
    /\ inFields' = IF blurs[f] # {} THEN inFields + now - focusedAt ELSE inFields
    /\ UNCHANGED <<formReady, interactionStart, viewed>>

\* The listener of submit.  The form is either sent, or held back.
Submit ==
    /\ page # "away"
    /\ submitInteraction(IF page = "ready" /\ interactionStart # NONE
                         THEN {Event("submit", now - interactionStart)} ELSE {})
    /\ UNCHANGED <<now, tab, form, focus, pending>>

\* A change of a named field, a click on a link, a validation error, a
\* performance timing or a callback of the captcha.
Other ==
    /\ page = "ready"
    /\ submitInteraction({Event("other", NONE)})
    /\ UNCHANGED <<now, tab, form, focus, pending>>

(***************************************************************************)
(* The user and the page                                                   *)
(***************************************************************************)
Focus(f) ==
    /\ page # "away" /\ focused = NONE
    /\ focused' = f /\ focusedAt' = now
    /\ OnFocus(f)
    /\ UNCHANGED <<now, tab, pending>>

Blur ==
    /\ focused # NONE
    /\ focused' = NONE
    /\ OnBlur(focused)
    /\ UNCHANGED <<now, tab, pending, focusedAt>>

TrackEarly ==
    /\ page = "loaded"
    /\ pending' = TRUE
    /\ submitInteraction({})
    /\ UNCHANGED <<now, tab, form, focus>>

\* The form is loaded: visited by someone, or shown again with an error.
Load(u, rejected) ==
    /\ pages < MaxPages
    /\ pages' = pages + 1
    /\ user' = u /\ page' = "loaded" /\ pending' = rejected
    /\ token' = NONE
    /\ formReady' = NONE /\ interactionStart' = NONE /\ blurs' = NoListeners
    /\ viewed' = 0 /\ inFields' = 0
    /\ focused' = NONE
    /\ out' = {}
    /\ UNCHANGED <<now, users, storage, tokens, sent, kept, focusedAt>>

\* Someone who is logged in or out by now.
Visit == page = "away" /\ \E u \in 0..users : Load(u, FALSE)

Rejected == page # "away" /\ Load(user, TRUE)

\* The user leaves the form, with an account or without.
Leave ==
    /\ page # "away" /\ page' = "away"
    /\ users' \in {users, users + 1} /\ users' <= MaxUsers
    /\ focused' = NONE
    /\ submitInteraction({})
    /\ UNCHANGED <<now, user, pages, form, focusedAt, pending>>

Advance ==
    /\ now < MaxNow
    /\ now' = now + 1
    /\ submitInteraction({})
    /\ UNCHANGED <<tab, form, focus, pending>>

Init ==
    /\ now = 1
    /\ user = 0 /\ page = "away" /\ pages = 0 /\ users = 0
    /\ focused = NONE /\ focusedAt = NONE /\ pending = FALSE
    /\ token = NONE /\ storage = [u \in 0..MaxUsers |-> NONE] /\ tokens = 0
    /\ sent = {} /\ kept = TRUE
    /\ formReady = NONE /\ interactionStart = NONE /\ blurs = NoListeners
    /\ viewed = 0 /\ inFields = 0
    /\ out = {}

Next ==
    \/ Setup \/ Submit \/ Other
    \/ \E f \in Field : Focus(f)
    \/ Blur
    \/ TrackEarly \/ Visit \/ Rejected \/ Leave
    \/ Advance

Spec == Init /\ [][Next]_vars

(***************************************************************************)
(* Properties                                                              *)
(***************************************************************************)
Time == 1..now
Token == 1..tokens

TypeOK ==
    /\ now \in Nat \ {0}
    /\ user \in 0..users /\ users \in 0..MaxUsers /\ pages \in Nat
    /\ page \in {"away", "loaded", "ready"}
    /\ focused \in Field \cup {NONE} /\ focusedAt \in Time \cup {NONE}
    /\ pending \in BOOLEAN /\ kept \in BOOLEAN
    /\ tokens \in Nat
    /\ token \in Token \cup {NONE}
    /\ storage \in [0..MaxUsers -> Token \cup {NONE}]
    /\ sent \subseteq (0..users) \X Token
    /\ formReady \in Time \cup {NONE} /\ interactionStart \in Time \cup {NONE}
    /\ blurs \in [Field -> SUBSET Time]
    /\ viewed \in Nat /\ inFields \in Int

(* "an associated funnel entry token that persists across the flow"        *)
(* (useInstrument.js:28-29): no two users share a token, and the events of *)
(* one user have the same on all pages, unless the storage failed.         *)
OneTokenPerUser ==
    \A e, f \in sent :
        /\ e[2] = f[2] => e[1] = f[1]
        /\ kept /\ e[1] = f[1] => e[2] = f[2]

\* The elapsed time that an event tells.
Told(event) == IF event.elapsed = NONE THEN 0 ELSE event.elapsed

(* "the time between the user selecting and unfocusing the field"          *)
(* (instrumentation.js:84): a blur tells the time since the last focus,    *)
(* however often the field was focused before.  A page reports one view,   *)
(* and only then a submission, whose "overall time" (:114) covers all that *)
(* the blurs told of the single fields.                                    *)
TimesAgree ==
    /\ viewed <= 1
    /\ \A e \in out :
           /\ e.action = "blur" => Told(e) = now - focusedAt
           /\ e.action = "submit" => viewed = 1 /\ Told(e) >= inFields
=============================================================================
