-------------------------- MODULE AccountCreation --------------------------
(***************************************************************************)
(* From reader to user: the tab of CreateAccount also shows pages of the   *)
(* wiki and the form of Special:UserLogin, and the server logs what is     *)
(* asked of it.                                                            *)
(*                                                                         *)
(* includes/AccountCreation/ tells of impressions, of accounts and of      *)
(* log-ins with their second factors, which it infers from two calls of a  *)
(* hook.  After a sign-up it sends the browser to a URL with               *)
(* accountJustCreated and puts the flag of that name into the page, of     *)
(* which accountCreated.js and attributionResearch.js tell.  The latter    *)
(* keeps in localStorage, which other tabs share, that the browser is no   *)
(* longer part of the experiment.                                          *)
(*                                                                         *)
(* noted, carried, signups, told, left and log are history.                *)
(***************************************************************************)
EXTENDS CreateAccount

CONSTANTS
    Module,  \* the modules of two-factor authentication
    EMAIL    \* the challenge of EmailAuth

ASSUME FactorAssumption ==
    /\ EMAIL \notin Module
    /\ NONE \notin Module \cup {EMAIL} \cup [current : Module, newModule : Module \cup {NONE}]

VARIABLES
    screen,   \* what the tab shows: "form", "page" or "login"
    session,  \* the user of the session, 0 when logged out
    asked,    \* the second factor that the log-in form asks for, or NONE
    param,    \* the URL, or the form's returntoquery, has accountJustCreated
    flag,     \* wgTKAccountJustCreated of the page
    ran,      \* the instruments that ran on the page
    marks,    \* the entries DONE and ERASED of localStorage
    noted,    \* history: no write of an entry has failed, and none is gone
    carried,  \* history: a log-in returned to a URL with accountJustCreated
    signups,  \* history: the accounts that their users signed up for
    told,     \* history: the account_created events until carried
    left,     \* history: the registration and erase_subject events while noted
    log       \* history: the events that the server logged in the last step

view == <<screen, session, asked, param, flag, ran>>
counts == <<noted, carried, signups, told, left>>
allVars == <<vars, view, marks, counts, log>>

Factor == Module \cup {EMAIL}

(***************************************************************************)
(* AccountCreationHandler and AccountCreationLogger                        *)
(***************************************************************************)
Logged(stream, type, mfa) ==
    [stream |-> stream, type |-> type, mfa_type |-> mfa.type, switched_from |-> mfa.from]

(* The requests of a log-in form that asks for factor: a request of        *)
(* EmailAuth, or one of OATHAuth to select a module, whose newModule is    *)
(* set if the form is sent to switch to that.                              *)
Requests(factor, newModule) ==
    [ email  |-> factor = EMAIL,
      switch |-> IF factor \in Module THEN [current |-> factor, newModule |-> newModule] ELSE NONE ]

getMfaData(switch) ==
    IF switch = NONE THEN [type |-> NONE, from |-> NONE]
    ELSE IF switch.newModule = NONE THEN [type |-> switch.current, from |-> NONE]
    ELSE [type |-> switch.newModule, from |-> switch.current]

\* onAuthManagerLoginAuthenticateAudit, after a first call with these requests.
Audit(type, first) == Logged("login", type, getMfaData(first.switch))

\* Mutant of OldestSwitchRequest: that of the second call, if there is one.
LatestSwitchRequest(first, second) ==
    IF second.switch # NONE THEN second.switch ELSE first.switch

OldestSwitchRequest(first, second) ==
    IF first.switch # NONE THEN first.switch ELSE second.switch

\* onAuthChangeFormFields: the first call only keeps its requests.
SecondCall(first, second) ==
    LET switch == OldestSwitchRequest(first, second)
        mfa == getMfaData(switch)
    IN  IF second.email THEN {Logged("login", "emailauth-challenge", getMfaData(NONE))}
        ELSE IF switch = NONE THEN {}
        ELSE {Logged("login", IF mfa.from = NONE THEN "2fa-challenge" ELSE "2fa-switch", mfa)}

\* logPageImpression, and postAccountCreation with its logAccountCreationEvent.
Impression(stream) == Logged(stream, "impression", getMfaData(NONE))
Creation(type) == Logged("register", type, getMfaData(NONE))

\* CreateAccountInstrumentationHandler: a page viewed by a new user, unless
\* the shared domain sent the browser there.
Product(action) == Logged("product", action, getMfaData(NONE))

Pageview(viewer, redirected) ==
    IF viewer = 0 \/ redirected THEN {} ELSE {Product("pageview")}

\* HTMLNoScriptHiddenField is not sent: the tab runs scripts.
NoScript == FALSE

\* testForAccountCreation, of a user who may have to solve a captcha.
Tested(captcha) ==
    (IF NoScript THEN {Product("submit")} ELSE {})
    \cup (IF captcha THEN {Product("captcha_class_serverside")} ELSE {})

\* testForAuthentication, when a log-in begins with a name and a password.
Submitted ==
    IF asked # NONE THEN {}
    ELSE {Logged("user_login", IF NoScript THEN "nojs" ELSE "js", getMfaData(NONE))}

\* onCentralAuthPostLoginRedirect: what becomes of the returntoquery.
ReturnParam(type, query) == query \/ type = "signup"

(***************************************************************************)
(* Pages and forms                                                         *)
(***************************************************************************)
\* onBeforePageDisplay of both handlers, for a page that is no form.
ShowPage(viewer, query, redirected) ==
    /\ screen' = "page" /\ asked' = NONE
    /\ session' = viewer
    /\ param' = query /\ flag' = query
    /\ ran' = {}

Elsewhere == page = "away" /\ screen # "form"

\* What happens on the form of Special:CreateAccount, which sends nothing.
FormStep ==
    /\ \/ Setup \/ Submit \/ Other \/ Blur \/ TrackEarly \/ Advance
       \/ \E f \in Field : Focus(f)
    /\ log' = {}
    /\ UNCHANGED <<view, marks, counts>>

OpenForm ==
    /\ Visit /\ user' = session
    /\ screen' = "form" /\ asked' = NONE
    /\ param' = FALSE /\ flag' = FALSE /\ ran' = {}
    /\ log' = {Impression("register")} \cup Pageview(session, FALSE)
    /\ UNCHANGED <<session, marks, counts>>

\* The form is found wrong, by itself or by AuthManager.  It is posted with
\* an authAction, so there is no impression.
Refused ==
    /\ Rejected
    /\ \E result \in {{}} \cup { Tested(captcha) \cup {Creation("failure")} : captcha \in BOOLEAN } :
           log' = result \cup Pageview(session, FALSE)
    /\ UNCHANGED <<view, marks, counts>>

\* A reader gets an account, and is logged in and sent back; or a user makes
\* one for someone else.
SignUp(captcha) ==
    /\ Leave /\ users' = users + 1
    /\ IF session = 0
       THEN /\ ShowPage(users', ReturnParam("signup", FALSE), TRUE)
            /\ signups' = signups + 1
            /\ log' = Tested(captcha) \cup {Creation("success")}
       ELSE /\ ShowPage(session, FALSE, FALSE)
            /\ log' = Tested(captcha) \cup {Creation("success")} \cup Pageview(session, FALSE)
            /\ UNCHANGED signups
    /\ UNCHANGED <<marks, noted, carried, told, left>>

LeaveForm ==
    /\ Leave /\ users' = users
    /\ ShowPage(session, FALSE, FALSE)
    /\ log' = Pageview(session, FALSE)
    /\ UNCHANGED <<marks, counts>>

\* A page is opened, reloaded, or reloaded after a log-out.
OpenPage(viewer, query) ==
    /\ Elsewhere
    /\ viewer \in {session, 0}
    /\ query => param /\ screen = "page"
    /\ ShowPage(viewer, query, FALSE)
    /\ log' = Pageview(viewer, FALSE)
    /\ UNCHANGED <<vars, marks, counts>>
(***************************************************************************)
(* Special:UserLogin                                                       *)
(***************************************************************************)
\* The link to it takes the query that the server was asked for along.
OpenLogin ==
    /\ Elsewhere /\ session = 0
    /\ screen' = "login" /\ asked' = NONE
    /\ param' = IF screen = "login" THEN param ELSE flag
    /\ flag' = FALSE /\ ran' = {}
    /\ log' = {Impression("login")}
    /\ UNCHANGED <<vars, session, marks, counts>>

\* The user is asked for a factor, again if the answer was wrong, or for
\* another one of the user's choice.
Ask(factor) ==
    /\ screen = "login"
    /\ asked = NONE \/ asked = factor \/ {asked, factor} \subseteq Module
    /\ asked' = factor
    /\ log' = SecondCall(Requests(asked, IF asked \in {NONE, factor} THEN NONE ELSE factor),
                         Requests(factor, NONE)) \cup Submitted
    /\ UNCHANGED <<vars, screen, session, param, flag, ran, marks, counts>>

\* The log-in fails and starts again.
Fail ==
    /\ screen = "login"
    /\ asked' = NONE
    /\ log' = Submitted \cup {Audit("failure", Requests(asked, NONE))}
             \cup SecondCall(Requests(asked, NONE), Requests(NONE, NONE))
    /\ UNCHANGED <<vars, screen, session, param, flag, ran, marks, counts>>

LogIn(viewer) ==
    /\ screen = "login"
    /\ ShowPage(viewer, ReturnParam("", param), TRUE)
    /\ log' = Submitted \cup {Audit("success", Requests(asked, NONE))}
    /\ carried' = (carried \/ param)
    /\ UNCHANGED <<vars, marks, noted, signups, told, left>>

(***************************************************************************)
(* accountCreated.js and attributionResearch.js                            *)
(***************************************************************************)
\* Mutant of removeQueryParam: the URL is left as it is.
KeepQueryParam(query) == query

\* history.replaceState() with accountJustCreated deleted.
removeQueryParam(query) == FALSE

accountCreated ==
    /\ screen = "page" /\ "accountCreated" \notin ran
    /\ ran' = ran \cup {"accountCreated"}
    /\ param' = IF flag THEN removeQueryParam(param) ELSE param
    /\ told' = IF flag /\ ~carried THEN told + 1 ELSE told
    /\ log' = {}
    /\ UNCHANGED <<vars, screen, session, asked, flag, marks, noted, carried, signups, left>>

\* The write can fail.
remember(key) ==
    \/ marks' = marks \cup {key} /\ UNCHANGED noted
    \/ noted' = FALSE /\ UNCHANGED marks

\* main(), of someone in the experiment: reading, or the conversion, or a
\* user who had an account before.
main(created) ==
    IF marks # {} \/ session = 0 THEN UNCHANGED <<marks, noted, left>>
    ELSE /\ remember(IF created THEN "DONE" ELSE "ERASED")
         /\ left' = IF noted' THEN left + 1 ELSE left

Research ==
    /\ screen = "page" /\ "attributionResearch" \notin ran
    /\ ran' = ran \cup {"attributionResearch"}
    /\ main(flag)
    /\ log' = {}
    /\ UNCHANGED <<vars, screen, session, asked, param, flag, carried, signups, told>>

\* Another tab shows a page.
OtherTab ==
    /\ main(FALSE)
    /\ log' = Pageview(session, FALSE)
    /\ UNCHANGED <<vars, view, carried, signups, told>>

\* The entries expire, or the user clears the storage.
Forget ==
    /\ marks # {} /\ marks' = {}
    /\ noted' = FALSE
    /\ log' = {}
    /\ UNCHANGED <<vars, view, carried, signups, told, left>>

AInit ==
    /\ Init
    /\ screen = "page" /\ session = 0 /\ asked = NONE
    /\ param = FALSE /\ flag = FALSE /\ ran = {} /\ marks = {}
    /\ noted = TRUE /\ carried = FALSE
    /\ signups = 0 /\ told = 0 /\ left = 0
    /\ log = {}

ANext ==
    \/ FormStep \/ OpenForm \/ Refused \/ LeaveForm
    \/ \E captcha \in BOOLEAN : SignUp(captcha)
    \/ \E viewer \in 0..users, query \in BOOLEAN : OpenPage(viewer, query)
    \/ OpenLogin \/ Fail
    \/ \E factor \in Factor : Ask(factor)
    \/ \E viewer \in 1..users : LogIn(viewer)
    \/ accountCreated \/ Research \/ OtherTab \/ Forget

ASpec == AInit /\ [][ANext]_allVars

(***************************************************************************)
(* Properties                                                              *)
(***************************************************************************)
(* "To handle all of these scenarios, the first call to this hook just     *)
(* stashes the relevant parameters ... The second call then examines the   *)
(* parameters to both calls" (AccountCreationHandler.php:144): the server  *)
(* logs one event of every challenge that the user is shown, of its kind   *)
(* and with the module that is asked for, as a switch just when that is    *)
(* another one than before, and no challenge otherwise.  A second factor   *)
(* that fails for good is left out: its challenge is logged again.         *)
ChallengeEvents == { e \in log' : e.type \in {"emailauth-challenge", "2fa-challenge", "2fa-switch"} }

Challenged(type, module, from) ==
    ChallengeEvents = {[stream |-> "login", type |-> type, mfa_type |-> module, switched_from |-> from]}

StepLogged ==
    /\ asked' = EMAIL /\ log' # {} => Challenged("emailauth-challenge", NONE, NONE)
    /\ asked' \in Module /\ log' # {} =>
           IF asked \in {NONE, asked'} THEN Challenged("2fa-challenge", asked', NONE)
                                       ELSE Challenged("2fa-switch", asked', asked)
    /\ asked' = NONE /\ asked \notin Module => ChallengeEvents = {}
    /\ (\E e \in log' : e.stream = "login" /\ e.type = "success") => session = 0 /\ session' # 0

LoginStepsLogged == [][StepLogged]_allVars

(* "The theory is that CentralAuthPostLoginRedirect fires once for each    *)
(* account creation" (AccountCreationHandler.php:80): however the tab is   *)
(* reloaded and used by others, no more account_created are sent than      *)
(* accounts were signed up for, as long as no log-in returned to a URL     *)
(* that had the parameter.  And a browser leaves the experiment of         *)
(* attributionResearch.js once, with a registration or without, whatever   *)
(* its tabs and users do, unless localStorage fails.                       *)
ConversionToldOnce == told <= signups /\ left <= 1
=============================================================================
