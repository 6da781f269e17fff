--------------------------- MODULE SearchSession ---------------------------
(***************************************************************************)
(* modules/ext.wikimediaEvents/searchSatisfaction/searchSatisfaction.js:   *)
(* the search session that the tabs of a browser share through             *)
(* localStorage, each through its own SessionState, and the events they    *)
(* log for it.                                                             *)
(*                                                                         *)
(* SessionState.get() copies an entry from the storage into `state` the    *)
(* first time it is read, null included, and never looks again.  A step of *)
(* a tab works on a pair [cache, store]: the tab's `state` and the storage *)
(* it shares.  Each handler runs to its end before another tab's.          *)
(*                                                                         *)
(* extended and out are history; no action reads them.                     *)
(***************************************************************************)
EXTENDS Integers

\* Pages of results ("serp"), visited results, pages that an autocomplete result
\* led to, which may be pages of results too, and all others.
PageKind == {"serp", "visit", "suggested", "suggestedSerp", "plain"}

CONSTANTS
    Tab,         \* the tabs
    Kinds,       \* the kinds of pages that are opened
    NULL,        \* null: an entry that does not exist
    MISSING,     \* an entry that `state` does not have
    Test,        \* the tests a backend reports ("inactive" may be one)
    TTL,         \* ttl
    Failures,    \* the sets of entries whose mw.storage.set() can fail together
    MaxSessions, \* bound on the sessions started
    MaxNow       \* bound on the clock

ASSUME SessionAssumption ==
    /\ TTL \in Nat \ {0}
    /\ MaxSessions \in Nat /\ MaxNow \in Nat
    /\ {"pending", "mismatch", NULL, MISSING} \cap Test = {}
    /\ NULL # MISSING
    /\ NULL \notin Int /\ MISSING \notin Int
    /\ {NULL, MISSING} \cap {"pending", "mismatch"} = {}
    /\ Kinds \subseteq PageKind
    /\ \A f \in Failures : f \subseteq {"end", "sid", "sub"}

VARIABLES
    now,       \* Date.now()
    store,     \* the entries __EndTime__, sessionId and subTest
    backend,   \* the test the backend has for this user
    tab,       \* the page of each tab
    used,      \* number of session ids generated
    extended,  \* history: when __EndTime__ was last written, per stored session
    out        \* history: the events logged by the last step

vars == <<now, store, backend, tab, used, extended, out>>

Key == {"end", "sid", "sub"}
Session == 1..MaxSessions
Source == {"fulltext", "autocomplete"}

(***************************************************************************)
(* SessionState.  w is the pair of one tab's cache and the storage.        *)
(***************************************************************************)
\* Mutant of Read: null is looked up again.
ReadAgain(w, key) ==
    IF w.cache[key] \in {MISSING, NULL} THEN [w EXCEPT !.cache[key] = w.store[key]] ELSE w

Read(w, key) ==
    IF w.cache[key] = MISSING THEN [w EXCEPT !.cache[key] = w.store[key]] ELSE w

\* Mutant of Future: the last moment counts as inside.
FutureOrNow(end) == end # NULL /\ end >= now

Future(end) == end # NULL /\ end > now

\* What isActive() leaves in the cache: it reads sessionId only if need be.
Look(w) ==
    LET r == Read(w, "end")
    IN  IF Future(r.cache.end) THEN Read(r, "sid") ELSE r

isActive(w) ==
    LET r == Look(w)
    IN  Future(r.cache.end) /\ r.cache.sid # NULL

Invalidated ==
    [cache |-> [k \in Key |-> MISSING], store |-> [k \in Key |-> NULL]]

Set(w, key, value, fail) ==
    IF key \in fail THEN w
    ELSE [w EXCEPT !.cache[key] = value, !.store[key] = value]

startSession(id) ==
    [Invalidated EXCEPT !.store.end = now + TTL, !.store.sid = id]

\* Mutant of refresh: a lost session is forgotten, but not removed from the
\* storage.
refreshForgetting(w, fail) ==
    IF ~isActive(w) THEN [w EXCEPT !.cache = Invalidated.cache]
    ELSE IF "end" \in fail THEN Look(w)
    ELSE [Look(w) EXCEPT !.store.end = now + TTL]

refresh(w, fail) ==
    LET r == Look(w)
    IN  IF ~isActive(w) THEN Invalidated
        ELSE IF "end" \in fail THEN r
        ELSE [r EXCEPT !.store.end = now + TTL]

\* The subTest part of initialize(), given the page's wgCirrusSearchActiveUserTest.
Unsettled(sub) == sub \in {NULL, "pending"}

\* Mutant of chooseSubTest: no mark that the answer is pending.
chooseUnmarked(w, test, fail) ==
    LET r == Read(w, "sub")
    IN  IF Unsettled(r.cache.sub) /\ test # NULL THEN Set(r, "sub", test, fail) ELSE r

chooseSubTest(w, test, fail) ==
    LET r == Read(w, "sub")
    IN  IF Unsettled(r.cache.sub)
        THEN Set(r, "sub", IF test # NULL THEN test ELSE "pending", fail)
        ELSE IF test \notin {NULL, r.cache.sub} THEN Set(r, "sub", "mismatch", fail)
        ELSE r

initialize(w, id, test, fail) ==
    LET r == Look(w)
    IN  IF isActive(w) THEN chooseSubTest(r, test, fail)
        ELSE IF fail \cap {"end", "sid"} # {} THEN Invalidated
        ELSE chooseSubTest(startSession(id), test, fail)

\* Whether initialize() asks the API for the test.
Asks(w, test, fail) ==
    /\ test = NULL
    /\ IF isActive(w) THEN Unsettled(Read(Look(w), "sub").cache.sub)
                      ELSE fail \cap {"end", "sid"} = {}

(***************************************************************************)
(* Pages.  A page has no session until the first setup() constructs it;    *)
(* logger holds the sessionId that genLogEventFn captured per source.      *)
(***************************************************************************)
isSearchResultPage(kind) == kind \in {"serp", "suggestedSerp"}
isSuggested(kind) == kind \in {"suggested", "suggestedSerp"}

Blank ==
    [ kind    |-> "closed",  \* or one of PageKind
      test    |-> NULL,      \* wgCirrusSearchActiveUserTest
      made    |-> FALSE,     \* session is constructed
      cache   |-> [k \in Key |-> MISSING],
      setups  |-> {},        \* the setups called
      logger  |-> [s \in Source |-> NULL],
      request |-> NULL ]     \* the answer of cirrus-config-dump under way

World(t) == [cache |-> tab[t].cache, store |-> store]

\* logEvent( action ): what it logs, in the world w, for the captured id.
logEvent(w, t, id, action) ==
    LET r == IF action = "checkin" THEN w ELSE Look(w)
    IN  IF action # "checkin" /\ ~isActive(w) THEN {}
        ELSE {[tab |-> t, action |-> action, sid |-> id, sub |-> Read(r, "sub").cache.sub]}

\* What logEvent leaves in the cache.
AfterLog(w, action) ==
    IF action # "checkin" /\ ~isActive(w) THEN Look(w)
    ELSE Read(IF action = "checkin" THEN w ELSE Look(w), "sub")

\* __EndTime__ is written while the storage holds session s.
Extended(s) == IF s \in Session THEN [extended EXCEPT ![s] = now] ELSE extended

Load(t, kind) ==
    /\ tab[t].kind = "closed"
    /\ tab' = [tab EXCEPT ![t] = [Blank EXCEPT !.kind = kind,
                                               !.test = IF isSearchResultPage(kind) THEN backend ELSE NULL]]
    /\ out' = {}
    /\ UNCHANGED <<now, store, backend, used, extended>>

Unload(t) ==
    /\ tab[t].kind # "closed"
    /\ tab' = [tab EXCEPT ![t] = Blank]
    /\ out' = {}
    /\ UNCHANGED <<now, store, backend, used, extended>>

\* What createSerpEvent or createVisitPageEvent is logged as.
FirstAction(searches) == IF searches THEN "searchResultPage" ELSE "visitPage"

\* setup( setupSearchTest ) when the DOM is ready, or setup(
\* setupAutocompleteTest ) on the first input in the search box.
Setup(t, source, fail) ==
    LET p == tab[t]
        starts == ~p.made /\ ~isActive(World(t))
        w == IF p.made THEN World(t) ELSE initialize(World(t), used + 1, p.test, fail)
        asks == ~p.made /\ Asks(World(t), p.test, fail)
        begun == starts /\ fail \cap {"end", "sid"} = {}
        active == isActive(w)
        id == Read(Look(w), "sid").cache.sid
        first == source = "fulltext"
        searches == active /\ first /\ isSearchResultPage(p.kind)
        v == IF searches THEN refresh(Look(w), fail) ELSE Look(w)
        action == FirstAction(searches)
        logs == active /\ (first \/ isSuggested(p.kind))
    IN  /\ p.kind # "closed" /\ source \notin p.setups
        /\ first => isSearchResultPage(p.kind) \/ p.kind = "visit"
        /\ starts => used < MaxSessions
        /\ used' = IF begun THEN used + 1 ELSE used
        /\ store' = v.store
        /\ tab' = [tab EXCEPT ![t] =
                     [p EXCEPT !.made = TRUE,
                               !.setups = @ \cup {source},
                               !.cache = IF logs THEN AfterLog(v, action).cache ELSE v.cache,
                               !.logger = IF active THEN [@ EXCEPT ![source] = id] ELSE @,
                               !.request = IF asks THEN backend ELSE @]]
        /\ extended' = IF begun THEN Extended(used + 1)
                       ELSE IF searches /\ "end" \notin fail THEN Extended(store.sid)
                       ELSE extended
        /\ out' = IF logs THEN logEvent(v, t, id, action) ELSE {}
        /\ UNCHANGED <<now, backend>>

\* An autocomplete result is shown (impression-results).
Search(t, fail) ==
    LET w == World(t)
        v == refresh(w, fail)
        writes == isActive(w) /\ "end" \notin fail
    IN  /\ tab[t].logger["autocomplete"] # NULL
        /\ store' = v.store
        /\ tab' = [tab EXCEPT ![t].cache = AfterLog(v, "searchResultPage").cache]
        /\ extended' = IF writes THEN Extended(store.sid) ELSE extended
        /\ out' = logEvent(v, t, tab[t].logger["autocomplete"], "searchResultPage")
        /\ UNCHANGED <<now, backend, used>>

\* interval() is set up, for times that the page was visible.
ChecksIn(source, kind) ==
    IF source = "fulltext" THEN kind = "visit" ELSE isSuggested(kind)

\* A click on a result, or a checkin of a visited page.
Event(t, source, action) ==
    LET w == World(t)
    IN  /\ tab[t].logger[source] # NULL
        /\ action = "checkin" => ChecksIn(source, tab[t].kind)
        /\ tab' = [tab EXCEPT ![t].cache = AfterLog(w, action).cache]
        /\ out' = logEvent(w, t, tab[t].logger[source], action)
        /\ UNCHANGED <<now, store, backend, used, extended>>

\* The typeahead search asks for the sub test, to add it to a URL.
AppendUrlParams(t) ==
    /\ tab[t].logger["autocomplete"] # NULL
    /\ tab' = [tab EXCEPT ![t].cache = Read(World(t), "sub").cache]
    /\ out' = {}
    /\ UNCHANGED <<now, store, backend, used, extended>>

\* The API answers, or the request fails.
Reply(t, fail) ==
    LET w == Set(World(t), "sub", tab[t].request, fail)
    IN  /\ tab[t].request # NULL
        /\ store' = w.store
        /\ tab' = [tab EXCEPT ![t].cache = w.cache, ![t].request = NULL]
        /\ out' = {}
        /\ UNCHANGED <<now, backend, used, extended>>

RequestFails(t) ==
    /\ tab[t].request # NULL
    /\ tab' = [tab EXCEPT ![t].request = NULL]
    /\ out' = {}
    /\ UNCHANGED <<now, store, backend, used, extended>>

\* Another test is deployed.
Deploy(test) ==
    /\ test # backend
    /\ backend' = test
    /\ out' = {}
    /\ UNCHANGED <<now, store, tab, used, extended>>

Advance ==
    /\ now < MaxNow
    /\ now' = now + 1
    /\ out' = {}
    /\ UNCHANGED <<store, backend, tab, used, extended>>

Init ==
    /\ now = 1
    /\ store = Invalidated.store
    /\ backend \in Test
    /\ tab = [t \in Tab |-> Blank]
    /\ used = 0
    /\ extended = [s \in Session |-> 0]
    /\ out = {}

TabStep(t) ==
    \/ \E kind \in Kinds : Load(t, kind)
    \/ Unload(t)
    \/ \E source \in Source, fail \in Failures : Setup(t, source, fail)
    \/ \E fail \in Failures : Search(t, fail) \/ Reply(t, fail)
    \/ \E source \in Source, action \in {"click", "checkin"} : Event(t, source, action)
    \/ AppendUrlParams(t) \/ RequestFails(t)

Next == (\E t \in Tab : TabStep(t)) \/ (\E test \in Test : Deploy(test)) \/ Advance

Spec == Init /\ [][Next]_vars

(***************************************************************************)
(* Properties                                                              *)
(***************************************************************************)
Live(t) == tab[t].made /\ isActive(World(t))

(* A tab logs for the session it believes to be in: while the SessionState *)
(* of a page is active, the ids its loggers captured are the one it holds. *)
(* (genLogEventFn captures the id once; other tabs end and start sessions.)*)
LoggersAgree ==
    \A t \in Tab : Live(t) =>
        \A s \in Source : tab[t].logger[s] \in {NULL, tab[t].cache.sid}

(* No event other than a checkin is logged for a session longer than TTL   *)
(* after the last search that extended that session.                       *)
NoEventAfterExpiry ==
    \A e \in out : e.action # "checkin" => now < extended[e.sid] + TTL

(* A page that has lost its session never gets into another one: it would  *)
(* log the events of the new session with the id of the old one.           *)
LostForGood ==
    [][\A t \in Tab :
          (tab[t].made /\ ~isActive(World(t)) /\ tab'[t].made) => ~Live(t)']_vars

(* While the storage accepts subTest, no event of a live session lacks a   *)
(* subTest, so that none is "masquerading as no activated test"            *)
(* (searchSatisfaction.js:210-213), also when the session was started, or  *)
(* its test asked for, by a page that is gone.  It is not said that the    *)
(* subTest is the right one: a late answer may write over a mismatch.      *)
NeverMasquerades ==
    \A e \in out : e.action # "checkin" => e.sub # NULL

(* "When a new search is performed reset the session lifetime."            *)
(* (searchSatisfaction.js:503,644): a page that logs a search with a       *)
(* storage that works stays in its session for TTL from then on.           *)
SearchResetsLifetime ==
    \A e \in out : e.action = "searchResultPage" => tab[e.tab].cache.end = now + TTL
=============================================================================
