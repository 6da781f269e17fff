# WikimediaEvents: specifications, model checks and proofs

WikimediaEvents is the MediaWiki extension with which Wikimedia sites measure how
they are used. Its client part (`src/modules/`) is a collection of instruments:
each one follows the events of a page, keeps a little state of its own, in memory,
in a cookie or in `localStorage`, and hands events to EventLogging or statistics
lines to `navigator.sendBeacon()`. Its server part (`src/includes/`,
`src/maintenance/`) hooks into MediaWiki and does the same for requests and for
batch jobs.

What such code can get wrong is seldom visible: nobody notices a tick that is
counted twice, an attempt that carries the id of another one, or a probe that never
reports. That is what these modules are about.

## 1. The system

### Components and their state

| Component (source) | State | Operations | Where it is hard | Correct when |
|---|---|---|---|---|
| **statsd.js** | two buffer strings, two "flush pending" flags | three `mw.track` subscribers; add, early flush, scheduled flush | early flush inside a histogram, flush under way while lines come in, invalid values and labels | no line lost, doubled or reordered; beacons bounded; histograms cumulative; counters accurate until a subscriber throws |
| **sessionTick.js** | `localStorage`: last tick time, tick count; per page three timers and queued idle callbacks | load, hide, show, user event, timers | several tabs on one storage; late timers, idle callbacks that run after a hide; a gap that is a reset or a catch-up | each tick sent once, no drift, sessions end exactly after a quiet time |
| **searchSatisfaction.js** | `localStorage`: end time, session id, sub test; per page a cache of them and the ids its loggers captured | set-up of two tests, search, click, checkin, API answer | caches never refreshed while other tabs end and start sessions; writes that fail; answers that come late | a page logs only for its own session, and only while it lives |
| **networkProbe.js, networkprobe/** | pulse number, per-target results, a race per request, the cookie PreventProbe | visit, answer, failure, timeout, pulse, report | request against timeout; a chain of promises of which one may never settle | results of pulses never mix; a report is complete; a probe ends |
| **editAttemptStep.js, editingSessionService.js, hCaptcha.js** | session record, `firstInitDone`, `timing` per action, `lastSessionId`; mw.track's queue of feature uses | handler of every `editAttemptStep` topic; handler of feature uses; the captcha's subscriber | any number of attempts and mode switches on one page; a captcha in the middle of a save; a handler that subscribes late | attempts keep ids, durations, abort types and uses apart |
| **suggestionMode.js** | per editor target: abandoned, saved and changed flags, time of `surfaceReady`, a 2 s timer | target hooks, timer, feature uses | one target used again and again, or its surface replaced; timers of a session that is over | one outcome per session; qualified only when it lasted |
| **clientError.js** | error counter; what each of two subscriptions has read | two error topics, install, the opt-out | errors from before the install are replayed; one error on two topics; counting against ignoring | each error once, none missed below the limit |
| **specialCreateAccount/** (client) | funnel token in a variable and in the session storage; start of the interaction; one listener per focus | set-up, focus, blur, submit, reload | set-up in the middle of the input; pages of several users in one tab; writes that fail | one token per user; times agree |
| **ClickThroughRateInstrument.js** | list of entries, one `IntersectionObserver`, one click listener | start, stop, notification, click | callers with copies of removed entries; nested and shared elements; notifications that wait | an element that is seen gets its impression, once; one single-click instrument gets a click |
| **readingDepth.js** | start, pause time, paused total | idle start, hide, show, unload | hidden before the start; unload that does not unload | visible time exact, for a page that is visible at its unload |
| **universalLanguageSelector.js** | the same stopwatch | hide, show, change of the language; stateless logging of menus | as above | time to change exact |
| **InstrumentConstructiveEdits.php** | none between runs; the recent changes and their tags | scheduled run, replay with `--as-of` | each wiki's run comes at another moment; bounds inclusive; edits reverted, runs missed | each surviving edit reported once, after the threshold |
| **AccountCreation/, CreateAccountInstrumentationHandler.php** (server) | per request the stash of the first call of a hook; across pages the parameter `accountJustCreated` and the page's flag of that name | impressions, forms, accounts, log-ins with second factors, page views | one hook is called once or twice, for challenge, wrong answer, switch, failure and success; the parameter survives reloads and log-ins | every challenge logged as what it is |
| **accountCreated.js, attributionResearch.js** (client) | two entries of `localStorage`, the URL of the page | page of a new account, page of the experiment | reloads, log-outs and other tabs between the two; writes that fail | a new account told once; the experiment left once |
| UrlEnrolledExperiment, testKitchen | enrolment per session | enrol, send | - | enrolment never changes |
| completionClicks.js | search session of a selector | open, type, select | - | a click goes to its search |
| UpdatePeriodicMetrics.php, PeriodicMetrics/ | page of users | batch run | paging by a moving boundary | each user once |
| WikimediaEventsHooks.php | campaign cookie, counters | hooks | cookie format across requests | cookie well-formed |
| EditPage/ captcha scores, hCaptcha API | score of one request, a bounded payload | save hooks, API call | order of hooks, limit of the payload | payload within the limit |
| SpecialWikimediaDebug.php | a cookie | read and write of the form | round trip | what is read was written |
| PrefUpdate, VectorPrefDiff | - | save of options | sequence of saves | each change once |
| block metrics, temporary accounts, IP reputation, look-ups, small instruments | - | one event from one hook | nothing interleaves | - |

`PROJECT.json` lists them all with their files, what is modelled of each, and under
`hazards` what is hard to test in the code, at its line.

### How they interact

* Instruments talk through `mw.track`: any code may emit `timing.*`, `counter.*`
  and `stats.*` (statsd.js subscribes), `editAttemptStep` (editors and hCaptcha.js
  emit; editAttemptStep.js and statistics subscribe), `error.*` (clientError.js).
* editAttemptStep.js, hCaptcha.js and suggestionMode.js take ids from the one
  editingSessionService.js of the page, whose `lastSessionId` they all see.
* Tabs of one browser talk through `localStorage` (sessionTick.js,
  searchSatisfaction.js, attributionResearch.js) and through cookies (networkProbe.js).
* clientError.js subscribes to two topics of MediaWiki's error logger, which tracks an
  uncaught error on both.
* Pages of one tab talk through the session storage (account creation, the opt-out of
  clientError.js).
* EventLogging's queue runs the scheduled flushes of statsd.js, on its timer or
  when the page is hidden.
* Client and server talk through configuration variables, form fields and the URL
  (`editingStatsId`, `wgCirrusSearchActiveUserTest`, `accountJustCreated`).

## 2. What is modelled

| Module | Stands for | Checked by | Proved in |
|---|---|---|---|
| `StatsDelivery` | the promise of a line buffer: in order, exactly once, finally | as a property of `stats_buffer` | refinement in `StatsdProofs` |
| `StatsBuffer` | one line buffer of statsd.js | `stats_buffer` | `StatsdProofs` |
| `Statsd` | the subscribers in front of two instances of `StatsBuffer` | `statsd` | `StatsdProofs` |
| `SessionTick` | sessionTick.js in several tabs | `session_tick` | `SessionTickProofs` |
| `SearchSession` | searchSatisfaction.js in several tabs | `search_session`, `search_session_lifetime` | `SearchSessionProofs` |
| `Probenet` | the network probe on successive pages | `probenet` | `PageInstrumentProofs` |
| `EditAttempt` | editAttemptStep.js with the session service and hCaptcha.js | `edit_attempt` | `EditAttemptProofs` |
| `SuggestionMode` | suggestionMode.js composed with `EditAttempt` on one editor | `edit_attempt` | `EditAttemptProofs` |
| `ClickThroughRate` | ClickThroughRateInstrument.js | `click_through` | `PageInstrumentProofs` |
| `ReadingDepth` | the stopwatches of readingDepth.js and universalLanguageSelector.js | `reading_depth` | `PageInstrumentProofs` |
| `ConstructiveEdits` | InstrumentConstructiveEdits.php on one wiki | `constructive_edits` | `ConstructiveEditsProofs` |
| `ClientError` | clientError.js on one page | `client_error` | `ClientErrorProofs` |
| `CreateAccount` | the instrument of Special:CreateAccount in one tab | `create_account` | `CreateAccountProofs` |
| `AccountCreation` | that form among the pages and log-ins of its tab, with the server's events, accountCreated.js and attributionResearch.js | `create_account` | `CreateAccountProofs` |

`MC*` modules extend them with the values of constants for TLC.

Conventions. JavaScript runs a handler to its end before another one, so a handler
is one action, and the tabs of one origin take turns. Operators and variables keep
the names of the source. History variables (named in each module's header) are
written and never read by an action; properties use them to say what happened
earlier. The operators introduced by "Mutant of" are changed forms of the definition
below them, which a plausible slip in the code would give; `PROJECT.json` pairs
each property with one that breaks it, so that no property is vacuous.

### StatsBuffer, StatsDelivery, Statsd

`buf` holds what `statsBuffer` and `statsBufferPending` hold, the string as the
sequence of its lines and its length in characters. `AddTo` is `statsAdd` (disabled
without a beacon URI, early flush, append, schedule), `EnqueuedFlush` the callback
given to `mw.eventLog.enqueue`. The plain StatsD buffer and the DogStatsD buffer run
the same code with another separator, so `Statsd` instantiates the module twice.
`Timing`, `Counter`, `Total`, `Seconds` and `Distribution` are the subscribers with
all their validation; each adds all its lines in one step, as the code does.
`ReachesStats` and `ReachesStatsd` are `mw.trackSubscribe`, which is in MediaWiki: once a
subscriber has thrown, the loop of its topic is broken and it gets no later call. Whether
the subscribers of the other topics do is left open, so that both are possible.
Numbers are counted in halves so that rounding has an effect.

### SessionTick

`lastTime` and `count` are the two storage entries; `tick`, `idle`, `debounce` the
timers of each tab, as the time left until due; `pending` its idle callbacks that
have not run. `Run` is `run()` with its three outcomes (`NewSession`, `Ticks`,
`TooSoon`), `setActive` and `setInactive` the functions of that name. A timer is
up to `MAX_DELAY` late.

### SearchSession

`store` is the storage, `tab[t].cache` the `state` of the page's `SessionState`, with
`MISSING` for an entry not read and `NULL` for one read and absent: the two differ,
since the code never reads an entry again. `tab[t].logger` holds the id that each
`genLogEventFn` captured. `Setup` is `setup()` of either test, `Search`, `Event`
their logging, `Reply` and `RequestFails` the outcomes of the `cirrus-config-dump`
request. `fail` is the set of entries whose write fails in that step. `Kinds` are the
pages there are: of results, visited, led to by autocomplete, and of results with an
autocomplete referrer, which log as both (`FirstAction`, `ChecksIn`). `AppendUrlParams` is the
hook of the type-ahead search, which reads `subTest` into the page's cache.

### Probenet

`request[t]` is the race between `fetch` and its timeout. `FetchFails` leaves the
promise of `loadUsingFetch` unsettled, as the code does, and `AnswerWithoutEntry` is
the exception of `handleProbeResult`. `PulseEnds` is `Promise.all`, and `generateReport` what
a report holds.

### EditAttempt

`handle` is `editAttemptStepHandler` with everything it calls. The editor is not in
the repository; its actions (`EditorInit` to `Switch`) send the events the handler's
branches and comments tell of, and are marked external. It is an editor that emits
`init`, as VisualEditor and the mobile editors do. `uses` is mw.track's queue of
`visualEditorFeatureUse`: a call of `mw.track` appends (`TrackUse`), and the handler,
which subscribes with the first editor event, is called with the whole queue
(`Subscribe`). `useIds` keeps the ids that each use was logged with. The id that hCaptcha.js
posts to the server is no event and is not in `out`.

### SuggestionMode

`SSpec` runs both editing instruments on one editor: each of its actions is an action of
`EditAttempt` together with what the handlers of the target do, or leaves
`EditAttempt` alone. `handlers[t]` holds the variables of the closure that
`ve.newTarget` creates for target `t`, `sections` whether sections can be edited
visually, in which case each opening has a new target and its surface can be replaced
(`FullPage`). `Resolve` is the promise of the experiment, which may be answered late.
`Token` reads the `lastSessionId` that `EditAttempt` and the captcha change.

### ClickThroughRate

`state`, `observed` and `notified` are the list of entries, the elements of the
observer, and those whose notification waits. `handles` are the selectors of which
some caller holds a copy of an entry, also one that was removed. `visible` are the elements
that are fully in the viewport. The user scrolls (`Scroll`, of the elements `Scrolled`, a
bound), and the browser notifies of an element at the first frame after it is observed,
visible or not (`Frame`). The histories `ended` and `stray` say which instruments their
own callers stopped, and whether a caller stopped with a copy whose entry was gone.

### ReadingDepth

Both stopwatches on one page and one clock: `Track` is the idle callback with
`enableTracking` and `onLoad`; `Hide` and `Show` call both listeners (one before
the page is tracked).

### ClientError

`trackQueue` is mw.track's queue and `seen` how far each of the two subscriptions has
read it. An error is a record of what the ignore rules look at: whether an `Error` was
thrown, the kind of file in each line of its stack, the URL of `window.onerror` and the
kind of its message. `Descriptor` is what `processErrorInstance` or
`processErrorLoggerObject` make of it, `Counts`, `WithinLimit`, `CountAfter` and
`Loggable` are `shouldLog` in the order of its tests, `Beacon` what is sent. `Deliver` is one
call of a subscriber, `Install` the two subscriptions.

### CreateAccount

`submitInteraction` is the function that `useInstrument` returns, with the token in
the page's variable and in the tab's session storage, whose write may fail. `OnFocus`,
`OnBlur` and `Submit` are the listeners; `blurs[f]` holds, of each field, the listeners
that `one( 'blur' )` has added, as the times they captured. `Setup` is
`setupInstrumentation`, at any moment after the page was loaded, and sends what
`mw.track` kept until then. `Visit`, `Rejected` and `Leave` are the user and the server.

### AccountCreation

Extends `CreateAccount` with what surrounds the form: `ASpec` has the steps of `Spec`, each with
what the tab shows (`screen`) and what the server logs (`log`). `OpenForm`, `Refused` and
`SignUp` are the requests of the form with the hooks of both server handlers; `param` and `flag`
are `accountJustCreated` in the URL and in the page, from `onCentralAuthPostLoginRedirect`
(`ReturnParam`) and `onBeforePageDisplay` (`ShowPage`). `Ask`, `Fail` and `LogIn` are the requests of
Special:UserLogin. `SecondCall` is `onAuthChangeFormFields`, which is called with the requests of
the form that was sent and then with those of the form to show; AuthManager, EmailAuth and
OATHAuth are not in the repository, so which requests these are is taken from the comments of
the handler (:146-172). `accountCreated` and `Research` are the two scripts, in either order on a
page (`ran`), `OtherTab` is `Research` in another tab, and `marks` the entries of `localStorage`.

The browser runs scripts, so the hidden field of `<noscript>` is never sent. Left out are the
reading-lists flag, titles and performers of the events, and the link from one form to
the other, which is not followed.

### ConstructiveEdits

`Execute` is `execute()` with `getTimestampRange()` (`InRange`), `findAllEdits()`
(`Found`) and `logConstructiveEdits()`. `Scheduled` is the periodic run, at any moment
of its interval, since `foreachwiki` reaches each wiki at another one; `Replay` is
a run with `--as-of`. Times are in the unit of the query's bounds, a second. `Save`,
`SaveRevert` and `TagReverted` are the wiki: the tag that an edit was reverted comes
from a job, some time after the revert.

## 3. What the runs check

| Run | Question and answer | Bounds, and why they are enough |
|---|---|---|
| `stats_buffer` | No beacon of several lines is oversized, and the buffer implements `StatsDelivery` with its liveness. | Six lines out of three lengths: shorter than, near and above the batch. Every order of early and scheduled flushes occurs; the proofs remove the bound. |
| `statsd` | Histograms stay cumulative and counters accurate through both buffers; after a distribution with an illegal label key, which may break the loop of `mw.trackSubscribe`, counters never exceed what was tracked. | Three calls of every valid and invalid kind; a batch of 9 characters makes an early flush fall inside one histogram. |
| `session_tick` | Ticks once and without drift; a page that ticks will idle out; the lag is bounded; a session ends only after a long quiet time, and always after one longer than `RESET_MS`. | Two tabs; delays with the order of the real ones, `RESET` no multiple of `TICK`; a clock that allows two resets. Proved for all values. |
| `search_session` | No page logs for a session that is over or not its own; a page that lost its session never enters another. | Two tabs, two sessions, a lifetime of two units: a session can expire, be lost and be replaced under an open page. Pages are visited ones and those led to by autocomplete, of results or not (`MCKinds`): a page of results only logs what the latter does without its `visitPage`, and a plain page does what a visited one does before its DOM is ready. |
| `search_session_lifetime` | **Violated**: "When a new search is performed reset the session lifetime". The page that searches keeps the old end time in its cache. | Five units of time. |
| `probenet` | Reports are complete, and a probe ends if no request is rejected. (That pulses never overlap is proved only.) | Three targets, so that some answer and some do not; two pages; three pulses. |
| `edit_attempt` | Both editing instruments. Attempts keep ids apart; one ready and one loaded per attempt however often modes are switched; a use made in an attempt is logged once, with its id; abort types and durations are right until a save has been answered. A funnel session has one outcome, is qualified only if it lasted, and its token is the session id during the first attempt. | Two attempts, in one target or in two; three ids, one of which a captcha can take; three units of time with a qualifying time of one: a session can qualify late, or be followed by one that qualifies. What concerns `EditAttempt` is proved for all values. |
| `click_through` | A click within single-click instruments goes to exactly one of them and no other instrument; an element that is seen gets its impression, and once. (That a selector has one entry is proved only.) | A menu with two children and two selectors for one of them; three tokens. Two elements are scrolled, those whose impression is promised. |
| `reading_depth` | Both visible times are exact: of a page that is visible when it is unloaded, and up to a change of the language. | Eight units of time: two hidden periods before and after the start. Proved for all values. |
| `constructive_edits` | A surviving edit is reported once, by the run responsible for it, and never too early. | Two edits, since ranges treat edits one by one; a threshold that is no multiple of the interval; four intervals, run in every order, so that an edit can be in the range of any of two runs. Proved for all values. |
| `client_error` | An error is sent once at most; none that is to be sent is missing below the limit; of two errors on one topic the earlier one is sent. | Up to four errors with a limit of two: so many that the limit is reached by errors before and after the install, and with ignored ones between. One kind of error for each branch of the rules. Proved for all values. |
| `create_account` | Users keep one token each and share none; the times told agree with the input; of a log-in every challenge is logged as what it is; a new account is told of once at most, and so is leaving the experiment. | Two visits, two accounts: a rejected form, the new user, someone logged out, an account for someone else. A named field and another one, three units of time; two modules of two-factor authentication, so that one can be switched to, and EmailAuth. Proved for all values. |

Runs whose bounds stop the system (`Max...` in a guard) say `CHECK_DEADLOCK FALSE`:
a page may also really stop doing anything. `session_tick` and
`search_session_lifetime` do check for deadlock.

### Fairness

* `StatsBuffer`: `WF(RunEnqueued)`. EventLogging runs what is enqueued on its timer or
  on `pagehide`. Nothing makes a caller add a line.
* `Probenet`: `WF` of `Timeout`, `PulseEnds`, `NextPulse` and `Report`: a timer and
  promise reactions of an open page run. No fairness for answers, failures or
  visits; `Leave` is always possible and never forced.
* `ClickThroughRate`: `WF(Frame)` and `WF(Notify)`: the browser renders and delivers
  the observer's notifications.
* All others state safety only. The code of sessionTick.js makes no promise that a
  page ticks: the event loop may stop.

### Findings

The violated run is listed in `PROJECT.json` with the line it contradicts. Other
observations made while modelling; where one limits a property, the property says so:

* statsd.js: a distribution with an illegal label key passes the `undefined` of
  `formatDogstatsd` to `statsAdd` (:213), without the test that the other metrics have
  (:247). `statsAdd` throws once the buffer is not empty, although errors are logged to
  "avoid throwing which would break the mw.trackSubscribe loop" (:123). `Statsd` models
  it: the lines before stay, those after are missing (`AddAll`), and the subscriber
  gets no later call (`ReachesStats`), so that valid counts are lost. From then on
  `CounterAccurate` only says that a counter is never too high.
* probenet.js: `loadUsingFetch` leaves its promise unsettled if a request is rejected, so
  no report is generated, against :62; nor is the cookie set that keeps the next page
  from probing. `EndsUnlessRejected` is the property that does hold.
* clientError.js: "A line will match only one of the two expressions" (:118), but a WebKit
  line without a function name matches both; no harm, as the first one is taken.
  Errors from before the install are processed topic by topic, so an older error
  of one topic can lose its place to a newer one of the other: `EarlierWins` speaks of
  one topic. A message that is ignored has used up a place of the limit (:357), since
  the message is looked at after the count; `NoneMissed` counts it so.
* editAttemptStep.js: the handler of feature uses is to subscribe with the first editor
  event, lest other features that use VisualEditor are logged (:48-50), but
  `mw.trackSubscribe` calls it with everything tracked before, so those are logged with
  the id of the first attempt. `UsesLoggedOnce` says nothing of uses from before any
  editor.
* suggestionMode.js: the funnel's token is the id of the session service, but the second
  and later attempts get theirs outside of it (editAttemptStep.js:68), and a captcha
  makes the service generate another one (hCaptcha.js:52). So the token does not
  follow the attempt, although "a second edit session on the same article should
  count as a new session" (:90); `FunnelJoins` holds for the first attempt without a
  captcha. With section editing each new target subscribes to feature uses and is
  called with those of earlier ones. An editor left in the middle of a save keeps
  its timer and may be reported as qualified when it is closed. On desktop a switch of
  the mode starts another session. If the experiment is answered late, a session may
  have an outcome without an exposure.
* specialCreateAccount: a user who logs out in the same tab takes up the token of the
  earlier anonymous visit. What is focused before the set-up is not seen, so its blur
  is not told. An elapsed time of 0 is left out of the event.
* sessionTick.js: an idle callback can call `setActive` after the page was hidden
  (:202), so a hidden page may tick until it idles out (`TickingPageIdlesOut` bounds
  this). The gap is measured from the last tick, not from the last activity, so a
  session may end up to two periods early compared to the definition in its header;
  `ResetNeedsQuiet` states the bound that does hold.
* searchSatisfaction.js: an answer of `cirrus-config-dump` that comes late writes
  over a `mismatch` found meanwhile (:220, :225). If the write of `subTest` fails, the
  session's events carry no test. `NeverMasquerades` says that no event is logged before
  it is known which test the session is in; it does not say that the test is the right one.
* editAttemptStep.js: the test for `abandonMidsave` requires that `timing.saveSuccess`
  and `timing.saveFailure` are undefined (:276-280), but `timing` is emptied by an abort
  only (:322-323). After one failed save or captcha challenge of the attempt, or a
  successful save of an earlier one on the page, an abort during a save is reported
  as `abandon`, and one before `ready` as `abandon` or `nochange`. `AbortTypeRight`
  therefore speaks of pages on which no save has been answered yet.
* hCaptcha.js: the id that it posts to the server (:52) is asked of the session service,
  which may generate another one than that of the current attempt, although its comment
  (:45) speaks of the current session. The events of the attempt keep theirs
  (`AttemptsKeepApart`); no property speaks of the posted one.
* ClickThroughRateInstrument.js: the observer's first notification comes whatever the
  visibility of the element, and counts as its impression, which is to be sent "soon after
  the element is fully visible" (:87-88). `ImpressionComes` says only that those that are
  seen get one. `stop()` with an entry that is gone removes the last entry of the list if
  the selector is there no more (:197), whosever that is: `ImpressionComes` holds until that
  happens (`stray`). For selectors that share an element it stops the observation of
  both (`Unshared`). Of nested single-click instruments the one that was started last gets
  the click, as `start` puts it first (:177), not the innermost, as :135-136 says.
* readingDepth.js: a page unloaded while hidden reports the running pause as
  visible (:172-174), although the timer is to be paused (:108-109), and
  `pageUnloaded` is sent again if the page stays. `VisibleLengthExact` speaks of pages
  that are visible when they are unloaded.
* AccountCreationHandler.php: after a second factor that fails for good the hook is called
  for the log-in form that starts again, and logs the challenge of the last one once more
  (:172); `LoginStepsLogged` leaves this step out. A log-in through a form whose
  returntoquery has `accountJustCreated`, which is that of a page of a new account from
  where a logged-out user followed the link, keeps the parameter (:101): the page it
  returns to tells of a new account. `ConversionToldOnce` counts until then (`carried`).
* attributionResearch.js: a new user whose other tab is the first to be rendered is
  taken for someone who had an account before, and `erase_subject` is sent, although the
  first page after the log-in is to have the flag (:119). `edit_successful` is to be sent
  "once per experiment" (:135), but is with every `postEdit` of that page; edits are not
  modelled.
* InstrumentConstructiveEdits.php: `--as-of` is to "behave as if the script ran at this
  time" (:35), but the query excludes edits by the tags of the moment (:119), so a
  replay leaves out edits that were reverted since the missed run. The same holds of a
  run that comes late in its interval: an edit may survive the threshold by up to
  one interval plus the delay of the run, be reverted then, and go unreported.

## 4. What is proved

All theorems are checked by TLAPS from the named assumptions of the modules.

* **StatsdProofs**, of a buffer (from `LineAssumption`: lines have positive length, the
  batch size and separator are naturals). The invariant of the run is not inductive:
  `BeaconBounded` speaks of the last beacon, so `IInv` adds `BufferBounded`, the same
  bound of the buffer, and that an empty buffer has length 0. One lemma per
  operation (`FlushInv`, `Append1Inv`, `AddToInv`, `EnqueuedFlushInv`), from which type
  correctness, `NothingLost`, `FlushScheduled`, `NoEmptyBeacon`, `BeaconBounded` and the
  safety part of the refinement of `StatsDelivery` follow.

  And of the subscribers (from `StatsdAssumption`: the values that are no numbers are
  none, and what is passed as buckets is an array or not). Both properties are about sums
  over all lines, sent and waiting. `SumOf` and `AddAll` are recursive functions, and
  the induction theorems of the library cannot be cited (see below), so the module has its
  own, about sets: `Induction`, from the least element of a set of naturals, and
  `Iteration`, that a function exists which goes on by a given step. `SumAppend` is
  what they are for: the sum grows by the worth of a line that is appended. `AllAdded` and
  `NothingAdded` say what `AddAll` does to every sum, early flushes and the exception
  included; `StatsdInv` adds that nothing but an illegal label key makes the
  subscriber throw and that the sum is exact as long as it has not; and `DistributionStep` that a histogram adds one at most to each bucket, for
  which its bounds must differ: with a duplicate it would be two, which is the mutant.
* **SessionTickProofs** (from `TimeAssumption`: delays positive, `TICK <= RESET`; no
  relation to `IDLE` and `DEBOUNCE` is needed). `IInv` has three parts. `StoreInv`: the
  shared entries and the history of ticks. `TimerInv`: the timers of each tab are in
  range and armed together. `LagInv`: while a tick timer is armed, the clock is
  ahead of the last tick by no more than what that timer has run, plus one period,
  and the quiet time never exceeds the gap; without it neither `CountLag` nor
  `ResetNeedsQuiet` can be carried through a step. `TimerInv` is what
  `TickingPageIdlesOut` needs: an idle callback that comes after a hide arms both timers
  again. `RunFacts` says what one `run()` does, and `LimitSuffices` that a gap within
  `RESET` never exceeds `TICK_LIMIT`, so the exception of `sessionTick()` is unreachable
  for every number of tabs and all delays.
* **SearchSessionProofs** (from `SessionAssumption`: the entries' special values are none of
  the ids, times and tests). Pages and storage disagree for as long as a page
  lives, so the invariant says what of a page's cache can be relied on. Once a page is set
  up its cache is settled (`Settled`): the end has been read, and the id too if the end
  is in the future, so whether the page is in a session, and in which one, does not depend
  on what other tabs write (`MadeFacts`). Loggers and the id agree because of that
  (`LoggersAgree`), no end in a cache is later than what the last search in that session
  granted (`NoEventAfterExpiry`), and a session that a page has lost stays lost
  (`LostForGood`), although the storage may hold another one by then. The operators that
  stand for `SessionState` have a lemma each, which the handlers' lemmas compose.
  `NoMasquerade`, that no event carries an unknown test, has a hypothesis, `SubTestKept`,
  that no failing write concerns `subTest`: without it the property is false, as noted above.
* **ConstructiveEditsProofs** (from `WindowAssumption`: the interval is positive, the
  threshold a natural). `IInv` adds `NoneAhead` to the properties: runs, edits and
  reports are not in the future, without which an edit could be saved into an
  interval that has had its run. The heart is the lemma `RangesTile`: the ranges of
  all runs tile the time line, and the range of a run holds exactly the times for
  which its interval is responsible. `SaveInv`, `TagInv` and `ExecuteInv` carry `IInv`
  through the steps.
* **EditAttemptProofs** (from `EditAssumption`). The handler guesses from its timings
  what the editor is doing, and the properties hold because the guess is right where
  it counts. `IInv` says so: `IdsApart` (ids of attempts come from those generated so
  far), `UsesInOrder` (the ids that each use was logged with, none before the handler
  subscribes), `Opened` (the timing of an
  abort marks a switch, and which events it still swallows), `Fresh` (which timings
  belong to the attempt) and `Telling` (what they tell of the phase until a save has
  been answered). One lemma per action carries it through. `AbortTypeRight` and
  `DurationWithinAttempt` follow for every step, and `CompositionImplements` shows that
  `SSpec` implements `Spec`, so that all of this holds beside suggestionMode.js. The funnel
  itself is treated last: `FunnelInv` relates the flags of every target to what was
  sent of its session, for targets in and out of use (`OneOutcome`, `QualifiedRight`), and
  the token to the session service as long as that has generated one id (`FunnelJoins`).
* **PageInstrumentProofs**, of three instruments of a page, each on its own.
  *ReadingDepth* (from `ClockAssumption`): the invariant is an account of each stopwatch,
  what was visible, plus the pauses taken off, plus the pause that runs, is the time since
  the start. No pause runs at the unload of a visible page, so what it sends is exact. *Probenet* (from `RecipeAssumption`): `ProbeInv` is the conjunction of
  the types, `ResultsInStep`, `ReportComplete`, that a pulse that is over was answered by
  every target, and that a probe completes only after its last pulse.
  *ClickThroughRate* (from `DocumentAssumption`): through every `splice`, also that of the
  last entry by mistake, the list has no two entries of a selector, none with a token that
  was not generated, and those for single clicks first (`ListInv`). `ImpressionsCounted`
  says of an entry whose impression was sent that its element is neither observed nor
  about to be notified, unless the element is shared. `SingleGetsClick` follows from the
  order of the list: the first entry around a target is one for single clicks if any is.
* **ClientErrorProofs** (from `ErrorAssumption`). The counter does not say what it counted,
  so `IInv` speaks of a set of places as large as the counter that holds everything
  sent (`Took`), and `NoneMissed` is a statement on cardinalities. It also adds that
  of the two entries of an uncaught error one is passed over (`ErrorsApart`).
* **CreateAccountProofs** (from `FormAssumption`). `Owned`: a token that is kept, in the
  page or in the storage, was sent for the user it is kept for. `Listening` and
  `Interaction`: only the field that has the focus has a listener, added when the focus
  began, and what blurs told lies within the interaction.
  `FormImplements`: `ASpec` implements `Spec`, so that all of this holds of the form among
  other pages and log-ins. On top of it (from `FactorAssumption`: EmailAuth is no module of
  two-factor authentication) `AInv` has three parts. `Shown`: what the tab shows, and that a
  challenge is only asked for on a log-in form. `Telling`: as long as the URL of a page has the
  parameter, an account has not been told of. `Leaving`: whoever has left the experiment
  is remembered. `ToldOnce` follows from the last two. `LoginStepsRight` is about every step:
  `AskLogs` and `FailLogs` say what the two calls of the hook make of the challenge asked
  for before and after it, and every other step logs no challenge.

Where a module's type invariant is proved, the run leaves it out.

Every invariant and every action property of the runs is stated by a theorem. Only
model-checked is liveness: the eventual delivery of `DeliverySpec`, `EndsUnlessRejected` and
`ImpressionComes`, which are out of this prover's reach. The library's theorems on
induction take an operator as a parameter, which no installed prover can instantiate; where
a proof needs one, it is stated for sets (`Induction`) and used on the set of numbers for which
the claim holds. `SearchResetsLifetime` is violated, so there is nothing to prove.

## 5. What is not modelled

* Pure input and output: DOM inspection (click tracking), one event from one hook
  (baselines, blocked edits, block metrics, look-ups), external requests.
* Names, labels, formats and sampling rates, except where they decide what is
  done.
* Overlapping accesses of two processes to one `localStorage`: tabs take turns.
* Editors that emit no `init` (WikiEditor sends it from the server), the sampling of
  editing sessions, and the ids that editAttemptStep.js appends to API requests.
* Writes to the storage that fail, in sessionTick.js; they are modelled for
  searchSatisfaction.js and the account creation form.
* The handlers of universalLanguageSelector.js beside its stopwatch: each logs what it is
  called with, and nothing is kept.
* Browsers without scripts, for the account creation form.
* Parts with state of their own that are planned, below.

## 6. Plan

1. `StatsBuffer` and its promise, `Statsd`, `SessionTick`, `SearchSession`, `Probenet`,
   `EditAttempt`, `ClickThroughRate`, `ReadingDepth`, `ConstructiveEdits`. Done.
2. `SuggestionMode`, composed with `EditAttempt`; `ClientError`; `CreateAccount`, and
   `AccountCreation` around it. Done.
3. Proofs of all invariants and action properties of the runs. Done.
4. A storage whose writes fail, in `SessionTick`.
5. The server: paging of `UpdatePeriodicMetrics`, the cookies of the campaign and of
   `SpecialWikimediaDebug`, the payload limit of the hCaptcha API, captcha scores.
6. `completionClicks`, `UrlEnrolledExperiment`.
