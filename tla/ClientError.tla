---------------------------- MODULE ClientError ----------------------------
(***************************************************************************)
(* modules/ext.wikimediaEvents/clientError.js: the logger of JavaScript    *)
(* errors on one page.                                                     *)
(*                                                                         *)
(* Errors reach it through mw.track, which is not part of the repository:  *)
(* a queue that is only ever appended to, which each subscriber reads from *)
(* its beginning, so errors from before the logger was installed wait for  *)
(* it.  MediaWiki's error logger tracks an uncaught error twice, on        *)
(* error.uncaught and on global.error; one that was caught is passed to    *)
(* mw.errorLogger.logError( error, "error.<component>" ).                  *)
(*                                                                         *)
(* An error is an object of the constant set Fault: whether an Error was   *)
(* thrown, its stack (of each line the kind of file it names, or that it   *)
(* cannot be parsed), the URL that window.onerror got, and its message.    *)
(*                                                                         *)
(* sent and silenced are history.                                          *)
(***************************************************************************)
EXTENDS Integers, Sequences, FiniteSets

CONSTANTS
    Fault,      \* the errors that can occur
    Component,  \* the components that report errors they caught
    LIMIT,      \* errorLimit
    MaxErrors   \* bound on the errors

UNPARSED == "unparsed"   \* a line of a stack that no expression matches
NONE == "none"           \* undefined
File == {"script", "page", "foreign", "undefined"}
Message == {"plain", "ignored", "Script error.", "Uncaught Script error."}

ASSUME ErrorAssumption ==
    /\ Fault \subseteq [isError : BOOLEAN, stack : Seq(File \cup {UNPARSED}),
                        url : {"script", "page", "foreign", NONE}, message : Message]
    /\ Component \cap {"uncaught", "global"} = {}
    /\ LIMIT \in Nat /\ MaxErrors \in Nat

VARIABLES
    trackQueue, \* mw.track: topic, error and number of each call
    seen,       \* how much of it each subscriber has read, once it subscribed
    errorCount,
    framed,     \* the page is in an iframe
    optedOut,   \* the entry client-error-opt-out of the session's storage
    errors,     \* the number of errors that have occurred
    sent,       \* history: what was sent, as its place in the queue
    silenced    \* history: the places handled while the user had opted out

logger == <<seen, errorCount, sent, silenced>>
vars == <<trackQueue, logger, framed, optedOut, errors>>

Subscriber == {"error", "global"}
Installed == \E s \in Subscriber : seen[s] # -1
CaughtUp == \A s \in Subscriber : seen[s] \in {-1, Len(trackQueue)}

(***************************************************************************)
(* From an error to its descriptor                                         *)
(***************************************************************************)
IsParsed(line) == line # UNPARSED

\* The places of the lines that are kept.
getNormalizedStackTraceLines(stack) == {i \in DOMAIN stack : IsParsed(stack[i])}

\* null
NoDescriptor == [file |-> NONE, message |-> "plain"]

\* An error that was caught: its file is that of the first line understood.
processErrorInstance(fault) ==
    LET lines == getNormalizedStackTraceLines(fault.stack)
        first == CHOOSE i \in lines : \A j \in lines : i <= j
    IN  IF ~fault.isError \/ lines = {} THEN NoDescriptor
        ELSE [file |-> fault.stack[first], message |-> fault.message]

normalizeErrorMessage(message) ==
    IF message = "Uncaught Script error." THEN "Script error." ELSE message

processErrorLoggerObject(fault) ==
    [file |-> IF fault.url = NONE THEN "undefined" ELSE fault.url,
     message |-> normalizeErrorMessage(fault.message)]

\* Mutant of Handles: error.uncaught is handled like any other error.
HandlesUncaught(s, topic) ==
    IF s = "global" THEN topic = "global" ELSE topic # "global"

\* The topics that a subscriber does not return from at once.
Handles(s, topic) ==
    IF s = "global" THEN topic = "global" ELSE topic \in Component

Descriptor(entry) ==
    IF entry.topic = "global" THEN processErrorLoggerObject(entry.fault)
    ELSE processErrorInstance(entry.fault)

(***************************************************************************)
(* shouldLog                                                               *)
(***************************************************************************)
shouldIgnoreMessage(message) == message = "ignored"
shouldIgnoreFileUrl(file) == file \in {"page", "foreign"}

\* Mutant of Counts: the file is tested after the error was counted.
CountsFiles(d) ==
    /\ ~(d.file = "undefined" /\ d.message = "Script error.")
    /\ ~framed /\ ~optedOut

\* The errors that are counted, up to the limit.
Counts(d) ==
    /\ ~(d.file = "undefined" /\ d.message = "Script error.")
    /\ ~framed /\ ~optedOut
    /\ ~shouldIgnoreFileUrl(d.file)

WithinLimit == errorCount < LIMIT

\* Mutant of CountAfter: an error that is dropped starts the count again.
CountAgain(counted) == IF counted THEN errorCount + 1 ELSE 0

CountAfter(counted) == IF counted THEN errorCount + 1 ELSE errorCount

\* log: a beacon, whose contents are left out.
Beacon(n) == Append(sent, n)

\* A subscriber is called with what is at place n of the queue.
Log(n) ==
    LET entry == trackQueue[n]
        d == Descriptor(entry)
        counted == d # NoDescriptor /\ Counts(d) /\ WithinLimit
    IN  /\ errorCount' = CountAfter(counted)
        /\ sent' = IF counted /\ ~shouldIgnoreMessage(d.message)
                   THEN Beacon(n) ELSE sent
        /\ silenced' = IF optedOut THEN silenced \cup {n} ELSE silenced

(***************************************************************************)
(* mw.track calls each subscriber with what it has not read yet.  The      *)
(* subscriber of "error." was there first.  No other code runs between.    *)
(***************************************************************************)
Deliver(s) ==
    /\ seen[s] # -1 /\ seen[s] < Len(trackQueue)
    /\ s = "global" => seen["error"] = Len(trackQueue)
    /\ seen' = [seen EXCEPT ![s] = @ + 1]
    /\ IF Handles(s, trackQueue[seen[s] + 1].topic) THEN Log(seen[s] + 1)
       ELSE UNCHANGED <<errorCount, sent, silenced>>
    /\ UNCHANGED <<trackQueue, framed, optedOut, errors>>

Install ==
    /\ ~Installed
    /\ seen' = [s \in Subscriber |-> 0]
    /\ UNCHANGED <<trackQueue, errorCount, sent, silenced, framed, optedOut, errors>>

(***************************************************************************)
(* The page                                                                *)
(***************************************************************************)
Entry(topic, fault) == [topic |-> topic, fault |-> fault, error |-> errors + 1]

\* An error occurs and is tracked on these topics.
Occurs(fault, topics) ==
    /\ CaughtUp
    /\ errors < MaxErrors
    /\ errors' = errors + 1
    /\ trackQueue' = trackQueue \o [i \in 1..Len(topics) |-> Entry(topics[i], fault)]
    /\ UNCHANGED <<logger, framed, optedOut>>

Uncaught(fault) == Occurs(fault, <<"global", "uncaught">>)

Caught(fault, component) == Occurs(fault, <<component>>)

OptOut ==
    /\ CaughtUp
    /\ optedOut' = ~optedOut
    /\ UNCHANGED <<trackQueue, logger, framed, errors>>

Init ==
    /\ trackQueue = <<>>
    /\ seen = [s \in Subscriber |-> -1]
    /\ errorCount = 0
    /\ framed \in BOOLEAN /\ optedOut \in BOOLEAN
    /\ errors = 0
    /\ sent = <<>> /\ silenced = {}

Next ==
    \/ Install
    \/ \E s \in Subscriber : Deliver(s)
    \/ \E fault \in Fault : Uncaught(fault)
    \/ \E fault \in Fault, c \in Component : Caught(fault, c)
    \/ OptOut

Spec == Init /\ [][Next]_vars

(***************************************************************************)
(* Properties                                                              *)
(***************************************************************************)
Places == 1..Len(trackQueue)

TypeOK ==
    /\ trackQueue \in Seq([topic : Component \cup {"uncaught", "global"},
                           fault : Fault, error : 1..errors])
    /\ seen \in [Subscriber -> -1 .. Len(trackQueue)]
    /\ errorCount \in 0..LIMIT
    /\ framed \in BOOLEAN /\ optedOut \in BOOLEAN
    /\ errors \in Nat
    /\ sent \in Seq(Places)
    /\ silenced \subseteq Places

(* "Will be logged via global.error" (:502): an uncaught error, which is   *)
(* tracked on both topics, is sent at most once, whether it occurs before  *)
(* or after the logger is installed, and so is one a component tracks;     *)
(* and "only log up to this many errors per page" (:13).                   *)
SentOnce ==
    /\ \A i, j \in DOMAIN sent :
           trackQueue[sent[i]].error = trackQueue[sent[j]].error => i = j
    /\ Len(sent) <= LIMIT

\* An error that is to be counted, and one that is to be logged, if the user
\* lets it be.
Countable(n) ==
    /\ trackQueue[n].topic # "uncaught"
    /\ ~framed
    /\ LET d == Descriptor(trackQueue[n])
       IN  /\ d.file \in {"script", "undefined"}
           /\ d.file = "undefined" => d.message # "Script error."

Loggable(n) ==
    /\ Countable(n)
    /\ Descriptor(trackQueue[n]).message # "ignored"

\* The subscriber that an entry is for has been called with it.
Reader(topic) == IF topic = "global" THEN "global" ELSE "error"
Handled(n) == n <= seen[Reader(trackQueue[n].topic)]

IsSent(n) == \E i \in DOMAIN sent : sent[i] = n

\* What has taken a place within the limit, or would have.
Counted == {n \in Places \ silenced : Countable(n) /\ Handled(n)}

(* Of the errors that the user lets be logged none is missed, unless so    *)
(* many others that count used up the limit: what is dropped for its file, *)
(* its lack of a file or the user's choice takes no place from another.    *)
NoneMissed ==
    \A n \in Places \ silenced :
        Loggable(n) /\ Handled(n) /\ ~IsSent(n) => Cardinality(Counted \ {n}) >= LIMIT

(* Of two errors that reach the same subscriber, the earlier one has       *)
(* precedence when the limit is reached.                                   *)
EarlierWins ==
    \A m, n \in Places :
        /\ m < n /\ IsSent(n)
        /\ Reader(trackQueue[m].topic) = Reader(trackQueue[n].topic)
        /\ Loggable(m) /\ m \notin silenced
        => IsSent(m)
=============================================================================
