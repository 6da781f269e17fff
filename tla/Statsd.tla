------------------------------- MODULE Statsd -------------------------------
(***************************************************************************)
(* modules/ext.wikimediaEvents/statsd.js: the mw.track subscribers for the *)
(* topics "timing.", "counter." and "stats.", in front of the two line     *)
(* buffers of module StatsBuffer.  One action is one call of a subscriber, *)
(* with every statsAdd it makes.                                           *)
(*                                                                         *)
(* Numbers are counted in halves, so that 3 stands for 1.5 and the even    *)
(* numbers are the whole ones.  A labels object is a record: is its other  *)
(* label's key legal, is that label's value legal, is "le" set, and the    *)
(* "buckets" entry (NONE when that is not an array).                       *)
(***************************************************************************)
EXTENDS Integers, Sequences, FiniteSets, SequencesExt

CONSTANTS
    UNDEFINED, NAN, TEXT, \* values that are no number: missing, NaN, "1"
    INF, NONE,            \* le:+Inf, and no le label
    Number,               \* the numbers tracked, in halves
    Buckets,              \* the "buckets" entries passed
    MAX_BUCKETS,          \* maxBuckets, 10 in the code
    BatchSize,            \* BATCH_SIZE of both buffers, 5000 in the code
    LineSize,             \* the length of every line
    MaxCalls              \* bound on the mw.track calls of one behaviour

VARIABLES
    statsd,   \* the plain StatsD buffer
    stats,    \* the DogStatsD buffer
    threw,    \* the "stats." subscriber has thrown, which broke mw.track's loop
    counted,  \* history: sum of the valid "_total" values tracked with legal keys
    illegal,  \* history: a valid distribution was tracked with an illegal label key
    calls     \* number of mw.track calls made

history == <<counted, illegal>>
statsdVars == <<statsd, stats, threw, history, calls>>

Value == Number \cup {UNDEFINED, NAN, TEXT}
Label == [legalKey : BOOLEAN, legalValue : BOOLEAN, le : BOOLEAN, buckets : Buckets]

\* Math.round of a number in halves
Round(v) == ((v + 1) \div 2) * 2
Whole(v) == Round(v) = v

\* Mutant of formatDogstatsd: an illegal label value drops the line.
formatDropping(name, value, labels, le) ==
    IF ~labels.legalKey \/ ~labels.legalValue THEN UNDEFINED
    ELSE [name |-> name, value |-> value, le |-> le, label |-> "given"]

(***************************************************************************)
(* formatDogstatsd: an illegal label key reports an error and returns      *)
(* undefined, an illegal label value is replaced.                          *)
(***************************************************************************)
formatDogstatsd(name, value, labels, le) ==
    IF ~labels.legalKey THEN UNDEFINED
    ELSE [name |-> name, value |-> value, le |-> le,
          label |-> IF labels.legalValue THEN "given" ELSE "_invalid_value"]

Length(line) == LineSize

PlainLine == [kind : {"ms", "c"}, value : Int \cup {NAN}]
DogName == {"total", "seconds", "bucket", "count", "sum"}
\* "undefined" is what string concatenation makes of an undefined line
DogRecord == [name : DogName, value : Int, label : {"given", "_invalid_value"}, le : Int \cup {INF, NONE}]
DogLine == DogRecord \cup {UNDEFINED}

ASSUME StatsdAssumption ==
    /\ Number \subseteq Int
    /\ 2 \in Number \* 1, the count that is not given
    /\ \A b \in Buckets \ {NONE} : b \in Seq(Int \cup {NAN, TEXT})
    /\ INF \notin Int /\ NONE \notin Int /\ INF # NONE
    /\ UNDEFINED \notin DogRecord
    /\ LineSize \in Nat \ {0}

Plain == INSTANCE StatsBuffer WITH
    buf <- statsd, Line <- PlainLine, LineLength <- Length, BATCH_SIZE <- BatchSize,
    SEP <- 1, Enabled <- TRUE, MaxLines <- MaxCalls
Dog == INSTANCE StatsBuffer WITH
    buf <- stats, Line <- DogLine, LineLength <- Length, BATCH_SIZE <- BatchSize,
    SEP <- 3, Enabled <- TRUE, MaxLines <- MaxCalls

(***************************************************************************)
(* statsAdd as its callers reach it: with an undefined line the length     *)
(* test, which only a non-empty buffer evaluates, throws.                  *)
(***************************************************************************)
statsAdd(s, line) ==
    IF s.threw THEN s
    ELSE IF line = UNDEFINED /\ s.buf.lines # <<>> THEN [s EXCEPT !.threw = TRUE]
    ELSE [s EXCEPT !.buf = Dog!AddTo(@, line)]

AddAll(lines) ==
    LET after[n \in 0..Len(lines)] ==
            IF n = 0 THEN [buf |-> stats, threw |-> FALSE] ELSE statsAdd(after[n - 1], lines[n])
    IN  /\ stats' = after[Len(lines)].buf
        /\ threw' = after[Len(lines)].threw

(***************************************************************************)
(* mw.track.  An exception breaks "the mw.trackSubscribe loop" (:123): the *)
(* subscriber that threw gets no later call; whether those of the other    *)
(* topics do is left open.                                                 *)
(***************************************************************************)
ReachesStats(lines) == IF threw THEN UNCHANGED <<stats, threw>> ELSE AddAll(lines)

ReachesStatsd(line) ==
    \/ statsd' = Plain!AddTo(statsd, line)
    \/ threw /\ UNCHANGED statsd

(***************************************************************************)
(* trackHistogram: the checks, and the lines of a valid call.              *)
(***************************************************************************)
\* Mutant of SortedUnique: duplicates pass.
Sorted(b) == \A i, j \in DOMAIN b : i < j => b[i] <= b[j]

SortedUnique(b) == \A i, j \in DOMAIN b : i < j => b[i] < b[j]

ValidHistogram(value, labels) ==
    /\ value \in Number
    /\ ~labels.le
    /\ labels.buckets # NONE
    /\ Len(labels.buckets) <= MAX_BUCKETS
    /\ \A i \in DOMAIN labels.buckets : labels.buckets[i] \in Int
    /\ SortedUnique(labels.buckets)

HistogramLines(value, labels) ==
    LET bucketLine(i) == formatDogstatsd("bucket",
                            IF value <= labels.buckets[i] THEN 1 ELSE 0, labels, labels.buckets[i])
    IN  [i \in DOMAIN labels.buckets |-> bucketLine(i)]
          \o << formatDogstatsd("bucket", 1, labels, INF),
                formatDogstatsd("count", 1, labels, NONE),
                formatDogstatsd("sum", value, labels, NONE) >>

(***************************************************************************)
(* The subscribers                                                         *)
(***************************************************************************)
Call ==
    /\ calls < MaxCalls
    /\ calls' = calls + 1

Timing(value) ==
    /\ Call
    /\ ReachesStatsd([kind |-> "ms",
                       value |-> IF value \in Number THEN Round(value) ELSE IF value = TEXT THEN 2 ELSE NAN])
    /\ UNCHANGED <<stats, threw, history>>

Counter(value) ==
    /\ Call
    /\ ReachesStatsd([kind |-> "c",
                       value |-> IF value \in Number THEN Round(value) ELSE 2])
    /\ UNCHANGED <<stats, threw, history>>

Rejected == UNCHANGED <<statsd, stats, threw, history>>

Total(tracked, labels) ==
    LET value == IF tracked = UNDEFINED THEN 2 ELSE tracked
        valid == value \in Number /\ Whole(value) /\ value >= 2
        line  == formatDogstatsd("total", value, labels, NONE)
    IN  /\ Call
        /\ counted' = IF valid /\ labels.legalKey THEN counted + value ELSE counted
        /\ IF valid /\ line # UNDEFINED THEN ReachesStats(<<line>>) ELSE UNCHANGED <<stats, threw>>
        /\ UNCHANGED <<statsd, illegal>>

Seconds(value, labels) ==
    LET line == formatDogstatsd("seconds", Round(value), labels, NONE)
    IN  /\ Call
        /\ IF value \in Number /\ value >= 0 /\ line # UNDEFINED
           THEN /\ ReachesStats(<<line>>)
                /\ UNCHANGED <<statsd, history>>
           ELSE Rejected

Distribution(value, labels) ==
    /\ Call
    /\ IF ValidHistogram(value, labels)
       THEN /\ ReachesStats(HistogramLines(value, labels))
            /\ illegal' = (illegal \/ ~labels.legalKey)
            /\ UNCHANGED <<statsd, counted>>
       ELSE Rejected

RunEnqueuedStatsd ==
    /\ Plain!RunEnqueued
    /\ UNCHANGED <<stats, threw, history, calls>>

RunEnqueuedStats ==
    /\ Dog!RunEnqueued
    /\ UNCHANGED <<statsd, threw, history, calls>>

StatsdInit ==
    /\ Plain!Init
    /\ Dog!Init
    /\ threw = FALSE
    /\ counted = 0 /\ illegal = FALSE
    /\ calls = 0

StatsdNext ==
    \/ \E v \in Value : Timing(v) \/ Counter(v)
    \/ \E v \in Value, l \in Label : Total(v, l) \/ Seconds(v, l) \/ Distribution(v, l)
    \/ RunEnqueuedStatsd
    \/ RunEnqueuedStats

StatsdSpec == StatsdInit /\ [][StatsdNext]_statsdVars

(***************************************************************************)
(* Properties                                                              *)
(***************************************************************************)
\* What a line adds to the sum of one metric and one le label
Worth(line, name, le) ==
    IF line # UNDEFINED /\ line.name = name /\ line.le = le THEN line.value ELSE 0

SumOf(lines, name, le) ==
    LET upTo[n \in 0..Len(lines)] ==
            IF n = 0 THEN 0 ELSE upTo[n - 1] + Worth(lines[n], name, le)
    IN  upTo[Len(lines)]

(* What the receiver adds up for one metric and one le label, of what it   *)
(* has and of what waits.                                                  *)
Received(name, le) == SumOf(stats.sent \o stats.lines, name, le)

(* Prometheus reads the bucket counters as a cumulative histogram: over    *)
(* any sequence of calls, early flushes included, each bucket counts no    *)
(* more than the +Inf bucket, which counts exactly the observations.       *)
HistogramCumulative ==
    /\ Received("bucket", INF) = Received("count", NONE)
    /\ \A b \in {l.le : l \in ToSet(stats.accepted) \ {UNDEFINED}} \ {NONE} :
          Received("bucket", b) <= Received("bucket", INF)

(* "By substituting invalid values [...] the overall counter remains       *)
(* accurate" (statsd.js:157-160): what is received or waiting adds up to   *)
(* the valid counts tracked, whatever the label values were.  It never     *)
(* exceeds them; it can only fall behind once a distribution with an       *)
(* illegal label key has made the subscriber throw.                        *)
CounterAccurate ==
    /\ Received("total", NONE) <= counted
    /\ ~illegal => Received("total", NONE) = counted

=============================================================================
