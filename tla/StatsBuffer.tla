---------------------------- MODULE StatsBuffer ----------------------------
(***************************************************************************)
(* One of the two line buffers of modules/ext.wikimediaEvents/statsd.js.   *)
(* The plain StatsD buffer (statsdAdd, statsdFlush, separator "&") and the *)
(* DogStatsD buffer (statsAdd, statsFlush, separator "%0A") run the same   *)
(* code on different variables, so one module stands for both; Statsd      *)
(* instantiates it twice.                                                  *)
(*                                                                         *)
(* The buffer string is kept as the sequence of its lines and its length   *)
(* in characters, which is all that its code looks at.  buf also carries   *)
(* the history the properties talk about: the lines accepted, the lines    *)
(* handed to sendBeacon, and the line count and length of the last beacon. *)
(***************************************************************************)
EXTENDS Integers, Sequences

CONSTANTS
    Line,        \* the lines that can be added
    LineLength(_), \* the number of characters of a line
    BATCH_SIZE,  \* 5000 in the code
    SEP,         \* length of the separator: 1 for "&", 3 for "%0A"
    Enabled,     \* whether the beacon URI of this buffer is configured
    MaxLines     \* bound on the lines added in one behaviour

ASSUME LineAssumption ==
    /\ \A l \in Line : LineLength(l) \in Nat \ {0}
    /\ BATCH_SIZE \in Nat
    /\ SEP \in Nat
    /\ Enabled \in BOOLEAN
    /\ MaxLines \in Nat

VARIABLE buf

vars == <<buf>>

(***************************************************************************)
(* State                                                                   *)
(***************************************************************************)
EmptyBuffer ==
    [ lines    |-> <<>>,    \* the lines in the buffer string
      length   |-> 0,       \* its length in characters
      pending  |-> FALSE,   \* statsFlushPending
      accepted |-> <<>>,    \* history: every line added
      sent     |-> <<>>,    \* history: every line given to sendBeacon
      beacon   |-> [count |-> 0, length |-> 0, n |-> 0] ] \* the last beacon

(***************************************************************************)
(* Operations                                                              *)
(***************************************************************************)

(* statsFlush: one beacon with the whole buffer, which is then emptied.    *)
Flush(b) ==
    [b EXCEPT !.lines  = <<>>,
              !.length = 0,
              !.sent   = b.sent \o b.lines,
              !.beacon = [count |-> Len(b.lines), length |-> b.length, n |-> b.beacon.n + 1]]

\* Mutant of Overflows: the new line not counted.
OverflowsTooLate(b, line) == b.lines # <<>> /\ b.length > BATCH_SIZE

(* The early flush test of statsAdd.  It ignores the separator.            *)
Overflows(b, line) ==
    /\ b.lines # <<>>
    /\ b.length + LineLength(line) > BATCH_SIZE

\* Mutant of Append1: the line is put in front.
AppendInFront(b, line) ==
    [b EXCEPT !.lines    = <<line>> \o b.lines,
              !.length   = b.length + (IF b.lines # <<>> THEN SEP ELSE 0) + LineLength(line),
              !.pending  = TRUE,
              !.accepted = Append(b.accepted, line)]

(* The appending part of statsAdd, which also schedules a flush.           *)
Append1(b, line) ==
    [b EXCEPT !.lines    = Append(b.lines, line),
              !.length   = b.length + (IF b.lines # <<>> THEN SEP ELSE 0) + LineLength(line),
              !.pending  = TRUE,
              !.accepted = Append(b.accepted, line)]

(* statsAdd                                                                *)
AddTo(b, line) ==
    IF ~Enabled THEN b
    ELSE IF Overflows(b, line) THEN Append1(Flush(b), line)
    ELSE Append1(b, line)

(* The callback given to mw.eventLog.enqueue().                            *)
EnqueuedFlush(b) == Flush([b EXCEPT !.pending = FALSE])

(***************************************************************************)
(* The component driven by its callers and by EventLogging's queue         *)
(***************************************************************************)
Init == buf = EmptyBuffer

Add(line) ==
    /\ Len(buf.accepted) < MaxLines
    /\ buf' = AddTo(buf, line)

RunEnqueued ==
    /\ buf.pending
    /\ buf' = EnqueuedFlush(buf)

Next == (\E line \in Line : Add(line)) \/ RunEnqueued

(* EventLogging runs a queued callback on its timer or when the page is    *)
(* hidden, so the scheduled flush is weakly fair; callers owe nothing.     *)
Spec == Init /\ [][Next]_vars /\ WF_vars(RunEnqueued)

(***************************************************************************)
(* Properties                                                              *)
(***************************************************************************)
TypeOK ==
    buf \in [ lines    : Seq(Line),
              length   : Nat,
              pending  : BOOLEAN,
              accepted : Seq(Line),
              sent     : Seq(Line),
              beacon   : [count : Nat, length : Nat, n : Nat] ]

(* A flush is scheduled exactly when something waits in the buffer: the    *)
(* flag statsFlushPending survives an early flush, and is cleared before   *)
(* the scheduled one.                                                      *)
FlushScheduled == buf.pending <=> buf.lines # <<>>

(* sendBeacon is never called with an empty query string, also after an    *)
(* early flush that the scheduled one follows.  Proved, not run.           *)
NoEmptyBeacon == buf.beacon.n > 0 => buf.beacon.count > 0

(* Nothing is lost, sent twice or reordered by the early flush.            *)
NothingLost == buf.accepted = buf.sent \o buf.lines

(* The early flush bounds a beacon: only a beacon of one line can exceed   *)
(* BATCH_SIZE by more than the one separator that the test ignores.        *)
BeaconBounded ==
    buf.beacon.count > 1 => buf.beacon.length <= BATCH_SIZE + SEP

(* The same bound for the buffer, which makes BeaconBounded inductive.     *)
BufferBounded ==
    /\ Len(buf.lines) > 1 => buf.length <= BATCH_SIZE + SEP
    /\ buf.lines = <<>> => buf.length = 0

(* The buffer implements the delivery promise.                             *)
D == INSTANCE StatsDelivery WITH accepted <- buf.accepted, delivered <- buf.sent

DeliverySpec == D!Spec
=============================================================================
