---------------------------- MODULE StatsdProofs ----------------------------
(***************************************************************************)
(* Proofs about the line buffers of statsd.js and about its subscribers.   *)
(*                                                                         *)
(* StatsBuffer, for any set of lines, any lengths, batch size and          *)
(* separator.  IInv is inductive: the flag agrees with the buffer, the     *)
(* history is the lines sent followed by the lines waiting, and both the   *)
(* buffer and the last beacon respect the size bound.                      *)
(*                                                                         *)
(* Statsd, for any calls.  Its properties are about sums over all lines,   *)
(* which are recursive functions: Iteration says that such functions exist *)
(* and Induction compares them.                                            *)
(***************************************************************************)
EXTENDS StatsBuffer, Statsd, SequenceTheorems, WellFoundedInduction, TLAPS

(* The record type of buf, named for the lemmas about its operators.       *)
BufferType == [ lines    : Seq(Line),
                length   : Nat,
                pending  : BOOLEAN,
                accepted : Seq(Line),
                sent     : Seq(Line),
                beacon   : [count : Nat, length : Nat, n : Nat] ]

(* The inductive invariant, of any buffer b.                               *)
BufferInv(b) ==
    /\ b \in BufferType
    /\ b.pending <=> b.lines # <<>>
    /\ b.accepted = b.sent \o b.lines
    /\ b.beacon.n > 0 => b.beacon.count > 0
    /\ Len(b.lines) > 1 => b.length <= BATCH_SIZE + SEP
    /\ b.lines = <<>> => b.length = 0
    /\ b.beacon.count > 1 => b.beacon.length <= BATCH_SIZE + SEP

IInv == BufferInv(buf)

(* Appending to a concatenation appends to its second part.                *)
LEMMA AppendToConcat ==
    ASSUME NEW S, NEW e \in S
    PROVE  \A s, t \in Seq(S) : Append(s \o t, e) = s \o Append(t, e)
  <1> TAKE s, t \in Seq(S)
  <1>1. s \o t \in Seq(S) /\ Append(t, e) \in Seq(S) /\ Append(s \o t, e) \in Seq(S)
    BY ConcatProperties, AppendProperties
  <1>2. s \o Append(t, e) \in Seq(S)
    BY <1>1, ConcatProperties
  <1>3. /\ Len(s) \in Nat /\ Len(t) \in Nat
        /\ Len(s \o t) = Len(s) + Len(t)
        /\ Len(Append(t, e)) = Len(t) + 1
        /\ Len(Append(s \o t, e)) = Len(s) + Len(t) + 1
        /\ Len(s \o Append(t, e)) = Len(s) + Len(t) + 1
    BY <1>1, ConcatProperties, AppendProperties, LenProperties
  <1>4. ASSUME NEW i \in 1 .. Len(s) + Len(t) + 1
        PROVE  Append(s \o t, e)[i] = (s \o Append(t, e))[i]
    BY <1>1, <1>3, ConcatProperties, AppendProperties
  <1> QED
    BY <1>1, <1>2, <1>3, <1>4, SeqEqual

(* What statsFlush does to a buffer.                                       *)
LEMMA FlushFacts ==
    ASSUME NEW b \in BufferType
    PROVE  /\ Flush(b) \in BufferType
           /\ Flush(b).lines = <<>>
           /\ Flush(b).length = 0
           /\ Flush(b).pending = b.pending
           /\ Flush(b).accepted = b.accepted
           /\ Flush(b).sent = b.sent \o b.lines
           /\ Flush(b).beacon = [count |-> Len(b.lines), length |-> b.length, n |-> b.beacon.n + 1]
  <1>1. /\ b.lines \in Seq(Line) /\ b.sent \in Seq(Line)
        /\ b.length \in Nat /\ b.beacon.n \in Nat
    BY DEF BufferType
  <1>2. b.sent \o b.lines \in Seq(Line)
    BY <1>1, ConcatProperties
  <1>3. Len(b.lines) \in Nat
    BY <1>1, LenProperties
  <1>4. <<>> \in Seq(Line)
    BY EmptySeq
  <1>5. Flush(b) \in BufferType
    <2>1. [count |-> Len(b.lines), length |-> b.length, n |-> b.beacon.n + 1]
             \in [count : Nat, length : Nat, n : Nat]
      BY <1>1, <1>3
    <2> QED
      BY <1>2, <1>4, <2>1 DEF Flush, BufferType
  <1>6. /\ Flush(b).lines = <<>> /\ Flush(b).length = 0
        /\ Flush(b).pending = b.pending
        /\ Flush(b).accepted = b.accepted
    BY DEF Flush, BufferType
  <1>7. Flush(b).sent = b.sent \o b.lines
    BY DEF Flush, BufferType
  <1>8. Flush(b).beacon = [count |-> Len(b.lines), length |-> b.length, n |-> b.beacon.n + 1]
    BY DEF Flush, BufferType
  <1> QED
    BY <1>5, <1>6, <1>7, <1>8

(* What appending a line does to a buffer.                                 *)
LEMMA Append1Facts ==
    ASSUME NEW b \in BufferType, NEW line \in Line
    PROVE  /\ Append1(b, line) \in BufferType
           /\ Append1(b, line).lines = Append(b.lines, line)
           /\ Append1(b, line).lines # <<>>
           /\ Len(Append1(b, line).lines) = Len(b.lines) + 1
           /\ Append1(b, line).length = b.length + (IF b.lines # <<>> THEN SEP ELSE 0) + LineLength(line)
           /\ Append1(b, line).pending = TRUE
           /\ Append1(b, line).accepted = Append(b.accepted, line)
           /\ Append1(b, line).sent = b.sent
           /\ Append1(b, line).beacon = b.beacon
  <1>1. /\ Append(b.lines, line) \in Seq(Line)
        /\ Append(b.lines, line) # <<>>
        /\ Len(Append(b.lines, line)) = Len(b.lines) + 1
        /\ Append(b.accepted, line) \in Seq(Line)
    BY AppendProperties DEF BufferType
  <1>2. LineLength(line) \in Nat /\ SEP \in Nat
    BY LineAssumption
  <1>3. Append1(b, line) \in BufferType
    <2>1. b.length + (IF b.lines # <<>> THEN SEP ELSE 0) + LineLength(line) \in Nat
      BY <1>2 DEF BufferType
    <2> QED
      BY <1>1, <2>1 DEF Append1, BufferType
  <1>4. Append1(b, line).lines = Append(b.lines, line)
    BY DEF Append1, BufferType
  <1>5. Append1(b, line).length = b.length + (IF b.lines # <<>> THEN SEP ELSE 0) + LineLength(line)
    BY DEF Append1, BufferType
  <1>6. /\ Append1(b, line).pending = TRUE
        /\ Append1(b, line).sent = b.sent
        /\ Append1(b, line).beacon = b.beacon
    BY DEF Append1, BufferType
  <1>7. Append1(b, line).accepted = Append(b.accepted, line)
    BY DEF Append1, BufferType
  <1> QED
    BY <1>1, <1>3, <1>4, <1>5, <1>6, <1>7

(* The early flush and the scheduled one leave what appending needs.       *)
LEMMA FlushInv ==
    ASSUME NEW b, BufferInv(b), b.lines # <<>>
    PROVE  /\ Flush(b) \in BufferType
           /\ Flush(b).lines = <<>> /\ Flush(b).length = 0
           /\ Flush(b).sent = b.accepted /\ Flush(b).accepted = b.accepted
           /\ Flush(b).beacon.count > 0
           /\ Flush(b).beacon.count > 1 => Flush(b).beacon.length <= BATCH_SIZE + SEP
  <1>1. b \in BufferType
    BY DEF BufferInv
  <1>2. Len(b.lines) \in Nat \ {0}
    BY <1>1, EmptySeq DEF BufferType
  <1>3. Flush(b).beacon.count = Len(b.lines) /\ Flush(b).beacon.length = b.length
    <2>1. Flush(b).beacon = [count |-> Len(b.lines), length |-> b.length, n |-> b.beacon.n + 1]
      BY <1>1, FlushFacts
    <2> QED
      BY <2>1
  <1>4. Flush(b).beacon.count > 1 => Flush(b).beacon.length <= BATCH_SIZE + SEP
    BY <1>3 DEF BufferInv
  <1>5. Flush(b).beacon.count > 0
    BY <1>2, <1>3
  <1>6. Flush(b).sent = b.accepted
    BY <1>1, FlushFacts DEF BufferInv
  <1> QED
    BY <1>1, <1>4, <1>5, <1>6, FlushFacts

(* Appending a line that does not overflow.                                *)
LEMMA Append1Inv ==
    ASSUME NEW b \in BufferType, NEW line \in Line,
           b.accepted = b.sent \o b.lines,
           b.beacon.n > 0 => b.beacon.count > 0,
           b.beacon.count > 1 => b.beacon.length <= BATCH_SIZE + SEP,
           b.lines # <<>> => b.length + LineLength(line) <= BATCH_SIZE
    PROVE  BufferInv(Append1(b, line))
  <1> DEFINE a == Append1(b, line)
  <1>1. a \in BufferType /\ a.lines # <<>> /\ a.pending = TRUE /\ a.beacon = b.beacon
    BY Append1Facts
  <1>2. a.accepted = a.sent \o a.lines
    <2>1. b.sent \in Seq(Line) /\ b.lines \in Seq(Line)
      BY DEF BufferType
    <2>2. Append(b.sent \o b.lines, line) = b.sent \o Append(b.lines, line)
      BY <2>1, AppendToConcat
    <2>3. a.accepted = Append(b.accepted, line) /\ a.sent = b.sent /\ a.lines = Append(b.lines, line)
      BY Append1Facts
    <2> HIDE DEF a
    <2> QED
      BY <2>2, <2>3
  <1>3. Len(a.lines) > 1 => a.length <= BATCH_SIZE + SEP
    <2>1. SUFFICES ASSUME Len(a.lines) > 1 PROVE a.length <= BATCH_SIZE + SEP
      OBVIOUS
    <2>2. Len(a.lines) = Len(b.lines) + 1
      BY Append1Facts
    <2>3. b.lines # <<>>
      BY <2>1, <2>2, EmptySeq
    <2>4. a.length = b.length + SEP + LineLength(line)
      BY <2>3, Append1Facts
    <2>5. b.length \in Nat /\ SEP \in Nat /\ LineLength(line) \in Nat /\ BATCH_SIZE \in Nat
      BY LineAssumption DEF BufferType
    <2> QED
      BY <2>3, <2>4, <2>5
  <1> QED
    BY <1>1, <1>2, <1>3 DEF BufferInv

(* statsAdd preserves the invariant, and sends either nothing or exactly   *)
(* what was waiting.                                                       *)
LEMMA AddToInv ==
    ASSUME NEW b, BufferInv(b), NEW line \in Line
    PROVE  /\ BufferInv(AddTo(b, line))
           /\ Enabled => /\ AddTo(b, line).accepted = Append(b.accepted, line)
                         /\ AddTo(b, line).sent \in {b.sent, b.accepted}
  <1>1. CASE ~Enabled
    BY <1>1 DEF AddTo
  <1>2. CASE Enabled /\ Overflows(b, line)
    <2>1. AddTo(b, line) = Append1(Flush(b), line)
      BY <1>2 DEF AddTo
    <2>2. b.lines # <<>>
      BY <1>2 DEF Overflows
    <2>3. Flush(b) \in BufferType /\ Flush(b).accepted = Flush(b).sent \o Flush(b).lines
      <3>1. b.accepted \in Seq(Line)
        BY DEF BufferInv, BufferType
      <3> QED
        BY <3>1, <2>2, FlushInv, ConcatEmptySeq
    <2>4. BufferInv(Append1(Flush(b), line))
      BY <2>2, <2>3, FlushInv, Append1Inv
    <2> QED
      BY <2>1, <2>2, <2>3, <2>4, FlushInv, Append1Facts
  <1>3. CASE Enabled /\ ~Overflows(b, line)
    <2>1. AddTo(b, line) = Append1(b, line)
      BY <1>3 DEF AddTo
    <2>2. b.lines # <<>> => b.length + LineLength(line) <= BATCH_SIZE
      <3>1. b.length \in Nat /\ LineLength(line) \in Nat /\ BATCH_SIZE \in Nat
        BY LineAssumption DEF BufferInv, BufferType
      <3> QED
        BY <1>3, <3>1 DEF Overflows
    <2>3. BufferInv(Append1(b, line))
      BY <2>2, Append1Inv DEF BufferInv
    <2> QED
      BY <2>1, <2>3, Append1Facts DEF BufferInv
  <1> QED
    BY <1>1, <1>2, <1>3

(* The scheduled flush sends exactly what was waiting.                     *)
LEMMA EnqueuedFlushInv ==
    ASSUME NEW b, BufferInv(b), b.pending
    PROVE  /\ BufferInv(EnqueuedFlush(b))
           /\ EnqueuedFlush(b).accepted = b.accepted
           /\ EnqueuedFlush(b).sent = b.accepted
  <1> DEFINE c == [b EXCEPT !.pending = FALSE]
  <1>1. b \in BufferType /\ b.lines # <<>>
    BY DEF BufferInv
  <1>2. c \in BufferType
    BY <1>1 DEF BufferType
  <1>3. /\ c.pending = FALSE /\ c.lines = b.lines /\ c.length = b.length
        /\ c.accepted = b.accepted /\ c.sent = b.sent
    BY <1>1 DEF BufferType
  <1>4. Len(b.lines) \in Nat \ {0}
    BY <1>1, EmptySeq DEF BufferType
  <1>5. /\ Flush(c) \in BufferType /\ Flush(c).lines = <<>> /\ Flush(c).length = 0
        /\ Flush(c).pending = FALSE
        /\ Flush(c).accepted = b.accepted /\ Flush(c).sent = b.accepted
    BY <1>2, <1>3, FlushFacts DEF BufferInv
  <1> HIDE DEF c
  <1>6. Flush(c).beacon.count = Len(b.lines) /\ Flush(c).beacon.length = b.length
    <2>1. Flush(c).beacon = [count |-> Len(c.lines), length |-> c.length, n |-> c.beacon.n + 1]
      BY <1>2, FlushFacts
    <2> QED
      BY <1>3, <2>1
  <1>7. b.accepted \o <<>> = b.accepted
    BY <1>1, ConcatEmptySeq DEF BufferType
  <1>8. Len(<<>>) = 0
    BY EmptySeq
  <1>9. BufferInv(Flush(c))
    <2>1. Flush(c).accepted = Flush(c).sent \o Flush(c).lines
      BY <1>5, <1>7
    <2>2. Flush(c).beacon.count > 1 => Flush(c).beacon.length <= BATCH_SIZE + SEP
      BY <1>6 DEF BufferInv
    <2> QED
      BY <1>4, <1>5, <1>6, <1>8, <2>1, <2>2 DEF BufferInv
  <1> QED
    BY <1>5, <1>9 DEF EnqueuedFlush, c

(***************************************************************************)
(* The invariant of the specification                                      *)
(***************************************************************************)
THEOREM InitIInv == Init => IInv
  <1> SUFFICES ASSUME Init PROVE IInv
    OBVIOUS
  <1>1. <<>> \in Seq(Line) /\ Len(<<>>) = 0
    BY EmptySeq
  <1>2. <<>> \o <<>> = <<>>
    BY ConcatEmptySeq, <1>1
  <1>3. BufferInv(EmptyBuffer)
    BY <1>1, <1>2, LineAssumption DEF EmptyBuffer, BufferInv, BufferType
  <1> QED
    BY <1>3 DEF Init, IInv

(* Every operation of the buffer keeps IInv.                                *)
THEOREM NextIInv == IInv /\ [Next]_vars => IInv'
  <1> SUFFICES ASSUME IInv, [Next]_vars PROVE IInv'
    OBVIOUS
  <1>1. ASSUME NEW line \in Line, Add(line) PROVE IInv'
    BY <1>1, AddToInv DEF Add, IInv
  <1>2. CASE RunEnqueued
    BY <1>2, EnqueuedFlushInv DEF RunEnqueued, IInv
  <1>3. CASE UNCHANGED vars
    BY <1>3 DEF vars, IInv
  <1> QED
    BY <1>1, <1>2, <1>3 DEF Next

(* IInv holds of every buffer.                                              *)
THEOREM InvariantIInv == Spec => []IInv
  BY InitIInv, NextIInv, PTL DEF Spec

(* Type correctness of a stats buffer.                                     *)
THEOREM TypeCorrect == Spec => []TypeOK
  <1>1. IInv => TypeOK
    BY DEF IInv, BufferInv, BufferType, TypeOK
  <1> QED
    BY <1>1, InvariantIInv, PTL

(* No line is lost, repeated or reordered, whatever the batch size.        *)
THEOREM Lossless == Spec => []NothingLost
  <1>1. IInv => NothingLost
    BY DEF IInv, BufferInv, NothingLost
  <1> QED
    BY <1>1, InvariantIInv, PTL

(* Something waits in the buffer exactly when a flush is scheduled, and no *)
(* beacon is empty.                                                        *)
THEOREM AlwaysScheduled == Spec => [](FlushScheduled /\ NoEmptyBeacon)
  <1>1. IInv => FlushScheduled /\ NoEmptyBeacon
    BY DEF IInv, BufferInv, FlushScheduled, NoEmptyBeacon
  <1> QED
    BY <1>1, InvariantIInv, PTL

(* Only a beacon of a single line exceeds the batch size by more than one  *)
(* separator.                                                              *)
THEOREM BeaconsBounded == Spec => []BeaconBounded
  <1>1. IInv => BeaconBounded
    BY DEF IInv, BufferInv, BeaconBounded
  <1> QED
    BY <1>1, InvariantIInv, PTL

(* The safety part of the refinement: every step of a buffer is a step of  *)
(* StatsDelivery or leaves its variables unchanged.                        *)
THEOREM ImplementsDelivery == Spec => D!Init /\ [][D!Next]_(D!vars)
  <1>1. Init => D!Init
    BY DEF Init, EmptyBuffer, D!Init
  <1>2. IInv /\ [Next]_vars => [D!Next]_(D!vars)
    <2> SUFFICES ASSUME IInv, [Next]_vars PROVE [D!Next]_(D!vars)
      OBVIOUS
    <2>1. ASSUME NEW line \in Line, Add(line) PROVE [D!Next]_(D!vars)
      <3>1. CASE ~Enabled
        BY <2>1, <3>1 DEF Add, AddTo, D!vars
      <3>2. CASE Enabled
        BY <2>1, <3>2, AddToInv DEF Add, IInv, D!Next, D!Accept
      <3> QED
        BY <3>1, <3>2
    <2>2. CASE RunEnqueued
      BY <2>2, EnqueuedFlushInv DEF RunEnqueued, IInv, D!Next, D!Deliver, D!vars
    <2>3. CASE UNCHANGED vars
      BY <2>3 DEF vars, D!vars
    <2> QED
      BY <2>1, <2>2, <2>3 DEF Next
  <1> QED
    BY <1>1, <1>2, InvariantIInv, PTL DEF Spec

(***************************************************************************)
(* Statsd: recursion over the lines of a sequence.                         *)
(***************************************************************************)
(* A set that holds 0 and with each number the next holds all up to N.     *)
LEMMA Induction ==
    ASSUME NEW N \in Nat, NEW T, 0 \in T, \A n \in 1..N : n - 1 \in T => n \in T
    PROVE  \A n \in 0..N : n \in T
  <1> DEFINE R == {ss \in Nat \X Nat : ss[1] < ss[2]}
             W == {n \in 0..N : n \notin T}
  <1> SUFFICES ASSUME W # {} PROVE FALSE
    OBVIOUS
  <1>1. IsWellFoundedOn(R, Nat)
    BY NatLessThanWellFounded DEF OpToRel
  <1>2. W \subseteq Nat
    OBVIOUS
  <1>3. PICK n \in W : \A m \in W : ~ (<<m, n>> \in R)
    <2> HIDE DEF R, W
    <2> QED
      BY <1>1, <1>2, WFMin
  <1>4. n \in 1..N /\ n - 1 \in 0..N /\ n - 1 < n
    OBVIOUS
  <1>5. <<n - 1, n>> \in R
    BY <1>4
  <1>6. n - 1 \notin W
    BY <1>3, <1>5
  <1> QED
    BY <1>4, <1>6

(* f begins with first and goes on by step.                                *)
Iterates(f, first, N, step) == f[0] = first /\ \A n \in 1..N : f[n] = step[n][f[n - 1]]

(* A function over 0..N is defined by its first value and by a step.       *)
LEMMA Iteration ==
    ASSUME NEW S, NEW first \in S, NEW N \in Nat, NEW step \in [1..N -> [S -> S]]
    PROVE  \E f \in [0..N -> S] : Iterates(f, first, N, step)
  <1> DEFINE T == {n \in 0..N : \E f \in [0..n -> S] : Iterates(f, first, n, step)}
  <1>1. 0 \in T
    <2>1. [i \in 0..0 |-> first] \in [0..0 -> S]
      OBVIOUS
    <2>2. Iterates([i \in 0..0 |-> first], first, 0, step)
      BY DEF Iterates
    <2> QED
      BY <2>1, <2>2
  <1>2. ASSUME NEW n \in 1..N, n - 1 \in T PROVE n \in T
    <2>1. PICK f \in [0..(n - 1) -> S] : Iterates(f, first, n - 1, step)
      BY <1>2
    <2> DEFINE g == [i \in 0..n |-> IF i = n THEN step[n][f[n - 1]] ELSE f[i]]
    <2>2. f[n - 1] \in S /\ step[n] \in [S -> S]
      BY <2>1
    <2>3. g \in [0..n -> S]
      <3>1. ASSUME NEW i \in 0..n PROVE (IF i = n THEN step[n][f[n - 1]] ELSE f[i]) \in S
        BY <2>1, <2>2
      <3> QED
        BY <3>1
    <2>4. g[0] = first
      BY <2>1 DEF Iterates
    <2>5. ASSUME NEW i \in 1..n PROVE g[i] = step[i][g[i - 1]]
      <3>1. CASE i = n
        BY <3>1
      <3>2. CASE i # n
        <4>1. i \in 1..(n - 1) /\ i - 1 # n /\ i - 1 \in 0..n /\ i \in 0..n
          BY <3>2
        <4>2. g[i] = f[i] /\ g[i - 1] = f[i - 1]
          BY <3>2, <4>1
        <4>3. f[i] = step[i][f[i - 1]]
          BY <2>1, <4>1 DEF Iterates
        <4> QED
          BY <4>2, <4>3
      <3> QED
        BY <3>1, <3>2
    <2>6. Iterates(g, first, n, step)
      BY <2>4, <2>5 DEF Iterates
    <2> HIDE DEF g
    <2> QED
      BY <2>3, <2>6
  <1>3. N \in T
    <2> HIDE DEF T
    <2>1. N \in 0..N
      OBVIOUS
    <2> QED
      BY <1>1, <1>2, <2>1, Induction
  <1> QED
    BY <1>3

(***************************************************************************)
(* Sums over lines.                                                        *)
(***************************************************************************)
LEMMA WorthType ==
    ASSUME NEW line \in DogLine, NEW name, NEW le
    PROVE  Worth(line, name, le) \in Int
  BY DEF Worth, DogLine, DogRecord

(* f is the function by which SumOf is defined.                            *)
Sums(f, lines, name, le) ==
    f = [n \in 0..Len(lines) |-> IF n = 0 THEN 0 ELSE f[n - 1] + Worth(lines[n], name, le)]

LEMMA SumExists ==
    ASSUME NEW lines \in Seq(DogLine), NEW name, NEW le
    PROVE  \E f \in [0..Len(lines) -> Int] : Sums(f, lines, name, le)
  <1> DEFINE N == Len(lines)
             step == [n \in 1..N |-> [v \in Int |-> v + Worth(lines[n], name, le)]]
  <1>1. N \in Nat /\ \A n \in 1..N : lines[n] \in DogLine
    BY LenProperties, ElementOfSeq
  <1>2. step \in [1..N -> [Int -> Int]]
    <2>1. ASSUME NEW n \in 1..N, NEW v \in Int PROVE v + Worth(lines[n], name, le) \in Int
      BY <1>1, WorthType
    <2> QED
      BY <2>1
  <1>3. PICK f \in [0..N -> Int] : f[0] = 0 /\ \A n \in 1..N : f[n] = step[n][f[n - 1]]
    <2>1. 0 \in Int
      OBVIOUS
    <2> HIDE DEF step, N
    <2>2. \E f \in [0..N -> Int] : Iterates(f, 0, N, step)
      BY <1>1, <1>2, <2>1, Iteration
    <2> QED
      BY <2>2 DEF Iterates
  <1>4. ASSUME NEW n \in 1..N PROVE f[n] = f[n - 1] + Worth(lines[n], name, le)
    BY <1>1, <1>3
  <1>5. ASSUME NEW n \in 0..N
        PROVE  f[n] = IF n = 0 THEN 0 ELSE f[n - 1] + Worth(lines[n], name, le)
    <2>1. CASE n = 0
      BY <2>1, <1>3
    <2>2. CASE n # 0
      <3>1. n \in 1..N
        BY <2>2
      <3> QED
        BY <2>2, <3>1, <1>4
    <2> QED
      BY <2>1, <2>2
  <1>6. f = [n \in 0..N |-> IF n = 0 THEN 0 ELSE f[n - 1] + Worth(lines[n], name, le)]
    BY <1>5
  <1> QED
    BY <1>6 DEF Sums

(* SumOf is the last value of every function that sums.                    *)
LEMMA SumOfIs ==
    ASSUME NEW lines \in Seq(DogLine), NEW name, NEW le, NEW g, Sums(g, lines, name, le)
    PROVE  SumOf(lines, name, le) = g[Len(lines)]
  <1> DEFINE N == Len(lines)
             h == CHOOSE f : Sums(f, lines, name, le)
             T == {n \in 0..N : h[n] = g[n]}
  <1>1. N \in Nat
    BY LenProperties
  <1>2. Sums(h, lines, name, le)
    OBVIOUS
  <1>3. SumOf(lines, name, le) = h[N]
    BY DEF SumOf, Sums
  <1> HIDE DEF h
  <1>4. 0 \in T
    BY <1>1, <1>2 DEF Sums
  <1>5. ASSUME NEW n \in 1..N, n - 1 \in T PROVE n \in T
    <2>1. n \in 0..N /\ n # 0 /\ h[n - 1] = g[n - 1]
      BY <1>5
    <2>2. h[n] = h[n - 1] + Worth(lines[n], name, le)
      BY <2>1, <1>2 DEF Sums
    <2>3. g[n] = g[n - 1] + Worth(lines[n], name, le)
      BY <2>1 DEF Sums
    <2> QED
      BY <2>1, <2>2, <2>3
  <1>6. N \in T
    <2> HIDE DEF T, N
    <2>1. N \in 0..N
      BY <1>1
    <2> QED
      BY <1>1, <1>4, <1>5, <2>1, Induction
  <1> QED
    BY <1>3, <1>6

(* The sum grows by the worth of a line that is appended.                  *)
LEMMA SumAppend ==
    ASSUME NEW lines \in Seq(DogLine), NEW line \in DogLine, NEW name, NEW le
    PROVE  /\ SumOf(lines, name, le) \in Int
           /\ SumOf(Append(lines, line), name, le) = SumOf(lines, name, le) + Worth(line, name, le)
  <1> DEFINE more == Append(lines, line)
             N == Len(lines)
  <1>1. /\ N \in Nat /\ more \in Seq(DogLine) /\ Len(more) = N + 1
        /\ more[N + 1] = line /\ \A n \in 1..N : more[n] = lines[n]
    BY AppendProperties, LenProperties
  <1>2. PICK f \in [0..Len(more) -> Int] : Sums(f, more, name, le)
    BY <1>1, SumExists
  <1> DEFINE g == [n \in 0..N |-> f[n]]
  <1>3. SumOf(more, name, le) = f[N + 1]
    BY <1>1, <1>2, SumOfIs
  <1>4. f[N + 1] = f[N] + Worth(line, name, le)
    <2>1. N + 1 \in 0..Len(more) /\ N + 1 # 0 /\ (N + 1) - 1 = N
      BY <1>1
    <2> HIDE DEF more, N
    <2> QED
      BY <1>1, <1>2, <2>1 DEF Sums
  <1>5. Sums(g, lines, name, le)
    <2>1. ASSUME NEW n \in 0..N
          PROVE  f[n] = IF n = 0 THEN 0 ELSE g[n - 1] + Worth(lines[n], name, le)
      <3>1. n \in 0..Len(more)
        BY <1>1
      <3>2. f[n] = IF n = 0 THEN 0 ELSE f[n - 1] + Worth(more[n], name, le)
        BY <1>2, <3>1 DEF Sums
      <3>3. CASE n = 0
        BY <3>2, <3>3
      <3>4. CASE n # 0
        <4>1. n - 1 \in 0..N /\ n \in 1..N
          BY <1>1, <3>4
        <4>2. more[n] = lines[n] /\ g[n - 1] = f[n - 1]
          BY <1>1, <4>1
        <4> QED
          BY <3>2, <3>4, <4>2
      <3> QED
        BY <3>3, <3>4
    <2>2. g = [n \in 0..N |-> IF n = 0 THEN 0 ELSE g[n - 1] + Worth(lines[n], name, le)]
      BY <2>1
    <2> QED
      BY <2>2 DEF Sums
  <1>6. SumOf(lines, name, le) = f[N]
    <2>1. SumOf(lines, name, le) = g[Len(lines)]
      <3> HIDE DEF g
      <3> QED
        BY <1>5, SumOfIs
    <2> QED
      BY <1>1, <2>1
  <1>7. f[N] \in Int
    BY <1>1, <1>2
  <1> QED
    BY <1>3, <1>4, <1>6, <1>7

(***************************************************************************)
(* The DogStatsD buffer                                                    *)
(***************************************************************************)
DogBuffer == [ lines    : Seq(DogLine),
               length   : Nat,
               pending  : BOOLEAN,
               accepted : Seq(DogLine),
               sent     : Seq(DogLine),
               beacon   : [count : Nat, length : Nat, n : Nat] ]

AddState == [buf : DogBuffer, threw : BOOLEAN]

(* What the receiver has got and will get, of one metric and one le label. *)
Tally(b, name, le) == SumOf(b.sent \o b.lines, name, le)

LEMMA DogFlushFacts ==
    ASSUME NEW b \in DogBuffer
    PROVE  /\ Dog!Flush(b) \in DogBuffer
           /\ Dog!Flush(b).sent = b.sent \o b.lines
           /\ Dog!Flush(b).lines = <<>>
  <1>1. /\ b.lines \in Seq(DogLine) /\ b.sent \in Seq(DogLine)
        /\ b.length \in Nat /\ b.beacon.n \in Nat
    BY DEF DogBuffer
  <1>2. b.sent \o b.lines \in Seq(DogLine) /\ Len(b.lines) \in Nat /\ <<>> \in Seq(DogLine)
    BY <1>1, ConcatProperties, LenProperties, EmptySeq
  <1>3. [count |-> Len(b.lines), length |-> b.length, n |-> b.beacon.n + 1]
            \in [count : Nat, length : Nat, n : Nat]
    BY <1>1, <1>2
  <1>4. Dog!Flush(b) \in DogBuffer
    BY <1>2, <1>3 DEF Dog!Flush, DogBuffer
  <1>5. Dog!Flush(b).sent = b.sent \o b.lines
    BY DEF Dog!Flush, DogBuffer
  <1>6. Dog!Flush(b).lines = <<>>
    BY DEF Dog!Flush, DogBuffer
  <1> QED
    BY <1>4, <1>5, <1>6

LEMMA DogAppendFacts ==
    ASSUME NEW b \in DogBuffer, NEW line \in DogLine
    PROVE  /\ Dog!Append1(b, line) \in DogBuffer
           /\ Dog!Append1(b, line).sent \o Dog!Append1(b, line).lines = Append(b.sent \o b.lines, line)
  <1>1. /\ b.lines \in Seq(DogLine) /\ b.sent \in Seq(DogLine) /\ b.accepted \in Seq(DogLine)
        /\ b.length \in Nat
    BY DEF DogBuffer
  <1>2. Append(b.lines, line) \in Seq(DogLine) /\ Append(b.accepted, line) \in Seq(DogLine)
    BY <1>1, AppendProperties
  <1>3. b.length + (IF b.lines # <<>> THEN 3 ELSE 0) + Length(line) \in Nat
    BY <1>1, StatsdAssumption DEF Length
  <1>4. Dog!Append1(b, line) \in DogBuffer
    BY <1>2, <1>3 DEF Dog!Append1, DogBuffer
  <1>5. Dog!Append1(b, line).sent = b.sent /\ Dog!Append1(b, line).lines = Append(b.lines, line)
    BY DEF Dog!Append1, DogBuffer
  <1>6. Append(b.sent \o b.lines, line) = b.sent \o Append(b.lines, line)
    BY <1>1, AppendToConcat
  <1> QED
    BY <1>4, <1>5, <1>6

(* An early flush leaves what was added in its order.                      *)
LEMMA DogAddToFacts ==
    ASSUME NEW b \in DogBuffer, NEW line \in DogLine
    PROVE  /\ Dog!AddTo(b, line) \in DogBuffer
           /\ Dog!AddTo(b, line).sent \o Dog!AddTo(b, line).lines = Append(b.sent \o b.lines, line)
  <1>1. CASE Dog!Overflows(b, line)
    <2>1. Dog!AddTo(b, line) = Dog!Append1(Dog!Flush(b), line)
      BY <1>1 DEF Dog!AddTo
    <2>2. b.sent \o b.lines \in Seq(DogLine)
      BY ConcatProperties DEF DogBuffer
    <2>3. Dog!Flush(b).sent \o Dog!Flush(b).lines = b.sent \o b.lines
      BY <2>2, DogFlushFacts, ConcatEmptySeq
    <2> QED
      BY <2>1, <2>3, DogFlushFacts, DogAppendFacts
  <1>2. CASE ~Dog!Overflows(b, line)
    <2>1. Dog!AddTo(b, line) = Dog!Append1(b, line)
      BY <1>2 DEF Dog!AddTo
    <2> QED
      BY <2>1, DogAppendFacts
  <1> QED
    BY <1>1, <1>2

LEMMA TallyAdd ==
    ASSUME NEW b \in DogBuffer, NEW line \in DogLine, NEW name, NEW le
    PROVE  /\ Tally(b, name, le) \in Int
           /\ Tally(Dog!AddTo(b, line), name, le) = Tally(b, name, le) + Worth(line, name, le)
  <1>1. b.sent \o b.lines \in Seq(DogLine)
    BY ConcatProperties DEF DogBuffer
  <1> DEFINE all == b.sent \o b.lines
             c == Dog!AddTo(b, line)
  <1>2. c.sent \o c.lines = Append(all, line)
    BY DogAddToFacts
  <1>3. SumOf(all, name, le) \in Int
    BY <1>1, SumAppend
  <1>4. SumOf(Append(all, line), name, le) = SumOf(all, name, le) + Worth(line, name, le)
    <2>1. all \in Seq(DogLine)
      BY <1>1
    <2> HIDE DEF all
    <2> QED
      BY <2>1, SumAppend
  <1> QED
    BY <1>2, <1>3, <1>4 DEF Tally

(* One call of statsAdd by its callers.                                    *)
LEMMA StatsAddFacts ==
    ASSUME NEW s \in AddState, NEW line \in DogLine
    PROVE  /\ statsAdd(s, line) \in AddState
           /\ line = UNDEFINED =>
                \A name, le : Tally(statsAdd(s, line).buf, name, le) = Tally(s.buf, name, le)
           /\ line # UNDEFINED /\ ~s.threw =>
                /\ ~statsAdd(s, line).threw
                /\ \A name, le : Tally(statsAdd(s, line).buf, name, le)
                                     = Tally(s.buf, name, le) + Worth(line, name, le)
  <1>1. s.buf \in DogBuffer /\ s.threw \in BOOLEAN
    BY DEF AddState
  <1>2. Dog!AddTo(s.buf, line) \in DogBuffer
    BY <1>1, DogAddToFacts
  <1>3. CASE s.threw \/ (line = UNDEFINED /\ s.buf.lines # <<>>)
    <2>1. statsAdd(s, line) \in AddState /\ statsAdd(s, line).buf = s.buf
      BY <1>1, <1>3 DEF statsAdd, AddState
    <2> QED
      BY <1>3, <2>1
  <1>4. CASE ~ (s.threw \/ (line = UNDEFINED /\ s.buf.lines # <<>>))
    <2>1. statsAdd(s, line) = [s EXCEPT !.buf = Dog!AddTo(s.buf, line)]
      BY <1>4 DEF statsAdd
    <2>2. /\ statsAdd(s, line) \in AddState
          /\ statsAdd(s, line).buf = Dog!AddTo(s.buf, line)
          /\ ~statsAdd(s, line).threw
      BY <1>1, <1>2, <1>4, <2>1 DEF AddState
    <2>3. ASSUME NEW name, NEW le
          PROVE  /\ Tally(s.buf, name, le) \in Int
                 /\ Tally(statsAdd(s, line).buf, name, le) = Tally(s.buf, name, le) + Worth(line, name, le)
      BY <1>1, <2>2, TallyAdd
    <2>4. line = UNDEFINED => \A name, le : Worth(line, name, le) = 0
      BY DEF Worth
    <2> QED
      BY <2>2, <2>3, <2>4
  <1> QED
    BY <1>3, <1>4

(* The states of the buffer between the calls of statsAdd that AddAll      *)
(* makes.                                                                  *)
Adds(f, lines) ==
    /\ f \in [0..Len(lines) -> AddState]
    /\ f[0] = [buf |-> stats, threw |-> FALSE]
    /\ \A n \in 1..Len(lines) : f[n] = statsAdd(f[n - 1], lines[n])

LEMMA AddAllFacts ==
    ASSUME stats \in DogBuffer, NEW lines \in Seq(DogLine), AddAll(lines)
    PROVE  \E f : Adds(f, lines) /\ stats' = f[Len(lines)].buf /\ threw' = f[Len(lines)].threw
  <1> DEFINE N == Len(lines)
             first == [buf |-> stats, threw |-> FALSE]
             step == [n \in 1..N |-> [s \in AddState |-> statsAdd(s, lines[n])]]
             Is(h) == h = [n \in 0..N |-> IF n = 0 THEN first ELSE statsAdd(h[n - 1], lines[n])]
             h == CHOOSE g : Is(g)
  <1>1. N \in Nat /\ \A n \in 1..N : lines[n] \in DogLine
    BY LenProperties, ElementOfSeq
  <1>2. first \in AddState
    BY DEF AddState
  <1>3. step \in [1..N -> [AddState -> AddState]]
    <2>1. ASSUME NEW n \in 1..N, NEW s \in AddState PROVE statsAdd(s, lines[n]) \in AddState
      BY <1>1, StatsAddFacts
    <2> QED
      BY <2>1
  <1>4. PICK f \in [0..N -> AddState] : Iterates(f, first, N, step)
    <2> HIDE DEF first, step, N
    <2> QED
      BY <1>1, <1>2, <1>3, Iteration
  <1>5. f[0] = first /\ \A n \in 1..N : f[n] = statsAdd(f[n - 1], lines[n])
    <2>1. ASSUME NEW n \in 1..N PROVE f[n] = statsAdd(f[n - 1], lines[n])
      <3>1. f[n - 1] \in AddState
        BY <1>1
      <3>2. f[n] = step[n][f[n - 1]]
        BY <1>4 DEF Iterates
      <3> QED
        BY <3>1, <3>2
    <2>2. f[0] = first
      BY <1>4 DEF Iterates
    <2> QED
      BY <2>1, <2>2
  <1>6. Is(f)
    <2>1. ASSUME NEW n \in 0..N
          PROVE  f[n] = IF n = 0 THEN first ELSE statsAdd(f[n - 1], lines[n])
      <3>1. CASE n = 0
        BY <3>1, <1>5
      <3>2. CASE n # 0
        <4>1. n \in 1..N
          BY <1>1, <3>2
        <4> QED
          BY <3>2, <4>1, <1>5
      <3> QED
        BY <3>1, <3>2
    <2> QED
      BY <2>1
  <1>7. Is(h)
    BY <1>6
  <1>8. stats' = h[N].buf /\ threw' = h[N].threw
    BY DEF AddAll
  <1> HIDE DEF h, first
  <1>9. h[N] = f[N]
    <2> DEFINE T == {n \in 0..N : h[n] = f[n]}
    <2>1. 0 \in T
      BY <1>1, <1>5, <1>7
    <2>2. ASSUME NEW n \in 1..N, n - 1 \in T PROVE n \in T
      <3>1. n \in 0..N /\ n # 0 /\ h[n - 1] = f[n - 1]
        BY <2>2
      <3>2. h[n] = statsAdd(h[n - 1], lines[n])
        BY <3>1, <1>7
      <3> QED
        BY <3>1, <3>2, <1>5
    <2>3. N \in 0..N
      BY <1>1
    <2>4. N \in T
      <3> HIDE DEF T, N
      <3> QED
        BY <1>1, <2>1, <2>2, <2>3, Induction
    <2> QED
      BY <2>4
  <1> QED
    BY <1>5, <1>8, <1>9 DEF Adds, first

(* Lines that are undefined are counted nowhere.                           *)
LEMMA NothingAdded ==
    ASSUME stats \in DogBuffer, NEW lines \in Seq(DogLine), AddAll(lines),
           \A n \in 1..Len(lines) : lines[n] = UNDEFINED
    PROVE  /\ stats' \in DogBuffer /\ threw' \in BOOLEAN
           /\ \A name, le : Tally(stats', name, le) = Tally(stats, name, le)
  <1>1. PICK f : Adds(f, lines) /\ stats' = f[Len(lines)].buf /\ threw' = f[Len(lines)].threw
    BY AddAllFacts
  <1> DEFINE N == Len(lines)
             T == {n \in 0..N : \A name, le : Tally(f[n].buf, name, le) = Tally(stats, name, le)}
  <1>2. N \in Nat /\ N \in 0..N
    BY LenProperties
  <1>3. 0 \in T
    BY <1>1, <1>2 DEF Adds
  <1>4. ASSUME NEW n \in 1..N, n - 1 \in T PROVE n \in T
    <2>1. f[n - 1] \in AddState /\ lines[n] = UNDEFINED /\ UNDEFINED \in DogLine
      BY <1>1, <1>2 DEF Adds, DogLine
    <2>2. f[n] = statsAdd(f[n - 1], UNDEFINED)
      BY <1>1, <2>1 DEF Adds
    <2>3. \A name, le : Tally(statsAdd(f[n - 1], UNDEFINED).buf, name, le) = Tally(f[n - 1].buf, name, le)
      BY <2>1, StatsAddFacts
    <2> QED
      BY <1>4, <2>2, <2>3
  <1>5. N \in T
    <2> HIDE DEF T, N
    <2> QED
      BY <1>2, <1>3, <1>4, Induction
  <1>6. f[N] \in AddState
    BY <1>1, <1>2 DEF Adds
  <1> QED
    BY <1>1, <1>5, <1>6 DEF AddState

(* Each of the other lines is counted, and none of them throws.            *)
LEMMA AllAdded ==
    ASSUME stats \in DogBuffer, NEW lines \in Seq(DogLine), AddAll(lines),
           \A n \in 1..Len(lines) : lines[n] # UNDEFINED
    PROVE  \E b \in [0..Len(lines) -> DogBuffer] :
              /\ b[0] = stats /\ stats' = b[Len(lines)] /\ threw' = FALSE
              /\ \A n \in 1..Len(lines) : \A name, le :
                    Tally(b[n], name, le) = Tally(b[n - 1], name, le) + Worth(lines[n], name, le)
  <1>1. PICK f : Adds(f, lines) /\ stats' = f[Len(lines)].buf /\ threw' = f[Len(lines)].threw
    BY AddAllFacts
  <1> DEFINE N == Len(lines)
             T == {n \in 0..N : ~f[n].threw}
             b == [n \in 0..N |-> f[n].buf]
  <1>2. N \in Nat /\ N \in 0..N /\ 0 \in 0..N /\ \A n \in 1..N : lines[n] \in DogLine
    BY LenProperties, ElementOfSeq
  <1>3. 0 \in T
    BY <1>1, <1>2 DEF Adds
  <1>4. ASSUME NEW n \in 1..N, n - 1 \in T
        PROVE  /\ n \in T
               /\ \A name, le : Tally(f[n].buf, name, le)
                                  = Tally(f[n - 1].buf, name, le) + Worth(lines[n], name, le)
    <2>1. f[n - 1] \in AddState /\ lines[n] # UNDEFINED /\ lines[n] \in DogLine /\ ~f[n - 1].threw
      BY <1>1, <1>2, <1>4 DEF Adds
    <2>2. f[n] = statsAdd(f[n - 1], lines[n])
      BY <1>1 DEF Adds
    <2> QED
      BY <2>1, <2>2, StatsAddFacts
  <1>5. \A n \in 0..N : n \in T
    <2>1. \A n \in 1..N : n - 1 \in T => n \in T
      BY <1>4
    <2> HIDE DEF T, N
    <2> QED
      BY <1>2, <1>3, <2>1, Induction
  <1>6. b \in [0..N -> DogBuffer]
    <2>1. ASSUME NEW n \in 0..N PROVE f[n].buf \in DogBuffer
      BY <1>1 DEF Adds, AddState
    <2> QED
      BY <2>1
  <1>7. b[0] = stats /\ stats' = b[N] /\ threw' = FALSE
    <2>1. f[N] \in AddState /\ N \in T
      BY <1>1, <1>2, <1>5 DEF Adds
    <2>2. f[N].threw = FALSE
      BY <2>1 DEF AddState
    <2> QED
      BY <1>1, <1>2, <2>2 DEF Adds
  <1>8. ASSUME NEW n \in 1..N, NEW name, NEW le
        PROVE  Tally(b[n], name, le) = Tally(b[n - 1], name, le) + Worth(lines[n], name, le)
    <2>1. n - 1 \in 0..N /\ n \in 0..N
      BY <1>2
    <2>2. b[n] = f[n].buf /\ b[n - 1] = f[n - 1].buf
      BY <2>1
    <2>3. n - 1 \in T
      BY <1>5, <2>1
    <2> HIDE DEF T, b
    <2> QED
      BY <1>4, <2>2, <2>3
  <1> HIDE DEF b
  <1> QED
    BY <1>6, <1>7, <1>8

LEMMA FormatFacts ==
    ASSUME NEW name \in DogName, NEW value \in Int, NEW labels \in Label,
           NEW le \in Int \cup {INF, NONE}
    PROVE  /\ formatDogstatsd(name, value, labels, le) \in DogLine
           /\ formatDogstatsd(name, value, labels, le) # UNDEFINED <=> labels.legalKey
  <1> DEFINE line == formatDogstatsd(name, value, labels, le)
  <1>1. CASE labels.legalKey
    <2>1. line \in DogRecord
      BY <1>1 DEF formatDogstatsd, DogRecord
    <2>2. line # UNDEFINED
      BY <2>1, StatsdAssumption
    <2> QED
      BY <1>1, <2>1, <2>2 DEF DogLine
  <1>2. CASE ~labels.legalKey
    BY <1>2 DEF formatDogstatsd, DogLine
  <1> QED
    BY <1>1, <1>2

LEMMA FormatWorth ==
    ASSUME NEW name, NEW value, NEW labels, NEW le, NEW nm, NEW l,
           formatDogstatsd(name, value, labels, le) # UNDEFINED
    PROVE  /\ nm = name /\ l = le => Worth(formatDogstatsd(name, value, labels, le), nm, l) = value
           /\ nm # name \/ l # le => Worth(formatDogstatsd(name, value, labels, le), nm, l) = 0
  <1> DEFINE line == formatDogstatsd(name, value, labels, le)
  <1>1. line # UNDEFINED
    OBVIOUS
  <1>2. line = [name |-> name, value |-> value, le |-> le,
                label |-> IF labels.legalValue THEN "given" ELSE "_invalid_value"]
    BY DEF formatDogstatsd
  <1>3. line.name = name /\ line.value = value /\ line.le = le
    BY <1>2
  <1> HIDE DEF line
  <1>4. /\ nm = name /\ l = le => Worth(line, nm, l) = value
        /\ nm # name \/ l # le => Worth(line, nm, l) = 0
    BY <1>1, <1>3 DEF Worth
  <1> QED
    BY <1>4 DEF line

(* The lines of a histogram are those of its buckets and three more.       *)
LEMMA HistogramFacts ==
    ASSUME NEW value, NEW labels \in Label, ValidHistogram(value, labels)
    PROVE  LET lines == HistogramLines(value, labels)
               k == Len(labels.buckets)
           IN  /\ k \in Nat /\ lines \in Seq(DogLine) /\ Len(lines) = k + 3
               /\ \A i \in 1..k : labels.buckets[i] \in Int
               /\ \A i, j \in 1..k : labels.buckets[i] = labels.buckets[j] => i = j
               /\ \A i \in 1..k :
                    lines[i] = formatDogstatsd("bucket", IF value <= labels.buckets[i] THEN 1 ELSE 0,
                                               labels, labels.buckets[i])
               /\ lines[k + 1] = formatDogstatsd("bucket", 1, labels, INF)
               /\ lines[k + 2] = formatDogstatsd("count", 1, labels, NONE)
               /\ lines[k + 3] = formatDogstatsd("sum", value, labels, NONE)
  <1> DEFINE b == labels.buckets
             k == Len(b)
             line(i) == formatDogstatsd("bucket", IF value <= b[i] THEN 1 ELSE 0, labels, b[i])
             first == [i \in DOMAIN b |-> line(i)]
             x == formatDogstatsd("bucket", 1, labels, INF)
             y == formatDogstatsd("count", 1, labels, NONE)
             z == formatDogstatsd("sum", value, labels, NONE)
  <1>1. value \in Int
    BY StatsdAssumption DEF ValidHistogram
  <1>2. b \in Seq(Int \cup {NAN, TEXT})
    BY StatsdAssumption DEF ValidHistogram, Label
  <1>3. k \in Nat /\ DOMAIN b = 1..k
    BY <1>2, LenProperties
  <1>4. \A i \in 1..k : b[i] \in Int
    BY <1>3 DEF ValidHistogram
  <1>5. ASSUME NEW i \in 1..k, NEW j \in 1..k, b[i] = b[j] PROVE i = j
    <2>1. i < j => b[i] < b[j]
      BY <1>3 DEF ValidHistogram, SortedUnique
    <2>2. j < i => b[j] < b[i]
      BY <1>3 DEF ValidHistogram, SortedUnique
    <2>3. b[i] \in Int /\ b[j] \in Int
      BY <1>4
    <2> HIDE DEF b
    <2> QED
      BY <1>3, <1>5, <2>1, <2>2, <2>3
  <1>6. ASSUME NEW i \in 1..k PROVE line(i) \in DogLine
    <2>1. "bucket" \in DogName
      BY DEF DogName
    <2>2. (IF value <= b[i] THEN 1 ELSE 0) \in Int
      OBVIOUS
    <2> QED
      BY <1>4, <2>1, <2>2, FormatFacts
  <1>7. x \in DogLine /\ y \in DogLine /\ z \in DogLine
    <2>1. "bucket" \in DogName /\ "count" \in DogName /\ "sum" \in DogName /\ 1 \in Int
      BY DEF DogName
    <2> QED
      BY <1>1, <2>1, FormatFacts
  <1> HIDE DEF b, line, x, y, z
  <1>8. first \in [1..k -> DogLine]
    BY <1>3, <1>6
  <1>9. first \in Seq(DogLine) /\ Len(first) = k
    BY <1>3, <1>8, SeqDef, LenProperties
  <1>10. /\ <<x, y, z>> \in Seq(DogLine) /\ Len(<<x, y, z>>) = 3
         /\ <<x, y, z>>[1] = x /\ <<x, y, z>>[2] = y /\ <<x, y, z>>[3] = z
    BY <1>7
  <1> DEFINE all == first \o <<x, y, z>>
  <1>11. /\ all \in Seq(DogLine) /\ Len(all) = k + 3
         /\ \A i \in 1..k : all[i] = first[i]
         /\ all[k + 1] = x /\ all[k + 2] = y /\ all[k + 3] = z
    <2> DEFINE last == <<x, y, z>>
    <2>1. last \in Seq(DogLine) /\ Len(last) = 3 /\ last[1] = x /\ last[2] = y /\ last[3] = z
      BY <1>10
    <2> HIDE DEF first, last
    <2>2. /\ first \o last \in Seq(DogLine) /\ Len(first \o last) = k + 3
          /\ \A i \in 1..(k + 3) :
                (first \o last)[i] = IF i <= k THEN first[i] ELSE last[i - k]
      <3>1. first \o last \in Seq(DogLine)
        BY <1>9, <2>1, ConcatProperties
      <3>2. Len(first \o last) = Len(first) + Len(last)
        BY <1>9, <2>1, ConcatProperties
      <3>3. \A i \in 1..(Len(first) + Len(last)) :
               (first \o last)[i] = IF i <= Len(first) THEN first[i] ELSE last[i - Len(first)]
        <4>1. first \in Seq(DogLine) /\ last \in Seq(DogLine)
          BY <1>9, <2>1
        <4> QED
          BY ONLY <4>1, ConcatProperties, Zenon
      <3> QED
        BY <1>9, <2>1, <3>1, <3>2, <3>3
    <2>3. /\ k + 1 \in 1..(k + 3) /\ ~ (k + 1 <= k) /\ (k + 1) - k = 1
          /\ k + 2 \in 1..(k + 3) /\ ~ (k + 2 <= k) /\ (k + 2) - k = 2
          /\ k + 3 \in 1..(k + 3) /\ ~ (k + 3 <= k) /\ (k + 3) - k = 3
          /\ \A i \in 1..k : i \in 1..(k + 3) /\ i <= k
      BY <1>3
    <2> QED
      BY <2>1, <2>2, <2>3 DEF last
  <1>12. \A i \in 1..k : first[i] = line(i)
    BY <1>3
  <1>13. HistogramLines(value, labels) = all
    BY DEF HistogramLines, b, line, x, y, z
  <1> HIDE DEF first, all
  <1> QED
    BY <1>3, <1>4, <1>5, <1>11, <1>12, <1>13 DEF b, line, x, y, z

(***************************************************************************)
(* The invariant of the subscribers.                                       *)
(***************************************************************************)
(* Of a buffer b and a count n.                                            *)
Accurate(b, n) ==
    /\ Tally(b, "total", NONE) <= n
    /\ Tally(b, "bucket", INF) = Tally(b, "count", NONE)
    /\ \A le \in Int : Tally(b, "bucket", le) <= Tally(b, "bucket", INF)

(* Only a distribution with an illegal label key makes the subscriber      *)
(* throw, and as long as it has not, no call is lost.                      *)
StatsdInv ==
    /\ stats \in DogBuffer /\ counted \in Int /\ threw \in BOOLEAN
    /\ Accurate(stats, counted)
    /\ threw => illegal
    /\ ~threw => Tally(stats, "total", NONE) = counted

LEMMA TallyType ==
    ASSUME NEW b \in DogBuffer, NEW name, NEW le
    PROVE  Tally(b, name, le) \in Int
  <1>1. UNDEFINED \in DogLine
    BY DEF DogLine
  <1> QED
    BY <1>1, TallyAdd

LEMMA OneAdded ==
    ASSUME stats \in DogBuffer, NEW line \in DogLine, line # UNDEFINED, AddAll(<<line>>)
    PROVE  /\ stats' \in DogBuffer /\ threw' = FALSE
           /\ \A name, le : Tally(stats', name, le) = Tally(stats, name, le) + Worth(line, name, le)
  <1> DEFINE lines == <<line>>
  <1>1. lines \in Seq(DogLine) /\ Len(lines) = 1 /\ lines[1] = line
    OBVIOUS
  <1>2. AddAll(lines)
    OBVIOUS
  <1> HIDE DEF lines
  <1>3. PICK b \in [0..Len(lines) -> DogBuffer] :
              /\ b[0] = stats /\ stats' = b[Len(lines)] /\ threw' = FALSE
              /\ \A n \in 1..Len(lines) : \A name, le :
                    Tally(b[n], name, le) = Tally(b[n - 1], name, le) + Worth(lines[n], name, le)
    <2>1. \A n \in 1..Len(lines) : lines[n] # UNDEFINED
      BY <1>1
    <2> QED
      BY <1>1, <1>2, <2>1, AllAdded
  <1>4. b[0] = stats /\ stats' = b[1] /\ b[1] \in DogBuffer /\ 1 \in 1..Len(lines) /\ 1 - 1 = 0
    BY <1>1, <1>3
  <1>5. \A name, le : Tally(b[1], name, le) = Tally(b[0], name, le) + Worth(line, name, le)
    BY <1>1, <1>3, <1>4
  <1> QED
    BY <1>3, <1>4, <1>5

(* A step that leaves the buffer and the exception as they are.            *)
LEMMA LostStep ==
    ASSUME StatsdInv, stats' = stats, threw' = threw, counted' \in Int, counted <= counted',
           ~threw => counted' = counted, illegal => illegal'
    PROVE  StatsdInv'
  <1>1. Tally(stats, "total", NONE) \in Int
    BY TallyType DEF StatsdInv
  <1>2. \A name, le : Tally(stats', name, le) = Tally(stats, name, le)
    OBVIOUS
  <1> QED
    BY <1>1, <1>2 DEF StatsdInv, Accurate

LEMMA TotalStep ==
    ASSUME StatsdInv, NEW tracked, NEW labels \in Label, Total(tracked, labels)
    PROVE  StatsdInv'
  <1> DEFINE value == IF tracked = UNDEFINED THEN 2 ELSE tracked
             valid == value \in Number /\ Whole(value) /\ value >= 2
             line == formatDogstatsd("total", value, labels, NONE)
  <1>1. /\ counted' = IF valid /\ labels.legalKey THEN counted + value ELSE counted
        /\ IF valid /\ line # UNDEFINED THEN ReachesStats(<<line>>) ELSE UNCHANGED <<stats, threw>>
        /\ illegal' = illegal
    BY DEF Total
  <1>2. /\ stats \in DogBuffer /\ counted \in Int
        /\ Tally(stats, "total", NONE) <= counted
        /\ ~threw => Tally(stats, "total", NONE) = counted
        /\ Tally(stats, "bucket", INF) = Tally(stats, "count", NONE)
        /\ \A le \in Int : Tally(stats, "bucket", le) <= Tally(stats, "bucket", INF)
    BY DEF StatsdInv, Accurate
  <1>3. CASE ~threw /\ valid /\ labels.legalKey
    <2>1. value \in Int /\ "total" \in DogName /\ NONE \in Int \cup {INF, NONE}
      BY <1>3, StatsdAssumption DEF DogName
    <2> HIDE DEF value
    <2>2. /\ line \in DogLine /\ line # UNDEFINED
          /\ \A nm, l : Worth(line, nm, l) = IF nm = "total" /\ l = NONE THEN value ELSE 0
      <3>1. line \in DogLine /\ line # UNDEFINED
        BY <2>1, <1>3, FormatFacts
      <3>2. ASSUME NEW nm, NEW l
            PROVE  Worth(line, nm, l) = IF nm = "total" /\ l = NONE THEN value ELSE 0
        <4>1. /\ nm = "total" /\ l = NONE => Worth(line, nm, l) = value
              /\ nm # "total" \/ l # NONE => Worth(line, nm, l) = 0
          BY <3>1, FormatWorth
        <4> QED
          BY <4>1
      <3> QED
        BY <3>1, <3>2
    <2> HIDE DEF line
    <2>3. /\ stats' \in DogBuffer /\ threw' = FALSE
          /\ \A name, le : Tally(stats', name, le) = Tally(stats, name, le) + Worth(line, name, le)
      <3>1. ReachesStats(<<line>>)
        BY <1>1, <1>3, <2>2
      <3>2. AddAll(<<line>>)
        BY <1>3, <3>1 DEF ReachesStats
      <3> QED
        BY <1>2, <2>2, <3>2, OneAdded
    <2>4. Tally(stats', "total", NONE) = counted + value
      BY <1>2, <1>3, <2>2, <2>3
    <2>5. \A le : Tally(stats', "bucket", le) = Tally(stats, "bucket", le)
      <3>1. ASSUME NEW le PROVE Tally(stats', "bucket", le) = Tally(stats, "bucket", le)
        <4>1. Worth(line, "bucket", le) = 0 /\ Tally(stats, "bucket", le) \in Int
          BY <1>2, <2>2, TallyType
        <4>2. Tally(stats', "bucket", le) = Tally(stats, "bucket", le) + Worth(line, "bucket", le)
          BY <2>3
        <4> QED
          BY <4>1, <4>2
      <3> QED
        BY <3>1
    <2>6. Tally(stats', "count", NONE) = Tally(stats, "count", NONE)
      <3>1. Worth(line, "count", NONE) = 0 /\ Tally(stats, "count", NONE) \in Int
        BY <1>2, <2>2, TallyType
      <3>2. Tally(stats', "count", NONE) = Tally(stats, "count", NONE) + Worth(line, "count", NONE)
        BY <2>3
      <3> QED
        BY <3>1, <3>2
    <2>7. counted' = counted + value
      BY <1>1, <1>3
    <2>8. Accurate(stats', counted')
      BY <1>2, <2>4, <2>5, <2>6, <2>7 DEF Accurate
    <2>9. counted' \in Int
      BY <1>2, <2>1, <2>7
    <2> QED
      BY <2>3, <2>4, <2>7, <2>8, <2>9 DEF StatsdInv
  <1>4. CASE ~ (valid /\ labels.legalKey)
    <2>1. valid => line = UNDEFINED
      <3> SUFFICES ASSUME valid PROVE line = UNDEFINED
        OBVIOUS
      <3>1. ~labels.legalKey
        BY <1>4
      <3> QED
        BY <3>1 DEF formatDogstatsd
    <2>2. counted' = counted /\ stats' = stats /\ threw' = threw
      BY <1>1, <1>4, <2>1
    <2> QED
      BY <1>1, <1>2, <2>2, LostStep
  <1>5. CASE threw /\ valid /\ labels.legalKey
    <2>1. value \in Int /\ value >= 2
      BY <1>5, StatsdAssumption
    <2> HIDE DEF value
    <2>2. counted' = counted + value
      BY <1>1, <1>5
    <2>3. stats' = stats /\ threw' = threw
      BY <1>1, <1>5 DEF ReachesStats
    <2> QED
      BY <1>1, <1>2, <1>5, <2>1, <2>2, <2>3, LostStep
  <1> QED
    BY <1>3, <1>4, <1>5

LEMMA SecondsStep ==
    ASSUME StatsdInv, NEW value, NEW labels \in Label, Seconds(value, labels)
    PROVE  StatsdInv'
  <1> DEFINE line == formatDogstatsd("seconds", Round(value), labels, NONE)
  <1>1. CASE ~threw /\ value \in Number /\ value >= 0 /\ line # UNDEFINED
    <2>1. AddAll(<<line>>) /\ counted' = counted /\ illegal' = illegal
      BY <1>1 DEF Seconds, ReachesStats, history
    <2>2. Round(value) \in Int /\ "seconds" \in DogName /\ NONE \in Int \cup {INF, NONE}
      BY <1>1, StatsdAssumption DEF Round, DogName
    <2>3. labels.legalKey
      BY <1>1 DEF formatDogstatsd
    <2>4. /\ line \in DogLine
          /\ \A nm, l : Worth(line, nm, l) = IF nm = "seconds" /\ l = NONE THEN Round(value) ELSE 0
      <3>1. line \in DogLine
        BY <2>2, FormatFacts
      <3>2. ASSUME NEW nm, NEW l
            PROVE  Worth(line, nm, l) = IF nm = "seconds" /\ l = NONE THEN Round(value) ELSE 0
        <4>1. /\ nm = "seconds" /\ l = NONE => Worth(line, nm, l) = Round(value)
              /\ nm # "seconds" \/ l # NONE => Worth(line, nm, l) = 0
          BY <1>1, FormatWorth
        <4> QED
          BY <4>1
      <3> QED
        BY <3>1, <3>2
    <2> HIDE DEF line
    <2>5. /\ stats' \in DogBuffer /\ threw' = FALSE
          /\ \A name, le : Tally(stats', name, le) = Tally(stats, name, le) + Worth(line, name, le)
      BY <1>1, <2>1, <2>4, OneAdded DEF StatsdInv
    <2>6. ASSUME NEW name \in {"total", "bucket", "count"}, NEW le
          PROVE  Tally(stats', name, le) = Tally(stats, name, le)
      <3>1. Worth(line, name, le) = 0
        BY <2>4
      <3>2. Tally(stats, name, le) \in Int
        BY TallyType DEF StatsdInv
      <3>3. Tally(stats', name, le) = Tally(stats, name, le) + Worth(line, name, le)
        BY <2>5
      <3> QED
        BY <3>1, <3>2, <3>3
    <2> QED
      BY <1>1, <2>1, <2>5, <2>6 DEF StatsdInv, Accurate
  <1>2. CASE threw \/ ~ (value \in Number /\ value >= 0 /\ line # UNDEFINED)
    <2>1. stats' = stats /\ threw' = threw /\ counted' = counted /\ illegal' = illegal
      BY <1>2 DEF Seconds, Rejected, ReachesStats, history
    <2>2. counted \in Int /\ counted <= counted'
      BY <2>1 DEF StatsdInv
    <2> QED
      BY <2>1, <2>2, LostStep
  <1> QED
    BY <1>1, <1>2

(* A histogram adds one to its count and to the bucket of all, and at most *)
(* one to each other bucket, since its bounds differ.                      *)
LEMMA DistributionStep ==
    ASSUME StatsdInv, NEW value, NEW labels \in Label, Distribution(value, labels)
    PROVE  StatsdInv'
  <1> DEFINE k == Len(labels.buckets)
             lines == HistogramLines(value, labels)
             bound(i) == labels.buckets[i]
  <1>1. CASE threw \/ ~ValidHistogram(value, labels)
    <2>1. stats' = stats /\ threw' = threw /\ counted' = counted /\ (illegal => illegal')
      BY <1>1 DEF Distribution, Rejected, ReachesStats, history
    <2>2. counted \in Int /\ counted <= counted'
      BY <2>1 DEF StatsdInv
    <2> QED
      BY <2>1, <2>2, LostStep
  <1>2. CASE ~threw /\ ValidHistogram(value, labels)
    <2>1. /\ AddAll(lines) /\ counted' = counted /\ stats \in DogBuffer /\ counted \in Int
          /\ illegal' = (illegal \/ ~labels.legalKey)
          /\ Tally(stats, "total", NONE) = counted
      BY <1>2 DEF Distribution, StatsdInv, ReachesStats
    <2>2. /\ k \in Nat /\ lines \in Seq(DogLine) /\ Len(lines) = k + 3
          /\ \A i \in 1..k : bound(i) \in Int
          /\ \A i, j \in 1..k : bound(i) = bound(j) => i = j
          /\ \A i \in 1..k :
               lines[i] = formatDogstatsd("bucket", IF value <= bound(i) THEN 1 ELSE 0, labels, bound(i))
          /\ lines[k + 1] = formatDogstatsd("bucket", 1, labels, INF)
          /\ lines[k + 2] = formatDogstatsd("count", 1, labels, NONE)
          /\ lines[k + 3] = formatDogstatsd("sum", value, labels, NONE)
      BY <1>2, HistogramFacts
    <2> HIDE DEF k, lines, bound
    <2>3. ASSUME NEW n \in 1..(k + 3)
          PROVE  n \in 1..k \/ n = k + 1 \/ n = k + 2 \/ n = k + 3
      BY <2>2
    <2>4. CASE ~labels.legalKey
      <3>1. ASSUME NEW n \in 1..Len(lines) PROVE lines[n] = UNDEFINED
        <4>1. \A name, v, le : formatDogstatsd(name, v, labels, le) = UNDEFINED
          BY <2>4 DEF formatDogstatsd
        <4> QED
          BY <2>2, <2>3, <4>1
      <3>2. /\ stats' \in DogBuffer /\ threw' \in BOOLEAN
            /\ \A name, le : Tally(stats', name, le) = Tally(stats, name, le)
        BY <2>1, <2>2, <3>1, NothingAdded
      <3>3. illegal'
        BY <2>1, <2>4
      <3>4. Accurate(stats', counted')
        BY <2>1, <3>2 DEF StatsdInv, Accurate
      <3> QED
        BY <2>1, <3>2, <3>3, <3>4 DEF StatsdInv
    <2>5. CASE labels.legalKey
      <3>1. ASSUME NEW n \in 1..Len(lines) PROVE lines[n] # UNDEFINED
        <4>1. ASSUME NEW name, NEW v, NEW le
              PROVE  formatDogstatsd(name, v, labels, le)
                       = [name |-> name, value |-> v, le |-> le,
                          label |-> IF labels.legalValue THEN "given" ELSE "_invalid_value"]
          BY <2>5 DEF formatDogstatsd
        <4>2. value \in Int /\ \A i \in 1..k : (IF value <= bound(i) THEN 1 ELSE 0) \in Int
          BY <1>2, StatsdAssumption DEF ValidHistogram
        <4>3. ASSUME NEW name \in DogName, NEW v \in Int, NEW le \in Int \cup {INF, NONE}
              PROVE  formatDogstatsd(name, v, labels, le) # UNDEFINED
          BY <2>5, FormatFacts
        <4>4. /\ "bucket" \in DogName /\ "count" \in DogName /\ "sum" \in DogName
              /\ 1 \in Int /\ INF \in Int \cup {INF, NONE} /\ NONE \in Int \cup {INF, NONE}
              /\ \A i \in 1..k : bound(i) \in Int \cup {INF, NONE}
          BY <2>2 DEF DogName
        <4>5. CASE n \in 1..k
          BY <2>2, <4>2, <4>3, <4>4, <4>5
        <4>6. CASE n = k + 1
          BY <2>2, <4>3, <4>4, <4>6
        <4>7. CASE n = k + 2
          BY <2>2, <4>3, <4>4, <4>7
        <4>8. CASE n = k + 3
          BY <2>2, <4>2, <4>3, <4>4, <4>8
        <4> QED
          BY <2>2, <2>3, <4>5, <4>6, <4>7, <4>8
      <3>2. PICK b \in [0..Len(lines) -> DogBuffer] :
              /\ b[0] = stats /\ stats' = b[Len(lines)] /\ threw' = FALSE
              /\ \A n \in 1..Len(lines) : \A name, le :
                    Tally(b[n], name, le) = Tally(b[n - 1], name, le) + Worth(lines[n], name, le)
        BY <2>1, <2>2, <3>1, AllAdded
      <3>3. ASSUME NEW n \in 1..(k + 3), NEW name, NEW le
            PROVE  /\ Tally(b[n], name, le) = Tally(b[n - 1], name, le) + Worth(lines[n], name, le)
                   /\ Tally(b[n - 1], name, le) \in Int
        <4>1. n - 1 \in 0..Len(lines) /\ n \in 1..Len(lines)
          BY <2>2
        <4>2. b[n - 1] \in DogBuffer
          BY <4>1
        <4> QED
          BY <3>2, <4>1, <4>2, TallyType
      <3>4. ASSUME NEW i \in 1..k, NEW name, NEW le
            PROVE  /\ name # "bucket" \/ le # bound(i) => Worth(lines[i], name, le) = 0
                   /\ Worth(lines[i], name, le) \in {0, 1}
        <4>1. i \in 1..Len(lines)
          BY <2>2
        <4> DEFINE v == IF value <= bound(i) THEN 1 ELSE 0
        <4>2. lines[i] = formatDogstatsd("bucket", v, labels, bound(i)) /\ lines[i] # UNDEFINED
          BY <2>2, <3>1, <4>1
        <4>3. v \in {0, 1}
          OBVIOUS
        <4> HIDE DEF v
        <4>4. /\ name = "bucket" /\ le = bound(i) => Worth(lines[i], name, le) = v
              /\ name # "bucket" \/ le # bound(i) => Worth(lines[i], name, le) = 0
          BY <4>2, FormatWorth
        <4> QED
          BY <4>3, <4>4
      <3> DEFINE Reached(le, n) == \E i \in 1..n : bound(i) = le
                 T == {n \in 0..k :
                         /\ \A name, le : name # "bucket" \/ le \notin Int =>
                               Tally(b[n], name, le) = Tally(stats, name, le)
                         /\ \A le \in Int :
                               Tally(b[n], "bucket", le)
                                 <= Tally(stats, "bucket", le) + (IF Reached(le, n) THEN 1 ELSE 0)}
      <3>5. 0 \in T
        <4>1. \A le \in Int : ~Reached(le, 0) /\ Tally(stats, "bucket", le) \in Int
          BY <2>1, TallyType
        <4> HIDE DEF Reached
        <4> QED
          BY <2>2, <3>2, <4>1
      <3>6. ASSUME NEW n \in 1..k, n - 1 \in T PROVE n \in T
        <4>1. n \in 0..k /\ n \in 1..(k + 3) /\ bound(n) \in Int
          BY <2>2
        <4>2. ASSUME NEW name, NEW le, name # "bucket" \/ le \notin Int
              PROVE  Tally(b[n], name, le) = Tally(stats, name, le)
          <5>1. Worth(lines[n], name, le) = 0
            BY <3>4, <4>1, <4>2
          <5>2. Tally(b[n - 1], name, le) = Tally(stats, name, le)
            BY <3>6, <4>2
          <5> QED
            BY <3>3, <4>1, <5>1, <5>2
        <4>3. ASSUME NEW le \in Int
              PROVE  Tally(b[n], "bucket", le)
                        <= Tally(stats, "bucket", le) + (IF Reached(le, n) THEN 1 ELSE 0)
          <5>1. Tally(b[n - 1], "bucket", le)
                  <= Tally(stats, "bucket", le) + (IF Reached(le, n - 1) THEN 1 ELSE 0)
            BY <3>6
          <5>2. /\ Tally(b[n], "bucket", le) = Tally(b[n - 1], "bucket", le) + Worth(lines[n], "bucket", le)
                /\ Tally(b[n - 1], "bucket", le) \in Int /\ Tally(stats, "bucket", le) \in Int
            BY <2>1, <3>3, <4>1, TallyType
          <5>3. CASE bound(n) = le
            <6>1. ~Reached(le, n - 1)
              BY <2>2, <5>3
            <6>2. Reached(le, n)
              BY <5>3
            <6>3. Worth(lines[n], "bucket", le) \in {0, 1}
              BY <3>4
            <6> HIDE DEF Reached
            <6> QED
              BY <5>1, <5>2, <6>1, <6>2, <6>3
          <5>4. CASE bound(n) # le
            <6>1. Reached(le, n - 1) <=> Reached(le, n)
              BY <2>2, <5>4
            <6>2. Worth(lines[n], "bucket", le) = 0
              BY <3>4, <5>4
            <6> HIDE DEF Reached
            <6> QED
              BY <5>1, <5>2, <6>1, <6>2
          <5> QED
            BY <5>3, <5>4
        <4> HIDE DEF Reached
        <4> QED
          BY <4>1, <4>2, <4>3
      <3>7. k \in T
        <4>1. k \in 0..k
          BY <2>2
        <4> HIDE DEF T
        <4> QED
          BY <2>2, <3>5, <3>6, <4>1, Induction
      <3>8. /\ \A name, le : name # "bucket" \/ le \notin Int =>
                 Tally(b[k], name, le) = Tally(stats, name, le)
            /\ \A le \in Int : Tally(b[k], "bucket", le) <= Tally(stats, "bucket", le) + 1
        <4>1. \A le \in Int : Tally(stats, "bucket", le) \in Int /\ Tally(b[k], "bucket", le) \in Int
          <5>1. b[k] \in DogBuffer
            BY <2>2, <3>2
          <5> QED
            BY <2>1, <5>1, TallyType
        <4>2. \A name, le : name # "bucket" \/ le \notin Int =>
                 Tally(b[k], name, le) = Tally(stats, name, le)
          BY <3>7
        <4> HIDE DEF Reached
        <4>3. ASSUME NEW le \in Int
              PROVE  Tally(b[k], "bucket", le) <= Tally(stats, "bucket", le) + 1
          <5>1. Tally(b[k], "bucket", le)
                  <= Tally(stats, "bucket", le) + (IF Reached(le, k) THEN 1 ELSE 0)
            BY <3>7
          <5> DEFINE one == IF Reached(le, k) THEN 1 ELSE 0
                     x == Tally(b[k], "bucket", le)
                     y == Tally(stats, "bucket", le)
          <5>2. one \in {0, 1}
            OBVIOUS
          <5>3. x \in Int /\ y \in Int /\ x <= y + one
            BY <4>1, <5>1
          <5> HIDE DEF one, x, y
          <5>4. x <= y + 1
            BY <5>2, <5>3
          <5> QED
            BY <5>4 DEF x, y
        <4> QED
          BY <4>2, <4>3
      <3>9. /\ k + 1 \in 1..(k + 3) /\ (k + 1) - 1 = k
            /\ k + 2 \in 1..(k + 3) /\ (k + 2) - 1 = k + 1
            /\ k + 3 \in 1..(k + 3) /\ (k + 3) - 1 = k + 2
        BY <2>2
      <3>10. ASSUME NEW name, NEW le
             PROVE  Tally(stats', name, le)
                       = Tally(b[k], name, le) + Worth(lines[k + 1], name, le)
                           + Worth(lines[k + 2], name, le) + Worth(lines[k + 3], name, le)
        <4>1. Tally(b[k + 1], name, le) = Tally(b[k], name, le) + Worth(lines[k + 1], name, le)
          BY <3>3, <3>9
        <4>2. Tally(b[k + 2], name, le) = Tally(b[k + 1], name, le) + Worth(lines[k + 2], name, le)
          BY <3>3, <3>9
        <4>3. Tally(b[k + 3], name, le) = Tally(b[k + 2], name, le) + Worth(lines[k + 3], name, le)
          BY <3>3, <3>9
        <4>4. stats' = b[k + 3]
          BY <2>2, <3>2
        <4> QED
          BY <4>1, <4>2, <4>3, <4>4
      <3>11. ASSUME NEW name, NEW le
             PROVE  /\ Worth(lines[k + 1], name, le) = IF name = "bucket" /\ le = INF THEN 1 ELSE 0
                    /\ Worth(lines[k + 2], name, le) = IF name = "count" /\ le = NONE THEN 1 ELSE 0
                    /\ name # "sum" => Worth(lines[k + 3], name, le) = 0
        <4>1. /\ lines[k + 1] # UNDEFINED /\ lines[k + 2] # UNDEFINED /\ lines[k + 3] # UNDEFINED
          BY <2>2, <3>1, <3>9
        <4>2. /\ name = "bucket" /\ le = INF => Worth(lines[k + 1], name, le) = 1
              /\ name # "bucket" \/ le # INF => Worth(lines[k + 1], name, le) = 0
          BY <2>2, <4>1, FormatWorth
        <4>3. /\ name = "count" /\ le = NONE => Worth(lines[k + 2], name, le) = 1
              /\ name # "count" \/ le # NONE => Worth(lines[k + 2], name, le) = 0
          BY <2>2, <4>1, FormatWorth
        <4>4. name # "sum" \/ le # NONE => Worth(lines[k + 3], name, le) = 0
          BY <2>2, <4>1, FormatWorth
        <4> QED
          BY <4>2, <4>3, <4>4
      <3>12. /\ INF \notin Int /\ NONE \notin Int /\ INF # NONE
             /\ \A name, le : Tally(b[k], name, le) \in Int /\ Tally(stats, name, le) \in Int
        <4>1. b[k] \in DogBuffer
          BY <2>2, <3>2
        <4> QED
          BY <2>1, <4>1, StatsdAssumption, TallyType
      <3> HIDE DEF T, Reached
      <3>13. Tally(stats', "total", NONE) = Tally(stats, "total", NONE)
        <4>1. Tally(stats', "total", NONE)
                = Tally(b[k], "total", NONE) + Worth(lines[k + 1], "total", NONE)
                    + Worth(lines[k + 2], "total", NONE) + Worth(lines[k + 3], "total", NONE)
          BY <3>10
        <4>2. /\ Worth(lines[k + 1], "total", NONE) = 0
              /\ Worth(lines[k + 2], "total", NONE) = 0
              /\ Worth(lines[k + 3], "total", NONE) = 0
          BY <3>11
        <4>3. Tally(b[k], "total", NONE) = Tally(stats, "total", NONE)
          BY <3>8, <3>12
        <4>4. Tally(stats, "total", NONE) \in Int
          BY <3>12
        <4> QED
          BY <4>1, <4>2, <4>3, <4>4
      <3>14. Tally(stats', "bucket", INF) = Tally(stats, "bucket", INF) + 1
        <4>1. Tally(stats', "bucket", INF)
                = Tally(b[k], "bucket", INF) + Worth(lines[k + 1], "bucket", INF)
                    + Worth(lines[k + 2], "bucket", INF) + Worth(lines[k + 3], "bucket", INF)
          BY <3>10
        <4>2. /\ Worth(lines[k + 1], "bucket", INF) = 1
              /\ Worth(lines[k + 2], "bucket", INF) = 0
              /\ Worth(lines[k + 3], "bucket", INF) = 0
          BY <3>11
        <4>3. Tally(b[k], "bucket", INF) = Tally(stats, "bucket", INF)
          BY <3>8, <3>12
        <4>4. Tally(stats, "bucket", INF) \in Int
          BY <3>12
        <4> QED
          BY <4>1, <4>2, <4>3, <4>4
      <3>15. Tally(stats', "count", NONE) = Tally(stats, "count", NONE) + 1
        <4>1. Tally(stats', "count", NONE)
                = Tally(b[k], "count", NONE) + Worth(lines[k + 1], "count", NONE)
                    + Worth(lines[k + 2], "count", NONE) + Worth(lines[k + 3], "count", NONE)
          BY <3>10
        <4>2. /\ Worth(lines[k + 1], "count", NONE) = 0
              /\ Worth(lines[k + 2], "count", NONE) = 1
              /\ Worth(lines[k + 3], "count", NONE) = 0
          BY <3>11
        <4>3. Tally(b[k], "count", NONE) = Tally(stats, "count", NONE)
          BY <3>8, <3>12
        <4>4. Tally(stats, "count", NONE) \in Int
          BY <3>12
        <4> QED
          BY <4>1, <4>2, <4>3, <4>4
      <3>16. ASSUME NEW le \in Int PROVE Tally(stats', "bucket", le) <= Tally(stats', "bucket", INF)
        <4>1. Tally(stats', "bucket", le) = Tally(b[k], "bucket", le)
          BY <3>10, <3>11, <3>12
        <4>2. Tally(b[k], "bucket", le) <= Tally(stats, "bucket", le) + 1
          BY <3>8
        <4>3. Tally(stats, "bucket", le) <= Tally(stats, "bucket", INF)
          BY DEF StatsdInv, Accurate
        <4> QED
          BY <3>12, <3>14, <4>1, <4>2, <4>3
      <3>17. stats' \in DogBuffer
        BY <2>2, <3>2
      <3> QED
        BY <2>1, <3>2, <3>13, <3>14, <3>15, <3>16, <3>17 DEF StatsdInv, Accurate
    <2> QED
      BY <2>4, <2>5
  <1> QED
    BY <1>1, <1>2

LEMMA StatsdInitHolds == StatsdInit => StatsdInv
  <1> SUFFICES ASSUME StatsdInit PROVE StatsdInv
    OBVIOUS
  <1>1. stats = [ lines |-> <<>>, length |-> 0, pending |-> FALSE, accepted |-> <<>>, sent |-> <<>>,
                  beacon |-> [count |-> 0, length |-> 0, n |-> 0] ]
    BY DEF StatsdInit, Dog!Init, Dog!EmptyBuffer
  <1>2. <<>> \in Seq(DogLine) /\ Len(<<>>) = 0
    BY EmptySeq
  <1>3. stats \in DogBuffer /\ stats.sent = <<>> /\ stats.lines = <<>>
    BY <1>1, <1>2 DEF DogBuffer
  <1>4. stats.sent \o stats.lines = <<>>
    BY <1>2, <1>3, ConcatEmptySeq
  <1>5. ASSUME NEW name, NEW le PROVE SumOf(<<>>, name, le) = 0
    <2>1. PICK f : Sums(f, <<>>, name, le)
      BY <1>2, SumExists
    <2>2. SumOf(<<>>, name, le) = f[0]
      BY <1>2, <2>1, SumOfIs
    <2>3. f[0] = 0
      BY <1>2, <2>1 DEF Sums
    <2> QED
      BY <2>2, <2>3
  <1>6. \A name, le : Tally(stats, name, le) = 0
    BY <1>4, <1>5 DEF Tally
  <1>7. counted = 0 /\ threw \in BOOLEAN /\ ~threw
    BY DEF StatsdInit
  <1>8. Accurate(stats, counted) /\ Tally(stats, "total", NONE) = counted
    BY <1>6, <1>7 DEF Accurate
  <1> QED
    BY <1>3, <1>7, <1>8 DEF StatsdInv

(* The scheduled flush sends what waits, which leaves the sums as they are. *)
LEMMA FlushStep ==
    ASSUME StatsdInv, RunEnqueuedStats
    PROVE  StatsdInv'
  <1> DEFINE b == [stats EXCEPT !.pending = FALSE]
  <1>1. /\ stats' = Dog!Flush(b) /\ stats \in DogBuffer
        /\ threw' = threw /\ counted' = counted /\ illegal' = illegal
    BY DEF RunEnqueuedStats, Dog!RunEnqueued, Dog!EnqueuedFlush, StatsdInv, history
  <1>2. b \in DogBuffer /\ b.sent = stats.sent /\ b.lines = stats.lines
    BY <1>1 DEF DogBuffer
  <1>3. b.sent \o b.lines \in Seq(DogLine)
    BY <1>2, ConcatProperties DEF DogBuffer
  <1> HIDE DEF b
  <1>4. stats' \in DogBuffer /\ stats'.sent = stats.sent \o stats.lines /\ stats'.lines = <<>>
    BY <1>1, <1>2, DogFlushFacts
  <1>5. stats'.sent \o stats'.lines = stats.sent \o stats.lines
    BY <1>2, <1>3, <1>4, ConcatEmptySeq
  <1>6. \A name, le : Tally(stats', name, le) = Tally(stats, name, le)
    BY <1>5 DEF Tally
  <1> QED
    BY <1>1, <1>4, <1>6 DEF StatsdInv, Accurate

LEMMA StatsdNextHolds == StatsdInv /\ [StatsdNext]_statsdVars => StatsdInv'
  <1> SUFFICES ASSUME StatsdInv, [StatsdNext]_statsdVars PROVE StatsdInv'
    OBVIOUS
  <1>1. CASE \E v \in Value : Timing(v) \/ Counter(v)
    <2>1. UNCHANGED <<stats, threw, history>>
      BY <1>1 DEF Timing, Counter
    <2> QED
      BY <2>1 DEF StatsdInv, history
  <1>2. CASE \E v \in Value, l \in Label : Total(v, l) \/ Seconds(v, l) \/ Distribution(v, l)
    BY <1>2, TotalStep, SecondsStep, DistributionStep
  <1>3. CASE RunEnqueuedStatsd
    BY <1>3 DEF RunEnqueuedStatsd, StatsdInv, history
  <1>4. CASE RunEnqueuedStats
    BY <1>4, FlushStep
  <1>5. CASE UNCHANGED statsdVars
    BY <1>5 DEF statsdVars, StatsdInv, history
  <1> QED
    BY <1>1, <1>2, <1>3, <1>4, <1>5 DEF StatsdNext

(* The sums of the lines that were sent or wait agree after every call.    *)
THEOREM StatsdInvariant == StatsdSpec => []StatsdInv
  BY StatsdInitHolds, StatsdNextHolds, PTL DEF StatsdSpec

(* Histograms stay cumulative through early flushes, invalid labels and    *)
(* calls that throw, whatever buckets are passed (trackHistogram,          *)
(* statsd.js:172-223).                                                     *)
THEOREM HistogramsCumulative == StatsdSpec => []HistogramCumulative
  <1>1. StatsdInv => HistogramCumulative
    <2> SUFFICES ASSUME StatsdInv PROVE HistogramCumulative
      OBVIOUS
    <2>1. \A name, le : Received(name, le) = Tally(stats, name, le)
      BY DEF Received, Tally
    <2>2. Received("bucket", INF) = Received("count", NONE)
      BY <2>1 DEF StatsdInv, Accurate
    <2>3. ASSUME NEW le \in {l.le : l \in ToSet(stats.accepted) \ {UNDEFINED}} \ {NONE}
          PROVE  Received("bucket", le) <= Received("bucket", INF)
      <3>1. PICK l \in ToSet(stats.accepted) \ {UNDEFINED} : le = l.le
        OBVIOUS
      <3>2. stats.accepted \in Seq(DogLine)
        BY DEF StatsdInv, DogBuffer
      <3>3. l \in DogRecord
        BY <3>1, <3>2, ElementOfSeq, LenProperties DEF ToSet, DogLine
      <3>4. le \in Int \cup {INF}
        BY <3>1, <3>3 DEF DogRecord
      <3>5. Tally(stats, "bucket", INF) \in Int
        BY TallyType DEF StatsdInv
      <3>6. CASE le \in Int
        BY <2>1, <3>6 DEF StatsdInv, Accurate
      <3>7. CASE le = INF
        BY <2>1, <3>5, <3>7
      <3> QED
        BY <3>4, <3>6, <3>7
    <2> QED
      BY <2>2, <2>3 DEF HistogramCumulative
  <1> QED
    BY <1>1, StatsdInvariant, PTL

(* Counters are never more than what was tracked, and exact whatever the   *)
(* values of the labels are: those are replaced and not dropped            *)
(* (statsd.js:157-160).  Only a distribution with an illegal label key can *)
(* make them fall behind, since its exception ends mw.track's loop (:123). *)
THEOREM CountersAccurate == StatsdSpec => []CounterAccurate
  <1>1. StatsdInv => CounterAccurate
    BY DEF StatsdInv, Accurate, CounterAccurate, Received, Tally
  <1> QED
    BY <1>1, StatsdInvariant, PTL
=============================================================================
