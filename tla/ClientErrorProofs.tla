------------------------- MODULE ClientErrorProofs -------------------------
(***************************************************************************)
(* Proofs about ClientError for any errors, components and limit: an error *)
(* is sent once at most, none is missed below the limit, and of two errors *)
(* on one subscriber the earlier one comes first.                          *)
(*                                                                         *)
(* The counter says nothing of which errors it counted.  The invariant     *)
(* therefore speaks of a set of places as large as the counter (Took).     *)
(***************************************************************************)
EXTENDS ClientError, SequenceTheorems, FiniteSetTheorems, WellFoundedInduction, TLAPS

TrackedEntry == [topic : Component \cup {"uncaught", "global"}, fault : Fault, error : 1..errors]

(* An error is on two topics only if one of them is passed over.           *)
ErrorsApart ==
    \A m, n \in Places :
        /\ trackQueue[m].topic # "uncaught" /\ trackQueue[n].topic # "uncaught"
        /\ trackQueue[m].error = trackQueue[n].error
        => m = n

(* What was sent had been handled, once, and counted.                      *)
SentHandled ==
    \A i \in DOMAIN sent :
        /\ sent[i] \in Places
        /\ trackQueue[sent[i]].topic # "uncaught"
        /\ Handled(sent[i])

SilencedHandled ==
    \A n \in silenced : trackQueue[n].topic # "uncaught" /\ Handled(n)

SentApart == \A i, j \in DOMAIN sent : sent[i] = sent[j] => i = j

(* Only the limit keeps an error from being sent.                          *)
LimitReached ==
    \A n \in Places \ silenced :
        Loggable(n) /\ Handled(n) /\ ~IsSent(n) => errorCount = LIMIT

(* T is a set of places that the counter may have counted.                 *)
Took(T) ==
    /\ IsFiniteSet(T) /\ Cardinality(T) = errorCount
    /\ T \subseteq Counted
    /\ \A n \in T : Loggable(n) => IsSent(n)

IInv ==
    /\ TypeOK
    /\ ErrorsApart
    /\ SentHandled /\ SentApart /\ Len(sent) <= errorCount
    /\ SilencedHandled
    /\ LimitReached
    /\ \E T \in SUBSET Places : Took(T)
    /\ EarlierWins

(***************************************************************************)
(* The descriptor                                                          *)
(***************************************************************************)

(* A set of natural numbers that is not empty has a least element.         *)
LEMMA LeastElement ==
    ASSUME NEW S \in SUBSET Nat, S # {}
    PROVE  \E i \in S : \A j \in S : i <= j
  <1> DEFINE R == {ss \in Nat \X Nat : ss[1] < ss[2]}
  <1>1. IsWellFoundedOn(R, Nat)
    BY NatLessThanWellFounded DEF OpToRel
  <1>2. PICK i \in S : \A j \in S : ~ (<<j, i>> \in R)
    <2> HIDE DEF R
    <2> QED
      BY <1>1, WFMin
  <1>3. ASSUME NEW j \in S PROVE i <= j
    <2>1. i \in Nat /\ j \in Nat
      OBVIOUS
    <2>2. ~ (j < i)
      BY <1>2, <2>1
    <2> QED
      BY <2>1, <2>2
  <1> QED
    BY <1>3

(* A descriptor names a file, unless there is none.                        *)
LEMMA DescriptorFile ==
    ASSUME NEW fault \in Fault
    PROVE  /\ processErrorInstance(fault) = NoDescriptor
              \/ processErrorInstance(fault).file \in File
           /\ processErrorLoggerObject(fault).file \in File
  <1>1. /\ fault.stack \in Seq(File \cup {UNPARSED})
        /\ fault.url \in {"script", "page", "foreign", NONE}
    BY ErrorAssumption
  <1>2. processErrorLoggerObject(fault).file \in File
    BY <1>1 DEF processErrorLoggerObject, File
  <1>3. ASSUME processErrorInstance(fault) # NoDescriptor
        PROVE  processErrorInstance(fault).file \in File
    <2> DEFINE lines == getNormalizedStackTraceLines(fault.stack)
               first == CHOOSE i \in lines : \A j \in lines : i <= j
    <2>1. lines # {} /\ processErrorInstance(fault).file = fault.stack[first]
      BY <1>3 DEF processErrorInstance
    <2>2. DOMAIN fault.stack \in SUBSET Nat
      <3>1. Len(fault.stack) \in Nat /\ DOMAIN fault.stack = 1 .. Len(fault.stack)
        BY <1>1, LenProperties
      <3> QED
        BY <3>1
    <2>3. lines \in SUBSET Nat
      BY <2>2 DEF getNormalizedStackTraceLines
    <2>4. \E i \in lines : \A j \in lines : i <= j
      BY <2>1, <2>3, LeastElement
    <2>5. first \in lines
      BY <2>4
    <2>6. first \in DOMAIN fault.stack /\ fault.stack[first] # UNPARSED
      BY <2>5 DEF getNormalizedStackTraceLines, IsParsed
    <2>7. fault.stack[first] \in File \cup {UNPARSED}
      BY <1>1, <2>6, ElementOfSeq, LenProperties
    <2> QED
      BY <2>1, <2>6, <2>7
  <1> QED
    BY <1>2, <1>3

(* An entry is to be counted by the rules of shouldLog exactly if it       *)
(* counts and the user lets it be.                                         *)
LEMMA CountsRight ==
    ASSUME TypeOK, NEW n \in Places, trackQueue[n].topic # "uncaught"
    PROVE  LET d == Descriptor(trackQueue[n])
           IN  d # NoDescriptor /\ Counts(d) <=> Countable(n) /\ ~optedOut
  <1> DEFINE d == Descriptor(trackQueue[n])
  <1>1. trackQueue[n] \in TrackedEntry
    BY ElementOfSeq DEF TypeOK, Places, TrackedEntry
  <1>2. trackQueue[n].fault \in Fault
    BY <1>1 DEF TrackedEntry
  <1>3. d = NoDescriptor \/ d.file \in File
    BY <1>2, DescriptorFile DEF Descriptor
  <1>4. NoDescriptor.file = NONE /\ NONE \notin {"script", "undefined"}
    BY DEF NoDescriptor, NONE
  <1> HIDE DEF d
  <1>5. d # NoDescriptor /\ ~shouldIgnoreFileUrl(d.file) <=> d.file \in {"script", "undefined"}
    BY <1>3, <1>4 DEF File, shouldIgnoreFileUrl
  <1>6. Countable(n) <=> /\ ~framed
                         /\ d.file \in {"script", "undefined"}
                         /\ d.file = "undefined" => d.message # "Script error."
    BY DEF Countable, d
  <1> QED
    BY <1>5, <1>6 DEF Counts, d

(***************************************************************************)
(* The initial states                                                      *)
(***************************************************************************)
LEMMA InitHolds ==
    ASSUME Init
    PROVE  IInv
  <1>1. Len(trackQueue) = 0 /\ Places = {} /\ Len(sent) = 0 /\ DOMAIN sent = {}
    BY EmptySeq DEF Init, Places
  <1>2. TypeOK
    <2>1. trackQueue \in Seq(TrackedEntry) /\ sent \in Seq(Places)
      BY EmptySeq DEF Init
    <2>2. seen \in [Subscriber -> -1 .. 0]
      BY DEF Init, Subscriber
    <2>3. errorCount \in 0..LIMIT
      BY ErrorAssumption DEF Init
    <2> QED
      BY <1>1, <2>1, <2>2, <2>3 DEF Init, TypeOK, TrackedEntry
  <1>3. Took({})
    BY FS_EmptySet DEF Took, Init
  <1> QED
    BY <1>1, <1>2, <1>3 DEF Init, IInv, ErrorsApart, SentHandled, SentApart, SilencedHandled, LimitReached, EarlierWins

(***************************************************************************)
(* What stays when the queue grows and subscribers read on                 *)
(***************************************************************************)

(* The entries that are there, and what the subscribers have read.         *)
Grows ==
    /\ Len(trackQueue') \in Nat /\ Len(trackQueue) <= Len(trackQueue')
    /\ \A n \in Places : trackQueue'[n] = trackQueue[n]
    /\ \A s \in Subscriber : seen'[s] \in Int /\ seen[s] <= seen'[s]
    /\ framed' = framed

LEMMA Facts ==
    ASSUME TypeOK
    PROVE  /\ Len(trackQueue) \in Nat /\ Places \subseteq Nat \ {0}
           /\ \A n \in Places : trackQueue[n] \in TrackedEntry
           /\ \A s \in Subscriber : seen[s] \in Int
           /\ \A n \in Places : Reader(trackQueue[n].topic) \in Subscriber
           /\ errorCount \in Nat /\ LIMIT \in Nat
           /\ sent \in Seq(Places) /\ Len(sent) \in Nat /\ DOMAIN sent = 1 .. Len(sent)
           /\ \A i \in DOMAIN sent : sent[i] \in Places
  <1>1. trackQueue \in Seq(TrackedEntry) /\ sent \in Seq(Places)
    BY DEF TypeOK, TrackedEntry
  <1>2. Len(trackQueue) \in Nat /\ DOMAIN trackQueue = Places
    BY <1>1, LenProperties DEF Places
  <1>3. \A n \in Places : trackQueue[n] \in TrackedEntry
    BY <1>1, <1>2, ElementOfSeq DEF Places
  <1>4. Len(sent) \in Nat /\ DOMAIN sent = 1 .. Len(sent)
    BY <1>1, LenProperties
  <1>5. \A i \in DOMAIN sent : sent[i] \in Places
    BY <1>1, <1>4, ElementOfSeq
  <1>6. \A s \in Subscriber : seen[s] \in Int
    BY <1>2 DEF TypeOK
  <1>7. \A n \in Places : Reader(trackQueue[n].topic) \in Subscriber
    BY DEF Reader, Subscriber
  <1>8. Places \subseteq Nat \ {0} /\ errorCount \in Nat /\ LIMIT \in Nat
    BY <1>2, ErrorAssumption DEF Places, TypeOK
  <1> QED
    BY <1>1, <1>2, <1>3, <1>4, <1>5, <1>6, <1>7, <1>8

LEMMA GrowsFacts ==
    ASSUME TypeOK, Grows, NEW n \in Places
    PROVE  /\ n \in Places'
           /\ trackQueue'[n] = trackQueue[n]
           /\ Countable(n)' <=> Countable(n)
           /\ Loggable(n)' <=> Loggable(n)
           /\ Handled(n) => Handled(n)'
  <1>1. n \in Places' /\ trackQueue'[n] = trackQueue[n]
    BY Facts DEF Grows, Places
  <1>2. Countable(n)' <=> Countable(n)
    BY <1>1 DEF Countable, Grows
  <1>3. Loggable(n)' <=> Loggable(n)
    BY <1>1, <1>2 DEF Loggable
  <1>4. Handled(n) => Handled(n)'
    <2> DEFINE r == Reader(trackQueue[n].topic)
    <2>1. r \in Subscriber /\ seen[r] \in Int /\ n \in Nat
      BY Facts
    <2>2. seen'[r] \in Int /\ seen[r] <= seen'[r]
      BY <2>1 DEF Grows
    <2>3. Handled(n)' <=> n <= seen'[r]
      BY <1>1 DEF Handled
    <2> HIDE DEF r
    <2>4. CASE n <= seen[r]
      BY <2>1, <2>2, <2>3, <2>4
    <2>5. Handled(n) <=> n <= seen[r]
      BY DEF Handled, r
    <2> QED
      BY <2>4, <2>5
  <1> QED
    BY <1>1, <1>2, <1>3, <1>4

(***************************************************************************)
(* Steps in which nothing is logged                                        *)
(***************************************************************************)

(* Nothing that may be logged has been handled in this step.               *)
NothingHandled ==
    \A n \in Places' :
        trackQueue'[n].topic # "uncaught" /\ Handled(n)' => n \in Places /\ Handled(n)

LEMMA QuietStep ==
    ASSUME IInv, Grows, NothingHandled, UNCHANGED <<errorCount, sent, silenced>>
    PROVE  /\ SentHandled' /\ SentApart' /\ Len(sent') <= errorCount'
           /\ SilencedHandled'
           /\ LimitReached'
           /\ (\E T \in SUBSET Places : Took(T))'
           /\ EarlierWins'
  <1>1. TypeOK
    BY DEF IInv
  <1>2. \A n \in Places :
            /\ n \in Places' /\ trackQueue'[n] = trackQueue[n]
            /\ Countable(n)' <=> Countable(n)
            /\ Loggable(n)' <=> Loggable(n)
            /\ Handled(n) => Handled(n)'
    BY <1>1, GrowsFacts
  <1>3. ASSUME NEW n PROVE IsSent(n)' <=> IsSent(n)
    BY DEF IsSent
  <1>4. SentHandled'
    BY <1>2 DEF IInv, SentHandled
  <1>5. SentApart' /\ Len(sent') <= errorCount'
    BY DEF IInv, SentApart
  <1>5a. SilencedHandled'
    BY <1>1, <1>2 DEF IInv, SilencedHandled, TypeOK
  <1>6. LimitReached'
    <2> SUFFICES ASSUME NEW n \in Places' \ silenced, Loggable(n)', Handled(n)', ~IsSent(n)'
                 PROVE  errorCount = LIMIT
      BY DEF LimitReached
    <2>1. trackQueue'[n].topic # "uncaught"
      BY DEF Loggable, Countable
    <2>2. n \in Places /\ Handled(n)
      BY <2>1 DEF NothingHandled
    <2> QED
      BY <2>2, <1>2, <1>3 DEF IInv, LimitReached
  <1>7. (\E T \in SUBSET Places : Took(T))'
    <2>1. PICK T \in SUBSET Places : Took(T)
      BY DEF IInv
    <2>2. T \in SUBSET Places'
      BY <1>2
    <2>3. T \subseteq Counted'
      <3>1. ASSUME NEW n \in T PROVE n \in Counted'
        <4>1. n \in Places \ silenced /\ Countable(n) /\ Handled(n)
          BY <2>1 DEF Took, Counted
        <4>2. n \in Places' /\ n \notin silenced' /\ Countable(n)' /\ Handled(n)'
          BY <4>1, <1>2
        <4> QED
          BY <4>2 DEF Counted
      <3> QED
        BY <3>1
    <2>4. \A n \in T : Loggable(n)' => IsSent(n)'
      BY <2>1, <1>2, <1>3 DEF Took
    <2>5. Took(T)'
      BY <2>1, <2>3, <2>4 DEF Took
    <2> QED
      BY <2>2, <2>5
  <1>8. EarlierWins'
    <2> SUFFICES ASSUME NEW m \in Places', NEW n \in Places', m < n, IsSent(n)',
                        Reader(trackQueue'[m].topic) = Reader(trackQueue'[n].topic),
                        Loggable(m)', m \notin silenced
                 PROVE  IsSent(m)'
      BY DEF EarlierWins
    <2>1. IsSent(n) /\ n \in Places
      BY <1>3, <1>1, Facts DEF IsSent
    <2>2. m \in Places
      BY <2>1, <1>1, Facts DEF Places, Grows
    <2> QED
      BY <2>1, <2>2, <1>2, <1>3 DEF IInv, EarlierWins
  <1> QED
    BY <1>4, <1>5, <1>5a, <1>6, <1>7, <1>8

(***************************************************************************)
(* A subscriber handles the entry at place n                               *)
(***************************************************************************)
Handling(s, n) ==
    /\ n = seen[s] + 1 /\ n \in Places
    /\ seen' = [seen EXCEPT ![s] = @ + 1]
    /\ Handles(s, trackQueue[n].topic)
    /\ Log(n)
    /\ UNCHANGED <<trackQueue, framed, optedOut, errors>>

(* The error that this step counts, and whether it is sent.                *)
Counting(n) == Countable(n) /\ ~optedOut /\ errorCount < LIMIT
Sending(n) == Counting(n) /\ Loggable(n)

LEMMA HandlingFacts ==
    ASSUME IInv, NEW s \in Subscriber, NEW n, Handling(s, n)
    PROVE  /\ trackQueue[n].topic # "uncaught" /\ Reader(trackQueue[n].topic) = s
           /\ Grows /\ Places' = Places
           /\ ~Handled(n) /\ Handled(n)'
           /\ \A m \in Places : m # n => (Handled(m)' <=> Handled(m))
           /\ errorCount' = IF Counting(n) THEN errorCount + 1 ELSE errorCount
           /\ sent' = IF Sending(n) THEN Append(sent, n) ELSE sent
           /\ silenced' = IF optedOut THEN silenced \cup {n} ELSE silenced
  <1>1. TypeOK /\ n \in Places /\ n = seen[s] + 1
    BY DEF IInv, Handling
  <1>2. trackQueue[n].topic # "uncaught" /\ Reader(trackQueue[n].topic) = s
    BY ErrorAssumption DEF Handling, Handles, Reader, Subscriber
  <1>3. /\ trackQueue' = trackQueue /\ framed' = framed /\ Places' = Places
        /\ seen' = [seen EXCEPT ![s] = @ + 1]
    BY DEF Handling, Places
  <1>4. /\ seen \in [Subscriber -> Int]
        /\ seen'[s] = seen[s] + 1
        /\ \A r \in Subscriber : r # s => seen'[r] = seen[r]
        /\ n \in Int
    BY <1>1, <1>3, Facts DEF TypeOK
  <1>5. Grows
    BY <1>1, <1>3, <1>4, Facts DEF Grows
  <1>6. ~Handled(n) /\ Handled(n)'
    <2>1. Handled(n) <=> n <= seen[s]
      BY <1>2 DEF Handled
    <2>2. Handled(n)' <=> n <= seen'[s]
      BY <1>2, <1>3 DEF Handled
    <2> QED
      BY <2>1, <2>2, <1>1, <1>4
  <1>7. ASSUME NEW m \in Places, m # n
        PROVE  Handled(m)' <=> Handled(m)
    <2> DEFINE r == Reader(trackQueue[m].topic)
    <2>1. r \in Subscriber /\ m \in Int /\ seen[s] \in Int
      BY <1>1, <1>4, Facts
    <2>2. (Handled(m)' <=> m <= seen'[r]) /\ (Handled(m) <=> m <= seen[r])
      BY <1>3 DEF Handled
    <2> HIDE DEF r
    <2>3. CASE r = s
      BY <2>1, <2>2, <2>3, <1>1, <1>4, <1>7
    <2>4. CASE r # s
      BY <2>1, <2>2, <2>4, <1>4
    <2> QED
      BY <2>3, <2>4
  <1> DEFINE d == Descriptor(trackQueue[n])
             counted == d # NoDescriptor /\ Counts(d) /\ WithinLimit
  <1>8. counted <=> Counting(n)
    BY <1>1, <1>2, CountsRight DEF Counting, WithinLimit
  <1>9. counted /\ ~shouldIgnoreMessage(d.message) <=> Sending(n)
    BY <1>8 DEF Sending, Counting, Loggable, shouldIgnoreMessage
  <1>10. /\ errorCount' = CountAfter(counted)
         /\ sent' = IF counted /\ ~shouldIgnoreMessage(d.message) THEN Append(sent, n) ELSE sent
         /\ silenced' = IF optedOut THEN silenced \cup {n} ELSE silenced
    BY DEF Handling, Log, Beacon
  <1> HIDE DEF d, counted
  <1>11. errorCount' = IF Counting(n) THEN errorCount + 1 ELSE errorCount
    BY <1>8, <1>10 DEF CountAfter
  <1>12. sent' = IF Sending(n) THEN Append(sent, n) ELSE sent
    BY <1>9, <1>10
  <1> QED
    BY <1>2, <1>3, <1>5, <1>6, <1>7, <1>10, <1>11, <1>12

(* The history of what was sent grows by n at most.                        *)
LEMMA SentFacts ==
    ASSUME IInv, NEW s \in Subscriber, NEW n, Handling(s, n)
    PROVE  /\ sent' \in Seq(Places)
           /\ Len(sent') \in Nat
           /\ Len(sent') = IF Sending(n) THEN Len(sent) + 1 ELSE Len(sent)
           /\ DOMAIN sent' = 1 .. Len(sent')
           /\ \A i \in DOMAIN sent : i \in DOMAIN sent' /\ sent'[i] = sent[i]
           /\ \A i \in DOMAIN sent' : i \notin DOMAIN sent =>
                  i = Len(sent) + 1 /\ sent'[i] = n /\ Sending(n)
           /\ \A m : IsSent(m)' <=> IsSent(m) \/ (Sending(n) /\ m = n)
  <1>1. /\ sent \in Seq(Places) /\ Len(sent) \in Nat /\ DOMAIN sent = 1 .. Len(sent)
        /\ n \in Places
    BY Facts DEF IInv, Handling
  <1>2. sent' = IF Sending(n) THEN Append(sent, n) ELSE sent
    BY HandlingFacts
  <1>3. CASE ~Sending(n)
    BY <1>1, <1>2, <1>3 DEF IsSent
  <1>4. CASE Sending(n)
    <2>1. /\ sent' \in Seq(Places) /\ Len(sent') = Len(sent) + 1
          /\ \A i \in 1 .. Len(sent) : sent'[i] = sent[i]
          /\ sent'[Len(sent) + 1] = n
      BY <1>1, <1>2, <1>4, AppendProperties
    <2>2. DOMAIN sent' = 1 .. Len(sent')
      BY <2>1, LenProperties
    <2>3. ASSUME NEW m PROVE IsSent(m)' <=> IsSent(m) \/ m = n
      <3>1. IsSent(m)' => IsSent(m) \/ m = n
        BY <1>1, <2>1, <2>2 DEF IsSent
      <3>2. IsSent(m) => IsSent(m)'
        BY <1>1, <2>1, <2>2 DEF IsSent
      <3>3. m = n => IsSent(m)'
        <4>1. Len(sent) + 1 \in DOMAIN sent'
          BY <1>1, <2>1, <2>2
        <4> QED
          BY <4>1, <2>1 DEF IsSent
      <3> QED
        BY <3>1, <3>2, <3>3
    <2> QED
      BY <1>1, <1>4, <2>1, <2>2, <2>3
  <1> QED
    BY <1>3, <1>4

LEMMA HandlingStep ==
    ASSUME IInv, NEW s \in Subscriber, NEW n, Handling(s, n)
    PROVE  IInv'
  <1>1. TypeOK /\ n \in Places
    BY DEF IInv, Handling
  <1>2. /\ trackQueue[n].topic # "uncaught" /\ Reader(trackQueue[n].topic) = s
        /\ Grows /\ Places' = Places
        /\ ~Handled(n) /\ Handled(n)'
        /\ \A m \in Places : m # n => (Handled(m)' <=> Handled(m))
        /\ errorCount' = IF Counting(n) THEN errorCount + 1 ELSE errorCount
        /\ silenced' = IF optedOut THEN silenced \cup {n} ELSE silenced
    BY HandlingFacts
  <1>3. /\ sent' \in Seq(Places)
        /\ Len(sent') \in Nat
        /\ Len(sent') = IF Sending(n) THEN Len(sent) + 1 ELSE Len(sent)
        /\ \A i \in DOMAIN sent : i \in DOMAIN sent' /\ sent'[i] = sent[i]
        /\ \A i \in DOMAIN sent' : i \notin DOMAIN sent =>
               i = Len(sent) + 1 /\ sent'[i] = n /\ Sending(n)
        /\ \A m : IsSent(m)' <=> IsSent(m) \/ (Sending(n) /\ m = n)
    BY SentFacts
  <1>4. \A m \in Places :
            /\ trackQueue'[m] = trackQueue[m]
            /\ Countable(m)' <=> Countable(m)
            /\ Loggable(m)' <=> Loggable(m)
            /\ Handled(m) => Handled(m)'
    BY <1>1, <1>2, GrowsFacts
  <1>5. /\ Len(trackQueue) \in Nat /\ Places \subseteq Nat
        /\ errorCount \in Nat /\ LIMIT \in Nat /\ errorCount <= LIMIT
        /\ Len(sent) \in Nat
    BY <1>1, Facts, ErrorAssumption DEF TypeOK
  <1>6. TypeOK'
    <2>1. /\ trackQueue' = trackQueue /\ errors' = errors /\ framed' = framed /\ optedOut' = optedOut
          /\ n = seen[s] + 1 /\ seen' = [seen EXCEPT ![s] = @ + 1]
      BY DEF Handling
    <2>2. seen' \in [Subscriber -> -1 .. Len(trackQueue)]
      <3>1. seen \in [Subscriber -> -1 .. Len(trackQueue)]
        BY <1>1 DEF TypeOK
      <3>2. seen[s] + 1 \in -1 .. Len(trackQueue)
        BY <1>1, <2>1, <1>5 DEF Places
      <3> QED
        BY <2>1, <3>1, <3>2
    <2>3. errorCount' \in 0..LIMIT
      BY <1>2, <1>5 DEF Counting
    <2>4. silenced' \subseteq Places
      BY <1>1, <1>2 DEF TypeOK
    <2> QED
      BY <1>1, <1>2, <1>3, <2>1, <2>2, <2>3, <2>4 DEF TypeOK
  <1>7. ErrorsApart'
    BY <1>2, <1>4 DEF IInv, ErrorsApart
  <1>8. SentHandled'
    <2> SUFFICES ASSUME NEW i \in DOMAIN sent'
                 PROVE  ( /\ sent[i] \in Places
                          /\ trackQueue[sent[i]].topic # "uncaught"
                          /\ Handled(sent[i]) )'
      BY DEF SentHandled
    <2>1. PICK m : m = sent'[i]
      OBVIOUS
    <2>2. m \in Places /\ trackQueue[m].topic # "uncaught" /\ Handled(m)'
      <3>1. CASE i \in DOMAIN sent
        BY <2>1, <3>1, <1>3, <1>4 DEF IInv, SentHandled
      <3>2. CASE i \notin DOMAIN sent
        BY <2>1, <3>2, <1>1, <1>2, <1>3
      <3> QED
        BY <3>1, <3>2
    <2> QED
      BY <2>1, <2>2, <1>2, <1>4 DEF Handled
  <1>8a. SilencedHandled'
    <2> SUFFICES ASSUME NEW m \in silenced'
                 PROVE  trackQueue'[m].topic # "uncaught" /\ Handled(m)'
      BY DEF SilencedHandled
    <2>1. m \in Places /\ (m \in silenced \/ m = n)
      BY <1>1, <1>2 DEF TypeOK
    <2> QED
      BY <2>1, <1>2, <1>4 DEF IInv, SilencedHandled
  <1>9. SentApart'
    <2>1. ASSUME NEW i \in DOMAIN sent, NEW j \in DOMAIN sent', j \notin DOMAIN sent
          PROVE  sent'[i] # sent'[j]
      <3>1. Handled(sent[i]) /\ sent'[i] = sent[i] /\ sent'[j] = n
        BY <2>1, <1>3 DEF IInv, SentHandled
      <3> QED
        BY <3>1, <1>2
    <2>2. ASSUME NEW i \in DOMAIN sent', NEW j \in DOMAIN sent', sent'[i] = sent'[j]
          PROVE  i = j
      <3>1. CASE i \in DOMAIN sent /\ j \in DOMAIN sent
        BY <2>2, <3>1, <1>3 DEF IInv, SentApart
      <3>2. CASE i \notin DOMAIN sent /\ j \notin DOMAIN sent
        BY <3>2, <1>3
      <3> QED
        BY <2>1, <2>2, <3>1, <3>2
    <2> QED
      BY <2>2 DEF SentApart
  <1>10. Len(sent') <= errorCount'
    BY <1>2, <1>3, <1>5 DEF IInv, Sending
  <1>11. LimitReached'
    <2> SUFFICES ASSUME NEW m \in Places, m \notin silenced', Loggable(m)', Handled(m)', ~IsSent(m)'
                 PROVE  errorCount' = LIMIT
      BY <1>2 DEF LimitReached
    <2>1. Loggable(m) /\ ~IsSent(m) /\ m \notin silenced
      BY <1>2, <1>3, <1>4
    <2>2. CASE m # n
      <3>1. Handled(m)
        BY <1>2, <2>2
      <3>2. errorCount = LIMIT
        BY <2>1, <3>1 DEF IInv, LimitReached
      <3> QED
        BY <3>2, <1>2, <1>5 DEF Counting
    <2>3. CASE m = n
      <3>1. ~optedOut /\ ~Sending(n)
        BY <2>3, <1>2, <1>3
      <3>2. Countable(n)
        BY <2>1, <2>3 DEF Loggable
      <3> QED
        BY <3>1, <3>2, <2>1, <2>3, <1>2, <1>5 DEF Sending, Counting
    <2> QED
      BY <2>2, <2>3
  <1>12. (\E T \in SUBSET Places : Took(T))'
    <2>1. PICK T \in SUBSET Places : Took(T)
      BY DEF IInv
    <2>2. /\ IsFiniteSet(T) /\ Cardinality(T) = errorCount
          /\ \A m \in T : /\ m \in Places /\ m \notin silenced /\ Countable(m) /\ Handled(m)
                          /\ Loggable(m) => IsSent(m)
          /\ n \notin T
      BY <2>1, <1>2 DEF Took, Counted
    <2>3. PICK U : U = IF Counting(n) THEN T \cup {n} ELSE T
      OBVIOUS
    <2>4. IsFiniteSet(U) /\ Cardinality(U) = errorCount'
      BY <2>3, <2>2, <1>2, FS_AddElement
    <2>5. ASSUME NEW m \in U
          PROVE  /\ m \in Counted'
                 /\ Loggable(m)' => IsSent(m)'
      <3>1. CASE m \in T
        <4>1. m # n /\ m \in Places /\ m \notin silenced'
          BY <2>2, <3>1, <1>2
        <4>2. Countable(m)' /\ Handled(m)' /\ (Loggable(m)' => IsSent(m)')
          BY <2>2, <3>1, <1>3, <1>4
        <4> QED
          BY <4>1, <4>2, <1>2 DEF Counted
      <3>2. CASE m = n /\ Counting(n)
        <4>1. n \notin silenced
          BY <1>2 DEF IInv, SilencedHandled
        <4> QED
          BY <3>2, <4>1, <1>1, <1>2, <1>3, <1>4 DEF Counted, Counting, Sending
      <3> QED
        BY <2>3, <3>1, <3>2
    <2>6. U \in SUBSET Places'
      BY <2>3, <1>1, <1>2
    <2>7. Took(U)'
      BY <2>4, <2>5 DEF Took
    <2> QED
      BY <2>6, <2>7
  <1>13. EarlierWins'
    <2> SUFFICES ASSUME NEW m \in Places, NEW k \in Places, m < k, IsSent(k)',
                        Reader(trackQueue'[m].topic) = Reader(trackQueue'[k].topic),
                        Loggable(m)', m \notin silenced'
                 PROVE  IsSent(m)'
      BY <1>2 DEF EarlierWins
    <2>1. Loggable(m) /\ m \notin silenced /\ Reader(trackQueue[m].topic) = Reader(trackQueue[k].topic)
      BY <1>2, <1>4
    <2>2. CASE IsSent(k)
      BY <2>1, <2>2, <1>3 DEF IInv, EarlierWins
    <2>3. CASE Sending(n) /\ k = n
      <3>1. Handled(m)
        BY <2>1, <2>3, <1>1, <1>2, <1>5, Facts DEF Handled, Handling
      <3>2. errorCount # LIMIT
        BY <2>3, <1>5 DEF Sending, Counting
      <3> QED
        BY <2>1, <3>1, <3>2, <1>3 DEF IInv, LimitReached
    <2> QED
      BY <2>2, <2>3, <1>3
  <1> QED
    BY <1>6, <1>7, <1>8, <1>8a, <1>9, <1>10, <1>11, <1>12, <1>13 DEF IInv

(***************************************************************************)
(* The other steps                                                         *)
(***************************************************************************)
Quiet == Grows /\ NothingHandled /\ UNCHANGED <<errorCount, sent, silenced>>

(* A quiet step that leaves the entries apart preserves the invariant.     *)
LEMMA QuietInv ==
    ASSUME IInv, Quiet, TypeOK', ErrorsApart'
    PROVE  IInv'
  BY QuietStep DEF Quiet, IInv

LEMMA StutterStep ==
    ASSUME IInv, UNCHANGED <<trackQueue, seen, errorCount, framed, errors, sent, silenced>>,
           optedOut' \in BOOLEAN
    PROVE  IInv'
  <1>1. TypeOK
    BY DEF IInv
  <1>2. TypeOK' /\ ErrorsApart'
    BY DEF IInv, TypeOK, ErrorsApart, Places
  <1>3. Grows
    BY <1>1, Facts DEF Grows, Places
  <1>4. NothingHandled
    BY DEF NothingHandled, Handled, Places
  <1> QED
    BY <1>2, <1>3, <1>4, QuietInv DEF Quiet

LEMMA InstallStep ==
    ASSUME IInv, Install
    PROVE  IInv'
  <1>1. /\ TypeOK /\ \A s \in Subscriber : seen[s] = -1 /\ seen'[s] = 0
        /\ UNCHANGED <<trackQueue, errorCount, sent, silenced, framed, optedOut, errors>>
    BY DEF IInv, Install, Installed
  <1>2. Len(trackQueue) \in Nat /\ Places' = Places
    BY <1>1, Facts DEF Places
  <1>3. TypeOK'
    <2>1. seen' \in [Subscriber -> -1 .. Len(trackQueue)]
      BY <1>2 DEF Install
    <2> QED
      BY <1>1, <1>2, <2>1 DEF TypeOK
  <1>4. ErrorsApart'
    BY <1>1, <1>2 DEF IInv, ErrorsApart
  <1>5. Grows
    BY <1>1, <1>2 DEF Grows
  <1>6. NothingHandled
    <2>1. ASSUME NEW n \in Places PROVE ~Handled(n)'
      <3>1. Reader(trackQueue[n].topic) \in Subscriber /\ n \in Nat \ {0}
        BY <1>1, Facts
      <3> QED
        BY <3>1, <1>1 DEF Handled
    <2> QED
      BY <2>1, <1>2 DEF NothingHandled
  <1> QED
    BY <1>1, <1>3, <1>4, <1>5, <1>6, QuietInv DEF Quiet

(* The next entry is passed over.                                          *)
LEMMA PassedOver ==
    ASSUME IInv, NEW s \in Subscriber, Deliver(s), ~Handles(s, trackQueue[seen[s] + 1].topic)
    PROVE  IInv'
  <1> DEFINE n == seen[s] + 1
  <1>1. /\ TypeOK
        /\ seen[s] # -1 /\ seen[s] < Len(trackQueue)
        /\ seen' = [seen EXCEPT ![s] = @ + 1]
        /\ UNCHANGED <<trackQueue, errorCount, sent, silenced, framed, optedOut, errors>>
        /\ ~Handles(s, trackQueue[n].topic)
    BY DEF IInv, Deliver
  <1>2. /\ Len(trackQueue) \in Nat /\ Places' = Places /\ Places \subseteq Nat
        /\ seen \in [Subscriber -> -1 .. Len(trackQueue)] /\ seen[s] \in Int
    BY <1>1, Facts DEF Places, TypeOK
  <1>3. seen' \in [Subscriber -> -1 .. Len(trackQueue)]
    <2>1. seen[s] + 1 \in -1 .. Len(trackQueue)
      BY <1>1, <1>2
    <2> QED
      BY <1>1, <1>2, <2>1
  <1>4. TypeOK' /\ ErrorsApart'
    BY <1>1, <1>2, <1>3 DEF IInv, TypeOK, ErrorsApart
  <1>5. /\ seen'[s] = n
        /\ \A r \in Subscriber : r # s => seen'[r] = seen[r]
    BY <1>1, <1>2
  <1>6. Grows
    BY <1>1, <1>2, <1>5 DEF Grows
  <1>7. NothingHandled
    <2> SUFFICES ASSUME NEW m \in Places, trackQueue[m].topic # "uncaught", Handled(m)'
                 PROVE  Handled(m)
      BY <1>1, <1>2 DEF NothingHandled
    <2>1. trackQueue[m] \in TrackedEntry /\ m \in Nat
      BY <1>1, <1>2, Facts
    <2>2. trackQueue[m].topic \in Component \cup {"global"}
      BY <2>1 DEF TrackedEntry
    <2>3. m <= seen'[Reader(trackQueue[m].topic)]
      BY <1>1 DEF Handled
    <2>4. CASE Reader(trackQueue[m].topic) # s
      BY <2>3, <2>4, <1>5, <1>1, Facts DEF Handled
    <2>5. CASE Reader(trackQueue[m].topic) = s
      <3>1. Handles(s, trackQueue[m].topic)
        BY <2>2, <2>5, ErrorAssumption DEF Handles, Reader
      <3>2. m # n /\ m <= n
        BY <3>1, <2>3, <2>5, <1>1, <1>5
      <3> QED
        BY <3>2, <2>1, <2>5, <1>2 DEF Handled
    <2> QED
      BY <2>4, <2>5
  <1> QED
    BY <1>1, <1>4, <1>6, <1>7, QuietInv DEF Quiet

LEMMA DeliverStep ==
    ASSUME IInv, NEW s \in Subscriber, Deliver(s)
    PROVE  IInv'
  <1>1. CASE Handles(s, trackQueue[seen[s] + 1].topic)
    <2>1. Handling(s, seen[s] + 1)
      <3>1. seen[s] \in -1 .. Len(trackQueue) /\ Len(trackQueue) \in Nat
        BY Facts DEF IInv, TypeOK
      <3>2. seen[s] + 1 \in Places
        BY <3>1 DEF Deliver, Places
      <3> QED
        BY <1>1, <3>2 DEF Deliver, Handling
    <2> QED
      BY <2>1, HandlingStep
  <1> QED
    BY <1>1, PassedOver

(* An error is tracked on one topic, or on global and on uncaught.         *)
LEMMA OccursStep ==
    ASSUME IInv, NEW fault \in Fault, NEW topics \in Seq(Component \cup {"uncaught", "global"}),
           \A i, j \in 1 .. Len(topics) : topics[i] # "uncaught" /\ topics[j] # "uncaught" => i = j,
           Occurs(fault, topics)
    PROVE  IInv'
  <1> DEFINE new == [i \in 1..Len(topics) |-> Entry(topics[i], fault)]
             Larger == [topic : Component \cup {"uncaught", "global"}, fault : Fault, error : 1..errors + 1]
  <1>1. /\ TypeOK /\ errors \in Nat /\ errors' = errors + 1
        /\ UNCHANGED <<seen, errorCount, sent, silenced, framed, optedOut>>
        /\ trackQueue' = trackQueue \o new
    BY DEF IInv, TypeOK, Occurs, logger
  <1>2. Len(topics) \in Nat /\ \A i \in 1..Len(topics) : topics[i] \in Component \cup {"uncaught", "global"}
    BY LenProperties, ElementOfSeq
  <1>3. new \in Seq(Larger) /\ Len(new) = Len(topics)
    <2>1. \A i \in 1..Len(topics) : Entry(topics[i], fault) \in Larger
      BY <1>1, <1>2 DEF Entry
    <2>2. new \in [1..Len(topics) -> Larger]
      BY <2>1
    <2>3. new \in Seq(Larger)
      BY <1>2, <2>1, IsASeq
    <2> QED
      BY <1>2, <2>2, <2>3, LenProperties
  <1>4. \A i \in 1..Len(topics) : new[i].topic = topics[i] /\ new[i].error = errors + 1
    BY DEF Entry
  <1> HIDE DEF new
  <1>5. trackQueue \in Seq(Larger)
    <2>1. TrackedEntry \subseteq Larger
      BY <1>1 DEF TrackedEntry
    <2>2. trackQueue \in Seq(TrackedEntry)
      BY <1>1 DEF TypeOK, TrackedEntry
    <2> HIDE DEF Larger
    <2> QED
      BY <2>1, <2>2, SeqMonotonic
  <1>6. /\ trackQueue' \in Seq(Larger)
        /\ Len(trackQueue) \in Nat
        /\ Len(trackQueue') = Len(trackQueue) + Len(topics)
        /\ \A n \in 1..Len(trackQueue') :
               trackQueue'[n] = IF n <= Len(trackQueue) THEN trackQueue[n] ELSE new[n - Len(trackQueue)]
    <2> HIDE DEF Larger
    <2>1. /\ trackQueue \o new \in Seq(Larger)
          /\ Len(trackQueue \o new) = Len(trackQueue) + Len(new)
          /\ \A n \in 1 .. Len(trackQueue) + Len(new) :
                 (trackQueue \o new)[n] = IF n <= Len(trackQueue) THEN trackQueue[n]
                                          ELSE new[n - Len(trackQueue)]
      BY <1>3, <1>5, ConcatProperties
    <2>2. Len(trackQueue) \in Nat
      BY <1>5, LenProperties
    <2> QED
      BY <1>1, <1>3, <2>1, <2>2
  <1>7. ASSUME NEW n \in Places', n \notin Places
        PROVE  /\ n - Len(trackQueue) \in 1 .. Len(topics)
               /\ trackQueue'[n].topic = topics[n - Len(trackQueue)]
               /\ trackQueue'[n].error = errors + 1
    BY <1>2, <1>4, <1>6, <1>7 DEF Places
  <1>8. ASSUME NEW n \in Places
        PROVE  n \in Places' /\ trackQueue'[n] = trackQueue[n] /\ trackQueue[n].error <= errors
    <2>1. trackQueue[n].error \in 1..errors
      BY <1>1, Facts DEF TrackedEntry
    <2> QED
      BY <2>1, <1>1, <1>2, <1>6 DEF Places
  <1>9. Grows
    <2>1. \A s \in Subscriber : seen'[s] \in Int /\ seen[s] <= seen'[s]
      BY <1>1, Facts
    <2>2. Len(trackQueue') \in Nat /\ Len(trackQueue) <= Len(trackQueue')
      BY <1>2, <1>6
    <2> QED
      BY <1>1, <1>8, <2>1, <2>2 DEF Grows
  <1>10. TypeOK'
    <2>1. seen' \in [Subscriber -> -1 .. Len(trackQueue')]
      <3>1. seen \in [Subscriber -> -1 .. Len(trackQueue)]
        BY <1>1 DEF TypeOK
      <3>2. \A x \in -1 .. Len(trackQueue) : x \in -1 .. Len(trackQueue')
        BY <1>2, <1>6
      <3> QED
        BY <1>1, <3>1, <3>2
    <2>2. sent' \in Seq(Places') /\ silenced' \subseteq Places'
      <3>1. Places \subseteq Places'
        BY <1>8
      <3>2. sent \in Seq(Places) /\ silenced \subseteq Places
        BY <1>1 DEF TypeOK
      <3> QED
        BY <1>1, <3>1, <3>2, SeqMonotonic
    <2>3. trackQueue' \in Seq([topic : Component \cup {"uncaught", "global"}, fault : Fault, error : 1..errors'])
      BY <1>1, <1>6
    <2> QED
      BY <1>1, <2>1, <2>2, <2>3 DEF TypeOK
  <1>11. ErrorsApart'
    <2> SUFFICES ASSUME NEW m \in Places', NEW n \in Places',
                        trackQueue'[m].topic # "uncaught", trackQueue'[n].topic # "uncaught",
                        trackQueue'[m].error = trackQueue'[n].error
                 PROVE  m = n
      BY DEF ErrorsApart
    <2>1. CASE m \in Places /\ n \in Places
      BY <2>1, <1>8 DEF IInv, ErrorsApart
    <2>2. CASE m \notin Places /\ n \notin Places
      <3>1. m - Len(trackQueue) = n - Len(trackQueue)
        BY <2>2, <1>7
      <3> QED
        BY <3>1, <1>6 DEF Places
    <2>3. ASSUME NEW a \in Places, NEW b \in Places', b \notin Places
          PROVE  trackQueue'[a].error # trackQueue'[b].error
      <3>1. trackQueue'[a].error \in 1..errors
        BY <1>1, <1>8, Facts DEF TrackedEntry
      <3>2. trackQueue'[b].error = errors + 1
        BY <2>3, <1>7
      <3>3. errors + 1 \notin 1..errors
        BY <1>1
      <3> QED
        BY <3>1, <3>2, <3>3
    <2> QED
      BY <2>1, <2>2, <2>3
  <1>12. NothingHandled
    <2> SUFFICES ASSUME NEW n \in Places', Handled(n)'
                 PROVE  n \in Places /\ Handled(n)
      BY DEF NothingHandled
    <2>1. n <= seen[Reader(trackQueue'[n].topic)] /\ Reader(trackQueue'[n].topic) \in Subscriber
      BY <1>1 DEF Handled, Reader, Subscriber
    <2>2. seen[Reader(trackQueue'[n].topic)] \in -1 .. Len(trackQueue)
      BY <1>1, <2>1 DEF TypeOK
    <2>3. n \in Places
      BY <2>1, <2>2, <1>6 DEF Places
    <2> QED
      BY <2>1, <2>3, <1>8 DEF Handled
  <1> QED
    BY <1>1, <1>9, <1>10, <1>11, <1>12, QuietInv DEF Quiet

(***************************************************************************)
(* The theorems                                                            *)
(***************************************************************************)
LEMMA NextHolds ==
    ASSUME IInv, [Next]_vars
    PROVE  IInv'
  <1>1. CASE Install
    BY <1>1, InstallStep
  <1>2. ASSUME NEW s \in Subscriber, Deliver(s) PROVE IInv'
    BY <1>2, DeliverStep
  <1>3. ASSUME NEW fault \in Fault, Uncaught(fault) PROVE IInv'
    <2> DEFINE topics == <<"global", "uncaught">>
    <2>1. /\ topics \in Seq(Component \cup {"uncaught", "global"})
          /\ Len(topics) = 2 /\ topics[1] = "global" /\ topics[2] = "uncaught"
      OBVIOUS
    <2>2. Occurs(fault, topics)
      BY <1>3 DEF Uncaught
    <2> HIDE DEF topics
    <2> QED
      BY <2>1, <2>2, OccursStep
  <1>4. ASSUME NEW fault \in Fault, NEW c \in Component, Caught(fault, c) PROVE IInv'
    <2> DEFINE topics == <<c>>
    <2>1. topics \in Seq(Component \cup {"uncaught", "global"}) /\ Len(topics) = 1
      OBVIOUS
    <2>2. Occurs(fault, topics)
      BY <1>4 DEF Caught
    <2> HIDE DEF topics
    <2> QED
      BY <2>1, <2>2, OccursStep
  <1>5. CASE OptOut
    <2>1. UNCHANGED <<trackQueue, seen, errorCount, framed, errors, sent, silenced>> /\ optedOut' \in BOOLEAN
      BY <1>5 DEF OptOut, logger
    <2> QED
      BY <2>1, StutterStep
  <1>6. CASE UNCHANGED vars
    <2>1. UNCHANGED <<trackQueue, seen, errorCount, framed, errors, sent, silenced>> /\ optedOut' \in BOOLEAN
      BY <1>6 DEF vars, logger, IInv, TypeOK
    <2> QED
      BY <2>1, StutterStep
  <1> QED
    BY <1>1, <1>2, <1>3, <1>4, <1>5, <1>6 DEF Next

(* IInv holds of every page, whatever errors come before and after the      *)
(* subscription of clientError.js.                                          *)
THEOREM Invariant == Spec => []IInv
  <1>1. Init => IInv
    BY InitHolds
  <1>2. IInv /\ [Next]_vars => IInv'
    BY NextHolds
  <1> QED
    BY <1>1, <1>2, PTL DEF Spec

(* The queue, the subscribers and the counter keep their types, for any    *)
(* errors, components and limit.                                           *)
THEOREM TypeCorrect == Spec => []TypeOK
  <1>1. IInv => TypeOK
    BY DEF IInv
  <1> QED
    BY <1>1, Invariant, PTL

(* An error is sent once at most, and no more errors than the limit, for   *)
(* any errors, components and limit.                                       *)
THEOREM ErrorsSentOnce == Spec => []SentOnce
  <1>1. ASSUME IInv PROVE SentOnce
    <2>1. ASSUME NEW i \in DOMAIN sent, NEW j \in DOMAIN sent,
                 trackQueue[sent[i]].error = trackQueue[sent[j]].error
          PROVE  i = j
      <3>1. sent[i] = sent[j]
        BY <2>1, <1>1 DEF IInv, SentHandled, ErrorsApart
      <3> QED
        BY <3>1, <1>1 DEF IInv, SentApart
    <2>2. Len(sent) <= LIMIT
      BY <1>1, Facts, ErrorAssumption DEF IInv, TypeOK
    <2> QED
      BY <2>1, <2>2 DEF SentOnce
  <1> QED
    BY <1>1, Invariant, PTL

(* Below the limit no error that is to be logged is missed: one that was   *)
(* not sent left its place to as many others as the limit allows.          *)
THEOREM ErrorsNotMissed == Spec => []NoneMissed
  <1>1. ASSUME IInv PROVE NoneMissed
    <2> SUFFICES ASSUME NEW n \in Places \ silenced, Loggable(n), Handled(n), ~IsSent(n)
                 PROVE  Cardinality(Counted \ {n}) >= LIMIT
      BY DEF NoneMissed
    <2>1. errorCount = LIMIT
      BY <1>1 DEF IInv, LimitReached
    <2>2. PICK T \in SUBSET Places : Took(T)
      BY <1>1 DEF IInv
    <2>3. T \in SUBSET (Counted \ {n})
      BY <2>2 DEF Took
    <2>4. IsFiniteSet(Counted \ {n})
      <3>1. Len(trackQueue) \in Nat
        BY <1>1, Facts DEF IInv
      <3>2. IsFiniteSet(Places)
        BY <3>1, FS_Interval DEF Places
      <3>3. Counted \ {n} \in SUBSET Places
        BY DEF Counted
      <3> QED
        BY <3>2, <3>3, FS_Subset
    <2>5. Cardinality(T) <= Cardinality(Counted \ {n}) /\ Cardinality(T) = LIMIT
      BY <2>1, <2>2, <2>3, <2>4, FS_Subset DEF Took
    <2>6. Cardinality(Counted \ {n}) \in Nat /\ LIMIT \in Nat
      BY <2>4, FS_CardinalityType, ErrorAssumption
    <2> QED
      BY <2>5, <2>6
  <1> QED
    BY <1>1, Invariant, PTL

(* Of two errors on one subscriber the earlier one is sent first, for any  *)
(* errors, components and limit.                                           *)
THEOREM EarlierErrorsWin == Spec => []EarlierWins
  <1>1. IInv => EarlierWins
    BY DEF IInv
  <1> QED
    BY <1>1, Invariant, PTL
=============================================================================
