------------------------------ MODULE Probenet ------------------------------
(***************************************************************************)
(* modules/ext.wikimediaEvents.networkprobe: a page sends PULSES requests  *)
(* to every target of the recipe, one pulse after the other, and submits a *)
(* report of what they took; modules/ext.wikimediaEvents/networkProbe.js   *)
(* decides whether the page does so.                                       *)
(*                                                                         *)
(* Of a result only its pulse number is kept.  The recipe is that of       *)
(* recipe.js: http_get, url_metadata, not serial.                          *)
(***************************************************************************)
EXTENDS Integers, Sequences

CONSTANTS
    Target,     \* the targets of the recipe
    PULSES,     \* recipe.pulses
    MaxVisits   \* bound on the pages opened

ASSUME RecipeAssumption == PULSES \in Nat \ {0} /\ MaxVisits \in Nat

VARIABLES
    phase,    \* "closed" (no page), "idle" (does not probe), "pulse",
              \* "delay" (between pulses) or "complete"
    pulse,    \* pulse_number
    request,  \* the request of each target in this pulse
    data,     \* targetData: the pulse numbers of the results of each target
    cookie,   \* the cookie PreventProbe is set
    report,   \* the targetData of the last report submitted by this page
    visits    \* number of pages opened

probeVars == <<phase, pulse, request, data, cookie, report, visits>>

(* A request is in flight; answered in time; fetch() failed, which leaves  *)
(* its promise unsettled; or its promise race was rejected.                *)
Status == {"sent", "answered", "failed", "rejected"}

AllSent == [t \in Target |-> "sent"]
NoData == [t \in Target |-> <<>>]

(***************************************************************************)
(* The page                                                                *)
(***************************************************************************)

(* networkProbeInit: sampled is the outcome of the draw.                   *)
Visit(sampled) ==
    /\ phase = "closed"
    /\ visits < MaxVisits
    /\ visits' = visits + 1
    /\ phase' = IF sampled /\ ~cookie THEN "pulse" ELSE "idle"
    /\ pulse' = 0
    /\ request' = AllSent
    /\ data' = NoData
    /\ report' = NoData
    /\ UNCHANGED cookie

\* The page is closed, whatever it was waiting for.
Leave ==
    /\ phase # "closed"
    /\ phase' = "closed"
    /\ UNCHANGED <<pulse, request, data, cookie, report, visits>>

CookieExpires ==
    /\ cookie
    /\ cookie' = FALSE
    /\ UNCHANGED <<phase, pulse, request, data, report, visits>>

(***************************************************************************)
(* probeHttpGetTarget: the race between the request and its timeout        *)
(***************************************************************************)

(* The answer wins: handleProbeResult finds the entry and adds the result. *)
Answer(t) ==
    /\ phase = "pulse"
    /\ request[t] = "sent"
    /\ request' = [request EXCEPT ![t] = "answered"]
    /\ data' = [data EXCEPT ![t] = Append(@, pulse)]
    /\ UNCHANGED <<phase, pulse, cookie, report, visits>>

(* The answer wins, but the browser kept no performance entry of it:       *)
(* handleProbeResult throws, which rejects the race like the timeout does. *)
AnswerWithoutEntry(t) ==
    /\ phase = "pulse"
    /\ request[t] = "sent"
    /\ request' = [request EXCEPT ![t] = "rejected"]
    /\ UNCHANGED <<phase, pulse, data, cookie, report, visits>>

(* fetch() is rejected: loadUsingFetch never settles its promise.          *)
FetchFails(t) ==
    /\ phase = "pulse"
    /\ request[t] = "sent"
    /\ request' = [request EXCEPT ![t] = "failed"]
    /\ UNCHANGED <<phase, pulse, data, cookie, report, visits>>

(* The timeout wins; an answer that comes later changes nothing.           *)
Timeout(t) ==
    /\ phase = "pulse"
    /\ request[t] \in {"sent", "failed"}
    /\ request' = [request EXCEPT ![t] = "rejected"]
    /\ UNCHANGED <<phase, pulse, data, cookie, report, visits>>

(***************************************************************************)
(* probeHttpGetPulse                                                       *)
(***************************************************************************)

\* Mutant of PulseEnds: Promise.allSettled.
AllSettled ==
    /\ phase = "pulse"
    /\ \A t \in Target : request[t] \in {"answered", "rejected"}
    /\ phase' = "delay"
    /\ UNCHANGED <<pulse, request, data, cookie, report, visits>>

(* Promise.all is resolved only if every probe is.                         *)
PulseEnds ==
    /\ phase = "pulse"
    /\ \A t \in Target : request[t] = "answered"
    /\ phase' = "delay"
    /\ UNCHANGED <<pulse, request, data, cookie, report, visits>>

\* Mutant of NextPulse: the count of pulses one too low.
OnePulseLess ==
    /\ phase = "delay"
    /\ pulse + 2 < PULSES
    /\ pulse' = pulse + 1
    /\ phase' = "pulse"
    /\ request' = AllSent
    /\ UNCHANGED <<data, cookie, report, visits>>

NextPulse ==
    /\ phase = "delay"
    /\ pulse + 1 < PULSES
    /\ pulse' = pulse + 1
    /\ phase' = "pulse"
    /\ request' = AllSent
    /\ UNCHANGED <<data, cookie, report, visits>>

\* The pulses of each target.
generateReport == data

(* generateReport and onComplete                                           *)
Report ==
    /\ phase = "delay"
    /\ pulse + 1 = PULSES
    /\ phase' = "complete"
    /\ report' = generateReport
    /\ cookie' = TRUE
    /\ UNCHANGED <<pulse, request, data, visits>>

(***************************************************************************)
(* Specification                                                           *)
(***************************************************************************)
ProbeInit ==
    /\ phase = "closed"
    /\ pulse = 0
    /\ request = AllSent
    /\ data = NoData
    /\ cookie = FALSE
    /\ report = NoData
    /\ visits = 0

TargetStep(t) == Answer(t) \/ AnswerWithoutEntry(t) \/ FetchFails(t) \/ Timeout(t)

ProbeNext ==
    \/ \E sampled \in BOOLEAN : Visit(sampled)
    \/ Leave \/ CookieExpires
    \/ \E t \in Target : TargetStep(t)
    \/ PulseEnds \/ NextPulse \/ Report

(* The browser runs the timers and the promise reactions of an open page;  *)
(* a request need not be answered.                                         *)
ProbeSpec ==
    /\ ProbeInit /\ [][ProbeNext]_probeVars
    /\ \A t \in Target : WF_probeVars(Timeout(t))
    /\ WF_probeVars(PulseEnds) /\ WF_probeVars(NextPulse) /\ WF_probeVars(Report)

(***************************************************************************)
(* Properties                                                              *)
(***************************************************************************)
ProbeTypeOK ==
    /\ phase \in {"closed", "idle", "pulse", "delay", "complete"}
    /\ pulse \in 0 .. PULSES - 1
    /\ request \in [Target -> Status]
    /\ data \in [Target -> Seq(0 .. PULSES - 1)]
    /\ cookie \in BOOLEAN
    /\ report \in [Target -> Seq(0 .. PULSES - 1)]
    /\ visits \in 0..MaxVisits

\* 0, 1, ..., n - 1
UpTo(n) == [i \in 1..n |-> i - 1]

(* While a page probes, every target has one result of each earlier pulse, *)
(* in order, and one of this pulse exactly when it answered in time:       *)
(* neither a late answer nor another target's pulse ever adds one.         *)
ResultsInStep ==
    \A t \in Target : data[t] = UpTo(IF request[t] = "answered" THEN pulse + 1 ELSE pulse)

(* A report has one result of every pulse for every target.                *)
ReportComplete ==
    phase = "complete" => report = [t \in Target |-> UpTo(PULSES)]

(* The next pulse begins only when every answer of the last one is in: the *)
(* requests of two pulses never compete for the network.                   *)
PulsesNeverOverlap ==
    [][pulse' > pulse => \A t \in Target : request[t] = "answered"]_probeVars

Rejected == \E t \in Target : request[t] = "rejected"

(* A probe ends unless one of its requests is rejected or the page closed. *)
EndsUnlessRejected == phase = "pulse" ~> phase \in {"complete", "closed"} \/ Rejected

=============================================================================
