-------------------------- MODULE ClickThroughRate --------------------------
(***************************************************************************)
(* modules/ext.wikimediaEvents.testKitchen/ClickThroughRateInstrument.js:  *)
(* the list of instrumented elements, the IntersectionObserver they share  *)
(* and the click listener.  Any number of callers start and stop           *)
(* instruments, whose elements may be nested or the same.                  *)
(*                                                                         *)
(* ended, stray and sent are history; no action reads them.                *)
(***************************************************************************)
EXTENDS Integers, Sequences, SequencesExt

CONSTANTS
    Selector,    \* the selectors that match an element
    ElementOf,   \* what document.querySelector() finds for each
    Encloses,    \* the pairs <<e, f>> with e.contains( f )
    Scrolled,    \* bound: the elements that the user scrolls in and out of view
    MaxStarts    \* bound on the instruments created

Element == { pair[1] : pair \in Encloses }

ASSUME DocumentAssumption ==
    /\ ElementOf \in [Selector -> Element]
    /\ \A e \in Element : <<e, e>> \in Encloses
    /\ Scrolled \subseteq Element
    /\ MaxStarts \in Nat

VARIABLES
    state,     \* the list of StateEntry
    observed,  \* the elements that intersectionObserver observes
    notified,  \* those whose notification waits for the callback
    handles,   \* the selectors whose entry a caller holds a copy of
    starts,    \* number of funnelEntryTokens generated
    visible,   \* the elements that are fully in the viewport
    ended,     \* history: the tokens whose entry a caller of its selector stopped
    stray,     \* history: a caller stopped with a copy whose entry was gone
    sent       \* history: the impressions sent per token, and the last click

stops == <<ended, stray>>
rateVars == <<state, observed, notified, handles, starts, visible, stops, sent>>

Token == 1..MaxStarts

Entry == [selector : Selector, trackSingleClick : BOOLEAN, funnelEntryToken : Token]

(***************************************************************************)
(* start() and stop()                                                      *)
(***************************************************************************)
findBySelector(selector) == { i \in DOMAIN state : state[i].selector = selector }

\* Mutant of Place: single-click entries are appended like the others.
PlaceLast(entry) == Append(state, entry)

\* Prepend elements with trackSingleClick so they are processed early
Place(entry) ==
    IF entry.trackSingleClick THEN <<entry>> \o state ELSE Append(state, entry)

\* A caller gets a copy of the entry that is there, or of a new one.
Known(selector) ==
    /\ findBySelector(selector) # {}
    /\ UNCHANGED <<state, observed, starts>>

Created(selector, single) ==
    /\ findBySelector(selector) = {}
    /\ starts < MaxStarts
    /\ starts' = starts + 1
    /\ state' = Place([selector |-> selector, trackSingleClick |-> single,
                       funnelEntryToken |-> starts + 1])
    /\ observed' = observed \cup {ElementOf[selector]}

Start(selector, single) ==
    /\ Known(selector) \/ Created(selector, single)
    /\ handles' = handles \cup {selector}
    /\ UNCHANGED <<notified, visible, stops, sent>>

\* splice( findIndex( ... ), 1 ): with the index -1 the last entry goes.
Without(selector) ==
    LET found == findBySelector(selector)
    IN  IF state = <<>> THEN state
        ELSE RemoveAt(state, IF found # {} THEN CHOOSE i \in found : TRUE ELSE Len(state))

CountStop(selector) ==
    LET found == findBySelector(selector)
    IN  /\ ended' = ended \cup { state[i].funnelEntryToken : i \in found }
        /\ stray' = (stray \/ found = {})

\* Mutant of Stop: the observer is disconnected.
StopDisconnecting(selector) ==
    /\ selector \in handles
    /\ observed' = {}
    /\ state' = Without(selector)
    /\ CountStop(selector)
    /\ UNCHANGED <<notified, handles, starts, visible, sent>>

\* A caller can stop with a copy whose entry another caller has removed.
Stop(selector) ==
    /\ selector \in handles
    /\ observed' = observed \ {ElementOf[selector]}
    /\ state' = Without(selector)
    /\ CountStop(selector)
    /\ UNCHANGED <<notified, handles, starts, visible, sent>>

(***************************************************************************)
(* The listeners                                                           *)
(***************************************************************************)

\* The user scrolls an element fully into the viewport, or out of it.
Scroll(element) ==
    /\ visible' = IF element \in visible THEN visible \ {element} ELSE visible \cup {element}
    /\ UNCHANGED <<state, observed, notified, handles, starts, stops, sent>>

(* The browser notifies of an element at the first frame after observe(),  *)
(* visible or not, which the callback does not ask, and runs the callback  *)
(* before the next frame.                                                  *)
Frame ==
    /\ notified = {}
    /\ observed # {}
    /\ notified' = observed
    /\ UNCHANGED <<state, observed, handles, starts, visible, stops, sent>>

Impressed(elements) ==
    { state[i].funnelEntryToken : i \in { j \in DOMAIN state : ElementOf[state[j].selector] \in elements } }

CountImpressions ==
    [sent EXCEPT !.impressions =
        [k \in Token |-> IF k \in Impressed(notified) THEN @[k] + 1 ELSE @[k]]]

\* Mutant of Notify: the elements stay observed.
NotifyAgain ==
    /\ notified # {}
    /\ sent' = CountImpressions
    /\ notified' = {}
    /\ UNCHANGED <<state, observed, handles, starts, visible, stops>>

\* The callback of the IntersectionObserver.
Notify ==
    /\ notified # {}
    /\ sent' = CountImpressions
    /\ observed' = observed \ notified
    /\ notified' = {}
    /\ UNCHANGED <<state, handles, starts, visible, stops>>

Around(entry, target) == <<ElementOf[entry.selector], target>> \in Encloses

\* The entries that a click inside target is sent for, in the list's order up
\* to the first that tracks single clicks.
Recipients(target) ==
    { i \in DOMAIN state :
        /\ Around(state[i], target)
        /\ \A j \in 1 .. i - 1 : ~(Around(state[j], target) /\ state[j].trackSingleClick) }

Click(target) ==
    /\ sent' = [sent EXCEPT !.click = { state[i].funnelEntryToken : i \in Recipients(target) }]
    /\ UNCHANGED <<state, observed, notified, handles, starts, visible, stops>>

(***************************************************************************)
(* Specification                                                           *)
(***************************************************************************)
RateInit ==
    /\ state = <<>>
    /\ observed = {} /\ notified = {}
    /\ handles = {}
    /\ starts = 0
    /\ visible = {}
    /\ ended = {} /\ stray = FALSE
    /\ sent = [impressions |-> [k \in Token |-> 0], click |-> {}]

RateNext ==
    \/ \E selector \in Selector, single \in BOOLEAN : Start(selector, single)
    \/ \E selector \in Selector : Stop(selector)
    \/ Frame \/ Notify
    \/ \E element \in Scrolled : Scroll(element)
    \/ \E target \in Element : Click(target)

(* The browser renders, and runs the callbacks of its observers.           *)
RateSpec == RateInit /\ [][RateNext]_rateVars /\ WF_rateVars(Frame) /\ WF_rateVars(Notify)

(***************************************************************************)
(* Properties                                                              *)
(***************************************************************************)
(* Whatever callers start and stop, also with copies of entries that are   *)
(* gone, no selector is instrumented twice and a funnel token has one      *)
(* entry.                                                                  *)
SelectorOnce ==
    \A i, j \in DOMAIN state :
        i # j => /\ state[i].selector # state[j].selector
                 /\ state[i].funnelEntryToken # state[j].funnelEntryToken

(* "Useful to prevent submitting duplicate click interactions on parent    *)
(* elements of a child when both are instrumented" (:133-136): if entries  *)
(* around the target track single clicks, one of them gets the click and   *)
(* no other entry does, in whatever order all were started and stopped.    *)
(* It is the one started last (:177), be it the innermost or not.          *)
SingleGetsClick ==
    \A target \in Element :
        LET singles == { i \in DOMAIN state : Around(state[i], target) /\ state[i].trackSingleClick }
        IN  singles # {} => \E i \in singles : Recipients(target) = {i}

\* No other selector finds the same element.
Unshared(selector) == \A s \in Selector \ {selector} : ElementOf[s] # ElementOf[selector]

(* "The event is submitted once" (:88), of the impression: never twice for *)
(* one token, even if its element is observed again, stopped while the     *)
(* notification waits, or restarted; provided its element is not shared.   *)
ImpressedOnce ==
    \A i \in DOMAIN state :
        Unshared(state[i].selector) => sent.impressions[state[i].funnelEntryToken] <= 1

Holds(k, selector) ==
    \E i \in DOMAIN state : state[i].funnelEntryToken = k /\ state[i].selector = selector

Shown(k, selector) == Holds(k, selector) /\ ElementOf[selector] \in visible

(* "The action=impression event is submitted soon after the element is     *)
(* fully visible in the viewport" (:87-88): an instrument on an element of *)
(* its own gets its impression once that is visible, unless it is scrolled *)
(* away or the instrument itself is stopped.  No start, stop or            *)
(* notification of another one takes it away, as long as no caller stops   *)
(* with a copy whose entry is gone: splice( -1, 1 ) then removes the last  *)
(* entry of the list, whosever that is.                                    *)
ImpressionComes ==
    \A k \in Token, selector \in { s \in Selector : Unshared(s) } :
        Shown(k, selector) ~> \/ sent.impressions[k] > 0
                              \/ ElementOf[selector] \notin visible
                              \/ k \in ended \/ stray
=============================================================================
