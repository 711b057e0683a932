---------------------------- MODULE EventDelivery ----------------------------
(***************************************************************************)
(* Booking events on their way to one of the services that consume them    *)
(* (shared/messaging.py).  Each has a durable queue of its own, which the  *)
(* others do not touch; it is sent up to Prefetch messages at a time,      *)
(* handles them concurrently, and has a message put back at its place in   *)
(* the queue when its handler raises or the connection is lost.  A handler *)
(* records the parts of an event one after the other, each in a            *)
(* transaction of its own.                                                 *)
(***************************************************************************)
EXTENDS Integers, FiniteSets

CONSTANTS
    Consumers,      \* among "notification", "analytics", "verification"
    MaxEvents,      \* bound: events published, in the order of their numbers
    Type,           \* Type[e]: "confirmed", "failed" or "cancelled"
    Segments,       \* Segments[e]: how many the payload lists, maybe none
    Plateless,      \* events whose plate_number is null
    Prefetch,       \* 10; verification 20
    MaxFaults       \* bound: interruptions of the handling of an event

Events == 1..MaxEvents

ASSUME EventAssumption ==
    /\ Consumers \subseteq {"notification", "analytics", "verification"}
    /\ MaxEvents \in Nat /\ MaxFaults \in Nat
    /\ Type \in [Events -> {"confirmed", "failed", "cancelled"}]
    /\ Segments \in [Events -> Nat]
    /\ Plateless \subseteq Events
    /\ Prefetch \in [Consumers -> Nat \ {0}]

VARIABLES
    service,        \* whose queue it is
    published,      \* how many events were published
    ready,          \* the messages in the queue
    busy,           \* busy[e]: parts the running handler recorded, or Off
    acked,          \* the messages acknowledged
    stored,         \* stored[e][i]: records made of the i-th part
    tries           \* history: tries[e] deliveries of e were interrupted

deliveryVars == <<service, published, ready, busy, acked, stored, tries>>

Off == -1

\* Records: push, sms, email; one per segment, or one; the cache.
Parts(c, e) ==
    CASE c = "notification" -> IF Type[e] = "confirmed" THEN 3 ELSE 2
      [] c = "analytics" -> IF Segments[e] = 0 THEN 1 ELSE Segments[e]
      [] OTHER -> 1

\* Handlers that raise whenever they are called: .upper() of no plate.
Poison(c) == IF c = "verification" THEN Plateless ELSE {}

InFlight == {e \in Events : busy[e] # Off}

DeliveryTypeOK ==
    /\ service \in Consumers /\ published \in 0..MaxEvents
    /\ ready \subseteq Events /\ acked \subseteq Events
    /\ busy \in [Events -> Int] /\ tries \in [Events -> Nat]
    /\ DOMAIN stored = Events
    /\ \A e \in Events : /\ busy[e] \in Off..Parts(service, e)
                         /\ stored[e] \in [1..Parts(service, e) -> Nat]

DeliveryInit ==
    /\ service \in Consumers /\ published = 0
    /\ ready = {} /\ acked = {}
    /\ busy = [e \in Events |-> Off]
    /\ stored = [e \in Events |-> [i \in 1..Parts(service, e) |-> 0]]
    /\ tries = [e \in Events |-> 0]

-----------------------------------------------------------------------------

\* The topic exchange copies the event into the queue.
PublishEvent ==
    /\ published < MaxEvents
    /\ published' = published + 1
    /\ ready' = ready \cup {published + 1}
    /\ UNCHANGED <<service, busy, acked, stored, tries>>

\* The broker sends the first message of the queue.
Deliver(e) ==
    /\ e \in ready /\ \A d \in ready : e <= d
    /\ Cardinality(InFlight) < Prefetch[service]
    /\ ready' = ready \ {e}
    /\ busy' = [busy EXCEPT ![e] = 0]
    /\ UNCHANGED <<service, published, acked, stored, tries>>

\* Mutant of NextPart: the handler goes through the parts backwards.
LastPart(e) == Parts(service, e) - busy[e]

NextPart(e) == busy[e] + 1

\* The handler records its next part.
RecordPart(e) ==
    /\ busy[e] \in 0..(Parts(service, e) - 1) /\ e \notin Poison(service)
    /\ busy' = [busy EXCEPT ![e] = @ + 1]
    /\ stored' = [stored EXCEPT ![e][NextPart(e)] = @ + 1]
    /\ UNCHANGED <<service, published, ready, acked, tries>>

\* Mutant of HandlerDone: what the handler raises is swallowed.
DoneAnyway(e) == busy[e] # Off

\* The handler has returned.
HandlerDone(e) == busy[e] = Parts(service, e)

Acknowledge(e) ==
    /\ HandlerDone(e)
    /\ busy' = [busy EXCEPT ![e] = Off]
    /\ acked' = acked \cup {e}
    /\ UNCHANGED <<service, published, ready, stored, tries>>

\* Mutant of Requeued: process(requeue=False).
RequeuedNever(e) == ready

Requeued(e) == ready \cup {e}

PutBack(e) == /\ ready' = Requeued(e) /\ busy' = [busy EXCEPT ![e] = Off]

\* The handler raises, or the connection is lost before it is acknowledged:
\* what was recorded stays recorded.
Interrupt(e) ==
    /\ busy[e] # Off /\ tries[e] < MaxFaults
    /\ PutBack(e)
    /\ tries' = [tries EXCEPT ![e] = @ + 1]
    /\ UNCHANGED <<service, published, acked, stored>>

\* A handler that always raises does so before it records anything.
PoisonRaises(e) ==
    /\ e \in Poison(service) /\ busy[e] = 0
    /\ PutBack(e)
    /\ UNCHANGED <<service, published, acked, stored, tries>>

HandlerStep(e) == RecordPart(e) \/ Acknowledge(e) \/ PoisonRaises(e)

DeliveryNext ==
    \/ PublishEvent
    \/ \E e \in Events : Deliver(e) \/ HandlerStep(e) \/ Interrupt(e)

DeliverySpec == DeliveryInit /\ [][DeliveryNext]_deliveryVars

\* The broker sends what there is room for; a handler goes on or raises.
DeliveryFairness ==
    \A e \in Events : SF_deliveryVars(Deliver(e)) /\ WF_deliveryVars(HandlerStep(e))

-----------------------------------------------------------------------------
(* Properties *)

\* The consumer keeps the promise of at least one record of every part.
Log == INSTANCE AtLeastOnce WITH
    open <- ready \cup InFlight, closed <- acked, copies <- stored

KeepsPromise == Log!Spec

\* A part is recorded at most once more than deliveries of its event were
\* interrupted, and no more often than the part before it.
CopiesAreCounted ==
    \A e \in Events : \A i \in 1..Parts(service, e) :
        /\ stored[e][i] <= tries[e] + 1
        /\ i > 1 => stored[e][i] <= stored[e][i - 1]

\* A message is in the queue, or being handled, or done with, and the handlers
\* are never more than the prefetch window has places.
OnePlace ==
    /\ ready \cap InFlight = {}
    /\ acked \cap (ready \cup InFlight) = {}
    /\ Cardinality(InFlight) <= Prefetch[service]

\* Messages that can be handled are, though others of the queue are requeued
\* for ever, as long as these leave a place of the prefetch window.
HealthyEnd ==
    \A e \in Events :
        (published >= e /\ e \notin Poison(service)
            /\ Cardinality(Poison(service)) < Prefetch[service]) ~> e \in acked
=============================================================================
