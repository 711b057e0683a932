---------------------------- MODULE ServicesProofs ----------------------------
(***************************************************************************)
(* Proofs about the services beside the booking core: the consumers of     *)
(* events, for any events, prefetch window and number of faults; the       *)
(* limiter, for any limit, window and number of requests; and the two      *)
(* beside the replication of accounts, whose proofs are a module of their  *)
(* own.                                                                    *)
(***************************************************************************)
EXTENDS Services, UserReplicationProofs, FiniteSetTheorems

-----------------------------------------------------------------------------
(* Event delivery (shared/messaging.py): every consumer keeps the promise of *)
(* AtLeastOnce, and records a part no more often than faults account for     *)

Types ==
    /\ service \in Consumers /\ published \in 0..MaxEvents
    /\ ready \subseteq Events /\ acked \subseteq Events
    /\ tries \in [Events -> Nat]
    /\ busy \in [Events -> Int]
    /\ \A e \in Events : busy[e] \in Off..Parts(service, e)
    /\ DOMAIN stored = Events
    /\ \A e \in Events : stored[e] \in [1..Parts(service, e) -> Nat]

\* A message is in one place, once it is published.
Placed ==
    /\ ready \cap InFlight = {}
    /\ acked \cap (ready \cup InFlight) = {}
    /\ \A e \in ready \cup InFlight \cup acked : e <= published

\* The handler that runs, or the one that finished, recorded a part once; each
\* that was interrupted at most once.
Counted == \A e \in Events : \A i \in 1..Parts(service, e) :
    /\ stored[e][i] <= tries[e] + 1
    /\ busy[e] < i /\ e \notin acked => stored[e][i] <= tries[e]

\* Parts are recorded in order, and the part that is next is one behind.
InOrder == \A e \in Events : \A i \in 2..Parts(service, e) :
    /\ stored[e][i] <= stored[e][i - 1]
    /\ i = busy[e] + 1 => stored[e][i] < stored[e][i - 1]

\* What the running handler went through is recorded.
Recorded == \A e \in Events : \A i \in 1..Parts(service, e) :
    i <= busy[e] => stored[e][i] > 0

DeliveryInv == Types /\ Placed /\ Counted /\ InOrder /\ Recorded

LEMMA PartsPositive ==
    ASSUME NEW c \in Consumers, NEW e \in Events
    PROVE  Parts(c, e) \in Nat \ {0}
BY EventAssumption DEF Parts

LEMMA DeliveryInitInv == DeliveryInit => DeliveryInv
<1> SUFFICES ASSUME DeliveryInit PROVE DeliveryInv
  OBVIOUS
<1>1. \A e \in Events : Parts(service, e) \in Nat \ {0}
  BY PartsPositive DEF DeliveryInit
<1>2. Types
  BY <1>1, EventAssumption DEF DeliveryInit, Types, Off
<1>3. Placed
  BY DEF DeliveryInit, Placed, InFlight
<1>4. Counted /\ InOrder /\ Recorded
  BY <1>1 DEF DeliveryInit, Counted, InOrder, Recorded, Off
<1> QED BY <1>2, <1>3, <1>4 DEF DeliveryInv

\* The broker takes a message, and hands it out.
LEMMA PublishKeepsInv == DeliveryInv /\ PublishEvent => DeliveryInv'
<1> SUFFICES ASSUME DeliveryInv, PublishEvent PROVE DeliveryInv'
  OBVIOUS
<1> USE EventAssumption DEF DeliveryInv, PublishEvent
<1>1. Types'
  BY DEF Types, Events, Parts
<1>2. InFlight' = InFlight
  BY DEF InFlight
<1>3. Placed'
  BY <1>2 DEF Types, Placed, InFlight, Events
<1>4. Counted' /\ InOrder' /\ Recorded'
  BY DEF Counted, InOrder, Recorded, Parts
<1> QED BY <1>1, <1>3, <1>4

LEMMA DeliverKeepsInv ==
    ASSUME DeliveryInv, NEW e \in Events, Deliver(e)
    PROVE  DeliveryInv'
<1> USE DEF DeliveryInv, Deliver
<1>1. busy[e] = Off /\ e \notin acked /\ e <= published
  BY DEF Types, Placed, InFlight
<1>2. InFlight' = InFlight \cup {e}
  BY DEF Types, InFlight, Off
<1>3. Parts(service, e) \in Nat \ {0}
  BY PartsPositive DEF Types
<1>4. Types'
  BY <1>3 DEF Types, Off, Parts
<1>5. Placed'
  BY <1>1, <1>2 DEF Types, Placed
<1>6. \A d \in Events : busy'[d] = IF d = e THEN 0 ELSE busy[d]
  BY DEF Types
<1>7. Counted' /\ InOrder' /\ Recorded'
  BY <1>1, <1>6 DEF Counted, InOrder, Recorded, Parts, Off
<1> QED BY <1>4, <1>5, <1>7

\* The handler records a part.
LEMMA RecordKeepsInv ==
    ASSUME DeliveryInv, NEW e \in Events, RecordPart(e)
    PROVE  DeliveryInv'
<1> DEFINE k == busy[e] + 1
<1> USE DEF DeliveryInv
<1>1. Parts(service, e) \in Nat \ {0} /\ k \in 1..Parts(service, e)
  BY PartsPositive DEF Types, RecordPart
<1>2. /\ busy' = [busy EXCEPT ![e] = k]
      /\ stored' = [stored EXCEPT ![e][k] = @ + 1]
      /\ UNCHANGED <<service, published, ready, acked, tries>>
  BY DEF RecordPart, NextPart
<1>3. e \notin acked
  BY <1>1 DEF Placed, InFlight, Off
<1> HIDE DEF k
<1>4. \A d \in Events : busy'[d] = IF d = e THEN k ELSE busy[d]
  BY <1>2 DEF Types
<1>5. \A d \in Events : \A i \in 1..Parts(service, d) :
        stored'[d][i] = IF d = e /\ i = k THEN stored[d][i] + 1 ELSE stored[d][i]
  BY <1>2 DEF Types
<1>6. \A d \in Events : stored'[d] \in [1..Parts(service, d) -> Nat]
  BY <1>1, <1>2 DEF Types
<1>7. Types'
  <2>1. /\ service' \in Consumers /\ published' \in 0..MaxEvents
        /\ ready' \subseteq Events /\ acked' \subseteq Events
        /\ tries' \in [Events -> Nat] /\ service' = service
    BY <1>2 DEF Types
  <2>2. busy' \in [Events -> Int] /\ \A d \in Events : busy'[d] \in Off..Parts(service, d)
    BY <1>1, <1>2, <1>4 DEF Types, Off
  <2>3. DOMAIN stored' = Events
    BY <1>2 DEF Types
  <2> QED BY <1>6, <2>1, <2>2, <2>3 DEF Types, Parts
<1>8. InFlight' = InFlight
  BY <1>1, <1>4 DEF InFlight, Off, Types, k
<1>9. Placed'
  BY <1>2, <1>8 DEF Placed
<1>10. \A d \in Events : Parts(service, d)' = Parts(service, d)
  BY <1>2 DEF Parts
<1>11. \A i \in 1..Parts(service, e) : stored[e][i] \in Nat
  BY DEF Types
<1>12. Counted'
  <2>1. stored[e][k] <= tries[e]
    BY <1>1, <1>3 DEF Counted, k, Types
  <2> QED BY <1>1, <1>2, <1>3, <1>4, <1>5, <1>10, <2>1, SMTT(30) DEF Counted, Types, k
<1>13. InOrder'
  <2> SUFFICES ASSUME NEW d \in Events, NEW i \in 2..Parts(service, d)
               PROVE  /\ stored'[d][i] <= stored'[d][i - 1]
                      /\ i = busy'[d] + 1 => stored'[d][i] < stored'[d][i - 1]
    BY <1>10 DEF InOrder
  <2>1. /\ i \in Int /\ i \in 1..Parts(service, d) /\ i - 1 \in 1..Parts(service, d)
    BY <1>2, PartsPositive DEF Types
  <2>2. stored[d][i] \in Nat /\ stored[d][i - 1] \in Nat
    BY <2>1 DEF Types
  <2>3. /\ stored[d][i] <= stored[d][i - 1]
        /\ i = busy[d] + 1 => stored[d][i] < stored[d][i - 1]
    BY DEF InOrder
  <2>4. CASE d # e
    BY <1>4, <1>5, <2>1, <2>3, <2>4
  <2>5. CASE d = e
    BY <1>1, <1>4, <1>5, <2>1, <2>2, <2>3, <2>5 DEF k
  <2> QED BY <2>4, <2>5
<1>14. Recorded'
  BY <1>1, <1>4, <1>5, <1>10, <1>11 DEF Recorded, Types, k
<1> QED BY <1>7, <1>9, <1>12, <1>13, <1>14

LEMMA AcknowledgeKeepsInv ==
    ASSUME DeliveryInv, NEW e \in Events, Acknowledge(e)
    PROVE  DeliveryInv'
<1> USE DEF DeliveryInv, Acknowledge
<1>1. Parts(service, e) \in Nat \ {0} /\ busy[e] = Parts(service, e)
  BY PartsPositive DEF Types, HandlerDone
<1>2. \A d \in Events : busy'[d] = IF d = e THEN Off ELSE busy[d]
  BY DEF Types
<1>3. Types'
  BY <1>1, <1>2 DEF Types, Parts, Off
<1>4. InFlight' = InFlight \ {e} /\ e \in InFlight
  BY <1>1, <1>2 DEF InFlight, Off
<1>5. Placed'
  BY <1>4 DEF Placed
<1>6. Counted' /\ InOrder' /\ Recorded'
  BY <1>1, <1>2 DEF Counted, InOrder, Recorded, Parts, Off
<1> QED BY <1>3, <1>5, <1>6

\* The message goes back to the queue.
LEMMA PutBackKeepsInv ==
    ASSUME DeliveryInv, NEW e \in Events, Interrupt(e) \/ PoisonRaises(e)
    PROVE  DeliveryInv'
<1> USE DEF DeliveryInv
<1>1. /\ ready' = ready \cup {e} /\ busy' = [busy EXCEPT ![e] = Off]
      /\ UNCHANGED <<service, published, acked, stored>>
  BY DEF Interrupt, PoisonRaises, PutBack, Requeued
<1>2. busy[e] # Off
  BY DEF Interrupt, PoisonRaises, Off
<1>3. \/ busy[e] = 0 /\ tries' = tries
      \/ tries' = [tries EXCEPT ![e] = @ + 1]
  BY DEF Interrupt, PoisonRaises
<1>4. Parts(service, e) \in Nat \ {0}
  BY PartsPositive DEF Types
<1>5. \A d \in Events : busy'[d] = IF d = e THEN Off ELSE busy[d]
  BY <1>1 DEF Types
<1>6. tries' \in [Events -> Nat]
  BY <1>3, SMTT(30) DEF Types
<1>7. Types'
  <2>1. /\ service' \in Consumers /\ published' \in 0..MaxEvents
        /\ ready' \subseteq Events /\ acked' \subseteq Events /\ service' = service
    BY <1>1 DEF Types
  <2>2. busy' \in [Events -> Int] /\ \A d \in Events : busy'[d] \in Off..Parts(service, d)
    BY <1>1, <1>4, <1>5 DEF Types, Off
  <2>3. /\ DOMAIN stored' = Events
        /\ \A d \in Events : stored'[d] \in [1..Parts(service, d) -> Nat]
    BY <1>1 DEF Types
  <2> QED BY <1>6, <2>1, <2>2, <2>3 DEF Types, Parts
<1>8. InFlight' = InFlight \ {e} /\ e \in InFlight
  BY <1>2, <1>5 DEF InFlight
<1>9. Placed'
  BY <1>1, <1>8 DEF Placed
<1>10. \A d \in Events : \A i \in 1..Parts(service, d) : stored[d][i] \in Nat
  BY DEF Types
<1>11. Counted'
  <2>1. CASE busy[e] = 0 /\ tries' = tries
    BY <1>1, <1>5, <2>1 DEF Counted, Parts, Off, Types
  <2>2. CASE tries' = [tries EXCEPT ![e] = @ + 1]
    <3>1. \A d \in Events : tries'[d] = IF d = e THEN tries[d] + 1 ELSE tries[d]
      BY <2>2 DEF Types
    <3>2. \A d \in Events : tries[d] \in Nat
      BY DEF Types
    <3> QED BY <1>1, <1>5, <1>10, <3>1, <3>2 DEF Counted, Parts
  <2> QED BY <1>3, <2>1, <2>2
<1>12. InOrder' /\ Recorded'
  BY <1>1, <1>5 DEF InOrder, Recorded, Parts, Off
<1> QED BY <1>7, <1>9, <1>11, <1>12

\* The invariant holds in every reachable state.
THEOREM DeliveryInvHolds == DeliverySpec => []DeliveryInv
<1>1. DeliveryInit => DeliveryInv
  BY DeliveryInitInv
<1>2. DeliveryInv /\ [DeliveryNext]_deliveryVars => DeliveryInv'
  <2> SUFFICES ASSUME DeliveryInv, [DeliveryNext]_deliveryVars PROVE DeliveryInv'
    OBVIOUS
  <2>1. CASE PublishEvent
    BY <2>1, PublishKeepsInv
  <2>2. ASSUME NEW e \in Events, Deliver(e) PROVE DeliveryInv'
    BY <2>2, DeliverKeepsInv
  <2>3. ASSUME NEW e \in Events, HandlerStep(e) PROVE DeliveryInv'
    BY <2>3, RecordKeepsInv, AcknowledgeKeepsInv, PutBackKeepsInv DEF HandlerStep
  <2>4. ASSUME NEW e \in Events, Interrupt(e) PROVE DeliveryInv'
    BY <2>4, PutBackKeepsInv
  <2>5. CASE UNCHANGED deliveryVars
    BY <2>5 DEF deliveryVars, DeliveryInv, Types, Placed, Counted, InOrder,
                Recorded, InFlight, Parts
  <2> QED BY <2>1, <2>2, <2>3, <2>4, <2>5 DEF DeliveryNext
<1> QED BY <1>1, <1>2, PTL DEF DeliverySpec

\* A record too many is the mark of a delivery that was interrupted, and a part
\* is never recorded more often than the one before it.
THEOREM CopiesAreCountedHolds == DeliverySpec => []CopiesAreCounted
<1>1. DeliveryInv => CopiesAreCounted
  <2> SUFFICES ASSUME DeliveryInv, NEW e \in Events, NEW i \in 1..Parts(service, e)
               PROVE  /\ stored[e][i] <= tries[e] + 1
                      /\ i > 1 => stored[e][i] <= stored[e][i - 1]
    BY DEF CopiesAreCounted
  <2>1. Parts(service, e) \in Nat
    BY PartsPositive DEF DeliveryInv, Types
  <2>2. i > 1 => i \in 2..Parts(service, e)
    BY <2>1
  <2> QED BY <2>2 DEF DeliveryInv, Counted, InOrder
<1> QED BY <1>1, DeliveryInvHolds, PTL

\* However handlers fail and messages are put back, the queue and the handlers
\* of a consumer implement AtLeastOnce: what is acknowledged was recorded.
THEOREM DeliveryImplementsLog == DeliverySpec => KeepsPromise
<1>1. DeliveryInit => Log!Init
  BY DEF DeliveryInit, Log!Init, InFlight
<1>2. DeliveryInv /\ [DeliveryNext]_deliveryVars => [Log!Next]_(Log!abstractVars)
  <2> SUFFICES ASSUME DeliveryInv, [DeliveryNext]_deliveryVars
               PROVE  Log!Next \/ UNCHANGED Log!abstractVars
    OBVIOUS
  <2> USE DEF DeliveryInv
  <2>1. CASE PublishEvent
    <3>1. published + 1 \in Events /\ InFlight' = InFlight
      <4>1. published + 1 \in Events
        BY <2>1, EventAssumption DEF PublishEvent, Types, Events
      <4>2. InFlight' = InFlight
        BY <2>1 DEF PublishEvent, InFlight
      <4> QED BY <4>1, <4>2
    <3>2. published + 1 \notin (ready \cup InFlight) \cup acked
      BY DEF Placed, Types
    <3>3. Log!Publish(published + 1)
      BY <2>1, <3>1, <3>2 DEF PublishEvent, Log!Publish
    <3> QED BY <3>1, <3>3 DEF Log!Next
  <2>2. ASSUME NEW e \in Events, Deliver(e) PROVE UNCHANGED Log!abstractVars
    <3>1. InFlight' = InFlight \cup {e}
      BY <2>2 DEF Deliver, Types, InFlight, Off
    <3> QED BY <2>2, <3>1 DEF Deliver, Log!abstractVars
  <2>3. ASSUME NEW e \in Events, RecordPart(e) PROVE Log!Record(e)
    <3>1. busy[e] # Off /\ busy[e] + 1 \in 1..Parts(service, e)
      BY <2>3, PartsPositive DEF RecordPart, Types, Off
    <3>2. InFlight' = InFlight /\ e \in InFlight
      BY <2>3, <3>1 DEF RecordPart, InFlight, Types, Off
    <3>3. DOMAIN stored[e] = 1..Parts(service, e)
      BY DEF Types
    <3> QED BY <2>3, <3>1, <3>2, <3>3 DEF RecordPart, NextPart, Log!Record
  <2>4. ASSUME NEW e \in Events, Acknowledge(e) PROVE Log!Finish(e)
    <3>1. busy[e] = Parts(service, e) /\ Parts(service, e) \in Nat \ {0}
      BY <2>4, PartsPositive DEF Acknowledge, HandlerDone, Types
    <3>2. InFlight' = InFlight \ {e} /\ e \in InFlight /\ e \notin ready
      BY <2>4, <3>1 DEF Acknowledge, InFlight, Types, Off, Placed
    <3>3. \A i \in DOMAIN stored[e] : stored[e][i] > 0
      BY <3>1 DEF Types, Recorded
    <3> QED BY <2>4, <3>2, <3>3 DEF Acknowledge, Log!Finish
  <2>5. ASSUME NEW e \in Events, Interrupt(e) \/ PoisonRaises(e)
        PROVE  UNCHANGED Log!abstractVars
    <3>1. /\ ready' = ready \cup {e} /\ busy' = [busy EXCEPT ![e] = Off]
          /\ busy[e] # Off /\ UNCHANGED <<acked, stored>>
      BY <2>5 DEF Interrupt, PoisonRaises, PutBack, Requeued, Off
    <3>2. InFlight' = InFlight \ {e} /\ e \in InFlight
      BY <3>1 DEF InFlight, Types
    <3> QED BY <3>1, <3>2 DEF Log!abstractVars
  <2>6. CASE UNCHANGED deliveryVars
    BY <2>6 DEF deliveryVars, Log!abstractVars, InFlight
  <2> QED BY <2>1, <2>2, <2>3, <2>4, <2>5, <2>6 DEF DeliveryNext, HandlerStep, Log!Next
<1> QED BY <1>1, <1>2, DeliveryInvHolds, PTL DEF DeliverySpec, KeepsPromise, Log!Spec

\* A message is in one place, and no more are handled than the window allows.
THEOREM OnePlaceHolds == DeliverySpec => []OnePlace
<1> DEFINE Window == Cardinality(InFlight) <= Prefetch[service]
<1>1. DeliveryInv => IsFiniteSet(InFlight)
  <2>1. IsFiniteSet(Events)
    BY FS_Interval, EventAssumption DEF Events
  <2> QED BY <2>1, FS_Subset DEF InFlight
<1>2. DeliveryInit => Window
  <2> SUFFICES ASSUME DeliveryInit PROVE Window
    OBVIOUS
  <2>1. InFlight = {}
    BY DEF DeliveryInit, InFlight
  <2>2. Prefetch[service] \in Nat
    BY EventAssumption DEF DeliveryInit
  <2> QED BY <2>1, <2>2, FS_EmptySet
<1>3. DeliveryInv /\ Window /\ [DeliveryNext]_deliveryVars => Window'
  <2> SUFFICES ASSUME DeliveryInv, Window, [DeliveryNext]_deliveryVars PROVE Window'
    OBVIOUS
  <2>1. Prefetch[service] \in Nat /\ service' = service
    BY EventAssumption DEF DeliveryInv, Types, DeliveryNext, HandlerStep, PublishEvent,
       Deliver, RecordPart, Acknowledge, PoisonRaises, Interrupt, deliveryVars
  <2>2. IsFiniteSet(InFlight) /\ Cardinality(InFlight) \in Nat
    BY <1>1, FS_CardinalityType
  <2>3. ASSUME NEW e \in Events, Deliver(e) PROVE Window'
    <3>1. InFlight' = InFlight \cup {e} /\ Cardinality(InFlight) < Prefetch[service]
      BY <2>3 DEF Deliver, DeliveryInv, Types, InFlight, Off
    <3>2. Cardinality(InFlight \cup {e}) \in {Cardinality(InFlight), Cardinality(InFlight) + 1}
      BY <2>2, FS_AddElement
    <3>3. Cardinality(InFlight \cup {e}) <= Prefetch[service]
      BY <2>1, <2>2, <3>1, <3>2
    <3> QED BY <2>1, <3>1, <3>3
  <2>4. ASSUME InFlight' \subseteq InFlight PROVE Window'
    <3>1. IsFiniteSet(InFlight') /\ Cardinality(InFlight') <= Cardinality(InFlight)
      BY <2>2, <2>4, FS_Subset
    <3>2. Cardinality(InFlight') \in Nat
      BY <3>1, FS_CardinalityType
    <3> QED BY <2>1, <2>2, <3>1, <3>2
  <2>5. CASE PublishEvent \/ UNCHANGED deliveryVars
    BY <2>4, <2>5 DEF PublishEvent, deliveryVars, InFlight
  <2>6. ASSUME NEW e \in Events, HandlerStep(e) \/ Interrupt(e)
        PROVE  InFlight' \subseteq InFlight
    BY <2>6 DEF HandlerStep, RecordPart, Acknowledge, PoisonRaises, Interrupt, PutBack,
                InFlight, DeliveryInv, Types, Off
  <2> QED BY <2>3, <2>4, <2>5, <2>6 DEF DeliveryNext
<1>4. DeliveryInv /\ Window => OnePlace
  BY DEF DeliveryInv, Placed, OnePlace
<1> QED BY <1>2, <1>3, <1>4, DeliveryInvHolds, PTL DEF DeliverySpec

-----------------------------------------------------------------------------
(* The limiter (rate_limiter.py) *)

\* What one key has let pass was counted, and counted within the limit.
PassedIsCounted == passed <= count

LimiterInv == LimiterTypeOK /\ PassedIsCounted /\ WindowBound /\ TimeToLiveIsSet

\* A client that has no key yet has used up nothing.
LEMMA LimiterInvInit == LimiterInit => LimiterInv
<1> SUFFICES ASSUME LimiterInit PROVE LimiterInv
  OBVIOUS
<1> USE LimiterAssumption DEF LimiterInit
<1>1. count \in Nat /\ ttl \in 0..WINDOW /\ passed \in Nat
  BY SMT DEF Never
<1>2. requests \in [Requests -> {"new", "first", "passed", "429", "crashed"}]
  BY SMT
<1>3. LimiterTypeOK
  BY <1>1, <1>2, Zenon DEF LimiterTypeOK
<1>4. PassedIsCounted /\ WindowBound
  BY SMT DEF PassedIsCounted, WindowBound
<1>5. TimeToLiveIsSet
  BY Zenon DEF TimeToLiveIsSet
<1> QED BY <1>3, <1>4, <1>5 DEF LimiterInv

\* A key that is gone takes its count with it.
LEMMA KeyGoneKeepsInv ==
  ASSUME LimiterInv, KeyGone, UNCHANGED requests
  PROVE  LimiterInv'
<1> USE LimiterAssumption DEF KeyGone, LimiterInv
<1>1. count' \in Nat /\ ttl' \in 0..WINDOW /\ passed' \in Nat
  BY SMT DEF Never
<1>2. LimiterTypeOK'
  BY <1>1, Zenon DEF LimiterTypeOK
<1>3. PassedIsCounted' /\ WindowBound'
  BY SMT DEF PassedIsCounted, WindowBound
<1>4. TimeToLiveIsSet'
  BY Zenon DEF TimeToLiveIsSet
<1> QED BY <1>2, <1>3, <1>4

\* INCR and the comparison: the first request is within any limit, a later one
\* passes only when the count it got is.
LEMMA IncrKeepsInv ==
  ASSUME LimiterInv, NEW q \in Requests, Incr(q)
  PROVE  LimiterInv'
<1> USE LimiterAssumption DEF LimiterInv, Incr
<1>1. LimiterTypeOK'
  BY SMT DEF LimiterTypeOK, Goes, Requests
<1>2. PassedIsCounted' /\ WindowBound'
  BY SMT DEF LimiterTypeOK, PassedIsCounted, WindowBound, IsFirst, OverLimit
<1>3. TimeToLiveIsSet'
  <2>1. CASE count = 0
    BY <2>1, SMT DEF LimiterTypeOK, TimeToLiveIsSet, IsFirst, Goes
  <2>2. CASE count # 0
    BY <2>2, SMT DEF LimiterTypeOK, TimeToLiveIsSet, Goes
  <2> QED BY <2>1, <2>2
<1> QED BY <1>1, <1>2, <1>3

\* Every step, whoever takes it.
LEMMA LimiterInvNext == LimiterInv /\ [LimiterNext]_limiterVars => LimiterInv'
<1> SUFFICES ASSUME LimiterInv, [LimiterNext]_limiterVars PROVE LimiterInv'
  OBVIOUS
<1> USE LimiterAssumption
<1>1. ASSUME NEW q \in Requests, Incr(q) PROVE LimiterInv'
  BY <1>1, IncrKeepsInv
<1>2. ASSUME NEW q \in Requests, Expire(q) PROVE LimiterInv'
  BY <1>2, SMT DEF Expire, Lifetime, Goes, LimiterInv, LimiterTypeOK, PassedIsCounted,
                   WindowBound, TimeToLiveIsSet, Requests, Never
<1>3. ASSUME NEW q \in Requests, ExpireFails(q) PROVE LimiterInv'
  <2> USE <1>3 DEF ExpireFails, LimiterInv
  <2>1. leaked' \in BOOLEAN
    BY Zenon DEF LimiterTypeOK
  <2>2. requests' \in [Requests -> {"new", "first", "passed", "429", "crashed"}]
    BY SMT DEF LimiterTypeOK, Goes
  <2>3. LimiterTypeOK' /\ PassedIsCounted' /\ WindowBound'
    BY <2>1, <2>2 DEF LimiterTypeOK, PassedIsCounted, WindowBound
  <2>4. TimeToLiveIsSet'
    BY Zenon DEF TimeToLiveIsSet
  <2> QED BY <2>3, <2>4
<1>4. ASSUME NEW q \in Requests, IncrFails(q) PROVE LimiterInv'
  <2> USE <1>4 DEF IncrFails, LimiterInv
  <2>1. count' \in Nat /\ count' >= count /\ UNCHANGED <<ttl, passed>>
    BY SMT DEF LimiterTypeOK
  <2>2. leaked' \in BOOLEAN
    BY Zenon DEF LimiterTypeOK
  <2>3. requests' \in [Requests -> {"new", "first", "passed", "429", "crashed"}]
    BY SMT DEF LimiterTypeOK, Goes
  <2>4. LimiterTypeOK'
    BY <2>1, <2>2, <2>3 DEF LimiterTypeOK
  <2>5. PassedIsCounted' /\ WindowBound'
    BY <2>1, SMT DEF LimiterTypeOK, PassedIsCounted, WindowBound
  <2>6. \A p \in Requests : requests[p] = "first" => requests'[p] = "first"
    BY SMT DEF LimiterTypeOK, Goes
  <2>7. TimeToLiveIsSet'
    <3>1. CASE count = 0
      <4>1. count' = 0 \/ leaked'
        BY <3>1, Zenon
      <4> QED BY <4>1, Zenon DEF TimeToLiveIsSet
    <3>2. CASE count # 0
      <4>1. leaked => leaked'
        BY Zenon
      <4> QED BY <2>1, <2>6, <3>2, <4>1, Zenon DEF TimeToLiveIsSet
    <3> QED BY <3>1, <3>2
  <2> QED BY <2>4, <2>5, <2>7
<1>5. ASSUME Tick PROVE LimiterInv'
  <2>1. CASE ttl = 1
    BY <1>5, <2>1, KeyGoneKeepsInv, SMT DEF Tick
  <2>2. CASE ttl # 1
    BY <1>5, <2>2, SMT DEF Tick, LimiterInv, LimiterTypeOK, PassedIsCounted,
                   WindowBound, TimeToLiveIsSet, Requests, Never
  <2> QED BY <2>1, <2>2
<1>6. ASSUME Evict PROVE LimiterInv'
  BY <1>6, KeyGoneKeepsInv DEF Evict
<1>7. ASSUME UNCHANGED limiterVars PROVE LimiterInv'
  BY <1>7 DEF limiterVars, LimiterInv, LimiterTypeOK, PassedIsCounted, WindowBound,
              TimeToLiveIsSet
<1> QED
  BY <1>1, <1>2, <1>3, <1>4, <1>5, <1>6, <1>7 DEF LimiterNext, Gateway

\* The invariant holds in every reachable state (rate_limiter.py:24-37).
THEOREM LimiterInvHolds == LimiterSpec => []LimiterInv
  BY LimiterInvInit, LimiterInvNext, PTL DEF LimiterSpec

\* A key lets at most RATE_LIMIT counted requests pass, however many requests
\* of the client run at a time (rate_limiter.py:29-33).
THEOREM LimitHolds == LimiterSpec => []WindowBound
<1>1. LimiterInv => WindowBound
  BY DEF LimiterInv
<1> QED BY <1>1, LimiterInvHolds, PTL

\* A key without a time to live is one whose first request is still running,
\* or one whose EXPIRE was lost (rate_limiter.py:30-31, 34-37).
THEOREM LifetimeIsSet == LimiterSpec => []TimeToLiveIsSet
<1>1. LimiterInv => TimeToLiveIsSet
  BY DEF LimiterInv
<1> QED BY <1>1, LimiterInvHolds, PTL

-----------------------------------------------------------------------------
(* The three side by side *)

\* A behaviour of the services is one of each of them: the steps of a part are
\* no steps of the others.
LEMMA EachIsItself == ServicesSpec => UsersSpec /\ DeliverySpec /\ LimiterSpec
<1>1. ServicesInit => UsersInit /\ DeliveryInit /\ LimiterInit
  BY DEF ServicesInit
<1>2. [ServicesNext]_servicesVars => [UsersNext]_userVars
  BY DEF ServicesNext, servicesVars
<1>3. [ServicesNext]_servicesVars => [DeliveryNext]_deliveryVars
  BY DEF ServicesNext, servicesVars
<1>4. [ServicesNext]_servicesVars => [LimiterNext]_limiterVars
  BY DEF ServicesNext, servicesVars
<1> QED
  BY <1>1, <1>2, <1>3, <1>4, PTL DEF ServicesSpec, UsersSpec, DeliverySpec, LimiterSpec

\* Everything a run checks of the services holds of them side by side
\* (auth_service, shared/messaging.py, rate_limiter.py).
THEOREM ServicesHold ==
  ServicesSpec => /\ []OneAccount /\ []ClaimHasReason /\ []DifferenceIsNoted
                  /\ []CopiesAreCounted /\ KeepsPromise /\ []WindowBound
BY EachIsItself, OneAccountHolds, ClaimHasReasonHolds, DifferenceIsNotedHolds,
   CopiesAreCountedHolds, DeliveryImplementsLog, LimitHolds, PTL
===============================================================================
