---------------------- MODULE VerificationCacheProofs -----------------------
(***************************************************************************)
(* Theorems about VerificationCache, for any bookings of a plate, any      *)
(* departures and windows, and any number of concurrent checks.            *)
(***************************************************************************)
EXTENDS VerificationCache, TLAPS

\* What a check owes to a booking is owed only while the booking is valid.
OwedAreValid == \A a \in Agents : \A b \in owed[a] : Valid(b)

\* No check reads the clock of the future.
BegunBefore == \A a \in Agents : began[a] <= now

\* What a check is about to answer was read within its window.
FoundInWindow ==
    \A a \in Agents :
        check[a] \in {"fill", "granted"} =>
            found[a] \in Bookings /\ began[a] <= WindowEnd(found[a])

CheckInv ==
    TypeOK /\ OwedAreValid /\ BegunBefore /\ FoundInWindow /\ NoFalseDenial

\* Windows end at natural times.
LEMMA WindowType == \A b \in Bookings : Dep[b] \in Nat /\ WindowEnd(b) \in Nat
  BY TimesAssumption DEF WindowEnd

\* A key's time to live ends at a natural time, whenever it is written.
LEMMA ExpiryType == TypeOK => \A b \in Bookings : Expiry(b) \in Nat
<1> SUFFICES ASSUME TypeOK, NEW b \in Bookings PROVE Expiry(b) \in Nat
  OBVIOUS
<1>1. now \in Nat
  BY BoundsAssumption DEF TypeOK
<1>2. WindowEnd(b) \in Nat
  BY WindowType
<1> QED
  BY <1>1, <1>2, TimesAssumption DEF Expiry

LEMMA CheckInit == Init => CheckInv
  BY BoundsAssumption
  DEF Init, CheckInv, TypeOK, OwedAreValid, BegunBefore, FoundInWindow,
      NoFalseDenial, Events, Statuses, Stages

-----------------------------------------------------------------------------
\* Each step keeps the types.
LEMMA TypeKept == TypeOK /\ FoundInWindow /\ [Next]_vars => TypeOK'
<1> SUFFICES ASSUME TypeOK, FoundInWindow, [Next]_vars PROVE TypeOK'
  OBVIOUS
<1> USE DEF TypeOK
<1>1. CASE Tick
  BY <1>1, BoundsAssumption DEF Tick, cacheVars, bookingVars
<1>2. CASE ManualInvalidate
  BY <1>2 DEF ManualInvalidate, Invalidate, bookingVars, checkVars
<1>3. ASSUME NEW b \in Bookings,
             Announce(b) \/ Confirm(b) \/ RejectOrphan(b) \/ Cancel(b)
      PROVE  TypeOK'
  <2>1. status' \in [Bookings -> Statuses]
    BY <1>3 DEF Announce, Confirm, RejectOrphan, Cancel, SetStatus, Statuses
  <2>2. event' \in [Bookings -> [Events -> {"none", "queued", "done", "lost"}]]
    BY <1>3 DEF Announce, Confirm, RejectOrphan, Cancel, Publish, TryPublish,
                Events
  <2>3. owed' \in [Agents -> SUBSET Bookings]
    BY <1>3 DEF Announce, Confirm, RejectOrphan, Cancel, checkVars
  <2> QED
    BY <1>3, <2>1, <2>2, <2>3
    DEF Announce, Confirm, RejectOrphan, Cancel, checkVars, cacheVars
<1>4. ASSUME NEW b \in Bookings, Consume(b) PROVE TypeOK'
  <2>1. ASSUME NEW k \in Events, Acknowledge(b, k)
        PROVE  /\ event' \in [Bookings -> [Events -> {"none", "queued",
                                                      "done", "lost"}]]
               /\ redelivered' \in 0..MaxRedeliveries
    <3>1. event' = [event EXCEPT ![b][k] = "done"] \/ event' = event
      BY <2>1 DEF Acknowledge
    <3>2. event[b] \in [Events -> {"none", "queued", "done", "lost"}]
      OBVIOUS
    <3> QED
      BY <2>1, <3>1, <3>2, BoundsAssumption DEF Acknowledge
  <2>2. CASE HandleConfirmed(b)
    BY <2>1, <2>2, ExpiryType
    DEF HandleConfirmed, CacheBooking, checkVars, Events
  <2>3. CASE HandleCancelledOrFailed(b)
    BY <2>1, <2>3 DEF HandleCancelledOrFailed, Invalidate, checkVars, Events
  <2> QED
    BY <1>4, <2>2, <2>3 DEF Consume
<1>5. ASSUME NEW a \in Agents, BeginCheck(a) PROVE TypeOK'
  BY <1>5 DEF BeginCheck, To, At, Stages, bookingVars, cacheVars
<1>6. ASSUME NEW a \in Agents, Check(a) PROVE TypeOK'
  <2>1. CASE ReadCache(a)
    BY <1>6, <2>1 DEF ReadCache, To, At, Stages, bookingVars, cacheVars
  <2>2. CASE EvictEnded(a)
    BY <1>6, <2>2 DEF EvictEnded, Invalidate, To, At, Stages, bookingVars
  <2>3. CASE QueryDatabase(a)
    BY <1>6, <2>3 DEF QueryDatabase, To, At, Stages, bookingVars, cacheVars
  <2>4. CASE FillCache(a)
    <3>1. found[a] \in Bookings
      BY <2>4 DEF FillCache, At, FoundInWindow
    <3> QED
      BY <2>4, <3>1, ExpiryType DEF FillCache, CacheBooking, To, Stages,
                                   bookingVars
  <2>5. CASE Answer(a) \/ CheckFails(a)
    <3>1. Ends(a)
      BY <2>5 DEF Answer, CheckFails
    <3> QED
      BY <1>6, <3>1, BoundsAssumption DEF Ends, To, Stages, bookingVars, cacheVars
  <2>6. CASE EvictFails(a)
    BY <1>6, <2>6 DEF EvictFails, Invalidate, To, At, Stages, bookingVars, cacheVars
  <2> QED
    BY <1>6, <2>1, <2>2, <2>3, <2>4, <2>5, <2>6 DEF Check
<1>7. CASE UNCHANGED vars
  BY <1>7 DEF vars, bookingVars, cacheVars, checkVars
<1> QED
  BY <1>1, <1>2, <1>3, <1>4, <1>5, <1>6, <1>7 DEF Next
-----------------------------------------------------------------------------
\* The clock never runs back, so a check stays begun before now.
LEMMA BegunKept == CheckInv /\ [Next]_vars => BegunBefore'
<1> SUFFICES ASSUME CheckInv, [Next]_vars PROVE BegunBefore'
  OBVIOUS
<1> USE DEF CheckInv, TypeOK, BegunBefore
<1>1. CASE Tick
  BY <1>1, BoundsAssumption DEF Tick
<1>2. ASSUME NEW a \in Agents, BeginCheck(a) PROVE BegunBefore'
  BY <1>2, BoundsAssumption DEF BeginCheck
<1>3. ASSUME NEW a \in Agents, Answer(a) \/ CheckFails(a) PROVE BegunBefore'
  BY <1>3, BoundsAssumption DEF Answer, CheckFails, Ends
<1>4. CASE UNCHANGED <<now, began>>
  BY <1>4
<1> QED
  BY <1>1, <1>2, <1>3, <1>4
  DEF Next, Consume, Check, ManualInvalidate, Announce, Confirm, RejectOrphan,
      Cancel, HandleConfirmed, HandleCancelledOrFailed, ReadCache, EvictEnded,
      EvictFails, QueryDatabase, FillCache, checkVars, vars

\* A hit is compared with its window, and a row was in its window when it was
\* read, which was no earlier than the check.
LEMMA FoundKept == CheckInv /\ [Next]_vars => FoundInWindow'
<1> SUFFICES ASSUME CheckInv, [Next]_vars,
                    NEW a \in Agents, check'[a] \in {"fill", "granted"}
             PROVE  found'[a] \in Bookings /\ began'[a] <= WindowEnd(found'[a])
  BY DEF FoundInWindow, WindowEnd
<1> USE DEF CheckInv, TypeOK
<1>1. CASE UNCHANGED <<check[a], found[a], began[a]>>
  BY <1>1 DEF FoundInWindow
<1>2. CASE BeginCheck(a) \/ EvictEnded(a) \/ EvictFails(a) \/ Answer(a) \/ CheckFails(a)
  BY <1>2 DEF BeginCheck, EvictEnded, EvictFails, Answer, CheckFails, Ends, To
<1>3. CASE ReadCache(a)
  <2>1. /\ found'[a] = entry /\ began'[a] = began[a]
        /\ entry # None /\ ~(began[a] > WindowEnd(entry))
    BY <1>3 DEF ReadCache, To
  <2> QED
    BY <2>1, WindowType, BoundsAssumption
<1>4. CASE QueryDatabase(a)
  <2>1. found'[a] \in Bookings /\ began'[a] = began[a] /\ now <= WindowEnd(found'[a])
    BY <1>4 DEF QueryDatabase, To, Valid, Departed
  <2>2. began[a] <= now
    BY DEF BegunBefore
  <2> QED
    BY <2>1, <2>2, WindowType, BoundsAssumption
<1>5. CASE FillCache(a)
  BY <1>5 DEF FillCache, At, FoundInWindow
<1> QED
  <2>1. ASSUME NEW b \in Agents, b # a, BeginCheck(b) \/ Check(b)
        PROVE  UNCHANGED <<check[a], found[a], began[a]>>
    BY <2>1 DEF BeginCheck, Check, ReadCache, EvictEnded, EvictFails,
                QueryDatabase, FillCache, Answer, CheckFails, Ends, To
  <2>2. CASE UNCHANGED <<check, found, began>>
    BY <2>2, <1>1
  <2> QED
    BY <1>1, <1>2, <1>3, <1>4, <1>5, <2>1, <2>2
    DEF Next, Tick, Consume, Check, ManualInvalidate, Announce, Confirm,
        RejectOrphan, Cancel, HandleConfirmed, HandleCancelledOrFailed,
        checkVars, vars

\* No step makes a booking invalid that is still owed to a check.
LEMMA OwedKept == CheckInv /\ [Next]_vars => OwedAreValid'
<1> SUFFICES ASSUME CheckInv, [Next]_vars,
                    NEW a \in Agents, NEW c \in owed'[a]
             PROVE  Valid(c)'
  BY DEF OwedAreValid
<1> USE DEF CheckInv, TypeOK
<1>1. CASE Tick
  <2>1. c \in owed[a] /\ now < WindowEnd(c) /\ c \in Bookings
    BY <1>1 DEF Tick
  <2>2. status[c] = "CONFIRMED" /\ Dep[c] <= now
    BY <2>1 DEF OwedAreValid, Valid, Departed
  <2> QED
    BY <1>1, <2>1, <2>2, WindowType, BoundsAssumption
    DEF Tick, Valid, Departed, WindowEnd, bookingVars
<1>2. ASSUME NEW b \in Bookings,
             Announce(b) \/ Confirm(b) \/ RejectOrphan(b) \/ Cancel(b)
      PROVE  Valid(c)'
  <2>1. c \in owed[a] /\ c \in Bookings /\ Valid(c)
    BY <1>2 DEF Announce, Confirm, RejectOrphan, Cancel, checkVars, OwedAreValid
  <2>2. b # c
    BY <1>2, <2>1
    DEF Announce, Confirm, RejectOrphan, Cancel, SetStatus, Valid
  <2>3. status'[c] = status[c] /\ now' = now
    BY <1>2, <2>1, <2>2
    DEF Announce, Confirm, RejectOrphan, Cancel, SetStatus
  <2> QED
    BY <2>1, <2>3 DEF Valid, Departed, WindowEnd
<1>3. ASSUME NEW b \in Agents, BeginCheck(b) PROVE Valid(c)'
  <2>1. UNCHANGED <<now, status>> /\ Valid(c)
    BY <1>3 DEF BeginCheck, bookingVars, OwedAreValid
  <2> QED
    BY <2>1 DEF Valid, Departed, WindowEnd
<1>4. CASE UNCHANGED <<now, status>> /\ owed'[a] \subseteq owed[a]
  BY <1>4 DEF OwedAreValid, Valid, Departed, WindowEnd
<1> QED
  <2>1. ASSUME NEW b \in Agents, Check(b)
        PROVE  UNCHANGED <<now, status>> /\ owed'[a] \subseteq owed[a]
    BY <2>1 DEF Check, ReadCache, EvictEnded, EvictFails, QueryDatabase,
                FillCache, Answer, CheckFails, Ends, bookingVars
  <2> QED
    BY <1>1, <1>2, <1>3, <1>4, <2>1
    DEF Next, Consume, ManualInvalidate, HandleConfirmed,
        HandleCancelledOrFailed, bookingVars, checkVars, vars

\* A check is denied only by a query that found nothing valid, and then it
\* is owed nothing.
LEMMA DenialKept == CheckInv /\ [Next]_vars => NoFalseDenial'
<1> SUFFICES ASSUME CheckInv, [Next]_vars,
                    NEW a \in Agents, check'[a] = "denied"
             PROVE  owed'[a] = {}
  BY DEF NoFalseDenial
<1> USE DEF CheckInv, TypeOK
<1>1. CASE check[a] = "denied" /\ owed'[a] \subseteq owed[a]
  BY <1>1 DEF NoFalseDenial
<1>2. CASE \/ BeginCheck(a) \/ ReadCache(a) \/ EvictEnded(a) \/ EvictFails(a)
           \/ FillCache(a) \/ Answer(a) \/ CheckFails(a)
  BY <1>2 DEF BeginCheck, ReadCache, EvictEnded, EvictFails, FillCache, Answer,
              CheckFails, Ends, To
<1>3. CASE QueryDatabase(a)
  <2>1. {b \in Bookings : Valid(b)} = {} /\ owed' = owed
    BY <1>3 DEF QueryDatabase, To
  <2> QED
    BY <2>1 DEF OwedAreValid
<1> QED
  <2>1. ASSUME NEW b \in Agents, b # a, BeginCheck(b) \/ Check(b)
        PROVE  check[a] = "denied" /\ owed'[a] \subseteq owed[a]
    BY <2>1 DEF BeginCheck, Check, ReadCache, EvictEnded, EvictFails,
                QueryDatabase, FillCache, Answer, CheckFails, Ends, To
  <2>2. CASE Tick
    BY <1>1, <2>2 DEF Tick
  <2>3. ASSUME NEW b \in Bookings,
               Announce(b) \/ Confirm(b) \/ RejectOrphan(b) \/ Cancel(b)
        PROVE  check[a] = "denied" /\ owed'[a] \subseteq owed[a]
    BY <2>3 DEF Announce, Confirm, RejectOrphan, Cancel, checkVars
  <2> QED
    BY <1>1, <1>2, <1>3, <2>1, <2>2, <2>3
    DEF Next, Check, Consume, ManualInvalidate, HandleConfirmed,
        HandleCancelledOrFailed, checkVars, vars

-----------------------------------------------------------------------------
\* The inductive invariant of plate checks (service.py:48-152).
THEOREM CheckInvHolds == Spec => []CheckInv
<1>1. CheckInv /\ [Next]_vars => CheckInv'
  BY TypeKept, BegunKept, FoundKept, OwedKept, DenialKept DEF CheckInv
<1> QED
  BY CheckInit, <1>1, PTL DEF Spec

\* Every variable keeps its type.
THEOREM CacheTypeCorrect == Spec => []TypeOK
<1>1. CheckInv => TypeOK
  BY DEF CheckInv
<1> QED
  BY CheckInvHolds, <1>1, PTL

\* A plate with a valid booking during the whole check is never denied, for
\* any number of bookings, checks and events in any order (service.py:103-152).
THEOREM NeverFalselyDenied == Spec => []NoFalseDenial
<1>1. CheckInv => NoFalseDenial
  BY DEF CheckInv
<1> QED
  BY CheckInvHolds, <1>1, PTL

\* No check that begins after a journey's window is granted for it, unless Redis
\* fails at the eviction (service.py:109-121).
THEOREM NeverAfterWindow == Spec => []NoGrantAfterWindow
<1>1. CheckInv => NoGrantAfterWindow
  BY DEF CheckInv, FoundInWindow, NoGrantAfterWindow
<1> QED
  BY CheckInvHolds, <1>1, PTL
=============================================================================
