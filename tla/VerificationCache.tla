------------------------- MODULE VerificationCache --------------------------
(***************************************************************************)
(* The verification service for ONE plate: the Redis key of the plate      *)
(* (cache.py), the consumer that warms and evicts it from booking events   *)
(* (consumer.py), the plate checks of enforcement agents (service.py), and *)
(* the booking service as far as it commits and publishes.                 *)
(*                                                                         *)
(* The consumer handles up to 20 messages at a time, each with one Redis   *)
(* call, so messages take effect in any order; a message whose ack is lost *)
(* is delivered again.                                                     *)
(***************************************************************************)
EXTENDS Integers

CONSTANTS
    Bookings,       \* bookings whose rows and events carry the plate
    Agents,         \* plate checks that may run at the same time
    Dep,            \* Dep[b]: departure time of b
    Window,         \* JOURNEY_WINDOW_HOURS
    Grace,          \* the 5-minute buffer on a key's time to live
    DefaultTTL,     \* DEFAULT_TTL_SECONDS
    MaxTime,        \* bound on the clock
    MaxRedeliveries,\* bound on messages delivered again
    None            \* no booking

Events == {"confirmed", "cancelled", "failed"}

ASSUME TimesAssumption ==
    /\ Dep \in [Bookings -> Nat]
    /\ Window \in Nat \ {0}
    /\ Grace \in Nat
    /\ DefaultTTL \in Nat
ASSUME BoundsAssumption == MaxTime \in Nat /\ MaxRedeliveries \in Nat
ASSUME NoneAssumption == None \notin Bookings

VARIABLES
    now,            \* the clock all services read
    status,         \* what public.bookings says of each booking
    event,          \* event[b][k]: "none", "queued", "done" or "lost"
    entry,          \* the booking in the plate's key, or None
    until,          \* when that key expires
    check,          \* check[a]: how far an agent's request has come
    began,          \* began[a]: when it read the clock
    found,          \* found[a]: the booking it read, or None
    owed,           \* owed[a]: the bookings valid ever since it began
    redelivered     \* messages delivered again so far

bookingVars == <<status, event>>
cacheVars == <<entry, until>>
checkVars == <<check, began, found, owed>>
vars == <<now, bookingVars, cacheVars, checkVars, redelivered>>

Statuses == {"none", "announced", "CONFIRMED", "CANCELLED", "REJECTED"}
Stages == {"idle", "read", "evict", "query", "fill",
           "granted", "overlooked", "denied"}

TypeOK ==
    /\ now \in 0..MaxTime
    /\ status \in [Bookings -> Statuses]
    /\ event \in [Bookings -> [Events -> {"none", "queued", "done", "lost"}]]
    /\ entry \in Bookings \cup {None}
    /\ until \in Nat
    /\ check \in [Agents -> Stages]
    /\ began \in [Agents -> 0..MaxTime]
    /\ found \in [Agents -> Bookings \cup {None}]
    /\ owed \in [Agents -> SUBSET Bookings]
    /\ redelivered \in 0..MaxRedeliveries

WindowEnd(b) == Dep[b] + Window

Init ==
    /\ now = 0
    /\ status = [b \in Bookings |-> "none"]
    /\ event = [b \in Bookings |-> [k \in Events |-> "none"]]
    /\ entry = None
    /\ until = 0
    /\ check = [a \in Agents |-> "idle"]
    /\ began = [a \in Agents |-> 0]
    /\ found = [a \in Agents |-> None]
    /\ owed = [a \in Agents |-> {}]
    /\ redelivered = 0

\* A departed booking is valid for the length of the window.
Departed(b) == Dep[b] <= now /\ now <= WindowEnd(b)
Valid(b) == status[b] = "CONFIRMED" /\ Departed(b)

\* Time passes; Redis drops the key when its time to live is over.
Tick ==
    /\ now < MaxTime
    /\ now' = now + 1
    /\ IF entry # None /\ until <= now + 1
       THEN entry' = None /\ until' = 0
       ELSE UNCHANGED cacheVars
    /\ owed' = [a \in Agents |-> {b \in owed[a] : now < WindowEnd(b)}]
    /\ UNCHANGED <<bookingVars, check, began, found, redelivered>>

-----------------------------------------------------------------------------
(* The booking service *)

SetStatus(b, from, to) ==
    status[b] = from /\ status' = [status EXCEPT ![b] = to]

Publish(b, k) == event' = [event EXCEPT ![b][k] = "queued"]

\* publish_event, whose failure is only logged.
TryPublish(b, k) ==
    \E outcome \in {"queued", "lost"} :
        event' = [event EXCEPT ![b][k] = outcome]

\* booking.confirmed goes out before the booking is CONFIRMED.
Announce(b) ==
    /\ SetStatus(b, "none", "announced")
    /\ Publish(b, "confirmed")
    /\ UNCHANGED <<now, cacheVars, checkVars, redelivered>>

Confirm(b) ==
    /\ SetStatus(b, "announced", "CONFIRMED")
    /\ UNCHANGED <<now, event, cacheVars, checkVars, redelivered>>

\* The saga died in between: the reconciler rejects, then publishes.
RejectOrphan(b) ==
    /\ SetStatus(b, "announced", "REJECTED")
    /\ TryPublish(b, "failed")
    /\ UNCHANGED <<now, cacheVars, checkVars, redelivered>>

\* cancel_booking: commit, then publish.
Cancel(b) ==
    /\ SetStatus(b, "CONFIRMED", "CANCELLED")
    /\ TryPublish(b, "cancelled")
    /\ owed' = [a \in Agents |-> owed[a] \ {b}]
    /\ UNCHANGED <<now, cacheVars, check, began, found, redelivered>>

-----------------------------------------------------------------------------
(* The cache and the consumer *)

\* SETEX with the rest of the journey window and a grace period, or with the
\* default when the window is over.
Expiry(b) == IF WindowEnd(b) > now THEN WindowEnd(b) + Grace
                                   ELSE now + DefaultTTL

CacheBooking(b) ==
    /\ entry' = b
    /\ until' = Expiry(b)

\* DELETE by plate: whichever booking the key names.
Invalidate ==
    /\ entry' = None
    /\ until' = 0

\* The consumer acknowledges, or loses the connection after the handler ran
\* and gets the message again.
Acknowledge(b, k) ==
    \/ /\ event' = [event EXCEPT ![b][k] = "done"]
       /\ UNCHANGED redelivered
    \/ /\ redelivered < MaxRedeliveries
       /\ redelivered' = redelivered + 1
       /\ UNCHANGED event

\* Mutant of HandleConfirmed: the message is never acknowledged.
HandleConfirmedNeverAcks(b) ==
    /\ event[b]["confirmed"] = "queued"
    /\ CacheBooking(b)
    /\ UNCHANGED <<now, bookingVars, checkVars, redelivered>>

HandleConfirmed(b) ==
    /\ event[b]["confirmed"] = "queued"
    /\ CacheBooking(b)
    /\ Acknowledge(b, "confirmed")
    /\ UNCHANGED <<now, status, checkVars>>

HandleCancelledOrFailed(b) ==
    \E k \in {"cancelled", "failed"} :
        /\ event[b][k] = "queued"
        /\ Invalidate
        /\ Acknowledge(b, k)
        /\ UNCHANGED <<now, status, checkVars>>

\* DELETE /verify/_cache/{plate} by an administrator.
ManualInvalidate ==
    /\ entry # None
    /\ Invalidate
    /\ UNCHANGED <<now, bookingVars, checkVars, redelivered>>

-----------------------------------------------------------------------------
(* A plate check *)

At(a, stage) == check[a] = stage
To(a, stage) == check' = [check EXCEPT ![a] = stage]

BeginCheck(a) ==
    /\ At(a, "idle")
    /\ To(a, "read")
    /\ began' = [began EXCEPT ![a] = now]
    /\ owed' = [owed EXCEPT ![a] = {b \in Bookings : Valid(b)}]
    /\ UNCHANGED <<now, bookingVars, cacheVars, found, redelivered>>

\* Mutant of ReadCache: a hit past its window is a denial.
ReadCacheNoFallback(a) ==
    /\ At(a, "read")
    /\ found' = [found EXCEPT ![a] = entry]
    /\ To(a, IF entry = None THEN "query"
             ELSE IF began[a] > WindowEnd(entry) THEN "denied" ELSE "granted")
    /\ UNCHANGED <<now, bookingVars, cacheVars, began, owed, redelivered>>

\* Mutant of ReadCache: a key that still lives is good enough.
ReadCacheAnyHit(a) ==
    /\ At(a, "read")
    /\ found' = [found EXCEPT ![a] = entry]
    /\ To(a, IF entry = None THEN "query" ELSE "granted")
    /\ UNCHANGED <<now, bookingVars, cacheVars, began, owed, redelivered>>

\* GET key: a hit whose window has passed is evicted, any other hit grants.
ReadCache(a) ==
    /\ At(a, "read")
    /\ found' = [found EXCEPT ![a] = entry]
    /\ To(a, IF entry = None THEN "query"
             ELSE IF began[a] > WindowEnd(entry) THEN "evict" ELSE "granted")
    /\ UNCHANGED <<now, bookingVars, cacheVars, began, owed, redelivered>>

EvictEnded(a) ==
    /\ At(a, "evict")
    /\ Invalidate
    /\ To(a, "query")
    /\ UNCHANGED <<now, bookingVars, began, found, owed, redelivered>>

\* Redis fails at the eviction: the handler that should only catch a date that
\* cannot be read swallows it, and the hit stands although its journey ended.
EvictFails(a) ==
    /\ At(a, "evict")
    /\ To(a, "overlooked")
    /\ Invalidate \/ UNCHANGED cacheVars
    /\ UNCHANGED <<now, bookingVars, began, found, owed, redelivered>>

\* The SQL of _lookup_db, evaluated when it runs: the latest valid booking.
QueryDatabase(a) ==
    /\ At(a, "query")
    /\ LET valid == {b \in Bookings : Valid(b)}
       IN  \/ /\ valid = {}
              /\ To(a, "denied")
              /\ found' = [found EXCEPT ![a] = None]
           \/ \E b \in valid :
                /\ \A c \in valid : Dep[c] <= Dep[b]
                /\ To(a, "fill")
                /\ found' = [found EXCEPT ![a] = b]
    /\ UNCHANGED <<now, bookingVars, cacheVars, began, owed, redelivered>>

\* The cache is warmed with what the query returned, however old that is.
FillCache(a) ==
    /\ At(a, "fill")
    /\ CacheBooking(found[a])
    /\ To(a, "granted")
    /\ UNCHANGED <<now, bookingVars, began, found, owed, redelivered>>

Ends(a) ==
    /\ To(a, "idle")
    /\ began' = [began EXCEPT ![a] = 0]
    /\ found' = [found EXCEPT ![a] = None]
    /\ owed' = [owed EXCEPT ![a] = {}]
    /\ UNCHANGED <<now, bookingVars, cacheVars, redelivered>>

Answer(a) == check[a] \in {"granted", "overlooked", "denied"} /\ Ends(a)

\* Nothing catches a failure of Redis at GET or SETEX, or of the database: the
\* agent gets a 500 and no verdict, also where the other of them would know it.
CheckFails(a) == check[a] \in {"read", "query", "fill"} /\ Ends(a)

-----------------------------------------------------------------------------

Consume(b) ==
    HandleConfirmed(b) \/ HandleCancelledOrFailed(b)

Check(a) ==
    \/ ReadCache(a) \/ EvictEnded(a) \/ EvictFails(a) \/ QueryDatabase(a)
    \/ FillCache(a) \/ Answer(a) \/ CheckFails(a)

Next ==
    \/ Tick
    \/ ManualInvalidate
    \/ \E b \in Bookings :
          Announce(b) \/ Confirm(b) \/ RejectOrphan(b) \/ Cancel(b) \/ Consume(b)
    \/ \E a \in Agents : BeginCheck(a) \/ Check(a)

Spec == Init /\ [][Next]_vars

\* The consumer keeps consuming and a check once begun goes on; nobody has
\* to book, cancel or check.
Fairness ==
    /\ \A b \in Bookings : WF_vars(Consume(b))
    /\ \A a \in Agents : WF_vars(Check(a))

FairSpec == Spec /\ Fairness
-----------------------------------------------------------------------------

\* A plate with a CONFIRMED booking inside its window during the whole check
\* is authorized, whatever other bookings' events, expiry and evictions do
\* to the key meanwhile (service.py:103-152).
NoFalseDenial == \A a \in Agents : check[a] = "denied" => owed[a] = {}

\* No check that begins after the end of a journey is granted for it, however
\* late the key was written and whatever time to live it got, unless Redis fails
\* at the eviction (cache.py:36-48, service.py:109-121).
NoGrantAfterWindow ==
    \A a \in Agents :
        check[a] = "granted" => began[a] <= WindowEnd(found[a])

\* Every event is handled and leaves the queue, redelivered or not
\* (consumer.py:103-119).
EventsHandled ==
    \A b \in Bookings : \A k \in Events :
        event[b][k] = "queued" ~> event[b][k] = "done"

\* service.py:25 "A journey is valid from departure_time up to departure_time
\* + JOURNEY_WINDOW_HOURS": nobody is granted before departure.
NoGrantBeforeDeparture ==
    \A a \in Agents : check[a] = "granted" => Dep[found[a]] <= now
=============================================================================
