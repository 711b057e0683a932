----------------------------- MODULE RateLimiter -----------------------------
(***************************************************************************)
(* The gateway's limiter (rate_limiter.py) and the Redis key of one        *)
(* client: requests count it up concurrently, the first one gives it a     *)
(* time to live, and whatever goes wrong lets the request pass.            *)
(***************************************************************************)
EXTENDS Integers

CONSTANTS
    RATE_LIMIT,
    WINDOW,         \* the time to live, in ticks
    MaxRequests     \* bound: requests of the client

ASSUME LimiterAssumption ==
    /\ RATE_LIMIT \in Nat \ {0} /\ WINDOW \in Nat \ {0} /\ MaxRequests \in Nat

VARIABLES
    count,      \* the value of the key; 0: there is no key
    ttl,        \* its time to live, or Never
    requests,   \* where each request is
    passed,     \* history: requests this key has let pass
    leaked      \* history: an EXPIRE was lost while the key had no ttl

limiterVars == <<count, ttl, requests, passed, leaked>>

Never == 0
Requests == 1..MaxRequests

LimiterTypeOK ==
    /\ count \in Nat /\ ttl \in 0..WINDOW
    /\ requests \in [Requests -> {"new", "first", "passed", "429", "crashed"}]
    /\ passed \in Nat /\ leaked \in BOOLEAN

LimiterInit ==
    /\ count = 0 /\ ttl = Never
    /\ requests = [q \in Requests |-> "new"]
    /\ passed = 0 /\ leaked = FALSE

Goes(q, stage) == requests' = [requests EXCEPT ![q] = stage]

\* Mutant of IsFirst: the value before INCR is looked at.
IsFirstAfter(n) == n = 2

IsFirst(n) == n = 1

\* Mutant of OverLimit: one request more.
OverLimitLate(n) == n > RATE_LIMIT + 1

OverLimit(n) == n > RATE_LIMIT

Incr(q) ==
    LET current == count + 1 IN
    /\ requests[q] = "new"
    /\ count' = current
    /\ \/ IsFirst(current) /\ Goes(q, "first") /\ passed' = passed + 1
       \/ /\ ~IsFirst(current) /\ OverLimit(current)
          /\ Goes(q, "429") /\ UNCHANGED passed
       \/ /\ ~IsFirst(current) /\ ~OverLimit(current)
          /\ Goes(q, "passed") /\ passed' = passed + 1
    /\ UNCHANGED <<ttl, leaked>>

Lifetime == WINDOW

\* EXPIRE does nothing when the key is gone.
Expire(q) ==
    /\ requests[q] = "first" /\ Goes(q, "passed")
    /\ ttl' = IF count = 0 THEN Never ELSE Lifetime
    /\ UNCHANGED <<count, passed, leaked>>

\* EXPIRE raises and the request passes, or the gateway stops.
ExpireFails(q) ==
    /\ requests[q] = "first" /\ \E stage \in {"passed", "crashed"} : Goes(q, stage)
    /\ leaked' = (leaked \/ (count # 0 /\ ttl = Never))
    /\ UNCHANGED <<count, ttl, passed>>

\* Redis is not reached, or its answer to INCR is not.
IncrFails(q) ==
    /\ requests[q] = "new" /\ Goes(q, "passed")
    /\ \/ UNCHANGED <<count, leaked>>
       \/ count' = count + 1 /\ leaked' = (leaked \/ count = 0)
    /\ UNCHANGED <<ttl, passed>>

KeyGone == count' = 0 /\ ttl' = Never /\ passed' = 0 /\ leaked' = FALSE

Tick ==
    /\ ttl # Never
    /\ \/ ttl > 1 /\ ttl' = ttl - 1 /\ UNCHANGED <<count, passed, leaked>>
       \/ ttl = 1 /\ KeyGone
    /\ UNCHANGED requests

\* allkeys-lru
Evict == count # 0 /\ KeyGone /\ UNCHANGED requests

Gateway(q) == Incr(q) \/ Expire(q) \/ ExpireFails(q) \/ IncrFails(q)

LimiterNext == (\E q \in Requests : Gateway(q)) \/ Tick \/ Evict

LimiterSpec == LimiterInit /\ [][LimiterNext]_limiterVars

LimiterFairness ==
    /\ WF_limiterVars(Tick)
    /\ \A q \in Requests : WF_limiterVars(Expire(q) \/ ExpireFails(q))

-----------------------------------------------------------------------------
(* Properties *)

\* A key never lets more than RATE_LIMIT counted requests pass, however the
\* requests interleave and however late the first one's EXPIRE comes.
WindowBound == passed <= RATE_LIMIT

\* A key lives for ever only while the request that began it, or one before
\* it, is about to call EXPIRE, or when that call was lost.
TimeToLiveIsSet ==
    count # 0 /\ ttl = Never =>
        leaked \/ \E q \in Requests : requests[q] = "first"

\* A client that was refused is let in again, unless EXPIRE was lost.
Reopens == count > RATE_LIMIT ~> (count = 0 \/ leaked)
=============================================================================
