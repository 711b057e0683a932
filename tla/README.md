# Verification of the Distributed Traffic Service

TLA+ modules, TLC configurations and TLAPS proofs for the booking platform in
`src/`: drivers book a journey over road segments, each segment admits a limited
number of vehicles per hour slot, and enforcement agents ask whether a plate has
a valid booking. Two deployments ("VMs") each own some regions and reserve
segments from each other.

## 1. The system

| Component | State it keeps | Operations | Talks to |
|---|---|---|---|
| Segment capacity and lock (`capacity.py`, `distributed_lock.py`) | regional `reservations`, Redis key `lock:segment:…` | check, insert, release; SET NX PX, GET, DELETE | called by the saga and by the peer endpoints |
| Booking saga (`service.py`, `saga.py`) | `bookings`, `segment_reservations` | create, compensate, cancel | capacity, peer VM over HTTP, broker |
| Peer endpoints (`routes.py:134-189`) | regional `reservations` | reserve, release | called by the other VM's saga |
| Reconciler (`reconciler.py`) | none of its own | orphans, Case A, Case B | database, broker |
| Verification (`verification_service/`) | Redis key `active_booking:PLATE` | plate check, warm, evict | database, broker |
| Route resolution (`routing.py`) | none | shortest path and slots | database (read) |
| Auth and user replication (`auth_service/`) | `auth.users`, `auth_replica.users`, claim per e-mail in the VM's Redis | register, replicate, compensate, log in | shared broker |
| Notification, analytics | one row per channel or segment and event | consume | broker |
| API gateway (`rate_limiter.py`) | one Redis counter per client | count, refuse, forward | all services |
| Shared helpers (`shared/`) | none | publish, consume, sessions, tokens | broker, database |
| Browser session (`contexts/AuthContext.tsx`, `api/client.ts`, `Root.tsx`, `routes.tsx`) | token and user in `localStorage`, shared by tabs; user and header of each tab | sign in, register, sign out, 401, reload, redirect | gateway |
| Browser pages (`app/pages/*.tsx`) | the state of the mounted page | their handlers, effects and views | gateway |
| First browser application (`*.jsx`) | the same, in one tab | the same | gateway; no longer mounted |
| Component library (`app/components/ui/`) | the sidebar's two layouts and its cookie | toggle, resize, shortcut | no page mounts the sidebar |

**Interactions.** A booking is one saga on the VM whose API was asked. It locks
and reserves local legs in its own database transaction, and asks the peer by
HTTP for the others, which the peer commits at once. After the last leg it
commits, publishes `booking.confirmed`, and commits the status CONFIRMED. Any
exception leads to compensation and REJECTED. The reconciler of each VM runs
every 120 s by default (`reconciler.py:46`) beside the live sagas and repairs
what crashes leave. The events go
through RabbitMQ to verification, notification and analytics.

**What is hard.** Database snapshots that are older than the lock; commits that
come after the lock is released; locks that expire under their holder; peer
calls that time out after they took effect; a crash between any two commits; a
reconciler that works on rows a live saga or a driver is changing; events
handled twice or in another order; a cache filled with what was read before the
eviction; a registration published before it is committed, and two VMs that
consume one queue; a counter and its time to live set by two calls; answers that
reach a page late, out of order or not at all; tabs that share a token but not
the user they show. `PROJECT.json` lists each of these hazards at its line.

**What makes each component correct.**

- *Capacity*: a slot is not booked beyond its maximum, or beyond a stated bound
  where the code cannot keep the maximum; the lock excludes, no one deletes
  another's lock, and a lock comes free.
- *Saga and reconciler*: a CONFIRMED booking holds every leg on both VMs; a
  failed booking holds none; a booking lives the life its driver is shown; every
  booking is settled;
  a loss is visible and healed; consumers have heard of what is CONFIRMED.
- *Verification*: no false denial; no grant outside the window; a cancelled
  booking is evicted; every event is handled.
- *Replication*: an e-mail address has at most one account for each Redis; a
  claim that no account explains has a reason; accounts and replicas differ only where the
  log or the state of a call says why.
- *Notification, analytics, verification consumers*: every part of an event is
  recorded at least once, and more often only after an interruption.
- *Rate limiter*: at most the limit per key; a client is not shut out for good.
- *Browser session*: a tab acts as the user it shows; every tab settles on a
  page its user may see.
- *Pages*: what a page shows is about what is selected or was asked for last; no
  spinner stays; what a page says did not happen did not.
- *Routing*: the path is a shortest one; its slots are those of the arrival
  times.

## 2. Modules

| Module | Models | Composition |
|---|---|---|
| `SlotLedger` | what a slot promises: a counter with a limit | abstract |
| `SegmentCapacity` | one segment and slot: capacity, lock, both callers | implements `SlotLedger` |
| `BookingLife` | the life of a booking as its driver can see it | abstract |
| `BookingSaga` | saga, peer endpoints, network, cancellation, reconcilers of any VMs | takes grant or refusal of a leg as a choice, which `SegmentCapacity` details; implements `BookingLife` |
| `VerificationCache` | the key of one plate, its consumer, plate checks, the booking service's commits and events | takes the order of commits and events from `BookingSaga` |
| `UserReplication` | registration on several VMs, claims in Redis, the shared queue, replicas | |
| `AtLeastOnce` | what a consumer of events promises | abstract |
| `EventDelivery` | a durable queue, its prefetch window and the handlers of one consumer | implements `AtLeastOnce` |
| `RateLimiter` | the Redis key of one client of the gateway | |
| `Services` | one of the three above | EXTENDS them |
| `WebSession` | the session of the browser application in several tabs | |
| `BookingApi` | the booking service as pages see it | `BookingLife` with the DELETE calls that are under way |
| `BookJourney`, `MyJourneys`, `NotificationsPage`, `VerifyPage`, `DashboardPage` | one page each | the first two over `BookingApi` |
| `WebApp` | the pages of a signed-in user, one mounted at a time | EXTENDS the pages |
| `LegacyApp` | the application of the `.jsx` files | reuses the list of `MyJourneys` |
| `Sidebar` | the sidebar of the component library | |
| `Frontend` | one document with one of the three | EXTENDS `WebApp`, `LegacyApp`, `Sidebar` |
| `…Proofs` (eight) | theorems | each extends the module it is about |
| `MC…` (six) | instances for TLC | each extends a module above |

### SegmentCapacity

`pc[w]` says where request `w` is: a saga of this VM (`LocalSagas`) or a request
of the peer (`PeerRequests`). `booked` counts the committed active rows,
`row[w]` says whether `w` has an uncommitted one, `snap[w]` is the count its
snapshot shows, `lock` is the Redis key. The decisive difference between the two
callers is in `BeginSaga` (the flush at `service.py:56` opens the REPEATABLE
READ snapshot before the lock), `Visible`, `InsertRow` and `CommitSaga` (the
saga leaves the lock at `saga.py:160` and commits at `saga.py:197`) against
`CommitPeer` (`routes.py:138-175`, everything inside the lock). `ReadToken` and
`DeleteKey` are two steps because `distributed_lock.py:24-26` makes two Redis
calls. `LockMayLapse` says whether a live holder may outlast the 5 s; the key of
a dead request (`Orphan`) always expires. A lapse also stands for the eviction of
the key by Redis, which `docker-compose.yml:49` runs with `allkeys-lru`.

The branch for an unknown segment (`saga.py:138-139`, which reserves without a
maximum) has no action, because no execution takes it: the flush opens a
REPEATABLE READ snapshot, `resolve_route` reads the segments of the route from
`{schema}.road_segments` in it (`routing.py:58-67`), and `check_capacity` reads the
same rows of the same table in the same snapshot. At the peer, an unknown segment
is an exception inside the lock (`BodyFails`).

### BookingSaga

`pc`, `step` and `undo` are a saga's position, its leg and whether it will send
the peer a release; `status` and `legs` are the committed `bookings.status` and
`segment_reservations`; `res` holds the active regional reservations of both
VMs; `calls` holds peer calls and answers under way, which may be delayed beyond
the caller's patience and lost; `told` is the last event published; `rec[v]` is
the reconciliation pass of VM `v`; `age` abstracts `created_at` to the two
thresholds of the reconciler (60 s and 2 min). One action stands for one commit,
one publication or one message.

Abstractions:

- The regional schemas of a VM are one table: a release updates them all.
- Whether a leg has room is a free choice (`SegmentCapacity` decides it).
- A request whose route cannot be found, or read, ends in `NoRoute`: it becomes
  REJECTED without an event, because `resolve_route` runs before the `try` of the
  saga (`saga.py:99`, `service.py:90-95`).
- The swallowed publication after a commit (cancellation, compensation,
  reconciler) is one step with the commit, with both outcomes; the publication
  inside the saga is a step of its own because it can make the saga fail.
- A pass sees the rows of its first query that returns any in one snapshot. The
  first row handled may meet a serialization failure (`Conflict`); the rows
  after it are updated in new transactions, whatever they have become.
- A failure of the commit of CONFIRMED is the crash between the two commits.
- One pass at a time per VM (a manually started one is left for later).

### VerificationCache

The key of one plate (`entry`, `until`), the consumer (`event[b][k]`: queued,
done, lost), plate checks (`check[a]`, the clock it read in `began[a]`, what it
read in `found[a]`), and of the booking service the order of its commits and
publications. The consumer handles messages in any order, because it prefetches
20 and each handler awaits Redis once. `owed[a]` is a history variable: the
bookings that were valid ever since check `a` began. Time is counted in hours;
the 5-minute grace is rounded up to one. Redis or the database may fail at every
step of a check: in `CheckFails` the agent gets a 500 and no verdict, and in
`EvictFails` the `except` of `service.py:119` swallows the failure, so that the hit
of an ended journey stands (stage `overlooked`).

### UserReplication

`regs[r].stage` is how far call `r` of `register_user` has come, `claim[k]` the
call whose SET NX holds key `k`, `users[v]` and `replica[v]` the two tables
of a VM, `queue` the messages published and not acknowledged. The row is
published before it is committed (`service.py:60`); a commit that fails
releases the claim and publishes the compensation. Both VMs consume one queue
(`main.py:112` names it without the VM), so either may get a message, and ten
handlers at a time take effect in any order. Which VM's Redis a VM uses
is `redis`, chosen in the initial state from the constant `Deployments`: the
compose files start one on each VM and the VM templates name none
(`docker-compose.aws.yml:14,31-35`), while `REDIS_HOST` allows a shared one, as
the comment in `register_user` ("Global distributed lock on email") means it. The
claim of an address is therefore a key of a Redis (`claim[<<v, e>>]`, `KeyOf`).
`lapsed`, `barred` and `noted` are history: claims that expired or were evicted,
calls that began where the replica already had a registered user of the address,
and what the log tells of a call. `Emails` are addresses
in one spelling: the claim ignores case (`service.py:22`) and the tables do not,
so two spellings share a claim but not a row, which is not modelled.

### EventDelivery, RateLimiter, Services

`EventDelivery` is one consumer's queue: `ready`, `busy` (how many parts the
running handler has recorded), `acked`, `stored[e][i]` (records of the `i`-th
part) and the history `tries`. The three consumers differ in `Parts` and
`Poison`; the queues of different services do not touch, so one consumer at a
time suffices, and which one is chosen in the initial state. The notifiers of
`notification_service` only log; sending and storing a channel is one part.

`RateLimiter` follows INCR, EXPIRE and the error branches that let a request
pass, for one client: keys of different clients are independent. `passed` and
`leaked` are history.

`Services` composes parts that share no state as a choice between them, which
is exact for safety and for liveness under per-part fairness, and far smaller
than their product.

### WebSession

Per tab: the user shown, the default `Authorization` header, the route and a
form with its request; shared: `localStorage`. `SessionEnded` is the response
interceptor of `client.ts` (401 clears storage and reloads), `LoginAnswered`
and `ProfileAnswered` the two halves of `login`, where the token is installed
before the profile is known. Whether the auth service accepts is a choice.

### The pages

Each page's `useState` fields are one record (`form`, `list`, `inbox`, `desk`,
`board`); one action per handler, effect or answer; a view operator gives what
is on the screen where a property is about it. `BookingApi` instances
`BookingLife` (unasked, asked, refused, or the status of its row) and adds which
DELETE calls are under way; a row may be REJECTED from the start, because a saga
that fails before its commit leaves it so. In `BookJourney` a 409 with a message
of the saga or of the capacity means a refused request; every other failure, a
timeout, a lost connection, a 500, 502 or 503, says nothing of it: nginx answers
for a gateway that is gone, and the gateway for a booking service that is, while
the booking is made. `BookJourney` keeps every route check
that is under way with the flag its effect's cleanup clears. `MyJourneys`
lets reloads be answered in any order and notes (`earlier`, `passed`, `stale`)
whether the rows on the screen were read before rows shown earlier. `NotificationsPage`
keeps its loads in a sequence, to tell which was asked for last, and notes whether
that one was answered before one for another query (`overtaken`). `DashboardPage`
ranks rows by how many come before them, ties in the order of the rows, which is
what the stable sort of the page does. `WebApp` mounts and unmounts pages: a page
that is left loses its state and what it asked for goes on. Texts, colours, the
plate field and the countdown are left out.

### LegacyApp, Sidebar, Frontend

`LegacyApp` is the application `main.tsx` no longer mounts: its own context,
routes and `.jsx` pages. Its booking page has no route check, its list reloads
with the operations of `MyJourneys`. `Sidebar` follows `SidebarProvider`: own or
parent's state, `setOpen` with the cookie, the narrow layout with a state of its
own, a parent that grants or refuses what it is asked (`ParentDecides`) and one
that changes `open` by itself (`ParentMoves`, which `strayed` notes),
`useIsMobile`, and the effect that binds the shortcut some time after a render
(`shortcut` is the toggle it is bound to). The cookie is written and never read
back by this code. A document holds one of the three, so `Frontend` chooses
`bundle` in its initial state.

## 3. Runs

| Run | Bounds | Distinct states | Shows |
|---|---|---|---|
| `segment_timely` | 2 sagas, 2 peer requests, maximum 2 | 7,426 | bound, mutual exclusion, ownership of the lock, `SlotLedger` is implemented, the key comes free |
| `segment_lapse` | 2 sagas, 1 peer request, locks that lapse | 147,798 | the weaker bound |
| `segment_overbooked` | 2 sagas, maximum 1 | 166 until found | two sagas get the last place (section 4) |
| `saga_pair` | 2 bookings in opposite directions, one of them peer-local-peer, 2 faults, drivers cancel CONFIRMED bookings | 220,959 | CONFIRMED is backed and announced, compensation is complete, a booking lives the life the pages rely on, no pass touches a healthy booking with a local leg |
| `saga_live` | 1 booking, slow saga, drivers cancel at any time, 2 faults | 4,155 | requests end, orphans settle, local rows are freed, losses are visible and healed |
| `saga_partition`, `saga_remote` | 1 booking | 339, 68 until found | section 4 |
| `verify_checks` | 2 bookings with touching windows, 1 check, 1 redelivery | 189,047 | no false denial, no grant for a journey that is over unless Redis fails at the eviction, events are handled |
| `verify_early` | 1 booking | 153 until found | section 4 |
| `services` | 2 VMs with a Redis each or one for both, 1 address, 2 calls; 3 events, 1 interruption each; limit 2, 4 requests | 321,804 | one account per Redis, claims with reasons, differences noted, at least once, copies counted, the limit, the gateway reopens |
| `web_session` | 2 tabs, a driver and an agent, 2 submitted forms | 107,808 | a tab acts as the user it shows, every tab and form settles |
| `web_pages` | 2 points, 2 route checks, 2 bookings, 2 cancellations, 2 readers, 2 loads, 6 look-ups, 2 dashboard events, 3 roles in the first application | 403,074 | the pages and the sidebar are in order, no spinner stays |

**Why the bounds are enough.** Overbooking needs two sagas for one place; a
third request only repeats the pattern, and the theorems hold for any number. A
deleted foreign lock needs a holder, a successor and a third request. In the
saga, a route of three legs has every kind of neighbour (remote before local,
local before remote), two bookings ask on different VMs and cross each other's
peer calls, and two faults allow a crash after a lost release or a lost release
after a timeout. What one booking does to another is only through a pass, whose
first row and later rows differ; the theorems about `BookingSaga` cover any
number of both. Two bookings whose windows touch are the fewest for which one's
events disturb the other's cache entry. Two calls for one address are the fewest
that compete for a claim, or miss each other's on two VMs with a Redis each, and
a redelivery or a swallowed failure of one is all that can separate an account
from its replica. Three events fill the window of two that the instance gives
each consumer. Two tabs and two accounts are needed to mix a token with another
user. Each page is one user's; a second request in flight is what can overtake
the first, and six look-ups overflow the list of five.

**Fairness.** `SegmentCapacity`: a request inside the lock goes on and Redis
expires keys; no one must start, fail or release. `BookingSaga`: a running
request goes on (its HTTP calls have timeouts), the reconciler loop runs for
ever (`reconciler.py:269-279` catches every exception), calls that are not lost
arrive, time passes. `VerificationCache`: the consumer goes on
(`consumer.py:129-168` reconnects) and a check once begun goes on.
`EventDelivery`: a handler goes on, and the broker delivers a message whenever
there is room again and again (strong fairness: other messages may take the
room in between). `RateLimiter`: time passes, and a call to Redis returns or
raises. `WebSession` and `Frontend`: React runs effects, the router follows a
redirect, and a request is answered or times out after the 15 s of
`api/client.ts`. Drivers, agents, parents of a component and clicks owe
nothing. Faults are bounded: with faults for ever nothing would settle. Deadlock
is not checked where everything may be settled and every bound used up.

**Not by a run.** The type invariants of `SegmentCapacity`, `VerificationCache`,
`UserReplication`, `EventDelivery`, `RateLimiter` and the sidebar are part of the
invariants proved in section 5.

## 4. Where the code differs from what it says

- **Two sagas get the last place** (`segment_overbooked`). The capacity check
  counts in a snapshot older than the lock, and the commit follows the unlock.
  The excess is bounded by the number of concurrent sagas (proved).
- **A reservation stays on the peer for ever** (`saga_partition`) when a call
  times out after the peer committed: no release is sent and neither reconciler
  looks at it.
- **Case A cancels bookings without a local leg** (`saga_remote`): it looks only
  at `segment_reservations`, which has no rows for remote legs.
- **A booking authorises before its departure** (`verify_early`) as soon as the
  consumer has cached it.

Further consequences are read off the actions and have no run of their own.

- A committed booking is undone when the broker is down: `PublishFails` leads to
  compensation and REJECTED, where `docs/failure_model.md:17` says "Booking
  still committed to DB".
- A rejected booking becomes CONFIRMED when its saga is older than the
  reconciler's 60 s (`FixOrphan`, then `ConfirmBooking`); `LossIsVisible` and
  `LossIsHealed` show that Case A then cancels it. This is why the theorems on
  dead bookings assume `Undisturbed`, and the one on `BookingLife` `AsOffered`.
- A cancelled booking returns to the cache when its confirmation is handled
  after its cancellation, or when a check read the database before the
  cancellation and fills the cache after the eviction; `NoGrantAfterWindow`
  bounds how long the stale entry authorises.
- An event whose `plate_number` is null makes the verification handler raise and
  is put back for ever (`Poison`); `HealthyEnd` shows that the others are handled
  all the same while the window has room for them.
- The queue `auth.user_replication` is shared by the VMs on one broker, where the
  docstring at `auth_service/main.py:48` replicates "from the peer VM": a replica
  may land on the VM that holds the account, and a compensation on the VM that
  does not hold the replica. `DifferenceIsNoted` says what remains.
- Two VMs can register one address without any fault: as shipped, each has a Redis
  of its own (`docker-compose.aws.yml:14,31-35`; `.env.vm2.template` sets only the
  broker), where the comment at `auth_service/service.py:20` says "Global
  distributed lock on email — prevents duplicate registration across VMs". In
  `UserReplication` with `redis` the identity, two calls take `Claim`,
  `CheckReplica`, `Publish` and `Commit` side by side before either replica has
  arrived. `OneAccount` states what is left: one account per Redis, and no call
  past a replica that has arrived. The same happens after a lapse, and after a
  registration that was compensated although its commit had succeeded
  (`service.py:65`).
- A driver may be told of a failure although the booking was made: "A regional node
  is currently unavailable" for a 502 or 503 (`BookJourney.tsx:194`), "appears to be
  down" for a timeout, and the detail or the general message for a 500, each of
  which the code also gives after the commit (`saga.py:197`, `routes.py:71-73`,
  `api_gateway/routes.py:38`). `OutcomeIsTold` is therefore about what the page says
  was rolled back or full.
- A cancelled booking is listed as CONFIRMED when two cancellations overlap and the
  reload that was read first is answered last (`MyJourneys.tsx:22-47`); the next
  load corrects it. `CancelledIsShown` excepts exactly that.
- Another user's notifications are listed when the load begun last is answered
  before one for another user or limit (`Notifications.tsx:19-31`);
  `ShowsWhoIsAsked` excepts exactly that.
- The totals of the dashboard may be of different moments of one load.
- Once two accounts have met in one browser (`mixed`), a tab may act as the other
  one: tabs share the token and not the user they show (`AuthContext.tsx:53-81`).
- A plate check is a 500 when Redis is down (`verification_service/service.py:107`
  has no handler), where `docs/failure_model.md:16` says "Verification falls back
  to DB". And a Redis that fails at the eviction of an ended journey lets the
  cached entry grant it (`service.py:119-121`).
- While a route check is under way a driver may take a point away; the panel of
  the booking page then stays at "Checking" until the next complete selection.
- The sidebar's cookie is not what is open when a parent refuses a change or makes
  one of its own (`sidebar.tsx:73-88`); no page mounts the sidebar.
- An effect binds the sidebar's shortcut one render late, so a key pressed at
  once after a change calls the toggle of the render before.

## 5. Proofs

Eight modules, for every value of the constants under the named assumptions of
the module they extend (`RouteAssumption`, `CancelAssumption`,
`EventAssumption` and so on), which TLC evaluates in the runs. Every inductive
invariant was checked by TLC before it was proved.

### SegmentCapacityProofs

| Theorem | Statement |
|---|---|
| `InvHolds` | `Spec => []Inv` |
| `TypeCorrect` | `Spec => []TypeOK` |
| `LockExcludes` | `Spec => []MutualExclusion` |
| `OverbookingBounded` | `Spec => []BoundedOverbooking` |
| `PeersNeverOverbook` | `Spec => []NoOverbooking` if no saga is local and locks do not lapse |
| `HolderFrees` | `Spec => OnlyHolderFrees` |
| `RefinesLedger` | `Spec => ImplementsLedger` |

`BoundedOverbooking` is not inductive: a request whose check has passed may
still raise the count. `StakesBounded` therefore counts those requests too:
`booked + Cardinality(Staked) <= Capacity + Overshoot`, where `Staked` are the
requests with an uncommitted row, with a passed check, or with a snapshot that
still shows room. A step then either moves one from `Staked` to `booked`
(commits, lemma `SpentStake`), or removes one (`FewerStakes`), or adds one while
there is room (`NewStake`). Room exists when a saga begins, because every
worker that is staked at a time when the slot has room is one of the overshoot;
for a peer request under the lock, because with timely locks it is the only peer
request with a stake (`OnePeerStake`, from `MutualExclusion` and `RowsInPlace`).

### BookingSagaProofs

| Theorem | Statement |
|---|---|
| `SagaInvHolds` | `Spec => []SagaInv` |
| `SagaTypeCorrect` | `Spec => []TypeOK` |
| `LossIsVisibleHolds` | `Spec => []LossIsVisible` |
| `ConfirmedBackedHolds` | `Spec => []ConfirmedBacked` |
| `ConfirmedWasToldHolds` | `Spec => []ConfirmedWasTold` |
| `DeadStaysDeadHolds` | `Undisturbed /\ Spec => DeadStaysDead` |
| `RequestsDescendHolds` | `Spec => RequestsDescend` |
| `ServesPagesHolds` | `AsOffered /\ Spec => ServesPages` |
| `OnlyDriversCancelHolds` | `Spec => OnlyDriversCancel` |
| `CompensationHolds` | `Spec => [](Undisturbed => CompensationComplete)` |

Four invariants, one on top of the other, each stated booking by booking so
that a step of one booking needs an argument for that booking and a frame lemma
(`SameBooking`, `CalmSameBooking`, `CleanSameBooking`) for the others.
`SagaInv` holds whatever the timing: a saga has at most one call under way
(`CallInv`), so an answer can only be about the leg it waits for, and nothing is
under way for a booking that is CONFIRMED or about to be, so no late release
reaches it; the legs it has passed on the peer are reserved, and those at home as
long as `segment_reservations` say so (`RowInv`); a pass only ever holds bookings
without `segment_reservations`, or with a request that has ended and is not
CONFIRMED (`PassInv`). `LossIsVisible` follows. `CalmInv` adds what `Undisturbed`
buys: a running saga is too young for a pass, so what a pass found as an orphan
is the booking of a dead request, and no pass can take what a live one will
confirm. `CleanInv` adds, while no fault has happened, what a failing saga still
has to give back: its remote rows are gone or their release is under way.

`ServesPages` says that the saga refines `BookingLife`, with `Fate(b)` for what
a driver can see of booking `b`. Its condition `AsOffered` is that requests end
within the reconciler's 60 s and that drivers cancel what the pages offer to,
CONFIRMED bookings. `PlainInv` adds to `CalmInv` what every step of every actor
needs: a saga past its commit has a row in progress, and a pass has found only
bookings of its own VM, which are as it found them (in progress the orphans,
CONFIRMED or since cancelled by the driver the dangling ones). Each action then
moves the fate of at most one booking (`OneMoves`), by a step of `BookingLife`
(`PlainStep`). `DeadStaysDead`, which no run checks since `ServesPages` took its
place, allows for drivers who cancel REJECTED bookings too.

`RequestsDescend` is the half of `RequestsEnd` that needs no fairness: `StepsLeft`
bounds what a request still has before it, by two steps for each leg to come and
seven more; each of its steps lowers it, no other step raises it, and it is zero
when the request is over. So nothing but a request that never goes on can keep
one from its end, however long the route.

### VerificationCacheProofs

| Theorem | Statement |
|---|---|
| `CheckInvHolds` | `Spec => []CheckInv` |
| `CacheTypeCorrect` | `Spec => []TypeOK` |
| `NeverFalselyDenied` | `Spec => []NoFalseDenial` |
| `NeverAfterWindow` | `Spec => []NoGrantAfterWindow` |

The invariant adds to the two properties why they hold: what a check owes is
still valid (`OwedAreValid`, so a query that finds nothing owes nothing), no
check began in the future (`BegunBefore`), and the booking a check is about to
fill in or to grant was inside its window when the check began
(`FoundInWindow`), be it from the cache, where the comparison is explicit, or
from the database, where the query is no earlier than the beginning.

### UserReplicationProofs

`UsersInvHolds`, `OneAccountHolds`, `ClaimHasReasonHolds`,
`DifferenceIsNotedHolds`. One half of the invariant ties claims to calls: a call
between claim and end holds its claim unless it lapsed, and a claim belongs to a
call that has not given it up; two calls registered through one Redis would hold
one claim. `BarInv` is about the replica: the row of a registered user stays, so
a call that began where it was is barred at `CheckReplica` and never gets
further. The other half follows the two messages of a call: nothing is anywhere
before it publishes, a registration is in the queue or in one replica or blocked
by another call for the address, a compensation is published last.

### ServicesProofs

| Theorem | Statement |
|---|---|
| `DeliveryInvHolds`, `CopiesAreCountedHolds`, `OnePlaceHolds` | `DeliverySpec` keeps its invariant, `CopiesAreCounted`, `OnePlace` |
| `DeliveryImplementsLog` | `DeliverySpec => KeepsPromise`, the refinement of `AtLeastOnce` |
| `LimiterInvHolds`, `LimitHolds`, `LifetimeIsSet` | `LimiterSpec` keeps its invariant, `WindowBound`, `TimeToLiveIsSet` |
| `ServicesHold` | `ServicesSpec` keeps all six properties of `services` |

The bound on copies is not inductive by itself; `Counted` splits it by whether
the running handler has reached the part. What a key let pass was counted
(`PassedIsCounted`), and the first request of a key lives or left the mark.
`ServicesHold` lifts these and the theorems on replication to the module the run
checks: a step of one part stutters for the others (`EachIsItself`).

### WebSessionProofs

| Theorem | Statement |
|---|---|
| `SessionInvHolds`, `SessionTypeCorrect` | `Spec => []SessionInv`, `Spec => []TypeOK` |
| `ActsAsShownHolds` | `Spec => []ActsAsShown` |
| `RedirectsDescendHolds` | `Spec => RedirectsDescend`: each redirect of a tab leaves fewer to go |
| `TwoRedirectsSettle` | for every role, two redirects lead from any route to one that is rendered |

`ActsAsShown` excepts behaviours in which two accounts met, or a session ended
under a sign-in (the history `mixed`), so the invariant is `TypeOK /\ (mixed \/
OneSession)`. While nothing is mixed, every
tab shows the stored token's account or nobody, and so will a sign-in that only
waits for its profile (`TabsFollowToken`); the stored user is the token's and
some tab shows it or is loading (`StoredIsShown`, without which a second account
could sign in unnoticed); and a tab's default header is that of the account it
shows (`HeadersMatch`), which its requests carry once the token is gone. `Hops`
counts the redirects that are left, at most two.

### BookJourneyProofs

`FormInvHolds`, `PreviewHolds`, `SelectionHolds`, `OutcomeHolds`. A check that
may still be applied is the one of the selection on the screen, because every
change of the selection disarms the earlier ones (`LiveIsCurrent`). `OutcomeInv`
is about the requests: a form waits for at most the one it last sent, and as
only what was confirmed is ever asked to be cancelled (`CallsSound`), what was
refused stays refused, which is what the messages "rolled back" and "full" stand
for (`RefusalsSound`).

### FrontendProofs

| Theorem | Statement |
|---|---|
| `FrontendInvHolds` | `FrontendSpec => []FrontendInv` |
| `FrontendTypeCorrect` | `FrontendSpec => []FrontendTypeOK` |
| `FrontendPreviewHolds`, `FrontendOutcomeHolds` | the booking page: `PreviewIsCurrent`, `OutcomeIsTold` |
| `CancelledIsShownHolds` | the list of bookings: `CancelledIsShown` |
| `ShowsWhoIsAskedHolds` | notifications: `ShowsWhoIsAsked` |
| `VerdictIsLatestHolds` | the plate check: `VerdictIsLatest` |
| `BoardIsTrueHolds` | the dashboard: `BoardIsTrue` |
| `LegacyIsSoundHolds` | the first application: `LegacyIsSound` |
| `SpinnersAreTrueHolds` | what a page of either application says it waits for is under way |
| `SidebarHolds`, `FrontendSidebarHolds` | the sidebar: `SidebarIsSound`, by itself and in the frontend |
| `LifeIsKept` | `FrontendSpec => Life!Spec` |
| `TopSegmentsAreTop` | the dashboard's table is in order and leaves out no segment busier than one it has |

`FrontendInv` is the conjunction of one invariant per page, and each step of
`FrontendNext` is an argument about one page and frame lemmas (`OthersKept`,
`FormKept`) for the others; `Onward` says what a page may ask of the service, so
that the pages left alone need only know that bookings move on.

- `ListInv`: what the list has read or was told is so, or has gone on
  (`RowsSound`). Of two answers under way the one that was read later has every
  cancellation the other has (`AnswersOrdered`), and a cancellation that was
  answered still waits for its own load, or the page has shown it and so does every
  answer not read before one that was shown (`DoneShown`). So overlapping
  cancellations do no harm unless an older answer is shown last.
- `InboxInv`: until the load begun last overtakes one for another query, the last
  load asks for what is selected (`LastLoadAsks`), and so did the items that are
  listed (`ItemsAsked`), in whatever order the others were answered.
- `DeskInv`, `BoardInv`: a verdict is that of the plate last looked up, the recent
  ones are the last five answered; the board has all figures of one load, or
  waits for one of them, or says that it failed.
- `LegacyInv`: result, notice and draft fit (`DraftSound`). `SidebarInv`: the
  cookie is the provider's own state or what the parent was last asked for, which
  is what is open unless the parent has gone its own way (`CookieFollows`), and the
  layout is the one last reported (`LayoutReported`).

`SpinnersAreTrue` is the half of `SpinnersStop` that needs no fairness, and covers
the pages that property leaves out. It adds `AwaitsInv` to `FrontendInv`: a list
that is open has nothing to show only while the load on mount runs, since until
then nothing on the page can be pressed, and notifications load only while a load
is under way. The one spinner it excepts is "Checking" without two points
(section 4).

`LifeIsKept` and `ServesPagesHolds` meet in `BookingLife`: what the pages assume
of the service, whatever they do, is what the saga promises, as long as they ask
to cancel what they offer to (`CallsSound`).

### What is only model-checked

The liveness properties (`LockComesFree`, `RequestsEnd`, `OrphansSettle`,
`LocalRowsFreed`, `LossIsHealed`, `EventsHandled`, `SessionSettles`,
`SpinnersStop`, `HealthyEnd`, `Reopens`): liveness under fairness and ENABLED are
beyond TLAPS here, as are inductions over data. Every invariant, every
action property and all three refinements that a passing run checks are theorems.

## 6. Not modelled

- *Route resolution*: Dijkstra over floating-point lengths and the slots of
  arrival times keep no state; `BookingSaga` takes the result as `Route`. Its
  correctness for every graph is an induction over data.
- *Reconciliation started by hand* next to the loop: it runs the same pass; two
  passes at once on one VM are not modelled.
- *Password hashing, tokens, configuration, health checks*: stateless.
- *Read-only routes and reports* (booking lists, analytics reports, cache
  statistics), the gateway's proxy, connection pools.
- *The component library* beyond the sidebar: wrappers around third-party
  components without state of their own; the carousel's state is the library's.
- *Presentation*: texts, colours, charts, the plate field.
- *Models, schema, seed data, scripts, deployment*: declarations and fixtures.

The booking form sends no idempotency key, so a driver who retries after a
timeout gets a second booking; in `BookingSaga` that is simply a further booking,
and `OutcomeIsTold` says what the page may tell of the first.
