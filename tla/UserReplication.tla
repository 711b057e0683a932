--------------------------- MODULE UserReplication ---------------------------
(***************************************************************************)
(* Registration and the replication of accounts between the VMs            *)
(* (auth_service).  A VM claims an e-mail address in the Redis that its    *)
(* REDIS_HOST names, its own as shipped (docker-compose.aws.yml) or one    *)
(* for several VMs; it publishes an account before it commits it.  All VMs *)
(* consume one queue of one broker, "auth.user_replication": any may get a *)
(* message, and what several handlers do at a time takes effect in any     *)
(* order.                                                                  *)
(***************************************************************************)
EXTENDS Integers, FiniteSets

CONSTANTS
    VMs,        \* the virtual machines that run the service
    Emails,
    MaxRegs,    \* bound: calls of register_user
    Deployments \* the VM on which the Redis of each VM runs, in each deployment

ASSUME RegAssumption ==
    /\ MaxRegs \in Nat /\ VMs # {} /\ Emails # {}
    /\ Deployments \subseteq [VMs -> VMs]

VARIABLES
    redis,      \* the deployment: the VM on which the Redis of a VM runs
    claim,      \* key email:registered:<e> of a Redis: the call that set it, or 0
    regs,       \* the calls of register_user; the number stands for user.id
    users,      \* auth.users of each VM
    replica,    \* auth_replica.users of each VM
    queue,      \* published, not yet acknowledged
    lapsed,     \* history: claims that expired or were evicted
    barred,     \* history: calls begun where the replica had a registered user
    noted       \* history: what the log tells of the replication of a call

userVars == <<redis, claim, regs, users, replica, queue, lapsed, barred, noted>>

Regs == 1..MaxRegs
Keys == VMs \X Emails
Active == {"claimed", "checked", "published", "undoing", "released"}
Stages == Active \cup
    {"unused", "rejected", "registered", "stuck", "failed", "crashed"}
Messages == [kind : {"user.registered", "user.registration_failed"}, reg : Regs]

UsersTypeOK ==
    /\ redis \in [VMs -> VMs]
    /\ claim \in [Keys -> {0} \cup Regs]
    /\ regs \in [Regs -> [vm : VMs, email : Emails, stage : Stages]]
    /\ users \in [VMs -> SUBSET Regs] /\ replica \in [VMs -> SUBSET Regs]
    /\ queue \subseteq Messages
    /\ lapsed \subseteq Keys /\ barred \subseteq Regs /\ noted \subseteq Regs

UsersInit ==
    /\ redis \in Deployments
    /\ claim = [k \in Keys |-> 0]
    /\ regs = [r \in Regs |-> [vm |-> CHOOSE v \in VMs : TRUE,
                               email |-> CHOOSE e \in Emails : TRUE,
                               stage |-> "unused"]]
    /\ users = [v \in VMs |-> {}] /\ replica = [v \in VMs |-> {}]
    /\ queue = {} /\ lapsed = {} /\ barred = {} /\ noted = {}

Stage(r) == regs[r].stage
Becomes(r, stage) == regs' = [regs EXCEPT ![r].stage = stage]
Has(rows, e) == \E r \in rows : regs[r].email = e
KeyOf(r) == <<redis[regs[r].vm], regs[r].email>>
Registered(r) == [kind |-> "user.registered", reg |-> r]
Failed(r) == [kind |-> "user.registration_failed", reg |-> r]

-----------------------------------------------------------------------------
(* register_user *)

\* Mutant of MayClaim: SET without NX.
MayClaimAlways(v, e) == TRUE

MayClaim(v, e) == claim[<<redis[v], e>>] = 0

\* The replica of the VM has the row of a user who is registered.
Known(v, e) ==
    \E q \in replica[v] : regs[q].email = e /\ Stage(q) = "registered"

Claim(r, v, e) ==
    /\ Stage(r) = "unused" /\ \A q \in Regs : q < r => Stage(q) # "unused"
    /\ \/ /\ MayClaim(v, e)
          /\ claim' = [claim EXCEPT ![<<redis[v], e>>] = r]
          /\ regs' = [regs EXCEPT ![r] = [vm |-> v, email |-> e, stage |-> "claimed"]]
       \/ /\ ~MayClaim(v, e)
          /\ regs' = [regs EXCEPT ![r] = [vm |-> v, email |-> e, stage |-> "rejected"]]
          /\ UNCHANGED claim
    /\ barred' = IF Known(v, e) THEN barred \cup {r} ELSE barred
    /\ UNCHANGED <<redis, users, replica, queue, lapsed, noted>>

\* Mutant of Release: the claim is kept when the commit fails.
ReleaseNothing(r) == claim

\* redis.delete(email_key), whoever holds the claim by now.
Release(r) == [claim EXCEPT ![KeyOf(r)] = 0]

CheckReplica(r) ==
    /\ Stage(r) = "claimed"
    /\ \/ /\ Has(replica[regs[r].vm], regs[r].email)
          /\ Becomes(r, "rejected") /\ claim' = Release(r)
       \/ /\ ~Has(replica[regs[r].vm], regs[r].email)
          /\ Becomes(r, "checked") /\ UNCHANGED claim
    /\ UNCHANGED <<redis, users, replica, queue, lapsed, barred, noted>>

\* Publication raises, with or without the broker having the message, outside
\* the try: the claim stays.
Publish(r) ==
    /\ Stage(r) = "checked"
    /\ \/ Becomes(r, "published") /\ queue' = queue \cup {Registered(r)}
       \/ /\ Becomes(r, "stuck")
          /\ queue' \in {queue, queue \cup {Registered(r)}}
    /\ UNCHANGED <<redis, claim, users, replica, lapsed, barred, noted>>

\* The commit succeeds, and so may what follows it in the try: the refresh.
Commit(r) ==
    LET v == regs[r].vm IN
    /\ Stage(r) = "published"
    /\ ~Has(users[v], regs[r].email)
    /\ users' = [users EXCEPT ![v] = @ \cup {r}]
    /\ Becomes(r, "registered") \/ Becomes(r, "undoing")
    /\ UNCHANGED <<redis, claim, replica, queue, lapsed, barred, noted>>

\* The database fails, or has the address already.
CommitFails(r) ==
    /\ Stage(r) = "published" /\ Becomes(r, "undoing")
    /\ UNCHANGED <<redis, claim, users, replica, queue, lapsed, barred, noted>>

ReleaseClaim(r) ==
    /\ Stage(r) = "undoing" /\ Becomes(r, "released") /\ claim' = Release(r)
    /\ UNCHANGED <<redis, users, replica, queue, lapsed, barred, noted>>

\* A compensation that cannot be published is logged and given up.
Compensate(r) ==
    /\ Stage(r) = "released" /\ Becomes(r, "failed")
    /\ \/ queue' = queue \cup {Failed(r)} /\ UNCHANGED noted
       \/ noted' = noted \cup {r} /\ UNCHANGED queue
    /\ UNCHANGED <<redis, claim, users, replica, lapsed, barred>>

\* The service stops, or Redis cannot be reached where the code calls it.
Crash(r) ==
    /\ Stage(r) \in Active /\ Becomes(r, "crashed")
    /\ UNCHANGED <<redis, claim, users, replica, queue, lapsed, barred, noted>>

\* After 24 hours, or when Redis runs short of memory (allkeys-lru).
ClaimLapses(k) ==
    /\ claim[k] # 0
    /\ claim' = [claim EXCEPT ![k] = 0] /\ lapsed' = lapsed \cup {k}
    /\ UNCHANGED <<redis, regs, users, replica, queue, barred, noted>>

-----------------------------------------------------------------------------
(* handle_replication_event *)

\* Mutant of Handled: the compensation is an unknown type of event.
HandledUnknown(rows, m) ==
    IF m.kind = "user.registration_failed" \/ m.reg \in rows
            \/ Has(rows, regs[m.reg].email)
    THEN rows ELSE rows \cup {m.reg}

\* INSERT .. ON CONFLICT DO NOTHING on id and address; DELETE by id.
Handled(rows, m) ==
    CASE m.kind = "user.registration_failed" -> rows \ {m.reg}
      [] OTHER -> IF m.reg \in rows \/ Has(rows, regs[m.reg].email)
                  THEN rows ELSE rows \cup {m.reg}

\* "nothing to remove"
NothingToRemove(v, m) ==
    m.kind = "user.registration_failed" /\ m.reg \notin replica[v]

Consume(v, m) ==
    /\ m \in queue
    /\ queue' = queue \ {m}
    /\ replica' = [replica EXCEPT ![v] = Handled(@, m)]
    /\ noted' = IF NothingToRemove(v, m) THEN noted \cup {m.reg} ELSE noted
    /\ UNCHANGED <<redis, claim, regs, users, lapsed, barred>>

\* The handler logs what it catches and returns: the message is acknowledged.
ConsumeFails(v, m) ==
    /\ m \in queue
    /\ queue' = queue \ {m} /\ noted' = noted \cup {m.reg}
    /\ UNCHANGED <<redis, claim, regs, users, replica, lapsed, barred>>

\* The connection is lost after the handler and before the acknowledgement.
Redelivered(v, m) ==
    /\ m \in queue
    /\ replica' = [replica EXCEPT ![v] = Handled(@, m)]
    /\ noted' = noted \cup {m.reg}
    /\ UNCHANGED <<redis, claim, regs, users, queue, lapsed, barred>>

-----------------------------------------------------------------------------

RegisterStep(r) ==
    \/ CheckReplica(r) \/ Publish(r) \/ Commit(r) \/ CommitFails(r)
    \/ ReleaseClaim(r) \/ Compensate(r)

Consumed == \E v \in VMs, m \in queue : Consume(v, m) \/ ConsumeFails(v, m)

UsersNext ==
    \/ \E r \in Regs, v \in VMs, e \in Emails : Claim(r, v, e)
    \/ \E r \in Regs : RegisterStep(r) \/ Crash(r)
    \/ \E k \in Keys : ClaimLapses(k)
    \/ Consumed
    \/ \E v \in VMs, m \in queue : Redelivered(v, m)

UsersSpec == UsersInit /\ [][UsersNext]_userVars

-----------------------------------------------------------------------------
(* Properties *)

\* VMs that share a Redis never register one address twice, unless its claim
\* lapsed there.  VMs that do not may, while the replica of the second has no
\* row of the first account.
OnePerRedis ==
    \A r, q \in Regs :
        /\ r # q /\ KeyOf(r) = KeyOf(q) /\ KeyOf(r) \notin lapsed
        => ~(Stage(r) = "registered" /\ Stage(q) = "registered")

\* A call never makes an account, whatever became of the claim, on a VM whose
\* replica had a registered user of the address when the call began.
ReplicaBars == \A r \in barred : \A v \in VMs : r \notin users[v]

OneAccount == OnePerRedis /\ ReplicaBars

\* A claim on an address that no account made through that Redis has, and
\* nobody is registering, is that of a call that crashed or could not publish
\* (the driver waits out the 24 hours).
ClaimHasReason ==
    \A k \in Keys : claim[k] # 0 =>
        \/ Stage(claim[k]) \in Active \cup {"stuck", "crashed"}
        \/ \E r \in Regs, v \in VMs : KeyOf(r) = k /\ r \in users[v]

AtRest == queue = {} /\ \A r \in Regs : Stage(r) \notin Active

\* At rest, a replica nobody has an account for was left by a crash, by a
\* publication that raised, or by something the log tells of: a compensation
\* that was not published, failed, found nothing to remove (the other VM has
\* the row, or it came first), or a message that was handled twice.
GhostIsNoted ==
    AtRest =>
        \A v \in VMs : \A r \in replica[v] :
            \/ \E w \in VMs : r \in users[w]
            \/ Stage(r) \in {"stuck", "crashed"} \/ r \in noted

\* At rest, a registered user is in somebody's replica, or the log tells of a
\* handler that failed, or another registration of the address got so far that
\* its row was in the way (its compensation may remove it too late).
MissingIsNoted ==
    AtRest => \A r \in Regs : Stage(r) = "registered" =>
        \/ \E v \in VMs : r \in replica[v]
        \/ r \in noted
        \/ \E q \in Regs \ {r} : /\ regs[q].email = regs[r].email
                               /\ Stage(q) \notin {"unused", "rejected"}

\* The accounts and their replicas differ for no other reason.
DifferenceIsNoted == GhostIsNoted /\ MissingIsNoted
=============================================================================
