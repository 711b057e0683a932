------------------------ MODULE UserReplicationProofs ------------------------
(***************************************************************************)
(* Registration and replication for any number of VMs, addresses and calls *)
(* of register_user, and for any distribution of Redis servers: one account*)
(* per address and Redis, no claim without a reason, and no difference     *)
(* between accounts and replicas that nobody can explain.                  *)
(***************************************************************************)
EXTENDS UserReplication, TLAPS

(***************************************************************************)
(* The inductive invariant.  Its first half relates the claims in Redis to *)
(* the calls and to the rows of auth.users; its second half follows the    *)
(* two messages of a call through the queue into a replica.                *)
(***************************************************************************)
Holding == {"claimed", "checked", "published", "undoing", "registered"}
Early == {"unused", "claimed", "checked", "rejected"}

\* A call between its claim and its end holds it, unless it lapsed.
ClaimsHeld == \A r \in Regs :
    Stage(r) \in Holding /\ KeyOf(r) \notin lapsed => claim[KeyOf(r)] = r

\* A claim belongs to a call for that address, on a VM that uses that Redis,
\* which has not given it up.
ClaimsOwned == \A k \in Keys : claim[k] # 0 =>
    /\ KeyOf(claim[k]) = k
    /\ Stage(claim[k]) \in Holding \cup {"stuck", "crashed"}

\* A row was committed by a call that has got that far, and a call that
\* answered 201 has its row.
RowsCommitted == \A v \in VMs : \A r \in users[v] :
    Stage(r) \in {"undoing", "registered", "released", "failed", "crashed"}
RegisteredHasRow == \A r \in Regs :
    Stage(r) = "registered" => r \in users[regs[r].vm]

\* Nothing of a call is anywhere before it publishes, and its compensation is
\* published last.
NotYetSent == \A r \in Regs : Stage(r) \in Early =>
    Registered(r) \notin queue /\ \A v \in VMs : r \notin replica[v]
UndoneLast == \A r \in Regs : Failed(r) \in queue => Stage(r) = "failed"

\* Where the log tells nothing of a call, it has one row in one replica, or
\* the message on its way; none once its compensation was handled.
OneCopy == \A r \in Regs \ noted : \A v \in VMs : r \in replica[v] =>
    Registered(r) \notin queue /\ \A w \in VMs : r \in replica[w] => v = w
UndoneIsGone == \A r \in Regs \ noted :
    Stage(r) = "failed" /\ Failed(r) \notin queue =>
        Registered(r) \notin queue /\ \A v \in VMs : r \notin replica[v]

\* Another call for the address of r has published, so its row may be in r's way.
Blocked(r) == \E q \in Regs \ {r} :
    regs[q].email = regs[r].email /\ Stage(q) \notin Early

SentArrives == \A r \in Regs \ noted : Stage(r) \in {"published", "registered"} =>
    Registered(r) \in queue \/ (\E v \in VMs : r \in replica[v]) \/ Blocked(r)

\* The row that bars a call stays, and the call makes no account.
BarInv == \A r \in barred :
    /\ Stage(r) \in {"claimed", "rejected", "crashed"}
    /\ Known(regs[r].vm, regs[r].email)
    /\ \A v \in VMs : r \notin users[v]

ClaimInv == ClaimsHeld /\ ClaimsOwned /\ RowsCommitted /\ RegisteredHasRow
CopyInv == NotYetSent /\ UndoneLast /\ OneCopy /\ UndoneIsGone /\ SentArrives
UsersInv == UsersTypeOK /\ ClaimInv /\ CopyInv /\ BarInv

-----------------------------------------------------------------------------
(* Lemmas *)

LEMMA RegsAreNotZero == 0 \notin Regs
BY RegAssumption DEF Regs

LEMMA MessagesDiffer ==
    \A r, q \in Regs : /\ Registered(r) # Failed(q)
                       /\ Registered(r) = Registered(q) => r = q
                       /\ Failed(r) = Failed(q) => r = q
                       /\ {Registered(r), Failed(r)} \subseteq Messages
BY DEF Registered, Failed, Messages

\* The key of a call is one of a Redis that its VM uses.
LEMMA KeysAreKeys ==
    ASSUME UsersTypeOK, NEW r \in Regs
    PROVE  KeyOf(r) \in Keys
BY DEF UsersTypeOK, KeyOf, Keys

\* Every message of the queue is one of the two.
LEMMA MessageKinds ==
    \A m \in Messages : m.reg \in Regs /\ (m = Registered(m.reg) \/ m = Failed(m.reg))
BY DEF Registered, Failed, Messages

\* What a step of call r leaves alone.
LEMMA BecomesOnlyStage ==
    ASSUME UsersTypeOK, NEW r \in Regs, NEW s \in Stages, Becomes(r, s)
    PROVE  /\ regs' \in [Regs -> [vm : VMs, email : Emails, stage : Stages]]
           /\ \A q \in Regs : /\ regs'[q].email = regs[q].email
                              /\ regs'[q].vm = regs[q].vm
                              /\ Stage(q)' = IF q = r THEN s ELSE Stage(q)
BY DEF UsersTypeOK, Becomes, Stage

LEMMA UsersInitInv == UsersInit => UsersInv
<1> SUFFICES ASSUME UsersInit PROVE UsersInv
  OBVIOUS
<1>1. UsersTypeOK
  BY RegAssumption DEF UsersInit, UsersTypeOK, Stages, Active, Keys
<1>2. \A r \in Regs : Stage(r) = "unused"
  BY DEF UsersInit, Stage
<1>3. ClaimInv
  BY <1>2 DEF UsersInit, ClaimInv, ClaimsHeld, ClaimsOwned, RowsCommitted,
              RegisteredHasRow, Holding
<1>4. CopyInv
  BY <1>2 DEF UsersInit, CopyInv, NotYetSent, UndoneLast, OneCopy, UndoneIsGone,
              SentArrives
<1>5. BarInv
  BY DEF UsersInit, BarInv
<1> QED BY <1>1, <1>3, <1>4, <1>5 DEF UsersInv

(***************************************************************************)
(* The steps.  Calls change claims, rows and the queue; the consumers and  *)
(* the redelivery change the queue, the replicas and the log.              *)
(***************************************************************************)
LEMMA ClaimStep ==
    ASSUME UsersInv, NEW r \in Regs, NEW v \in VMs, NEW e \in Emails, Claim(r, v, e)
    PROVE  UsersInv'
<1> USE DEF UsersInv
<1>1. PICK s \in {"claimed", "rejected"} :
        /\ regs' = [regs EXCEPT ![r] = [vm |-> v, email |-> e, stage |-> s]]
        /\ s = "claimed" =>
             claim[<<redis[v], e>>] = 0 /\ claim' = [claim EXCEPT ![<<redis[v], e>>] = r]
        /\ s = "rejected" => claim' = claim
  BY DEF Claim, MayClaim
<1>2. Stage(r) = "unused" /\ UNCHANGED <<redis, users, replica, queue, lapsed, noted>>
  BY DEF Claim
<1>3. UsersTypeOK'
  <2>1. barred' \in {barred, barred \cup {r}}
    BY DEF Claim
  <2>2. <<redis[v], e>> \in Keys
    BY DEF UsersTypeOK, Keys
  <2>3. claim' \in [Keys -> {0} \cup Regs]
    BY <1>1, <2>2 DEF UsersTypeOK
  <2>4. regs' \in [Regs -> [vm : VMs, email : Emails, stage : Stages]]
    BY <1>1 DEF UsersTypeOK, Stages, Active
  <2> QED BY <1>2, <2>1, <2>3, <2>4 DEF UsersTypeOK
<1>4. \A q \in Regs : /\ q # r => regs'[q] = regs[q] /\ Stage(q)' = Stage(q)
                                  /\ KeyOf(q)' = KeyOf(q)
                      /\ Stage(r)' = s /\ regs'[r].email = e /\ regs'[r].vm = v
                      /\ KeyOf(r)' = <<redis[v], e>>
  BY <1>1, <1>2 DEF UsersTypeOK, Stage, KeyOf
<1>5. ClaimsHeld'
  <2>1. \A q \in Regs \ {r} : KeyOf(q) \in Keys
    BY KeysAreKeys
  <2>2. <<redis[v], e>> \in Keys /\ claim \in [Keys -> {0} \cup Regs]
    BY DEF UsersTypeOK, Keys
  <2> HIDE DEF Keys
  <2> QED BY <1>1, <1>2, <1>4, <2>1, <2>2, RegsAreNotZero DEF ClaimInv, ClaimsHeld, Holding
<1>6. ClaimsOwned'
  <2>1. <<redis[v], e>> \in Keys /\ claim \in [Keys -> {0} \cup Regs]
    BY DEF UsersTypeOK, Keys
  <2> QED BY <1>1, <1>2, <1>4, <2>1, RegsAreNotZero DEF ClaimInv, ClaimsOwned, Holding
<1>7. RowsCommitted'
  BY <1>1, <1>2, <1>4 DEF ClaimInv, RowsCommitted, UsersTypeOK
<1>8. RegisteredHasRow'
  BY <1>1, <1>2, <1>4 DEF ClaimInv, RegisteredHasRow, UsersTypeOK
<1>9. NotYetSent' /\ UndoneLast'
  BY <1>1, <1>2, <1>4 DEF CopyInv, NotYetSent, UndoneLast, Early, Registered, Failed
<1>10. OneCopy' /\ UndoneIsGone'
  BY <1>1, <1>2, <1>4 DEF CopyInv, OneCopy, UndoneIsGone, Registered, Failed
<1>11. \A q \in Regs : q # r /\ Blocked(q) => Blocked(q)'
  <2> SUFFICES ASSUME NEW q \in Regs, q # r, Blocked(q) PROVE Blocked(q)'
    OBVIOUS
  <2>1. PICK p \in Regs \ {q} : regs[p].email = regs[q].email /\ Stage(p) \notin Early
    BY DEF Blocked
  <2>2. p # r
    BY <1>2, <2>1 DEF Early
  <2> QED BY <1>4, <2>1, <2>2 DEF Blocked
<1>12. SentArrives'
  BY <1>1, <1>2, <1>4, <1>11 DEF CopyInv, SentArrives, Registered
<1>13. BarInv'
  <2>1. \A w \in VMs, d \in Emails : Known(w, d) => Known(w, d)'
    <3> SUFFICES ASSUME NEW w \in VMs, NEW d \in Emails, Known(w, d) PROVE Known(w, d)'
      OBVIOUS
    <3>1. PICK q \in replica[w] : regs[q].email = d /\ Stage(q) = "registered"
      BY DEF Known
    <3>2. q \in Regs /\ q # r
      BY <1>2, <3>1 DEF UsersTypeOK
    <3> QED BY <1>2, <1>4, <3>1, <3>2 DEF Known
  <2>2. \A q \in barred : /\ q \in Regs /\ q # r
                          /\ regs[q].vm \in VMs /\ regs[q].email \in Emails
    BY <1>2 DEF BarInv, UsersTypeOK
  <2>3. \A w \in VMs : r \notin users[w]
    BY <1>2 DEF ClaimInv, RowsCommitted
  <2>4. \A q \in barred' : q \in barred \/ (q = r /\ Known(v, e))
    BY DEF Claim
  <2>5. s \in {"claimed", "rejected", "crashed"}
    OBVIOUS
  <2>6. ASSUME NEW q \in barred
        PROVE  /\ Stage(q)' \in {"claimed", "rejected", "crashed"}
               /\ Known(regs[q].vm, regs[q].email)' /\ \A w \in VMs : q \notin users'[w]
    <3>1. regs'[q] = regs[q] /\ Stage(q)' = Stage(q)
      BY <1>4, <2>2
    <3>2. PICK w \in VMs, d \in Emails : w = regs[q].vm /\ d = regs[q].email
      BY <2>2
    <3>3. Known(w, d)'
      BY <2>1, <3>2 DEF BarInv
    <3> QED BY <1>2, <3>1, <3>2, <3>3 DEF BarInv, Known
  <2>7. Known(v, e) => Known(regs[r].vm, regs[r].email)'
    BY <1>4, <2>1 DEF Known
  <2> QED BY <1>2, <1>4, <2>3, <2>4, <2>5, <2>6, <2>7 DEF BarInv
<1> QED BY <1>3, <1>5, <1>6, <1>7, <1>8, <1>9, <1>10, <1>12, <1>13 DEF ClaimInv, CopyInv

\* A call goes on, and keeps its claim or gives it up.
LEMMA ClaimsAfterStage ==
    ASSUME UsersInv, NEW r \in Regs, NEW s \in Stages, Becomes(r, s),
           Stage(r) \in Active, UNCHANGED <<redis, lapsed>>,
           s \in Holding => Stage(r) \in Holding,
           \/ claim' = claim /\ (Stage(r) \in Holding => s \in Holding \cup {"stuck", "crashed"})
           \/ claim' = Release(r) /\ Stage(r) \in Holding /\ s \notin Holding
    PROVE  ClaimsHeld' /\ ClaimsOwned'
<1> USE DEF UsersInv
<1>1. \A q \in Regs : /\ KeyOf(q)' = KeyOf(q) /\ KeyOf(q) \in Keys
                      /\ Stage(q)' = IF q = r THEN s ELSE Stage(q)
  BY BecomesOnlyStage, KeysAreKeys DEF KeyOf
<1>2. /\ claim \in [Keys -> {0} \cup Regs]
      /\ \A k \in Keys : claim[k] # 0 => claim[k] \in Regs
  BY DEF UsersTypeOK
<1>3. CASE claim' = claim /\ (Stage(r) \in Holding => s \in Holding \cup {"stuck", "crashed"})
  <2>1. ClaimsHeld'
    BY <1>1, <1>3 DEF ClaimInv, ClaimsHeld
  <2>2. Stage(r) \notin Holding => \A k \in Keys : claim[k] # r \/ r = 0
    BY DEF ClaimInv, ClaimsOwned, Active, Holding
  <2>3. ClaimsOwned'
    BY <1>1, <1>2, <1>3, <2>2 DEF ClaimInv, ClaimsOwned
  <2> QED BY <2>1, <2>3
<1>4. CASE claim' = Release(r) /\ Stage(r) \in Holding /\ s \notin Holding
  <2>1. claim' = [claim EXCEPT ![KeyOf(r)] = 0] /\ KeyOf(r) \in Keys
    BY <1>1, <1>4 DEF Release
  <2>2. ASSUME NEW q \in Regs, Stage(q) \in Holding, KeyOf(q) \notin lapsed, q # r
        PROVE  claim'[KeyOf(q)] = q
    <3>1. claim[KeyOf(q)] = q
      BY <2>2 DEF ClaimInv, ClaimsHeld
    <3>2. KeyOf(q) = KeyOf(r) => KeyOf(r) \notin lapsed /\ claim[KeyOf(r)] = r
      BY <1>4, <2>2 DEF ClaimInv, ClaimsHeld
    <3> QED BY <1>1, <1>2, <2>1, <2>2, <3>1, <3>2
  <2>3. ClaimsHeld'
    BY <1>1, <1>4, <2>2 DEF ClaimsHeld
  <2>4. ASSUME NEW k \in Keys, claim[k] = r, k # KeyOf(r) PROVE r = 0
    BY <2>4 DEF ClaimInv, ClaimsOwned
  <2>5. ClaimsOwned'
    BY <1>1, <1>2, <1>4, <2>1, <2>4 DEF ClaimInv, ClaimsOwned
  <2> QED BY <2>3, <2>5
<1> QED BY <1>3, <1>4

\* A call goes on and publishes nothing, or its registration.
LEMMA CopiesAfterStage ==
    ASSUME UsersInv, NEW r \in Regs, NEW s \in Stages, Becomes(r, s),
           Stage(r) \in Active, s # "unused", s # "failed",
           UNCHANGED <<replica, noted>>,
           s \in Early => Stage(r) \in Early /\ queue' = queue,
           \/ queue' = queue /\ (s \in {"published", "registered"} => Stage(r) = "published")
           \/ queue' = queue \cup {Registered(r)} /\ Stage(r) \in Early
    PROVE  CopyInv'
<1> USE DEF UsersInv
<1>1. \A q \in Regs : /\ regs'[q].email = regs[q].email
                      /\ Stage(q)' = IF q = r THEN s ELSE Stage(q)
  BY BecomesOnlyStage
<1>2. \A q \in Regs : /\ Failed(q) \in queue' <=> Failed(q) \in queue
                      /\ Registered(q) \in queue => Registered(q) \in queue'
                      /\ Registered(q) \in queue' => Registered(q) \in queue \/ q = r
  BY MessagesDiffer
<1>3. Stage(r) \in Early => \A v \in VMs : r \notin replica[v]
  BY DEF CopyInv, NotYetSent
<1>4. NotYetSent'
  BY <1>1, <1>2 DEF CopyInv, NotYetSent, Registered
<1>5. UndoneLast'
  BY <1>1, <1>2 DEF CopyInv, UndoneLast, Failed, Active
<1>6. OneCopy'
  BY <1>1, <1>2, <1>3 DEF CopyInv, OneCopy, Registered
<1>7. UndoneIsGone'
  BY <1>1, <1>2 DEF CopyInv, UndoneIsGone, Registered, Failed, Early
<1>8. \A q \in Regs : Blocked(q) => Blocked(q)'
  BY <1>1 DEF Blocked
<1>9. SentArrives'
  BY <1>1, <1>2, <1>8 DEF CopyInv, SentArrives, Registered
<1> QED BY <1>4, <1>5, <1>6, <1>7, <1>9 DEF CopyInv

\* A call goes on, and users keep their rows (Commit adds one).
LEMMA RowsAfterStage ==
    ASSUME UsersInv, NEW r \in Regs, NEW s \in Stages, Becomes(r, s),
           Stage(r) \in Active, UNCHANGED users, s # "registered",
           Stage(r) \in {"undoing", "released"} =>
                s \in {"undoing", "released", "failed", "crashed"}
    PROVE  RowsCommitted' /\ RegisteredHasRow'
<1> USE DEF UsersInv
<1>1. \A q \in Regs : /\ regs'[q].vm = regs[q].vm
                      /\ Stage(q)' = IF q = r THEN s ELSE Stage(q)
  BY BecomesOnlyStage
<1>2. \A v \in VMs : users[v] \subseteq Regs
  BY DEF UsersTypeOK
<1>3. RowsCommitted'
  BY <1>1, <1>2 DEF ClaimInv, RowsCommitted, Active
<1>4. RegisteredHasRow'
  BY <1>1 DEF ClaimInv, RegisteredHasRow
<1> QED BY <1>3, <1>4

\* A call goes on: one that is barred is rejected or crashes.
LEMMA BarsAfterStage ==
    ASSUME UsersInv, NEW r \in Regs, NEW s \in Stages, Becomes(r, s),
           Stage(r) \in Active, UNCHANGED <<replica, barred>>,
           r \in barred => s \in {"rejected", "crashed"},
           \A q \in Regs, v \in VMs : q \in users'[v] => q \in users[v] \/ q \notin barred
    PROVE  BarInv'
<1> USE DEF UsersInv
<1>1. \A q \in Regs : /\ regs'[q].email = regs[q].email /\ regs'[q].vm = regs[q].vm
                      /\ Stage(q)' = IF q = r THEN s ELSE Stage(q)
  BY BecomesOnlyStage
<1>2. \A v \in VMs : replica[v] \subseteq Regs
  BY DEF UsersTypeOK
<1>3. \A v \in VMs, e \in Emails : Known(v, e) => Known(v, e)'
  BY <1>1, <1>2 DEF Known, Active
<1>4. SUFFICES ASSUME NEW q \in barred
               PROVE  /\ Stage(q)' \in {"claimed", "rejected", "crashed"}
                      /\ Known(regs[q].vm, regs[q].email)'
                      /\ \A v \in VMs : q \notin users'[v]
  BY DEF BarInv
<1>5. q \in Regs /\ regs[q].vm \in VMs /\ regs[q].email \in Emails
  BY DEF UsersTypeOK
<1>6. PICK v \in VMs, e \in Emails : v = regs[q].vm /\ e = regs[q].email
  BY <1>5
<1>7. Known(v, e)'
  BY <1>3, <1>6 DEF BarInv
<1>8. Known(regs[q].vm, regs[q].email)'
  BY <1>1, <1>5, <1>6, <1>7 DEF Known
<1>9. Stage(q)' \in {"claimed", "rejected", "crashed"}
  BY <1>1, <1>5 DEF BarInv
<1> QED BY <1>5, <1>8, <1>9 DEF BarInv

LEMMA CallStep ==
    ASSUME UsersInv, NEW r \in Regs, RegisterStep(r) \/ Crash(r)
    PROVE  UsersInv'
<1> USE DEF UsersInv
<1>1. regs[r].email \in Emails /\ regs[r].vm \in VMs
  BY DEF UsersTypeOK
<1>2. \A s : Becomes(r, s) /\ s \in Stages =>
        regs' \in [Regs -> [vm : VMs, email : Emails, stage : Stages]]
  BY BecomesOnlyStage
<1>3. Active \subseteq Stages /\ {"rejected", "registered", "stuck", "failed", "crashed"} \subseteq Stages
  BY DEF Stages
<1>4. {"claimed", "checked", "published", "undoing", "released"} = Active
  BY DEF Active
<1>5. CASE CheckReplica(r)
  <2>1. PICK s \in {"rejected", "checked"} :
          /\ Becomes(r, s)
          /\ s = "rejected" => claim' = Release(r)
          /\ s = "checked" => claim' = claim
    BY <1>5 DEF CheckReplica
  <2>2. Stage(r) = "claimed" /\ UNCHANGED <<redis, users, replica, queue, lapsed, barred, noted>>
    BY <1>5 DEF CheckReplica
  <2>3. UsersTypeOK'
    BY <1>1, <1>2, <1>3, <1>4, <2>1, <2>2 DEF UsersTypeOK, Release, KeyOf, Keys
  <2>4. ClaimsHeld' /\ ClaimsOwned'
    BY <1>3, <1>4, <2>1, <2>2, ClaimsAfterStage DEF Holding
  <2>5. RowsCommitted' /\ RegisteredHasRow'
    BY <1>3, <1>4, <2>1, <2>2, RowsAfterStage
  <2>6. CopyInv'
    BY <1>3, <1>4, <2>1, <2>2, CopiesAfterStage DEF Early
  <2>7. r \in barred => s = "rejected"
    <3>1. r \in barred => Has(replica[regs[r].vm], regs[r].email)
      BY DEF BarInv, Known, Has
    <3>2. Has(replica[regs[r].vm], regs[r].email) => Becomes(r, "rejected")
      BY <1>5 DEF CheckReplica
    <3>3. Becomes(r, "rejected") => s = "rejected"
      BY <2>1 DEF Becomes, UsersTypeOK
    <3> QED BY <3>1, <3>2, <3>3
  <2>8. BarInv'
    BY <1>3, <1>4, <2>1, <2>2, <2>7, BarsAfterStage
  <2> QED BY <2>3, <2>4, <2>5, <2>6, <2>8 DEF ClaimInv
<1>6. CASE Publish(r)
  <2>1. PICK s \in {"published", "stuck"} : Becomes(r, s)
    BY <1>6 DEF Publish
  <2>2. /\ Stage(r) = "checked" /\ UNCHANGED <<redis, claim, users, replica, lapsed, barred, noted>>
        /\ queue' \in {queue, queue \cup {Registered(r)}}
        /\ \/ Becomes(r, "published") /\ queue' = queue \cup {Registered(r)}
           \/ Becomes(r, "stuck")
    BY <1>6 DEF Publish
  <2>3. UsersTypeOK'
    BY <1>2, <1>3, <1>4, <2>1, <2>2, MessagesDiffer DEF UsersTypeOK
  <2>4. ClaimsHeld' /\ ClaimsOwned'
    BY <1>3, <1>4, <2>1, <2>2, ClaimsAfterStage DEF Holding
  <2>5. RowsCommitted' /\ RegisteredHasRow'
    BY <1>3, <1>4, <2>1, <2>2, RowsAfterStage
  <2>6. CopyInv'
    <3>1. CASE Becomes(r, "published") /\ queue' = queue \cup {Registered(r)}
      BY <1>3, <1>4, <2>2, <3>1, CopiesAfterStage DEF Early
    <3>2. CASE Becomes(r, "stuck")
      BY <1>3, <1>4, <2>2, <3>2, CopiesAfterStage DEF Early
    <3> QED BY <2>2, <3>1, <3>2
  <2>7. BarInv'
    <3>1. r \notin barred
      BY <2>2 DEF BarInv
    <3> QED BY <1>3, <1>4, <2>1, <2>2, <3>1, BarsAfterStage
  <2> QED BY <2>3, <2>4, <2>5, <2>6, <2>7 DEF ClaimInv
<1>7. CASE Commit(r)
  <2>1. PICK s \in {"registered", "undoing"} : Becomes(r, s)
    BY <1>7 DEF Commit
  <2>2. /\ Stage(r) = "published" /\ UNCHANGED <<redis, claim, replica, queue, lapsed, barred, noted>>
        /\ users' = [users EXCEPT ![regs[r].vm] = @ \cup {r}]
    BY <1>7 DEF Commit
  <2>3. UsersTypeOK'
    BY <1>1, <1>2, <1>3, <1>4, <2>1, <2>2 DEF UsersTypeOK
  <2>4. ClaimsHeld' /\ ClaimsOwned'
    BY <1>3, <1>4, <2>1, <2>2, ClaimsAfterStage DEF Holding
  <2>5. \A q \in Regs : /\ regs'[q].vm = regs[q].vm
                        /\ Stage(q)' = IF q = r THEN s ELSE Stage(q)
    BY <1>3, <1>4, <2>1, BecomesOnlyStage
  <2>6. RowsCommitted'
    BY <2>2, <2>5 DEF ClaimInv, RowsCommitted, UsersTypeOK
  <2>7. RegisteredHasRow'
    BY <1>1, <2>2, <2>5 DEF ClaimInv, RegisteredHasRow, UsersTypeOK
  <2>8. CopyInv'
    BY <1>3, <1>4, <2>1, <2>2, CopiesAfterStage DEF Early
  <2>9. BarInv'
    <3>1. r \notin barred
      BY <2>2 DEF BarInv
    <3>2. \A q \in Regs, v \in VMs : q \in users'[v] => q \in users[v] \/ q = r
      BY <1>1, <2>2 DEF UsersTypeOK
    <3> QED BY <1>3, <1>4, <2>1, <2>2, <3>1, <3>2, BarsAfterStage
  <2> QED BY <2>3, <2>4, <2>6, <2>7, <2>8, <2>9 DEF ClaimInv
<1>8. CASE CommitFails(r) \/ ReleaseClaim(r) \/ Crash(r)
  <2>1. PICK s \in {"undoing", "released", "crashed"} :
          /\ Becomes(r, s)
          /\ s = "undoing" => Stage(r) = "published" /\ claim' = claim
          /\ s = "released" => Stage(r) = "undoing" /\ claim' = Release(r)
          /\ s = "crashed" => claim' = claim
    BY <1>8 DEF CommitFails, ReleaseClaim, Crash
  <2>2. Stage(r) \in Active /\ UNCHANGED <<redis, users, replica, queue, lapsed, barred, noted>>
    BY <1>4, <1>8 DEF CommitFails, ReleaseClaim, Crash
  <2>3. UsersTypeOK'
    BY <1>1, <1>2, <1>3, <1>4, <2>1, <2>2 DEF UsersTypeOK, Release, KeyOf, Keys
  <2>4. ClaimsHeld' /\ ClaimsOwned'
    BY <1>3, <1>4, <2>1, <2>2, ClaimsAfterStage DEF Holding
  <2>5. RowsCommitted' /\ RegisteredHasRow'
    BY <1>3, <1>4, <2>1, <2>2, RowsAfterStage
  <2>6. CopyInv'
    BY <1>3, <1>4, <2>1, <2>2, CopiesAfterStage DEF Early
  <2>7. BarInv'
    <3>1. r \in barred => s = "crashed"
      BY <2>1 DEF BarInv
    <3> QED BY <1>3, <1>4, <2>1, <2>2, <3>1, BarsAfterStage
  <2> QED BY <2>3, <2>4, <2>5, <2>6, <2>7 DEF ClaimInv
<1>9. CASE Compensate(r)
  <2>1. /\ Stage(r) = "released" /\ Becomes(r, "failed")
        /\ \/ queue' = queue \cup {Failed(r)} /\ noted' = noted
           \/ noted' = noted \cup {r} /\ queue' = queue
        /\ UNCHANGED <<redis, claim, users, replica, lapsed, barred>>
    BY <1>9 DEF Compensate
  <2>2. UsersTypeOK'
    BY <1>2, <1>3, <2>1, MessagesDiffer DEF UsersTypeOK
  <2>3. ClaimsHeld' /\ ClaimsOwned'
    BY <1>3, <1>4, <2>1, ClaimsAfterStage DEF Holding
  <2>4. RowsCommitted' /\ RegisteredHasRow'
    BY <1>3, <1>4, <2>1, RowsAfterStage
  <2>5. \A q \in Regs : /\ regs'[q].email = regs[q].email
                        /\ Stage(q)' = IF q = r THEN "failed" ELSE Stage(q)
    BY <1>3, <2>1, BecomesOnlyStage
  <2>6. \A q \in Regs : /\ Registered(q) \in queue' <=> Registered(q) \in queue
                        /\ Failed(q) \in queue' => Failed(q) \in queue \/ q = r
                        /\ q \notin noted' => q \notin noted
                        /\ q \notin noted' => (Failed(q) \notin queue' =>
                                                 q # r /\ Failed(q) \notin queue)
    BY <2>1, MessagesDiffer
  <2>7. NotYetSent' /\ UndoneLast'
    BY <2>1, <2>5, <2>6 DEF CopyInv, NotYetSent, UndoneLast, Registered, Failed, Early
  <2>8. OneCopy' /\ UndoneIsGone'
    BY <2>1, <2>5, <2>6 DEF CopyInv, OneCopy, UndoneIsGone, Registered, Failed
  <2>9. \A q \in Regs : Blocked(q) => Blocked(q)'
    BY <2>5 DEF Blocked, Early
  <2>10. SentArrives'
    BY <2>1, <2>5, <2>6, <2>9 DEF CopyInv, SentArrives, Registered
  <2>11. BarInv'
    <3>1. r \notin barred
      BY <2>1 DEF BarInv
    <3> QED BY <1>3, <1>4, <2>1, <3>1, BarsAfterStage
  <2> QED BY <2>2, <2>3, <2>4, <2>7, <2>8, <2>10, <2>11 DEF ClaimInv, CopyInv
<1> QED BY <1>5, <1>6, <1>7, <1>8, <1>9 DEF RegisterStep

LEMMA LapseStep ==
    ASSUME UsersInv, NEW k \in Keys, ClaimLapses(k)
    PROVE  UsersInv'
<1> USE DEF UsersInv
<1>1. /\ claim' = [claim EXCEPT ![k] = 0] /\ lapsed' = lapsed \cup {k}
      /\ UNCHANGED <<redis, regs, users, replica, queue, barred, noted>>
  BY DEF ClaimLapses
<1>2. UsersTypeOK'
  BY <1>1 DEF UsersTypeOK
<1>3. \A r \in Regs : KeyOf(r) \in Keys /\ KeyOf(r)' = KeyOf(r) /\ Stage(r)' = Stage(r)
  BY <1>1, KeysAreKeys DEF KeyOf, Stage
<1>4. claim \in [Keys -> {0} \cup Regs]
  BY DEF UsersTypeOK
<1>5. ClaimsHeld' /\ ClaimsOwned'
  BY <1>1, <1>3, <1>4 DEF ClaimInv, ClaimsHeld, ClaimsOwned
<1>6. RowsCommitted' /\ RegisteredHasRow' /\ CopyInv' /\ BarInv'
  BY <1>1 DEF ClaimInv, RowsCommitted, RegisteredHasRow, CopyInv, NotYetSent,
              UndoneLast, OneCopy, UndoneIsGone, SentArrives, Blocked, Stage,
              Registered, Failed, BarInv, Known
<1> QED BY <1>2, <1>5, <1>6 DEF ClaimInv

(***************************************************************************)
(* A message is handled, and acknowledged or not.  Only a message that is  *)
(* handled once, acknowledged and finds what it is to remove says nothing  *)
(* of it in the log.                                                       *)
(***************************************************************************)
LEMMA HandledRows ==
    ASSUME UsersTypeOK, NEW v \in VMs, NEW m \in queue
    PROVE  /\ m.reg \in Regs
           /\ Handled(replica[v], m) \subseteq replica[v] \cup {m.reg}
           /\ replica[v] \subseteq Handled(replica[v], m) \cup {m.reg}
           /\ m = Failed(m.reg) => m.reg \notin Handled(replica[v], m)
           /\ m = Registered(m.reg) => replica[v] \subseteq Handled(replica[v], m)
           /\ m = Registered(m.reg) /\ m.reg \notin Handled(replica[v], m) =>
                \E q \in replica[v] : regs[q].email = regs[m.reg].email
BY MessageKinds DEF Handled, Has, Registered, Failed, UsersTypeOK

LEMMA HandlingStep ==
    ASSUME UsersInv, NEW v \in VMs, NEW m \in queue,
           Consume(v, m) \/ ConsumeFails(v, m) \/ Redelivered(v, m)
    PROVE  UsersInv'
<1> USE DEF UsersInv
<1>1. /\ m.reg \in Regs /\ (m = Registered(m.reg) \/ m = Failed(m.reg))
      /\ Registered(m.reg) # Failed(m.reg)
  BY MessageKinds, MessagesDiffer DEF UsersTypeOK
<1>2. UNCHANGED <<redis, claim, regs, users, lapsed, barred>>
  BY DEF Consume, ConsumeFails, Redelivered
<1>3. noted \subseteq noted' /\ noted' \subseteq noted \cup {m.reg}
  BY DEF Consume, ConsumeFails, Redelivered
<1>4. queue' \in {queue, queue \ {m}}
  BY DEF Consume, ConsumeFails, Redelivered
<1>5. /\ replica' \in [VMs -> SUBSET Regs]
      /\ \A w \in VMs : \A q \in Regs : q # m.reg =>
            (q \in replica'[w] <=> q \in replica[w])
      /\ \A w \in VMs : w # v => replica'[w] = replica[w]
  BY HandledRows DEF Consume, ConsumeFails, Redelivered, UsersTypeOK
<1>6. m.reg \notin noted' =>
        /\ m.reg \notin noted /\ queue' = queue \ {m}
        /\ replica'[v] = Handled(replica[v], m)
        /\ m = Failed(m.reg) => m.reg \in replica[v]
  BY <1>1, HandledRows DEF Consume, ConsumeFails, Redelivered, UsersTypeOK,
                           NothingToRemove, Failed
<1>7. UsersTypeOK'
  BY <1>1, <1>2, <1>3, <1>4, <1>5 DEF UsersTypeOK
<1>8. ClaimInv'
  BY <1>2 DEF ClaimInv, ClaimsHeld, ClaimsOwned, RowsCommitted, RegisteredHasRow, Stage, KeyOf
<1>9. \A q \in Regs : /\ Stage(q)' = Stage(q) /\ regs'[q] = regs[q]
                      /\ Blocked(q)' = Blocked(q)
  BY <1>2 DEF Stage, Blocked
<1>10. \A q \in Regs : /\ Registered(q) \in queue' => Registered(q) \in queue
                       /\ Failed(q) \in queue' => Failed(q) \in queue
                       /\ q # m.reg => (Registered(q) \in queue => Registered(q) \in queue')
                       /\ q # m.reg => (Failed(q) \in queue => Failed(q) \in queue')
  BY <1>1, <1>4, MessagesDiffer
<1>11. Stage(m.reg) \notin Early
  BY <1>1 DEF CopyInv, NotYetSent, UndoneLast, Early
<1>12. NotYetSent' /\ UndoneLast'
  <2>1. \A q \in Regs : Stage(q) \in Early => q # m.reg
    BY <1>11
  <2>2. NotYetSent'
    BY <1>5, <1>9, <1>10, <2>1 DEF CopyInv, NotYetSent, Registered
  <2>3. UndoneLast'
    BY <1>9, <1>10 DEF CopyInv, UndoneLast, Failed
  <2> QED BY <2>2, <2>3
<1>13. ASSUME m.reg \notin noted', m = Registered(m.reg)
       PROVE  /\ Registered(m.reg) \notin queue'
              /\ \A w \in VMs : w # v => m.reg \notin replica'[w]
              /\ ~(Stage(m.reg) = "failed" /\ Failed(m.reg) \notin queue')
              /\ m.reg \in replica'[v] \/ Blocked(m.reg)
  <2>1. \A w \in VMs : m.reg \notin replica[w]
    BY <1>1, <1>6, <1>13 DEF CopyInv, OneCopy
  <2>2. Failed(m.reg) \in queue => Failed(m.reg) \in queue'
    BY <1>1, <1>4, <1>13
  <2>3. ~(Stage(m.reg) = "failed" /\ Failed(m.reg) \notin queue)
    BY <1>1, <1>6, <1>13 DEF CopyInv, UndoneIsGone
  <2>4. ASSUME m.reg \notin replica'[v] PROVE Blocked(m.reg)
    <3>1. PICK q \in replica[v] : regs[q].email = regs[m.reg].email
      BY <1>6, <1>13, <2>4, HandledRows
    <3>2. q \in Regs /\ q # m.reg
      BY <2>1, <3>1 DEF UsersTypeOK
    <3>3. Stage(q) \notin Early
      BY <3>1, <3>2 DEF CopyInv, NotYetSent
    <3> QED BY <3>1, <3>2, <3>3 DEF Blocked
  <2> QED BY <1>5, <1>6, <1>13, <2>1, <2>2, <2>3, <2>4
<1>14. ASSUME m.reg \notin noted', m = Failed(m.reg)
       PROVE  /\ Registered(m.reg) \notin queue'
              /\ \A w \in VMs : m.reg \notin replica'[w]
              /\ Stage(m.reg) = "failed"
  <2>1. m.reg \in replica[v] /\ m.reg \notin replica'[v]
    BY <1>6, <1>14, HandledRows
  <2>2. /\ Registered(m.reg) \notin queue
        /\ \A w \in VMs : w # v => m.reg \notin replica[w]
    <3>1. m.reg \in Regs \ noted
      BY <1>1, <1>6, <1>14
    <3> QED BY <2>1, <3>1 DEF CopyInv, OneCopy
  <2>3. Stage(m.reg) = "failed"
    BY <1>1, <1>14 DEF CopyInv, UndoneLast
  <2> QED BY <1>1, <1>5, <1>10, <2>1, <2>2, <2>3
<1>15. OneCopy'
  BY <1>1, <1>3, <1>5, <1>10, <1>13, <1>14 DEF CopyInv, OneCopy, Registered
<1>16. UndoneIsGone'
  BY <1>1, <1>3, <1>5, <1>9, <1>10, <1>13, <1>14 DEF CopyInv, UndoneIsGone, Registered, Failed
<1>17. SentArrives'
  BY <1>1, <1>3, <1>5, <1>9, <1>10, <1>13, <1>14 DEF CopyInv, SentArrives, Registered
<1>18. BarInv'
  <2>1. \A w \in VMs : \A q \in replica[w] :
          Stage(q) = "registered" => q \in replica'[w]
    <3> SUFFICES ASSUME NEW w \in VMs, NEW q \in replica[w], Stage(q) = "registered",
                        q = m.reg, w = v
                 PROVE  q \in replica'[w]
      BY <1>5 DEF UsersTypeOK
    <3>1. m = Registered(m.reg)
      BY <1>1 DEF CopyInv, UndoneLast
    <3> QED BY <3>1, HandledRows DEF Consume, ConsumeFails, Redelivered, UsersTypeOK
  <2>2. \A w \in VMs, e \in Emails : Known(w, e) => Known(w, e)'
    BY <1>2, <2>1 DEF Known, Stage
  <2>3. \A r \in barred : regs[r].vm \in VMs /\ regs[r].email \in Emails
    BY DEF UsersTypeOK
  <2> QED BY <1>2, <2>1, <2>3 DEF BarInv, Known, Stage
<1> QED BY <1>7, <1>8, <1>12, <1>15, <1>16, <1>17, <1>18 DEF CopyInv

-----------------------------------------------------------------------------
(* Theorems *)

\* The invariant holds in every reachable state.
THEOREM UsersInvHolds == UsersSpec => []UsersInv
<1>1. UsersInit => UsersInv
  BY UsersInitInv
<1>2. UsersInv /\ [UsersNext]_userVars => UsersInv'
  <2> SUFFICES ASSUME UsersInv, [UsersNext]_userVars PROVE UsersInv'
    OBVIOUS
  <2>1. ASSUME NEW r \in Regs, NEW v \in VMs, NEW e \in Emails, Claim(r, v, e)
        PROVE  UsersInv'
    BY <2>1, ClaimStep
  <2>2. ASSUME NEW r \in Regs, RegisterStep(r) \/ Crash(r) PROVE UsersInv'
    BY <2>2, CallStep
  <2>3. ASSUME NEW k \in Keys, ClaimLapses(k) PROVE UsersInv'
    BY <2>3, LapseStep
  <2>4. ASSUME NEW v \in VMs, NEW m \in queue,
               Consume(v, m) \/ ConsumeFails(v, m) \/ Redelivered(v, m)
        PROVE  UsersInv'
    BY <2>4, HandlingStep
  <2>5. CASE UNCHANGED userVars
    BY <2>5 DEF userVars, UsersInv, UsersTypeOK, ClaimInv, ClaimsHeld, ClaimsOwned,
                RowsCommitted, RegisteredHasRow, CopyInv, NotYetSent, UndoneLast,
                OneCopy, UndoneIsGone, SentArrives, Blocked, Stage, Registered, Failed,
                KeyOf, BarInv, Known
  <2> QED BY <2>1, <2>2, <2>3, <2>4, <2>5 DEF UsersNext, Consumed
<1> QED BY <1>1, <1>2, PTL DEF UsersSpec

\* Whatever crashes, lapses and is redelivered, calls that register an address
\* through one Redis all hold the one claim, so only one does unless it lapsed;
\* and no call gets past a registered user that it found in its VM's replica.
THEOREM OneAccountHolds == UsersSpec => []OneAccount
<1>1. UsersInv => OnePerRedis
  BY DEF OnePerRedis, UsersInv, ClaimInv, ClaimsHeld, Holding
<1>2. UsersInv => ReplicaBars
  BY DEF ReplicaBars, UsersInv, BarInv
<1> QED BY <1>1, <1>2, UsersInvHolds, PTL DEF OneAccount

\* A claim that no account made through its Redis explains belongs to a call
\* that is under way, crashed, or could not publish.
THEOREM ClaimHasReasonHolds == UsersSpec => []ClaimHasReason
<1>1. UsersInv => ClaimHasReason
  <2> SUFFICES ASSUME UsersInv, NEW k \in Keys, claim[k] # 0,
                      Stage(claim[k]) \notin Active \cup {"stuck", "crashed"}
               PROVE  \E r \in Regs, v \in VMs : KeyOf(r) = k /\ r \in users[v]
    BY DEF ClaimHasReason
  <2>1. claim[k] \in Regs /\ regs[claim[k]].vm \in VMs
    BY DEF UsersInv, UsersTypeOK
  <2>2. Stage(claim[k]) = "registered" /\ KeyOf(claim[k]) = k
    BY DEF UsersInv, ClaimInv, ClaimsOwned, Holding, Active
  <2>3. claim[k] \in users[regs[claim[k]].vm]
    BY <2>1, <2>2 DEF UsersInv, ClaimInv, RegisteredHasRow
  <2> QED BY <2>1, <2>2, <2>3
<1> QED BY <1>1, UsersInvHolds, PTL

\* At rest, accounts and replicas differ only where a call crashed or could not
\* publish, another call had published for the address, or the log tells why.
THEOREM DifferenceIsNotedHolds == UsersSpec => []DifferenceIsNoted
<1>1. UsersInv => GhostIsNoted
  <2> SUFFICES ASSUME UsersInv, AtRest, NEW v \in VMs, NEW r \in replica[v],
                      Stage(r) \notin {"stuck", "crashed"}, r \notin noted
               PROVE  \E w \in VMs : r \in users[w]
    BY DEF GhostIsNoted
  <2>1. r \in Regs /\ Stage(r) \in Stages /\ regs[r].vm \in VMs
    BY DEF UsersInv, UsersTypeOK, Stage
  <2>2. Stage(r) \notin Early
    BY <2>1 DEF UsersInv, CopyInv, NotYetSent
  <2>3. Stage(r) # "failed"
    BY <2>1 DEF UsersInv, CopyInv, UndoneIsGone, AtRest
  <2>4. Stage(r) = "registered"
    BY <2>1, <2>2, <2>3 DEF Stages, Early, AtRest
  <2> QED BY <2>1, <2>4 DEF UsersInv, ClaimInv, RegisteredHasRow
<1>2. UsersInv => MissingIsNoted
  <2> SUFFICES ASSUME UsersInv, AtRest, NEW r \in Regs, Stage(r) = "registered",
                      r \notin noted, \A v \in VMs : r \notin replica[v]
               PROVE  \E q \in Regs \ {r} : /\ regs[q].email = regs[r].email
                                           /\ Stage(q) \notin {"unused", "rejected"}
    BY DEF MissingIsNoted
  <2>1. Blocked(r)
    BY DEF UsersInv, CopyInv, SentArrives, AtRest
  <2> QED BY <2>1 DEF Blocked, Early
<1> QED BY <1>1, <1>2, UsersInvHolds, PTL DEF DifferenceIsNoted
=============================================================================
