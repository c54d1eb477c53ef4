----------------------- MODULE SubscriptionMirrorProofs -----------------------
(***************************************************************************)
(* What holds of SubscriptionMirror for every number of subscriptions,     *)
(* plans, workers, changes and failures.                                   *)
(*                                                                         *)
(* The inductive invariant has three layers, each proved from the ones     *)
(* before it.  Types and jobs: a job past its start names a subscription.  *)
(* Locks: by where it stands, a job holds its subscription's lock or the   *)
(* row's, and what it read of a locked row is still so.  Versions: a       *)
(* snapshot fetched under the subscription's lock is at least as new as    *)
(* the row and as every event on record; this gives the promise of the     *)
(* mirror (MirrorPromise): no write takes the row backwards.  A fourth     *)
(* layer on top of these, at the end, is about what the row says.          *)
(***************************************************************************)
EXTENDS SubscriptionMirror, TLAPS

\* Where a job resolves a duplicate, refunds, has the row locked, works with
\* a snapshot, has its subscription locked, or has no subscription.
DuplicatePCs == {"dupFetch", "dupCancel", "dupRefund", "dupCommit", "dupReplace"}
WithdrawPCs == {"wRefund", "wCancel", "wEnd"}
RowLockedPCs == DuplicatePCs \cup WithdrawPCs
SnapPCs == {"graceCancel", "change", "mirror", "insert"} \cup DuplicatePCs
SubLockedPCs == SnapPCs \cup WithdrawPCs \cup {"lapse", "recheck", "end"}
NoSubPCs == {"idle", "vCancel", "vRow", "gInsert"}

\* A job that is about a subscription names one, and what is inserted or
\* resolved as a duplicate is a live subscription.
JobOK(w) ==
    /\ job[w].pc \notin NoSubPCs => job[w].sub \in Subs
    /\ job[w].pc \in {"insert"} \cup DuplicatePCs => LiveSnap(job[w].snap)

\* The locks a job holds, by where it stands.
LockOK(w) ==
    /\ job[w].pc \in SubLockedPCs => subLock[job[w].sub] = w
    /\ job[w].pc \in RowLockedPCs => rowLock = w

\* What a job that keeps the row locked knows of the row.
RowOK(w) ==
    /\ job[w].pc \in DuplicatePCs =>
          row.source = "payment" /\ IsLive(row)
             /\ row.ref \notin {job[w].sub, NoSub}
    /\ job[w].pc \in WithdrawPCs => PaidRow(row) /\ row.ref = job[w].sub

\* A snapshot is as new as its event, as the row and as every event of its
\* subscription on record: nothing about it moves while it is locked.
SnapOK(w) ==
    /\ job[w].pc \notin NoSubPCs => job[w].ev <= prov[job[w].sub].ver
    /\ job[w].pc \in SnapPCs =>
          /\ job[w].ev <= job[w].snap.ver
          /\ job[w].snap.ver <= prov[job[w].sub].ver
          /\ Mirrors(row, job[w].sub) => row.ver <= job[w].snap.ver
          /\ \A e \in applied :
                e[1] = job[w].sub => e[2] <= job[w].snap.ver

\* The row and the events on record, against the provider and each other.
RowVersion ==
    \A s \in Subs : Mirrors(row, s) => row.ver <= prov[s].ver
EventVersion ==
    \A e \in applied : e[2] <= prov[e[1]].ver

\* The same of every worker.
JobInv == \A w \in Workers : JobOK(w)
LockInv == \A w \in Workers : LockOK(w)
RowInv == \A w \in Workers : RowOK(w)
SnapInv == \A w \in Workers : SnapOK(w)

-----------------------------------------------------------------------------
\* What the provider calls a status is one of the row, or nothing.
LEMMA LocalStatusType ==
    ASSUME NEW x \in ProvStatus, LocalStatus(x) # "none"
    PROVE  LocalStatus(x) \in RowStatus
BY DEF LocalStatus, ProvStatus, RowStatus

\* What apply_payment_subscription writes for a mapped status is a row.
LEMMA RowOfType ==
    ASSUME NEW r \in Rows, NEW s \in Subs, NEW x \in Snapshots,
           LocalStatus(x.status) # "none", NEW at \in Nat
    PROVE  RowOf(r, s, x, at) \in Rows
<1>1. x.status \in ProvStatus /\ x.end \in Int /\ x.ver \in Nat
      /\ x.plan \in Plans \cup {NoSub}
  BY DEF Snapshots
<1>2. LocalStatus(x.status) \in RowStatus
  BY <1>1, LocalStatusType
<1>3. GraceStart(r, s, at) \in Int
  BY DEF GraceStart, Rows
<1>. QED  BY <1>1, <1>2, <1>3 DEF RowOf, Rows, NoTime

\* A restored staff grant is a row.
LEMMA RestoredType ==
    ASSUME NEW r \in Rows, NEW g \in Grants, NEW at \in Nat
    PROVE  Restored(r, g, at) \in Rows
BY DEF Restored, Rows, Grants, RowStatus, ProvStatus, NoTime

\* Whatever apply_payment_subscription decides, a row stays a row.
LEMMA AppliedType ==
    ASSUME NEW r \in Rows, NEW s \in Subs, NEW x \in Snapshots,
           NEW g \in Grants, NEW at \in Nat
    PROVE  Applied(r, s, x, g, at) \in Rows
<1>1. CASE Changes(r, s, x)
  <2>1. RowOf(r, s, x, at) \in Rows
    BY <1>1, RowOfType DEF Changes
  <2>. QED  BY <1>1, <2>1, RestoredType DEF Applied
<1>2. CASE ~Changes(r, s, x)
  BY <1>2 DEF Applied, Rows, Snapshots
<1>. QED  BY <1>1, <1>2

\* What end_paid_subscription leaves is a row.
LEMMA EndedType ==
    ASSUME NEW r \in Rows, NEW s \in Subs, NEW v \in Nat,
           NEW g \in Grants, NEW at \in Nat
    PROVE  Ended(r, s, v, g, at) \in Rows
<1>. DEFINE e == [status |-> "canceled", source |-> "payment", ref |-> s,
                  end |-> at, pds |-> NoTime, plan |-> r.plan,
                  pst |-> "canceled", ver |-> v]
<1>1. e \in Rows
  BY DEF Rows, RowStatus, ProvStatus, NoTime
<1>. QED  BY <1>1, RestoredType DEF Ended

\* An expired row is a row.
LEMMA LapsedType ==
    ASSUME NEW r \in Rows, NEW s \in Subs, NEW at \in Nat
    PROVE  Lapsed(r, s, at) \in Rows
BY DEF Lapsed, Rows, RowStatus

\* What a row that mirrors a subscription after a write tells of the row
\* before it.
LEMMA RestoredMirrors ==
    ASSUME NEW r, NEW g, NEW at, NEW t, Mirrors(Restored(r, g, at), t)
    PROVE  Restored(r, g, at) = r
BY DEF Restored, Mirrors

\* Mirroring `s` puts its snapshot in the row, or leaves another one alone.
LEMMA AppliedMirrors ==
    ASSUME NEW r \in Rows, NEW s \in Subs, NEW x \in Snapshots,
           NEW g \in Grants, NEW at \in Nat, NEW t \in Subs,
           Mirrors(Applied(r, s, x, g, at), t)
    PROVE  \/ t = s /\ Applied(r, s, x, g, at).ver = x.ver
           \/ t # s /\ Applied(r, s, x, g, at) = r
<1>1. CASE Changes(r, s, x)
  <2>1. Applied(r, s, x, g, at) = RowOf(r, s, x, at)
    BY <1>1, RestoredMirrors DEF Applied
  <2>. QED  BY <2>1 DEF RowOf, Mirrors
<1>2. CASE ~Changes(r, s, x)
  BY <1>2 DEF Applied, Mirrors, Rows
<1>. QED  BY <1>1, <1>2

\* Ending `s` stamps its version on its own row only.
LEMMA EndedMirrors ==
    ASSUME NEW r \in Rows, NEW s \in Subs, NEW v \in Nat,
           NEW g \in Grants, NEW at \in Nat, NEW t \in Subs,
           Mirrors(Ended(r, s, v, g, at), t)
    PROVE  \/ t = s /\ Mirrors(r, s) /\ Ended(r, s, v, g, at).ver = v
           \/ Ended(r, s, v, g, at) = r
<1>. DEFINE e == [status |-> "canceled", source |-> "payment", ref |-> s,
                  end |-> at, pds |-> NoTime, plan |-> r.plan,
                  pst |-> "canceled", ver |-> v]
<1>1. CASE Mirrors(r, s) /\ IsLive(r)
  <2>1. Ended(r, s, v, g, at) = e
    BY <1>1, RestoredMirrors DEF Ended
  <2>. QED  BY <1>1, <2>1 DEF Mirrors
<1>2. CASE ~(Mirrors(r, s) /\ IsLive(r))
  BY <1>2 DEF Ended
<1>. QED  BY <1>1, <1>2

\* Expiring a row changes neither its subscription nor its version.
LEMMA LapsedMirrors ==
    ASSUME NEW r \in Rows, NEW s \in Subs, NEW at \in Nat, NEW t \in Subs
    PROVE  /\ Mirrors(Lapsed(r, s, at), t) <=> Mirrors(r, t)
           /\ Lapsed(r, s, at).ver = r.ver
BY DEF Lapsed, Mirrors, Rows

-----------------------------------------------------------------------------
(* Type correctness. *)

\* Ending a job keeps jobs and locks typed.
LEMMA FinishType ==
    ASSUME TypeOK, NEW w \in Workers, Finish(w)
    PROVE  /\ job' \in [Workers -> Jobs]
           /\ subLock' \in [Subs -> Workers \cup {NoWorker}]
           /\ rowLock' \in Workers \cup {NoWorker}
<1>1. NoJob \in Jobs
  BY DEF NoJob, Jobs, NoSnap, NoTime, Snapshots, ProvStatus, PCs
<1>. QED  BY <1>1 DEF TypeOK, Finish

\* A job that gives up before any write keeps every type.
LEMMA AbortType ==
    ASSUME TypeOK, NEW w \in Workers, Abort(w)
    PROVE  TypeOK'
<1>1. /\ job' \in [Workers -> Jobs]
      /\ subLock' \in [Subs -> Workers \cup {NoWorker}]
      /\ rowLock' \in Workers \cup {NoWorker}
  BY FinishType DEF Abort
<1>. QED  BY <1>1 DEF Abort, TypeOK, ledger

\* Moving on inside a job keeps jobs typed.
LEMMA GotoType ==
    ASSUME TypeOK, NEW w \in Workers, NEW pc \in PCs, Goto(w, pc)
    PROVE  job' \in [Workers -> Jobs]
BY DEF TypeOK, Goto, Jobs

\* What a subscription is at the provider is a snapshot.
LEMMA SnapshotType ==
    ASSUME TypeOK, NEW w \in Workers, NEW pc \in PCs, NEW y \in Snapshots
    PROVE  [job EXCEPT ![w].pc = pc, ![w].snap = y] \in [Workers -> Jobs]
<1>. DEFINE j == [job[w] EXCEPT !.pc = pc, !.snap = y]
<1>1. job \in [Workers -> Jobs] /\ job[w] \in Jobs
  BY DEF TypeOK
<1>2. j \in Jobs
  BY <1>1 DEF Jobs
<1>3. [job EXCEPT ![w].pc = pc, ![w].snap = y] = [job EXCEPT ![w] = j]
  BY <1>1
<1>4. [job EXCEPT ![w] = j] \in [Workers -> Jobs]
  <2>. HIDE DEF j
  <2>. QED  BY <1>1, <1>2
<1>. QED  BY <1>3, <1>4

\* Starting a job keeps every type.
LEMMA StartType ==
    ASSUME TypeOK, NEW w \in Workers, NEW op, NEW pc \in PCs,
           NEW s \in Subs \cup {NoSub}, NEW ev \in Nat, NEW todo \in SUBSET Subs,
           Start(w, op, pc, s, ev, todo)
    PROVE  TypeOK'
<1>. DEFINE j == [op |-> op, pc |-> pc, sub |-> s, ev |-> ev,
                  snap |-> NoSnap, cur |-> NoSnap, todo |-> todo]
<1>1. op \in AllRequests
  BY Bounds DEF Start
<1>2. NoSnap \in Snapshots
  BY DEF NoSnap, NoTime, Snapshots, ProvStatus
<1>3. j \in Jobs
  BY <1>1, <1>2 DEF Jobs
<1>. QED  BY <1>3 DEF TypeOK, Start, ledger, locks

\* A change at the provider keeps its subscriptions typed.
LEMMA ChangedType ==
    ASSUME TypeOK, NEW s \in Subs, NEW st \in ProvStatus, NEW e \in Int,
           NEW plan \in Plans \cup {NoSub}
    PROVE  Changed(s, st, e, plan) \in [Subs -> Snapshots]
BY DEF TypeOK, Changed, Snapshots

\* So does canceling one at once.
LEMMA CanceledNowType ==
    ASSUME TypeOK, NEW s \in Subs
    PROVE  CanceledNow(s) \in [Subs -> Snapshots]
BY ChangedType DEF TypeOK, CanceledNow, Snapshots, ProvStatus

\* Recording an event keeps the events typed.
LEMMA RecordEventType ==
    ASSUME TypeOK, JobInv, NEW w \in Workers, job[w].pc \notin NoSubPCs,
           RecordEvent(w)
    PROVE  applied' \subseteq Subs \X Nat
BY DEF TypeOK, JobInv, JobOK, RecordEvent, Jobs

\* So do the replaced grants stay grants.
LEMMA RecordReplacedType ==
    ASSUME NEW rep \in [Subs -> Grants], NEW r \in Rows, NEW s, NEW x, NEW at
    PROVE  RecordReplaced(rep, r, s, x, at) \in [Subs -> Grants]
BY DEF RecordReplaced, Grants, Rows

\* What a staff grant or a trial writes is a row.
LEMMA GrantRowType ==
    ASSUME NEW r \in Rows, NEW plan \in Plans,
           NEW source \in {"admin", "other"}, NEW at \in Nat
    PROVE  GrantRow(r, plan, source, at) \in Rows
<1>. DEFINE end == IF r.end = NoTime THEN NoTime
                   ELSE (IF r.end > at THEN r.end ELSE at) + GrantDays
<1>1. end \in Int
  BY Durations DEF Rows, NoTime
<1>2. [r EXCEPT !.status = "active", !.source = source, !.end = end] \in Rows
  BY <1>1 DEF Rows, RowStatus
<1>3. at + GrantDays \in Int
  BY Durations
<1>. QED  BY <1>2, <1>3 DEF GrantRow, Rows, RowStatus, ProvStatus, NoTime

\* The steps of the provider keep every type.
LEMMA ProviderType ==
    ASSUME TypeOK, NEW s \in Subs,
           \/ \E plan \in Plans : Buy(s, plan) \/ PortalChange(s, plan)
           \/ ChargeSucceeds(s) \/ ChargeFails(s) \/ GivesUp(s) \/ ChargeReversed(s) \/ Forgets(s)
    PROVE  TypeOK'
<1>1. ASSUME NEW st \in ProvStatus, NEW e \in Int,
             NEW pl \in Plans \cup {NoSub}, Moves(s, st, e, pl)
      PROVE  /\ prov' \in [Subs -> Snapshots]
             /\ UNCHANGED <<now, row, ledger, locks, job, failures>>
  BY <1>1, ChangedType DEF Moves
<1>2. prov[s].end \in Int /\ prov[s].plan \in Plans \cup {NoSub}
      /\ NextEnd(s) \in Int /\ now + Period \in Int
  BY Durations DEF TypeOK, Snapshots, NextEnd
<1>3. ASSUME Charges(s)
      PROVE  money' \in [Subs -> {"none", "charged", "refunded", "disputed"}]
  BY <1>3 DEF TypeOK, Charges
<1>4. CASE ChargeReversed(s)
  BY <1>4 DEF ChargeReversed, TypeOK, ledger, locks
<1>5. CASE ~ChargeReversed(s)
  <2>1. \E st \in ProvStatus, e \in Int, pl \in Plans \cup {NoSub} :
          Moves(s, st, e, pl)
    BY <1>2, <1>5 DEF Buy, PortalChange, ChargeSucceeds, ChargeFails,
                      GivesUp, Forgets, ProvStatus
  <2>2. Charges(s) \/ UNCHANGED money
    BY <1>5 DEF Buy, PortalChange, ChargeSucceeds, ChargeFails, GivesUp, Forgets
  <2>. QED  BY <1>1, <1>3, <2>1, <2>2 DEF TypeOK, ledger, locks
<1>. QED  BY <1>4, <1>5

\* Whatever starts a job keeps every type.
LEMMA BeginType ==
    ASSUME TypeOK, NEW w \in Workers, Begin(w)
    PROVE  TypeOK'
<1>1. ASSUME NEW s \in Subs, Webhook(w, s) \/ Sweep(w, s) \/ ChargeEvent(w, s)
      PROVE  TypeOK'
  <2>1. CASE Webhook(w, s)
    <3>1. PICK v \in 1 .. MaxVersion + 1 : Deliver(w, s, v)
      BY <2>1 DEF Webhook
    <3>2. v \in Nat
      BY Bounds
    <3>. QED  BY <3>1, <3>2, StartType DEF Deliver, PCs
  <2>2. CASE Sweep(w, s)
    BY <2>2, StartType DEF Sweep, PCs
  <2>3. CASE ChargeEvent(w, s)
    BY <2>3, StartType DEF ChargeEvent, PCs
  <2>. QED  BY <1>1, <2>1, <2>2, <2>3
<1>2. row.ref \in Subs \cup {NoSub}
  BY DEF TypeOK, Rows
<1>3. CASE ReconcileDue(w) \/ Withdraw(w) \/ ChangePlan(w)
  <2>1. PICK op \in AllRequests, s \in Subs \cup {NoSub} :
          Start(w, op, "lockSub", s, 0, {})
    BY <1>2, <1>3 DEF ReconcileDue, Withdraw, ChangePlan, AllRequests
  <2>2. "lockSub" \in PCs /\ 0 \in Nat /\ {} \in SUBSET Subs
    BY DEF PCs
  <2>. QED  BY <2>1, <2>2, StartType
<1>4. CASE Revoke(w)
  <2>1. PICK todo \in SUBSET Subs : Start(w, "revoke", "vCancel", NoSub, 0, todo)
    BY <1>4 DEF Revoke
  <2>2. "vCancel" \in PCs /\ 0 \in Nat
    BY DEF PCs
  <2>. QED  BY <2>1, <2>2, StartType
<1>5. CASE GrantAbsent(w)
  <2>1. "gInsert" \in PCs /\ 0 \in Nat /\ {} \in SUBSET Subs
    BY DEF PCs
  <2>. QED  BY <1>5, <2>1, StartType DEF GrantAbsent
<1>. QED  BY <1>1, <1>3, <1>4, <1>5 DEF Begin

\* The steps of a sync up to its ordinary end keep every type.
LEMMA SyncStepType ==
    ASSUME TypeOK, JobInv, RowInv, NEW w \in Workers,
           \/ LockSub(w) \/ LockFetch(w) \/ FetchRefused(w) \/ GraceCancel(w)
           \/ CancelMissing(w) \/ ChangePrice(w) \/ MirrorSeen(w)
           \/ MirrorApply(w) \/ MirrorAbsent(w) \/ InsertAbsent(w)
    PROVE  TypeOK'
<1>. DEFINE s == job[w].sub
            x == job[w].snap
<1>1. /\ s \in Subs \cup {NoSub} /\ x \in Snapshots
      /\ job[w].pc \notin NoSubPCs => s \in Subs
  BY DEF TypeOK, JobInv, JobOK, Jobs
<1>2. /\ now \in Nat /\ row \in Rows /\ NoRow \in Rows
      /\ replaced \in [Subs -> Grants]
      /\ s \in Subs => replaced[s] \in Grants
  BY DEF TypeOK, NoRow, NoTime, Rows, RowStatus, ProvStatus
<1>3. CASE LockSub(w)
  <2>1. job' \in [Workers -> Jobs]
    BY <1>3, GotoType DEF LockSub, PCs
  <2>2. subLock' \in [Subs -> Workers \cup {NoWorker}]
    BY <1>3 DEF LockSub, TakeSubLock, TypeOK
  <2>. QED  BY <1>3, <2>1, <2>2 DEF LockSub, TypeOK, ledger
<1>4. CASE LockFetch(w)
  <2>1. s \in Subs /\ prov[s] \in Snapshots
    BY <1>1, <1>4 DEF LockFetch, TakeSubLock, NoSubPCs, TypeOK
  <2>2. AfterFetch(w, prov[s]) \in PCs /\ "lapse" \in PCs
    BY DEF AfterFetch, PCs
  <2>3. job' \in [Workers -> Jobs]
    BY <1>4, <2>1, <2>2, GotoType DEF LockFetch, TypeOK, Jobs
  <2>4. subLock' \in [Subs -> Workers \cup {NoWorker}]
    BY <1>4 DEF LockFetch, TakeSubLock, TypeOK
  <2>. QED  BY <1>4, <2>3, <2>4 DEF LockFetch, TypeOK, ledger
<1>5. CASE FetchRefused(w) \/ CancelMissing(w) \/ MirrorSeen(w)
  BY <1>5, AbortType DEF FetchRefused, CancelMissing, MirrorSeen
<1>6. CASE GraceCancel(w)
  <2>1. s \in Subs
    BY <1>1, <1>6 DEF GraceCancel, NoSubPCs
  <2>2. prov' \in [Subs -> Snapshots]
    BY <1>6, <2>1, CanceledNowType DEF GraceCancel
  <2>3. PICK y \in Snapshots : y = prov'[s]
    BY <2>1, <2>2
  <2>4. job' = [job EXCEPT ![w].pc = "mirror", ![w].snap = y]
    BY <1>6, <2>3 DEF GraceCancel
  <2>5. job' \in [Workers -> Jobs]
    BY <2>3, <2>4, SnapshotType DEF PCs
  <2>. QED  BY <1>6, <2>2, <2>5 DEF GraceCancel, TypeOK, ledger, locks
<1>7. CASE ChangePrice(w)
  <2>1. CASE Abort(w)
    BY <2>1, AbortType
  <2>2. CASE ~Abort(w)
    <3>1. s \in Subs
      BY <1>1, <1>7 DEF ChangePrice, NoSubPCs
    <3>2. PICK plan \in Plans : prov' = Changed(s, prov[s].status, prov[s].end, plan)
      BY <1>7, <2>2 DEF ChangePrice
    <3>3. prov' \in [Subs -> Snapshots]
      BY <3>1, <3>2, ChangedType DEF TypeOK, Snapshots
    <3>4. prov'[s] \in Snapshots
      BY <3>1, <3>3
    <3>5. job' = [job EXCEPT ![w].pc = "mirror", ![w].snap = prov'[s]]
      BY <1>7, <2>2 DEF ChangePrice
    <3>6. job' \in [Workers -> Jobs]
      BY <3>4, <3>5, SnapshotType DEF PCs
    <3>. QED  BY <1>7, <2>2, <3>3, <3>6 DEF ChangePrice, TypeOK, ledger, locks
  <2>. QED  BY <2>1, <2>2
<1>8. CASE MirrorApply(w)
  <2>1. s \in Subs /\ job[w].pc \notin NoSubPCs
    BY <1>1, <1>8 DEF MirrorApply, NewEvent, NoSubPCs
  <2>2. Applied(row, s, x, replaced[s], now) \in Rows
    BY <1>1, <1>2, <2>1, AppliedType
  <2>3. row' \in Rows
    BY <1>2, <1>8, <2>1, <2>2, LapsedType DEF MirrorApply
  <2>4. replaced' \in [Subs -> Grants]
    BY <1>2, <1>8, RecordReplacedType DEF MirrorApply
  <2>5. applied' \subseteq Subs \X Nat
    BY <1>8, <2>1, RecordEventType DEF MirrorApply
  <2>. QED  BY <1>8, <2>3, <2>4, <2>5, FinishType DEF MirrorApply, TypeOK
<1>9. CASE MirrorAbsent(w)
  <2>1. job' \in [Workers -> Jobs]
    BY <1>9, GotoType DEF MirrorAbsent, PCs
  <2>. QED  BY <1>9, <2>1 DEF MirrorAbsent, TypeOK, ledger, locks
<1>10. CASE InsertAbsent(w)
  <2>1. s \in Subs /\ job[w].pc \notin NoSubPCs /\ LiveSnap(x)
    BY <1>1, <1>10 DEF InsertAbsent, NoSubPCs, JobInv, JobOK
  <2>2. row' \in Rows
    BY <1>1, <1>2, <1>10, <2>1, RowOfType DEF InsertAbsent, LiveSnap
  <2>3. applied' \subseteq Subs \X Nat
    BY <1>10, <2>1, RecordEventType DEF InsertAbsent
  <2>. QED  BY <1>10, <2>2, <2>3, FinishType DEF InsertAbsent, TypeOK
<1>. QED  BY <1>3, <1>4, <1>5, <1>6, <1>7, <1>8, <1>9, <1>10

\* Canceling in the middle of a job keeps every type.
LEMMA CancelThenType ==
    ASSUME TypeOK, NEW w \in Workers, NEW from, NEW pc \in PCs,
           job[w].sub \in Subs, CancelThen(w, from, pc)
    PROVE  TypeOK'
<1>1. prov' \in [Subs -> Snapshots]
  BY CanceledNowType DEF CancelThen
<1>2. job' \in [Workers -> Jobs]
  BY GotoType DEF CancelThen
<1>. QED  BY <1>1, <1>2 DEF CancelThen, TypeOK, ledger, locks

\* Ending the row of a job keeps the row typed.
LEMMA EndRowType ==
    ASSUME TypeOK, NEW w \in Workers, job[w].sub \in Subs, EndRow(w)
    PROVE  row' \in Rows
<1>1. prov[job[w].sub].ver \in Nat
  BY DEF TypeOK, Snapshots
<1>. QED  BY <1>1, EndedType DEF EndRow, TypeOK

\* The remaining steps of a job keep every type.
LEMMA OtherStepType ==
    ASSUME TypeOK, JobInv, RowInv, NEW w \in Workers,
           \/ MirrorDuplicate(w) \/ DupFetch(w) \/ DupCancel(w) \/ DupRefund(w)
           \/ DupCommit(w) \/ DupReplace(w) \/ Lapse(w)
           \/ Recheck(w) \/ WithdrawRefund(w) \/ WithdrawCancel(w)
           \/ WithdrawEnd(w) \/ EventCancel(w) \/ EventEnd(w)
           \/ RevokeCancel(w) \/ RevokeRow(w) \/ GrantInsert(w)
    PROVE  TypeOK'
<1>. DEFINE s == job[w].sub
            x == job[w].snap
<1>1. /\ s \in Subs \cup {NoSub} /\ x \in Snapshots
      /\ job[w].pc \notin NoSubPCs => s \in Subs
  BY DEF TypeOK, JobInv, JobOK, Jobs
<1>2. /\ now \in Nat /\ row \in Rows /\ NoRow \in Rows
      /\ replaced \in [Subs -> Grants]
      /\ s \in Subs => replaced[s] \in Grants
  BY DEF TypeOK, NoRow, NoTime, Rows, RowStatus, ProvStatus
<1>3. job[w].pc \in DuplicatePCs => row.ref \in Subs
  BY DEF TypeOK, Rows, RowInv, RowOK, DuplicatePCs
<1>4. CASE MirrorDuplicate(w)
  <2>1. job' \in [Workers -> Jobs]
    BY <1>4, GotoType DEF MirrorDuplicate, PCs
  <2>. QED  BY <1>4, <2>1 DEF MirrorDuplicate, TypeOK, ledger
<1>5. CASE DupFetch(w)
  <2>1. prov[row.ref] \in Snapshots
    BY <1>3, <1>5 DEF DupFetch, DuplicatePCs, TypeOK
  <2>2. job' \in [Workers -> Jobs]
    BY <1>5, <2>1 DEF DupFetch, TypeOK, Jobs, PCs
  <2>. QED  BY <1>5, <2>2 DEF DupFetch, TypeOK, ledger, locks
<1>6. CASE DupCancel(w) \/ WithdrawCancel(w) \/ EventCancel(w)
  <2>1. PICK from, pc \in PCs : CancelThen(w, from, pc) /\ from \notin NoSubPCs
    BY <1>6 DEF DupCancel, WithdrawCancel, EventCancel, PCs, NoSubPCs
  <2>2. s \in Subs
    BY <1>1, <2>1 DEF CancelThen
  <2>. QED  BY <2>1, <2>2, CancelThenType
<1>7. CASE DupRefund(w)
  <2>1. CASE Abort(w)
    BY <2>1, AbortType
  <2>2. CASE ~Abort(w)
    <3>1. job' \in [Workers -> Jobs]
      BY <1>7, <2>2, GotoType DEF DupRefund, PCs
    <3>. QED  BY <1>7, <2>2, <3>1 DEF DupRefund, TypeOK, ledger, locks
  <2>. QED  BY <2>1, <2>2
<1>8. CASE DupCommit(w)
  <2>1. s \in Subs /\ job[w].pc \notin NoSubPCs
    BY <1>1, <1>8 DEF DupCommit, NoSubPCs
  <2>2. row' \in Rows
    BY <1>2, <1>8, <2>1, LapsedType DEF DupCommit
  <2>3. applied' \subseteq Subs \X Nat
    BY <1>8, <2>1, RecordEventType DEF DupCommit
  <2>. QED  BY <1>8, <2>2, <2>3, FinishType DEF DupCommit, TypeOK
<1>9. CASE DupReplace(w)
  <2>. DEFINE cur == job[w].cur
              g == replaced[row.ref]
              ended == EndCurrent(row, cur, g, now)
  <2>1. s \in Subs /\ job[w].pc \notin NoSubPCs /\ row.ref \in Subs
        /\ g \in Grants /\ cur \in Snapshots /\ cur.ver \in Nat
    BY <1>1, <1>2, <1>3, <1>9
    DEF DupReplace, NoSubPCs, DuplicatePCs, TypeOK, Jobs, Snapshots
  <2>2. ended \in Rows
    BY <1>2, <2>1, AppliedType, EndedType DEF EndCurrent
  <2>3. Applied(ended, s, x, replaced[s], now) \in Rows
    BY <1>1, <1>2, <2>1, <2>2, AppliedType
  <2>4. row' \in Rows
    BY <1>2, <1>9, <2>1, <2>3, LapsedType DEF DupReplace
  <2>5. replaced' \in [Subs -> Grants]
    BY <1>2, <1>9, <2>2, RecordReplacedType DEF DupReplace
  <2>6. applied' \subseteq Subs \X Nat
    BY <1>9, <2>1, RecordEventType DEF DupReplace
  <2>. QED  BY <1>9, <2>4, <2>5, <2>6, FinishType DEF DupReplace, TypeOK
<1>10. CASE Lapse(w)
  <2>1. row' \in Rows
    BY <1>1, <1>2, <1>10, LapsedType DEF Lapse, NoSubPCs
  <2>. QED  BY <1>10, <2>1, FinishType DEF Lapse, TypeOK, ledger
<1>11. CASE Recheck(w)
  <2>1. CASE Abort(w)
    BY <2>1, AbortType
  <2>2. CASE ~Abort(w)
    <3>1. job' \in [Workers -> Jobs]
      BY <1>11, <2>2, GotoType DEF Recheck, PCs
    <3>. QED  BY <1>11, <2>2, <3>1 DEF Recheck, TypeOK, ledger
  <2>. QED  BY <2>1, <2>2
<1>12. CASE WithdrawRefund(w)
  <2>1. CASE Abort(w)
    BY <2>1, AbortType
  <2>2. CASE ~Abort(w)
    <3>1. job' \in [Workers -> Jobs]
      BY <1>12, <2>2, GotoType DEF WithdrawRefund, PCs
    <3>. QED  BY <1>12, <2>2, <3>1 DEF WithdrawRefund, TypeOK, ledger, locks
  <2>. QED  BY <2>1, <2>2
<1>13. CASE WithdrawEnd(w)
  <2>1. row' \in Rows
    BY <1>1, <1>13, EndRowType DEF WithdrawEnd, NoSubPCs
  <2>. QED  BY <1>13, <2>1, FinishType DEF WithdrawEnd, TypeOK
<1>14. CASE EventEnd(w)
  <2>1. row' \in Rows
    BY <1>1, <1>14, EndRowType DEF EventEnd, NoSubPCs
  <2>. QED  BY <1>14, <2>1, FinishType DEF EventEnd, TypeOK, ledger
<1>15. CASE RevokeCancel(w)
  <2>1. CASE Abort(w)
    BY <2>1, AbortType
  <2>2. CASE job[w].todo = {} /\ Goto(w, "vRow")
             /\ UNCHANGED <<now, prov, money, row, ledger, locks, failures>>
    <3>1. job' \in [Workers -> Jobs]
      BY <2>2, GotoType DEF PCs
    <3>. QED  BY <2>2, <3>1 DEF TypeOK, ledger, locks
  <2>3. ASSUME NEW c \in job[w].todo, prov' = CanceledNow(c),
               job' = [job EXCEPT ![w].todo = @ \ {c}],
               UNCHANGED <<now, money, row, ledger, locks, failures>>
        PROVE  TypeOK'
    <3>1. c \in Subs
      BY DEF TypeOK, Jobs
    <3>2. prov' \in [Subs -> Snapshots]
      BY <2>3, <3>1, CanceledNowType
    <3>3. job' \in [Workers -> Jobs]
      BY <2>3 DEF TypeOK, Jobs
    <3>. QED  BY <2>3, <3>2, <3>3 DEF TypeOK, ledger, locks
  <2>. QED  BY <1>15, <2>1, <2>2, <2>3 DEF RevokeCancel
<1>16. CASE RevokeRow(w)
  <2>1. PICK r \in Rows : r = [row EXCEPT !.status = "expired"]
    BY <1>2 DEF Rows, RowStatus
  <2>2. row' = row \/ row' = [r EXCEPT !.end = now]
    BY <1>16, <2>1 DEF RevokeRow
  <2>3. row' \in Rows
    BY <1>2, <2>2 DEF Rows
  <2>. QED  BY <1>16, <2>3, FinishType DEF RevokeRow, TypeOK, ledger
<1>17. CASE GrantInsert(w)
  <2>1. PICK plan \in Plans, source \in {"admin", "other"} :
          row' = [GrantRow(NoRow, plan, source, now)
                    EXCEPT !.ref = row.ref, !.ver = row.ver]
    BY <1>17 DEF GrantInsert
  <2>2. GrantRow(NoRow, plan, source, now) \in Rows
    BY <1>2, GrantRowType
  <2>3. row' \in Rows
    BY <1>2, <2>1, <2>2 DEF Rows
  <2>. QED  BY <1>17, <2>3, FinishType DEF GrantInsert, TypeOK, ledger
<1>. QED  BY <1>4, <1>5, <1>6, <1>7, <1>8, <1>9, <1>10, <1>11, <1>12, <1>13,
             <1>14, <1>15, <1>16, <1>17

\* Every step of the system keeps every type.
LEMMA TypeStep ==
    ASSUME TypeOK, JobInv, RowInv, [Next]_vars
    PROVE  TypeOK'
<1>1. CASE Provider
  BY <1>1, ProviderType DEF Provider
<1>2. CASE Tick
  BY <1>2 DEF Tick, TypeOK, ledger, locks
<1>3. CASE ExpireGrant
  <2>1. row' \in Rows
    BY <1>3 DEF ExpireGrant, TypeOK, Rows, RowStatus
  <2>. QED  BY <1>3, <2>1 DEF ExpireGrant, TypeOK, ledger, locks
<1>4. CASE \E plan \in Plans : Grant(plan)
  <2>1. row' \in Rows
    BY <1>4, GrantRowType DEF Grant, TypeOK
  <2>. QED  BY <1>4, <2>1 DEF Grant, TypeOK, ledger, locks
<1>5. ASSUME NEW w \in Workers, Begin(w) \/ Step(w)
      PROVE  TypeOK'
  BY <1>5, BeginType, SyncStepType, OtherStepType DEF Step
<1>6. ASSUME NEW w \in Workers, Fail(w)
      PROVE  TypeOK'
  BY <1>6, FinishType DEF Fail, TypeOK, ledger
<1>7. CASE UNCHANGED vars
  BY <1>7 DEF vars, TypeOK
<1>. QED  BY <1>1, <1>2, <1>3, <1>4, <1>5, <1>6, <1>7 DEF Next

-----------------------------------------------------------------------------
(* Jobs and the locks they hold. *)

\* A step of `w` leaves every other job, and the locks it holds, alone.
Frame(w) ==
    \A u \in Workers \ {w} :
        /\ job'[u] = job[u]
        /\ \A s \in Subs : subLock[s] = u => subLock'[s] = u
        /\ rowLock = u => rowLock' = u

\* ... and keeps what is known of the job of `w` itself.
Kept(w) == Frame(w) /\ JobOK(w)' /\ LockOK(w)'

\* A job that ends keeps to itself and holds nothing.
LEMMA FinishKept ==
    ASSUME TypeOK, NEW w \in Workers, Finish(w)
    PROVE  Kept(w) /\ job'[w] = NoJob
<1>1. job'[w] = NoJob /\ \A u \in Workers \ {w} : job'[u] = job[u]
  BY DEF TypeOK, Finish
<1>2. \A u \in Workers \ {w} :
        /\ \A s \in Subs : subLock[s] = u => subLock'[s] = u
        /\ rowLock = u => rowLock' = u
  BY DEF TypeOK, Finish
<1>3. job'[w].pc = "idle"
  BY <1>1 DEF NoJob
<1>. QED  BY <1>1, <1>2, <1>3 DEF Kept, Frame, JobOK, LockOK, NoSubPCs,
            SubLockedPCs, RowLockedPCs, SnapPCs, DuplicatePCs, WithdrawPCs

\* A job that starts keeps to itself and holds no lock yet.
LEMMA StartKept ==
    ASSUME TypeOK, NEW w \in Workers, NEW op,
           NEW pc \in {"lockSub", "eCancel", "vCancel", "gInsert"},
           NEW s \in Subs \cup {NoSub}, NEW ev, NEW todo,
           pc \in {"lockSub", "eCancel"} => s \in Subs,
           Start(w, op, pc, s, ev, todo)
    PROVE  /\ Kept(w) /\ job'[w].pc = pc /\ job'[w].sub = s /\ job'[w].ev = ev
           /\ UNCHANGED <<prov, row, applied>>
<1>1. /\ job'[w].pc = pc /\ job'[w].sub = s /\ job'[w].ev = ev
      /\ UNCHANGED <<prov, row, applied>>
      /\ \A u \in Workers \ {w} : job'[u] = job[u]
      /\ UNCHANGED <<subLock, rowLock>>
  BY DEF TypeOK, Start, locks, ledger
<1>. QED  BY <1>1 DEF Kept, Frame, JobOK, LockOK, NoSubPCs,
            SubLockedPCs, RowLockedPCs, SnapPCs, DuplicatePCs, WithdrawPCs

\* Whatever starts a job names its subscription, and no event of the future.
LEMMA BeginKept ==
    ASSUME TypeOK, NEW w \in Workers, Begin(w)
    PROVE  /\ Kept(w)
           /\ job'[w].pc \in NoSubPCs \cup {"lockSub", "eCancel"}
           /\ \/ job'[w].pc \in NoSubPCs
              \/ job'[w].ev = 0
              \/ job'[w].ev <= prov[job'[w].sub].ver
           /\ UNCHANGED <<prov, row, applied>>
<1>1. ASSUME NEW s \in Subs, Webhook(w, s)
      PROVE  /\ Kept(w) /\ job'[w].pc = "lockSub"
             /\ job'[w].sub = s /\ job'[w].ev <= prov[s].ver
             /\ UNCHANGED <<prov, row, applied>>
  <2>1. PICK v \in 1 .. MaxVersion + 1 : Deliver(w, s, v)
    BY <1>1 DEF Webhook
  <2>2. v <= prov[s].ver
    BY <2>1 DEF Deliver, TypeOK, Snapshots
  <2>. QED  BY <2>1, <2>2, StartKept DEF Deliver
<1>2. ASSUME NEW s \in Subs, Sweep(w, s) \/ ChargeEvent(w, s)
      PROVE  /\ Kept(w) /\ job'[w].pc \in {"lockSub", "eCancel"}
             /\ job'[w].ev = 0
             /\ UNCHANGED <<prov, row, applied>>
  <2>1. CASE Sweep(w, s)
    BY <2>1, StartKept DEF Sweep
  <2>2. CASE ChargeEvent(w, s)
    BY <2>2, StartKept DEF ChargeEvent
  <2>. QED  BY <1>2, <2>1, <2>2
<1>3. ASSUME ReconcileDue(w) \/ Withdraw(w) \/ ChangePlan(w)
      PROVE  /\ Kept(w) /\ job'[w].pc = "lockSub" /\ job'[w].ev = 0
             /\ UNCHANGED <<prov, row, applied>>
  <2>1. row.ref \in Subs
    BY <1>3 DEF ReconcileDue, IsDue, Withdraw, PaidRow, ChangePlan, TypeOK, Rows
  <2>2. PICK op \in AllRequests, s \in Subs :
          Start(w, op, "lockSub", s, 0, {})
    BY <1>3, <2>1 DEF ReconcileDue, Withdraw, ChangePlan, AllRequests
  <2>. QED  BY <2>2, StartKept
<1>4. ASSUME Revoke(w) \/ GrantAbsent(w)
      PROVE  /\ Kept(w) /\ job'[w].pc \in NoSubPCs
             /\ UNCHANGED <<prov, row, applied>>
  <2>1. CASE Revoke(w)
    BY <2>1, StartKept DEF Revoke, NoSubPCs
  <2>2. CASE GrantAbsent(w)
    BY <2>2, StartKept DEF GrantAbsent, NoSubPCs
  <2>. QED  BY <1>4, <2>1, <2>2
<1>. QED  BY <1>1, <1>2, <1>3, <1>4 DEF Begin

\* Moving on without taking or dropping a lock keeps what is known.
LEMMA GotoKept ==
    ASSUME TypeOK, JobInv, LockInv, NEW w \in Workers, NEW pc \in PCs,
           Goto(w, pc), UNCHANGED locks, job[w].pc \notin NoSubPCs,
           pc \in SubLockedPCs => job[w].pc \in SubLockedPCs,
           pc \in RowLockedPCs => job[w].pc \in RowLockedPCs,
           pc \in {"insert"} \cup DuplicatePCs => LiveSnap(job[w].snap)
    PROVE  Kept(w)
<1>1. /\ job'[w].pc = pc /\ job'[w].sub = job[w].sub
      /\ job'[w].snap = job[w].snap
      /\ \A u \in Workers \ {w} : job'[u] = job[u]
  BY DEF TypeOK, Jobs, Goto
<1>. QED  BY <1>1 DEF Kept, Frame, JobInv, LockInv, JobOK, LockOK, locks, LiveSnap

\* The steps of a sync up to its ordinary end keep jobs and locks in order.
LEMMA SyncStepKept ==
    ASSUME TypeOK, JobInv, LockInv, NEW w \in Workers,
           \/ LockSub(w) \/ LockFetch(w) \/ FetchRefused(w) \/ GraceCancel(w)
           \/ CancelMissing(w) \/ ChangePrice(w) \/ MirrorSeen(w)
           \/ MirrorApply(w) \/ MirrorAbsent(w) \/ InsertAbsent(w)
    PROVE  Kept(w)
<1>. USE DEF NoSubPCs, SubLockedPCs, RowLockedPCs, SnapPCs, DuplicatePCs,
             WithdrawPCs
<1>1. JobOK(w) /\ LockOK(w)
  BY DEF JobInv, LockInv
<1>2. ASSUME TakeSubLock(w)
      PROVE  /\ job[w].sub \in Subs /\ subLock'[job[w].sub] = w
             /\ \A u \in Workers \ {w}, s \in Subs :
                   subLock[s] = u => subLock'[s] = u
  BY <1>1, <1>2, ModelValues DEF TakeSubLock, JobOK, TypeOK
<1>3. CASE LockSub(w)
  <2>1. /\ job'[w].pc \in {"end", "recheck"} /\ job'[w].sub = job[w].sub
        /\ \A u \in Workers \ {w} : job'[u] = job[u]
    BY <1>3 DEF LockSub, Goto, TypeOK, Jobs
  <2>. QED  BY <1>2, <1>3, <2>1 DEF LockSub, Kept, Frame, JobOK, LockOK
<1>4. CASE LockFetch(w)
  <2>1. AfterFetch(w, prov[job[w].sub]) \in {"change", "graceCancel", "mirror"}
    BY DEF AfterFetch
  <2>2. /\ job'[w].pc \in {"change", "graceCancel", "mirror", "lapse"}
        /\ job'[w].sub = job[w].sub
        /\ \A u \in Workers \ {w} : job'[u] = job[u]
    BY <1>4, <2>1 DEF LockFetch, Goto, TypeOK, Jobs
  <2>. QED  BY <1>2, <1>4, <2>2 DEF LockFetch, Kept, Frame, JobOK, LockOK
<1>5. CASE Finish(w)
  BY <1>5, FinishKept
<1>6. CASE GraceCancel(w) \/ (ChangePrice(w) /\ ~Abort(w))
  <2>1. /\ job'[w].pc = "mirror" /\ job'[w].sub = job[w].sub
        /\ \A u \in Workers \ {w} : job'[u] = job[u]
        /\ UNCHANGED <<subLock, rowLock>>
        /\ job[w].pc \in {"graceCancel", "change"}
    <3>1. /\ job' = [job EXCEPT ![w].pc = "mirror", ![w].snap = prov'[job[w].sub]]
          /\ UNCHANGED locks
          /\ job[w].pc \in {"graceCancel", "change"}
      BY <1>6 DEF GraceCancel, ChangePrice
    <3>. QED  BY <3>1 DEF TypeOK, Jobs, locks
  <2>2. job[w].sub \in Subs /\ subLock[job[w].sub] = w
    BY <1>1, <2>1 DEF JobOK, LockOK
  <2>3. JobOK(w)' /\ LockOK(w)'
    BY <2>1, <2>2 DEF JobOK, LockOK
  <2>. QED  BY <2>1, <2>3 DEF Kept, Frame
<1>7. CASE MirrorAbsent(w)
  BY <1>7, GotoKept DEF MirrorAbsent, NewEvent, PCs
<1>8. FetchRefused(w) \/ CancelMissing(w) \/ MirrorSeen(w) \/ MirrorApply(w)
        \/ InsertAbsent(w) \/ Abort(w) => Finish(w)
  BY DEF FetchRefused, CancelMissing, MirrorSeen, MirrorApply, InsertAbsent, Abort
<1>. QED  BY <1>3, <1>4, <1>5, <1>6, <1>7, <1>8

\* So do the remaining steps of a job.
LEMMA OtherStepKept ==
    ASSUME TypeOK, JobInv, LockInv, NEW w \in Workers,
           \/ MirrorDuplicate(w) \/ DupFetch(w) \/ DupCancel(w) \/ DupRefund(w)
           \/ DupCommit(w) \/ DupReplace(w) \/ Lapse(w)
           \/ Recheck(w) \/ WithdrawRefund(w) \/ WithdrawCancel(w)
           \/ WithdrawEnd(w) \/ EventCancel(w) \/ EventEnd(w)
           \/ RevokeCancel(w) \/ RevokeRow(w) \/ GrantInsert(w)
    PROVE  Kept(w)
<1>. USE DEF NoSubPCs, SubLockedPCs, RowLockedPCs, SnapPCs, DuplicatePCs,
             WithdrawPCs
<1>1. JobOK(w) /\ LockOK(w)
  BY DEF JobInv, LockInv
<1>2. CASE Finish(w)
  BY <1>2, FinishKept
<1>3. CASE MirrorDuplicate(w) \/ (Recheck(w) /\ ~Abort(w))
  <2>1. /\ job'[w].pc \in {"dupFetch", "wRefund"} /\ job'[w].sub = job[w].sub
        /\ job'[w].snap = job[w].snap
        /\ \A u \in Workers \ {w} : job'[u] = job[u]
        /\ UNCHANGED subLock /\ rowLock' = w /\ rowLock = NoWorker
        /\ job[w].pc \in {"mirror", "recheck"}
    BY <1>3 DEF MirrorDuplicate, NewEvent, Recheck, Goto, TypeOK, Jobs
  <2>2. job'[w].pc = "dupFetch" => LiveSnap(job[w].snap)
    BY <1>3, <2>1 DEF MirrorDuplicate, IsDuplicate, Recheck, Goto, TypeOK, Jobs
  <2>. QED  BY <1>1, <2>1, <2>2, ModelValues
            DEF Kept, Frame, JobOK, LockOK, LiveSnap
<1>4. CASE DupFetch(w)
  <2>1. /\ job'[w].pc \in {"dupCancel", "dupReplace"}
        /\ job'[w].sub = job[w].sub /\ job'[w].snap = job[w].snap
        /\ \A u \in Workers \ {w} : job'[u] = job[u]
        /\ UNCHANGED <<subLock, rowLock>> /\ job[w].pc = "dupFetch"
    BY <1>4 DEF DupFetch, TypeOK, Jobs, locks
  <2>. QED  BY <1>1, <2>1 DEF Kept, Frame, JobOK, LockOK, LiveSnap
<1>5. CASE DupCancel(w) \/ WithdrawCancel(w) \/ EventCancel(w)
  BY <1>1, <1>5, GotoKept
  DEF DupCancel, WithdrawCancel, EventCancel, CancelThen, PCs, JobOK
<1>6. CASE (DupRefund(w) \/ WithdrawRefund(w)) /\ ~Abort(w)
  BY <1>1, <1>6, GotoKept DEF DupRefund, WithdrawRefund, PCs, JobOK
<1>7. CASE RevokeCancel(w) /\ ~Abort(w)
  <2>1. /\ job'[w].pc \in {"vCancel", "vRow"}
        /\ \A u \in Workers \ {w} : job'[u] = job[u]
        /\ UNCHANGED <<subLock, rowLock>>
    BY <1>7 DEF RevokeCancel, Goto, TypeOK, Jobs, locks
  <2>. QED  BY <2>1 DEF Kept, Frame, JobOK, LockOK
<1>8. DupCommit(w) \/ DupReplace(w) \/ Lapse(w) \/ WithdrawEnd(w)
        \/ EventEnd(w) \/ RevokeRow(w) \/ GrantInsert(w) \/ Abort(w)
          => Finish(w)
  BY DEF DupCommit, DupReplace, Lapse, WithdrawEnd, EventEnd, RevokeRow,
         GrantInsert, Abort
<1>. QED  BY <1>2, <1>3, <1>4, <1>5, <1>6, <1>7, <1>8

\* So does everything a worker does.
LEMMA WorkerKept ==
    ASSUME TypeOK, JobInv, LockInv, NEW w \in Workers,
           Begin(w) \/ Step(w) \/ Fail(w)
    PROVE  Kept(w)
<1>1. Fail(w) => Finish(w)
  BY DEF Fail
<1>. QED  BY <1>1, BeginKept, SyncStepKept, OtherStepKept, FinishKept DEF Step

\* What the provider, the clock and grants do concerns no job.
LEMMA OutsideStep ==
    ASSUME Provider \/ Tick \/ ExpireGrant \/ (\E plan \in Plans : Grant(plan))
           \/ UNCHANGED vars
    PROVE  UNCHANGED <<job, subLock, rowLock, applied>>
BY DEF Provider, Buy, PortalChange, ChargeSucceeds, ChargeFails, GivesUp,
       ChargeReversed, Forgets, Moves, Tick, ExpireGrant, Grant, vars,
       locks, ledger

\* Every step of the system keeps jobs and locks in order.
LEMMA JobStep ==
    ASSUME TypeOK, JobInv, LockInv, [Next]_vars
    PROVE  JobInv' /\ LockInv'
<1>1. CASE Provider \/ Tick \/ ExpireGrant \/ (\E plan \in Plans : Grant(plan))
           \/ UNCHANGED vars
  BY <1>1, OutsideStep DEF JobInv, LockInv, JobOK, LockOK, LiveSnap
<1>2. ASSUME NEW w \in Workers, Begin(w) \/ Step(w) \/ Fail(w)
      PROVE  JobInv' /\ LockInv'
  <2>1. Kept(w)
    BY <1>2, WorkerKept
  <2>2. ASSUME NEW u \in Workers, u # w
        PROVE  JobOK(u)' /\ LockOK(u)'
    <3>1. /\ job'[u] = job[u]
          /\ \A s \in Subs : subLock[s] = u => subLock'[s] = u
          /\ rowLock = u => rowLock' = u
      BY <2>1, <2>2 DEF Kept, Frame
    <3>2. JobOK(u) /\ LockOK(u)
      BY DEF JobInv, LockInv
    <3>. QED  BY <3>1, <3>2 DEF JobOK, LockOK, LiveSnap, NoSubPCs, SubLockedPCs,
                RowLockedPCs, SnapPCs, DuplicatePCs, WithdrawPCs
  <2>. QED  BY <2>1, <2>2 DEF Kept, JobInv, LockInv
<1>. QED  BY <1>1, <1>2 DEF Next

-----------------------------------------------------------------------------
(* The row under its lock. *)

\* Two rows that differ at most in the version they were compared with.
SameRow(r, q) ==
    q.status = r.status /\ q.source = r.source /\ q.ref = r.ref

\* Another worker's lock keeps `w` from writing the row.
RespectsRowLock(w) ==
    rowLock \in {NoWorker, w} \/ row = NoRow \/ SameRow(row, row')

\* A sync that writes without the row lock writes nothing that matters.
LEMMA MirrorRespectsLock ==
    ASSUME NEW w \in Workers, MirrorApply(w), row \in Rows
    PROVE  RespectsRowLock(w)
<1>1. CASE LocalStatus(job[w].snap.status) = "none" /\ job[w].op # "due"
  BY <1>1 DEF MirrorApply, Applied, Changes, RespectsRowLock, SameRow, Rows
<1>2. CASE RowFree
  BY <1>2 DEF RowFree, RespectsRowLock
<1>. QED  BY <1>1, <1>2 DEF MirrorApply

\* No worker writes the row while another one has it locked.
LEMMA StepRespectsLock ==
    ASSUME TypeOK, LockInv, NEW w \in Workers, Step(w) \/ Begin(w) \/ Fail(w)
    PROVE  RespectsRowLock(w)
<1>1. CASE UNCHANGED row
  BY <1>1 DEF RespectsRowLock, SameRow
<1>2. CASE MirrorApply(w)
  BY <1>2, MirrorRespectsLock DEF TypeOK
<1>3. CASE InsertAbsent(w) \/ Lapse(w) \/ GrantInsert(w)
  BY <1>3 DEF InsertAbsent, Lapse, GrantInsert, RespectsRowLock
<1>4. CASE EventEnd(w) \/ RevokeRow(w)
  BY <1>4 DEF EventEnd, RevokeRow, RowFree, RespectsRowLock
<1>5. CASE DupCommit(w) \/ DupReplace(w) \/ WithdrawEnd(w)
  <2>1. job[w].pc \in RowLockedPCs
    BY <1>5 DEF DupCommit, DupReplace, WithdrawEnd, RowLockedPCs, DuplicatePCs,
                WithdrawPCs
  <2>. QED  BY <2>1 DEF LockInv, LockOK, RespectsRowLock
<1>6. CASE Begin(w)
  BY <1>1, <1>6, BeginKept
<1>7. CASE \/ LockSub(w) \/ LockFetch(w) \/ FetchRefused(w) \/ GraceCancel(w)
           \/ CancelMissing(w) \/ ChangePrice(w) \/ MirrorSeen(w)
           \/ MirrorAbsent(w) \/ MirrorDuplicate(w) \/ DupFetch(w)
           \/ DupCancel(w) \/ DupRefund(w) \/ Recheck(w) \/ WithdrawRefund(w)
           \/ WithdrawCancel(w) \/ EventCancel(w) \/ RevokeCancel(w) \/ Fail(w)
  BY <1>1, <1>7
  DEF LockSub, LockFetch, FetchRefused, GraceCancel, CancelMissing, ChangePrice,
      MirrorSeen, MirrorAbsent, MirrorDuplicate, DupFetch, DupCancel, DupRefund,
      Recheck, WithdrawRefund, WithdrawCancel, EventCancel, RevokeCancel, Fail,
      CancelThen, Abort
<1>. QED  BY <1>2, <1>3, <1>4, <1>5, <1>6, <1>7 DEF Step

\* A worker that locks the row knows what it says.
LEMMA StepKnowsRow ==
    ASSUME TypeOK, JobInv, LockInv, RowInv, NEW w \in Workers,
           Step(w) \/ Begin(w) \/ Fail(w)
    PROVE  RowOK(w)'
<1>. USE DEF DuplicatePCs, WithdrawPCs, NoSubPCs
<1>1. CASE job'[w].pc \notin DuplicatePCs \cup WithdrawPCs
  BY <1>1 DEF RowOK
<1>2. CASE Finish(w)
  BY <1>2, FinishKept DEF RowOK, NoJob
<1>3. CASE UNCHANGED row /\ job'[w].sub = job[w].sub
           /\ (job'[w].pc \in DuplicatePCs => job[w].pc \in DuplicatePCs)
           /\ (job'[w].pc \in WithdrawPCs => job[w].pc \in WithdrawPCs)
  BY <1>3 DEF RowInv, RowOK, IsLive, PaidRow
<1>4. CASE MirrorDuplicate(w)
  <2>1. /\ job'[w].pc = "dupFetch" /\ job'[w].sub = job[w].sub
        /\ UNCHANGED row /\ job[w].sub \in Subs
    BY <1>4 DEF MirrorDuplicate, NewEvent, Goto, TypeOK, Jobs, JobInv, JobOK
  <2>2. row.source = "payment" /\ IsLive(row)
        /\ row.ref # NoSub /\ row.ref # job[w].sub
    BY <1>4 DEF MirrorDuplicate, IsDuplicate, PaidInEffect, InEffect, Mirrors
  <2>. QED  BY <2>1, <2>2 DEF RowOK, IsLive
<1>5. CASE Recheck(w)
  <2>1. CASE Abort(w)
    BY <1>2, <2>1 DEF Abort
  <2>2. CASE ~Abort(w)
    <3>1. /\ job'[w].pc = "wRefund" /\ job'[w].sub = job[w].sub
          /\ UNCHANGED row /\ PaidRow(row) /\ row.ref = job[w].sub
      BY <1>5, <2>2 DEF Recheck, Goto, TypeOK, Jobs
    <3>. QED  BY <3>1 DEF RowOK, PaidRow
  <2>. QED  BY <2>1, <2>2
<1>6. CASE DupFetch(w)
  BY <1>3, <1>6 DEF DupFetch, TypeOK, Jobs
<1>7. CASE DupCancel(w) \/ WithdrawCancel(w) \/ EventCancel(w)
  BY <1>3, <1>7
  DEF DupCancel, WithdrawCancel, EventCancel, CancelThen, Goto, TypeOK, Jobs
<1>8. CASE (DupRefund(w) \/ WithdrawRefund(w)) /\ ~Abort(w)
  BY <1>3, <1>8 DEF DupRefund, WithdrawRefund, Goto, TypeOK, Jobs
<1>9. CASE Begin(w)
  BY <1>1, <1>9, BeginKept
<1>10. CASE \/ LockSub(w) \/ GraceCancel(w) \/ MirrorAbsent(w)
            \/ (ChangePrice(w) /\ ~Abort(w)) \/ (RevokeCancel(w) /\ ~Abort(w))
  BY <1>1, <1>10
  DEF LockSub, GraceCancel, MirrorAbsent, ChangePrice, RevokeCancel, Goto,
      TypeOK, Jobs
<1>11. CASE LockFetch(w)
  <2>1. AfterFetch(w, prov[job[w].sub]) \in {"change", "graceCancel", "mirror"}
    BY DEF AfterFetch
  <2>. QED  BY <1>1, <1>11, <2>1 DEF LockFetch, Goto, TypeOK, Jobs
<1>12. (FetchRefused(w) \/ CancelMissing(w) \/ MirrorSeen(w)
        \/ MirrorApply(w) \/ InsertAbsent(w) \/ DupCommit(w) \/ DupReplace(w)
        \/ Lapse(w) \/ WithdrawEnd(w) \/ EventEnd(w) \/ RevokeRow(w)
        \/ GrantInsert(w) \/ Abort(w) \/ Fail(w)) => Finish(w)
  BY DEF FetchRefused, CancelMissing, MirrorSeen, MirrorApply, InsertAbsent,
         DupCommit, DupReplace, Lapse, WithdrawEnd, EventEnd, RevokeRow,
         GrantInsert, Abort, Fail
<1>. QED  BY <1>2, <1>4, <1>5, <1>6, <1>7, <1>8, <1>9, <1>10, <1>11, <1>12
          DEF Step

\* Every step keeps what the holder of the row lock knows of the row.
LEMMA RowStep ==
    ASSUME TypeOK, JobInv, LockInv, RowInv, [Next]_vars
    PROVE  RowInv'
<1>1. CASE Provider \/ Tick \/ UNCHANGED vars
  <2>1. UNCHANGED <<row, job>>
    BY <1>1 DEF Provider, Buy, PortalChange, ChargeSucceeds, ChargeFails,
                GivesUp, ChargeReversed, Forgets, Moves, Tick, vars
  <2>. QED  BY <2>1 DEF RowInv, RowOK, IsLive, PaidRow
<1>2. CASE ExpireGrant \/ (\E plan \in Plans : Grant(plan))
  <2>1. UNCHANGED job /\ rowLock = NoWorker
    BY <1>2 DEF ExpireGrant, Grant
  <2>2. \A u \in Workers : job[u].pc \notin RowLockedPCs
    BY <2>1, ModelValues DEF LockInv, LockOK
  <2>. QED  BY <2>1, <2>2 DEF RowInv, RowOK, RowLockedPCs
<1>3. ASSUME NEW w \in Workers, Begin(w) \/ Step(w) \/ Fail(w)
      PROVE  RowInv'
  <2>1. Frame(w)
    BY <1>3, WorkerKept DEF Kept
  <2>2. RespectsRowLock(w) /\ RowOK(w)'
    BY <1>3, StepRespectsLock, StepKnowsRow
  <2>3. ASSUME NEW u \in Workers, u # w
        PROVE  RowOK(u)'
    <3>1. job'[u] = job[u] /\ RowOK(u)
      BY <2>1, <2>3 DEF Frame, RowInv
    <3>2. CASE job[u].pc \in RowLockedPCs
      <4>1. rowLock = u
        BY <3>2 DEF LockInv, LockOK
      <4>2. row # NoRow
        BY <3>1, <3>2 DEF RowOK, RowLockedPCs, NoRow, PaidRow
      <4>3. SameRow(row, row')
        BY <2>2, <2>3, <4>1, <4>2, ModelValues DEF RespectsRowLock
      <4>. QED  BY <3>1, <4>3 DEF RowOK, SameRow, IsLive, PaidRow
    <3>3. CASE job[u].pc \notin RowLockedPCs
      BY <3>1, <3>3 DEF RowOK, RowLockedPCs
    <3>. QED  BY <3>2, <3>3
  <2>. QED  BY <2>2, <2>3 DEF RowInv
<1>. QED  BY <1>1, <1>2, <1>3 DEF Next

-----------------------------------------------------------------------------
(* Theorems about types, jobs and locks. *)

\* Initially nothing is locked and no job runs.
LEMMA LockedInit ==
    ASSUME Init
    PROVE  TypeOK /\ JobInv /\ LockInv /\ RowInv
<1>1. NoJob \in Jobs /\ NoJob.pc = "idle"
  BY DEF NoJob, Jobs, NoSnap, NoTime, Snapshots, ProvStatus, PCs, AllRequests
<1>2. NoSnap \in Snapshots /\ NoRow \in Rows /\ NoGrant \in Grants
  BY DEF NoSnap, NoTime, Snapshots, ProvStatus, NoRow, Rows, RowStatus,
         NoGrant, Grants
<1>3. TypeOK
  BY <1>1, <1>2 DEF Init, TypeOK
<1>4. \A w \in Workers : job[w].pc = "idle"
  BY <1>1 DEF Init
<1>. QED  BY <1>3, <1>4 DEF JobInv, LockInv, RowInv, JobOK, LockOK, RowOK,
            NoSubPCs, SubLockedPCs, RowLockedPCs, SnapPCs, DuplicatePCs,
            WithdrawPCs

\* The part of the invariant that types and locks make up.
LockedInv == TypeOK /\ JobInv /\ LockInv /\ RowInv

\* What each job knows by the locks it holds is an invariant of every
\* instance.
THEOREM Locked == Spec => []LockedInv
<1>1. Init => LockedInv
  BY LockedInit DEF LockedInv
<1>2. LockedInv /\ [Next]_vars => LockedInv'
  BY TypeStep, JobStep, RowStep DEF LockedInv
<1>. QED  BY <1>1, <1>2, PTL DEF Spec

\* Every variable keeps its type, whatever the number of subscriptions,
\* plans and workers.
THEOREM TypeCorrect == Spec => []TypeOK
<1>1. LockedInv => TypeOK
  BY DEF LockedInv
<1>. QED  BY <1>1, Locked, PTL

\* A duplicate is canceled and refunded only while another subscription of
\* the account is live in its row.
THEOREM DuplicateKeeper == Spec => []DuplicateHasAKeeper
<1>1. LockedInv => DuplicateHasAKeeper
  BY DEF LockedInv, RowInv, RowOK, DuplicateHasAKeeper, DuplicatePCs
<1>. QED  BY <1>1, Locked, PTL

-----------------------------------------------------------------------------
(* Versions. *)

\* What a step of `w` may do to the row, as far as versions go.
WroteRow(w) ==
    \A c \in Subs : Mirrors(row', c) =>
        \/ Mirrors(row, c) /\ row'.ver = row.ver
        \/ /\ c = job[w].sub /\ job[w].pc \in SnapPCs
           /\ row'.ver = job[w].snap.ver /\ prov' = prov
        \/ /\ c = job[w].sub /\ job[w].pc \in {"wEnd", "end"}
           /\ row'.ver = prov[c].ver /\ prov' = prov

\* ... to the events on record.
WroteEvents(w) ==
    \/ applied' = applied
    \/ /\ job[w].pc \in SnapPCs /\ prov' = prov
       /\ applied' = applied \cup {<<job[w].sub, job[w].ev>>}
       /\ Mirrors(row', job[w].sub) => row'.ver = job[w].snap.ver

\* ... and to the provider.
Advances ==
    \/ prov' = prov
    \/ /\ UNCHANGED <<row, applied>>
       /\ \E c \in Subs : /\ prov'[c].ver = prov[c].ver + 1
                          /\ \A d \in Subs \ {c} : prov'[d] = prov[d]

Wrote(w) == WroteRow(w) /\ WroteEvents(w) /\ Advances

\* A change at the provider is the next version of one subscription.
LEMMA ChangedAdvances ==
    ASSUME TypeOK, NEW s \in Subs, NEW st, NEW e, NEW plan,
           prov' = Changed(s, st, e, plan), UNCHANGED <<row, applied>>
    PROVE  Advances
BY DEF TypeOK, Changed, Advances

\* So is canceling one at once, if it changes anything.
LEMMA CanceledAdvances ==
    ASSUME TypeOK, NEW s \in Subs, prov' = CanceledNow(s),
           UNCHANGED <<row, applied>>
    PROVE  Advances
<1>1. CASE prov' = prov
  BY <1>1 DEF Advances
<1>2. CASE prov' # prov
  BY <1>2, ChangedAdvances DEF CanceledNow
<1>. QED  BY <1>1, <1>2

\* A step that writes neither the row nor an event writes what it may.
LEMMA QuietWrote ==
    ASSUME NEW w \in Workers, UNCHANGED <<row, applied>>, Advances
    PROVE  Wrote(w)
BY DEF Wrote, WroteRow, WroteEvents, Mirrors

\* So does a job that gives up.
LEMMA AbortWrote ==
    ASSUME NEW w \in Workers, Abort(w)
    PROVE  Wrote(w)
BY QuietWrote DEF Abort, ledger, Advances

\* An event is recorded by a sync that has a snapshot, in the same commit.
LEMMA RecordWrote ==
    ASSUME NEW w \in Workers, RecordEvent(w), prov' = prov,
           job[w].pc \in SnapPCs,
           Mirrors(row', job[w].sub) => row'.ver = job[w].snap.ver
    PROVE  WroteEvents(w) /\ Advances
BY DEF RecordEvent, WroteEvents, Advances

\* The steps of a sync up to its ordinary end write what they may.
LEMMA SyncStepWrote ==
    ASSUME LockedInv, NEW w \in Workers,
           \/ LockSub(w) \/ LockFetch(w) \/ FetchRefused(w) \/ GraceCancel(w)
           \/ CancelMissing(w) \/ ChangePrice(w) \/ MirrorSeen(w)
           \/ MirrorApply(w) \/ MirrorAbsent(w) \/ InsertAbsent(w)
    PROVE  Wrote(w)
<1>. DEFINE s == job[w].sub
            x == job[w].snap
<1>1. TypeOK /\ JobOK(w)
  BY DEF LockedInv, JobInv
<1>2. s \in Subs
  BY <1>1 DEF LockSub, LockFetch, FetchRefused, GraceCancel, CancelMissing,
              ChangePrice, MirrorSeen, MirrorApply, MirrorAbsent, InsertAbsent,
              TakeSubLock, NewEvent, JobOK, NoSubPCs
<1>3. /\ x \in Snapshots /\ now \in Nat /\ row \in Rows
      /\ replaced[s] \in Grants
  BY <1>1, <1>2 DEF TypeOK, Jobs
<1>4. CASE LockSub(w) \/ LockFetch(w) \/ MirrorAbsent(w)
  BY <1>4, QuietWrote DEF LockSub, LockFetch, MirrorAbsent, ledger, Advances
<1>5. CASE FetchRefused(w) \/ CancelMissing(w) \/ MirrorSeen(w) \/ Abort(w)
  BY <1>5, AbortWrote DEF FetchRefused, CancelMissing, MirrorSeen
<1>6. CASE GraceCancel(w)
  BY <1>1, <1>2, <1>6, QuietWrote, CanceledAdvances DEF GraceCancel, ledger
<1>7. CASE ChangePrice(w) /\ ~Abort(w)
  <2>1. PICK plan \in Plans : prov' = Changed(s, prov[s].status, prov[s].end, plan)
    BY <1>7 DEF ChangePrice
  <2>2. UNCHANGED <<row, applied>>
    BY <1>7 DEF ChangePrice, ledger
  <2>3. Advances
    BY <1>1, <1>2, <2>1, <2>2, ChangedAdvances
  <2>. QED  BY <2>2, <2>3, QuietWrote
<1>8. CASE MirrorApply(w)
  <2>. DEFINE r == Applied(row, s, x, replaced[s], now)
  <2>1. r \in Rows
    BY <1>2, <1>3, AppliedType
  <2>2. /\ row' = r \/ row' = Lapsed(r, s, now)
        /\ RecordEvent(w) /\ prov' = prov /\ job[w].pc \in SnapPCs
    BY <1>8 DEF MirrorApply, NewEvent, SnapPCs
  <2>3. ASSUME NEW c \in Subs, Mirrors(row', c)
        PROVE  Mirrors(r, c) /\ row'.ver = r.ver
    BY <1>2, <1>3, <2>1, <2>2, <2>3, LapsedMirrors
  <2>4. ASSUME NEW c \in Subs, Mirrors(row', c)
        PROVE  \/ c = s /\ row'.ver = x.ver
               \/ c # s /\ Mirrors(row, c) /\ row'.ver = row.ver
    BY <1>2, <1>3, <2>3, <2>4, AppliedMirrors
  <2>. QED  BY <1>2, <2>2, <2>4, RecordWrote DEF Wrote, WroteRow
<1>9. CASE InsertAbsent(w)
  <2>1. /\ row'.ref = s /\ row'.ver = x.ver
        /\ RecordEvent(w) /\ prov' = prov /\ job[w].pc \in SnapPCs
    BY <1>9 DEF InsertAbsent, RowOf, SnapPCs
  <2>. QED  BY <2>1, RecordWrote DEF Wrote, WroteRow, Mirrors
<1>. QED  BY <1>4, <1>5, <1>6, <1>7, <1>8, <1>9

\* Ending the row of a job writes the present version at the provider.
LEMMA EndRowWrote ==
    ASSUME TypeOK, NEW w \in Workers, job[w].sub \in Subs, EndRow(w),
           job[w].pc \in {"wEnd", "end"}, UNCHANGED <<prov, applied>>
    PROVE  Wrote(w)
<1>. DEFINE s == job[w].sub
<1>1. /\ row \in Rows /\ replaced[s] \in Grants /\ now \in Nat
      /\ prov[s].ver \in Nat
  BY DEF TypeOK, Snapshots
<1>2. row' = Ended(row, s, prov[s].ver, replaced[s], now)
  BY DEF EndRow
<1>3. ASSUME NEW c \in Subs, Mirrors(row', c)
      PROVE  \/ c = s /\ row'.ver = prov[s].ver
             \/ Mirrors(row, c) /\ row'.ver = row.ver
  BY <1>1, <1>2, <1>3, EndedMirrors
<1>. QED  BY <1>3 DEF Wrote, WroteRow, WroteEvents, Advances

\* The row that a duplicate replaced mirrors the duplicate.
LEMMA ReplacedRow ==
    ASSUME LockedInv, NEW w \in Workers, DupReplace(w)
    PROVE  row'.ref = job[w].sub /\ row'.ver = job[w].snap.ver
<1>. DEFINE s == job[w].sub
            x == job[w].snap
            cur == row.ref
            g == replaced[row.ref]
            ended == EndCurrent(row, job[w].cur, g, now)
            r == Applied(ended, s, x, replaced[s], now)
<1>1. /\ s \in Subs /\ cur \in Subs /\ cur # s
      /\ LiveSnap(x) /\ row.source = "payment"
  BY DEF LockedInv, DupReplace, JobInv, JobOK, RowInv, RowOK, NoSubPCs,
         DuplicatePCs, TypeOK, Rows
<1>2. /\ x \in Snapshots /\ now \in Nat /\ row \in Rows /\ g \in Grants
      /\ replaced[s] \in Grants
      /\ job[w].cur \in Snapshots /\ job[w].cur.ver \in Nat
  BY <1>1 DEF LockedInv, TypeOK, Jobs, Snapshots
<1>3. ended \in Rows
  BY <1>1, <1>2, AppliedType, EndedType DEF EndCurrent
<1>4. ~Mirrors(ended, s)
  BY <1>1, <1>2, AppliedMirrors, EndedMirrors DEF EndCurrent, Mirrors
<1>5. Changes(ended, s, x)
  BY <1>1, <1>4 DEF Changes, LiveSnap
<1>6. r = RowOf(ended, s, x, now)
  BY <1>4, <1>5 DEF Applied
<1>7. r.ref = s /\ r.ver = x.ver
  BY <1>6 DEF RowOf
<1>8. r \in Rows
  BY <1>1, <1>2, <1>3, AppliedType
<1>9. row' = r \/ row' = Lapsed(r, s, now)
  BY DEF DupReplace
<1>. QED  BY <1>7, <1>8, <1>9 DEF Lapsed, Rows

\* A grant or a trial is no payment.
LEMMA GrantRowSource ==
    ASSUME NEW r \in Rows, NEW plan, NEW source, NEW at
    PROVE  GrantRow(r, plan, source, at).source = source
BY DEF GrantRow, Rows

\* The remaining steps of a job write what they may.
LEMMA OtherStepWrote ==
    ASSUME LockedInv, NEW w \in Workers,
           \/ MirrorDuplicate(w) \/ DupFetch(w) \/ DupCancel(w) \/ DupRefund(w)
           \/ DupCommit(w) \/ DupReplace(w) \/ Lapse(w)
           \/ Recheck(w) \/ WithdrawRefund(w) \/ WithdrawCancel(w)
           \/ WithdrawEnd(w) \/ EventCancel(w) \/ EventEnd(w)
           \/ RevokeCancel(w) \/ RevokeRow(w) \/ GrantInsert(w)
    PROVE  Wrote(w)
<1>. DEFINE s == job[w].sub
<1>1. TypeOK /\ JobOK(w) /\ RowOK(w)
  BY DEF LockedInv, JobInv, RowInv
<1>2. /\ now \in Nat /\ row \in Rows
      /\ job[w].pc \notin NoSubPCs => s \in Subs
  BY <1>1 DEF TypeOK, JobOK
<1>3. CASE MirrorDuplicate(w) \/ DupFetch(w)
           \/ ((DupRefund(w) \/ Recheck(w) \/ WithdrawRefund(w)) /\ ~Abort(w))
  BY <1>3, QuietWrote
  DEF MirrorDuplicate, DupFetch, DupRefund, Recheck, WithdrawRefund, ledger,
      Advances
<1>4. CASE Abort(w)
  BY <1>4, AbortWrote
<1>5. CASE DupCancel(w) \/ WithdrawCancel(w) \/ EventCancel(w)
  <2>1. prov' = CanceledNow(s) /\ UNCHANGED <<row, applied>> /\ s \in Subs
    BY <1>2, <1>5 DEF DupCancel, WithdrawCancel, EventCancel, CancelThen,
                      NoSubPCs, ledger
  <2>. QED  BY <1>1, <2>1, QuietWrote, CanceledAdvances
<1>6. CASE DupCommit(w)
  <2>1. /\ row' = row \/ row' = Lapsed(row, s, now)
        /\ RecordEvent(w) /\ prov' = prov /\ job[w].pc \in SnapPCs
        /\ s \in Subs /\ row.ref # s
    BY <1>1, <1>2, <1>6
    DEF DupCommit, SnapPCs, DuplicatePCs, NoSubPCs, RowOK
  <2>2. \A c \in Subs : Mirrors(row', c) => Mirrors(row, c) /\ row'.ver = row.ver
    BY <1>2, <2>1, LapsedMirrors
  <2>3. ~Mirrors(row', s)
    BY <2>1, <2>2 DEF Mirrors
  <2>. QED  BY <2>1, <2>2, <2>3, RecordWrote DEF Wrote, WroteRow
<1>7. CASE DupReplace(w)
  <2>1. /\ row'.ref = s /\ row'.ver = job[w].snap.ver
        /\ RecordEvent(w) /\ prov' = prov /\ job[w].pc \in SnapPCs
    BY <1>7, ReplacedRow DEF DupReplace, SnapPCs, DuplicatePCs
  <2>. QED  BY <2>1, RecordWrote DEF Wrote, WroteRow, Mirrors
<1>8. CASE Lapse(w)
  <2>1. row' = Lapsed(row, s, now) /\ UNCHANGED <<prov, applied>> /\ s \in Subs
    BY <1>2, <1>8 DEF Lapse, NoSubPCs, ledger
  <2>2. \A c \in Subs : Mirrors(row', c) => Mirrors(row, c) /\ row'.ver = row.ver
    BY <1>2, <2>1, LapsedMirrors
  <2>. QED  BY <2>1, <2>2 DEF Wrote, WroteRow, WroteEvents, Advances
<1>9. CASE WithdrawEnd(w) \/ EventEnd(w)
  BY <1>1, <1>2, <1>9, EndRowWrote DEF WithdrawEnd, EventEnd, NoSubPCs, ledger
<1>10. CASE RevokeCancel(w) /\ ~Abort(w)
  <2>1. UNCHANGED <<row, applied>>
    BY <1>10 DEF RevokeCancel, ledger
  <2>2. CASE prov' = prov
    BY <2>1, <2>2, QuietWrote DEF Advances
  <2>3. CASE prov' # prov
    <3>1. PICK c \in job[w].todo : prov' = CanceledNow(c)
      BY <1>10, <2>3 DEF RevokeCancel
    <3>2. c \in Subs
      BY <1>1 DEF TypeOK, Jobs
    <3>. QED  BY <1>1, <2>1, <3>1, <3>2, QuietWrote, CanceledAdvances
  <2>. QED  BY <2>2, <2>3
<1>11. CASE RevokeRow(w)
  <2>1. /\ row'.source = row.source /\ row'.ref = row.ref
        /\ row'.ver = row.ver /\ UNCHANGED <<prov, applied>>
    BY <1>2, <1>11 DEF RevokeRow, Rows, ledger
  <2>. QED  BY <2>1 DEF Wrote, WroteRow, WroteEvents, Advances, Mirrors
<1>12. CASE GrantInsert(w)
  <2>1. PICK plan \in Plans, source \in {"admin", "other"} :
          row' = [GrantRow(NoRow, plan, source, now)
                    EXCEPT !.ref = row.ref, !.ver = row.ver]
    BY <1>12 DEF GrantInsert
  <2>2. /\ GrantRow(NoRow, plan, source, now) \in Rows
        /\ GrantRow(NoRow, plan, source, now).source = source
    <3>1. NoRow \in Rows
      BY DEF NoRow, NoTime, Rows, RowStatus, ProvStatus
    <3>. QED  BY <1>2, <3>1, GrantRowType, GrantRowSource
  <2>3. row'.source # "payment" /\ UNCHANGED <<prov, applied>>
    BY <1>12, <2>1, <2>2 DEF Rows, GrantInsert, ledger
  <2>. QED  BY <2>3 DEF Wrote, WroteRow, WroteEvents, Advances, Mirrors
<1>. QED  BY <1>3, <1>4, <1>5, <1>6, <1>7, <1>8, <1>9, <1>10, <1>11, <1>12

\* Everything a worker does writes what it may.
LEMMA WorkerWrote ==
    ASSUME LockedInv, NEW w \in Workers, Begin(w) \/ Step(w) \/ Fail(w)
    PROVE  Wrote(w)
<1>1. CASE Begin(w)
  BY <1>1, BeginKept, QuietWrote DEF LockedInv, Advances
<1>2. CASE Fail(w)
  BY <1>2, QuietWrote DEF Fail, ledger, Advances
<1>. QED  BY <1>1, <1>2, SyncStepWrote, OtherStepWrote DEF Step

\* Grants and expiry touch no row that mirrors a subscription.
LEMMA OutsideWrote ==
    ASSUME TypeOK, Provider \/ Tick \/ ExpireGrant
             \/ (\E plan \in Plans : Grant(plan)) \/ UNCHANGED vars
    PROVE  /\ UNCHANGED <<job, subLock, applied>> /\ Advances
           /\ \A c \in Subs : Mirrors(row', c) => Mirrors(row, c) /\ row' = row
<1>1. UNCHANGED <<job, subLock, applied>>
  BY OutsideStep
<1>2. CASE Provider
  <2>1. PICK s \in Subs :
          \/ \E plan \in Plans : Buy(s, plan) \/ PortalChange(s, plan)
          \/ ChargeSucceeds(s) \/ ChargeFails(s) \/ GivesUp(s)
          \/ ChargeReversed(s) \/ Forgets(s)
    BY <1>2 DEF Provider
  <2>2. row' = row
    BY <2>1 DEF Buy, PortalChange, ChargeSucceeds, ChargeFails, GivesUp,
                ChargeReversed, Forgets, Moves
  <2>3. prov' = prov \/ \E st, e, plan : prov' = Changed(s, st, e, plan)
    BY <2>1 DEF Buy, PortalChange, ChargeSucceeds, ChargeFails, GivesUp,
                ChargeReversed, Forgets, Moves
  <2>4. Advances
    BY <1>1, <2>2, <2>3, ChangedAdvances DEF Advances
  <2>. QED  BY <1>1, <2>2, <2>4 DEF Mirrors
<1>3. CASE Tick \/ UNCHANGED vars
  BY <1>1, <1>3 DEF Tick, vars, Advances, Mirrors
<1>4. CASE ExpireGrant
  <2>1. row'.source = row.source /\ row.source # "payment" /\ prov' = prov
    BY <1>4 DEF ExpireGrant, TypeOK, Rows
  <2>. QED  BY <1>1, <2>1 DEF Mirrors, Advances
<1>5. CASE \E plan \in Plans : Grant(plan)
  <2>1. row'.source # "payment" /\ prov' = prov
    BY <1>5, GrantRowSource DEF Grant, TypeOK
  <2>. QED  BY <1>1, <2>1 DEF Mirrors, Advances
<1>. QED  BY <1>2, <1>3, <1>4, <1>5

\* The snapshot a job works with, after a step of its own.
SnapKept(w) ==
    job'[w].pc \in SnapPCs =>
        /\ job'[w].sub = job[w].sub /\ job'[w].ev = job[w].ev
        /\ \/ /\ job'[w].snap = job[w].snap /\ job[w].pc \in SnapPCs
              /\ UNCHANGED <<row, applied>>
           \/ /\ job'[w].snap = prov'[job[w].sub]
              /\ UNCHANGED <<row, applied>>

EventKept(w) ==
    job'[w].pc \notin NoSubPCs =>
        \/ job[w].pc \notin NoSubPCs
             /\ job'[w].sub = job[w].sub /\ job'[w].ev = job[w].ev
        \/ job'[w].ev = 0
        \/ job'[w].ev <= prov[job'[w].sub].ver

\* A worker gets a snapshot from the provider only, and keeps it till the end.
LEMMA WorkerSnap ==
    ASSUME LockedInv, NEW w \in Workers, Begin(w) \/ Step(w) \/ Fail(w)
    PROVE  SnapKept(w) /\ EventKept(w)
<1>. USE DEF SnapPCs, DuplicatePCs, NoSubPCs
<1>1. TypeOK
  BY DEF LockedInv
<1>2. CASE Finish(w)
  <2>1. job'[w].pc = "idle"
    BY <1>1, <1>2, FinishKept DEF NoJob
  <2>. QED  BY <2>1 DEF SnapKept, EventKept
<1>3. CASE Begin(w)
  BY <1>1, <1>3, BeginKept DEF SnapKept, EventKept
<1>4. CASE LockSub(w)
  BY <1>1, <1>4 DEF LockSub, TakeSubLock, Goto, TypeOK, Jobs, SnapKept, EventKept
<1>5. CASE LockFetch(w)
  <2>1. AfterFetch(w, prov[job[w].sub]) \in PCs
    BY DEF AfterFetch, PCs
  <2>2. /\ job'[w].sub = job[w].sub /\ job'[w].ev = job[w].ev
        /\ job'[w].snap = prov[job[w].sub] \/ job'[w].pc = "lapse"
        /\ UNCHANGED <<prov, row, applied>> /\ job[w].pc = "lockSub"
    BY <1>1, <1>5, <2>1
    DEF LockFetch, TakeSubLock, Goto, TypeOK, Jobs, ledger
  <2>. QED  BY <2>2 DEF SnapKept, EventKept
<1>6. CASE GraceCancel(w) \/ (ChangePrice(w) /\ ~Abort(w))
  <2>1. /\ job'[w].sub = job[w].sub /\ job'[w].ev = job[w].ev
        /\ job'[w].snap = prov'[job[w].sub]
        /\ UNCHANGED <<row, applied>> /\ job[w].pc \in {"graceCancel", "change"}
    BY <1>1, <1>6 DEF GraceCancel, ChangePrice, TypeOK, Jobs, ledger
  <2>. QED  BY <2>1 DEF SnapKept, EventKept
<1>7. CASE MirrorAbsent(w) \/ MirrorDuplicate(w) \/ DupFetch(w)
  <2>1. /\ job'[w].sub = job[w].sub /\ job'[w].ev = job[w].ev
        /\ job'[w].snap = job[w].snap
        /\ UNCHANGED <<row, applied>> /\ job[w].pc \in {"mirror", "dupFetch"}
    BY <1>1, <1>7 DEF MirrorAbsent, MirrorDuplicate, NewEvent, DupFetch, Goto,
                      TypeOK, Jobs, ledger
  <2>. QED  BY <2>1 DEF SnapKept, EventKept
<1>8. CASE DupCancel(w) \/ WithdrawCancel(w) \/ EventCancel(w)
  <2>1. /\ job'[w].sub = job[w].sub /\ job'[w].ev = job[w].ev
        /\ job'[w].snap = job[w].snap
        /\ UNCHANGED <<row, applied>>
        /\ \/ job[w].pc = "dupCancel" /\ job'[w].pc = "dupRefund"
           \/ job[w].pc \in {"wCancel", "eCancel"}
                /\ job'[w].pc \in {"wEnd", "lockSub"}
    BY <1>1, <1>8 DEF DupCancel, WithdrawCancel, EventCancel, CancelThen, Goto,
                      TypeOK, Jobs, ledger
  <2>. QED  BY <2>1 DEF SnapKept, EventKept
<1>9. CASE (DupRefund(w) \/ Recheck(w) \/ WithdrawRefund(w)) /\ ~Abort(w)
  <2>1. /\ job'[w].sub = job[w].sub /\ job'[w].ev = job[w].ev
        /\ job'[w].snap = job[w].snap
        /\ UNCHANGED <<row, applied>>
        /\ \/ job[w].pc = "dupRefund" /\ job'[w].pc = "dupCommit"
           \/ job[w].pc \in {"recheck", "wRefund"}
                /\ job'[w].pc \in {"wRefund", "wCancel"}
    BY <1>1, <1>9 DEF DupRefund, Recheck, WithdrawRefund, Goto,
                      TypeOK, Jobs, ledger
  <2>. QED  BY <2>1 DEF SnapKept, EventKept
<1>10. CASE RevokeCancel(w) /\ ~Abort(w)
  <2>1. job'[w].pc \in {"vCancel", "vRow"}
    BY <1>1, <1>10 DEF RevokeCancel, Goto, TypeOK, Jobs
  <2>. QED  BY <2>1 DEF SnapKept, EventKept
<1>11. (FetchRefused(w) \/ CancelMissing(w) \/ MirrorSeen(w)
        \/ MirrorApply(w) \/ InsertAbsent(w) \/ DupCommit(w) \/ DupReplace(w)
        \/ Lapse(w) \/ WithdrawEnd(w) \/ EventEnd(w) \/ RevokeRow(w)
        \/ GrantInsert(w) \/ Abort(w) \/ Fail(w)) => Finish(w)
  BY DEF FetchRefused, CancelMissing, MirrorSeen, MirrorApply, InsertAbsent,
         DupCommit, DupReplace, Lapse, WithdrawEnd, EventEnd, RevokeRow,
         GrantInsert, Abort, Fail
<1>. QED  BY <1>2, <1>3, <1>4, <1>5, <1>6, <1>7, <1>8, <1>9, <1>10, <1>11
          DEF Step

\* The part of it that versions make up.
VersionInv == RowVersion /\ EventVersion /\ RecordedMeansApplied /\ SnapInv

\* Versions at the provider never go back.
LEMMA AdvancesMonotone ==
    ASSUME TypeOK, TypeOK', Advances, NEW c \in Subs
    PROVE  prov'[c].ver \in Nat /\ prov[c].ver \in Nat
             /\ prov'[c].ver >= prov[c].ver
<1>1. prov'[c].ver \in Nat /\ prov[c].ver \in Nat
  BY DEF TypeOK, Snapshots
<1>. QED  BY <1>1 DEF Advances

\* While a worker moves something about another subscription, or nothing,
\* what a job knows of its own snapshot stays true.
LEMMA OthersSnap ==
    ASSUME LockedInv, LockedInv', VersionInv, NEW w \in Workers, Wrote(w),
           NEW u \in Workers, u # w, job'[u] = job[u]
    PROVE  SnapOK(u)'
<1>. DEFINE s == job[u].sub
            x == job[u].snap
<1>1. /\ TypeOK /\ TypeOK' /\ JobOK(u) /\ LockOK(u) /\ LockOK(w) /\ JobOK(w)
      /\ SnapOK(u)
  BY DEF LockedInv, JobInv, LockInv, VersionInv, SnapInv
<1>2. ASSUME job[u].pc \notin NoSubPCs
      PROVE  s \in Subs /\ prov'[s].ver \in Nat /\ prov[s].ver \in Nat
               /\ prov'[s].ver >= prov[s].ver
  BY <1>1, <1>2, AdvancesMonotone DEF JobOK, Wrote
<1>3. job[u].ev \in Nat /\ x.ver \in Nat
  BY <1>1 DEF TypeOK, Jobs, Snapshots
<1>4. job[u].pc \notin NoSubPCs => job[u].ev <= prov'[s].ver
  BY <1>1, <1>2, <1>3 DEF SnapOK
<1>5. ASSUME job[u].pc \in SnapPCs
      PROVE  /\ x.ver <= prov'[s].ver
             /\ Mirrors(row', s) => row'.ver <= x.ver
             /\ \A e \in applied' : e[1] = s => e[2] <= x.ver
  <2>1. s \in Subs /\ prov'[s].ver >= prov[s].ver
        /\ prov'[s].ver \in Nat /\ prov[s].ver \in Nat
    BY <1>2, <1>5 DEF SnapPCs, DuplicatePCs, NoSubPCs
  <2>2. subLock[s] = u
    BY <1>1, <1>5 DEF LockOK, SubLockedPCs
  <2>3. job[w].pc \in SnapPCs \cup {"wEnd", "end"} => job[w].sub # s
    BY <1>1, <2>2 DEF LockOK, SubLockedPCs, WithdrawPCs
  <2>4. Mirrors(row', s) => Mirrors(row, s) /\ row'.ver = row.ver
    BY <2>1, <2>3 DEF Wrote, WroteRow
  <2>5. \A e \in applied' : e[1] = s => e \in applied
    BY <2>3 DEF Wrote, WroteEvents
  <2>. QED  BY <1>1, <1>3, <1>5, <2>1, <2>4, <2>5 DEF SnapOK
<1>. QED  BY <1>1, <1>4, <1>5 DEF SnapOK

\* A snapshot fetched under the lock is as new as anything.
LEMMA OwnSnap ==
    ASSUME LockedInv, LockedInv', VersionInv, NEW w \in Workers, Wrote(w),
           SnapKept(w), EventKept(w)
    PROVE  SnapOK(w)'
<1>1. TypeOK /\ TypeOK' /\ JobOK(w) /\ JobOK(w)' /\ SnapOK(w)
  BY DEF LockedInv, JobInv, VersionInv, SnapInv
<1>2. job[w].ev \in Nat /\ job'[w].ev \in Nat
      /\ job[w].snap.ver \in Nat /\ job'[w].snap.ver \in Nat
  BY <1>1 DEF TypeOK, Jobs, Snapshots
<1>3. ASSUME job'[w].pc \notin NoSubPCs
      PROVE  job'[w].ev <= prov'[job'[w].sub].ver
  <2>1. job'[w].sub \in Subs
    BY <1>1, <1>3 DEF JobOK
  <2>2. prov'[job'[w].sub].ver \in Nat /\ prov[job'[w].sub].ver \in Nat
          /\ prov'[job'[w].sub].ver >= prov[job'[w].sub].ver
    BY <1>1, <2>1, AdvancesMonotone DEF Wrote
  <2>. QED  BY <1>1, <1>2, <1>3, <2>2 DEF EventKept, SnapOK
<1>4. ASSUME job'[w].pc \in SnapPCs
      PROVE  /\ job'[w].ev <= job'[w].snap.ver
             /\ job'[w].snap.ver <= prov'[job'[w].sub].ver
             /\ Mirrors(row', job'[w].sub) => row'.ver <= job'[w].snap.ver
             /\ \A e \in applied' :
                   e[1] = job'[w].sub => e[2] <= job'[w].snap.ver
  <2>. DEFINE s == job[w].sub
  <2>1. job'[w].sub = s /\ job'[w].ev = job[w].ev
        /\ UNCHANGED <<row, applied>> /\ s \in Subs
        /\ job'[w].ev <= prov'[s].ver
    BY <1>1, <1>3, <1>4 DEF SnapKept, JobOK, SnapPCs, DuplicatePCs, NoSubPCs
  <2>2. prov'[s].ver \in Nat /\ prov[s].ver \in Nat
          /\ prov'[s].ver >= prov[s].ver
    BY <1>1, <2>1, AdvancesMonotone DEF Wrote
  <2>3. CASE job'[w].snap = job[w].snap /\ job[w].pc \in SnapPCs
    BY <1>1, <1>2, <2>1, <2>2, <2>3 DEF SnapOK
  <2>4. CASE job'[w].snap = prov'[s]
    <3>1. Mirrors(row', s) => row'.ver <= prov[s].ver /\ row'.ver \in Nat
      BY <1>1, <2>1 DEF VersionInv, RowVersion, Mirrors, TypeOK, Rows
    <3>2. \A e \in applied' : e[2] \in Nat /\ (e[1] = s => e[2] <= prov[s].ver)
      BY <1>1, <2>1 DEF VersionInv, EventVersion, TypeOK
    <3>. QED  BY <2>1, <2>2, <2>4, <3>1, <3>2
  <2>. QED  BY <1>4, <2>3, <2>4 DEF SnapKept
<1>. QED  BY <1>3, <1>4 DEF SnapOK

\* Every step keeps the versions in order.
LEMMA VersionStep ==
    ASSUME LockedInv, LockedInv', VersionInv, [Next]_vars
    PROVE  VersionInv'
<1>1. TypeOK /\ TypeOK'
  BY DEF LockedInv
<1>2. ASSUME NEW w \in Workers, Begin(w) \/ Step(w) \/ Fail(w)
      PROVE  VersionInv'
  <2>. DEFINE s == job[w].sub
              x == job[w].snap
  <2>1. Wrote(w) /\ SnapKept(w) /\ EventKept(w)
    BY <1>2, WorkerWrote, WorkerSnap
  <2>2. JobOK(w) /\ SnapOK(w) /\ Frame(w)
    <3>1. Kept(w)
      BY <1>1, <1>2, WorkerKept DEF LockedInv
    <3>. QED  BY <3>1 DEF LockedInv, JobInv, VersionInv, SnapInv, Kept
  <2>3. job[w].pc \in SnapPCs =>
          s \in Subs /\ x.ver <= prov[s].ver /\ job[w].ev <= x.ver
    BY <2>2 DEF JobOK, SnapOK, SnapPCs, DuplicatePCs, NoSubPCs
  <2>4. x.ver \in Nat /\ job[w].ev \in Nat
    BY <1>1 DEF TypeOK, Jobs, Snapshots
  <2>5. RowVersion'
    <3>1. ASSUME NEW c \in Subs, Mirrors(row', c)
          PROVE  row'.ver <= prov'[c].ver
      <4>1. prov'[c].ver \in Nat /\ prov[c].ver \in Nat
              /\ prov'[c].ver >= prov[c].ver /\ row'.ver \in Nat
        BY <1>1, <2>1, AdvancesMonotone DEF Wrote, TypeOK, Rows
      <4>2. CASE Mirrors(row, c) /\ row'.ver = row.ver
        BY <4>1, <4>2 DEF VersionInv, RowVersion
      <4>3. CASE c = s /\ job[w].pc \in SnapPCs /\ row'.ver = x.ver
        BY <2>3, <2>4, <4>1, <4>3
      <4>4. CASE row'.ver = prov[c].ver
        BY <4>1, <4>4
      <4>. QED  BY <2>1, <3>1, <4>2, <4>3, <4>4 DEF Wrote, WroteRow
    <3>. QED  BY <3>1 DEF RowVersion
  <2>6. EventVersion'
    <3>1. ASSUME NEW e \in applied'
          PROVE  e[2] <= prov'[e[1]].ver
      <4>1. e[1] \in Subs /\ e[2] \in Nat
        BY <1>1, <3>1 DEF TypeOK
      <4>2. prov'[e[1]].ver \in Nat /\ prov[e[1]].ver \in Nat
              /\ prov'[e[1]].ver >= prov[e[1]].ver
        BY <1>1, <2>1, <4>1, AdvancesMonotone DEF Wrote
      <4>3. CASE e \in applied
        BY <4>1, <4>2, <4>3 DEF VersionInv, EventVersion
      <4>4. CASE e = <<s, job[w].ev>> /\ job[w].pc \in SnapPCs
        BY <2>3, <2>4, <4>1, <4>2, <4>4
      <4>. QED  BY <2>1, <3>1, <4>3, <4>4 DEF Wrote, WroteEvents
    <3>. QED  BY <3>1 DEF EventVersion
  <2>7. RecordedMeansApplied'
    <3>1. ASSUME NEW e \in applied', Mirrors(row', e[1])
          PROVE  row'.ver >= e[2]
      <4>1. e[1] \in Subs /\ e[2] \in Nat /\ row'.ver \in Nat
        BY <1>1, <3>1 DEF TypeOK, Rows
      <4>2. CASE e \in applied
        <5>1. CASE Mirrors(row, e[1]) /\ row'.ver = row.ver
          BY <4>2, <5>1 DEF VersionInv, RecordedMeansApplied
        <5>2. CASE e[1] = s /\ job[w].pc \in SnapPCs /\ row'.ver = x.ver
          BY <2>2, <2>4, <4>1, <4>2, <5>2 DEF SnapOK
        <5>3. CASE row'.ver = prov[e[1]].ver
          BY <4>1, <4>2, <5>3 DEF VersionInv, EventVersion
        <5>. QED  BY <2>1, <3>1, <4>1, <5>1, <5>2, <5>3 DEF Wrote, WroteRow
      <4>3. CASE e = <<s, job[w].ev>> /\ job[w].pc \in SnapPCs
                 /\ (Mirrors(row', s) => row'.ver = x.ver)
        BY <2>3, <2>4, <3>1, <4>1, <4>3
      <4>. QED  BY <2>1, <3>1, <4>2, <4>3 DEF Wrote, WroteEvents
    <3>. QED  BY <3>1 DEF RecordedMeansApplied
  <2>8. SnapInv'
    <3>1. ASSUME NEW u \in Workers
          PROVE  SnapOK(u)'
      <4>1. CASE u = w
        BY <2>1, <4>1, OwnSnap
      <4>2. CASE u # w
        <5>1. job'[u] = job[u]
          BY <2>2, <4>2 DEF Frame
        <5>. QED  BY <2>1, <4>2, <5>1, OthersSnap
      <4>. QED  BY <4>1, <4>2
    <3>. QED  BY <3>1 DEF SnapInv
  <2>. QED  BY <2>5, <2>6, <2>7, <2>8 DEF VersionInv
<1>3. ASSUME Provider \/ Tick \/ ExpireGrant
               \/ (\E plan \in Plans : Grant(plan)) \/ UNCHANGED vars
      PROVE  VersionInv'
  <2>1. /\ UNCHANGED <<job, applied>> /\ Advances
        /\ \A c \in Subs : Mirrors(row', c) => Mirrors(row, c) /\ row' = row
    BY <1>1, <1>3, OutsideWrote
  <2>2. ASSUME NEW c \in Subs
        PROVE  prov'[c].ver \in Nat /\ prov[c].ver \in Nat
                 /\ prov'[c].ver >= prov[c].ver
    BY <1>1, <2>1, AdvancesMonotone
  <2>3. row.ver \in Nat
    BY <1>1 DEF TypeOK, Rows
  <2>4. RowVersion'
    BY <2>1, <2>2, <2>3 DEF VersionInv, RowVersion
  <2>5. EventVersion'
    BY <1>1, <2>1, <2>2 DEF VersionInv, EventVersion, TypeOK
  <2>6. RecordedMeansApplied'
    BY <1>1, <2>1 DEF VersionInv, RecordedMeansApplied, TypeOK
  <2>7. ASSUME NEW u \in Workers
        PROVE  SnapOK(u)'
    <3>1. JobOK(u) /\ SnapOK(u)
      BY DEF LockedInv, JobInv, VersionInv, SnapInv
    <3>2. job[u].ev \in Nat /\ job[u].snap.ver \in Nat
      BY <1>1 DEF TypeOK, Jobs, Snapshots
    <3>3. job[u].pc \in SnapPCs => job[u].pc \notin NoSubPCs
      BY DEF SnapPCs, DuplicatePCs, NoSubPCs
    <3>4. job[u].pc \notin NoSubPCs =>
            /\ job[u].sub \in Subs
            /\ prov'[job[u].sub].ver \in Nat /\ prov[job[u].sub].ver \in Nat
            /\ prov'[job[u].sub].ver >= prov[job[u].sub].ver
      BY <2>2, <3>1 DEF JobOK
    <3>. QED  BY <2>1, <3>1, <3>2, <3>3, <3>4 DEF SnapOK
  <2>8. SnapInv'
    BY <2>7 DEF SnapInv
  <2>. QED  BY <2>4, <2>5, <2>6, <2>8 DEF VersionInv
<1>. QED  BY <1>2, <1>3 DEF Next

-----------------------------------------------------------------------------
(* Theorems about versions, and the promise of the mirror. *)

\* The inductive invariant.
MirrorInv == LockedInv /\ VersionInv

\* The inductive invariant of the mirror: types, jobs, locks and versions.
THEOREM MirrorInvariant == Spec => []MirrorInv
<1>1. Init => MirrorInv
  <2>1. ASSUME Init
        PROVE  MirrorInv
    <3>1. LockedInv
      BY <2>1, LockedInit DEF LockedInv
    <3>2. row.source # "payment" /\ applied = {}
      BY <2>1 DEF Init, NoRow
    <3>3. \A w \in Workers : job[w].pc = "idle"
      BY <2>1 DEF Init, NoJob
    <3>. QED  BY <3>1, <3>2, <3>3 DEF MirrorInv, VersionInv, RowVersion,
                EventVersion, RecordedMeansApplied, SnapInv, SnapOK, Mirrors,
                SnapPCs, DuplicatePCs, NoSubPCs
  <2>. QED  BY <2>1
<1>2. MirrorInv /\ [Next]_vars => MirrorInv'
  <2>1. LockedInv /\ [Next]_vars => LockedInv'
    BY TypeStep, JobStep, RowStep DEF LockedInv
  <2>. QED  BY <2>1, VersionStep DEF MirrorInv
<1>. QED  BY <1>1, <1>2, PTL DEF Spec

\* An event is never marked as handled before what it announces is in the
\* row, for any number of workers, events, redeliveries and failures.
THEOREM EventsAreApplied == Spec => []RecordedMeansApplied
<1>1. MirrorInv => RecordedMeansApplied
  BY DEF MirrorInv, VersionInv
<1>. QED  BY <1>1, MirrorInvariant, PTL

\* A step that changes no subscription at the provider follows it.
LEMMA FollowStep ==
    ASSUME MirrorInv, MirrorInv', prov' = prov,
           \A c \in Subs : Mirrors(row, c) /\ Mirrors(row', c)
                             => row'.ver >= row.ver,
           applied \subseteq applied'
    PROVE  Promise!Follow
<1>. DEFINE latest == [s \in Subs |-> prov[s].ver]
            shown == IF row.source = "payment"
                     THEN [sub |-> row.ref, ver |-> row.ver]
                     ELSE [sub |-> NoSub, ver |-> 0]
<1>1. /\ row.ref \in Subs \cup {NoSub} /\ row'.ref \in Subs \cup {NoSub}
      /\ row.ver \in Nat /\ row'.ver \in Nat /\ NoSub \notin Subs
      /\ applied' \subseteq Subs \X Nat
  BY ModelValues DEF MirrorInv, LockedInv, TypeOK, Rows
<1>2. shown'.sub \in Subs => shown'.ver <= latest[shown'.sub]
  BY <1>1 DEF MirrorInv, VersionInv, RowVersion, Mirrors
<1>3. shown.sub = shown'.sub /\ shown'.sub # NoSub => shown'.ver >= shown.ver
  BY <1>1 DEF Mirrors
<1>4. \A e \in applied' : e[1] \in Subs /\ e[2] <= latest[e[1]]
  BY <1>1 DEF MirrorInv, VersionInv, EventVersion
<1>5. \A e \in applied' : e[1] = shown'.sub => e[2] <= shown'.ver
  <2>1. \A e \in applied' : e[1] \in Subs /\ e[2] \in Nat
    BY <1>1
  <2>. QED  BY <1>1, <2>1 DEF MirrorInv, VersionInv, RecordedMeansApplied, Mirrors
<1>6. latest' = latest
  OBVIOUS
<1>. QED  BY <1>2, <1>3, <1>4, <1>5, <1>6 DEF Promise!Follow, Promise!Showing

\* A step that changes a subscription at the provider changes one, once,
\* and shows and handles nothing.
LEMMA ChangeStep ==
    ASSUME TypeOK, TypeOK', Advances, prov' # prov
    PROVE  \E c \in Subs : Promise!Change(c)
<1>1. PICK c \in Subs : /\ prov'[c].ver = prov[c].ver + 1
                        /\ \A d \in Subs \ {c} : prov'[d] = prov[d]
                        /\ UNCHANGED <<row, applied>>
  BY DEF Advances
<1>2. [s \in Subs |-> prov'[s].ver]
        = [[s \in Subs |-> prov[s].ver] EXCEPT ![c] = @ + 1]
  BY <1>1
<1>. QED  BY <1>1, <1>2 DEF Promise!Change

\* Every step changes one subscription at the provider or follows it.
LEMMA PromiseStep ==
    ASSUME MirrorInv, MirrorInv', [Next]_vars
    PROVE  Promise!Next
<1>1. TypeOK /\ TypeOK' /\ LockedInv
  BY DEF MirrorInv, LockedInv
<1>2. ASSUME NEW w \in Workers, Begin(w) \/ Step(w) \/ Fail(w)
      PROVE  Promise!Next
  <2>1. Wrote(w) /\ SnapOK(w)
    BY <1>1, <1>2, WorkerWrote DEF MirrorInv, VersionInv, SnapInv
  <2>2. CASE prov' # prov
    BY <1>1, <2>1, <2>2, ChangeStep DEF Wrote, Promise!Next
  <2>3. CASE prov' = prov
    <3>1. ASSUME NEW c \in Subs, Mirrors(row, c), Mirrors(row', c)
          PROVE  row'.ver >= row.ver
      <4>1. row.ver \in Nat /\ job[w].snap.ver \in Nat
        BY <1>1 DEF TypeOK, Rows, Jobs, Snapshots
      <4>2. prov[c].ver \in Nat /\ row.ver <= prov[c].ver
        BY <1>1, <3>1 DEF TypeOK, Snapshots, MirrorInv, VersionInv, RowVersion
      <4>. QED  BY <2>1, <3>1, <4>1, <4>2 DEF Wrote, WroteRow, SnapOK
    <3>2. applied \subseteq applied'
      BY <2>1 DEF Wrote, WroteEvents
    <3>. QED  BY <2>3, <3>1, <3>2, FollowStep DEF Promise!Next
  <2>. QED  BY <2>2, <2>3
<1>3. ASSUME Provider \/ Tick \/ ExpireGrant
               \/ (\E plan \in Plans : Grant(plan)) \/ UNCHANGED vars
      PROVE  Promise!Next
  <2>1. /\ applied' = applied /\ Advances
        /\ \A c \in Subs : Mirrors(row', c) => row' = row
    BY <1>1, <1>3, OutsideWrote
  <2>2. CASE prov' # prov
    BY <1>1, <2>1, <2>2, ChangeStep DEF Promise!Next
  <2>3. CASE prov' = prov
    <3>1. \A c \in Subs : Mirrors(row', c) => row'.ver >= row.ver
      BY <1>1, <2>1 DEF TypeOK, Rows
    <3>. QED  BY <2>1, <2>3, <3>1, FollowStep DEF Promise!Next
  <2>. QED  BY <2>2, <2>3
<1>. QED  BY <1>2, <1>3 DEF Next

\* The row keeps the promise of the mirror: it shows a state the provider
\* really had, never goes back to an older one, and no event is marked as
\* handled before the state shown is as new as the event.
THEOREM PromiseKept == Spec => KeepsPromise
<1>1. Init => Promise!Init
  BY DEF Init, Promise!Init, NoRow, NoSnap
<1>2. MirrorInv /\ MirrorInv' /\ [Next]_vars => [Promise!Next]_(Promise!vars)
  BY PromiseStep
<1>. QED  BY <1>1, <1>2, MirrorInvariant, PTL DEF Spec, KeepsPromise, Promise!Spec

-----------------------------------------------------------------------------
(* What the row says: that it agrees with the provider when it claims to,   *)
(* that what ended stays ended, that the grace for a failed payment is      *)
(* counted once, and that an ended purchase hides no staff grant that is    *)
(* still running.                                                           *)
(*                                                                          *)
(* A subscription that began never goes back to not having begun, one that  *)
(* is over stays over, and its period never shrinks (Onward); so a          *)
(* snapshot, a row and a decision to end something stay true of the         *)
(* provider while it moves on (FreshInv, ShownInv).                         *)

\* A subscription that was paid for, or is being tried, and one that is over.
Begun(x) == x.status \notin {"none", "incomplete"}
Over(x) == x.status \in {"canceled", "missing"}

\* Money was only ever taken for a subscription that exists, and a row
\* mirrors only one that began.
MoneyOK == \A s \in Subs : money[s] # "none" => prov[s].status # "none"

\* What the row says of the subscription it mirrors, against the provider.
ShownOK(s) ==
    /\ Begun(prov[s])
    /\ row.status = "canceled" => Over(prov[s])
    /\ row.status = "past_due" => row.pds # NoTime
    /\ IsLive(row) => row.end <= prov[s].end
    /\ IsLive(row) /\ row.ver = prov[s].ver => InSync(row, s, prov[s])
ShownInv == \A s \in Subs : Mirrors(row, s) => ShownOK(s)

\* A snapshot `x` of subscription `s`, against the provider and the row.
FreshSnap(x, s) ==
    /\ x.ver = prov[s].ver => x = prov[s]
    /\ x.status # "missing"
    /\ Begun(x) => Begun(prov[s]) /\ x.end <= prov[s].end
    /\ x.status = "canceled" => Over(prov[s])
    /\ Mirrors(row, s) =>
          /\ Begun(x)
          /\ IsLive(row) => row.end <= x.end
          /\ row.status = "canceled" => ~LiveSnap(x)

\* What a job knows of its subscription by where it stands.
FreshOK(w) ==
    /\ job[w].pc \in SnapPCs => FreshSnap(job[w].snap, job[w].sub)
    /\ job[w].pc = "insert" => ~Mirrors(row, job[w].sub)
    /\ job[w].pc = "eCancel" =>
          job[w].op = "ended" /\ prov[job[w].sub].status # "none"
    /\ job[w].pc \in {"wEnd", "end"} => Over(prov[job[w].sub])
    /\ job[w].pc = "lockSub" /\ job[w].op = "ended" => Over(prov[job[w].sub])
FreshInv == \A w \in Workers : FreshOK(w)

\* The part of the invariant about what the row and the snapshots say.
ContentInv == MoneyOK /\ ShownInv /\ FreshInv

-----------------------------------------------------------------------------
(* The operators that write a row. *)

\* What apply_payment_subscription may leave: nothing changed, a newer
\* version of the same, a live snapshot, or the end of what was live.
LEMMA AppliedCases ==
    ASSUME NEW r \in Rows, NEW s \in Subs, NEW x \in Snapshots, NEW g, NEW at
    PROVE  \/ /\ ~Changes(r, s, x) /\ ~Mirrors(r, s)
              /\ Applied(r, s, x, g, at) = r
           \/ /\ ~Changes(r, s, x) /\ Mirrors(r, s)
              /\ Applied(r, s, x, g, at) = [r EXCEPT !.ver = x.ver]
           \/ /\ Changes(r, s, x) /\ LiveSnap(x)
              /\ Applied(r, s, x, g, at) = RowOf(r, s, x, at)
           \/ /\ Changes(r, s, x) /\ ~LiveSnap(x)
              /\ Mirrors(r, s) /\ IsLive(r)
              /\ Applied(r, s, x, g, at) = Restored(RowOf(r, s, x, at), g, at)
<1>1. Changes(r, s, x) /\ ~LiveSnap(x) => Mirrors(r, s) /\ IsLive(r)
  BY DEF Changes, IsLive, LiveSnap
<1>. QED  BY <1>1 DEF Applied

\* A status is live, or the row is over.
LEMMA LocalStatusCases ==
    ASSUME NEW x \in Snapshots, LocalStatus(x.status) # "none", ~LiveSnap(x)
    PROVE  \/ LocalStatus(x.status) = "canceled" /\ x.status = "canceled"
           \/ LocalStatus(x.status) = "expired"
BY DEF LocalStatus, LiveSnap, Snapshots, ProvStatus

\* A row that is ended and still mirrors its subscription hides no grant.
LEMMA RestoredCases ==
    ASSUME NEW r, NEW g, NEW at, NEW c, Mirrors(Restored(r, g, at), c)
    PROVE  Restored(r, g, at) = r /\ ~GrantRunning(g, at)
BY DEF Restored, Mirrors

\* An expired row differs in its status alone.
LEMMA LapsedCases ==
    ASSUME NEW r \in Rows, NEW s, NEW at
    PROVE  \/ Lapsed(r, s, at) = r
           \/ /\ Lapsed(r, s, at) = [r EXCEPT !.status = "expired"]
              /\ Lapsed(r, s, at).status = "expired"
BY DEF Lapsed, Rows

\* A replaced grant is recorded by a purchase that goes live.
LEMMA ReplacedCases ==
    ASSUME NEW r \in Rows, NEW s \in Subs, NEW x \in Snapshots, NEW at,
           NEW c \in Subs
    PROVE  \/ RecordReplaced(replaced, r, s, x, at)[c] = replaced[c]
           \/ c = s /\ Changes(r, s, x) /\ ~Mirrors(r, s) /\ LiveSnap(x)
BY DEF RecordReplaced, Replaces, Changes

-----------------------------------------------------------------------------
(* What one step may do to the row. *)

\* The row is compared with the snapshot of the job, and nothing differs.
Compared(w, c) ==
    /\ c = job[w].sub /\ job[w].pc \in SnapPCs /\ Mirrors(row, c)
    /\ ~Changes(row, c, job[w].snap)
    /\ row' = [row EXCEPT !.ver = job[w].snap.ver]

\* The snapshot is live, and becomes the row.
Renewed(w, c) ==
    /\ c = job[w].sub /\ job[w].pc \in SnapPCs /\ LiveSnap(job[w].snap)
    /\ \E r \in Rows : /\ Mirrors(row, c) => r = row
                       /\ row' = RowOf(r, c, job[w].snap, now)

\* The row ends with its subscription, and no grant waits behind it.
Stopped(w, c) ==
    /\ c = job[w].sub /\ Mirrors(row, c) /\ ~GrantRunning(replaced[c], now)
    /\ \/ /\ job[w].pc \in SnapPCs
          /\ \/ row'.status = "expired"
             \/ row'.status = "canceled" /\ job[w].snap.status = "canceled"
       \/ job[w].pc \in {"wEnd", "end"} /\ row'.status = "canceled"

\* The row expires.
Expired(w, c) ==
    /\ row'.status = "expired"
    /\ \/ Mirrors(row, c)
       \/ c = job[w].sub /\ job[w].pc \in SnapPCs /\ LiveSnap(job[w].snap)

\* A row that mirrors `c` after a step of `w` came about in one of these ways.
RowMove(w, c) ==
    /\ now' = now
    /\ \/ row' = row
       \/ Compared(w, c) \/ Renewed(w, c) \/ Stopped(w, c) \/ Expired(w, c)
    /\ row'.status = "canceled" => replaced'[c] = replaced[c]

\* The ordinary mirror writes one of them.
LEMMA MirrorApplyMove ==
    ASSUME LockedInv, NEW w \in Workers, MirrorApply(w), NEW c \in Subs,
           Mirrors(row', c)
    PROVE  RowMove(w, c)
<1>. DEFINE s == job[w].sub
            x == job[w].snap
            g == replaced[s]
            r == Applied(row, s, x, g, now)
<1>1. /\ s \in Subs /\ x \in Snapshots /\ now \in Nat /\ row \in Rows
      /\ g \in Grants /\ job[w].pc = "mirror" /\ now' = now
  BY DEF LockedInv, TypeOK, Jobs, JobInv, JobOK, NoSubPCs, MirrorApply, NewEvent
<1>2. job[w].pc \in SnapPCs
  BY <1>1 DEF SnapPCs
<1>3. r \in Rows
  BY <1>1, AppliedType
<1>4. /\ row' = r \/ row' = Lapsed(r, s, now)
      /\ replaced' = RecordReplaced(replaced, row, s, x, now)
  BY DEF MirrorApply
<1>5. \/ row' = r
      \/ row' = [r EXCEPT !.status = "expired"] /\ row'.status = "expired"
  BY <1>3, <1>4, LapsedCases
<1>6. Mirrors(r, c)
  BY <1>3, <1>5 DEF Mirrors, Rows
<1>7. \/ replaced'[c] = replaced[c]
      \/ c = s /\ Changes(row, s, x) /\ ~Mirrors(row, s) /\ LiveSnap(x)
  BY <1>1, <1>4, ReplacedCases
<1>8. CASE ~Changes(row, s, x) /\ ~Mirrors(row, s) /\ r = row
  BY <1>1, <1>5, <1>6, <1>7, <1>8 DEF RowMove, Expired
<1>9. CASE ~Changes(row, s, x) /\ Mirrors(row, s) /\ r = [row EXCEPT !.ver = x.ver]
  <2>1. c = s
    BY <1>1, <1>6, <1>9 DEF Mirrors, Rows
  <2>2. CASE row' = r
    BY <1>1, <1>2, <1>7, <1>9, <2>1, <2>2 DEF RowMove, Compared
  <2>3. CASE row'.status = "expired"
    BY <1>1, <1>7, <1>9, <2>1, <2>3 DEF RowMove, Expired
  <2>. QED  BY <1>5, <2>2, <2>3
<1>10. CASE Changes(row, s, x) /\ LiveSnap(x) /\ r = RowOf(row, s, x, now)
  <2>1. c = s
    BY <1>6, <1>10 DEF Mirrors, RowOf
  <2>2. CASE row' = r
    <3>1. row'.status # "canceled"
      BY <1>10, <2>2 DEF RowOf, LiveSnap
    <3>. QED  BY <1>1, <1>2, <1>10, <2>1, <2>2, <3>1 DEF RowMove, Renewed
  <2>3. CASE row'.status = "expired"
    BY <1>1, <1>2, <1>10, <2>1, <2>3 DEF RowMove, Expired
  <2>. QED  BY <1>5, <2>2, <2>3
<1>11. CASE /\ Changes(row, s, x) /\ ~LiveSnap(x) /\ Mirrors(row, s) /\ IsLive(row)
            /\ r = Restored(RowOf(row, s, x, now), g, now)
  <2>1. r = RowOf(row, s, x, now) /\ ~GrantRunning(g, now)
    BY <1>6, <1>11, RestoredCases
  <2>2. c = s /\ r.status = LocalStatus(x.status)
    BY <1>6, <2>1 DEF Mirrors, RowOf
  <2>3. LocalStatus(x.status) # "none"
    BY <1>11 DEF Changes
  <2>4. \/ r.status = "canceled" /\ x.status = "canceled"
        \/ r.status = "expired"
    BY <1>1, <1>11, <2>2, <2>3, LocalStatusCases
  <2>5. CASE row' = r
    BY <1>1, <1>2, <1>7, <1>11, <2>1, <2>2, <2>4, <2>5 DEF RowMove, Stopped
  <2>6. CASE row'.status = "expired"
    BY <1>1, <1>7, <1>11, <2>2, <2>6 DEF RowMove, Expired
  <2>. QED  BY <1>5, <2>5, <2>6
<1>. QED  BY <1>1, <1>8, <1>9, <1>10, <1>11, AppliedCases

\* So does the upsert of what was decided without a row.
LEMMA InsertMove ==
    ASSUME LockedInv, NEW w \in Workers, InsertAbsent(w), FreshOK(w),
           NEW c \in Subs, Mirrors(row', c)
    PROVE  RowMove(w, c)
<1>. DEFINE s == job[w].sub
            x == job[w].snap
<1>1. /\ job[w].pc = "insert" /\ LiveSnap(x) /\ now' = now
      /\ row' = RowOf(NoRow, s, x, now) /\ ~Mirrors(row, s)
  BY DEF LockedInv, JobInv, JobOK, InsertAbsent, FreshOK
<1>2. NoRow \in Rows
  BY DEF NoRow, NoTime, Rows, RowStatus, ProvStatus
<1>3. c = s /\ row'.status # "canceled"
  BY <1>1 DEF Mirrors, RowOf, LiveSnap
<1>4. job[w].pc \in SnapPCs
  BY <1>1 DEF SnapPCs
<1>. QED  BY <1>1, <1>2, <1>3, <1>4 DEF RowMove, Renewed

\* The duplicate that takes the place of the one that is over.
LEMMA ReplaceMove ==
    ASSUME LockedInv, NEW w \in Workers, DupReplace(w), NEW c \in Subs,
           Mirrors(row', c)
    PROVE  RowMove(w, c)
<1>. DEFINE s == job[w].sub
            x == job[w].snap
            cur == row.ref
            g == replaced[row.ref]
            ended == EndCurrent(row, job[w].cur, g, now)
            r == Applied(ended, s, x, replaced[s], now)
<1>1. /\ s \in Subs /\ cur \in Subs /\ cur # s
      /\ LiveSnap(x) /\ row.source = "payment" /\ job[w].pc = "dupReplace"
      /\ now' = now
  BY DEF LockedInv, DupReplace, JobInv, JobOK, RowInv, RowOK, NoSubPCs,
         DuplicatePCs, TypeOK, Rows
<1>2. /\ x \in Snapshots /\ now \in Nat /\ row \in Rows /\ g \in Grants
      /\ replaced[s] \in Grants
      /\ job[w].cur \in Snapshots /\ job[w].cur.ver \in Nat
  BY <1>1 DEF LockedInv, TypeOK, Jobs, Snapshots
<1>3. ended \in Rows
  BY <1>1, <1>2, AppliedType, EndedType DEF EndCurrent
<1>4. ~Mirrors(ended, s)
  BY <1>1, <1>2, AppliedMirrors, EndedMirrors DEF EndCurrent, Mirrors
<1>5. Changes(ended, s, x)
  BY <1>1, <1>4 DEF Changes, LiveSnap
<1>6. r = RowOf(ended, s, x, now)
  BY <1>4, <1>5 DEF Applied
<1>7. r \in Rows
  BY <1>1, <1>2, <1>3, AppliedType
<1>8. \/ row' = r
      \/ row' = [r EXCEPT !.status = "expired"] /\ row'.status = "expired"
  BY <1>7, LapsedCases DEF DupReplace
<1>9. c = s
  BY <1>6, <1>7, <1>8 DEF Mirrors, RowOf, Rows
<1>10. job[w].pc \in SnapPCs /\ ~Mirrors(row, s)
  BY <1>1 DEF SnapPCs, DuplicatePCs, Mirrors
<1>11. CASE row' = r
  <2>1. row'.status # "canceled"
    BY <1>1, <1>6, <1>11 DEF RowOf, LiveSnap
  <2>. QED  BY <1>1, <1>3, <1>6, <1>9, <1>10, <1>11, <2>1 DEF RowMove, Renewed
<1>12. CASE row'.status = "expired"
  BY <1>1, <1>9, <1>10, <1>12 DEF RowMove, Expired
<1>. QED  BY <1>8, <1>11, <1>12

\* Ending a row whose subscription was canceled.
LEMMA EndMove ==
    ASSUME LockedInv, NEW w \in Workers, WithdrawEnd(w) \/ EventEnd(w),
           NEW c \in Subs, Mirrors(row', c)
    PROVE  RowMove(w, c)
<1>. DEFINE s == job[w].sub
            g == replaced[s]
            e == [status |-> "canceled", source |-> "payment", ref |-> s,
                  end |-> now, pds |-> NoTime, plan |-> row.plan,
                  pst |-> "canceled", ver |-> prov[s].ver]
<1>1. /\ job[w].pc \in {"wEnd", "end"} /\ now' = now /\ replaced' = replaced
      /\ row' = Ended(row, s, prov[s].ver, g, now)
  BY DEF WithdrawEnd, EventEnd, EndRow, ledger
<1>2. CASE ~(Mirrors(row, s) /\ IsLive(row))
  BY <1>1, <1>2 DEF Ended, RowMove
<1>3. CASE Mirrors(row, s) /\ IsLive(row)
  <2>1. row' = Restored(e, g, now)
    BY <1>1, <1>3 DEF Ended
  <2>2. row' = e /\ ~GrantRunning(g, now)
    BY <2>1, RestoredCases
  <2>3. c = s /\ row'.status = "canceled"
    BY <2>2 DEF Mirrors
  <2>. QED  BY <1>1, <1>3, <2>2, <2>3 DEF RowMove, Stopped
<1>. QED  BY <1>2, <1>3

\* Whatever a worker does.
LEMMA WorkerMove ==
    ASSUME LockedInv, NEW w \in Workers, Begin(w) \/ Step(w) \/ Fail(w),
           FreshOK(w), NEW c \in Subs, Mirrors(row', c)
    PROVE  RowMove(w, c)
<1>1. TypeOK /\ row \in Rows
  BY DEF LockedInv, TypeOK
<1>2. CASE UNCHANGED <<now, row, replaced>>
  BY <1>2 DEF RowMove
<1>3. CASE DupCommit(w) \/ Lapse(w)
  <2>1. row' = row \/ row' = Lapsed(row, job[w].sub, now)
    BY <1>3 DEF DupCommit, Lapse
  <2>2. UNCHANGED <<now, replaced>>
    BY <1>3 DEF DupCommit, Lapse, ledger
  <2>3. \/ row' = row
        \/ row' = [row EXCEPT !.status = "expired"] /\ row'.status = "expired"
    BY <1>1, <2>1, LapsedCases
  <2>. QED  BY <1>1, <2>2, <2>3 DEF RowMove, Expired, Mirrors, Rows
<1>4. CASE RevokeRow(w)
  <2>1. UNCHANGED <<now, replaced>>
    BY <1>4 DEF RevokeRow, ledger
  <2>2. \/ row' = row
        \/ row' = [row EXCEPT !.status = "expired", !.end = now]
    BY <1>4 DEF RevokeRow
  <2>. QED  BY <1>1, <2>1, <2>2 DEF RowMove, Expired, Mirrors, Rows
<1>5. CASE GrantInsert(w)
  <2>1. PICK plan \in Plans, source \in {"admin", "other"} :
          row' = [GrantRow(NoRow, plan, source, now)
                    EXCEPT !.ref = row.ref, !.ver = row.ver]
    BY <1>5 DEF GrantInsert
  <2>2. /\ GrantRow(NoRow, plan, source, now) \in Rows
        /\ GrantRow(NoRow, plan, source, now).source = source
    <3>1. NoRow \in Rows
      BY DEF NoRow, NoTime, Rows, RowStatus, ProvStatus
    <3>. QED  BY <1>1, <3>1, GrantRowType, GrantRowSource DEF TypeOK
  <2>3. row'.source # "payment"
    BY <2>1, <2>2 DEF Rows
  <2>. QED  BY <2>3 DEF Mirrors
<1>6. CASE Begin(w)
  <2>1. UNCHANGED <<now, row, replaced>>
    BY <1>6 DEF Begin, Webhook, Deliver, Sweep, ChargeEvent, ReconcileDue,
                Withdraw, ChangePlan, Revoke, GrantAbsent, Start, ledger
  <2>. QED  BY <1>2, <2>1
<1>7. CASE \/ LockSub(w) \/ LockFetch(w) \/ FetchRefused(w) \/ GraceCancel(w)
           \/ CancelMissing(w) \/ ChangePrice(w) \/ MirrorSeen(w)
           \/ MirrorAbsent(w) \/ MirrorDuplicate(w) \/ DupFetch(w)
           \/ DupCancel(w) \/ DupRefund(w) \/ Recheck(w) \/ WithdrawRefund(w)
           \/ WithdrawCancel(w) \/ EventCancel(w) \/ RevokeCancel(w) \/ Fail(w)
  <2>1. UNCHANGED <<now, row, replaced>>
    BY <1>7
    DEF LockSub, LockFetch, FetchRefused, GraceCancel, CancelMissing, ChangePrice,
        MirrorSeen, MirrorAbsent, MirrorDuplicate, DupFetch, DupCancel, DupRefund,
        Recheck, WithdrawRefund, WithdrawCancel, EventCancel, RevokeCancel, Fail,
        CancelThen, Abort, ledger
  <2>. QED  BY <1>2, <2>1
<1>. QED  BY <1>3, <1>4, <1>5, <1>6, <1>7, MirrorApplyMove, InsertMove,
             ReplaceMove, EndMove DEF Step

-----------------------------------------------------------------------------
(* The provider moves on. *)

\* What any step may do to one subscription at the provider.
Onward(c) ==
    \/ prov'[c] = prov[c]
    \/ /\ prov'[c].ver = prov[c].ver + 1 /\ prov'[c].status # "none"
       /\ Begun(prov[c]) => Begun(prov'[c]) /\ prov'[c].end >= prov[c].end
       /\ Over(prov[c]) => Over(prov'[c])

\* A change that is none of the forbidden ones.
LEMMA ChangedOnward ==
    ASSUME TypeOK, NEW s \in Subs, NEW st, NEW e, NEW plan,
           prov' = Changed(s, st, e, plan), st # "none",
           Begun(prov[s]) => st # "incomplete" /\ e >= prov[s].end,
           Over(prov[s]) => st \in {"canceled", "missing"}
    PROVE  \A c \in Subs : Onward(c)
<1>1. \A c \in Subs \ {s} : prov'[c] = prov[c]
  BY DEF TypeOK, Changed
<1>2. prov'[s] = [status |-> st, end |-> e, plan |-> plan, ver |-> prov[s].ver + 1]
  BY DEF TypeOK, Changed
<1>. QED  BY <1>1, <1>2 DEF Onward, Begun, Over

\* Canceling at once is none of them.
LEMMA CanceledOnward ==
    ASSUME TypeOK, NEW s \in Subs, prov' = CanceledNow(s)
    PROVE  /\ \A c \in Subs : Onward(c)
           /\ prov[s].status # "none" => prov'[s].status = "canceled"
<1>1. CASE prov[s].status \in {"canceled", "none"}
  BY <1>1 DEF CanceledNow, Onward
<1>2. CASE prov[s].status \notin {"canceled", "none"}
  <2>1. prov' = Changed(s, "canceled", prov[s].end, prov[s].plan)
    BY <1>2 DEF CanceledNow
  <2>2. prov[s].end \in Int
    BY DEF TypeOK, Snapshots
  <2>3. \A c \in Subs : Onward(c)
    BY <2>1, <2>2, ChangedOnward
  <2>4. prov'[s].status = "canceled"
    BY <2>1 DEF TypeOK, Changed
  <2>. QED  BY <2>3, <2>4
<1>. QED  BY <1>1, <1>2

\* The provider, its customers and staff only move on.
LEMMA ProviderOnward ==
    ASSUME TypeOK, Provider
    PROVE  /\ \A c \in Subs : Onward(c)
           /\ \A c \in Subs : money'[c] = money[c] \/ prov'[c].status # "none"
                                \/ money[c] # "none"
<1>1. PICK s \in Subs :
        \/ \E plan \in Plans : Buy(s, plan) \/ PortalChange(s, plan)
        \/ ChargeSucceeds(s) \/ ChargeFails(s) \/ GivesUp(s)
        \/ ChargeReversed(s) \/ Forgets(s)
  BY DEF Provider
<1>2. prov[s] \in Snapshots /\ prov[s].end \in Int /\ now \in Nat
  BY DEF TypeOK, Snapshots
<1>3. NextEnd(s) >= prov[s].end
  BY <1>2, Durations DEF NextEnd
<1>4. CASE ChargeReversed(s)
  <2>1. prov' = prov /\ money[s] = "charged"
        /\ \A c \in Subs \ {s} : money'[c] = money[c]
    BY <1>4 DEF ChargeReversed, TypeOK
  <2>. QED  BY <2>1 DEF Onward
<1>5. CASE ~ChargeReversed(s)
  <2>1. \E st, e, plan : /\ prov' = Changed(s, st, e, plan) /\ st # "none"
                         /\ Begun(prov[s]) => st # "incomplete" /\ e >= prov[s].end
                         /\ Over(prov[s]) => st \in {"canceled", "missing"}
    <3>1. CASE \E plan \in Plans : Buy(s, plan)
      BY <3>1 DEF Buy, Moves, Begun, Over
    <3>2. CASE \E plan \in Plans : PortalChange(s, plan)
      BY <1>2, <3>2 DEF PortalChange, Moves, Begun, Over
    <3>3. CASE ChargeSucceeds(s)
      BY <1>3, <3>3 DEF ChargeSucceeds, Moves, Begun, Over
    <3>4. CASE ChargeFails(s)
      BY <1>3, <3>4 DEF ChargeFails, Moves, Begun, Over
    <3>5. CASE GivesUp(s)
      BY <1>2, <3>5 DEF GivesUp, Moves, Begun, Over, MayCharge, LiveAtProvider
    <3>6. CASE Forgets(s)
      BY <1>2, <3>6 DEF Forgets, Moves, Begun, Over
    <3>. QED  BY <1>1, <1>5, <3>1, <3>2, <3>3, <3>4, <3>5, <3>6
  <2>2. PICK st, e, plan : /\ prov' = Changed(s, st, e, plan) /\ st # "none"
                           /\ Begun(prov[s]) => st # "incomplete" /\ e >= prov[s].end
                           /\ Over(prov[s]) => st \in {"canceled", "missing"}
    BY <2>1
  <2>3. \A c \in Subs : Onward(c)
    BY <2>2, ChangedOnward
  <2>4. prov'[s].status # "none"
    BY <2>2 DEF TypeOK, Changed
  <2>5. \A c \in Subs \ {s} : money'[c] = money[c]
    BY <1>1, <1>5 DEF Buy, PortalChange, ChargeSucceeds, ChargeFails, GivesUp,
                      Forgets, Charges, TypeOK
  <2>. QED  BY <2>3, <2>4, <2>5
<1>. QED  BY <1>4, <1>5

\* The calls of a worker only move it on, and refund only what was charged.
LEMMA WorkerOnward ==
    ASSUME LockedInv, NEW w \in Workers, Begin(w) \/ Step(w) \/ Fail(w)
    PROVE  /\ \A c \in Subs : Onward(c)
           /\ \A c \in Subs : money'[c] = money[c] \/ money[c] # "none"
<1>1. TypeOK /\ JobOK(w)
  BY DEF LockedInv, JobInv
<1>2. CASE UNCHANGED <<prov, money>>
  BY <1>2 DEF Onward
<1>3. CASE (DupRefund(w) \/ WithdrawRefund(w)) /\ ~Abort(w)
  <2>1. prov' = prov
        /\ money' = [money EXCEPT ![job[w].sub] = IF @ = "charged" THEN "refunded" ELSE @]
    BY <1>3 DEF DupRefund, WithdrawRefund
  <2>2. \A c \in Subs : money'[c] = money[c] \/ money[c] # "none"
    BY <1>1, <2>1 DEF TypeOK
  <2>. QED  BY <2>1, <2>2 DEF Onward
<1>4. CASE Abort(w)
  BY <1>2, <1>4 DEF Abort
<1>5. CASE GraceCancel(w) \/ DupCancel(w) \/ WithdrawCancel(w) \/ EventCancel(w)
  <2>1. prov' = CanceledNow(job[w].sub) /\ money' = money /\ job[w].sub \in Subs
    BY <1>1, <1>5 DEF GraceCancel, DupCancel, WithdrawCancel, EventCancel,
                      CancelThen, JobOK, NoSubPCs
  <2>. QED  BY <1>1, <2>1, CanceledOnward
<1>6. CASE ChangePrice(w) /\ ~Abort(w)
  <2>. DEFINE s == job[w].sub
  <2>1. PICK plan \in Plans :
          /\ prov' = Changed(s, prov[s].status, prov[s].end, plan)
          /\ prov[s].status \in {"active", "trialing"} /\ money' = money
    BY <1>6 DEF ChangePrice
  <2>2. s \in Subs /\ prov[s].end \in Int
    BY <1>1, <1>6 DEF ChangePrice, JobOK, NoSubPCs, TypeOK, Snapshots
  <2>. QED  BY <1>1, <2>1, <2>2, ChangedOnward DEF Over
<1>7. CASE RevokeCancel(w) /\ ~Abort(w)
  <2>1. CASE prov' = prov
    BY <1>7, <2>1 DEF RevokeCancel, Onward
  <2>2. CASE prov' # prov
    <3>1. PICK c \in job[w].todo : prov' = CanceledNow(c) /\ money' = money
      BY <1>7, <2>2 DEF RevokeCancel
    <3>2. c \in Subs
      BY <1>1 DEF TypeOK, Jobs
    <3>. QED  BY <1>1, <3>1, <3>2, CanceledOnward
  <2>. QED  BY <2>1, <2>2
<1>8. CASE Begin(w)
  BY <1>2, <1>8
  DEF Begin, Webhook, Deliver, Sweep, ChargeEvent, ReconcileDue,
      Withdraw, ChangePlan, Revoke, GrantAbsent, Start
<1>9. CASE \/ LockSub(w) \/ LockFetch(w) \/ FetchRefused(w)
           \/ CancelMissing(w) \/ MirrorSeen(w) \/ MirrorApply(w)
           \/ MirrorAbsent(w) \/ InsertAbsent(w) \/ MirrorDuplicate(w)
           \/ DupFetch(w) \/ DupCommit(w) \/ DupReplace(w) \/ Lapse(w)
           \/ Recheck(w) \/ WithdrawEnd(w) \/ EventEnd(w)
           \/ RevokeRow(w) \/ GrantInsert(w) \/ Fail(w)
  <2>1. UNCHANGED <<prov, money>>
    BY <1>9
    DEF LockSub, LockFetch, FetchRefused, CancelMissing, MirrorSeen, MirrorApply,
        MirrorAbsent, InsertAbsent, MirrorDuplicate, DupFetch, DupCommit,
        DupReplace, Lapse, Recheck, WithdrawEnd, EventEnd, RevokeRow,
        GrantInsert, Fail, Abort
  <2>. QED  BY <1>2, <2>1
<1>. QED  BY <1>3, <1>4, <1>5, <1>6, <1>7, <1>8, <1>9 DEF Step

-----------------------------------------------------------------------------
(* Where a job stands. *)

\* What a step of `w` leads to: a snapshot kept or fetched, a row that is
\* not there, a charge that went back, and what was canceled to be ended.
Stands(w) ==
    /\ job'[w].pc \in SnapPCs =>
          /\ job'[w].sub = job[w].sub /\ row' = row
          /\ \/ job'[w].snap = job[w].snap /\ job[w].pc \in SnapPCs
             \/ /\ job'[w].snap = prov'[job[w].sub]
                /\ prov'[job[w].sub].status # "missing"
    /\ job'[w].pc = "insert" => row' = NoRow
    /\ job'[w].pc = "eCancel" =>
          /\ job'[w].op = "ended" /\ job'[w].sub \in Subs
          /\ money[job'[w].sub] # "none" /\ prov' = prov
    /\ job'[w].pc = "wEnd" =>
          /\ job[w].pc = "wCancel" /\ job'[w].sub = job[w].sub
          /\ prov' = CanceledNow(job[w].sub)
    /\ job'[w].pc = "end" =>
          /\ job[w].pc = "lockSub" /\ job[w].op = "ended"
          /\ job'[w].sub = job[w].sub /\ prov' = prov
    /\ job'[w].pc = "lockSub" /\ job'[w].op = "ended" =>
          /\ job[w].pc = "eCancel" /\ job'[w].sub = job[w].sub
          /\ prov' = CanceledNow(job[w].sub)

\* Where a job that starts stands.
LEMMA StartStands ==
    ASSUME TypeOK, NEW w \in Workers, NEW op, NEW pc, NEW s, NEW ev, NEW todo,
           Start(w, op, pc, s, ev, todo),
           \/ pc \in {"vCancel", "gInsert"}
           \/ pc = "lockSub" /\ op # "ended"
           \/ pc = "eCancel" /\ op = "ended" /\ s \in Subs /\ money[s] # "none"
    PROVE  Stands(w)
<1>1. job'[w].pc = pc /\ job'[w].op = op /\ job'[w].sub = s /\ prov' = prov
  BY DEF Start, TypeOK
<1>. QED  BY <1>1 DEF Stands, SnapPCs, DuplicatePCs

\* Every job starts out knowing nothing, or after a charge that went back.
LEMMA BeginStands ==
    ASSUME TypeOK, NEW w \in Workers, Begin(w)
    PROVE  Stands(w)
<1>1. ASSUME NEW s \in Subs, Webhook(w, s) \/ Sweep(w, s) \/ ChargeEvent(w, s)
      PROVE  Stands(w)
  <2>1. CASE Webhook(w, s)
    BY <2>1, StartStands DEF Webhook, Deliver
  <2>2. CASE Sweep(w, s)
    BY <2>2, StartStands DEF Sweep
  <2>3. CASE ChargeEvent(w, s)
    <3>1. Start(w, "ended", "eCancel", s, 0, {}) /\ money[s] # "none"
      BY <2>3 DEF ChargeEvent
    <3>. QED  BY <3>1, StartStands
  <2>. QED  BY <1>1, <2>1, <2>2, <2>3
<1>2. ReconcileDue(w) => Stands(w)
  BY StartStands DEF ReconcileDue
<1>3. Withdraw(w) => Stands(w)
  BY StartStands DEF Withdraw
<1>4. ChangePlan(w) => Stands(w)
  BY StartStands DEF ChangePlan
<1>5. Revoke(w) => Stands(w)
  BY StartStands DEF Revoke
<1>6. GrantAbsent(w) => Stands(w)
  BY StartStands DEF GrantAbsent
<1>. QED  BY <1>1, <1>2, <1>3, <1>4, <1>5, <1>6 DEF Begin

\* So does every job go on.
LEMMA WorkerStands ==
    ASSUME LockedInv, NEW w \in Workers, Begin(w) \/ Step(w) \/ Fail(w)
    PROVE  Stands(w)
<1>. USE DEF SnapPCs, DuplicatePCs
<1>1. TypeOK
  BY DEF LockedInv
<1>2. CASE Finish(w)
  <2>1. job'[w].pc = "idle"
    BY <1>1, <1>2, FinishKept DEF NoJob
  <2>. QED  BY <2>1 DEF Stands
<1>3. CASE Begin(w)
  BY <1>1, <1>3, BeginStands
<1>4. CASE LockSub(w)
  <2>1. /\ job'[w].pc \in {"end", "recheck"} /\ job'[w].sub = job[w].sub
        /\ job'[w].pc = "end" => job[w].op = "ended"
        /\ job[w].pc = "lockSub" /\ prov' = prov
    BY <1>1, <1>4 DEF LockSub, TakeSubLock, Goto, TypeOK, Jobs
  <2>. QED  BY <2>1 DEF Stands
<1>5. CASE LockFetch(w)
  <2>1. /\ AfterFetch(w, prov[job[w].sub]) \in PCs
        /\ AfterFetch(w, prov[job[w].sub]) \in {"change", "graceCancel", "mirror"}
    BY DEF AfterFetch, PCs
  <2>2. \/ /\ job'[w].sub = job[w].sub /\ job'[w].snap = prov[job[w].sub]
           /\ job'[w].pc \in {"change", "graceCancel", "mirror"}
           /\ prov[job[w].sub].status # "missing"
        \/ job'[w].pc = "lapse"
    BY <1>1, <1>5, <2>1 DEF LockFetch, Fetchable, Goto, TypeOK, Jobs
  <2>3. UNCHANGED <<prov, row>>
    BY <1>5 DEF LockFetch
  <2>. QED  BY <2>2, <2>3 DEF Stands
<1>6. CASE GraceCancel(w) \/ (ChangePrice(w) /\ ~Abort(w))
  <2>1. /\ job'[w].sub = job[w].sub /\ job'[w].pc = "mirror"
        /\ job'[w].snap = prov'[job[w].sub] /\ row' = row
    BY <1>1, <1>6 DEF GraceCancel, ChangePrice, TypeOK, Jobs
  <2>2. job[w].sub \in Subs
    BY <1>6 DEF LockedInv, JobInv, JobOK, NoSubPCs, GraceCancel, ChangePrice
  <2>3. prov'[job[w].sub].status # "missing"
    <3>1. CASE GraceCancel(w)
      <4>1. prov' = CanceledNow(job[w].sub) /\ prov[job[w].sub].status # "missing"
        BY <3>1 DEF GraceCancel
      <4>2. CASE prov[job[w].sub].status = "none"
        BY <4>1, <4>2 DEF CanceledNow
      <4>3. CASE prov[job[w].sub].status # "none"
        BY <1>1, <2>2, <4>1, <4>3, CanceledOnward
      <4>. QED  BY <4>2, <4>3
    <3>2. CASE ChangePrice(w) /\ ~Abort(w)
      <4>1. PICK plan \in Plans :
              /\ prov' = Changed(job[w].sub, prov[job[w].sub].status,
                                 prov[job[w].sub].end, plan)
              /\ prov[job[w].sub].status \in {"active", "trialing"}
        BY <3>2 DEF ChangePrice
      <4>. QED  BY <1>1, <2>2, <4>1 DEF Changed, TypeOK
    <3>. QED  BY <1>6, <3>1, <3>2
  <2>. QED  BY <2>1, <2>3 DEF Stands
<1>7. CASE MirrorAbsent(w) \/ MirrorDuplicate(w) \/ DupFetch(w)
  <2>1. /\ job'[w].sub = job[w].sub /\ job'[w].snap = job[w].snap /\ row' = row
        /\ job'[w].pc = "insert" => row = NoRow
        /\ job[w].pc \in {"mirror", "dupFetch"}
        /\ job'[w].pc \in {"insert", "dupFetch", "dupCancel", "dupReplace"}
    BY <1>1, <1>7 DEF MirrorAbsent, MirrorDuplicate, NewEvent, DupFetch, Goto,
                      TypeOK, Jobs
  <2>. QED  BY <2>1 DEF Stands
<1>8. CASE DupCancel(w) \/ WithdrawCancel(w) \/ EventCancel(w)
  <2>1. /\ job'[w].sub = job[w].sub /\ job'[w].snap = job[w].snap /\ row' = row
        /\ prov' = CanceledNow(job[w].sub)
        /\ \/ job[w].pc = "dupCancel" /\ job'[w].pc = "dupRefund"
           \/ job[w].pc = "wCancel" /\ job'[w].pc = "wEnd"
           \/ job[w].pc = "eCancel" /\ job'[w].pc = "lockSub"
    BY <1>1, <1>8 DEF DupCancel, WithdrawCancel, EventCancel, CancelThen, Goto,
                      TypeOK, Jobs
  <2>. QED  BY <2>1 DEF Stands
<1>9. CASE (DupRefund(w) \/ Recheck(w) \/ WithdrawRefund(w)) /\ ~Abort(w)
  <2>1. /\ job'[w].sub = job[w].sub /\ job'[w].snap = job[w].snap /\ row' = row
        /\ \/ job[w].pc = "dupRefund" /\ job'[w].pc = "dupCommit"
           \/ job'[w].pc \in {"wRefund", "wCancel"}
    BY <1>1, <1>9 DEF DupRefund, Recheck, WithdrawRefund, Goto, TypeOK, Jobs
  <2>. QED  BY <2>1 DEF Stands
<1>10. CASE RevokeCancel(w) /\ ~Abort(w)
  <2>1. job'[w].pc \in {"vCancel", "vRow"}
    BY <1>1, <1>10 DEF RevokeCancel, Goto, TypeOK, Jobs
  <2>. QED  BY <2>1 DEF Stands
<1>11. (FetchRefused(w) \/ CancelMissing(w) \/ MirrorSeen(w)
        \/ MirrorApply(w) \/ InsertAbsent(w) \/ DupCommit(w) \/ DupReplace(w)
        \/ Lapse(w) \/ WithdrawEnd(w) \/ EventEnd(w) \/ RevokeRow(w)
        \/ GrantInsert(w) \/ Abort(w) \/ Fail(w)) => Finish(w)
  BY DEF FetchRefused, CancelMissing, MirrorSeen, MirrorApply, InsertAbsent,
         DupCommit, DupReplace, Lapse, WithdrawEnd, EventEnd, RevokeRow,
         GrantInsert, Abort, Fail
<1>. QED  BY <1>2, <1>3, <1>4, <1>5, <1>6, <1>7, <1>8, <1>9, <1>10, <1>11
          DEF Step

-----------------------------------------------------------------------------
(* The invariant is kept. *)

\* A row that stays as it is stays true of what moves on.
LEMMA ShownKept ==
    ASSUME LockedInv, LockedInv', RowVersion, NEW c \in Subs, Mirrors(row, c),
           row' = row, ShownOK(c), Onward(c)
    PROVE  ShownOK(c)'
<1>1. /\ row.ver \in Nat /\ row.end \in Int /\ prov[c].ver \in Nat
      /\ prov[c].end \in Int /\ prov'[c].end \in Int /\ row.ver <= prov[c].ver
  BY DEF LockedInv, TypeOK, Rows, Snapshots, RowVersion
<1>2. CASE prov'[c] = prov[c]
  BY <1>2 DEF ShownOK, IsLive, InSync, Mirrors, LiveSnap, Begun, Over
<1>3. CASE prov'[c] # prov[c]
  <2>1. /\ prov'[c].ver = prov[c].ver + 1
        /\ Begun(prov[c]) => Begun(prov'[c]) /\ prov'[c].end >= prov[c].end
        /\ Over(prov[c]) => Over(prov'[c])
    BY <1>3 DEF Onward
  <2>2. row'.ver # prov'[c].ver
    BY <1>1, <2>1
  <2>. QED  BY <1>1, <2>1, <2>2 DEF ShownOK, IsLive
<1>. QED  BY <1>2, <1>3

\* What a worker writes in the row is true of the provider.
LEMMA ShownByWorker ==
    ASSUME LockedInv, LockedInv', VersionInv, ContentInv,
           NEW w \in Workers, Begin(w) \/ Step(w) \/ Fail(w),
           NEW c \in Subs, Mirrors(row', c)
    PROVE  ShownOK(c)'
<1>. DEFINE x == job[w].snap
            p == prov[c]
<1>1. /\ FreshOK(w) /\ RowVersion
      /\ Mirrors(row, c) => ShownOK(c)
  BY DEF ContentInv, FreshInv, ShownInv, VersionInv
<1>2. RowMove(w, c) /\ Onward(c)
  BY <1>1, WorkerMove, WorkerOnward
<1>3. /\ x \in Snapshots /\ x.end \in Int /\ x.ver \in Nat
      /\ p \in Snapshots /\ p.end \in Int /\ row \in Rows /\ row.end \in Int
      /\ row'.end \in Int /\ now \in Nat
  BY DEF LockedInv, TypeOK, Jobs, Snapshots, Rows
<1>4. CASE row' = row
  <2>1. Mirrors(row, c)
    BY <1>4
  <2>. QED  BY <1>1, <1>2, <1>4, <2>1, ShownKept
<1>5. row' # row => prov' = prov
  BY WorkerWrote DEF Wrote, Advances
<1>6. c = job[w].sub /\ job[w].pc \in SnapPCs => FreshSnap(x, c)
  BY <1>1 DEF FreshOK
<1>7. CASE row' # row /\ Compared(w, c)
  <2>1. /\ FreshSnap(x, c) /\ Mirrors(row, c) /\ ShownOK(c) /\ Begun(x)
        /\ prov' = prov /\ x.status # "missing"
    BY <1>1, <1>5, <1>6, <1>7 DEF Compared, FreshSnap
  <2>2. /\ row'.status = row.status /\ row'.pds = row.pds /\ row'.end = row.end
        /\ row'.ver = x.ver /\ row'.pst = row.pst /\ row'.plan = row.plan
    BY <1>3, <1>7 DEF Compared, Rows
  <2>3. LocalStatus(x.status) # "none"
    BY <1>3, <2>1 DEF Begun, LocalStatus, Snapshots, ProvStatus
  <2>4. ASSUME IsLive(row'), row'.ver = p.ver
        PROVE  InSync(row', c, p)
    <3>1. x = p /\ row.end <= x.end /\ IsLive(row)
      BY <2>1, <2>2, <2>4 DEF FreshSnap, IsLive
    <3>2. ~Changes(row, c, x)
      BY <1>7 DEF Compared
    <3>3. IsLive(row) = LiveSnap(x)
      BY <2>1, <2>3, <3>2 DEF Changes
    <3>4. /\ row.plan = x.plan /\ row.status = LocalStatus(x.status)
          /\ ~(x.end > row.end) /\ row.pst = x.status
      BY <2>1, <2>3, <3>1, <3>2, <3>3 DEF Changes
    <3>5. row.end = x.end
      BY <1>3, <3>1, <3>4
    <3>. QED  BY <2>2, <3>1, <3>4, <3>5 DEF InSync
  <2>. QED  BY <2>1, <2>2, <2>4 DEF ShownOK, IsLive
<1>8. CASE row' # row /\ Renewed(w, c)
  <2>1. PICK r \in Rows : row' = RowOf(r, c, x, now)
    BY <1>8 DEF Renewed
  <2>2. FreshSnap(x, c) /\ LiveSnap(x) /\ prov' = prov
    BY <1>5, <1>6, <1>8 DEF Renewed
  <2>3. Begun(x)
    BY <2>2 DEF LiveSnap, LocalStatus, Begun
  <2>4. Begun(p) /\ x.end <= p.end
    BY <2>2, <2>3 DEF FreshSnap
  <2>5. /\ row'.status = LocalStatus(x.status) /\ row'.end = x.end
        /\ row'.pst = x.status /\ row'.plan = x.plan /\ row'.ver = x.ver
        /\ row'.pds = IF x.status = "past_due" THEN GraceStart(r, c, now) ELSE NoTime
    BY <2>1, <2>2 DEF RowOf
  <2>6. row'.status # "canceled"
    BY <2>2, <2>5 DEF LiveSnap
  <2>7. row'.status = "past_due" => row'.pds # NoTime
    BY <1>3, <2>5 DEF LocalStatus, GraceStart, NoTime
  <2>8. row'.ver = p.ver => InSync(row', c, p)
    BY <2>2, <2>5 DEF FreshSnap, InSync
  <2>. QED  BY <2>2, <2>4, <2>5, <2>6, <2>7, <2>8 DEF ShownOK
<1>9. CASE row' # row /\ Stopped(w, c)
  <2>1. prov' = prov /\ Begun(p)
    BY <1>1, <1>5, <1>9 DEF Stopped, ShownOK
  <2>2. row'.status \in {"expired", "canceled"}
    BY <1>9 DEF Stopped
  <2>3. row'.status = "canceled" => Over(p)
    BY <1>1, <1>6, <1>9 DEF Stopped, FreshSnap, FreshOK
  <2>. QED  BY <2>1, <2>2, <2>3 DEF ShownOK, IsLive
<1>10. CASE row' # row /\ Expired(w, c)
  <2>1. prov' = prov /\ row'.status = "expired"
    BY <1>5, <1>10 DEF Expired
  <2>2. Begun(p)
    BY <1>1, <1>6, <1>10 DEF Expired, ShownOK, FreshSnap, LiveSnap, LocalStatus, Begun
  <2>. QED  BY <2>1, <2>2 DEF ShownOK, IsLive
<1>. QED  BY <1>2, <1>4, <1>7, <1>8, <1>9, <1>10 DEF RowMove

\* A snapshot stays true of a subscription that its job has locked.
LEMMA FreshKept ==
    ASSUME LockedInv, LockedInv', NEW c \in Subs, NEW x \in Snapshots,
           x.ver <= prov[c].ver, FreshSnap(x, c), Onward(c),
           Mirrors(row', c) => \/ row' = row
                               \/ row'.status = "expired" /\ Mirrors(row, c)
    PROVE  FreshSnap(x, c)'
<1>1. /\ x.ver \in Nat /\ x.end \in Int /\ prov[c].ver \in Nat
      /\ prov[c].end \in Int /\ prov'[c].end \in Int /\ row.end \in Int
  BY DEF LockedInv, TypeOK, Rows, Snapshots
<1>2. x.ver = prov'[c].ver => x = prov'[c]
  BY <1>1 DEF Onward, FreshSnap
<1>3. Begun(x) => Begun(prov'[c]) /\ x.end <= prov'[c].end
  BY <1>1 DEF Onward, FreshSnap
<1>4. x.status = "canceled" => Over(prov'[c])
  BY DEF Onward, FreshSnap
<1>5. x.status # "missing"
  BY DEF FreshSnap
<1>6. Mirrors(row', c) =>
        /\ Begun(x)
        /\ IsLive(row') => row'.end <= x.end
        /\ row'.status = "canceled" => ~LiveSnap(x)
  BY DEF FreshSnap, IsLive
<1>. QED  BY <1>2, <1>3, <1>4, <1>5, <1>6 DEF FreshSnap

\* What the other jobs know stays true, as nobody writes about the
\* subscription they have locked.
LEMMA FreshOthers ==
    ASSUME LockedInv, LockedInv', VersionInv, ContentInv,
           NEW w \in Workers, Begin(w) \/ Step(w) \/ Fail(w),
           NEW u \in Workers, u # w, job'[u] = job[u]
    PROVE  FreshOK(u)'
<1>1. /\ FreshOK(u) /\ FreshOK(w) /\ SnapOK(u) /\ JobOK(u) /\ LockOK(u) /\ LockOK(w)
      /\ job[u] \in Jobs
  BY DEF ContentInv, FreshInv, VersionInv, SnapInv, LockedInv, JobInv, LockInv,
         TypeOK
<1>2. PICK x \in Snapshots, s \in Subs \cup {NoSub} :
        x = job[u].snap /\ s = job[u].sub
  BY <1>1 DEF Jobs
<1>3. job'[u].snap = x /\ job'[u].sub = s
  BY <1>2
<1>4. job[u].pc \notin NoSubPCs => s \in Subs /\ Onward(s)
  BY <1>1, <1>2, WorkerOnward DEF JobOK
<1>5. ASSUME job[u].pc \in SnapPCs, Mirrors(row', s)
      PROVE  row' = row \/ (row'.status = "expired" /\ Mirrors(row, s))
  <2>1. s \in Subs /\ subLock[s] = u
    BY <1>1, <1>2, <1>5 DEF JobOK, LockOK, SubLockedPCs, SnapPCs, DuplicatePCs, NoSubPCs
  <2>2. job[w].pc \in SnapPCs \cup {"wEnd", "end"} => job[w].sub # s
    BY <1>1, <2>1 DEF LockOK, SubLockedPCs, WithdrawPCs
  <2>3. RowMove(w, s)
    BY <1>1, <1>5, <2>1, WorkerMove
  <2>. QED  BY <2>2, <2>3 DEF RowMove, Compared, Renewed, Stopped, Expired
<1>6. ASSUME job[u].pc \in SnapPCs
      PROVE  FreshSnap(x, s)'
  <2>1. /\ s \in Subs /\ Onward(s) /\ FreshSnap(x, s) /\ x.ver <= prov[s].ver
    BY <1>1, <1>2, <1>4, <1>6 DEF FreshOK, SnapOK, SnapPCs, DuplicatePCs, NoSubPCs
  <2>. QED  BY <1>5, <1>6, <2>1, FreshKept
<1>7. job[u].pc = "insert" => ~Mirrors(row', s)
  BY <1>1, <1>2, <1>5 DEF FreshOK, SnapPCs, Mirrors
<1>8. job[u].pc = "eCancel" => job[u].op = "ended" /\ prov'[s].status # "none"
  BY <1>1, <1>2, <1>4 DEF FreshOK, Onward, NoSubPCs
<1>9. job[u].pc \in {"wEnd", "end"} => Over(prov'[s])
  BY <1>1, <1>2, <1>4 DEF FreshOK, Onward, NoSubPCs
<1>10. job[u].pc = "lockSub" /\ job[u].op = "ended" => Over(prov'[s])
  BY <1>1, <1>2, <1>4 DEF FreshOK, Onward, NoSubPCs
<1>. QED  BY <1>3, <1>6, <1>7, <1>8, <1>9, <1>10 DEF FreshOK, FreshSnap

\* A snapshot just fetched is true of the provider, and of the row.
LEMMA FreshFetched ==
    ASSUME LockedInv, LockedInv', NEW c \in Subs, NEW x, x = prov'[c],
           x.status # "missing", Mirrors(row', c) => ShownOK(c)'
    PROVE  FreshSnap(x, c)'
<1>1. x.end \in Int
  BY DEF LockedInv, TypeOK, Snapshots
<1>2. Mirrors(row', c) =>
        /\ Begun(x)
        /\ IsLive(row') => row'.end <= x.end
        /\ row'.status = "canceled" => ~LiveSnap(x)
  BY DEF ShownOK, Over, LiveSnap, LocalStatus
<1>. QED  BY <1>1, <1>2 DEF FreshSnap, Over

\* What a job that moves on knows is true.
LEMMA FreshOwn ==
    ASSUME LockedInv, LockedInv', VersionInv, ContentInv, ShownInv',
           NEW w \in Workers, Begin(w) \/ Step(w) \/ Fail(w)
    PROVE  FreshOK(w)'
<1>1. /\ FreshOK(w) /\ SnapOK(w) /\ JobOK(w) /\ JobOK(w)' /\ RowOK(w)
      /\ job[w] \in Jobs /\ job'[w] \in Jobs /\ TypeOK
  BY DEF ContentInv, FreshInv, VersionInv, SnapInv, LockedInv, JobInv, RowInv,
         TypeOK
<1>2. PICK x \in Snapshots, s \in Subs \cup {NoSub} :
        x = job'[w].snap /\ s = job'[w].sub
  BY <1>1 DEF Jobs
<1>3. job'[w].pc \notin NoSubPCs => s \in Subs /\ Onward(s)
  BY <1>1, <1>2, WorkerOnward DEF JobOK
<1>4. Stands(w)
  BY WorkerStands
<1>5. ASSUME job'[w].pc \in SnapPCs
      PROVE  FreshSnap(x, s)'
  <2>1. s \in Subs /\ Onward(s) /\ s = job[w].sub /\ row' = row
    BY <1>2, <1>3, <1>4, <1>5 DEF Stands, SnapPCs, DuplicatePCs, NoSubPCs
  <2>2. CASE job'[w].snap = job[w].snap /\ job[w].pc \in SnapPCs
    <3>1. FreshSnap(x, s) /\ x.ver <= prov[s].ver
      BY <1>1, <1>2, <2>1, <2>2 DEF FreshOK, SnapOK
    <3>. QED  BY <2>1, <3>1, FreshKept
  <2>3. CASE /\ job'[w].snap = prov'[job[w].sub]
             /\ prov'[job[w].sub].status # "missing"
    <3>1. x = prov'[s] /\ x.status # "missing"
      BY <1>2, <2>1, <2>3
    <3>2. Mirrors(row', s) => ShownOK(s)'
      BY <2>1 DEF ShownInv
    <3>. QED  BY <2>1, <3>1, <3>2, FreshFetched
  <2>. QED  BY <1>4, <1>5, <2>2, <2>3 DEF Stands
<1>6. job'[w].pc = "insert" => ~Mirrors(row', s)
  BY <1>4 DEF Stands, Mirrors, NoRow
<1>7. job'[w].pc = "eCancel" => job'[w].op = "ended" /\ prov'[s].status # "none"
  BY <1>2, <1>4 DEF Stands, ContentInv, MoneyOK
<1>8. job'[w].pc = "wEnd" => Over(prov'[s])
  <2>1. SUFFICES ASSUME job'[w].pc = "wEnd" PROVE Over(prov'[s])
    OBVIOUS
  <2>2. /\ s \in Subs /\ job[w].pc = "wCancel" /\ s = job[w].sub
        /\ prov' = CanceledNow(s)
    BY <1>2, <1>3, <1>4, <2>1 DEF Stands, NoSubPCs
  <2>3. Mirrors(row, s)
    BY <1>1, <2>2 DEF RowOK, WithdrawPCs, PaidRow, Mirrors
  <2>4. prov[s].status # "none"
    BY <2>2, <2>3 DEF ContentInv, ShownInv, ShownOK, Begun
  <2>. QED  BY <1>1, <2>2, <2>4, CanceledOnward DEF Over
<1>9. job'[w].pc = "end" => Over(prov'[s])
  BY <1>1, <1>2, <1>4 DEF Stands, FreshOK
<1>10. job'[w].pc = "lockSub" /\ job'[w].op = "ended" => Over(prov'[s])
  <2>1. SUFFICES ASSUME job'[w].pc = "lockSub", job'[w].op = "ended"
                 PROVE  Over(prov'[s])
    OBVIOUS
  <2>2. /\ s \in Subs /\ job[w].pc = "eCancel" /\ s = job[w].sub
        /\ prov' = CanceledNow(s)
    BY <1>2, <1>3, <1>4, <2>1 DEF Stands, NoSubPCs
  <2>3. prov[s].status # "none"
    BY <1>1, <2>2 DEF FreshOK
  <2>. QED  BY <1>1, <2>2, <2>3, CanceledOnward DEF Over
<1>. QED  BY <1>2, <1>5, <1>6, <1>7, <1>8, <1>9, <1>10 DEF FreshOK, FreshSnap

\* The provider, the clock and grants leave rows and snapshots true.
LEMMA ContentOutside ==
    ASSUME LockedInv, LockedInv', VersionInv, ContentInv,
           Provider \/ Tick \/ ExpireGrant
             \/ (\E plan \in Plans : Grant(plan)) \/ UNCHANGED vars
    PROVE  /\ ContentInv' /\ now' \in Nat /\ now' >= now /\ replaced' = replaced
           /\ \A c \in Subs : Mirrors(row', c) => Mirrors(row, c) /\ row' = row
<1>1. TypeOK /\ TypeOK' /\ now \in Nat /\ now' \in Nat
  BY DEF LockedInv, TypeOK
<1>2. /\ UNCHANGED <<job, subLock, applied>>
      /\ \A c \in Subs : Mirrors(row', c) => Mirrors(row, c) /\ row' = row
  BY <1>1, OutsideWrote
<1>3. replaced' = replaced /\ now' >= now
  BY <1>1 DEF Provider, Buy, PortalChange, ChargeSucceeds, ChargeFails, GivesUp,
              ChargeReversed, Forgets, Moves, Tick, ExpireGrant, Grant, vars, ledger
<1>4. /\ \A c \in Subs : Onward(c)
      /\ \A c \in Subs : money'[c] = money[c] \/ prov'[c].status # "none"
                           \/ money[c] # "none"
  <2>1. Provider \/ UNCHANGED <<prov, money>>
    BY DEF Tick, ExpireGrant, Grant, vars
  <2>. QED  BY <1>1, <2>1, ProviderOnward DEF Onward
<1>5. MoneyOK'
  BY <1>4 DEF ContentInv, MoneyOK, Onward
<1>6. ShownInv'
  <2>1. ASSUME NEW c \in Subs, Mirrors(row', c)
        PROVE  ShownOK(c)'
    <3>1. Mirrors(row, c) /\ row' = row /\ ShownOK(c) /\ RowVersion
      BY <1>2, <2>1 DEF ContentInv, ShownInv, VersionInv
    <3>. QED  BY <1>4, <3>1, ShownKept
  <2>. QED  BY <2>1 DEF ShownInv
<1>7. ASSUME NEW u \in Workers
      PROVE  FreshOK(u)'
  <2>1. FreshOK(u) /\ SnapOK(u) /\ JobOK(u) /\ job[u] \in Jobs
    BY <1>1 DEF ContentInv, FreshInv, VersionInv, SnapInv, LockedInv, JobInv, TypeOK
  <2>2. PICK x \in Snapshots, s \in Subs \cup {NoSub} :
          x = job[u].snap /\ s = job[u].sub
    BY <2>1 DEF Jobs
  <2>3. job'[u] = job[u] /\ job'[u].snap = x /\ job'[u].sub = s
    BY <1>2, <2>2
  <2>4. job[u].pc \notin NoSubPCs => s \in Subs /\ Onward(s)
    BY <1>4, <2>1, <2>2 DEF JobOK
  <2>5. ASSUME job[u].pc \in SnapPCs
        PROVE  FreshSnap(x, s)'
    <3>1. s \in Subs /\ Onward(s) /\ FreshSnap(x, s) /\ x.ver <= prov[s].ver
      BY <2>1, <2>2, <2>4, <2>5 DEF FreshOK, SnapOK, SnapPCs, DuplicatePCs, NoSubPCs
    <3>2. Mirrors(row', s) => row' = row
      BY <1>2, <3>1
    <3>. QED  BY <3>1, <3>2, FreshKept
  <2>6. job[u].pc = "insert" => ~Mirrors(row', s)
    BY <1>2, <2>1, <2>2, <2>4 DEF FreshOK, NoSubPCs
  <2>7. job[u].pc = "eCancel" => job[u].op = "ended" /\ prov'[s].status # "none"
    BY <2>1, <2>2, <2>4 DEF FreshOK, Onward, NoSubPCs
  <2>8. job[u].pc \in {"wEnd", "end"} => Over(prov'[s])
    BY <2>1, <2>2, <2>4 DEF FreshOK, Onward, NoSubPCs
  <2>9. job[u].pc = "lockSub" /\ job[u].op = "ended" => Over(prov'[s])
    BY <2>1, <2>2, <2>4 DEF FreshOK, Onward, NoSubPCs
  <2>. QED  BY <2>3, <2>5, <2>6, <2>7, <2>8, <2>9 DEF FreshOK, FreshSnap
<1>. QED  BY <1>1, <1>2, <1>3, <1>5, <1>6, <1>7 DEF ContentInv, FreshInv

\* Every step keeps the content of the row true.
LEMMA ContentStep ==
    ASSUME LockedInv, LockedInv', VersionInv, ContentInv, [Next]_vars
    PROVE  ContentInv'
<1>1. ASSUME NEW w \in Workers, Begin(w) \/ Step(w) \/ Fail(w)
      PROVE  ContentInv'
  <2>1. MoneyOK'
    <3>1. /\ \A c \in Subs : Onward(c)
          /\ \A c \in Subs : money'[c] = money[c] \/ money[c] # "none"
      BY <1>1, WorkerOnward
    <3>. QED  BY <3>1 DEF ContentInv, MoneyOK, Onward
  <2>2. ShownInv'
    BY <1>1, ShownByWorker DEF ShownInv
  <2>3. Frame(w)
    BY <1>1, WorkerKept DEF Kept, LockedInv
  <2>4. ASSUME NEW u \in Workers
        PROVE  FreshOK(u)'
    <3>1. CASE u = w
      BY <1>1, <2>2, <3>1, FreshOwn
    <3>2. CASE u # w
      <4>1. job'[u] = job[u]
        BY <2>3, <3>2 DEF Frame
      <4>. QED  BY <1>1, <3>2, <4>1, FreshOthers
    <3>. QED  BY <3>1, <3>2
  <2>. QED  BY <2>1, <2>2, <2>4 DEF ContentInv, FreshInv
<1>. QED  BY <1>1, ContentOutside DEF Next

-----------------------------------------------------------------------------
(* Theorems. *)

\* The inductive invariant: types, jobs, locks, versions and content.
MirrorRowInv == MirrorInv /\ ContentInv

\* What the row and the snapshots say is true of the provider in every
\* instance, whatever is delayed, repeated, reordered or fails.
THEOREM MirrorRowInvariant == Spec => []MirrorRowInv
<1>1. Init => ContentInv
  <2>1. ASSUME Init
        PROVE  ContentInv
    <3>1. /\ \A s \in Subs : money[s] = "none"
          /\ row.source # "payment"
          /\ \A w \in Workers : job[w].pc = "idle"
      BY <2>1 DEF Init, NoRow, NoJob
    <3>. QED  BY <3>1 DEF ContentInv, MoneyOK, ShownInv, FreshInv, FreshOK,
              Mirrors, SnapPCs, DuplicatePCs
  <2>. QED  BY <2>1
<1>2. MirrorInv /\ MirrorInv' /\ ContentInv /\ [Next]_vars => ContentInv'
  BY ContentStep DEF MirrorInv
<1>. QED  BY <1>1, <1>2, MirrorInvariant, PTL DEF Spec, MirrorRowInv

\* A live row that carries the provider's present version says exactly what
\* the provider says: what is left unwritten because nothing changed does
\* not differ, for any number of subscriptions, plans and deliveries.
THEOREM ExactMirror == Spec => []MirrorExact
<1>1. MirrorRowInv => MirrorExact
  BY DEF MirrorRowInv, ContentInv, ShownInv, ShownOK, MirrorExact
<1>. QED  BY <1>1, MirrorRowInvariant, PTL

\* A purchase that was canceled hides no staff grant that is still running.
THEOREM GrantsComeBack == Spec => []GrantComesBack
<1>1. Init => GrantComesBack
  BY DEF Init, GrantComesBack, NoRow, Mirrors
<1>2. MirrorRowInv /\ MirrorRowInv' /\ GrantComesBack /\ [Next]_vars => GrantComesBack'
  <2>1. SUFFICES ASSUME MirrorRowInv, MirrorRowInv', GrantComesBack, [Next]_vars,
                        NEW s \in Subs, Mirrors(row', s), row'.status = "canceled"
                 PROVE  ~GrantRunning(replaced'[s], now')
    BY DEF GrantComesBack
  <2>2. /\ LockedInv /\ LockedInv' /\ VersionInv /\ ContentInv
        /\ now \in Nat /\ now' \in Nat
        /\ replaced[s] \in Grants /\ replaced[s].end \in Int
    BY <2>1 DEF MirrorRowInv, MirrorInv, LockedInv, TypeOK, Grants
  <2>3. ASSUME NEW w \in Workers, Begin(w) \/ Step(w) \/ Fail(w)
        PROVE  ~GrantRunning(replaced'[s], now')
    <3>1. FreshOK(w)
      BY <2>2 DEF ContentInv, FreshInv
    <3>2. RowMove(w, s)
      BY <2>1, <2>2, <2>3, <3>1, WorkerMove
    <3>3. now' = now /\ replaced'[s] = replaced[s]
      BY <2>1, <3>2 DEF RowMove
    <3>4. ~GrantRunning(replaced[s], now)
      <4>1. CASE row' = row \/ Compared(w, s)
        <5>1. Mirrors(row, s) /\ row.status = "canceled"
          BY <2>1, <2>2, <4>1 DEF Compared, LockedInv, TypeOK, Rows
        <5>. QED  BY <2>1, <5>1 DEF GrantComesBack
      <4>2. CASE Renewed(w, s)
        BY <2>1, <4>2 DEF Renewed, RowOf, LiveSnap
      <4>3. CASE Stopped(w, s)
        BY <4>3 DEF Stopped
      <4>4. CASE Expired(w, s)
        BY <2>1, <4>4 DEF Expired
      <4>. QED  BY <3>2, <4>1, <4>2, <4>3, <4>4 DEF RowMove
    <3>. QED  BY <3>3, <3>4
  <2>4. ASSUME Provider \/ Tick \/ ExpireGrant
                 \/ (\E plan \in Plans : Grant(plan)) \/ UNCHANGED vars
        PROVE  ~GrantRunning(replaced'[s], now')
    <3>1. now' >= now /\ replaced' = replaced /\ Mirrors(row, s) /\ row' = row
      BY <2>1, <2>2, <2>4, ContentOutside
    <3>2. ~GrantRunning(replaced[s], now)
      BY <2>1, <3>1 DEF GrantComesBack
    <3>. QED  BY <2>2, <3>1, <3>2 DEF GrantRunning
  <2>. QED  BY <2>1, <2>3, <2>4 DEF Next
<1>. QED  BY <1>1, <1>2, MirrorRowInvariant, PTL DEF Spec

\* What one step may do to a row that goes on mirroring its subscription:
\* what ended does not come back, and a grace is not counted anew.
LEMMA RowKept ==
    ASSUME MirrorRowInv, MirrorRowInv', [Next]_vars, NEW s \in Subs,
           Mirrors(row, s), Mirrors(row', s)
    PROVE  /\ row.status = "canceled" => ~IsLive(row')
           /\ row.status = "past_due" /\ row'.status = "past_due"
                => row'.pds = row.pds
<1>1. /\ LockedInv /\ LockedInv' /\ VersionInv /\ ContentInv /\ row \in Rows
      /\ ShownOK(s)
  BY DEF MirrorRowInv, MirrorInv, LockedInv, TypeOK, ContentInv, ShownInv
<1>2. ASSUME NEW w \in Workers, Begin(w) \/ Step(w) \/ Fail(w)
      PROVE  /\ row.status = "canceled" => ~IsLive(row')
             /\ row.status = "past_due" /\ row'.status = "past_due"
                  => row'.pds = row.pds
  <2>. DEFINE x == job[w].snap
  <2>1. FreshOK(w) /\ RowMove(w, s)
    BY <1>1, <1>2, WorkerMove DEF ContentInv, FreshInv
  <2>2. CASE row' = row \/ Compared(w, s)
    BY <1>1, <2>2 DEF Compared, Rows, IsLive
  <2>3. CASE Renewed(w, s)
    <3>1. FreshSnap(x, s) /\ LiveSnap(x) /\ row' = RowOf(row, s, x, now)
      BY <2>1, <2>3 DEF Renewed, FreshOK
    <3>2. row.status # "canceled"
      BY <3>1 DEF FreshSnap
    <3>3. row'.status = "past_due" => x.status = "past_due"
      BY <3>1 DEF RowOf, LocalStatus
    <3>4. ASSUME row.status = "past_due", row'.status = "past_due"
          PROVE  row'.pds = row.pds
      BY <1>1, <3>1, <3>3, <3>4 DEF RowOf, GraceStart, ShownOK
    <3>. QED  BY <3>2, <3>4
  <2>4. CASE Stopped(w, s) \/ Expired(w, s)
    BY <2>4 DEF Stopped, Expired, IsLive
  <2>. QED  BY <2>1, <2>2, <2>3, <2>4 DEF RowMove
<1>3. ASSUME Provider \/ Tick \/ ExpireGrant
               \/ (\E plan \in Plans : Grant(plan)) \/ UNCHANGED vars
      PROVE  row' = row
  BY <1>1, <1>3, ContentOutside
<1>. QED  BY <1>2, <1>3 DEF Next, IsLive

\* A subscription that was canceled, withdrawn, refunded or disputed never
\* comes back to life in the row, whatever was fetched before it ended.
THEOREM EndedForGood == Spec => EndedStaysEnded
<1>1. MirrorRowInv /\ MirrorRowInv' /\ [Next]_vars =>
        [\A s \in Subs :
          Mirrors(row, s) /\ row.status = "canceled" /\ Mirrors(row', s)
              => ~IsLive(row')]_vars
  BY RowKept
<1>. QED  BY <1>1, MirrorRowInvariant, PTL DEF Spec, EndedStaysEnded

\* The grace for a failed renewal runs from the first failure, however many
\* failures are delivered after it.
THEOREM GraceRunsOnce == Spec => GraceNotRestarted
<1>1. MirrorRowInv /\ MirrorRowInv' /\ [Next]_vars =>
        [\A s \in Subs :
          Mirrors(row, s) /\ Mirrors(row', s)
            /\ row.status = "past_due" /\ row'.status = "past_due"
              => row'.pds = row.pds]_vars
  BY RowKept
<1>. QED  BY <1>1, MirrorRowInvariant, PTL DEF Spec, GraceNotRestarted
=============================================================================
