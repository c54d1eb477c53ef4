------------------------- MODULE SubscriptionMirror -------------------------
(***************************************************************************)
(* Paid subscriptions of one account: the payment provider holds the truth *)
(* (variable prov), the table `subscriptions` holds one row that mirrors   *)
(* it, and everything that moves the two together is a database            *)
(* transaction with provider calls in the middle: webhook deliveries, the  *)
(* daily walk over all subscriptions, the hourly check of what is due,     *)
(* withdrawals and refunds, plan changes, staff grants and revocations.    *)
(*                                                                         *)
(* A transaction is a job of a worker.  A provider call is a step of its   *)
(* own, so that the provider, and every other worker, may move between two *)
(* of them.  A database write that nothing follows but the commit is one   *)
(* step with it: a crash between the two rolls the write back.  Two locks  *)
(* order the workers: the advisory lock of a subscription id, taken before *)
(* that subscription is fetched, and the lock of the account's row, which  *)
(* locks nothing while the account has no row.                             *)
(*                                                                         *)
(* Versions are ghosts: the provider counts its own changes, and a row     *)
(* carries the version of the snapshot it was last compared with.          *)
(***************************************************************************)
EXTENDS Integers, FiniteSets

CONSTANTS
    Subs,          \* subscriptions the account ever buys at the provider
    Plans,         \* plan, interval and price of a subscription, as one value
    Handlers,      \* workers that serve requests and webhook deliveries
    Scheduler,     \* the worker that runs the hourly and daily jobs
    NoSub, NoWorker,
    Requests,      \* the kinds of request that arrive
    MaxTime,       \* bound: the clock stops here
    MaxVersion,    \* bound: changes of one subscription at the provider
    MaxFailures,   \* bound: jobs that fail or crash halfway
    RenewalGrace, PaymentGrace, Period, GrantDays,
    WithdrawLimit  \* SELF_SERVICE_WITHDRAWALS_PER_YEAR

Workers == Handlers \cup {Scheduler}

AllRequests == {"webhook", "sweep", "due", "withdraw", "refund", "ended",
                "change", "revoke", "grant", "trial", "missing"}

ASSUME ModelValues == NoSub \notin Subs /\ NoWorker \notin Workers
ASSUME Bounds ==
    /\ MaxTime \in Nat /\ MaxVersion \in Nat /\ MaxFailures \in Nat
    /\ WithdrawLimit \in Nat /\ Requests \subseteq AllRequests
ASSUME Durations ==
    /\ RenewalGrace \in Nat /\ PaymentGrace \in Nat
    /\ Period \in Nat /\ GrantDays \in Nat

VARIABLES
    now,        \* the clock, in days
    prov,       \* what the provider says of each subscription
    money,      \* the latest charge of each subscription
    row,        \* the account's row of `subscriptions`
    replaced,   \* per subscription: the staff grant its purchase replaced
    applied,    \* `stripe_events`: <<s, v>> is the event of version v of s
    withdrawn,  \* self-service withdrawals on record
    subLock,    \* holder of each subscription's advisory lock
    rowLock,    \* holder of the row's lock
    job,        \* the transaction each worker is in
    failures

vars == <<now, prov, money, row, replaced, applied, withdrawn, subLock,
          rowLock, job, failures>>
locks == <<subLock, rowLock>>
ledger == <<replaced, applied, withdrawn>>

NoTime == -1

-----------------------------------------------------------------------------
(* Provider subscriptions and their local form. *)

ProvStatus == {"none", "incomplete", "trialing", "active", "past_due",
               "unpaid", "canceled", "missing"}
Snapshots == [status : ProvStatus, end : Int, plan : Plans \cup {NoSub},
              ver : Nat]
NoSnap == [status |-> "none", end |-> NoTime, plan |-> NoSub, ver |-> 0]

LiveAtProvider(x) == x.status \in {"active", "trialing", "past_due"}
MayCharge(x) == LiveAtProvider(x) \/ x.status \in {"unpaid", "incomplete"}

\* map_provider_status; "none" stands for None: nothing is granted yet.
LocalStatus(status) ==
    CASE status \in {"active", "trialing"} -> "active"
      [] status = "past_due" -> "past_due"
      [] status = "canceled" -> "canceled"
      [] status = "unpaid" -> "expired"
      [] OTHER -> "none"

RowStatus == {"absent", "trialing", "active", "past_due", "canceled", "expired"}
Rows == [status : RowStatus, source : {"none", "payment", "admin", "other"},
         ref : Subs \cup {NoSub}, end : Int, pds : Int,
         plan : Plans \cup {NoSub}, pst : ProvStatus, ver : Nat]
NoRow == [status |-> "absent", source |-> "none", ref |-> NoSub,
          end |-> NoTime, pds |-> NoTime, plan |-> NoSub, pst |-> "none",
          ver |-> 0]

IsLive(r) == r.status \in {"trialing", "active", "past_due"}

\* subscription_in_effect
InEffect(r, at) ==
    /\ IsLive(r)
    /\ r.status = "past_due" /\ r.pds # NoTime => r.pds + PaymentGrace > at
    /\ r.end # NoTime =>
          r.end + (IF r.source = "payment" THEN RenewalGrace ELSE 0) > at

PaidInEffect(r, at) == r.source = "payment" /\ InEffect(r, at)
Mirrors(r, s) == r.source = "payment" /\ r.ref = s

-----------------------------------------------------------------------------
(* apply_payment_subscription, end_paid_subscription and what they share.  *)
(* `r` is the row the transaction read, `x` the snapshot of subscription   *)
(* `s` it fetched.                                                         *)

LiveSnap(x) == LocalStatus(x.status) \in {"active", "past_due"}

IsDuplicate(r, s, x, at) ==
    /\ ~Mirrors(r, s) /\ LiveSnap(x)
    /\ PaidInEffect(r, at) /\ r.ref # NoSub

\* Mutant of Changes: the plan is not compared.
ChangesButPlan(r, s, x) ==
    /\ LocalStatus(x.status) # "none"
    /\ IF Mirrors(r, s)
       THEN \/ IsLive(r) # LiveSnap(x)
            \/ /\ IsLive(r) /\ LiveSnap(x)
               /\ \/ r.status # LocalStatus(x.status)
                  \/ x.end > r.end
                  \/ r.pst # x.status
       ELSE LiveSnap(x)

\* Mutant of Changes: a subscription that stopped is no change.
ChangesWhileLive(r, s, x) ==
    /\ LiveSnap(x)
    /\ Mirrors(r, s) /\ IsLive(r) =>
          r.plan # x.plan \/ r.pst # x.status \/ x.end > r.end

\* The ladder that names the change; FALSE where it answers None.
Changes(r, s, x) ==
    /\ LocalStatus(x.status) # "none"
    /\ IF Mirrors(r, s)
       THEN \/ IsLive(r) # LiveSnap(x)
            \/ /\ IsLive(r) /\ LiveSnap(x)
               /\ \/ r.plan # x.plan
                  \/ r.status # LocalStatus(x.status)
                  \/ x.end > r.end
                  \/ r.pst # x.status
       ELSE LiveSnap(x)

\* Mutant of GraceStart: every failure starts a new grace.
GraceStartNow(r, s, at) == at

GraceStart(r, s, at) ==
    IF Mirrors(r, s) /\ r.status = "past_due" /\ r.pds # NoTime
    THEN r.pds ELSE at

\* Mutant of RowOf: the provider's status is stored as it came.
RowOfUnmapped(r, s, x, at) ==
    [status |-> x.status, source |-> "payment", ref |-> s,
     end |-> IF LiveSnap(x) THEN x.end ELSE at,
     pds |-> IF x.status = "past_due" THEN GraceStart(r, s, at) ELSE NoTime,
     plan |-> x.plan, pst |-> x.status, ver |-> x.ver]

RowOf(r, s, x, at) ==
    [status |-> LocalStatus(x.status), source |-> "payment", ref |-> s,
     end |-> IF LiveSnap(x) THEN x.end ELSE at,
     pds |-> IF x.status = "past_due" THEN GraceStart(r, s, at) ELSE NoTime,
     plan |-> x.plan, pst |-> x.status, ver |-> x.ver]

\* The staff grant that a `subscribed` event puts on record.
Grants == [end : Int, plan : Plans \cup {NoSub}]
NoGrant == [end |-> NoTime - 1, plan |-> NoSub]
GrantRunning(g, at) == g # NoGrant /\ (g.end = NoTime \/ g.end > at)

Replaces(r, s, x, at) ==
    /\ Changes(r, s, x) /\ ~Mirrors(r, s)
    /\ r.source = "admin" /\ InEffect(r, at)
RecordReplaced(rep, r, s, x, at) ==
    IF Replaces(r, s, x, at)
    THEN [rep EXCEPT ![s] = [end |-> r.end, plan |-> r.plan]]
    ELSE rep

\* Mutant of Restored: the replaced grant is not looked up.
NotRestored(r, g, at) == r

\* restore_complimentary_grant on row `r`, after `s` ended.
Restored(r, g, at) ==
    IF GrantRunning(g, at)
    THEN [status |-> "active", source |-> "admin", ref |-> NoSub,
          end |-> g.end, pds |-> NoTime, plan |-> g.plan, pst |-> "none",
          ver |-> 0]
    ELSE r

Applied(r, s, x, g, at) ==
    IF ~Changes(r, s, x)
    THEN IF Mirrors(r, s) THEN [r EXCEPT !.ver = x.ver] ELSE r
    ELSE IF Mirrors(r, s) /\ IsLive(r) /\ ~LiveSnap(x)
         THEN Restored(RowOf(r, s, x, at), g, at)
         ELSE RowOf(r, s, x, at)

\* end_paid_subscription; `v` is the version that ended it at the provider.
Ended(r, s, v, g, at) ==
    IF Mirrors(r, s) /\ IsLive(r)
    THEN Restored([status |-> "canceled", source |-> "payment", ref |-> s,
                   end |-> at, pds |-> NoTime, plan |-> r.plan,
                   pst |-> "canceled", ver |-> v], g, at)
    ELSE r

\* expire_lapsed_in: past the renewal grace or the payment grace.
PastGrace(r, at) ==
    \/ r.end # NoTime /\ r.end + RenewalGrace <= at
    \/ r.status = "past_due" /\ r.pds # NoTime /\ r.pds + PaymentGrace <= at
Lapsed(r, s, at) ==
    IF Mirrors(r, s) /\ IsLive(r) /\ PastGrace(r, at)
    THEN [r EXCEPT !.status = "expired"] ELSE r

-----------------------------------------------------------------------------
(* Jobs. *)

PCs == {"idle", "lockSub", "graceCancel", "change", "mirror",
        "insert", "dupFetch", "dupCancel", "dupRefund", "dupCommit",
        "dupReplace", "lapse", "recheck", "wRefund", "wCancel", "wEnd",
        "eCancel", "end", "vCancel", "vRow", "gInsert"}
Jobs == [op : AllRequests \cup {"none"}, pc : PCs, sub : Subs \cup {NoSub},
         ev : Nat, snap : Snapshots, cur : Snapshots, todo : SUBSET Subs]
NoJob == [op |-> "none", pc |-> "idle", sub |-> NoSub, ev |-> 0,
          snap |-> NoSnap, cur |-> NoSnap, todo |-> {}]

Start(w, op, pc, s, ev, todo) ==
    /\ job[w].pc = "idle" /\ op \in Requests
    /\ (w = Scheduler) <=> (op \in {"sweep", "due"})
    /\ job' = [job EXCEPT ![w] =
                  [op |-> op, pc |-> pc, sub |-> s, ev |-> ev,
                   snap |-> NoSnap, cur |-> NoSnap, todo |-> todo]]
    /\ UNCHANGED <<now, prov, money, row, ledger, locks, failures>>

Goto(w, pc) == job' = [job EXCEPT ![w].pc = pc]

\* Commit or rollback: both end the job and release its locks.
Finish(w) ==
    /\ job' = [job EXCEPT ![w] = NoJob]
    /\ subLock' = [s \in Subs |-> IF subLock[s] = w THEN NoWorker
                                                    ELSE subLock[s]]
    /\ rowLock' = IF rowLock = w THEN NoWorker ELSE rowLock

\* An error answer before any write: the transaction rolls back.
Abort(w) ==
    Finish(w) /\ UNCHANGED <<now, prov, money, row, ledger, failures>>

\* A failed call, a dropped connection or a crash, at any point: what the
\* transaction wrote is gone, what it did at the provider stays done.
Fail(w) ==
    /\ job[w].pc # "idle" /\ failures < MaxFailures
    /\ failures' = failures + 1
    /\ Finish(w)
    /\ UNCHANGED <<now, prov, money, row, ledger>>

\* The row lock is free, or there is no row yet to lock.
RowFree == rowLock = NoWorker \/ row = NoRow

\* The provider's next version of a subscription.
Changed(s, status, end, plan) ==
    [prov EXCEPT ![s] = [status |-> status, end |-> end, plan |-> plan,
                         ver |-> prov[s].ver + 1]]

\* cancel_now: canceled at once; fails when the provider has no such
\* subscription, does nothing when it is over.
CanceledNow(s) ==
    IF prov[s].status \in {"canceled", "none"} THEN prov
    ELSE Changed(s, "canceled", prov[s].end, prov[s].plan)

RecordEvent(w) ==
    applied' = IF job[w].ev = 0 THEN applied
               ELSE applied \cup {<<job[w].sub, job[w].ev>>}

-----------------------------------------------------------------------------
(* The provider: what it does on its own, and what the customer or staff   *)
(* do in its pages.  Every change is an event the webhook may deliver.     *)

Moves(s, status, end, plan) ==
    /\ prov[s].ver < MaxVersion
    /\ prov' = Changed(s, status, end, plan)
    /\ UNCHANGED <<now, row, ledger, locks, job, failures>>

Charges(s) == money' = [money EXCEPT ![s] = "charged"]
NextEnd(s) == IF now >= prov[s].end THEN prov[s].end + Period ELSE prov[s].end

\* A checkout page is paid: at once, after a trial, or not yet.
Buy(s, plan) ==
    /\ prov[s].status = "none"
    /\ \/ Moves(s, "active", now + Period, plan) /\ Charges(s)
       \/ /\ \E st \in {"trialing", "incomplete"} :
                Moves(s, st, now + Period, plan)
          /\ UNCHANGED money

\* A charge goes through: the first one, a renewal, or a retry.
ChargeSucceeds(s) ==
    /\ \/ prov[s].status \in {"incomplete", "trialing", "past_due", "unpaid"}
       \/ prov[s].status = "active" /\ now >= prov[s].end
    /\ Moves(s, "active", NextEnd(s), prov[s].plan)
    /\ Charges(s)

ChargeFails(s) ==
    /\ \/ prov[s].status \in {"trialing", "active"}
       \/ prov[s].status = "past_due" /\ now >= prov[s].end
    /\ Moves(s, "past_due", NextEnd(s), prov[s].plan)
    /\ UNCHANGED money

\* The provider stops retrying, or the customer cancels.
GivesUp(s) ==
    /\ \/ prov[s].status = "past_due"
             /\ Moves(s, "unpaid", prov[s].end, prov[s].plan)
       \/ /\ MayCharge(prov[s])
          /\ Moves(s, "canceled", prov[s].end, prov[s].plan)
    /\ UNCHANGED money

PortalChange(s, plan) ==
    /\ prov[s].status = "active" /\ plan # prov[s].plan
    /\ Moves(s, "active", prov[s].end, plan)
    /\ UNCHANGED money

\* Refunded in the dashboard, or disputed by the cardholder.
ChargeReversed(s) ==
    /\ money[s] = "charged"
    /\ \E m \in {"refunded", "disputed"} : money' = [money EXCEPT ![s] = m]
    /\ UNCHANGED <<now, prov, row, ledger, locks, job, failures>>

\* The provider no longer has the subscription at all.
Forgets(s) ==
    /\ "missing" \in Requests /\ prov[s].status # "none"
    /\ Moves(s, "missing", prov[s].end, prov[s].plan)
    /\ UNCHANGED money

Provider ==
    \E s \in Subs :
        \/ \E plan \in Plans : Buy(s, plan) \/ PortalChange(s, plan)
        \/ ChargeSucceeds(s) \/ ChargeFails(s) \/ GivesUp(s)
        \/ ChargeReversed(s) \/ Forgets(s)

\* The provider is punctual: a period that is over is charged, or fails,
\* before the next day.
Tick ==
    /\ now < MaxTime /\ now' = now + 1
    /\ \A s \in Subs : LiveAtProvider(prov[s]) => now < prov[s].end
    /\ UNCHANGED <<prov, money, row, ledger, locks, job, failures>>

-----------------------------------------------------------------------------
(* What starts a job. *)

\* handle_webhook: any past event, late, twice or out of order.
Deliver(w, s, v) ==
    v \in 1 .. prov[s].ver /\ Start(w, "webhook", "lockSub", s, v, {})

Webhook(w, s) == \E v \in 1 .. MaxVersion + 1 : Deliver(w, s, v)

\* Mutant of InSync: a subscription the row does not mirror needs nothing.
InSyncIfOther(r, s, x) ==
    Mirrors(r, s) =>
        /\ r.status = LocalStatus(x.status)
        /\ LiveSnap(x) => r.end = x.end
        /\ r.pst = x.status /\ r.plan = x.plan

\* in_sync, as reconcile_all asks it before it locks anything.
InSync(r, s, x) ==
    IF Mirrors(r, s)
    THEN /\ r.status = LocalStatus(x.status)
         /\ LiveSnap(x) => r.end = x.end
         /\ r.pst = x.status /\ r.plan = x.plan
    ELSE ~LiveSnap(x)

Sweep(w, s) ==
    /\ prov[s].status \notin {"none", "missing"}
    /\ ~InSync(row, s, prov[s])
    /\ Start(w, "sweep", "lockSub", s, 0, {})

\* The hourly list of paid rows whose period or payment grace ran out.
IsDue(r, at) ==
    /\ r.source = "payment" /\ r.ref # NoSub /\ IsLive(r)
    /\ \/ r.end # NoTime /\ r.end <= at
       \/ r.status = "past_due" /\ r.pds # NoTime /\ r.pds + PaymentGrace <= at

ReconcileDue(w) ==
    IsDue(row, now) /\ Start(w, "due", "lockSub", row.ref, 0, {})

PaidRow(r) == r.source = "payment" /\ r.ref # NoSub
              /\ r.status \in {"active", "past_due"}

\* POST /billing/withdraw, and the staff refund.
Withdraw(w) ==
    /\ PaidRow(row)
    /\ \/ withdrawn < WithdrawLimit
             /\ Start(w, "withdraw", "lockSub", row.ref, 0, {})
       \/ Start(w, "refund", "lockSub", row.ref, 0, {})

\* Mutant of ChargeEvent: a refunded charge is not looked at.
DisputeEvent(w, s) ==
    money[s] = "disputed" /\ Start(w, "ended", "eCancel", s, 0, {})

\* charge.refunded of the live subscription, charge.dispute.created of any.
ChargeEvent(w, s) ==
    /\ \/ money[s] = "refunded" /\ PaidRow(row) /\ row.ref = s
       \/ money[s] = "disputed"
    /\ Start(w, "ended", "eCancel", s, 0, {})

ChangePlan(w) ==
    /\ PaidInEffect(row, now) /\ row.ref # NoSub
    /\ Start(w, "change", "lockSub", row.ref, 0, {})

\* revoke_subscription: what to cancel is listed before anything is locked.
Revoke(w) ==
    Start(w, "revoke", "vCancel", NoSub, 0,
          {s \in Subs : \/ MayCharge(prov[s])
                        \/ PaidInEffect(row, now) /\ row.ref = s})

-----------------------------------------------------------------------------
(* The steps of a job. *)

SyncOps == {"webhook", "sweep", "due", "change"}

\* Mutant of TakeSubLock: the lock is taken whoever holds it.
StealSubLock(w) ==
    LET s == job[w].sub IN
    /\ job[w].pc = "lockSub"
    /\ subLock' = [subLock EXCEPT ![s] = w]

TakeSubLock(w) ==
    LET s == job[w].sub IN
    /\ job[w].pc = "lockSub" /\ subLock[s] = NoWorker
    /\ subLock' = [subLock EXCEPT ![s] = w]

\* Mutant of LockSub: the subscription is not locked.
SkipSubLock(w) ==
    /\ job[w].op \notin SyncOps /\ job[w].pc = "lockSub"
    /\ Goto(w, IF job[w].op = "ended" THEN "end" ELSE "recheck")
    /\ UNCHANGED <<now, prov, money, row, ledger, locks, failures>>

\* The lock alone: the row is read next (refund_and_end, charge events).
LockSub(w) ==
    /\ job[w].op \notin SyncOps
    /\ TakeSubLock(w)
    /\ Goto(w, IF job[w].op = "ended" THEN "end" ELSE "recheck")
    /\ UNCHANGED <<now, prov, money, row, ledger, rowLock, failures>>

\* reconcile_one reads the row without locking it.
OutOfGrace(r, s, at) ==
    r.ref = s /\ r.status = "past_due" /\ r.pds # NoTime
    /\ r.pds + PaymentGrace <= at

AfterFetch(w, x) ==
    CASE job[w].op = "change" -> "change"
      [] job[w].op = "due" /\ OutOfGrace(row, job[w].sub, now)
            /\ x.status \in {"past_due", "unpaid"} -> "graceCancel"
      [] OTHER -> "mirror"

Fetchable(w, x) ==
    /\ x.status # "missing"
    /\ job[w].op = "change" => x.status \in {"active", "trialing"}

\* Mutant of LockFetch: the provider is asked without the lock.
FetchUnlocked(w) ==
    LET x == prov[job[w].sub] IN
    /\ job[w].op \in SyncOps /\ job[w].pc = "lockSub"
    /\ Fetchable(w, x)
    /\ job' = [job EXCEPT ![w].pc = AfterFetch(w, x), ![w].snap = x]
    /\ UNCHANGED <<now, prov, money, row, ledger, locks, failures>>

\* The lock, and the fetch under it: waiting for the lock first and then
\* for the answer reads nothing that taking both at once would not.
LockFetch(w) ==
    LET x == prov[job[w].sub] IN
    /\ job[w].op \in SyncOps
    /\ TakeSubLock(w)
    /\ \/ /\ Fetchable(w, x)
          /\ job' = [job EXCEPT ![w].pc = AfterFetch(w, x), ![w].snap = x]
       \/ x.status = "missing" /\ job[w].op = "due" /\ Goto(w, "lapse")
    /\ UNCHANGED <<now, prov, money, row, ledger, rowLock, failures>>

\* The fetch fails, or a plan change finds nothing it may change.
FetchRefused(w) ==
    LET x == prov[job[w].sub] IN
    /\ job[w].op \in SyncOps
    /\ job[w].pc = "lockSub" /\ subLock[job[w].sub] = NoWorker
    /\ ~Fetchable(w, x) /\ ~(x.status = "missing" /\ job[w].op = "due")
    /\ Abort(w)

\* cancel_now of the job's subscription, on the way to `pc`.
CancelThen(w, from, pc) ==
    /\ job[w].pc = from
    /\ prov' = CanceledNow(job[w].sub)
    /\ prov[job[w].sub].status # "missing"
    /\ Goto(w, pc)
    /\ UNCHANGED <<now, money, row, ledger, locks, failures>>

\* The provider has no such subscription: the call, and the job, fail.
CancelMissing(w) ==
    /\ job[w].pc \in {"graceCancel", "dupCancel", "wCancel", "eCancel"}
    /\ prov[job[w].sub].status = "missing"
    /\ Abort(w)

\* Still failing after the grace period: canceled, then fetched again (a
\* canceled subscription stays as it is).
GraceCancel(w) ==
    LET s == job[w].sub IN
    /\ job[w].pc = "graceCancel" /\ prov[s].status # "missing"
    /\ prov' = CanceledNow(s)
    /\ job' = [job EXCEPT ![w].pc = "mirror", ![w].snap = prov'[s]]
    /\ UNCHANGED <<now, money, row, ledger, locks, failures>>

\* change_price, whose answer is the snapshot to mirror; or the change is
\* refused, or stays pending until the customer authenticates it.
ChangePrice(w) ==
    LET s == job[w].sub IN
    /\ job[w].pc = "change"
    /\ \/ \E plan \in Plans \ {prov[s].plan} :
            /\ prov[s].status \in {"active", "trialing"}
            /\ prov[s].ver < MaxVersion
            /\ prov' = Changed(s, prov[s].status, prov[s].end, plan)
            /\ job' = [job EXCEPT ![w].pc = "mirror", ![w].snap = prov'[s]]
            /\ UNCHANGED <<now, money, row, ledger, locks, failures>>
       \/ Abort(w)

\* The event is on record already: nothing happens.
MirrorSeen(w) ==
    /\ job[w].pc = "mirror" /\ <<job[w].sub, job[w].ev>> \in applied
    /\ Abort(w)

NewEvent(w) == job[w].pc = "mirror" /\ <<job[w].sub, job[w].ev>> \notin applied

\* The ordinary mirror: with the row locked, decided, written, committed.
\* reconcile_one then expires the row in the same transaction.
MirrorApply(w) ==
    LET s == job[w].sub
        x == job[w].snap
        r == Applied(row, s, x, replaced[s], now) IN
    /\ NewEvent(w)
    /\ (LocalStatus(x.status) = "none" /\ job[w].op # "due") \/ RowFree
    /\ ~(row = NoRow /\ LiveSnap(x)) /\ ~IsDuplicate(row, s, x, now)
    /\ row' = IF job[w].op = "due" THEN Lapsed(r, s, now) ELSE r
    /\ replaced' = RecordReplaced(replaced, row, s, x, now)
    /\ RecordEvent(w) /\ Finish(w)
    /\ UNCHANGED <<now, prov, money, withdrawn, failures>>

\* No row, so FOR UPDATE locked nothing: the upsert comes later.
MirrorAbsent(w) ==
    /\ NewEvent(w) /\ row = NoRow /\ LiveSnap(job[w].snap)
    /\ Goto(w, "insert")
    /\ UNCHANGED <<now, prov, money, row, ledger, locks, failures>>

\* INSERT ... ON CONFLICT DO UPDATE of what was decided without a row.
InsertAbsent(w) ==
    /\ job[w].pc = "insert" /\ rowLock = NoWorker
    /\ row' = RowOf(NoRow, job[w].sub, job[w].snap, now)
    /\ RecordEvent(w) /\ Finish(w)
    /\ UNCHANGED <<now, prov, money, replaced, withdrawn, failures>>

\* Mutant of MirrorDuplicate: the row of the survivor is not kept locked.
MirrorDuplicateUnlocked(w) ==
    /\ NewEvent(w) /\ rowLock = NoWorker
    /\ IsDuplicate(row, job[w].sub, job[w].snap, now)
    /\ Goto(w, "dupFetch")
    /\ UNCHANGED <<now, prov, money, row, ledger, locks, failures>>

\* Another paid subscription is in effect: the row stays locked.
MirrorDuplicate(w) ==
    /\ NewEvent(w) /\ rowLock = NoWorker
    /\ IsDuplicate(row, job[w].sub, job[w].snap, now)
    /\ rowLock' = w /\ Goto(w, "dupFetch")
    /\ UNCHANGED <<now, prov, money, row, ledger, subLock, failures>>

\* resolve_duplicate asks which of the two survives.
DupFetch(w) ==
    LET x == prov[row.ref] IN
    /\ job[w].pc = "dupFetch"
    /\ job' = [job EXCEPT ![w].cur = x,
                 ![w].pc = IF LiveAtProvider(x) THEN "dupCancel"
                                                ELSE "dupReplace"]
    /\ UNCHANGED <<now, prov, money, row, ledger, locks, failures>>

DupCancel(w) == CancelThen(w, "dupCancel", "dupRefund")

\* Refunds the duplicate's latest paid invoice, if there is one.
DupRefund(w) ==
    LET s == job[w].sub IN
    /\ job[w].pc = "dupRefund"
    /\ IF money[s] = "disputed" THEN Abort(w)
       ELSE /\ money' = [money EXCEPT ![s] =
                            IF @ = "charged" THEN "refunded" ELSE @]
            /\ Goto(w, "dupCommit")
            /\ UNCHANGED <<now, prov, row, ledger, locks, failures>>

DupCommit(w) ==
    /\ job[w].pc = "dupCommit"
    /\ row' = IF job[w].op = "due" THEN Lapsed(row, job[w].sub, now) ELSE row
    /\ RecordEvent(w) /\ Finish(w)
    /\ UNCHANGED <<now, prov, money, replaced, withdrawn, failures>>

\* The current one is over: it is ended here, the new one takes its place.
EndCurrent(r, x, g, at) ==
    IF x.status # "missing" /\ Changes(r, r.ref, x)
    THEN Applied(r, r.ref, x, g, at)
    ELSE Ended(r, r.ref, x.ver, g, at)

DupReplace(w) ==
    LET s == job[w].sub
        ended == EndCurrent(row, job[w].cur, replaced[row.ref], now)
        r == Applied(ended, s, job[w].snap, replaced[s], now) IN
    /\ job[w].pc = "dupReplace"
    /\ row' = IF job[w].op = "due" THEN Lapsed(r, s, now) ELSE r
    /\ replaced' = RecordReplaced(replaced, ended, s, job[w].snap, now)
    /\ RecordEvent(w) /\ Finish(w)
    /\ UNCHANGED <<now, prov, money, withdrawn, failures>>

\* reconcile_one without a subscription at the provider.
Lapse(w) ==
    /\ job[w].pc = "lapse" /\ rowLock = NoWorker
    /\ row' = Lapsed(row, job[w].sub, now)
    /\ Finish(w)
    /\ UNCHANGED <<now, prov, money, ledger, failures>>

\* The row again, now locked: still that subscription, still live.
Recheck(w) ==
    /\ job[w].pc = "recheck" /\ rowLock = NoWorker
    /\ IF PaidRow(row) /\ row.ref = job[w].sub
       THEN /\ rowLock' = w /\ Goto(w, "wRefund")
            /\ UNCHANGED <<now, prov, money, row, ledger, subLock, failures>>
       ELSE Abort(w)

\* Refunds the invoices of the window.  A withdrawal needs one, and may be
\* too late; staff refund the latest one whenever it was.
WithdrawRefund(w) ==
    LET s == job[w].sub IN
    /\ job[w].pc = "wRefund"
    /\ \/ /\ money[s] # "disputed"
          /\ job[w].op = "withdraw" => money[s] # "none"
          /\ money' = [money EXCEPT ![s] =
                          IF @ = "charged" THEN "refunded" ELSE @]
          /\ Goto(w, "wCancel")
          /\ UNCHANGED <<now, prov, row, ledger, locks, failures>>
       \/ /\ money[s] = "disputed" \/ job[w].op = "withdraw"
          /\ Abort(w)

WithdrawCancel(w) == CancelThen(w, "wCancel", "wEnd")

EndRow(w) ==
    LET s == job[w].sub IN
    row' = Ended(row, s, prov[s].ver, replaced[s], now)

WithdrawEnd(w) ==
    /\ job[w].pc = "wEnd"
    /\ EndRow(w) /\ Finish(w)
    /\ withdrawn' = IF job[w].op = "withdraw" THEN withdrawn + 1 ELSE withdrawn
    /\ UNCHANGED <<now, prov, money, replaced, applied, failures>>

\* A refunded or disputed charge: canceled first, then locked and ended.
EventCancel(w) == CancelThen(w, "eCancel", "lockSub")

EventEnd(w) ==
    /\ job[w].pc = "end" /\ RowFree
    /\ EndRow(w) /\ Finish(w)
    /\ UNCHANGED <<now, prov, money, ledger, failures>>

RevokeCancel(w) ==
    /\ job[w].pc = "vCancel"
    /\ \/ \E s \in job[w].todo :
            IF prov[s].status = "missing" THEN Abort(w)
            ELSE /\ prov' = CanceledNow(s)
                 /\ job' = [job EXCEPT ![w].todo = @ \ {s}]
                 /\ UNCHANGED <<now, money, row, ledger, locks, failures>>
       \/ /\ job[w].todo = {} /\ Goto(w, "vRow")
          /\ UNCHANGED <<now, prov, money, row, ledger, locks, failures>>

RevokeRow(w) ==
    /\ job[w].pc = "vRow" /\ RowFree
    /\ row' = IF row = NoRow THEN row
              ELSE [row EXCEPT !.status = "expired", !.end = now]
    /\ Finish(w)
    /\ UNCHANGED <<now, prov, money, ledger, failures>>

-----------------------------------------------------------------------------
(* Plan time that nobody pays for. *)

\* The upsert leaves external_ref as it was.
GrantRow(r, plan, source, at) ==
    IF source = "admin" /\ InEffect(r, at) /\ r.plan = plan
    THEN [r EXCEPT !.status = "active", !.source = source,
             !.end = IF @ = NoTime THEN NoTime
                     ELSE (IF @ > at THEN @ ELSE at) + GrantDays]
    ELSE [status |-> IF source = "admin" THEN "active" ELSE "trialing",
          source |-> source, ref |-> r.ref, end |-> at + GrantDays,
          pds |-> NoTime, plan |-> plan, pst |-> "none", ver |-> r.ver]

\* grant_plan_time of staff and start_trial, over an existing row.  The
\* first conjunct is a bound: no grant starts beyond the end of the clock.
Grant(plan) ==
    /\ row.end <= MaxTime
    /\ row # NoRow /\ rowLock = NoWorker
    /\ \/ /\ "grant" \in Requests /\ ~PaidInEffect(row, now)
          /\ row' = GrantRow(row, plan, "admin", now)
       \/ /\ "trial" \in Requests /\ ~InEffect(row, now)
          /\ row' = GrantRow(row, plan, "other", now)
    /\ UNCHANGED <<now, prov, money, ledger, locks, job, failures>>

\* The same without a row: nothing is locked, the upsert comes later.
GrantAbsent(w) ==
    /\ row = NoRow
    /\ \E op \in {"grant", "trial"} : Start(w, op, "gInsert", NoSub, 0, {})

GrantInsert(w) ==
    /\ job[w].pc = "gInsert" /\ rowLock = NoWorker
    /\ \E plan \in Plans :
          row' = [GrantRow(NoRow, plan, IF job[w].op = "grant" THEN "admin"
                                        ELSE "other", now)
                     EXCEPT !.ref = row.ref, !.ver = row.ver]
    /\ Finish(w)
    /\ UNCHANGED <<now, prov, money, ledger, failures>>

\* run_subscription_maintenance: what is not paid for ends with its period.
ExpireGrant ==
    /\ row.source # "payment" /\ IsLive(row) /\ rowLock = NoWorker
    /\ row.end # NoTime /\ row.end <= now
    /\ row' = [row EXCEPT !.status = "expired"]
    /\ UNCHANGED <<now, prov, money, ledger, locks, job, failures>>

-----------------------------------------------------------------------------
Init ==
    /\ now = 0
    /\ prov = [s \in Subs |-> NoSnap]
    /\ money = [s \in Subs |-> "none"]
    /\ row = NoRow
    /\ replaced = [s \in Subs |-> NoGrant]
    /\ applied = {} /\ withdrawn = 0
    /\ subLock = [s \in Subs |-> NoWorker] /\ rowLock = NoWorker
    /\ job = [w \in Workers |-> NoJob]
    /\ failures = 0

Begin(w) ==
    \/ \E s \in Subs : Webhook(w, s) \/ Sweep(w, s) \/ ChargeEvent(w, s)
    \/ ReconcileDue(w) \/ Withdraw(w) \/ ChangePlan(w) \/ Revoke(w)
    \/ GrantAbsent(w)

Step(w) ==
    \/ LockSub(w) \/ LockFetch(w) \/ FetchRefused(w)
    \/ GraceCancel(w) \/ CancelMissing(w) \/ ChangePrice(w)
    \/ MirrorSeen(w) \/ MirrorApply(w) \/ MirrorAbsent(w) \/ InsertAbsent(w)
    \/ MirrorDuplicate(w) \/ DupFetch(w) \/ DupCancel(w) \/ DupRefund(w)
    \/ DupCommit(w) \/ DupReplace(w) \/ Lapse(w)
    \/ Recheck(w) \/ WithdrawRefund(w) \/ WithdrawCancel(w) \/ WithdrawEnd(w)
    \/ EventCancel(w) \/ EventEnd(w)
    \/ RevokeCancel(w) \/ RevokeRow(w) \/ GrantInsert(w)

Next ==
    \/ Provider \/ Tick \/ ExpireGrant
    \/ \E plan \in Plans : Grant(plan)
    \/ \E w \in Workers : Begin(w) \/ Step(w) \/ Fail(w)

Spec == Init /\ [][Next]_vars

\* Every job ends, every daily walk reaches every subscription, and a
\* refunded or disputed charge is redelivered until it is handled.  Other
\* webhook deliveries may all be lost.
Fairness ==
    /\ \A w \in Workers : SF_vars(Step(w))
    /\ \A s \in Subs : SF_vars(Sweep(Scheduler, s))
    /\ \A s \in Subs : SF_vars(\E w \in Handlers : ChargeEvent(w, s))

FairSpec == Spec /\ Fairness

\* The provider retries an event until it is answered without an error.
RetriedSpec ==
    /\ FairSpec
    /\ \A s \in Subs : \A v \in 1 .. MaxVersion + 1 :
          SF_vars(<<s, v>> \notin applied /\ \E w \in Handlers : Deliver(w, s, v))

-----------------------------------------------------------------------------
(* Properties. *)

\* Every variable keeps its type.
TypeOK ==
    /\ now \in Nat /\ failures \in Nat /\ withdrawn \in Nat
    /\ prov \in [Subs -> Snapshots]
    /\ money \in [Subs -> {"none", "charged", "refunded", "disputed"}]
    /\ row \in Rows
    /\ replaced \in [Subs -> Grants]
    /\ applied \subseteq Subs \X Nat
    /\ subLock \in [Subs -> Workers \cup {NoWorker}]
    /\ rowLock \in Workers \cup {NoWorker}
    /\ job \in [Workers -> Jobs]

\* However deliveries are delayed, repeated and reordered, and whatever
\* fails halfway, the row shows a state the provider really had and never
\* goes back to an older one: the promise of lock_provider_subscription.
Promise == INSTANCE MirrorPromise WITH
    latest <- [s \in Subs |-> prov[s].ver],
    shown <- IF row.source = "payment" THEN [sub |-> row.ref, ver |-> row.ver]
                                       ELSE [sub |-> NoSub, ver |-> 0],
    handled <- applied
KeepsPromise == Promise!Spec

\* An event is on record only once its change, or a later one, is in the
\* row: recording it and applying it commit together, so no event that was
\* never applied is skipped as already seen.
RecordedMeansApplied ==
    \A e \in applied : Mirrors(row, e[1]) => row.ver >= e[2]

\* A live row compared with the provider's present version says exactly
\* what the provider says: answering "no change" never hides a difference.
MirrorExact ==
    \A s \in Subs :
        Mirrors(row, s) /\ IsLive(row) /\ row.ver = prov[s].ver
            => InSync(row, s, prov[s])

\* While a duplicate is being canceled and refunded, the account keeps
\* another live paid subscription: the two are never both canceled as each
\* other's duplicate, in whatever order their events are handled.
DuplicateHasAKeeper ==
    \A w \in Workers :
        job[w].pc \in {"dupFetch", "dupCancel", "dupRefund", "dupCommit",
                       "dupReplace"} =>
            row.source = "payment" /\ IsLive(row)
                /\ row.ref \notin {job[w].sub, NoSub}

\* A subscription that ended here (canceled, withdrawn, refunded, disputed)
\* never comes back to life in the row, even from a snapshot fetched before
\* it ended.
EndedStaysEnded ==
    [][\A s \in Subs :
          Mirrors(row, s) /\ row.status = "canceled" /\ Mirrors(row', s)
              => ~IsLive(row')]_vars

\* The grace for a failed renewal is counted from the first failure: no
\* later delivery of the same failing subscription restarts the clock.
GraceNotRestarted ==
    [][\A s \in Subs :
          Mirrors(row, s) /\ Mirrors(row', s)
            /\ row.status = "past_due" /\ row'.status = "past_due"
              => row'.pds = row.pds]_vars

\* A canceled purchase never hides a staff grant that is still running:
\* ending the purchase brings the grant back.
GrantComesBack ==
    \A s \in Subs :
        Mirrors(row, s) /\ row.status = "canceled"
            => ~GrantRunning(replaced[s], now)

\* Self-service withdrawals on record never exceed the yearly allowance,
\* although the count is read before any lock is taken.
WithinWithdrawLimit == withdrawn <= WithdrawLimit

\* Once the customer stops, at most one subscription goes on charging: a
\* second one is found and canceled even when every webhook is lost.
OneSubscriptionLeft ==
    <>[](Cardinality({s \in Subs : LiveAtProvider(prov[s])}) <= 1)

\* Once the customer stops, the row ends up saying what the provider says
\* of every subscription that charges, and gives no plan for one that does
\* not.
MirrorConverges ==
    <>[](\A s \in Subs :
            /\ LiveAtProvider(prov[s]) => InSync(row, s, prov[s])
            /\ Mirrors(row, s) /\ IsLive(row) => LiveAtProvider(prov[s]))

\* A withdrawal that fails after the refund does not leave the customer
\* refunded and still subscribed: the refund's own event ends it.
RefundedIsEnded ==
    \A s \in Subs :
        money[s] = "refunded" /\ PaidRow(row) /\ row.ref = s
            ~> ~LiveAtProvider(prov[s]) \/ money[s] # "refunded"

-----------------------------------------------------------------------------
(* What the comments and the README say, and the code does not keep. *)

\* A paid subscription in effect, and live at the provider, is never
\* replaced in the row by anything else ("never replaces another paid
\* subscription still in effect", apply_payment_subscription).
NeverDisplaced ==
    [][\A s \in Subs :
          Mirrors(row, s) /\ PaidInEffect(row, now) /\ LiveAtProvider(prov[s])
              => Mirrors(row', s)]_vars

\* A second subscription that is canceled as a duplicate has its charge
\* refunded, given that a failed delivery is retried.
DuplicateIsRefunded ==
    \A s \in Subs :
        (\E w \in Workers : job[w].pc = "dupRefund" /\ job[w].sub = s)
            ~> money[s] # "charged"

\* A purchase that ended, in whatever way but staff revoking it, hides no
\* staff grant that is still running (restore_complimentary_grant).
GrantOutlivesPurchase ==
    \A s \in Subs :
        Mirrors(row, s) /\ ~IsLive(row) => ~GrantRunning(replaced[s], now)

=============================================================================
