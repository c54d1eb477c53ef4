---------------------------- MODULE BillingProofs ----------------------------
(***************************************************************************)
(* Proofs about what surrounds a subscription, for any number of accounts, *)
(* workers, refunds and tabs: the limits of the credits, and that its      *)
(* locks never make everyone wait; the finance ledger's row of a payment;  *)
(* the checkout pages and the customer at the provider; the sale of plans. *)
(***************************************************************************)
EXTENDS MCBilling, FiniteSetTheorems, TLAPS

-----------------------------------------------------------------------------
(* The credits. *)

ReferralOps == {"qualify", "reward", "reverse", "reject"}
ShortOps == {"none", "spend", "credit", "reject"}

\* What an operation works on, and how many locks it may hold.
WorkFits(q) ==
    /\ q.op \in ReferralOps => q.who \in Referred
    /\ q.op = "none" => q.step = 1
    /\ q.op \in ShortOps => q.step <= 2

\* The locks an operation holds at its step.
Holds(q, l) ==
    \/ q.step > 1 /\ l = LockOrder(q.op, q.who)[1]
    \/ q.step > 2 /\ l = LockOrder(q.op, q.who)[2]

\* A lock is held by the one worker whose step says so.
HeldOK == \A l \in Locks, w \in CreditWorkers : held[l] = w <=> Holds(work[w], l)

\* What an operation found when it took a lock is still so.
Guarded(q) ==
    /\ q.op = "qualify" /\ q.step = 3 => referral[q.who].status = "pending"
    /\ q.op = "reward" /\ q.step = 3 =>
         /\ referral[q.who].status = "pending"
         /\ Cardinality(RewardedIn(month)) < MaxPerMonth
    /\ q.op = "reject" /\ q.step = 2 => referral[q.who].status = "pending"
    /\ q.op = "reverse" /\ q.step > 1 => referral[q.who].status = "rewarded"
    /\ q.op = "promo" /\ q.step > 1 => redemptions < MaxRedemptions
    /\ q.op = "spend" /\ q.step = 2 => q.seen = balance[q.who]

WorkInv ==
    /\ CreditsTypeOK /\ HeldOK
    /\ \A w \in CreditWorkers : WorkFits(work[w])

\* No referral was rewarded in a month to come.
RewardedBefore == \A b \in Referred : referral[b].at <= month

CreditInv ==
    /\ WorkInv /\ (\A w \in CreditWorkers : Guarded(work[w]))
    /\ RewardedOnce /\ NeverOverdrawn /\ MonthlyLimit /\ PromoLimit
    /\ RewardedBefore

\* The locks of each operation.
LEMMA OrderOf ==
    ASSUME NEW q \in Works, WorkFits(q)
    PROVE  /\ q.op \in {"none", "qualify", "spend", "credit"} =>
                 LockOrder(q.op, q.who)[1] = <<"credits", q.who>>
           /\ q.op = "reward" => LockOrder(q.op, q.who)[1] = <<"credits", Referrer>>
           /\ q.op = "promo" => LockOrder(q.op, q.who)[1] = <<"promo", Referrer>>
           /\ q.op \in {"reverse", "reject"} =>
                 LockOrder(q.op, q.who)[1] = <<"row", q.who>>
           /\ q.op \in {"qualify", "reward"} =>
                 LockOrder(q.op, q.who)[2] = <<"row", q.who>>
           /\ q.op = "reverse" => LockOrder(q.op, q.who)[2] = <<"credits", Referrer>>
           /\ q.op = "promo" => LockOrder(q.op, q.who)[2] = <<"credits", q.who>>
           /\ Len(LockOrder(q.op, q.who)) = IF q.op \in ShortOps THEN 1 ELSE 2
           /\ q.op \in Ops \cup {"none"} /\ q.who \in Members /\ q.step \in 1 .. 3
<1>1. q.op \in Ops \cup {"none"} /\ q.who \in Members /\ q.step \in 1 .. 3
  BY DEF Works
<1>. QED  BY <1>1 DEF LockOrder, Ops, ShortOps

\* The first and the second lock of an operation, both of them locks.
LEMMA LocksOf ==
    ASSUME NEW q \in Works, WorkFits(q)
    PROVE  /\ LockOrder(q.op, q.who)[1] \in Locks
           /\ q.op \notin ShortOps => LockOrder(q.op, q.who)[2] \in Locks
           /\ Len(LockOrder(q.op, q.who)) = 2 <=> q.op \notin ShortOps
           /\ Len(LockOrder(q.op, q.who)) = 1 <=> q.op \in ShortOps
           /\ LockOrder(q.op, q.who)[1] # LockOrder(q.op, q.who)[2] \/ q.op \in ShortOps
<1>1. /\ \A u \in Members : <<"credits", u>> \in Locks
      /\ \A b \in Referred : <<"row", b>> \in Locks
      /\ <<"promo", Referrer>> \in Locks /\ Referrer \in Members
  BY DEF Locks, Members
<1>2. q.op \in Ops \cup {"none"} /\ q.who \in Members
      /\ (q.op \in ReferralOps => q.who \in Referred)
  BY OrderOf DEF WorkFits
<1>3. PICK one : one = LockOrder(q.op, q.who)[1]
  OBVIOUS
<1>4. PICK two : two = LockOrder(q.op, q.who)[2]
  OBVIOUS
<1>5. CASE q.op \in {"none", "spend", "credit"}
  <2>1. one = <<"credits", q.who>> /\ q.op \in ShortOps
    BY <1>3, <1>5, OrderOf DEF ShortOps
  <2>2. one \in Locks /\ Len(LockOrder(q.op, q.who)) = 1
    BY <1>1, <1>2, <2>1, OrderOf
  <2>. QED  BY <1>3, <2>1, <2>2
<1>6. CASE q.op \in {"qualify", "reward"}
  <2>1. /\ one = <<"credits", IF q.op = "reward" THEN Referrer ELSE q.who>>
        /\ two = <<"row", q.who>> /\ q.op \notin ShortOps /\ q.who \in Referred
    BY <1>2, <1>3, <1>4, <1>6, OrderOf DEF ShortOps, ReferralOps
  <2>2. one \in Locks /\ two \in Locks /\ one # two
    BY <1>1, <1>2, <2>1
  <2>. QED  BY <1>3, <1>4, <2>1, <2>2, OrderOf
<1>7. CASE q.op \in {"reverse", "promo"}
  <2>1. /\ one = IF q.op = "reverse" THEN <<"row", q.who>> ELSE <<"promo", Referrer>>
        /\ two = <<"credits", IF q.op = "reverse" THEN Referrer ELSE q.who>>
        /\ q.op \notin ShortOps /\ (q.op = "reverse" => q.who \in Referred)
    BY <1>2, <1>3, <1>4, <1>7, OrderOf DEF ShortOps, ReferralOps
  <2>2. one \in Locks /\ two \in Locks /\ one # two
    BY <1>1, <1>2, <2>1
  <2>. QED  BY <1>3, <1>4, <2>1, <2>2, OrderOf
<1>8. CASE q.op = "reject"
  <2>1. one = <<"row", q.who>> /\ q.op \in ShortOps /\ q.who \in Referred
    BY <1>2, <1>3, <1>8, OrderOf DEF ShortOps, ReferralOps
  <2>2. one \in Locks /\ Len(LockOrder(q.op, q.who)) = 1
    BY <1>1, <2>1, OrderOf
  <2>. QED  BY <1>3, <2>1, <2>2
<1>. QED  BY <1>2, <1>5, <1>6, <1>7, <1>8 DEF Ops

\* What the variables are.
LEMMA CreditTyped ==
    ASSUME WorkInv
    PROVE  /\ month \in Nat /\ clawed \in Nat /\ redemptions \in Nat
           /\ balance \in [Members -> Int] /\ \A u \in Members : balance[u] \in Int
           /\ referral \in [Referred -> Referrals]
           /\ \A b \in Referred : /\ referral[b] \in Referrals
                                 /\ referral[b].status \in {"pending", "rewarded", "rejected"}
                                 /\ referral[b].at \in Nat /\ referral[b].granted \in Nat
           /\ invoice \in [Referred -> Invoices] /\ redeemed \subseteq Members
           /\ held \in [Locks -> CreditWorkers \cup {Nobody}]
           /\ work \in [CreditWorkers -> Works]
           /\ \A w \in CreditWorkers : work[w] \in Works /\ WorkFits(work[w])
           /\ events \in [n : Nat, lost : BOOLEAN]
           /\ Referred \subseteq Members /\ Referrer \in Members
           /\ NoWork \in Works /\ WorkFits(NoWork) /\ NoWork.op = "none" /\ NoWork.step = 1
BY DEF WorkInv, CreditsTypeOK, Referrals, Members, NoWork, Works, WorkFits, Ops,
   ReferralOps, ShortOps

\* The rewarded referrals of a month are finitely many.
LEMMA RewardedFinite ==
    ASSUME NEW m
    PROVE  /\ IsFiniteSet(RewardedIn(m)) /\ Cardinality(RewardedIn(m)) \in Nat
           /\ IsFiniteSet(RewardedIn(m)') /\ Cardinality(RewardedIn(m)') \in Nat
<1>1. RewardedIn(m) \subseteq Referred /\ RewardedIn(m)' \subseteq Referred
  BY DEF RewardedIn
<1>. QED  BY <1>1, CreditConstants, FS_Subset, FS_CardinalityType

\* A worker that ends a transaction, or begins one, holds nothing.
LEMMA LocksReleased ==
    ASSUME WorkInv, NEW w \in CreditWorkers, NEW q \in Works, WorkFits(q), q.step = 1,
           work' = [work EXCEPT ![w] = q],
           UnlockWork(w) \/ (Free(w) /\ held' = held)
    PROVE  HeldOK' /\ held' \in [Locks -> CreditWorkers \cup {Nobody}]
<1>1. /\ work'[w] = q /\ \A v \in CreditWorkers \ {w} : work'[v] = work[v]
  BY CreditTyped
<1>2. held' \in [Locks -> CreditWorkers \cup {Nobody}]
  BY CreditTyped DEF UnlockWork
<1>3. \A l : ~Holds(q, l)
  BY DEF Holds
<1>4. ASSUME NEW l \in Locks, NEW v \in CreditWorkers
      PROVE  held'[l] = v <=> Holds(work'[v], l)
  <2>1. v # Nobody /\ w # Nobody
    BY CreditConstants DEF Nobody
  <2>2. held[l] = v <=> Holds(work[v], l)
    BY DEF WorkInv, HeldOK
  <2>3. CASE UnlockWork(w)
    <3>1. held'[l] = IF held[l] = w THEN Nobody ELSE held[l]
      BY <2>3 DEF UnlockWork
    <3>2. CASE v = w
      BY <1>1, <1>3, <2>1, <3>1, <3>2
    <3>3. CASE v # w
      BY <1>1, <2>1, <2>2, <3>1, <3>3
    <3>. QED  BY <3>2, <3>3
  <2>4. CASE Free(w) /\ held' = held
    <3>1. CASE v = w
      <4>1. ~Holds(work[w], l)
        BY <2>4, CreditTyped DEF Free, WorkFits, Holds
      <4>. QED  BY <1>1, <1>3, <2>2, <2>4, <3>1, <4>1
    <3>2. CASE v # w
      BY <1>1, <2>2, <2>4, <3>2
    <3>. QED  BY <3>1, <3>2
  <2>. QED  BY <2>3, <2>4 DEF UnlockWork
<1>. QED  BY <1>2, <1>4 DEF HeldOK, Holds

\* A worker that takes a lock nobody holds, holds one more.
LEMMA LockTaken ==
    ASSUME WorkInv, NEW w \in CreditWorkers, ~Free(w), ~Locked(w),
           held[NextLock(w)] = Nobody, held' = [held EXCEPT ![NextLock(w)] = w],
           NEW q \in Works, q.op = work[w].op, q.who = work[w].who, q.step = work[w].step + 1,
           work' = [work EXCEPT ![w] = q]
    PROVE  /\ HeldOK' /\ held' \in [Locks -> CreditWorkers \cup {Nobody}] /\ WorkFits(q)
           /\ NextLock(w) \in Locks
<1>1. PICK p \in Works : p = work[w] /\ WorkFits(p)
  BY CreditTyped
<1>2. p.op \in Ops /\ p.step \in 1 .. 2 /\ (p.op \in ShortOps => p.step = 1)
  <2>1. p.op # "none" /\ p.step <= Len(LockOrder(p.op, p.who)) /\ p.step \in 1 .. 3
    BY <1>1, OrderOf, LocksOf DEF Free, Locked
  <2>2. Len(LockOrder(p.op, p.who)) = IF p.op \in ShortOps THEN 1 ELSE 2
    BY <1>1, LocksOf, OrderOf
  <2>. QED  BY <1>1, <2>1, <2>2, OrderOf
<1>3. PICK l \in Locks : l = NextLock(w)
  BY <1>1, <1>2, LocksOf DEF NextLock
<1>4. WorkFits(q)
  BY <1>1, <1>2 DEF WorkFits, Ops
<1>5. /\ work'[w] = q /\ \A v \in CreditWorkers \ {w} : work'[v] = work[v]
      /\ held'[l] = w /\ \A k \in Locks \ {l} : held'[k] = held[k]
      /\ held' \in [Locks -> CreditWorkers \cup {Nobody}]
  BY <1>3, CreditTyped
<1>6. \A k : Holds(q, k) <=> Holds(p, k) \/ k = l
  BY <1>1, <1>2, <1>3 DEF Holds, NextLock
<1>7. ASSUME NEW k \in Locks, NEW v \in CreditWorkers
      PROVE  held'[k] = v <=> Holds(work'[v], k)
  <2>1. v # Nobody
    BY CreditConstants DEF Nobody
  <2>2. held[k] = v <=> Holds(work[v], k)
    BY DEF WorkInv, HeldOK
  <2>3. CASE k = l
    BY <1>3, <1>5, <1>6, <2>1, <2>2, <2>3
  <2>4. CASE k # l
    BY <1>1, <1>5, <1>6, <2>2, <2>4
  <2>. QED  BY <2>3, <2>4
<1>. QED  BY <1>3, <1>4, <1>5, <1>7 DEF HeldOK, Holds

\* What one worker found is not disturbed by another, which writes only what
\* it has locked.
LEMMA GuardKept ==
    ASSUME WorkInv, NEW w \in CreditWorkers, NEW v \in CreditWorkers, v # w,
           Guarded(work[v]), work'[v] = work[v], month' = month,
           \A b \in Referred : held[<<"row", b>>] # w => referral'[b].status = referral[b].status,
           \A u \in Members : held[<<"credits", u>>] # w => balance'[u] = balance[u],
           held[<<"credits", Referrer>>] # w => RewardedIn(month)' = RewardedIn(month),
           held[<<"promo", Referrer>>] # w => redemptions' = redemptions
    PROVE  Guarded(work[v])'
<1>1. PICK q \in Works : q = work[v] /\ WorkFits(q)
  BY CreditTyped
<1>2. \A l \in Locks : Holds(q, l) => held[l] # w
  BY <1>1 DEF WorkInv, HeldOK
<1>3. /\ \A b \in Referred : <<"row", b>> \in Locks
      /\ \A u \in Members : <<"credits", u>> \in Locks
      /\ <<"promo", Referrer>> \in Locks /\ <<"credits", Referrer>> \in Locks
  BY DEF Locks, Members
<1>4. q.op \in ReferralOps => q.who \in Referred
  BY <1>1 DEF WorkFits
<1>5. CASE q.op \in {"qualify", "reward"} /\ q.step = 3
  <2>1. Holds(q, <<"row", q.who>>) /\ (q.op = "reward" => Holds(q, <<"credits", Referrer>>))
    BY <1>1, <1>5, OrderOf DEF Holds
  <2>. QED  BY <1>1, <1>2, <1>3, <1>4, <1>5, <2>1 DEF Guarded, ReferralOps
<1>6. CASE q.op \in {"reject", "reverse"} /\ q.step > 1
  <2>1. Holds(q, <<"row", q.who>>)
    BY <1>1, <1>6, OrderOf DEF Holds
  <2>. QED  BY <1>1, <1>2, <1>3, <1>4, <1>6, <2>1 DEF Guarded, ReferralOps
<1>7. CASE q.op = "promo" /\ q.step > 1
  <2>1. Holds(q, <<"promo", Referrer>>)
    BY <1>1, <1>7, OrderOf DEF Holds
  <2>. QED  BY <1>1, <1>2, <1>3, <1>7, <2>1 DEF Guarded
<1>8. CASE q.op = "spend" /\ q.step = 2
  <2>1. Holds(q, <<"credits", q.who>>)
    BY <1>1, <1>8, OrderOf DEF Holds
  <2>. QED  BY <1>1, <1>2, <1>3, <1>8, <2>1, OrderOf DEF Guarded
<1>. QED  BY <1>1, <1>5, <1>6, <1>7, <1>8, OrderOf DEF Guarded

\* Where a worker moves on and nothing of the ledger changes.
LEMMA CreditMoved ==
    ASSUME CreditInv, NEW w \in CreditWorkers, NEW q \in Works, WorkFits(q), Guarded(q),
           work' = [work EXCEPT ![w] = q],
           HeldOK', held' \in [Locks -> CreditWorkers \cup {Nobody}],
           invoice' \in [Referred -> Invoices], events' \in [n : Nat, lost : BOOLEAN],
           UNCHANGED <<month, balance, referral, redeemed, redemptions, clawed>>
    PROVE  CreditInv'
<1>1. /\ work' \in [CreditWorkers -> Works] /\ work'[w] = q
      /\ \A v \in CreditWorkers \ {w} : work'[v] = work[v]
  BY CreditTyped DEF CreditInv
<1>2. CreditsTypeOK'
  BY <1>1 DEF CreditInv, WorkInv, CreditsTypeOK
<1>3. \A v \in CreditWorkers : WorkFits(work'[v])
  BY <1>1 DEF CreditInv, WorkInv
<1>4. WorkInv'
  BY <1>2, <1>3 DEF WorkInv, WorkFits
<1>5. \A m : RewardedIn(m)' = RewardedIn(m)
  BY DEF RewardedIn
<1>6. ASSUME NEW v \in CreditWorkers
      PROVE  Guarded(work[v])'
  <2>1. Guarded(work'[v])
    BY <1>1 DEF CreditInv
  <2>. QED  BY <1>5, <2>1 DEF Guarded
<1>7. RewardedOnce' /\ NeverOverdrawn' /\ RewardedBefore' /\ PromoLimit'
  BY DEF CreditInv, RewardedOnce, NeverOverdrawn, RewardedBefore, PromoLimit
<1>8. MonthlyLimit'
  BY <1>5 DEF CreditInv, MonthlyLimit
<1>. QED  BY <1>4, <1>6, <1>7, <1>8 DEF CreditInv

\* A worker begins, with nothing found yet.
LEMMA WorkBegun ==
    ASSUME CreditInv, NEW w \in CreditWorkers, NEW op \in Ops, NEW who \in Members,
           op \in ReferralOps => who \in Referred, Begin(w, op, who),
           (Free(w) /\ held' = held) \/ UnlockWork(w),
           invoice' \in [Referred -> Invoices], events' \in [n : Nat, lost : BOOLEAN],
           UNCHANGED <<month, balance, referral, redeemed, redemptions, clawed>>
    PROVE  CreditInv'
<1>1. PICK q : q = [NoWork EXCEPT !.op = op, !.who = who]
  OBVIOUS
<1>2. q \in Works /\ q.op = op /\ q.who = who /\ q.step = 1
  <2>1. q = [op |-> op, who |-> who, step |-> 1, seen |-> 0]
    BY <1>1 DEF NoWork
  <2>. QED  BY <2>1 DEF Works
<1>3. WorkFits(q) /\ Guarded(q)
  BY <1>2 DEF WorkFits, Guarded, Ops
<1>4. work' = [work EXCEPT ![w] = q]
  BY <1>1 DEF Begin
<1>5. HeldOK' /\ held' \in [Locks -> CreditWorkers \cup {Nobody}]
  BY <1>2, <1>3, <1>4, LocksReleased DEF CreditInv
<1>. QED  BY <1>2, <1>3, <1>4, <1>5, CreditMoved

\* A worker ends and nothing was written.
LEMMA WorkDropped ==
    ASSUME CreditInv, NEW w \in CreditWorkers, EndWork(w),
           invoice' \in [Referred -> Invoices], events' \in [n : Nat, lost : BOOLEAN],
           UNCHANGED <<month, balance, referral, redeemed, redemptions, clawed>>
    PROVE  CreditInv'
<1>1. Guarded(NoWork)
  BY DEF Guarded, NoWork
<1>2. NoWork \in Works /\ WorkFits(NoWork) /\ NoWork.step = 1
  BY CreditTyped DEF CreditInv
<1>3. HeldOK' /\ held' \in [Locks -> CreditWorkers \cup {Nobody}]
  BY <1>2, LocksReleased DEF CreditInv, EndWork
<1>. QED  BY <1>1, <1>2, <1>3, CreditMoved DEF EndWork

\* What begins an operation.
LEMMA CreditBegun ==
    ASSUME CreditInv, NEW w \in CreditWorkers,
           \/ \E b \in Referred : \/ Reverse(w, b)
                                  \/ \E on \in BOOLEAN : RecordInvoice(w, b, on)
                                                           \/ Qualify(w, b, on)
           \/ \E op \in {"spend", "credit"}, who \in Spenders : Spend(w, op, who)
           \/ \E who \in Redeemers : RedeemPromo(w, who)
           \/ RejectOverLimit(w)
    PROVE  CreditInv'
<1>1. /\ invoice \in [Referred -> Invoices] /\ events \in [n : Nat, lost : BOOLEAN]
      /\ \A u \in Spenders \cup Redeemers \cup Referred : u \in Members
  BY CreditTyped, CreditConstants DEF CreditInv, Members
<1>2. /\ ReferralOps \subseteq Ops /\ "spend" \in Ops /\ "credit" \in Ops /\ "promo" \in Ops
      /\ {"spend", "credit", "promo"} \cap ReferralOps = {}
  BY DEF ReferralOps, Ops
<1>3. ASSUME NEW b \in Referred, Reverse(w, b)
      PROVE  CreditInv'
  <2>1. invoice' \in [Referred -> Invoices]
    BY <1>1, <1>3 DEF Reverse, Invoices
  <2>2. Free(w) /\ Begin(w, "reverse", b) /\ held' = held /\ events' = events
        /\ UNCHANGED <<month, balance, referral, redeemed, redemptions, clawed>>
    BY <1>3 DEF Reverse
  <2>3. "reverse" \in ReferralOps
    BY DEF ReferralOps
  <2>. QED  BY <1>1, <1>2, <2>1, <2>2, <2>3, WorkBegun
<1>4. ASSUME NEW b \in Referred, NEW on \in BOOLEAN, RecordInvoice(w, b, on)
      PROVE  CreditInv'
  <2>1. invoice' \in [Referred -> Invoices]
    BY <1>1, <1>4 DEF RecordInvoice, Invoices
  <2>2. Free(w) /\ held' = held /\ events' = events
        /\ UNCHANGED <<month, balance, referral, redeemed, redemptions, clawed>>
    BY <1>4 DEF RecordInvoice
  <2>3. CASE referral[b].status = "pending"
    <3>1. PICK op \in {"reward", "reject"} : Begin(w, op, b)
      BY <1>4, <2>3 DEF RecordInvoice
    <3>2. op \in ReferralOps
      BY DEF ReferralOps
    <3>. QED  BY <1>1, <1>2, <2>1, <2>2, <3>1, <3>2, WorkBegun
  <2>4. CASE referral[b].status # "pending"
    <3>1. PICK q \in Works : q = work[w] /\ WorkFits(q) /\ Guarded(q)
      BY CreditTyped DEF CreditInv
    <3>2. work' = work
      BY <1>4, <2>4 DEF RecordInvoice
    <3>3. work' = [work EXCEPT ![w] = q]
      BY <3>1, <3>2, CreditTyped DEF CreditInv
    <3>4. HeldOK' /\ held' \in [Locks -> CreditWorkers \cup {Nobody}]
      BY <2>2, <3>2, CreditTyped DEF CreditInv, WorkInv, HeldOK, Holds
    <3>. QED  BY <1>1, <2>1, <2>2, <3>1, <3>3, <3>4, CreditMoved
  <2>. QED  BY <2>3, <2>4
<1>5. ASSUME NEW b \in Referred, NEW fit \in BOOLEAN, Qualify(w, b, fit)
      PROVE  CreditInv'
  <2>1. Free(w) /\ held' = held /\ events' = events /\ invoice' = invoice
        /\ UNCHANGED <<month, balance, referral, redeemed, redemptions, clawed>>
    BY <1>5 DEF Qualify
  <2>2. PICK op \in {"qualify", "reject"} : Begin(w, op, b)
    BY <1>5 DEF Qualify
  <2>3. op \in ReferralOps
    BY DEF ReferralOps
  <2>. QED  BY <1>1, <1>2, <2>1, <2>2, <2>3, WorkBegun
<1>6. ASSUME NEW op \in {"spend", "credit"}, NEW who \in Spenders, Spend(w, op, who)
      PROVE  CreditInv'
  <2>1. Free(w) /\ held' = held /\ invoice' = invoice /\ Begin(w, op, who)
        /\ UNCHANGED <<month, balance, referral, redeemed, redemptions, clawed>>
    BY <1>6 DEF Spend
  <2>2. events' \in [n : Nat, lost : BOOLEAN]
    BY <1>1, <1>6 DEF Spend, Event
  <2>. QED  BY <1>1, <1>2, <2>1, <2>2, WorkBegun
<1>7. ASSUME NEW who \in Redeemers, RedeemPromo(w, who)
      PROVE  CreditInv'
  <2>1. Free(w) /\ held' = held /\ invoice' = invoice /\ Begin(w, "promo", who)
        /\ UNCHANGED <<month, balance, referral, redeemed, redemptions, clawed>>
    BY <1>7 DEF RedeemPromo
  <2>2. events' \in [n : Nat, lost : BOOLEAN]
    BY <1>1, <1>7 DEF RedeemPromo, Event
  <2>. QED  BY <1>1, <1>2, <2>1, <2>2, WorkBegun
<1>8. CASE RejectOverLimit(w)
  <2>1. UnlockWork(w) /\ invoice' = invoice /\ Begin(w, "reject", work[w].who)
        /\ UNCHANGED <<month, balance, referral, redeemed, redemptions, clawed>>
        /\ events' = events /\ work[w].op = "reward"
    BY <1>8 DEF RejectOverLimit, OverLimit
  <2>2. work[w].who \in Referred /\ "reject" \in ReferralOps
    BY <2>1, CreditTyped DEF CreditInv, WorkFits, ReferralOps
  <2>. QED  BY <1>1, <1>2, <2>1, <2>2, WorkBegun
<1>. QED  BY <1>3, <1>4, <1>5, <1>6, <1>7, <1>8

\* A worker takes its next lock, and keeps what it finds there.
LEMMA CreditLocked ==
    ASSUME CreditInv, NEW w \in CreditWorkers, TakeLock(w)
    PROVE  CreditInv'
<1>1. PICK p \in Works : p = work[w] /\ WorkFits(p) /\ Guarded(p)
  BY CreditTyped DEF CreditInv
<1>2. PICK q : q = [work[w] EXCEPT !.step = @ + 1,
                      !.seen = IF work[w].op = "spend" THEN balance[work[w].who] ELSE 0]
  OBVIOUS
<1>3. PICK l : l = NextLock(w)
  OBVIOUS
<1>4. /\ p.op # "none" /\ ~Locked(w) /\ ~Free(w) /\ ~OverLimit(w)
      /\ Matches(p.op, l) /\ held[l] = Nobody
      /\ held' = [held EXCEPT ![l] = w] /\ work' = [work EXCEPT ![w] = q]
      /\ UNCHANGED <<month, balance, referral, invoice, redeemed, redemptions, clawed, events>>
  <2>1. work' = [work EXCEPT ![w] = q]
    BY <1>2, CreditTyped DEF TakeLock, CreditInv
  <2>. QED  BY <1>1, <1>3, <2>1 DEF TakeLock, MayTake, Free
<1>5. p.step \in 1 .. 2 /\ (p.op \in ShortOps => p.step = 1) /\ p.who \in Members
  <2>1. p.step <= Len(LockOrder(p.op, p.who)) /\ p.step \in 1 .. 3
    BY <1>1, <1>4, OrderOf DEF Locked
  <2>. QED  BY <1>1, <2>1, OrderOf
<1>6. q.op = p.op /\ q.who = p.who /\ q.step = p.step + 1
      /\ q.seen = IF p.op = "spend" THEN balance[p.who] ELSE 0
  BY <1>1, <1>2 DEF Works
<1>7. q \in Works
  <2>1. balance[p.who] \in Int
    BY <1>5, CreditTyped DEF CreditInv
  <2>2. q = [op |-> p.op, who |-> p.who, step |-> p.step + 1, seen |-> q.seen]
    BY <1>1, <1>2 DEF Works
  <2>3. q.seen \in Int /\ p.step + 1 \in 1 .. 3 /\ p.op \in Ops \cup {"none"}
    BY <1>1, <1>5, <1>6, <2>1, OrderOf
  <2>. QED  BY <1>5, <2>2, <2>3 DEF Works
<1>8. HeldOK' /\ held' \in [Locks -> CreditWorkers \cup {Nobody}] /\ WorkFits(q)
  BY <1>1, <1>3, <1>4, <1>6, <1>7, LockTaken DEF CreditInv
<1>9. Guarded(q)
  <2>1. l = LockOrder(p.op, p.who)[p.step]
    BY <1>1, <1>3 DEF NextLock
  <2>2. CASE p.op = "qualify" /\ p.step = 2
    <3>1. l = <<"row", p.who>>
      BY <1>1, <2>1, <2>2, OrderOf
    <3>. QED  BY <1>4, <1>6, <2>2, <3>1 DEF Guarded, Matches, RowMatches
  <2>3. CASE p.op = "reward" /\ p.step = 2
    <3>1. l = <<"row", p.who>>
      BY <1>1, <2>1, <2>3, OrderOf
    <3>2. referral[p.who].status = "pending"
      BY <1>4, <2>3, <3>1 DEF Matches, RowMatches
    <3>3. Cardinality(RewardedIn(month)) < MaxPerMonth
      BY <1>1, <1>4, <2>3, RewardedFinite, CreditConstants DEF OverLimit, MonthOver
    <3>. QED  BY <1>6, <2>3, <3>2, <3>3 DEF Guarded
  <2>4. CASE p.op \in {"reject", "reverse"} /\ p.step = 1
    <3>1. l = <<"row", p.who>>
      BY <1>1, <2>1, <2>4, OrderOf
    <3>. QED  BY <1>4, <1>6, <2>4, <3>1 DEF Guarded, Matches, RowMatches
  <2>5. CASE p.op = "promo" /\ p.step = 1
    <3>1. l = <<"promo", Referrer>>
      BY <1>1, <2>1, <2>5, OrderOf
    <3>. QED  BY <1>4, <1>6, <2>5, <3>1 DEF Guarded, Matches, PromoLeft
  <2>6. CASE p.op \in {"reverse", "promo"} /\ p.step = 2
    BY <1>1, <1>6, <2>6 DEF Guarded
  <2>7. CASE p.op \in {"spend", "credit"} \/ (p.op \in {"qualify", "reward"} /\ p.step = 1)
    BY <1>5, <1>6, <2>7 DEF Guarded, ShortOps
  <2>. QED  BY <1>1, <1>4, <1>5, <2>2, <2>3, <2>4, <2>5, <2>6, <2>7, OrderOf DEF Ops, ShortOps
<1>. QED  BY <1>4, <1>7, <1>8, <1>9, CreditMoved, CreditTyped DEF CreditInv

\* The status of referrals whose row another holds stays, and their grants
\* are what their status says.
LEMMA RewardsMoved ==
    ASSUME CreditInv, NEW b \in Referred, NEW s \in {"rejected", "rewarded"},
           referral' \in [Referred -> Referrals],
           \A c \in Referred \ {b} : referral'[c] = referral[c],
           referral'[b].status = s, referral'[b].at <= month,
           s = "rewarded" => /\ referral[b].status = "pending"
                             /\ referral'[b].at = month /\ referral'[b].granted = RewardCredits
                             /\ Cardinality(RewardedIn(month)) < MaxPerMonth,
           s = "rejected" => referral'[b].granted = 0, month' = month
    PROVE  RewardedOnce' /\ MonthlyLimit' /\ RewardedBefore'
<1>1. RewardedOnce' /\ RewardedBefore'
  BY DEF CreditInv, RewardedOnce, RewardedBefore
<1>2. ASSUME NEW m \in 0 .. month
      PROVE  Cardinality(RewardedIn(m)') <= MaxPerMonth
  <2>1. Cardinality(RewardedIn(m)) <= MaxPerMonth
    BY DEF CreditInv, MonthlyLimit
  <2>2. CASE s = "rewarded" /\ m = month
    <3>1. RewardedIn(m)' = RewardedIn(m) \cup {b} /\ b \notin RewardedIn(m)
      BY <2>2, CreditTyped DEF RewardedIn, CreditInv
    <3>2. Cardinality(RewardedIn(m)') = Cardinality(RewardedIn(m)) + 1
      BY <3>1, RewardedFinite, FS_AddElement
    <3>. QED  BY <2>2, <3>2, RewardedFinite, CreditConstants
  <2>3. CASE ~(s = "rewarded" /\ m = month)
    <3>1. RewardedIn(m)' \subseteq RewardedIn(m)
      BY <2>3 DEF RewardedIn
    <3>2. Cardinality(RewardedIn(m)') <= Cardinality(RewardedIn(m))
      BY <3>1, RewardedFinite, FS_Subset
    <3>. QED  BY <2>1, <3>2, RewardedFinite, CreditConstants
  <2>. QED  BY <2>2, <2>3
<1>3. MonthlyLimit'
  BY <1>2 DEF MonthlyLimit
<1>. QED  BY <1>1, <1>3

\* A transaction that commits: what the others found is not disturbed.
LEMMA CreditCommitted ==
    ASSUME CreditInv, NEW w \in CreditWorkers, EndWork(w),
           month' = month, invoice' = invoice, events' = events,
           balance' \in [Members -> Int], referral' \in [Referred -> Referrals],
           redeemed' \subseteq Members, redemptions' \in Nat, clawed' \in Nat,
           \A b \in Referred : held[<<"row", b>>] # w => referral'[b].status = referral[b].status,
           \A u \in Members : held[<<"credits", u>>] # w => balance'[u] = balance[u],
           held[<<"credits", Referrer>>] # w => RewardedIn(month)' = RewardedIn(month),
           held[<<"promo", Referrer>>] # w => redemptions' = redemptions,
           RewardedOnce', NeverOverdrawn', MonthlyLimit', PromoLimit', RewardedBefore'
    PROVE  CreditInv'
<1>1. /\ work' \in [CreditWorkers -> Works] /\ work'[w] = NoWork
      /\ \A v \in CreditWorkers \ {w} : work'[v] = work[v]
  BY CreditTyped DEF CreditInv, EndWork
<1>2. HeldOK' /\ held' \in [Locks -> CreditWorkers \cup {Nobody}]
  BY LocksReleased, CreditTyped DEF CreditInv, EndWork
<1>3. CreditsTypeOK'
  BY <1>1, <1>2 DEF CreditInv, WorkInv, CreditsTypeOK
<1>4. \A v \in CreditWorkers : WorkFits(work'[v])
  BY <1>1, CreditTyped DEF CreditInv
<1>5. WorkInv'
  BY <1>2, <1>3, <1>4 DEF WorkInv, WorkFits
<1>6. ASSUME NEW v \in CreditWorkers
      PROVE  Guarded(work[v])'
  <2>1. CASE v = w
    <3>1. work'[v].op = "none"
      BY <1>1, <2>1 DEF NoWork
    <3>. QED  BY <3>1 DEF Guarded
  <2>2. CASE v # w
    BY <1>1, <2>2, GuardKept DEF CreditInv
  <2>. QED  BY <2>1, <2>2
<1>. QED  BY <1>5, <1>6 DEF CreditInv

\* What a worker that is through its locks holds.
LEMMA LockedHolds ==
    ASSUME WorkInv, NEW w \in CreditWorkers, Locked(w), ~Free(w)
    PROVE  /\ work[w].step = IF work[w].op \in ShortOps THEN 2 ELSE 3
           /\ work[w].op \in ReferralOps =>
                 work[w].who \in Referred /\ held[<<"row", work[w].who>>] = w
           /\ work[w].op \in {"reward", "reverse"} => held[<<"credits", Referrer>>] = w
           /\ work[w].op \in {"qualify", "spend", "credit", "promo"} =>
                 held[<<"credits", work[w].who>>] = w
           /\ work[w].op = "promo" => held[<<"promo", Referrer>>] = w
           /\ work[w].op \in Ops /\ work[w].who \in Members
<1>1. PICK q \in Works : q = work[w] /\ WorkFits(q)
  BY CreditTyped
<1>2. /\ q.step > Len(LockOrder(q.op, q.who)) /\ q.op # "none" /\ q.step \in 1 .. 3
      /\ q.op \in Ops /\ q.who \in Members
  BY <1>1, OrderOf DEF Locked, Free
<1>3. q.step = IF q.op \in ShortOps THEN 2 ELSE 3
  BY <1>1, <1>2, OrderOf DEF WorkFits
<1>4. /\ LockOrder(q.op, q.who)[1] \in Locks /\ Holds(q, LockOrder(q.op, q.who)[1])
      /\ q.op \notin ShortOps =>
           LockOrder(q.op, q.who)[2] \in Locks /\ Holds(q, LockOrder(q.op, q.who)[2])
  BY <1>1, <1>3, LocksOf DEF Holds
<1>5. /\ held[LockOrder(q.op, q.who)[1]] = w
      /\ q.op \notin ShortOps => held[LockOrder(q.op, q.who)[2]] = w
  BY <1>1, <1>4 DEF WorkInv, HeldOK
<1>6. CASE q.op \in {"qualify", "reward"}
  BY <1>1, <1>2, <1>3, <1>5, <1>6, OrderOf DEF WorkFits, ShortOps, ReferralOps
<1>7. CASE q.op \in {"reverse", "reject"}
  BY <1>1, <1>2, <1>3, <1>5, <1>7, OrderOf DEF WorkFits, ShortOps, ReferralOps
<1>8. CASE q.op \in {"spend", "credit", "promo"}
  BY <1>1, <1>2, <1>3, <1>5, <1>8, OrderOf DEF WorkFits, ShortOps, ReferralOps
<1>. QED  BY <1>2, <1>6, <1>7, <1>8 DEF Ops

\* A referral is rejected, qualified, rewarded or reversed.
LEMMA ReferralCommitted ==
    ASSUME CreditInv, NEW w \in CreditWorkers, CommitReferral(w)
    PROVE  CreditInv'
<1>1. PICK b : b = work[w].who
  OBVIOUS
<1>2. /\ Locked(w) /\ EndWork(w) /\ work[w].op \in ReferralOps /\ ~Free(w)
      /\ UNCHANGED <<month, invoice, redeemed, redemptions, events>>
  BY DEF CommitReferral, ReferralOps, Free
<1>3. /\ b \in Referred /\ held[<<"row", b>>] = w
      /\ work[w].op \in {"reward", "reverse"} => held[<<"credits", Referrer>>] = w
      /\ work[w].op = "qualify" => held[<<"credits", b>>] = w
      /\ work[w].step = IF work[w].op = "reject" THEN 2 ELSE 3
  BY <1>1, <1>2, LockedHolds DEF CreditInv, ReferralOps, ShortOps
<1>4. /\ balance \in [Members -> Int] /\ b \in Members /\ Referrer \in Members /\ b # Referrer
      /\ referral \in [Referred -> Referrals] /\ referral[b] \in Referrals
      /\ month \in Nat /\ clawed \in Nat /\ redemptions \in Nat /\ redeemed \subseteq Members
      /\ \A u \in Members : balance[u] \in Int
      /\ RewardCredits \in Nat /\ BonusCredits \in Nat
  BY <1>3, CreditTyped, CreditConstants DEF CreditInv
<1>5. PromoLimit' /\ RewardedOnce /\ NeverOverdrawn /\ RewardedBefore
  BY <1>2 DEF CreditInv, PromoLimit
<1>6. Guarded(work[w])
  BY DEF CreditInv
<1>7. CASE work[w].op = "reject"
  <2>1. /\ referral' = [referral EXCEPT ![b].status = "rejected"]
        /\ balance' = balance /\ clawed' = clawed
    BY <1>1, <1>7 DEF CommitReferral
  <2>2. referral[b].status = "pending" /\ referral[b].granted = 0
    BY <1>1, <1>3, <1>5, <1>6, <1>7 DEF Guarded, RewardedOnce
  <2>3. /\ referral' \in [Referred -> Referrals]
        /\ \A c \in Referred \ {b} : referral'[c] = referral[c]
        /\ referral'[b].status = "rejected" /\ referral'[b].at = referral[b].at
        /\ referral'[b].granted = 0
    BY <1>3, <1>4, <2>1, <2>2 DEF Referrals
  <2>4. RewardedOnce' /\ MonthlyLimit' /\ RewardedBefore'
    BY <1>2, <1>3, <1>5, <2>3, RewardsMoved DEF RewardedBefore
  <2>5. RewardedIn(month)' = RewardedIn(month)
    BY <1>2, <2>2, <2>3 DEF RewardedIn
  <2>6. NeverOverdrawn'
    BY <2>1, <1>5 DEF NeverOverdrawn
  <2>. QED  BY <1>2, <1>3, <1>4, <1>5, <2>1, <2>3, <2>4, <2>5, <2>6, CreditCommitted
<1>8. CASE work[w].op = "qualify"
  <2>1. /\ referral' = [referral EXCEPT ![b].bonus = TRUE]
        /\ balance' = [balance EXCEPT ![b] = @ + BonusCredits] /\ clawed' = clawed
    BY <1>1, <1>8 DEF CommitReferral
  <2>2. /\ referral' \in [Referred -> Referrals]
        /\ \A c \in Referred : /\ referral'[c].status = referral[c].status
                               /\ referral'[c].at = referral[c].at
                               /\ referral'[c].granted = referral[c].granted
    BY <1>3, <1>4, <2>1 DEF Referrals
  <2>3. \A m : RewardedIn(m)' = RewardedIn(m)
    BY <2>2 DEF RewardedIn
  <2>4. RewardedOnce' /\ RewardedBefore' /\ MonthlyLimit'
    BY <1>2, <2>2, <2>3 DEF CreditInv, RewardedOnce, RewardedBefore, MonthlyLimit
  <2>5. balance' \in [Members -> Int] /\ (\A u \in Members \ {b} : balance'[u] = balance[u])
        /\ balance'[b] = balance[b] + BonusCredits
    BY <1>4, <2>1
  <2>6. NeverOverdrawn'
    BY <1>4, <1>5, <2>1, <2>5 DEF NeverOverdrawn
  <2>. QED  BY <1>2, <1>3, <1>4, <1>5, <1>8, <2>1, <2>2, <2>3, <2>4, <2>5, <2>6, CreditCommitted
<1>9. CASE work[w].op = "reward"
  <2>1. /\ referral' = [referral EXCEPT ![b].status = "rewarded",
                            ![b].at = month, ![b].granted = @ + RewardCredits]
        /\ balance' = [balance EXCEPT ![Referrer] = @ + RewardCredits] /\ clawed' = clawed
    BY <1>1, <1>9 DEF CommitReferral
  <2>2. /\ referral[b].status = "pending" /\ referral[b].granted = 0
        /\ Cardinality(RewardedIn(month)) < MaxPerMonth
    BY <1>1, <1>3, <1>5, <1>6, <1>9 DEF Guarded, RewardedOnce
  <2>3. /\ referral' \in [Referred -> Referrals]
        /\ \A c \in Referred \ {b} : referral'[c] = referral[c]
        /\ referral'[b].status = "rewarded" /\ referral'[b].at = month
        /\ referral'[b].granted = RewardCredits
    <3>1. referral'[b] = [status |-> "rewarded", bonus |-> referral[b].bonus, at |-> month,
                          granted |-> RewardCredits]
      <4>1. PICK r : r = referral[b]
        OBVIOUS
      <4>2. referral'[b] = [[[r EXCEPT !.status = "rewarded"] EXCEPT !.at = month]
                              EXCEPT !.granted = r.granted + RewardCredits]
        BY <1>3, <1>4, <2>1, <4>1
      <4>3. PICK was, bonus, at : r = [status |-> was, bonus |-> bonus, at |-> at, granted |-> 0]
        BY <1>4, <2>2, <4>1 DEF Referrals
      <4>4. r.granted + RewardCredits = RewardCredits
        BY <1>4, <2>2, <4>1
      <4>. QED  BY <4>1, <4>2, <4>3, <4>4
    <3>2. referral'[b] \in Referrals
      BY <1>4, <3>1 DEF Referrals
    <3>. QED  BY <1>3, <1>4, <2>1, <3>1, <3>2
  <2>4. RewardedOnce' /\ MonthlyLimit' /\ RewardedBefore'
    BY <1>2, <1>3, <1>4, <2>2, <2>3, RewardsMoved
  <2>5. /\ balance' \in [Members -> Int] /\ balance'[Referrer] = balance[Referrer] + RewardCredits
        /\ \A u \in Members \ {Referrer} : balance'[u] = balance[u]
    BY <1>4, <2>1
  <2>6. NeverOverdrawn'
    BY <1>4, <1>5, <2>1, <2>5 DEF NeverOverdrawn
  <2>7. /\ \A c \in Referred : held[<<"row", c>>] # w => referral'[c].status = referral[c].status
        /\ \A u \in Members : held[<<"credits", u>>] # w => balance'[u] = balance[u]
        /\ held[<<"credits", Referrer>>] = w
    BY <1>3, <1>9, <2>3, <2>5
  <2>. QED  BY <1>2, <1>4, <1>5, <2>1, <2>3, <2>4, <2>5, <2>6, <2>7, CreditCommitted
<1>10. CASE work[w].op = "reverse"
  <2>1. /\ referral' = [referral EXCEPT ![b].status = "rejected", ![b].granted = 0]
        /\ balance' = [balance EXCEPT ![Referrer] = @ - referral[b].granted]
        /\ clawed' = clawed + referral[b].granted
    BY <1>1, <1>10 DEF CommitReferral
  <2>2. PICK g \in Nat : g = referral[b].granted
    BY <1>4 DEF Referrals
  <2>3. /\ referral' \in [Referred -> Referrals]
        /\ \A c \in Referred \ {b} : referral'[c] = referral[c]
        /\ referral'[b].status = "rejected" /\ referral'[b].at = referral[b].at
        /\ referral'[b].granted = 0
    BY <1>3, <1>4, <2>1 DEF Referrals
  <2>4. RewardedOnce' /\ MonthlyLimit' /\ RewardedBefore'
    BY <1>2, <1>3, <1>5, <2>3, RewardsMoved DEF RewardedBefore
  <2>5. /\ balance' \in [Members -> Int] /\ balance'[Referrer] = balance[Referrer] - g
        /\ \A u \in Members \ {Referrer} : balance'[u] = balance[u]
        /\ clawed' = clawed + g /\ clawed' \in Nat
    BY <1>4, <2>1, <2>2
  <2>6. NeverOverdrawn'
    BY <1>4, <1>5, <2>2, <2>5 DEF NeverOverdrawn
  <2>. QED  BY <1>2, <1>3, <1>4, <1>5, <1>10, <2>3, <2>4, <2>5, <2>6, CreditCommitted
<1>. QED  BY <1>2, <1>7, <1>8, <1>9, <1>10 DEF ReferralOps

\* Credits are spent, given or won by a code.
LEMMA MemberCommitted ==
    ASSUME CreditInv, NEW w \in CreditWorkers,
           \/ \E refused \in BOOLEAN : CommitSpending(w, refused)
           \/ CommitCredit(w) \/ CommitPromo(w)
    PROVE  CreditInv'
<1>1. PICK u : u = work[w].who
  OBVIOUS
<1>2. /\ Locked(w) /\ EndWork(w) /\ work[w].op \in {"spend", "credit", "promo"} /\ ~Free(w)
      /\ UNCHANGED <<month, referral, invoice, clawed, events>>
  BY DEF CommitSpending, CommitCredit, CommitPromo, Free
<1>3. /\ u \in Members /\ held[<<"credits", u>>] = w
      /\ work[w].op = "promo" => held[<<"promo", Referrer>>] = w
      /\ work[w].step = IF work[w].op = "promo" THEN 3 ELSE 2
  BY <1>1, <1>2, LockedHolds DEF CreditInv, ShortOps
<1>4. /\ balance \in [Members -> Int] /\ referral \in [Referred -> Referrals]
      /\ month \in Nat /\ clawed \in Nat /\ redemptions \in Nat /\ redeemed \subseteq Members
      /\ \A v \in Members : balance[v] \in Int
      /\ RewardCost \in Nat /\ PromoCredits \in Nat /\ MaxRedemptions \in Nat
  BY CreditTyped, CreditConstants DEF CreditInv
<1>5. \A m : RewardedIn(m)' = RewardedIn(m)
  BY <1>2 DEF RewardedIn
<1>6. RewardedOnce' /\ RewardedBefore' /\ MonthlyLimit' /\ NeverOverdrawn /\ PromoLimit
  BY <1>2, <1>5 DEF CreditInv, RewardedOnce, RewardedBefore, MonthlyLimit
<1>7. Guarded(work[w])
  BY DEF CreditInv
<1>8. ASSUME NEW n \in Int, balance' = [balance EXCEPT ![u] = n],
             n >= 0 \/ n >= balance[u]
      PROVE  /\ NeverOverdrawn' /\ balance' \in [Members -> Int]
             /\ \A v \in Members \ {u} : balance'[v] = balance[v]
  <2>1. /\ balance' \in [Members -> Int] /\ balance'[u] = n
        /\ \A v \in Members \ {u} : balance'[v] = balance[v]
    BY <1>3, <1>4, <1>8
  <2>2. ASSUME NEW v \in Members
        PROVE  balance'[v] + (IF v = Referrer THEN clawed' ELSE 0) >= 0
    <3>1. balance[v] + (IF v = Referrer THEN clawed ELSE 0) >= 0
      BY <1>6 DEF NeverOverdrawn
    <3>. QED  BY <1>2, <1>3, <1>4, <1>8, <2>1, <3>1
  <2>. QED  BY <2>1, <2>2 DEF NeverOverdrawn
<1>9. ASSUME NEW n \in Int, balance' = [balance EXCEPT ![u] = n],
             n >= 0 \/ n >= balance[u], PromoLimit',
             redeemed' \subseteq Members, redemptions' \in Nat,
             work[w].op = "promo" \/ redemptions' = redemptions
      PROVE  CreditInv'
  <2>1. /\ NeverOverdrawn' /\ balance' \in [Members -> Int]
        /\ \A v \in Members \ {u} : balance'[v] = balance[v]
    BY <1>8, <1>9
  <2>2. \A v \in Members : held[<<"credits", v>>] # w => balance'[v] = balance[v]
    BY <1>3, <2>1
  <2>3. held[<<"promo", Referrer>>] # w => redemptions' = redemptions
    BY <1>3, <1>9
  <2>4. referral' \in [Referred -> Referrals] /\ clawed' \in Nat
    BY <1>2, <1>4
  <2>. QED  BY <1>2, <1>5, <1>6, <1>9, <2>1, <2>2, <2>3, <2>4, CreditCommitted
<1>10. ASSUME NEW refused \in BOOLEAN, CommitSpending(w, refused)
      PROVE  CreditInv'
  <2>1. PICK n \in Int :
           balance' = [balance EXCEPT ![u] = n] /\ (n >= 0 \/ n >= balance[u])
    <3>1. work[w].seen = balance[u]
      BY <1>1, <1>3, <1>7, <1>10 DEF Guarded, CommitSpending
    <3>2. CASE work[w].seen < RewardCost \/ refused
      <4>1. balance' = balance /\ balance[u] \in Int
        BY <1>3, <1>4, <1>10, <3>2 DEF CommitSpending
      <4>2. PICK m \in Int : m = balance[u]
        BY <4>1
      <4>3. balance' = [balance EXCEPT ![u] = m] /\ m >= balance[u]
        BY <1>3, <1>4, <4>1, <4>2
      <4>. QED  BY <4>3
    <3>3. CASE ~(work[w].seen < RewardCost \/ refused)
      <4>1. balance' = [balance EXCEPT ![u] = balance[u] - RewardCost]
        BY <1>1, <1>3, <1>4, <1>10, <3>3 DEF CommitSpending
      <4>2. balance[u] - RewardCost \in Int /\ balance[u] - RewardCost >= 0
        BY <1>3, <1>4, <3>1, <3>3
      <4>. QED  BY <4>1, <4>2
    <3>. QED  BY <3>2, <3>3
  <2>2. UNCHANGED <<redeemed, redemptions>>
    BY <1>10 DEF CommitSpending
  <2>3. PromoLimit'
    BY <1>6, <2>2 DEF PromoLimit
  <2>. QED  BY <1>4, <1>9, <2>1, <2>2, <2>3
<1>11. CASE CommitCredit(w)
  <2>1. /\ balance' = [balance EXCEPT ![u] = balance[u] + 1]
        /\ balance[u] + 1 \in Int /\ balance[u] + 1 >= balance[u]
        /\ UNCHANGED <<redeemed, redemptions>>
    BY <1>1, <1>3, <1>4, <1>11 DEF CommitCredit
  <2>2. PromoLimit'
    BY <1>6, <2>1 DEF PromoLimit
  <2>. QED  BY <1>4, <1>9, <2>1, <2>2
<1>12. CASE CommitPromo(w)
  <2>1. work[w].op = "promo"
    BY <1>12 DEF CommitPromo
  <2>2. CASE u \in redeemed
    <3>1. /\ balance' = [balance EXCEPT ![u] = balance[u]]
          /\ balance[u] \in Int /\ UNCHANGED <<redeemed, redemptions>>
      BY <1>1, <1>3, <1>4, <1>12, <2>2 DEF CommitPromo
    <3>2. PromoLimit'
      BY <1>6, <3>1 DEF PromoLimit
    <3>3. PICK m \in Int : m = balance[u]
      BY <3>1
    <3>4. balance' = [balance EXCEPT ![u] = m] /\ m >= balance[u]
      BY <3>1, <3>3
    <3>. QED  BY <1>4, <1>9, <2>1, <3>1, <3>2, <3>4
  <2>3. CASE u \notin redeemed
    <3>1. /\ balance' = [balance EXCEPT ![u] = balance[u] + PromoCredits]
          /\ balance[u] + PromoCredits \in Int /\ balance[u] + PromoCredits >= balance[u]
          /\ redeemed' = redeemed \cup {u} /\ redemptions' = redemptions + 1
      BY <1>1, <1>3, <1>4, <1>12, <2>3 DEF CommitPromo
    <3>2. redemptions < MaxRedemptions
      BY <1>3, <1>7, <2>1 DEF Guarded
    <3>3. IsFiniteSet(redeemed)
      <4>1. IsFiniteSet(Members)
        BY CreditConstants, FS_Singleton, FS_Union DEF Members
      <4>. QED  BY <1>4, <4>1, FS_Subset
    <3>4. Cardinality(redeemed') = Cardinality(redeemed) + 1
      BY <2>3, <3>1, <3>3, FS_AddElement
    <3>5. PromoLimit'
      BY <1>4, <1>6, <3>1, <3>2, <3>4 DEF PromoLimit
    <3>6. redeemed' \subseteq Members /\ redemptions' \in Nat
      BY <1>3, <1>4, <3>1
    <3>. QED  BY <1>9, <2>1, <3>1, <3>5, <3>6
  <2>. QED  BY <2>2, <2>3
<1>. QED  BY <1>10, <1>11, <1>12

\* A payment is refunded, a month passes.
LEMMA CreditOutside ==
    ASSUME CreditInv, NextMonth \/ \E b \in Referred : RefundPayment(b)
    PROVE  CreditInv'
<1>1. CASE NextMonth
  <2>1. /\ month' = month + 1 /\ month \in Nat
        /\ UNCHANGED <<balance, referral, invoice, redeemed, redemptions, held, work, clawed>>
        /\ events' \in [n : Nat, lost : BOOLEAN]
    BY <1>1, CreditTyped DEF CreditInv, NextMonth, Event
  <2>2. RewardedIn(month)' = {} /\ \A m : RewardedIn(m)' = RewardedIn(m)
    <3>1. \A b \in Referred : referral[b].at \in Nat /\ referral[b].at <= month
      BY CreditTyped DEF CreditInv, RewardedBefore
    <3>2. \A b \in Referred : referral'[b].at # month'
      BY <2>1, <3>1
    <3>. QED  BY <2>1, <3>2 DEF RewardedIn
  <2>3. WorkInv' /\ RewardedOnce' /\ NeverOverdrawn' /\ PromoLimit'
    BY <2>1 DEF CreditInv, WorkInv, CreditsTypeOK, HeldOK, RewardedOnce, NeverOverdrawn,
       PromoLimit
  <2>4. RewardedBefore'
    BY <2>1, CreditTyped DEF CreditInv, RewardedBefore
  <2>5. Cardinality(RewardedIn(month)') = 0
    BY <2>2, FS_EmptySet
  <2>6. MonthlyLimit'
    <3>1. ASSUME NEW m \in 0 .. month'
          PROVE  Cardinality(RewardedIn(m)') <= MaxPerMonth
      <4>1. CASE m = month'
        <5>1. Cardinality(RewardedIn(m)') = 0
          BY <2>1, <2>5, <4>1 DEF RewardedIn
        <5>. QED  BY <5>1, CreditConstants
      <4>2. CASE m # month'
        <5>1. m \in 0 .. month
          BY <2>1, <4>2
        <5>. QED  BY <2>2, <5>1 DEF CreditInv, MonthlyLimit
      <4>. QED  BY <4>1, <4>2
    <3>. QED  BY <3>1 DEF MonthlyLimit
  <2>7. ASSUME NEW w \in CreditWorkers
        PROVE  Guarded(work[w])'
    <3>1. Guarded(work[w])
      BY DEF CreditInv
    <3>2. Cardinality(RewardedIn(month)) < MaxPerMonth => Cardinality(RewardedIn(month)') < MaxPerMonth
      BY <2>5, RewardedFinite, CreditConstants
    <3>3. Cardinality(RewardedIn(month)') < MaxPerMonth
            \/ ~(Cardinality(RewardedIn(month)) < MaxPerMonth)
      BY <3>2 DEF RewardedIn
    <3>4. work'[w] = work[w] /\ \A b \in Referred : referral'[b] = referral[b]
      BY <2>1
    <3>. QED  BY <2>1, <3>1, <3>3, <3>4 DEF Guarded
  <2>. QED  BY <2>3, <2>4, <2>6, <2>7 DEF CreditInv
<1>2. ASSUME NEW b \in Referred, RefundPayment(b)
      PROVE  CreditInv'
  <2>1. /\ invoice' \in [Referred -> Invoices]
        /\ UNCHANGED <<month, balance, referral, redeemed, redemptions, held, work,
                   clawed, events>>
    <3>1. UNCHANGED <<month, balance, referral, redeemed, redemptions, held, work,
                      clawed, events>>
      BY <1>2 DEF RefundPayment
    <3>2. invoice' = [invoice EXCEPT ![b].refunded = TRUE] /\ invoice \in [Referred -> Invoices]
      BY <1>2, CreditTyped DEF CreditInv, RefundPayment
    <3>3. [invoice[b] EXCEPT !.refunded = TRUE] \in Invoices
      BY <3>2 DEF Invoices
    <3>. QED  BY <3>1, <3>2, <3>3
  <2>2. \A m : RewardedIn(m)' = RewardedIn(m)
    BY <2>1 DEF RewardedIn
  <2>3. WorkInv' /\ RewardedOnce' /\ NeverOverdrawn' /\ PromoLimit' /\ RewardedBefore'
        /\ MonthlyLimit'
    BY <2>1, <2>2 DEF CreditInv, WorkInv, CreditsTypeOK, HeldOK, RewardedOnce, NeverOverdrawn,
       PromoLimit, RewardedBefore, MonthlyLimit
  <2>4. \A w \in CreditWorkers : Guarded(work[w])'
    BY <2>1, <2>2 DEF CreditInv, Guarded
  <2>. QED  BY <2>3, <2>4 DEF CreditInv
<1>. QED  BY <1>1, <1>2

\* At the start nothing is held, paid or redeemed.
LEMMA CreditInvInit ==
    ASSUME CreditsInit
    PROVE  CreditInv
<1>1. NoWork \in Works /\ WorkFits(NoWork) /\ NoWork.op = "none" /\ NoWork.step = 1
  BY DEF NoWork, Works, WorkFits, Members, ReferralOps, ShortOps
<1>2. /\ referral \in [Referred -> Referrals] /\ invoice \in [Referred -> Invoices]
      /\ \A b \in Referred : /\ referral[b].status = "pending" /\ referral[b].at = 0
                             /\ referral[b].granted = 0
  BY DEF CreditsInit, Referrals, Invoices
<1>3. CreditsTypeOK
  BY <1>1, <1>2 DEF CreditsInit, CreditsTypeOK
<1>4. HeldOK
  <2>1. \A l : ~Holds(NoWork, l)
    BY <1>1 DEF Holds
  <2>. QED  BY <2>1, CreditConstants DEF CreditsInit, HeldOK, Nobody
<1>5. WorkInv /\ \A w \in CreditWorkers : Guarded(work[w])
  BY <1>1, <1>3, <1>4 DEF CreditsInit, WorkInv, Guarded
<1>6. \A m : RewardedIn(m) = {} /\ Cardinality(RewardedIn(m)) = 0
  <2>1. \A m : RewardedIn(m) = {}
    BY <1>2 DEF RewardedIn
  <2>. QED  BY <2>1, FS_EmptySet
<1>7. MonthlyLimit /\ PromoLimit
  BY <1>6, FS_EmptySet, CreditConstants DEF CreditsInit, MonthlyLimit, PromoLimit
<1>8. RewardedOnce /\ RewardedBefore /\ NeverOverdrawn
  BY <1>2 DEF CreditsInit, RewardedOnce, RewardedBefore, NeverOverdrawn
<1>. QED  BY <1>5, <1>7, <1>8 DEF CreditInv

\* Every step keeps what the credits rest on.
LEMMA CreditInvStep ==
    ASSUME CreditInv, [CreditsNext]_creditVars
    PROVE  CreditInv'
<1>1. CASE UNCHANGED creditVars
  <2>1. \A m : RewardedIn(m)' = RewardedIn(m)
    BY <1>1 DEF creditVars, RewardedIn
  <2>2. WorkInv' /\ RewardedOnce' /\ NeverOverdrawn' /\ PromoLimit' /\ RewardedBefore'
        /\ MonthlyLimit'
    BY <1>1, <2>1 DEF creditVars, CreditInv, WorkInv, CreditsTypeOK, HeldOK, RewardedOnce,
       NeverOverdrawn, PromoLimit, RewardedBefore, MonthlyLimit
  <2>3. \A w \in CreditWorkers : Guarded(work[w])'
    BY <1>1, <2>1 DEF creditVars, CreditInv, Guarded
  <2>. QED  BY <2>2, <2>3 DEF CreditInv
<1>2. ASSUME NEW w \in CreditWorkers, CreditStep(w)
      PROVE  CreditInv'
  <2>1. CASE NothingToDo(w) \/ LoseWork(w)
    <3>1. invoice' \in [Referred -> Invoices] /\ events' \in [n : Nat, lost : BOOLEAN]
      <4>1. invoice \in [Referred -> Invoices] /\ events \in [n : Nat, lost : BOOLEAN]
        BY CreditTyped DEF CreditInv
      <4>2. CASE NothingToDo(w)
        BY <4>1, <4>2 DEF NothingToDo
      <4>3. CASE LoseWork(w)
        <5>1. invoice' = invoice /\ events' = [n |-> events.n + 1, lost |-> events.lost \/ TRUE]
          BY <4>3 DEF LoseWork, Event
        <5>. QED  BY <4>1, <5>1
      <4>. QED  BY <2>1, <4>2, <4>3
    <3>. QED  BY <2>1, <3>1, WorkDropped DEF NothingToDo, LoseWork
  <2>. QED  BY <1>2, <2>1, CreditBegun, CreditLocked, ReferralCommitted, MemberCommitted
            DEF CreditStep
<1>. QED  BY <1>1, <1>2, CreditOutside DEF CreditsNext

\* Who waits for the row of a referral in another state than its holder left
\* it in does not wait: only a reversal holds a row while it waits, and the
\* referral of a reversal is rewarded, which is not what others ask for.
LEMMA NobodyWaitsForever ==
    ASSUME CreditInv, \E w \in CreditWorkers : ~Free(w)
    PROVE  SomeoneCanGoOn
<1>. DEFINE CanGoOn(w) == \/ Locked(w) \/ OverLimit(w) \/ ~Matches(work[w].op, NextLock(w))
                          \/ held[NextLock(w)] = Nobody
<1>. SUFFICES ASSUME \A w \in CreditWorkers : ~Free(w) => ~CanGoOn(w)
              PROVE  FALSE
  BY DEF SomeoneCanGoOn
<1>1. ASSUME NEW w \in CreditWorkers, ~Free(w)
      PROVE  /\ work[w] \in Works /\ WorkFits(work[w]) /\ Guarded(work[w])
             /\ ~Locked(w) /\ ~OverLimit(w) /\ Matches(work[w].op, NextLock(w))
             /\ work[w].op \in Ops /\ NextLock(w) \in Locks
             /\ work[w].step = 1 \/ (work[w].step = 2 /\ work[w].op \notin ShortOps)
  <2>1. ~CanGoOn(w) /\ work[w] \in Works /\ WorkFits(work[w]) /\ Guarded(work[w])
    BY <1>1, CreditTyped DEF CreditInv
  <2>2. PICK q \in Works : q = work[w] /\ WorkFits(q)
    BY <2>1
  <2>3. q.op \in Ops /\ q.step \in 1 .. 3 /\ q.step <= Len(LockOrder(q.op, q.who))
    BY <1>1, <2>1, <2>2, OrderOf DEF Locked, Free
  <2>4. q.step = 1 \/ (q.step = 2 /\ q.op \notin ShortOps)
    BY <2>2, <2>3, OrderOf
  <2>5. NextLock(w) \in Locks
    BY <2>2, <2>4, LocksOf DEF NextLock
  <2>. QED  BY <2>1, <2>2, <2>3, <2>4, <2>5
<1>2. ASSUME NEW w \in CreditWorkers, ~Free(w)
      PROVE  \E v \in CreditWorkers : ~Free(v) /\ Holds(work[v], NextLock(w)) /\ work[v].step = 2
                /\ LockOrder(work[v].op, work[v].who)[1] = NextLock(w)
  <2>1. held[NextLock(w)] # Nobody /\ NextLock(w) \in Locks
    BY <1>1, <1>2
  <2>2. PICK v \in CreditWorkers : held[NextLock(w)] = v
    BY <2>1, CreditTyped DEF CreditInv
  <2>3. Holds(work[v], NextLock(w))
    BY <2>1, <2>2 DEF CreditInv, WorkInv, HeldOK
  <2>4. ~Free(v)
    BY <2>3, CreditTyped DEF CreditInv, Free, WorkFits, Holds
  <2>5. work[v].step = 2
    BY <1>1, <2>3, <2>4 DEF Holds
  <2>. QED  BY <2>3, <2>4, <2>5 DEF Holds
<1>3. ASSUME NEW w \in CreditWorkers, ~Free(w), NEW b, NextLock(w) = <<"row", b>>
      PROVE  work[w].op = "reverse"
  <2>1. PICK v \in CreditWorkers :
           /\ ~Free(v) /\ work[v].step = 2
           /\ LockOrder(work[v].op, work[v].who)[1] = <<"row", b>>
    BY <1>2, <1>3
  <2>2. PICK q \in Works : q = work[v] /\ WorkFits(q) /\ Guarded(q) /\ q.op \in Ops \ ShortOps
    BY <1>1, <2>1
  <2>3. q.op = "reverse" /\ q.who = b
    <3>1. \A x, y : <<"credits", x>> # <<"row", y>> /\ <<"promo", x>> # <<"row", y>>
      OBVIOUS
    <3>2. q.op \notin {"qualify", "reward", "promo"}
      BY <2>1, <2>2, <3>1, OrderOf
    <3>3. q.op = "reverse"
      BY <2>2, <3>2 DEF Ops, ShortOps
    <3>4. <<"row", q.who>> = <<"row", b>>
      BY <2>1, <2>2, <3>3, OrderOf
    <3>. QED  BY <3>3, <3>4
  <2>4. referral[b].status = "rewarded"
    BY <2>1, <2>2, <2>3 DEF Guarded
  <2>5. RowMatches(work[w].op, b)
    BY <1>1, <1>3 DEF Matches
  <2>. QED  BY <2>4, <2>5 DEF RowMatches
<1>4. ASSUME NEW w \in CreditWorkers, ~Free(w), NEW u, NextLock(w) = <<"credits", u>>
      PROVE  FALSE
  <2>1. PICK v \in CreditWorkers :
           /\ ~Free(v) /\ work[v].step = 2
           /\ LockOrder(work[v].op, work[v].who)[1] = <<"credits", u>>
    BY <1>2, <1>4
  <2>2. PICK q \in Works : q = work[v] /\ WorkFits(q) /\ q.op \in Ops \ ShortOps
    BY <1>1, <2>1
  <2>3. q.op \in {"qualify", "reward"}
    <3>1. \A x, y : <<"row", x>> # <<"credits", y>> /\ <<"promo", x>> # <<"credits", y>>
      OBVIOUS
    <3>2. q.op \notin {"reverse", "promo"}
      BY <2>1, <2>2, <3>1, OrderOf
    <3>. QED  BY <2>2, <3>2 DEF Ops, ShortOps
  <2>4. NextLock(v) = <<"row", q.who>>
    BY <2>1, <2>2, <2>3, OrderOf DEF NextLock
  <2>. QED  BY <1>3, <2>1, <2>2, <2>3, <2>4
<1>5. ASSUME NEW w \in CreditWorkers, ~Free(w), work[w].step = 2
      PROVE  FALSE
  <2>1. PICK q \in Works : q = work[w] /\ WorkFits(q) /\ q.op \in Ops \ ShortOps
    BY <1>1, <1>5
  <2>2. CASE q.op \in {"qualify", "reward"}
    <3>1. NextLock(w) = <<"row", q.who>>
      BY <1>5, <2>1, <2>2, OrderOf DEF NextLock
    <3>. QED  BY <1>3, <1>5, <2>1, <2>2, <3>1
  <2>3. CASE q.op \in {"reverse", "promo"}
    <3>1. PICK u : u = IF q.op = "reverse" THEN Referrer ELSE q.who
      OBVIOUS
    <3>2. NextLock(w) = <<"credits", u>>
      BY <1>5, <2>1, <2>3, <3>1, OrderOf DEF NextLock
    <3>. QED  BY <1>4, <1>5, <3>2
  <2>. QED  BY <2>1, <2>2, <2>3 DEF Ops, ShortOps
<1>. QED  BY <1>2, <1>5

\* The type invariant of the credits.
THEOREM CreditTypes == CreditsSpec => []CreditsTypeOK
BY CreditInvInit, CreditInvStep, PTL DEF CreditsSpec, CreditInv, WorkInv

\* Every limit of the credits holds whoever pays, refunds, redeems and spends
\* at once, and the locks that keep them never make everyone wait
\* (lock_user_credits and the row locks of the referral repository).
THEOREM CreditsAreSafe == CreditsSpec => []CreditSafety
<1>1. CreditInv => CreditSafety
  <2>. SUFFICES ASSUME CreditInv
                PROVE  CreditSafety
    OBVIOUS
  <2>1. SomeoneCanGoOn
    BY NobodyWaitsForever DEF SomeoneCanGoOn
  <2>. QED  BY <2>1 DEF CreditInv, CreditSafety
<1>. QED  BY CreditInvInit, CreditInvStep, <1>1, PTL DEF CreditsSpec

-----------------------------------------------------------------------------
(* The finance ledger. *)

\* Nothing is said of a refund that the provider has not made.
MadeOnly(refunds) == \A f \in Refunds : refunds[f] # "none" => provider.refunds[f] # "none"

\* A handler that is about to set what was refunded.
WillCount(q) == q.kind # "dispute" /\ q.kind # "invoice" /\ q.pc \in {"apply", "import"}

\* Only events about refunds, and syncs, read and store refunds.
HandFits(q) == q.pc \in {"list", "store"} => q.kind \notin {"dispute", "invoice"}

\* What was stored is counted, or about to be.
CountsComing ==
    ledgerErrors = 0 => \/ payment.refunded >= Counted(stored)
                        \/ \E h \in Handlers : WillCount(hand[h])

\* A sync that is alone, and how far it is.
AloneSync(h) ==
    /\ hand[h].kind = "sync" /\ payment.known
    /\ \A g \in Handlers \ {h} : hand[g].pc = "idle"
    /\ \/ hand[h].pc = "list"
       \/ hand[h].pc = "store" /\ hand[h].refunds = provider.refunds
       \/ hand[h].pc = "apply" /\ stored = provider.refunds

Repairing ==
    quiet => \/ AllIdle /\ payment.refunded = Counted(provider.refunds)
             \/ \E h \in Handlers : AloneSync(h)

LedgerInv ==
    /\ LedgerTypeOK /\ CountsComing /\ Repairing
    /\ \A e \in sent : MadeOnly(e.refunds)
    /\ \A h \in Handlers : HandFits(hand[h]) /\ MadeOnly(hand[h].refunds)
    /\ MadeOnly(stored)

\* Refunds are counted in full: they never add up to more than was paid.
LEMMA CountedBound ==
    ASSUME NEW refunds
    PROVE  Counted(refunds) \in Nat /\ Counted(refunds) <= Amount
<1>1. {f \in Refunds : refunds[f] = "counts"} \subseteq Refunds
  OBVIOUS
<1>. QED  BY <1>1, LedgerConstants, FS_Subset, FS_CardinalityType DEF Counted

\* What the variables of the ledger are.
LEMMA LedgerTyped ==
    ASSUME LedgerInv
    PROVE  /\ provider.refunds \in [Refunds -> RefundStatus] /\ provider.dispute \in Disputes
           /\ provider \in [refunds : [Refunds -> RefundStatus], dispute : Disputes]
           /\ sent \subseteq Events
           /\ payment \in Payments /\ payment.known \in BOOLEAN
           /\ payment.refunded \in Nat /\ payment.disputed \in Nat
           /\ stored \in [Refunds -> RefundStatus] /\ hand \in [Handlers -> Hands]
           /\ \A h \in Handlers : /\ hand[h] \in Hands /\ hand[h].says \in Nat
                                 /\ hand[h].refunds \in [Refunds -> RefundStatus]
           /\ quiet \in BOOLEAN /\ refundedInFull \in BOOLEAN
           /\ replays \in Nat /\ ledgerErrors \in Nat /\ Amount \in Nat
           /\ NoRefunds \in [Refunds -> RefundStatus] /\ MadeOnly(NoRefunds)
           /\ NotHandling \in Hands /\ NotHandling.pc = "idle" /\ NotHandling.kind = "sync"
           /\ NotHandling.refunds = NoRefunds
<1>1. NoRefunds \in [Refunds -> RefundStatus] /\ MadeOnly(NoRefunds)
  BY DEF NoRefunds, RefundStatus, MadeOnly
<1>2. /\ NotHandling \in Hands /\ NotHandling.pc = "idle" /\ NotHandling.kind = "sync"
      /\ NotHandling.refunds = NoRefunds
  BY <1>1 DEF NotHandling, Hands, HandPCs, EventKinds, Disputes
<1>. QED  BY <1>1, <1>2, LedgerConstants DEF LedgerInv, LedgerTypeOK, Payments, Hands

\* What the updates set: never more than was paid, and with set_refunded and
\* recompute_refunded never less than what is stored.
LEMMA UpdatesTyped ==
    ASSUME LedgerInv, NEW h \in Handlers
    PROVE  /\ Set(hand[h].says) \in Nat /\ Set(hand[h].says) >= Counted(stored)
           /\ Recomputed = Counted(stored) /\ Recomputed \in Nat
           /\ Applied(h) \in Payments /\ Applied(h).known = payment.known
           /\ hand[h].kind \notin {"dispute", "invoice"} =>
                 Applied(h).refunded >= Counted(stored)
           /\ hand[h].kind = "sync" => Applied(h).refunded = Counted(stored)
           /\ hand[h].kind = "dispute" => Applied(h).refunded = payment.refunded
<1>1. /\ Counted(stored) \in Nat /\ Counted(stored) <= Amount /\ Amount \in Nat
      /\ payment.refunded \in Nat /\ hand[h].says \in Nat
  BY CountedBound, LedgerTyped
<1>2. Set(hand[h].says) \in Nat /\ Set(hand[h].says) >= Counted(stored)
  BY <1>1 DEF Set, Least, Most
<1>3. Recomputed = Counted(stored) /\ Recomputed \in Nat
  BY <1>1 DEF Recomputed, Least
<1>4. CASE hand[h].kind = "charge"
  <2>1. Applied(h) = [payment EXCEPT !.refunded = Set(hand[h].says)]
    BY <1>4 DEF Applied
  <2>. QED  BY <1>2, <1>3, <1>4, <2>1, LedgerTyped DEF Payments
<1>5. CASE hand[h].kind = "dispute"
  <2>1. PICK n \in Nat : Applied(h) = [payment EXCEPT !.disputed = n]
    BY <1>1, <1>5 DEF Applied
  <2>. QED  BY <1>2, <1>3, <1>5, <2>1, LedgerTyped DEF Payments
<1>6. CASE hand[h].kind \notin {"charge", "dispute"}
  <2>1. Applied(h) = [payment EXCEPT !.refunded = Recomputed]
    BY <1>6 DEF Applied
  <2>. QED  BY <1>1, <1>2, <1>3, <1>6, <2>1, LedgerTyped DEF Payments
<1>. QED  BY <1>4, <1>5, <1>6

\* Where a handler moves on and only it, the payment and the stored refunds
\* may change.
LEMMA HandMoved ==
    ASSUME LedgerInv, NEW h \in Handlers, NEW q \in Hands, HandFits(q), MadeOnly(q.refunds),
           hand' = [hand EXCEPT ![h] = q], payment' \in Payments,
           stored' \in [Refunds -> RefundStatus], MadeOnly(stored'),
           sent' \subseteq sent, UNCHANGED provider, quiet' \in BOOLEAN,
           refundedInFull' \in BOOLEAN, replays' \in Nat, ledgerErrors' \in Nat,
           CountsComing', Repairing'
    PROVE  LedgerInv'
<1>1. /\ hand' \in [Handlers -> Hands]
      /\ \A g \in Handlers : HandFits(hand'[g]) /\ MadeOnly(hand'[g].refunds)
  BY LedgerTyped DEF LedgerInv
<1>2. LedgerTypeOK'
  BY <1>1, LedgerTyped DEF LedgerInv, LedgerTypeOK
<1>3. \A e \in sent' : MadeOnly(e.refunds)
  BY DEF LedgerInv
<1>. QED  BY <1>1, <1>2, <1>3 DEF LedgerInv, MadeOnly, HandFits

\* An event comes in, and the handler begins with what it says.
LEMMA EventReceived ==
    ASSUME LedgerInv, NEW h \in Handlers, NEW e \in sent, NEW again \in BOOLEAN,
           Receive(h, e, again)
    PROVE  LedgerInv'
<1>1. PICK q : q = [pc |-> FirstStep(e.kind), kind |-> e.kind, refunds |-> e.refunds,
                    says |-> e.says, dispute |-> e.dispute]
  OBVIOUS
<1>2. /\ hand' = [hand EXCEPT ![h] = q] /\ hand[h].pc = "idle" /\ quiet' = FALSE
      /\ sent' \subseteq sent /\ replays' \in Nat
      /\ UNCHANGED <<provider, payment, stored, refundedInFull, ledgerErrors>>
  BY <1>1, LedgerTyped DEF Receive
<1>3. e \in Events
  BY LedgerTyped
<1>4. FirstStep(e.kind) \in HandPCs
  BY <1>3 DEF FirstStep, HandPCs, Events, EventKinds
<1>5. q \in Hands /\ HandFits(q) /\ MadeOnly(q.refunds)
  <2>1. q \in Hands
    BY <1>1, <1>3, <1>4 DEF Hands, Events
  <2>2. HandFits(q)
    BY <1>1, <1>3 DEF HandFits, FirstStep, Events, EventKinds
  <2>. QED  BY <1>1, <2>1, <2>2 DEF LedgerInv
<1>6. CountsComing'
  <2>1. \A g \in Handlers : WillCount(hand[g]) => hand'[g] = hand[g]
    BY <1>2, LedgerTyped DEF WillCount
  <2>. QED  BY <1>2, <2>1 DEF LedgerInv, CountsComing
<1>7. Repairing'
  BY <1>2 DEF Repairing
<1>8. /\ payment' \in Payments /\ stored' \in [Refunds -> RefundStatus] /\ MadeOnly(stored')
      /\ refundedInFull' \in BOOLEAN /\ ledgerErrors' \in Nat /\ quiet' \in BOOLEAN
  BY <1>2, LedgerTyped DEF LedgerInv
<1>. QED  BY <1>2, <1>5, <1>6, <1>7, <1>8, HandMoved

\* A sync begins; it is alone when nobody else is at work.
LEMMA SyncStarted ==
    ASSUME LedgerInv, NEW h \in Handlers, StartSync(h)
    PROVE  LedgerInv'
<1>1. PICK q : q = [NotHandling EXCEPT !.pc = "list"]
  OBVIOUS
<1>2. q \in Hands /\ q.pc = "list" /\ q.kind = "sync" /\ q.refunds = NoRefunds
      /\ HandFits(q)
  BY <1>1, LedgerTyped DEF Hands, HandPCs, HandFits
<1>3. /\ hand' = [hand EXCEPT ![h] = q] /\ hand[h].pc = "idle" /\ quiet' = AllIdle
      /\ payment' = [payment EXCEPT !.known = TRUE]
      /\ UNCHANGED <<provider, sent, stored, refundedInFull, replays, ledgerErrors>>
  BY <1>1 DEF StartSync
<1>4. payment' \in Payments /\ payment'.known /\ payment'.refunded = payment.refunded
  BY <1>3, LedgerTyped DEF Payments
<1>5. /\ hand'[h] = q /\ \A g \in Handlers \ {h} : hand'[g] = hand[g]
  BY <1>3, LedgerTyped
<1>6. CountsComing'
  <2>1. \A g \in Handlers : WillCount(hand[g]) => hand'[g] = hand[g]
    BY <1>3, <1>5 DEF WillCount
  <2>. QED  BY <1>3, <1>4, <2>1 DEF LedgerInv, CountsComing
<1>7. Repairing'
  <2>1. SUFFICES ASSUME AllIdle
                 PROVE  AloneSync(h)'
    BY <1>3 DEF Repairing
  <2>. QED  BY <1>2, <1>4, <1>5, <2>1 DEF AloneSync, AllIdle
<1>8. /\ stored' \in [Refunds -> RefundStatus] /\ MadeOnly(stored') /\ quiet' \in BOOLEAN
      /\ refundedInFull' \in BOOLEAN /\ ledgerErrors' \in Nat /\ replays' \in Nat
  BY <1>3, LedgerTyped DEF LedgerInv, AllIdle
<1>. QED  BY <1>2, <1>3, <1>4, <1>6, <1>7, <1>8, LedgerTyped, HandMoved

\* The provider's list of refunds, or none for a webhook.
LEMMA RefundsListed ==
    ASSUME LedgerInv, NEW h \in Handlers, NEW answered \in BOOLEAN, ListRefunds(h, answered)
    PROVE  LedgerInv'
<1>1. PICK q : q = [hand[h] EXCEPT !.pc = IF answered THEN "store" ELSE "apply",
                      !.refunds = IF answered THEN provider.refunds ELSE NoRefunds]
  OBVIOUS
<1>2. q \in Hands /\ q.kind = hand[h].kind /\ MadeOnly(q.refunds)
      /\ (answered => q.pc = "store" /\ q.refunds = provider.refunds)
      /\ HandFits(q)
  <2>1. q \in Hands /\ q.kind = hand[h].kind /\ MadeOnly(q.refunds)
        /\ (answered => q.pc = "store" /\ q.refunds = provider.refunds)
    BY <1>1, LedgerTyped DEF Hands, HandPCs, MadeOnly
  <2>2. HandFits(hand[h]) /\ hand[h].pc = "list"
    BY DEF LedgerInv, ListRefunds
  <2>. QED  BY <2>1, <2>2 DEF HandFits
<1>3. /\ hand[h].pc = "list" /\ (hand[h].kind = "sync" => answered)
      /\ UNCHANGED <<provider, sent, payment, stored, quiet, refundedInFull, replays, ledgerErrors>>
  BY DEF ListRefunds
<1>4. hand' = [hand EXCEPT ![h] = q]
  BY <1>1, LedgerTyped DEF ListRefunds
<1>5. /\ hand'[h] = q /\ \A g \in Handlers \ {h} : hand'[g] = hand[g]
  BY <1>2, <1>4, LedgerTyped
<1>6. CountsComing'
  <2>1. \A g \in Handlers : WillCount(hand[g]) => hand'[g] = hand[g]
    BY <1>3, <1>5 DEF WillCount
  <2>. QED  BY <1>3, <2>1 DEF LedgerInv, CountsComing
<1>7. Repairing'
  <2>1. SUFFICES ASSUME quiet
                 PROVE  \E g \in Handlers : AloneSync(g)'
    BY <1>3 DEF Repairing
  <2>2. AloneSync(h)
    BY <1>3, <2>1 DEF LedgerInv, Repairing, AllIdle, AloneSync
  <2>3. AloneSync(h)'
    BY <1>2, <1>3, <1>5, <2>2 DEF AloneSync
  <2>. QED  BY <2>3
<1>8. /\ payment' \in Payments /\ stored' \in [Refunds -> RefundStatus] /\ MadeOnly(stored')
      /\ quiet' \in BOOLEAN /\ refundedInFull' \in BOOLEAN /\ ledgerErrors' \in Nat
      /\ replays' \in Nat
  BY <1>3, LedgerTyped DEF LedgerInv
<1>. QED  BY <1>2, <1>3, <1>4, <1>6, <1>7, <1>8, HandMoved

\* They are stored, and will be counted.
LEMMA RefundsStored ==
    ASSUME LedgerInv, NEW h \in Handlers, StoreRefunds(h)
    PROVE  LedgerInv'
<1>1. PICK q : q = [hand[h] EXCEPT !.pc = "apply"]
  OBVIOUS
<1>2. /\ q \in Hands /\ q.kind = hand[h].kind /\ q.refunds = hand[h].refunds
      /\ q.pc = "apply" /\ MadeOnly(q.refunds) /\ HandFits(q)
  BY <1>1, LedgerTyped DEF Hands, HandPCs, LedgerInv, HandFits
<1>3. /\ hand[h].pc = "store" /\ hand' = [hand EXCEPT ![h] = q]
      /\ stored' = [f \in Refunds |-> IF hand[h].refunds[f] = "none"
                                    THEN stored[f] ELSE hand[h].refunds[f]]
      /\ UNCHANGED <<provider, sent, payment, quiet, refundedInFull, replays, ledgerErrors>>
  BY <1>1 DEF StoreRefunds, To
<1>4. /\ hand'[h] = q /\ \A g \in Handlers \ {h} : hand'[g] = hand[g]
  BY <1>2, <1>3, LedgerTyped
<1>5. stored' \in [Refunds -> RefundStatus] /\ MadeOnly(stored')
  BY <1>2, <1>3, LedgerTyped DEF MadeOnly, LedgerInv
<1>6. CountsComing'
  <2>1. HandFits(hand[h])
    BY DEF LedgerInv
  <2>2. WillCount(hand'[h])
    BY <1>2, <1>3, <1>4, <2>1 DEF HandFits, WillCount
  <2>. QED  BY <2>2 DEF CountsComing
<1>7. Repairing'
  <2>1. SUFFICES ASSUME quiet
                 PROVE  \E g \in Handlers : AloneSync(g)'
    BY <1>3 DEF Repairing
  <2>2. AloneSync(h)
    BY <1>3, <2>1 DEF LedgerInv, Repairing, AllIdle, AloneSync
  <2>3. stored' = provider.refunds
    <3>1. hand[h].refunds = provider.refunds
      BY <1>3, <2>2 DEF AloneSync
    <3>2. \A f \in Refunds : stored'[f] = provider.refunds[f]
      BY <1>3, <3>1 DEF LedgerInv, MadeOnly
    <3>. QED  BY <1>5, <3>2, LedgerTyped
  <2>4. AloneSync(h)'
    BY <1>2, <1>3, <1>4, <2>2, <2>3 DEF AloneSync
  <2>. QED  BY <2>4
<1>8. /\ payment' \in Payments /\ quiet' \in BOOLEAN /\ refundedInFull' \in BOOLEAN
      /\ ledgerErrors' \in Nat /\ replays' \in Nat /\ sent' \subseteq sent
  BY <1>3, LedgerTyped DEF LedgerInv
<1>. QED  BY <1>2, <1>3, <1>5, <1>6, <1>7, <1>8, HandMoved

\* The payment is updated, or first imported.
LEMMA EventApplied ==
    ASSUME LedgerInv, NEW h \in Handlers, ApplyEvent(h)
    PROVE  LedgerInv'
<1>1. PICK q : q = IF payment.known THEN NotHandling ELSE [hand[h] EXCEPT !.pc = "import"]
  OBVIOUS
<1>2. q \in Hands /\ MadeOnly(q.refunds) /\ HandFits(q)
  BY <1>1, LedgerTyped DEF Hands, HandPCs, LedgerInv, HandFits
<1>3. /\ hand[h].pc = "apply" /\ hand' = [hand EXCEPT ![h] = q]
      /\ payment' = IF payment.known THEN Applied(h) ELSE payment
      /\ UNCHANGED <<provider, sent, stored, quiet, replays, ledgerErrors>>
  BY <1>1 DEF ApplyEvent, Finished, To
<1>4. /\ hand'[h] = q /\ \A g \in Handlers \ {h} : hand'[g] = hand[g]
  BY <1>2, <1>3, LedgerTyped
<1>5. /\ payment' \in Payments /\ payment'.known = payment.known
      /\ payment.known /\ hand[h].kind = "dispute" => payment'.refunded = payment.refunded
      /\ payment.known /\ hand[h].kind \notin {"dispute", "invoice"} =>
           payment'.refunded >= Counted(stored)
      /\ payment.known /\ hand[h].kind = "sync" => payment'.refunded = Counted(stored)
      /\ payment.known /\ hand[h].kind = "invoice" => payment'.refunded = Counted(stored)
  <2>1. CASE payment.known
    <3>1. hand[h].kind = "invoice" => Applied(h) = [payment EXCEPT !.refunded = Recomputed]
      BY DEF Applied
    <3>2. hand[h].kind = "invoice" => Applied(h).refunded = Counted(stored)
      BY <3>1, UpdatesTyped, LedgerTyped DEF Payments
    <3>. QED  BY <1>3, <2>1, <3>2, UpdatesTyped
  <2>2. CASE ~payment.known
    BY <1>3, <2>2, LedgerTyped
  <2>. QED  BY <2>1, <2>2
<1>6. CountsComing'
  <2>1. SUFFICES ASSUME ledgerErrors = 0
                 PROVE  \/ payment'.refunded >= Counted(stored)
                        \/ \E g \in Handlers : WillCount(hand'[g])
    BY <1>3 DEF CountsComing
  <2>2. Counted(stored) \in Nat /\ Counted(stored) >= Counted(stored)
    BY CountedBound
  <2>3. CASE payment.known /\ hand[h].kind # "dispute"
    BY <1>5, <2>2, <2>3
  <2>4. CASE payment.known /\ hand[h].kind = "dispute"
    <3>1. \A g \in Handlers : WillCount(hand[g]) => hand'[g] = hand[g]
      BY <1>3, <1>4, <2>4 DEF WillCount
    <3>. QED  BY <1>5, <2>1, <2>4, <3>1 DEF LedgerInv, CountsComing
  <2>5. CASE ~payment.known
    <3>1. payment' = payment
      BY <1>3, <2>5
    <3>2. \A g \in Handlers : WillCount(hand[g]) => WillCount(hand'[g])
      BY <1>1, <1>4, <2>5, LedgerTyped DEF WillCount, Hands
    <3>. QED  BY <2>1, <3>1, <3>2 DEF LedgerInv, CountsComing
  <2>. QED  BY <2>3, <2>4, <2>5
<1>7. Repairing'
  <2>1. SUFFICES ASSUME quiet
                 PROVE  AllIdle' /\ payment'.refunded = Counted(provider.refunds)
    BY <1>3 DEF Repairing
  <2>2. AloneSync(h)
    BY <1>3, <2>1 DEF LedgerInv, Repairing, AllIdle, AloneSync
  <2>3. payment.known /\ stored = provider.refunds /\ hand[h].kind = "sync"
    BY <1>3, <2>2 DEF AloneSync
  <2>4. AllIdle'
    BY <1>1, <1>4, <2>2, <2>3, LedgerTyped DEF AloneSync, AllIdle
  <2>. QED  BY <1>5, <2>3, <2>4
<1>8. refundedInFull' \in BOOLEAN
  <2>1. CASE payment.known
    BY <2>1, LedgerTyped DEF ApplyEvent
  <2>2. CASE ~payment.known
    BY <2>2, LedgerTyped DEF ApplyEvent
  <2>. QED  BY <2>1, <2>2
<1>9. /\ stored' \in [Refunds -> RefundStatus] /\ MadeOnly(stored') /\ quiet' \in BOOLEAN
      /\ ledgerErrors' \in Nat /\ replays' \in Nat /\ sent' \subseteq sent
  BY <1>3, LedgerTyped DEF LedgerInv
<1>. QED  BY <1>2, <1>3, <1>5, <1>6, <1>7, <1>8, <1>9, HandMoved

\* The invoice is recorded; an event that had no row is applied next.
LEMMA InvoiceImported ==
    ASSUME LedgerInv, NEW h \in Handlers, ImportInvoice(h)
    PROVE  LedgerInv'
<1>1. PICK q : q = IF hand[h].kind = "invoice" THEN NotHandling
                   ELSE [hand[h] EXCEPT !.pc = "apply"]
  OBVIOUS
<1>2. q \in Hands /\ MadeOnly(q.refunds) /\ HandFits(q)
  BY <1>1, LedgerTyped DEF Hands, HandPCs, LedgerInv, HandFits
<1>3. /\ hand[h].pc = "import" /\ hand' = [hand EXCEPT ![h] = q]
      /\ payment' = [payment EXCEPT !.known = TRUE]
      /\ UNCHANGED <<provider, sent, stored, quiet, refundedInFull, replays, ledgerErrors>>
  BY <1>1 DEF ImportInvoice, AfterImport, Finished, To
<1>4. /\ hand'[h] = q /\ \A g \in Handlers \ {h} : hand'[g] = hand[g]
  BY <1>2, <1>3, LedgerTyped
<1>5. payment' \in Payments /\ payment'.refunded = payment.refunded
  BY <1>3, LedgerTyped DEF Payments
<1>6. CountsComing'
  <2>1. \A g \in Handlers : WillCount(hand[g]) => WillCount(hand'[g])
    BY <1>1, <1>4, LedgerTyped DEF WillCount, Hands
  <2>. QED  BY <1>3, <1>5, <2>1 DEF LedgerInv, CountsComing
<1>7. Repairing'
  <2>1. SUFFICES ASSUME quiet
                 PROVE  FALSE
    BY <1>3 DEF Repairing
  <2>2. AloneSync(h)
    BY <1>3, <2>1 DEF LedgerInv, Repairing, AllIdle, AloneSync
  <2>. QED  BY <1>3, <2>2 DEF AloneSync
<1>8. /\ stored' \in [Refunds -> RefundStatus] /\ MadeOnly(stored') /\ quiet' \in BOOLEAN
      /\ ledgerErrors' \in Nat /\ replays' \in Nat /\ sent' \subseteq sent
      /\ refundedInFull' \in BOOLEAN
  BY <1>3, LedgerTyped DEF LedgerInv
<1>. QED  BY <1>2, <1>3, <1>5, <1>6, <1>7, <1>8, HandMoved

\* A handler fails and its event is sent again.
LEMMA HandlerFailed ==
    ASSUME LedgerInv, NEW h \in Handlers, FailHandler(h)
    PROVE  LedgerInv'
<1>1. /\ ledgerErrors' = ledgerErrors + 1 /\ sent' = sent \cup SentAgain(h)
      /\ quiet' = FALSE /\ hand' = [hand EXCEPT ![h] = NotHandling]
      /\ UNCHANGED <<provider, payment, stored, refundedInFull, replays>>
  BY DEF FailHandler, Finished
<1>2. \A e \in SentAgain(h) : e \in Events /\ MadeOnly(e.refunds)
  <2>1. PICK r \in {NoRefunds, hand[h].refunds} :
          r = IF hand[h].kind = "refund" THEN hand[h].refunds ELSE NoRefunds
    OBVIOUS
  <2>2. MadeOnly(r) /\ r \in [Refunds -> RefundStatus]
    BY LedgerTyped DEF LedgerInv
  <2>3. \A e \in SentAgain(h) : /\ hand[h].kind \in EventKinds
            /\ e = [kind |-> hand[h].kind, refunds |-> r, says |-> hand[h].says,
                    dispute |-> hand[h].dispute]
    BY <2>1, LedgerTyped DEF SentAgain, LedgerEvent, Hands
  <2>. QED  BY <2>2, <2>3, LedgerTyped DEF Events, Hands
<1>3. /\ hand' \in [Handlers -> Hands]
      /\ \A g \in Handlers : HandFits(hand'[g])
      /\ \A g \in Handlers : MadeOnly(hand'[g].refunds)
  BY <1>1, LedgerTyped DEF LedgerInv, HandFits
<1>4. LedgerTypeOK'
  <2>1. sent' = sent \cup SentAgain(h) /\ sent \subseteq Events
    BY <1>1, LedgerTyped
  <2>2. sent' \subseteq Events
    BY <1>2, <2>1
  <2>3. ledgerErrors' \in Nat /\ quiet' \in BOOLEAN
    <3>1. ledgerErrors \in Nat /\ ledgerErrors' = ledgerErrors + 1
      BY <1>1, LedgerTyped
    <3>2. quiet' \in BOOLEAN
      BY <1>1
    <3>3. ledgerErrors' \in Nat
      BY <3>1
    <3>. QED  BY <3>2, <3>3
  <2>. QED  BY <1>1, <1>3, <2>2, <2>3, LedgerTyped DEF LedgerTypeOK
<1>5. CountsComing' /\ Repairing'
  BY <1>1, LedgerTyped DEF CountsComing, Repairing
<1>. QED  BY <1>1, <1>2, <1>3, <1>4, <1>5 DEF LedgerInv, MadeOnly, HandFits

\* At the provider a refund is made or fails, a dispute opens or is won.
LEMMA ProviderMoved ==
    ASSUME LedgerInv, \/ \E f \in Refunds, s \in {"counts", "failed"} : RefundTurns(f, s)
                      \/ \E s \in {"open", "won"} : DisputeTurns(s)
    PROVE  LedgerInv'
<1>1. ASSUME NEW f \in Refunds, NEW s \in {"counts", "failed"}, RefundTurns(f, s)
      PROVE  LedgerInv'
  <2>1. PICK refunds : refunds = [provider.refunds EXCEPT ![f] = s]
    OBVIOUS
  <2>2. PICK one : one = [NoRefunds EXCEPT ![f] = s]
    OBVIOUS
  <2>3. /\ refunds \in [Refunds -> RefundStatus] /\ one \in [Refunds -> RefundStatus]
        /\ refunds[f] = s /\ \A g \in Refunds \ {f} : refunds[g] = provider.refunds[g]
        /\ \A g \in Refunds : one[g] # "none" => g = f
    BY <1>1, <2>1, <2>2, LedgerTyped DEF RefundStatus, NoRefunds
  <2>4. /\ provider' = [provider EXCEPT !.refunds = refunds] /\ quiet' = FALSE
        /\ UNCHANGED <<payment, stored, hand, refundedInFull, replays, ledgerErrors>>
        /\ \A e \in sent' : \/ e \in sent
                            \/ e = LedgerEvent("refund", one, 0, "none")
                            \/ e = LedgerEvent("charge", NoRefunds, Counted(refunds), "none")
    BY <1>1, <2>1, <2>2 DEF RefundTurns
  <2>5. /\ provider' \in [refunds : [Refunds -> RefundStatus], dispute : Disputes]
        /\ provider'.refunds = refunds
    BY <2>3, <2>4, LedgerTyped
  <2>6. \A r : MadeOnly(r) => MadeOnly(r)'
    <3>1. s # "none"
      BY <1>1
    <3>. QED  BY <2>3, <2>5, <3>1 DEF MadeOnly
  <2>7. \A e \in sent' : e \in Events /\ MadeOnly(e.refunds)'
    <3>1. LedgerEvent("refund", one, 0, "none") \in Events
          /\ MadeOnly(LedgerEvent("refund", one, 0, "none").refunds)'
      <4>1. s # "none"
        BY <1>1
      <4>. QED  BY <2>3, <2>5, <4>1 DEF LedgerEvent, Events, EventKinds, Disputes, MadeOnly
    <3>2. LedgerEvent("charge", NoRefunds, Counted(refunds), "none") \in Events
      BY CountedBound, LedgerTyped DEF LedgerEvent, Events, EventKinds, Disputes
    <3>3. MadeOnly(LedgerEvent("charge", NoRefunds, Counted(refunds), "none").refunds)'
      BY <2>6, LedgerTyped DEF LedgerEvent, MadeOnly, NoRefunds
    <3>4. \A e \in sent : e \in Events /\ MadeOnly(e.refunds)'
      BY <2>6, LedgerTyped DEF LedgerInv
    <3>. QED  BY <2>4, <3>1, <3>2, <3>3, <3>4
  <2>8. LedgerTypeOK'
    BY <2>4, <2>5, <2>7, LedgerTyped DEF LedgerInv, LedgerTypeOK
  <2>9. CountsComing' /\ Repairing'
    BY <2>4 DEF LedgerInv, CountsComing, Repairing, Counted, WillCount
  <2>10. (\A h \in Handlers : HandFits(hand'[h]) /\ MadeOnly(hand[h].refunds)')
         /\ MadeOnly(stored)'
    BY <2>4, <2>6 DEF LedgerInv, HandFits, MadeOnly
  <2>. QED  BY <2>4, <2>7, <2>8, <2>9, <2>10 DEF LedgerInv, HandFits
<1>2. ASSUME NEW s \in {"open", "won"}, DisputeTurns(s)
      PROVE  LedgerInv'
  <2>1. /\ provider' = [provider EXCEPT !.dispute = s]
        /\ sent' = sent \cup {LedgerEvent("dispute", NoRefunds, 0, s)}
        /\ UNCHANGED <<payment, stored, hand, quiet, refundedInFull, replays, ledgerErrors>>
    BY <1>2 DEF DisputeTurns
  <2>2. /\ provider' \in [refunds : [Refunds -> RefundStatus], dispute : Disputes]
        /\ provider'.refunds = provider.refunds
    BY <1>2, <2>1, LedgerTyped DEF Disputes
  <2>3. LedgerEvent("dispute", NoRefunds, 0, s) \in Events
        /\ LedgerEvent("dispute", NoRefunds, 0, s).refunds = NoRefunds
    BY <1>2, LedgerTyped DEF LedgerEvent, Events, EventKinds, Disputes
  <2>4. LedgerTypeOK'
    BY <2>1, <2>2, <2>3, LedgerTyped DEF LedgerInv, LedgerTypeOK
  <2>5. CountsComing' /\ Repairing'
    BY <2>1, <2>2 DEF LedgerInv, CountsComing, Repairing, AloneSync, AllIdle
  <2>6. \A r : MadeOnly(r)' <=> MadeOnly(r)
    BY <2>2 DEF MadeOnly
  <2>7. (\A e \in sent' : MadeOnly(e.refunds)) /\ (\A h \in Handlers : HandFits(hand'[h]))
        /\ (\A h \in Handlers : MadeOnly(hand'[h].refunds)) /\ MadeOnly(stored')
    BY <2>1, <2>3, LedgerTyped DEF LedgerInv
  <2>. QED  BY <2>2, <2>4, <2>5, <2>7 DEF LedgerInv, HandFits, MadeOnly
<1>. QED  BY <1>1, <1>2

\* At the start the ledger knows nothing.
LEMMA LedgerInvInit ==
    ASSUME LedgerInit
    PROVE  LedgerInv
<1>1. NoRefunds \in [Refunds -> RefundStatus] /\ \A f \in Refunds : NoRefunds[f] = "none"
  BY DEF NoRefunds, RefundStatus
<1>2. MadeOnly(NoRefunds)
  BY <1>1 DEF MadeOnly
<1>3. NotHandling \in Hands /\ NotHandling.refunds = NoRefunds /\ HandFits(NotHandling)
  BY <1>1 DEF NotHandling, Hands, HandPCs, EventKinds, Disputes, HandFits
<1>4. LedgerEvent("invoice", NoRefunds, 0, "none") \in Events
      /\ LedgerEvent("invoice", NoRefunds, 0, "none").refunds = NoRefunds
  BY <1>1 DEF LedgerEvent, Events, EventKinds, Disputes
<1>5. LedgerTypeOK
  BY <1>1, <1>3, <1>4 DEF LedgerInit, LedgerTypeOK, Disputes, Payments
<1>6. Counted(stored) = 0
  <2>1. {f \in Refunds : stored[f] = "counts"} = {}
    BY <1>1 DEF LedgerInit
  <2>. QED  BY <2>1, FS_EmptySet DEF Counted
<1>7. CountsComing /\ Repairing
  BY <1>6 DEF LedgerInit, CountsComing, Repairing
<1>. QED  BY <1>2, <1>3, <1>4, <1>5, <1>7 DEF LedgerInit, LedgerInv

\* Every step keeps what the ledger rests on.
LEMMA LedgerInvStep ==
    ASSUME LedgerInv, [LedgerNext]_ledgerVars
    PROVE  LedgerInv'
<1>1. CASE UNCHANGED ledgerVars
  <2>1. UNCHANGED <<provider, sent, payment, stored, hand, quiet, refundedInFull, replays,
                    ledgerErrors>>
    BY <1>1 DEF ledgerVars
  <2>2. LedgerTypeOK' /\ CountsComing'
    BY <2>1 DEF LedgerInv, LedgerTypeOK, CountsComing, WillCount, Counted
  <2>3. Repairing'
    BY <2>1 DEF LedgerInv, Repairing, AllIdle, AloneSync, Counted
  <2>4. (\A e \in sent : MadeOnly(e.refunds))'
        /\ (\A h \in Handlers : HandFits(hand[h]) /\ MadeOnly(hand[h].refunds))'
        /\ MadeOnly(stored)'
    BY <2>1 DEF LedgerInv, HandFits, MadeOnly
  <2>. QED  BY <2>2, <2>3, <2>4 DEF LedgerInv
<1>2. ASSUME NEW h \in Handlers, HandlerStep(h)
      PROVE  LedgerInv'
  BY <1>2, EventReceived, SyncStarted, RefundsListed, RefundsStored, EventApplied,
     InvoiceImported, HandlerFailed DEF HandlerStep
<1>. QED  BY <1>1, <1>2, ProviderMoved DEF LedgerNext

\* The type invariant of the ledger.
THEOREM LedgerTypes == LedgerSpec => []LedgerTypeOK
BY LedgerInvInit, LedgerInvStep, PTL DEF LedgerSpec, LedgerInv

\* Whatever the order of the provider's events, no stored refund is missing
\* from its payment for good, and a sync that nothing disturbs repairs it
\* (upsert_refund, sync_from_provider).
THEOREM RefundsAreKept == LedgerSpec => []RefundsKept
<1>1. LedgerInv => RefundsKept
  <2>. SUFFICES ASSUME LedgerInv
                PROVE  RefundsKept
    OBVIOUS
  <2>1. RefundsNotForgotten
    BY DEF LedgerInv, CountsComing, RefundsNotForgotten, AllIdle, WillCount
  <2>2. SyncRepairs
    BY DEF LedgerInv, Repairing, SyncRepairs, AllIdle, AloneSync
  <2>. QED  BY <2>1, <2>2 DEF RefundsKept
<1>. QED  BY LedgerInvInit, LedgerInvStep, <1>1, PTL DEF LedgerSpec

-----------------------------------------------------------------------------
(* The checkout pages. *)

LockPCs == {"expire", "create", "commit"}
CustomerPCs == {"live", "clear", "lock"} \cup LockPCs

\* What a request knows where it is; a customer it is about to forget is gone.
TabFits(q) ==
    /\ q.pc # "idle" => q.price \in Prices
    /\ q.pc \in CustomerPCs => q.customer \in Generations
    /\ q.pc = "clear" => customers[q.customer] = "gone"

\* The rows of checkout pages.
Asked == {k \in Keys : sessions[k] # "none"}

\* Attempts are numbered on; an address that was handed out has a row, at
\* most one row is open, and a closed one cannot be paid any more.
RowsInv ==
    owner.exists =>
       /\ \A k \in Asked : k[1] < Attempts /\ pages[k].is # "none"
       /\ handed \subseteq Asked
       /\ \A k \in Keys : sessions[k] = "closed" => pages[k].is # "open"
       /\ \A j, k \in OpenRows : j = k

\* What the holder of the lock has read is still so.
HolderKnows(t) ==
    /\ OpenRows \subseteq tab[t].open /\ tab[t].open \subseteq Asked
    /\ Attempts <= MaxPages
    /\ tab[t].pc \in {"create", "commit"} => \A k \in tab[t].open : pages[k].is # "open"
    /\ tab[t].pc = "commit" => pages[KeyOf(t)].is # "none"

LockInv ==
    /\ \A t \in Tabs : tab[t].pc \in LockPCs <=> t \in checkoutLock
    /\ \A t, u \in checkoutLock : t = u
    /\ owner.exists => \A t \in checkoutLock : HolderKnows(t)

CheckoutInv ==
    /\ CheckoutTypeOK /\ RowsInv /\ LockInv /\ ForgottenOrQueued
    /\ \A t \in Tabs : TabFits(tab[t])

\* What the variables of the checkout are.
LEMMA CheckoutTyped ==
    ASSUME CheckoutInv
    PROVE  /\ owner \in [exists : BOOLEAN, customer : CustomerIds,
                         generation : Generations, paid : SUBSET Keys]
           /\ owner.exists \in BOOLEAN /\ owner.customer \in CustomerIds
           /\ owner.generation \in Generations /\ owner.paid \subseteq Keys
           /\ customers \in [Generations -> {"none", "live", "gone"}]
           /\ pages \in [Keys -> [is : PageStates, of : CustomerIds]]
           /\ \A k \in Keys : pages[k] \in [is : PageStates, of : CustomerIds]
           /\ sessions \in [Keys -> {"none", "open", "closed"}]
           /\ handed \subseteq Keys /\ tab \in [Tabs -> TabRecords]
           /\ \A t \in Tabs : tab[t] \in TabRecords /\ TabFits(tab[t])
           /\ checkoutLock \subseteq Tabs
           /\ leaving \in [pc : {"no", "read", "delete", "forget", "gone"},
                           customer : CustomerIds]
           /\ leaving.customer \in CustomerIds
           /\ cleanup \subseteq Generations /\ checkoutErrors \in Nat
           /\ Generations \subseteq CustomerIds /\ NoCustomer \in CustomerIds
           /\ NoCustomer \notin Generations
           /\ \A c \in CustomerIds : c # NoCustomer => c \in Generations
           /\ Rest \in TabRecords /\ Rest.pc = "idle" /\ TabFits(Rest)
           /\ MaxPages \in Nat /\ MaxGeneration \in Nat
<1>1. /\ Generations \subseteq CustomerIds /\ NoCustomer \in CustomerIds
      /\ NoCustomer \notin Generations /\ 0 \in Generations
      /\ \A c \in CustomerIds : c # NoCustomer => c \in Generations
  BY CheckoutConstants DEF Generations, CustomerIds, NoCustomer
<1>2. Rest \in TabRecords /\ Rest.pc = "idle"
  BY <1>1 DEF Rest, TabRecords, TabPCs
<1>3. TabFits(Rest)
  BY <1>2 DEF TabFits, CustomerPCs, LockPCs
<1>4. checkoutLock \subseteq Tabs
  BY DEF CheckoutInv, CheckoutTypeOK
<1>. QED  BY <1>1, <1>2, <1>3, <1>4, CheckoutConstants DEF CheckoutInv, CheckoutTypeOK

\* The attempts are finitely many.
LEMMA AttemptsFinite ==
    /\ Attempts = Cardinality(Asked) /\ IsFiniteSet(Asked) /\ Attempts \in Nat
    /\ Attempts' = Cardinality(Asked') /\ IsFiniteSet(Asked') /\ Attempts' \in Nat
<1>1. IsFiniteSet(Keys)
  <2>1. IsFiniteSet(0 .. MaxPages)
    BY CheckoutConstants, FS_Interval
  <2>. QED  BY <2>1, CheckoutConstants, FS_Product DEF Keys
<1>2. Asked \subseteq Keys /\ Asked' \subseteq Keys
  BY DEF Asked
<1>3. IsFiniteSet(Asked) /\ IsFiniteSet(Asked')
  BY <1>1, <1>2, FS_Subset
<1>4. Cardinality(Asked) \in Nat /\ Cardinality(Asked') \in Nat
  BY <1>3, FS_CardinalityType
<1>. QED  BY <1>3, <1>4 DEF Attempts, Asked

\* The key of a request's page is of the next attempt, which has no row yet.
LEMMA KeyIsNew ==
    ASSUME CheckoutInv, NEW t \in checkoutLock, owner.exists
    PROVE  /\ KeyOf(t) \in Keys /\ KeyOf(t) \notin Asked /\ sessions[KeyOf(t)] = "none"
           /\ KeyOf(t)[1] = Attempts
<1>1. /\ tab[t].pc \in LockPCs /\ HolderKnows(t) /\ t \in Tabs /\ TabFits(tab[t])
  BY CheckoutTyped DEF CheckoutInv, LockInv
<1>2. tab[t].price \in Prices /\ Attempts \in 0 .. MaxPages
  BY <1>1, AttemptsFinite, CheckoutTyped DEF TabFits, LockPCs, HolderKnows
<1>3. KeyOf(t) = <<Attempts, tab[t].price>>
  BY DEF KeyOf
<1>4. KeyOf(t) \in Keys /\ KeyOf(t)[1] = Attempts
  BY <1>2, <1>3 DEF Keys
<1>5. KeyOf(t) \notin Asked
  BY <1>4, AttemptsFinite DEF CheckoutInv, RowsInv
<1>. QED  BY <1>4, <1>5 DEF Asked

\* Nobody else is past the lock.
LEMMA LockAlone ==
    ASSUME CheckoutInv, NEW t \in Tabs, tab[t].pc \in LockPCs
    PROVE  checkoutLock = {t}
BY DEF CheckoutInv, LockInv

\* A request moves on outside the lock: only what it holds itself changes,
\* and the customer at the provider or in the row.
LEMMA TabMoved ==
    ASSUME CheckoutInv, NEW t \in Tabs, NEW q \in TabRecords, tab[t].pc \notin LockPCs,
           q.pc \notin LockPCs, TabFits(q)', tab' = [tab EXCEPT ![t] = q],
           customers' \in [Generations -> {"none", "live", "gone"}],
           \A g \in Generations : customers[g] = "gone" => customers'[g] = "gone",
           owner' \in [exists : BOOLEAN, customer : CustomerIds,
                       generation : Generations, paid : SUBSET Keys],
           owner'.exists = owner.exists, checkoutErrors' \in Nat,
           UNCHANGED <<pages, sessions, handed, checkoutLock, leaving, cleanup>>
    PROVE  CheckoutInv'
<1>1. /\ tab' \in [Tabs -> TabRecords] /\ tab'[t] = q
      /\ \A u \in Tabs \ {t} : tab'[u] = tab[u]
  BY CheckoutTyped
<1>2. t \notin checkoutLock
  BY DEF CheckoutInv, LockInv
<1>3. checkoutLock' \subseteq {u \in Tabs : tab'[u].pc \in {"expire", "create", "commit"}}
  BY <1>1, <1>2 DEF CheckoutInv, CheckoutTypeOK
<1>4. CheckoutTypeOK'
  BY <1>1, <1>3, CheckoutTyped DEF CheckoutTypeOK
<1>5. RowsInv'
  BY DEF CheckoutInv, RowsInv, Asked, OpenRows, Attempts
<1>6. LockInv'
  <2>1. \A u \in Tabs : tab'[u].pc \in LockPCs <=> u \in checkoutLock'
    BY <1>1, <1>2 DEF CheckoutInv, LockInv
  <2>2. \A u \in checkoutLock : HolderKnows(u) => HolderKnows(u)'
    BY <1>1, <1>2, CheckoutTyped DEF HolderKnows, KeyOf, Attempts, Asked, OpenRows
  <2>. QED  BY <2>1, <2>2 DEF CheckoutInv, LockInv
<1>7. \A u \in Tabs : TabFits(tab[u])'
  <2>1. ASSUME NEW u \in Tabs, u # t
        PROVE  TabFits(tab[u])'
    <3>1. tab'[u] = tab[u] /\ tab[u] \in TabRecords /\ TabFits(tab[u])
      BY <1>1, <2>1, CheckoutTyped
    <3>. QED  BY <3>1 DEF TabFits, CustomerPCs
  <2>. QED  BY <1>1, <2>1 DEF TabFits
<1>8. ForgottenOrQueued'
  BY CheckoutTyped DEF CheckoutInv, ForgottenOrQueued
<1>. QED  BY <1>4, <1>5, <1>6, <1>7, <1>8 DEF CheckoutInv

\* What the buyer, the provider and the account's deletion do: no page opens,
\* and no row but one that cannot be paid any more closes.
LEMMA OutsideMoved ==
    ASSUME CheckoutInv,
           pages' \in [Keys -> [is : PageStates, of : CustomerIds]],
           \A k \in Keys : /\ pages'[k].is = "open" => pages[k].is = "open"
                           /\ pages'[k].is = "none" => pages[k].is = "none",
           sessions' \in [Keys -> {"none", "open", "closed"}],
           owner'.exists => \A k \in Keys :
              \/ sessions'[k] = sessions[k]
              \/ sessions[k] = "open" /\ sessions'[k] = "closed" /\ pages'[k].is # "open",
           customers' \in [Generations -> {"none", "live", "gone"}],
           \A g \in Generations : customers[g] = "gone" => customers'[g] = "gone",
           owner' \in [exists : BOOLEAN, customer : CustomerIds,
                       generation : Generations, paid : SUBSET Keys],
           owner'.exists => owner.exists, checkoutErrors' \in Nat,
           leaving' \in [pc : {"no", "read", "delete", "forget", "gone"},
                         customer : CustomerIds],
           cleanup' \subseteq Generations, ForgottenOrQueued',
           UNCHANGED <<handed, tab, checkoutLock>>
    PROVE  CheckoutInv'
<1>1. CheckoutTypeOK'
  BY CheckoutTyped DEF CheckoutInv, CheckoutTypeOK
<1>2. ASSUME owner'.exists
      PROVE  /\ Asked' = Asked /\ Attempts' = Attempts /\ OpenRows' \subseteq OpenRows
  <2>1. Asked' = Asked /\ OpenRows' \subseteq OpenRows
    BY <1>2 DEF Asked, OpenRows
  <2>. QED  BY <2>1, AttemptsFinite
<1>3. RowsInv'
  <2>1. SUFFICES ASSUME owner'.exists
                 PROVE  /\ \A k \in Asked : k[1] < Attempts /\ pages'[k].is # "none"
                        /\ handed \subseteq Asked
                        /\ \A k \in Keys : sessions'[k] = "closed" => pages'[k].is # "open"
                        /\ \A j, k \in OpenRows : j = k
    BY <1>2 DEF RowsInv
  <2>2. Asked \subseteq Keys /\ owner.exists
    BY <2>1 DEF Asked
  <2>. QED  BY <2>1, <2>2 DEF CheckoutInv, RowsInv
<1>4. LockInv'
  <2>1. ASSUME owner'.exists, NEW t \in checkoutLock
        PROVE  HolderKnows(t)'
    <3>1. HolderKnows(t) /\ owner.exists /\ KeyOf(t) \in Keys
      BY <2>1, KeyIsNew DEF CheckoutInv, LockInv
    <3>2. KeyOf(t)' = KeyOf(t)
      BY <1>2, <2>1 DEF KeyOf
    <3>3. Asked \subseteq Keys
      BY DEF Asked
    <3>. QED  BY <1>2, <2>1, <3>1, <3>2, <3>3 DEF HolderKnows
  <2>. QED  BY <2>1 DEF CheckoutInv, LockInv
<1>5. \A t \in Tabs : TabFits(tab[t])'
  BY CheckoutTyped DEF TabFits, CustomerPCs
<1>. QED  BY <1>1, <1>3, <1>4, <1>5 DEF CheckoutInv

\* The holder of the lock moves on, or out.
LEMMA HolderMoved ==
    ASSUME CheckoutInv, NEW t \in Tabs, NEW q \in TabRecords, TabFits(q),
           tab' = [tab EXCEPT ![t] = q],
           \/ q.pc \in LockPCs /\ checkoutLock' = {t}
           \/ q.pc \notin LockPCs /\ checkoutLock' = {},
           \A u \in Tabs \ {t} : tab[u].pc \notin LockPCs,
           pages' \in [Keys -> [is : PageStates, of : CustomerIds]],
           sessions' \in [Keys -> {"none", "open", "closed"}], handed' \subseteq Keys,
           checkoutErrors' \in Nat, UNCHANGED <<owner, customers, leaving, cleanup>>,
           RowsInv', owner.exists /\ q.pc \in LockPCs => HolderKnows(t)'
    PROVE  CheckoutInv'
<1>1. /\ tab' \in [Tabs -> TabRecords] /\ tab'[t] = q
      /\ \A u \in Tabs \ {t} : tab'[u] = tab[u]
  BY CheckoutTyped
<1>2. LockInv'
  <2>1. \A u \in Tabs : tab'[u].pc \in LockPCs <=> u \in checkoutLock'
    <3>1. q.pc \in LockPCs <=> t \in checkoutLock'
      OBVIOUS
    <3>2. \A u \in Tabs \ {t} : tab'[u].pc \notin LockPCs /\ u \notin checkoutLock'
      BY <1>1
    <3>. QED  BY <1>1, <3>1, <3>2
  <2>2. \A u, v \in checkoutLock' : u = v
    OBVIOUS
  <2>3. owner'.exists => \A u \in checkoutLock' : HolderKnows(u)'
    OBVIOUS
  <2>. QED  BY <2>1, <2>2, <2>3 DEF LockInv
<1>3. checkoutLock' \subseteq {u \in Tabs : tab'[u].pc \in {"expire", "create", "commit"}}
  BY <1>1 DEF LockPCs
<1>4. CheckoutTypeOK'
  BY <1>1, <1>3, CheckoutTyped DEF CheckoutTypeOK
<1>5. \A u \in Tabs : TabFits(tab[u])'
  BY <1>1, CheckoutTyped DEF TabFits
<1>6. ForgottenOrQueued'
  BY DEF CheckoutInv, ForgottenOrQueued
<1>. QED  BY <1>2, <1>4, <1>5, <1>6 DEF CheckoutInv

\* Who is past the lock is alone there, and knows what it has read.
LEMMA AtTheLock ==
    ASSUME CheckoutInv, NEW t \in Tabs, tab[t].pc \in LockPCs
    PROVE  /\ checkoutLock = {t} /\ checkoutLock \ {t} = {} /\ t \in checkoutLock
           /\ \A u \in Tabs \ {t} : tab[u].pc \notin LockPCs
           /\ owner.exists => HolderKnows(t)
           /\ tab[t].price \in Prices /\ tab[t].customer \in Generations
           /\ tab[t].open \subseteq Keys
<1>1. checkoutLock = {t}
  BY LockAlone
<1>2. \A u \in Tabs \ {t} : tab[u].pc \notin LockPCs
  BY <1>1 DEF CheckoutInv, LockInv
<1>3. owner.exists => HolderKnows(t)
  BY <1>1 DEF CheckoutInv, LockInv
<1>4. TabFits(tab[t]) /\ tab[t] \in TabRecords
  BY CheckoutTyped
<1>5. tab[t].price \in Prices /\ tab[t].customer \in Generations
  BY <1>4 DEF TabFits, CustomerPCs, LockPCs
<1>6. tab[t].open \subseteq Keys
  BY <1>4 DEF TabRecords
<1>. QED  BY <1>1, <1>2, <1>3, <1>5, <1>6

\* Taking the lock reads the open rows.
LEMMA LockCheckoutStep ==
    ASSUME CheckoutInv, NEW t \in Tabs, LockCheckout(t)
    PROVE  CheckoutInv'
<1>1. PICK q : q = [tab[t] EXCEPT !.open = OpenRows, !.pc = "expire"]
  OBVIOUS
<1>2. tab[t] \in TabRecords /\ TabFits(tab[t]) /\ tab[t].pc = "lock" /\ OpenRows \subseteq Keys
  BY CheckoutTyped DEF LockCheckout, At, OpenRows
<1>3. /\ q \in TabRecords /\ q.pc = "expire" /\ q.open = OpenRows
      /\ q.price = tab[t].price /\ q.customer = tab[t].customer
  BY <1>1, <1>2 DEF TabRecords, TabPCs
<1>4. TabFits(q)
  BY <1>2, <1>3 DEF TabFits, CustomerPCs, LockPCs
<1>5. tab' = [tab EXCEPT ![t] = q]
  BY <1>1, CheckoutTyped DEF LockCheckout, Earlier
<1>6. tab'[t] = q
  BY <1>5, CheckoutTyped
<1>7. \A u \in Tabs : tab[u].pc \notin LockPCs
  BY DEF LockCheckout, CheckoutInv, LockInv
<1>8. RowsInv'
  BY DEF LockCheckout, CheckoutInv, RowsInv, Asked, OpenRows, Attempts
<1>9. HolderKnows(t)'
  <2>1. /\ OpenRows' = OpenRows /\ Asked' = Asked /\ Attempts' = Attempts
        /\ Attempts <= MaxPages
    BY DEF LockCheckout, OpenRows, Asked, Attempts
  <2>2. OpenRows \subseteq Asked
    BY DEF OpenRows, Asked
  <2>. QED  BY <1>3, <1>6, <2>1, <2>2 DEF HolderKnows
<1>10. /\ q.pc \in LockPCs /\ checkoutLock' = {t}
       /\ UNCHANGED <<owner, customers, leaving, cleanup, pages, sessions, handed,
                      checkoutErrors>>
  BY <1>3 DEF LockCheckout, LockPCs
<1>. QED  BY <1>3, <1>4, <1>5, <1>7, <1>8, <1>9, <1>10, CheckoutTyped, HolderMoved

\* The holder goes on to a later place, with what it has.
LEMMA TurnedTo ==
    ASSUME CheckoutInv, NEW t \in Tabs, NEW pc \in LockPCs, tab[t].pc \in LockPCs, Turn(t, pc)
    PROVE  \E q \in TabRecords :
              /\ TabFits(q) /\ tab' = [tab EXCEPT ![t] = q] /\ tab'[t] = q
              /\ q.pc = pc /\ q.open = tab[t].open /\ q.price = tab[t].price
<1>1. PICK q : q = [tab[t] EXCEPT !.pc = pc]
  OBVIOUS
<1>2. tab[t] \in TabRecords /\ TabFits(tab[t])
  BY CheckoutTyped
<1>3. /\ q \in TabRecords /\ q.pc = pc /\ q.open = tab[t].open
      /\ q.price = tab[t].price /\ q.customer = tab[t].customer
  BY <1>1, <1>2 DEF TabRecords, TabPCs, LockPCs
<1>4. TabFits(q)
  BY <1>2, <1>3 DEF TabFits, CustomerPCs, LockPCs
<1>5. tab' = [tab EXCEPT ![t] = q] /\ tab'[t] = q
  BY <1>1, CheckoutTyped DEF Turn
<1>. QED  BY <1>3, <1>4, <1>5

\* Expiring leaves none of the rows read open at the provider.
LEMMA ExpirePagesStep ==
    ASSUME CheckoutInv, NEW t \in Tabs, ExpirePages(t)
    PROVE  CheckoutInv'
<1>1. tab[t].pc \in LockPCs
  BY DEF ExpirePages, At, LockPCs
<1>2. PICK q \in TabRecords :
         /\ TabFits(q) /\ tab' = [tab EXCEPT ![t] = q] /\ tab'[t] = q
         /\ q.pc = "create" /\ q.open = tab[t].open /\ q.price = tab[t].price
  BY <1>1, TurnedTo DEF ExpirePages, LockPCs
<1>3. pages' \in [Keys -> [is : PageStates, of : CustomerIds]]
  <2>1. \A k \in Keys : [pages[k] EXCEPT !.is = "expired"] \in [is : PageStates, of : CustomerIds]
    BY CheckoutTyped DEF PageStates
  <2>. QED  BY <2>1, CheckoutTyped DEF ExpirePages
<1>4. \A k \in Keys : /\ pages'[k].is = "open" => pages[k].is = "open" /\ k \notin tab[t].open
                      /\ pages'[k].is = "none" => pages[k].is = "none"
  BY CheckoutTyped DEF ExpirePages
<1>5. /\ UNCHANGED <<owner, customers, sessions, handed, checkoutLock, leaving, cleanup,
                     checkoutErrors>>
      /\ Asked' = Asked /\ OpenRows' = OpenRows /\ Attempts' = Attempts /\ Asked \subseteq Keys
  BY DEF ExpirePages, Asked, OpenRows, Attempts
<1>6. RowsInv'
  BY <1>4, <1>5 DEF CheckoutInv, RowsInv
<1>7. owner.exists => HolderKnows(t)'
  BY <1>1, <1>2, <1>4, <1>5, AtTheLock DEF HolderKnows
<1>. QED  BY <1>1, <1>2, <1>3, <1>5, <1>6, <1>7, AtTheLock, CheckoutTyped, HolderMoved DEF LockPCs

\* The holder leaves, and the lock is free.
LEMMA HolderLeaves ==
    ASSUME CheckoutInv, NEW t \in Tabs, tab[t].pc \in LockPCs, Leave(t), Unlock(t),
           pages' \in [Keys -> [is : PageStates, of : CustomerIds]],
           sessions' \in [Keys -> {"none", "open", "closed"}], handed' \subseteq Keys,
           checkoutErrors' \in Nat, UNCHANGED <<owner, customers, leaving, cleanup>>,
           RowsInv'
    PROVE  CheckoutInv'
<1>1. /\ Rest \in TabRecords /\ Rest.pc \notin LockPCs /\ TabFits(Rest)
      /\ tab' = [tab EXCEPT ![t] = Rest]
  BY CheckoutTyped DEF Leave, LockPCs
<1>2. checkoutLock' = {} /\ \A u \in Tabs \ {t} : tab[u].pc \notin LockPCs
  BY AtTheLock DEF Unlock
<1>. QED  BY <1>1, <1>2, HolderMoved

\* The new page is of a key without a row: the pages of the rows stay.
LEMMA CreatePageStep ==
    ASSUME CheckoutInv, NEW t \in Tabs, CreatePage(t)
    PROVE  CheckoutInv'
<1>1. tab[t].pc = "create" /\ tab[t].pc \in LockPCs
  BY DEF CreatePage, At, LockPCs
<1>2. /\ UNCHANGED <<owner, customers, sessions, handed, leaving, cleanup, checkoutErrors>>
      /\ Asked' = Asked /\ OpenRows' = OpenRows /\ Attempts' = Attempts /\ Asked \subseteq Keys
  BY DEF CreatePage, Asked, OpenRows, Attempts
<1>3. CASE Leave(t) /\ Unlock(t) /\ UNCHANGED pages
  <2>1. RowsInv'
    BY <1>2, <1>3 DEF CheckoutInv, RowsInv
  <2>. QED  BY <1>1, <1>2, <1>3, <2>1, HolderLeaves, CheckoutTyped
<1>4. CASE /\ pages' = [pages EXCEPT ![KeyOf(t)] =
                          IF @.is = "none" THEN [is |-> "open", of |-> tab[t].customer] ELSE @]
           /\ Turn(t, "commit") /\ UNCHANGED checkoutLock
  <2>1. PICK q \in TabRecords :
           /\ TabFits(q) /\ tab' = [tab EXCEPT ![t] = q] /\ tab'[t] = q
           /\ q.pc = "commit" /\ q.open = tab[t].open /\ q.price = tab[t].price
    BY <1>1, <1>4, TurnedTo DEF LockPCs
  <2>2. [is |-> "open", of |-> tab[t].customer] \in [is : PageStates, of : CustomerIds]
    BY <1>1, AtTheLock, CheckoutTyped DEF PageStates
  <2>3. pages' \in [Keys -> [is : PageStates, of : CustomerIds]]
    BY <1>4, <2>2, CheckoutTyped
  <2>4. ASSUME owner.exists
        PROVE  /\ \A k \in Asked : pages'[k] = pages[k]
               /\ \A k \in Keys : pages[k].is # "none" => pages'[k] = pages[k]
               /\ \A k \in Keys : k # KeyOf(t) => pages'[k] = pages[k]
               /\ KeyOf(t) \in Keys /\ pages'[KeyOf(t)].is # "none"
               /\ KeyOf(t) \notin Asked /\ sessions[KeyOf(t)] = "none"
    <3>1. KeyOf(t) \in Keys /\ KeyOf(t) \notin Asked /\ sessions[KeyOf(t)] = "none"
      BY <2>4, <1>1, AtTheLock, KeyIsNew
    <3>2. pages'[KeyOf(t)].is # "none"
      BY <3>1, <1>4, CheckoutTyped
    <3>. QED  BY <1>4, <3>1, <3>2, <1>2, CheckoutTyped
  <2>5. RowsInv'
    BY <1>2, <2>4 DEF CheckoutInv, RowsInv
  <2>6. owner.exists => HolderKnows(t)'
    <3>1. SUFFICES ASSUME owner.exists
                   PROVE  HolderKnows(t)'
      OBVIOUS
    <3>2. HolderKnows(t)
      BY <3>1, <1>1, AtTheLock
    <3>3. KeyOf(t)' = KeyOf(t)
      BY <1>2, <2>1 DEF KeyOf
    <3>. QED  BY <1>1, <1>2, <2>1, <2>4, <3>1, <3>2, <3>3 DEF HolderKnows
  <2>. QED  BY <1>1, <1>2, <1>4, <2>1, <2>3, <2>5, <2>6, AtTheLock, CheckoutTyped, HolderMoved
            DEF LockPCs
<1>. QED  BY <1>3, <1>4 DEF CreatePage

\* The rows committed with the new page's are those of a single open page.
LEMMA RowsCommitted ==
    ASSUME CheckoutInv, NEW t \in Tabs, CommitPage(t), owner.exists
    PROVE  /\ RowsInv'
           /\ sessions' \in [Keys -> {"none", "open", "closed"}] /\ handed' \subseteq Keys
<1>1. tab[t].pc = "commit" /\ tab[t].pc \in LockPCs
  BY DEF CommitPage, At, LockPCs
<1>2. HolderKnows(t) /\ tab[t].open \subseteq Keys /\ tab[t].open \subseteq Asked
  BY <1>1, AtTheLock DEF HolderKnows
<1>3. PICK K \in Keys : K = KeyOf(t)
  BY <1>1, AtTheLock, KeyIsNew
<1>4. /\ K \notin Asked /\ sessions[K] = "none" /\ K[1] = Attempts /\ pages[K].is # "none"
  BY <1>1, <1>2, <1>3, AtTheLock, KeyIsNew DEF HolderKnows
<1>5. /\ sessions' = [k \in Keys |->
              IF k = K THEN "open" ELSE IF k \in tab[t].open THEN "closed" ELSE sessions[k]]
      /\ handed' = handed \cup {K} /\ UNCHANGED <<owner, pages>>
  BY <1>3 DEF CommitPage
<1>6. sessions' \in [Keys -> {"none", "open", "closed"}] /\ handed' \subseteq Keys
  BY <1>5, CheckoutTyped
<1>7. Asked' = Asked \cup {K}
  BY <1>2, <1>5, <1>6 DEF Asked
<1>8. Attempts' = Attempts + 1
  BY <1>4, <1>7, AttemptsFinite, FS_AddElement
<1>9. \A k \in Keys : sessions'[k] = "open" => k = K
  <2>1. SUFFICES ASSUME NEW k \in Keys, sessions'[k] = "open", k # K
                 PROVE  FALSE
    OBVIOUS
  <2>2. k \notin tab[t].open /\ sessions[k] = "open"
    BY <1>5, <2>1
  <2>. QED  BY <1>2, <2>2 DEF HolderKnows, OpenRows
<1>10. \A k \in Asked' : k[1] < Attempts' /\ pages'[k].is # "none"
  <2>1. SUFFICES ASSUME NEW k \in Asked'
                 PROVE  k[1] < Attempts' /\ pages'[k].is # "none"
    OBVIOUS
  <2>2. CASE k = K
    BY <1>4, <1>5, <1>8, <2>2, AttemptsFinite
  <2>3. CASE k # K
    <3>1. k \in Asked /\ k \in Keys
      BY <1>7, <2>3, <2>1 DEF Asked
    <3>2. k[1] \in Int
      BY <3>1, CheckoutConstants DEF Keys
    <3>3. k[1] < Attempts /\ pages[k].is # "none"
      BY <3>1 DEF CheckoutInv, RowsInv
    <3>. QED  BY <3>2, <3>3, <1>5, <1>8, AttemptsFinite
  <2>. QED  BY <2>2, <2>3
<1>11. handed' \subseteq Asked'
  BY <1>5, <1>7 DEF CheckoutInv, RowsInv
<1>12. \A k \in Keys : sessions'[k] = "closed" => pages'[k].is # "open"
  BY <1>1, <1>2, <1>5 DEF CheckoutInv, RowsInv, HolderKnows
<1>13. \A j, k \in OpenRows' : j = k
  BY <1>9 DEF OpenRows
<1>. QED  BY <1>6, <1>10, <1>11, <1>12, <1>13 DEF RowsInv

LEMMA CommitPageStep ==
    ASSUME CheckoutInv, NEW t \in Tabs, CommitPage(t)
    PROVE  CheckoutInv'
<1>1. tab[t].pc \in LockPCs
  BY DEF CommitPage, At, LockPCs
<1>2. Leave(t) /\ Unlock(t) /\ UNCHANGED <<owner, customers, pages, leaving, cleanup, checkoutErrors>>
  BY DEF CommitPage
<1>3. CASE owner.exists
  BY <1>1, <1>2, <1>3, RowsCommitted, HolderLeaves, CheckoutTyped
<1>4. CASE ~owner.exists
  <2>1. UNCHANGED <<sessions, handed>>
    BY <1>4 DEF CommitPage
  <2>2. RowsInv'
    BY <1>2, <1>4 DEF RowsInv
  <2>. QED  BY <1>1, <1>2, <2>1, <2>2, HolderLeaves, CheckoutTyped
<1>. QED  BY <1>3, <1>4

\* A request that fails or crashes rolls back, wherever it is.
LEMMA FailCheckoutStep ==
    ASSUME CheckoutInv, NEW t \in Tabs, FailCheckout(t)
    PROVE  CheckoutInv'
<1>1. /\ Leave(t) /\ Unlock(t) /\ checkoutErrors' \in Nat
      /\ UNCHANGED <<owner, customers, pages, sessions, handed, leaving, cleanup>>
  BY CheckoutTyped DEF FailCheckout
<1>2. CASE tab[t].pc \in LockPCs
  <2>1. RowsInv'
    BY <1>1 DEF CheckoutInv, RowsInv, Asked, OpenRows, Attempts
  <2>. QED  BY <1>1, <1>2, <2>1, HolderLeaves, CheckoutTyped
<1>3. CASE tab[t].pc \notin LockPCs
  <2>1. UNCHANGED checkoutLock
    BY <1>1, <1>3 DEF Unlock, CheckoutInv, LockInv
  <2>2. /\ Rest \in TabRecords /\ Rest.pc \notin LockPCs /\ tab' = [tab EXCEPT ![t] = Rest]
    BY <1>1, CheckoutTyped DEF Leave, LockPCs
  <2>3. TabFits(Rest)'
    BY CheckoutTyped DEF TabFits, CustomerPCs, LockPCs
  <2>. QED  BY <1>1, <1>3, <2>1, <2>2, <2>3, CheckoutTyped, TabMoved
<1>. QED  BY <1>2, <1>3

\* A request that has read the account goes on with its customer.
LEMMA LoadedStep ==
    ASSUME CheckoutInv, NEW t \in Tabs, tab[t].pc \notin LockPCs,
           NEW pc \in {"live", "lock"}, NEW price \in Prices, NEW again \in BOOLEAN,
           Loaded(t, pc, price, again),
           UNCHANGED <<owner, customers, pages, sessions, handed, checkoutLock, leaving,
                       cleanup, checkoutErrors>>
    PROVE  CheckoutInv'
<1>1. PICK q : q = [Rest EXCEPT !.price = price, !.again = again,
                       !.customer = owner.customer, !.generation = owner.generation,
                       !.pc = IF owner.customer = NoCustomer THEN "ensure" ELSE pc]
  OBVIOUS
<1>2. q \in TabRecords /\ q.pc \notin LockPCs /\ q.pc # "clear"
  <2>1. q.pc \in {"ensure", "live", "lock"}
    BY <1>1 DEF Rest
  <2>2. q = [pc |-> q.pc, price |-> q.price, customer |-> q.customer,
             generation |-> q.generation, again |-> q.again, open |-> q.open]
    BY <1>1 DEF Rest
  <2>3. /\ q.price \in Prices \cup {"none"} /\ q.customer \in CustomerIds
        /\ q.generation \in Generations /\ q.open \in SUBSET Keys
    BY <1>1, CheckoutTyped DEF Rest
  <2>4. q.again \in BOOLEAN
    BY <1>1 DEF Rest
  <2>5. q \in TabRecords
    BY <2>1, <2>2, <2>3, <2>4 DEF TabRecords, TabPCs
  <2>. QED  BY <2>1, <2>5 DEF LockPCs
<1>3. tab' = [tab EXCEPT ![t] = q]
  BY <1>1 DEF Loaded
<1>4. q.pc \in CustomerPCs => q.customer \in Generations
  BY <1>1, CheckoutTyped DEF Rest, CustomerPCs, LockPCs
<1>5. q.price \in Prices
  BY <1>1 DEF Rest
<1>6. TabFits(q)'
  BY <1>2, <1>4, <1>5 DEF TabFits
<1>. QED  BY <1>2, <1>3, <1>6, CheckoutTyped, TabMoved

LEMMA AskPageStep ==
    ASSUME CheckoutInv, NEW t \in Tabs, NEW price \in Prices, AskPage(t, price)
    PROVE  CheckoutInv'
<1>1. /\ tab[t].pc \notin LockPCs /\ Loaded(t, "live", price, FALSE)
      /\ UNCHANGED <<owner, customers, pages, sessions, handed, checkoutLock, leaving,
                     cleanup, checkoutErrors>>
  BY DEF AskPage, At, LockPCs
<1>. QED  BY <1>1, LoadedStep

\* A request leaves without the lock.
LEMMA OutsiderLeaves ==
    ASSUME CheckoutInv, NEW t \in Tabs, tab[t].pc \notin LockPCs, Leave(t),
           UNCHANGED <<owner, customers, pages, sessions, handed, checkoutLock, leaving,
                       cleanup, checkoutErrors>>
    PROVE  CheckoutInv'
<1>1. /\ Rest \in TabRecords /\ Rest.pc \notin LockPCs /\ tab' = [tab EXCEPT ![t] = Rest]
  BY CheckoutTyped DEF Leave, LockPCs
<1>2. TabFits(Rest)'
  BY CheckoutTyped DEF TabFits, CustomerPCs, LockPCs
<1>. QED  BY <1>1, <1>2, CheckoutTyped, TabMoved

LEMMA ReloadAccountStep ==
    ASSUME CheckoutInv, NEW t \in Tabs, ReloadAccount(t)
    PROVE  CheckoutInv'
<1>1. /\ tab[t].pc = "reload" /\ tab[t].pc \notin LockPCs
      /\ UNCHANGED <<owner, customers, pages, sessions, handed, checkoutLock, leaving,
                     cleanup, checkoutErrors>>
  BY DEF ReloadAccount, At, LockPCs
<1>2. tab[t].price \in Prices
  BY <1>1, CheckoutTyped DEF TabFits
<1>3. \/ Loaded(t, "lock", tab[t].price, TRUE)
      \/ Leave(t)
  BY DEF ReloadAccount
<1>4. CASE Loaded(t, "lock", tab[t].price, TRUE)
  <2>1. PICK price \in Prices : price = tab[t].price
    BY <1>2
  <2>. QED  BY <1>1, <1>4, <2>1, LoadedStep
<1>. QED  BY <1>1, <1>3, <1>4, OutsiderLeaves

\* A request turns elsewhere, with what it has.
LEMMA TurnedOutside ==
    ASSUME CheckoutInv, NEW t \in Tabs, tab[t].pc \notin LockPCs, tab[t].pc # "idle",
           NEW pc \in {"store", "clear", "reload", "lock"}, Turn(t, pc),
           pc \in CustomerPCs => tab[t].customer \in Generations,
           pc = "clear" => customers'[tab[t].customer] = "gone",
           customers' \in [Generations -> {"none", "live", "gone"}],
           \A g \in Generations : customers[g] = "gone" => customers'[g] = "gone",
           owner' \in [exists : BOOLEAN, customer : CustomerIds,
                       generation : Generations, paid : SUBSET Keys],
           owner'.exists = owner.exists,
           UNCHANGED <<pages, sessions, handed, checkoutLock, leaving, cleanup, checkoutErrors>>
    PROVE  CheckoutInv'
<1>1. PICK q : q = [tab[t] EXCEPT !.pc = pc]
  OBVIOUS
<1>2. tab[t] \in TabRecords /\ TabFits(tab[t])
  BY CheckoutTyped
<1>3. /\ q \in TabRecords /\ q.pc = pc /\ q.price = tab[t].price
      /\ q.customer = tab[t].customer
  BY <1>1, <1>2 DEF TabRecords, TabPCs
<1>4. TabFits(q)'
  BY <1>2, <1>3 DEF TabFits
<1>5. tab' = [tab EXCEPT ![t] = q] /\ q.pc \notin LockPCs
  BY <1>1, <1>3, CheckoutTyped DEF Turn, LockPCs
<1>. QED  BY <1>3, <1>4, <1>5, CheckoutTyped, TabMoved

LEMMA CreateCustomerStep ==
    ASSUME CheckoutInv, NEW t \in Tabs, CreateCustomer(t)
    PROVE  CheckoutInv'
<1>1. /\ tab[t].pc = "ensure" /\ tab[t].pc \notin LockPCs /\ Turn(t, "store")
      /\ UNCHANGED <<owner, pages, sessions, handed, checkoutLock, leaving, cleanup,
                     checkoutErrors>>
  BY DEF CreateCustomer, At, LockPCs
<1>2. /\ customers' \in [Generations -> {"none", "live", "gone"}]
      /\ \A g \in Generations : customers[g] = "gone" => customers'[g] = "gone"
  BY CheckoutTyped DEF CreateCustomer
<1>3. "store" \notin CustomerPCs
  BY DEF CustomerPCs, LockPCs
<1>. QED  BY <1>1, <1>2, <1>3, CheckoutTyped, TurnedOutside

LEMMA AskProviderStep ==
    ASSUME CheckoutInv, NEW t \in Tabs, AskProvider(t)
    PROVE  CheckoutInv'
<1>1. /\ tab[t].pc = "live" /\ tab[t].pc \notin LockPCs
      /\ UNCHANGED <<owner, customers, pages, sessions, handed, checkoutLock, leaving,
                     cleanup, checkoutErrors>>
  BY DEF AskProvider, At, LockPCs
<1>2. tab[t].customer \in Generations
  BY <1>1, CheckoutTyped DEF TabFits, CustomerPCs
<1>3. CASE customers[tab[t].customer] = "gone" /\ Turn(t, "clear")
  BY <1>1, <1>2, <1>3, CheckoutTyped, TurnedOutside
<1>4. CASE Turn(t, "lock")
  BY <1>1, <1>2, <1>4, CheckoutTyped, TurnedOutside
<1>5. CASE Leave(t)
  BY <1>1, <1>5, OutsiderLeaves
<1>. QED  BY <1>3, <1>4, <1>5 DEF AskProvider

\* Forgetting a customer counts a generation on.
LEMMA ForgetsTyped ==
    ASSUME CheckoutInv, NEW c, Forgets(c), owner.generation < MaxGeneration
    PROVE  /\ owner' \in [exists : BOOLEAN, customer : CustomerIds,
                          generation : Generations, paid : SUBSET Keys]
           /\ owner'.exists = owner.exists
<1>1. owner.generation + 1 \in Generations
  BY CheckoutTyped DEF Generations
<1>. QED  BY <1>1, CheckoutTyped DEF Forgets

LEMMA ClearCustomerStep ==
    ASSUME CheckoutInv, NEW t \in Tabs, ClearCustomer(t)
    PROVE  CheckoutInv'
<1>1. /\ tab[t].pc = "clear" /\ tab[t].pc \notin LockPCs /\ Turn(t, "reload")
      /\ UNCHANGED <<customers, pages, sessions, handed, checkoutLock, leaving, cleanup,
                     checkoutErrors>>
  BY DEF ClearCustomer, At, LockPCs
<1>2. /\ owner' \in [exists : BOOLEAN, customer : CustomerIds,
                     generation : Generations, paid : SUBSET Keys]
      /\ owner'.exists = owner.exists
  BY ForgetsTyped DEF ClearCustomer
<1>3. "reload" \notin CustomerPCs
  BY DEF CustomerPCs, LockPCs
<1>. QED  BY <1>1, <1>2, <1>3, CheckoutTyped, TurnedOutside

\* The customer stored first is the request's too.
LEMMA StoreCustomerStep ==
    ASSUME CheckoutInv, NEW t \in Tabs, StoreCustomer(t)
    PROVE  CheckoutInv'
<1>1. /\ tab[t].pc = "store" /\ tab[t].pc \notin LockPCs
      /\ UNCHANGED <<customers, pages, sessions, handed, checkoutLock, leaving, cleanup,
                     checkoutErrors>>
  BY DEF StoreCustomer, At, LockPCs
<1>2. CASE ~owner.exists
  BY <1>1, <1>2, OutsiderLeaves DEF StoreCustomer
<1>3. CASE owner.exists
  <2>1. PICK c \in Generations : c = Kept(owner.customer, tab[t].generation)
    BY CheckoutTyped DEF Kept, TabRecords
  <2>2. PICK q : q = [tab[t] EXCEPT !.customer = c,
                                    !.pc = IF tab[t].again THEN "lock" ELSE "live"]
    OBVIOUS
  <2>3. tab[t] \in TabRecords /\ TabFits(tab[t]) /\ tab[t].price \in Prices
    BY <1>1, CheckoutTyped DEF TabFits
  <2>4. /\ q \in TabRecords /\ q.pc \in {"lock", "live"} /\ q.price = tab[t].price
        /\ q.customer = c
    BY <2>2, <2>3, CheckoutTyped DEF TabRecords, TabPCs
  <2>5. TabFits(q)'
    BY <2>3, <2>4 DEF TabFits
  <2>6. tab' = [tab EXCEPT ![t] = q] /\ q.pc \notin LockPCs
    BY <1>3, <2>1, <2>2, <2>4, CheckoutTyped DEF StoreCustomer, LockPCs
  <2>7. owner' = [owner EXCEPT !.customer = c]
    BY <1>3, <2>1 DEF StoreCustomer
  <2>8. /\ owner' \in [exists : BOOLEAN, customer : CustomerIds,
                       generation : Generations, paid : SUBSET Keys]
        /\ owner'.exists = owner.exists
    BY <2>7, CheckoutTyped
  <2>. QED  BY <1>1, <2>4, <2>5, <2>6, <2>8, CheckoutTyped, TabMoved
<1>. QED  BY <1>2, <1>3, CheckoutTyped

\* A page that ends keeps its type.
LEMMA PageEnds ==
    ASSUME CheckoutInv, NEW k \in Keys
    PROVE  /\ [pages[k] EXCEPT !.is = "ended"] \in [is : PageStates, of : CustomerIds]
           /\ [pages[k] EXCEPT !.is = "paid"] \in [is : PageStates, of : CustomerIds]
           /\ [pages[k] EXCEPT !.is = "ended"].is = "ended"
           /\ [pages[k] EXCEPT !.is = "paid"].is = "paid"
BY CheckoutTyped DEF PageStates

\* A customer that goes is gone, and no page of it opens.
LEMMA GoneTyped ==
    ASSUME CheckoutInv, NEW g \in Generations, CustomerGone(g)
    PROVE  /\ pages' \in [Keys -> [is : PageStates, of : CustomerIds]]
           /\ \A k \in Keys : /\ pages'[k].is = "open" => pages[k].is = "open"
                              /\ pages'[k].is = "none" => pages[k].is = "none"
           /\ customers' \in [Generations -> {"none", "live", "gone"}]
           /\ customers'[g] = "gone"
           /\ \A h \in Generations : customers[h] = "gone" => customers'[h] = "gone"
<1>1. pages' \in [Keys -> [is : PageStates, of : CustomerIds]]
  BY PageEnds, CheckoutTyped DEF CustomerGone
<1>2. \A k \in Keys : /\ pages'[k].is = "open" => pages[k].is = "open"
                      /\ pages'[k].is = "none" => pages[k].is = "none"
  BY PageEnds, CheckoutTyped DEF CustomerGone
<1>3. customers' = [customers EXCEPT ![g] = "gone"]
  BY DEF CustomerGone
<1>. QED  BY <1>1, <1>2, <1>3, CheckoutTyped

LEMMA BuyerPaysStep ==
    ASSUME CheckoutInv, NEW k \in Keys, BuyerPays(k)
    PROVE  CheckoutInv'
<1>1. /\ UNCHANGED <<owner, customers, sessions, handed, tab, checkoutLock, leaving, cleanup,
                     checkoutErrors>>
      /\ pages' = [pages EXCEPT ![k] = [pages[k] EXCEPT !.is = "paid"]]
      /\ pages[k].is = "open"
  BY CheckoutTyped DEF BuyerPays, Payable
<1>2. pages' \in [Keys -> [is : PageStates, of : CustomerIds]]
  BY <1>1, PageEnds, CheckoutTyped
<1>3. \A j \in Keys : /\ pages'[j].is = "open" => pages[j].is = "open"
                      /\ pages'[j].is = "none" => pages[j].is = "none"
  BY <1>1, PageEnds, CheckoutTyped
<1>4. ForgottenOrQueued'
  BY <1>1 DEF CheckoutInv, ForgottenOrQueued
<1>. QED  BY <1>1, <1>2, <1>3, <1>4, CheckoutTyped, OutsideMoved

LEMMA PageCompletedStep ==
    ASSUME CheckoutInv, NEW k \in Keys, PageCompleted(k)
    PROVE  CheckoutInv'
<1>1. /\ UNCHANGED <<customers, handed, tab, checkoutLock, leaving, cleanup, checkoutErrors>>
      /\ sessions' = [sessions EXCEPT ![k] = IF @ = "open" THEN "closed" ELSE @]
      /\ pages[k].is = "paid"
  BY DEF PageCompleted
<1>2. \/ owner' = [owner EXCEPT !.paid = {k}] /\ UNCHANGED pages
      \/ pages' = [pages EXCEPT ![k] = [pages[k] EXCEPT !.is = "ended"]] /\ UNCHANGED owner
  BY CheckoutTyped DEF PageCompleted
<1>3. /\ owner' \in [exists : BOOLEAN, customer : CustomerIds,
                     generation : Generations, paid : SUBSET Keys]
      /\ owner'.exists = owner.exists
  <2>1. CASE owner' = [owner EXCEPT !.paid = {k}]
    <3>1. {k} \in SUBSET Keys
      OBVIOUS
    <3>. QED  BY <2>1, <3>1, CheckoutTyped
  <2>2. CASE UNCHANGED owner
    BY <2>2, CheckoutTyped
  <2>. QED  BY <1>2, <2>1, <2>2
<1>4. PICK p \in [is : PageStates, of : CustomerIds] :
         p = [pages[k] EXCEPT !.is = "ended"] /\ p.is = "ended"
  BY PageEnds
<1>5. /\ pages' \in [Keys -> [is : PageStates, of : CustomerIds]]
      /\ \A j \in Keys : /\ pages'[j].is = "open" => pages[j].is = "open"
                         /\ pages'[j].is = "none" => pages[j].is = "none"
      /\ pages'[k].is # "open"
  <2>1. CASE pages' = [pages EXCEPT ![k] = p]
    BY <1>4, <2>1, CheckoutTyped
  <2>2. CASE UNCHANGED pages
    BY <1>1, <2>2, CheckoutTyped
  <2>. QED  BY <1>2, <1>4, <2>1, <2>2
<1>6. /\ sessions' \in [Keys -> {"none", "open", "closed"}]
      /\ \A j \in Keys :
            \/ sessions'[j] = sessions[j]
            \/ sessions[j] = "open" /\ sessions'[j] = "closed" /\ pages'[j].is # "open"
  BY <1>1, <1>5, CheckoutTyped
<1>7. ForgottenOrQueued'
  BY <1>1 DEF CheckoutInv, ForgottenOrQueued
<1>. QED  BY <1>1, <1>3, <1>5, <1>6, <1>7, CheckoutTyped, OutsideMoved

LEMMA DashboardDeletesStep ==
    ASSUME CheckoutInv, NEW g \in Generations, DashboardDeletes(g)
    PROVE  CheckoutInv'
<1>1. /\ UNCHANGED <<owner, sessions, handed, tab, checkoutLock, leaving, cleanup,
                     checkoutErrors>>
      /\ CustomerGone(g)
  BY DEF DashboardDeletes
<1>2. ForgottenOrQueued'
  BY <1>1, GoneTyped, CheckoutTyped DEF CheckoutInv, ForgottenOrQueued
<1>. QED  BY <1>1, <1>2, GoneTyped, CheckoutTyped, OutsideMoved

LEMMA CustomerDeletedStep ==
    ASSUME CheckoutInv, NEW g \in Generations, CustomerDeleted(g)
    PROVE  CheckoutInv'
<1>1. /\ UNCHANGED <<customers, pages, sessions, handed, tab, checkoutLock, leaving, cleanup,
                     checkoutErrors>>
      /\ owner' \in [exists : BOOLEAN, customer : CustomerIds,
                     generation : Generations, paid : SUBSET Keys]
      /\ owner'.exists = owner.exists
  BY ForgetsTyped DEF CustomerDeleted
<1>2. ForgottenOrQueued'
  BY <1>1 DEF CheckoutInv, ForgottenOrQueued
<1>. QED  BY <1>1, <1>2, CheckoutTyped, OutsideMoved

LEMMA CleanUpStep ==
    ASSUME CheckoutInv, NEW g \in Generations, CleanUp(g)
    PROVE  CheckoutInv'
<1>1. /\ UNCHANGED <<owner, sessions, handed, tab, checkoutLock, leaving, checkoutErrors>>
      /\ CustomerGone(g) /\ cleanup' = cleanup \ {g}
  BY DEF CleanUp
<1>2. ForgottenOrQueued'
  BY <1>1, GoneTyped, CheckoutTyped DEF CheckoutInv, ForgottenOrQueued
<1>3. cleanup' \subseteq Generations
  BY <1>1, CheckoutTyped
<1>. QED  BY <1>1, <1>2, <1>3, GoneTyped, CheckoutTyped, OutsideMoved

\* The deletion's own steps: its state is typed, whatever it comes to.
LEMMA LeavingTyped ==
    ASSUME CheckoutInv, NEW pc \in {"no", "read", "delete", "forget", "gone"}
    PROVE  /\ [leaving EXCEPT !.pc = pc]
                 \in [pc : {"no", "read", "delete", "forget", "gone"}, customer : CustomerIds]
           /\ [leaving EXCEPT !.pc = pc].pc = pc
           /\ [leaving EXCEPT !.pc = pc].customer = leaving.customer
BY CheckoutTyped

LEMMA EndSubscriptionsStep ==
    ASSUME CheckoutInv, EndSubscriptions
    PROVE  CheckoutInv'
<1>1. /\ UNCHANGED <<owner, customers, sessions, handed, tab, checkoutLock, cleanup,
                     checkoutErrors>>
      /\ leaving' = [leaving EXCEPT !.pc = "read"]
      /\ pages' = [k \in Keys |->
            IF pages[k].is = "paid" /\ pages[k].of = owner.customer
            THEN [pages[k] EXCEPT !.is = "ended"] ELSE pages[k]]
  BY DEF EndSubscriptions
<1>2. /\ pages' \in [Keys -> [is : PageStates, of : CustomerIds]]
      /\ \A k \in Keys : /\ pages'[k].is = "open" => pages[k].is = "open"
                         /\ pages'[k].is = "none" => pages[k].is = "none"
  BY <1>1, PageEnds, CheckoutTyped
<1>3. /\ leaving' \in [pc : {"no", "read", "delete", "forget", "gone"}, customer : CustomerIds]
      /\ leaving'.pc = "read"
  BY <1>1, LeavingTyped
<1>4. ForgottenOrQueued'
  BY <1>3 DEF ForgottenOrQueued
<1>. QED  BY <1>1, <1>2, <1>3, <1>4, CheckoutTyped, OutsideMoved

LEMMA ReadCustomerStep ==
    ASSUME CheckoutInv, ReadCustomer
    PROVE  CheckoutInv'
<1>1. /\ UNCHANGED <<owner, customers, pages, sessions, handed, tab, checkoutLock, cleanup,
                     checkoutErrors>>
      /\ leaving' = [pc |-> "delete", customer |-> owner.customer]
  BY DEF ReadCustomer
<1>2. /\ leaving' \in [pc : {"no", "read", "delete", "forget", "gone"}, customer : CustomerIds]
      /\ leaving'.pc = "delete"
  BY <1>1, CheckoutTyped
<1>3. ForgottenOrQueued'
  BY <1>2 DEF ForgottenOrQueued
<1>. QED  BY <1>1, <1>2, <1>3, CheckoutTyped, OutsideMoved

LEMMA DeleteRowStep ==
    ASSUME CheckoutInv, DeleteRow
    PROVE  CheckoutInv'
<1>1. /\ UNCHANGED <<customers, pages, handed, tab, checkoutLock, cleanup, checkoutErrors>>
      /\ owner' = [owner EXCEPT !.exists = FALSE, !.customer = NoCustomer]
      /\ sessions' = [k \in Keys |-> "none"]
      /\ leaving' = [leaving EXCEPT !.pc = "forget"]
  BY DEF DeleteRow
<1>2. /\ owner' \in [exists : BOOLEAN, customer : CustomerIds,
                     generation : Generations, paid : SUBSET Keys]
      /\ ~owner'.exists
  BY <1>1, CheckoutTyped
<1>3. /\ leaving' \in [pc : {"no", "read", "delete", "forget", "gone"}, customer : CustomerIds]
      /\ leaving'.pc = "forget"
  BY <1>1, LeavingTyped
<1>4. ForgottenOrQueued'
  BY <1>3 DEF ForgottenOrQueued
<1>5. sessions' \in [Keys -> {"none", "open", "closed"}]
  BY <1>1
<1>. QED  BY <1>1, <1>2, <1>3, <1>4, <1>5, CheckoutTyped, OutsideMoved

\* What could not be deleted is in the queue.
LEMMA ForgetCustomerStep ==
    ASSUME CheckoutInv, NEW deleted \in BOOLEAN, ForgetCustomer(deleted)
    PROVE  CheckoutInv'
<1>1. /\ UNCHANGED <<owner, sessions, handed, tab, checkoutLock>>
      /\ leaving' = [leaving EXCEPT !.pc = "gone"]
  BY DEF ForgetCustomer
<1>2. checkoutErrors' \in Nat
  BY CheckoutTyped DEF ForgetCustomer
<1>3. /\ leaving' \in [pc : {"no", "read", "delete", "forget", "gone"}, customer : CustomerIds]
      /\ leaving'.customer = leaving.customer
  BY <1>1, LeavingTyped
<1>4. CASE leaving.customer = NoCustomer /\ UNCHANGED <<customers, pages, cleanup>>
  <2>1. ForgottenOrQueued'
    BY <1>3, <1>4 DEF ForgottenOrQueued
  <2>. QED  BY <1>1, <1>2, <1>3, <1>4, <2>1, CheckoutTyped, OutsideMoved
<1>5. CASE leaving.customer # NoCustomer /\ CustomerGone(leaving.customer) /\ UNCHANGED cleanup
  <2>1. PICK g \in Generations : g = leaving.customer
    BY <1>5, CheckoutTyped
  <2>2. CustomerGone(g)
    BY <1>5, <2>1
  <2>3. ForgottenOrQueued'
    BY <1>3, <2>1, <2>2, GoneTyped DEF ForgottenOrQueued
  <2>. QED  BY <1>1, <1>2, <1>3, <1>5, <2>2, <2>3, GoneTyped, CheckoutTyped, OutsideMoved
<1>6. CASE /\ leaving.customer # NoCustomer
           /\ cleanup' = cleanup \cup {leaving.customer} /\ UNCHANGED <<customers, pages>>
  <2>1. cleanup' \subseteq Generations /\ leaving.customer \in cleanup'
    BY <1>6, CheckoutTyped
  <2>2. ForgottenOrQueued'
    BY <1>3, <2>1 DEF ForgottenOrQueued
  <2>. QED  BY <1>1, <1>2, <1>3, <1>6, <2>1, <2>2, CheckoutTyped, OutsideMoved
<1>. QED  BY <1>4, <1>5, <1>6 DEF ForgetCustomer, Queued

LEMMA CheckoutInvInit ==
    ASSUME CheckoutInit
    PROVE  CheckoutInv
<1>1. /\ 0 \in Generations /\ NoCustomer \in CustomerIds
      /\ Rest \in TabRecords /\ Rest.pc = "idle"
  BY CheckoutConstants DEF Generations, CustomerIds, NoCustomer, Rest, TabRecords, TabPCs
<1>2. /\ owner \in [exists : BOOLEAN, customer : CustomerIds,
                    generation : Generations, paid : SUBSET Keys]
  BY <1>1 DEF CheckoutInit
<1>3. pages \in [Keys -> [is : PageStates, of : CustomerIds]]
  BY <1>1 DEF CheckoutInit, NoPage, PageStates
<1>4. /\ customers \in [Generations -> {"none", "live", "gone"}]
      /\ sessions \in [Keys -> {"none", "open", "closed"}]
      /\ tab \in [Tabs -> TabRecords] /\ \A t \in Tabs : tab[t] = Rest
      /\ checkoutLock = {} /\ handed = {} /\ cleanup = {} /\ checkoutErrors \in Nat
      /\ leaving.pc = "no"
      /\ leaving \in [pc : {"no", "read", "delete", "forget", "gone"}, customer : CustomerIds]
  BY <1>1 DEF CheckoutInit
<1>5. CheckoutTypeOK
  BY <1>2, <1>3, <1>4 DEF CheckoutTypeOK
<1>6. Asked = {} /\ OpenRows = {} /\ \A k \in Keys : sessions[k] # "closed"
  BY DEF CheckoutInit, Asked, OpenRows
<1>7. RowsInv
  BY <1>4, <1>6 DEF RowsInv
<1>8. LockInv
  BY <1>1, <1>4 DEF LockInv, LockPCs
<1>9. \A t \in Tabs : TabFits(tab[t])
  BY <1>1, <1>4 DEF TabFits, CustomerPCs, LockPCs
<1>. QED  BY <1>4, <1>5, <1>7, <1>8, <1>9 DEF CheckoutInv, ForgottenOrQueued

LEMMA CheckoutInvStep ==
    ASSUME CheckoutInv, [CheckoutNext]_checkoutVars
    PROVE  CheckoutInv'
<1>1. ASSUME NEW t \in Tabs, TabStep(t)
      PROVE  CheckoutInv'
  BY <1>1, AskPageStep, CreateCustomerStep, StoreCustomerStep, AskProviderStep,
     ClearCustomerStep, ReloadAccountStep, LockCheckoutStep, ExpirePagesStep, CreatePageStep,
     CommitPageStep, FailCheckoutStep DEF TabStep
<1>2. ASSUME NEW k \in Keys, BuyerPays(k) \/ PageCompleted(k)
      PROVE  CheckoutInv'
  BY <1>2, BuyerPaysStep, PageCompletedStep
<1>3. ASSUME NEW g \in Generations, DashboardDeletes(g) \/ CustomerDeleted(g) \/ CleanUp(g)
      PROVE  CheckoutInv'
  BY <1>3, DashboardDeletesStep, CustomerDeletedStep, CleanUpStep
<1>4. CASE EndSubscriptions \/ ReadCustomer \/ DeleteRow
  BY <1>4, EndSubscriptionsStep, ReadCustomerStep, DeleteRowStep
<1>5. ASSUME NEW deleted \in BOOLEAN, ForgetCustomer(deleted)
      PROVE  CheckoutInv'
  BY <1>5, ForgetCustomerStep
<1>6. CASE UNCHANGED checkoutVars
  <2>1. UNCHANGED <<owner, customers, pages, sessions, handed, tab, checkoutLock, leaving,
                    cleanup, checkoutErrors>>
    BY <1>6 DEF checkoutVars
  <2>2. ForgottenOrQueued'
    BY <2>1 DEF CheckoutInv, ForgottenOrQueued
  <2>. QED  BY <2>1, <2>2, CheckoutTyped, OutsideMoved
<1>. QED  BY <1>1, <1>2, <1>3, <1>4, <1>5, <1>6 DEF CheckoutNext

\* A page that can be paid is of the one open row.
LEMMA PayableOnce ==
    ASSUME CheckoutInv
    PROVE  OnePayablePage
<1>1. SUFFICES ASSUME owner.exists
               PROVE  Cardinality({k \in Keys : Payable(k)}) <= 1
  BY DEF OnePayablePage
<1>2. DEFINE payable == {k \in Keys : Payable(k)}
<1>3. \A k \in payable : k \in OpenRows
  <2>1. SUFFICES ASSUME NEW k \in Keys, k \in handed, pages[k].is = "open"
                 PROVE  k \in OpenRows
    BY DEF Payable
  <2>2. k \in Asked
    BY <1>1, <2>1 DEF CheckoutInv, RowsInv
  <2>3. sessions[k] # "none" /\ sessions[k] # "closed"
    BY <1>1, <2>1, <2>2 DEF CheckoutInv, RowsInv, Asked
  <2>. QED  BY <2>3, CheckoutTyped DEF OpenRows
<1>4. \A j, k \in payable : j = k
  BY <1>1, <1>3 DEF CheckoutInv, RowsInv
<1>5. CASE payable = {}
  <2>1. Cardinality(payable) = 0
    BY <1>5, FS_EmptySet
  <2>. QED  BY <2>1
<1>6. CASE payable # {}
  <2>1. PICK k \in payable : TRUE
    BY <1>6
  <2>2. payable = {k}
    BY <1>4, <2>1
  <2>3. Cardinality(payable) = 1
    BY <2>2, FS_Singleton
  <2>. QED  BY <2>3
<1>. QED  BY <1>5, <1>6

\* The types of the checkout's variables.
THEOREM CheckoutTypes == CheckoutSpec => []CheckoutTypeOK
<1>1. CheckoutInv => CheckoutTypeOK
  BY DEF CheckoutInv
<1>. QED  BY CheckoutInvInit, CheckoutInvStep, <1>1, PTL DEF CheckoutSpec

\* However tabs, webhooks, failures and the account's deletion interleave, at most
\* one page can be paid, and a customer left behind is queued (start_checkout,
\* forget_customer).
THEOREM CheckoutIsSafe == CheckoutSpec => []CheckoutSafety
<1>1. CheckoutInv => CheckoutSafety
  BY PayableOnce DEF CheckoutInv, CheckoutSafety
<1>. QED  BY CheckoutInvInit, CheckoutInvStep, <1>1, PTL DEF CheckoutSpec

\* A step forgets or replaces no customer that lives.
LEMMA StepKeepsCustomer ==
    ASSUME CheckoutInv, CheckoutNext, owner.customer # NoCustomer, owner'.exists,
           customers[owner.customer] = "live"
    PROVE  owner'.customer = owner.customer
<1>1. ASSUME NEW t \in Tabs, StoreCustomer(t)
      PROVE  owner'.customer = owner.customer
  BY <1>1, CheckoutTyped DEF StoreCustomer, Kept
<1>2. ASSUME NEW t \in Tabs, ClearCustomer(t)
      PROVE  owner'.customer = owner.customer
  <2>1. customers[tab[t].customer] = "gone"
    BY <1>2, CheckoutTyped DEF ClearCustomer, At, TabFits
  <2>. QED  BY <1>2, <2>1 DEF ClearCustomer, Forgets
<1>3. ASSUME NEW g \in Generations, CustomerDeleted(g)
      PROVE  owner'.customer = owner.customer
  BY <1>3 DEF CustomerDeleted
<1>4. ASSUME NEW k \in Keys, PageCompleted(k)
      PROVE  owner'.customer = owner.customer
  BY <1>4, CheckoutTyped DEF PageCompleted
<1>5. CASE DeleteRow
  BY <1>5, CheckoutTyped DEF DeleteRow
<1>6. CASE UNCHANGED owner
  BY <1>6
<1>7. ASSUME NEW t \in Tabs, TabStep(t)
      PROVE  owner'.customer = owner.customer
  BY <1>1, <1>2, <1>6, <1>7
     DEF TabStep, AskPage, CreateCustomer, AskProvider, ReloadAccount, LockCheckout,
         ExpirePages, CreatePage, CommitPage, FailCheckout
<1>8. ASSUME NEW k \in Keys, BuyerPays(k)
      PROVE  UNCHANGED owner
  BY <1>8 DEF BuyerPays
<1>9. ASSUME NEW g \in Generations, DashboardDeletes(g) \/ CleanUp(g)
      PROVE  UNCHANGED owner
  BY <1>9 DEF DashboardDeletes, CleanUp
<1>10. ASSUME NEW deleted \in BOOLEAN, ForgetCustomer(deleted)
       PROVE  UNCHANGED owner
  BY <1>10 DEF ForgetCustomer
<1>11. CASE EndSubscriptions \/ ReadCustomer
  BY <1>11 DEF EndSubscriptions, ReadCustomer
<1>. QED  BY <1>3, <1>4, <1>5, <1>6, <1>7, <1>8, <1>9, <1>10, <1>11 DEF CheckoutNext

\* No late checkout, webhook or clean-up makes an account forget a customer that
\* lives at the provider (ensure_customer, clear_customer, customer.deleted).
THEOREM CustomersKept == CheckoutSpec => CustomerKept
<1>1. CheckoutInv /\ [CheckoutNext]_checkoutVars =>
        [owner.customer # NoCustomer /\ owner'.exists
           /\ customers[owner.customer] = "live" =>
              owner'.customer = owner.customer]_checkoutVars
  BY StepKeepsCustomer
<1>. QED  BY CheckoutInvInit, CheckoutInvStep, <1>1, PTL DEF CheckoutSpec, CustomerKept

-----------------------------------------------------------------------------
(* Sales. *)

\* The price of a key is the one the key names.
PricesFit ==
    \A k \in Offers : store.price[k] \in {NoOffer, k} /\ replay.price[k] \in {NoOffer, k}

ChangePCs == {"change", "answer"}
PricedPCs == {"coupon", "open"} \cup ChangePCs

\* What a request of a change may rest on: its key was answered before, and
\* an answer that waits for nothing is still where the subscription is.
ChargeFits(q) ==
    /\ q.charged <= 1
    /\ q.pc = "change" /\ q.charged = 1 => replay.change[q.got] # NoAnswer
    /\ q.pc \notin ChangePCs => q.charged = 0

AnswerApplied(answer) ==
    answer # NoAnswer /\ ~answer.pending =>
        paid.at = answer.at /\ paid.pending = NoOffer

DeskFits(q) ==
    /\ q.pc # "idle" => q.offer \in Offers
    /\ q.pc \in PricedPCs => q.got = q.offer
    /\ q.pc = "coupon" => q.discount \in Sources
    /\ ChargeFits(q)
    /\ q.pc = "change" => AnswerApplied(replay.change[q.got])
    /\ q.pc = "answer" => AnswerApplied(q.answer) /\ q.answer # NoAnswer
    /\ q.pc \in ChangePCs \cup {"lock"} => paid.at # NoOffer

\* Whoever changes holds the lock; a buyer does not.
SubLocked ==
    /\ \A t, u \in subLock : t = u
    /\ \A t \in Desks : desk[t].pc \in ChangePCs => t \in subLock
    /\ \A t \in subLock :
          /\ desk[t].pc \notin {"idle", "lock"} /\ paid.at # NoOffer
          /\ desk[t].pc \notin ChangePCs => replay.change = FreshKey

SaleInv ==
    /\ SaleTypeOK /\ PricesFit /\ SubLocked
    /\ \A t \in Desks : DeskFits(desk[t])
    /\ SoldAsShown /\ ShownIsCharged
    /\ paid.at = NoOffer => paid.row = NoOffer /\ paid.pending = NoOffer

\* Nobody asks, nothing is sold.
LEMMA SaleInvInit == SaleInit => SaleInv
<1>. SUFFICES ASSUME SaleInit
              PROVE  SaleInv
  OBVIOUS
<1>1. Resting \in DeskRecords /\ NoAnswer \in Answers /\ NoSale.offer = NoSale.shown
      /\ Resting.pc = "idle" /\ Resting.charged = 0
  BY DEF Resting, DeskRecords, DeskPCs, MaybeOffers, Discounts, Answers, NoAnswer, NoSale
<1>2. SaleTypeOK
  BY <1>1, SaleConstants DEF SaleInit, SaleTypeOK, MaybeOffers, NoSale, Discounts, Rows
<1>3. PricesFit /\ SubLocked
  BY <1>1 DEF SaleInit, PricesFit, SubLocked, ChangePCs
<1>4. \A t \in Desks : DeskFits(desk[t])
  <2>. SUFFICES ASSUME NEW t \in Desks
                PROVE  DeskFits(desk[t])
    OBVIOUS
  <2>1. desk[t] = Resting
    BY DEF SaleInit
  <2>. QED  BY <1>1, <2>1 DEF DeskFits, ChargeFits, ChangePCs, PricedPCs
<1>. QED  BY <1>2, <1>3, <1>4 DEF SaleInit, SaleInv, SoldAsShown, ShownIsCharged, NoSale

\* Steps that leave the provider, the subscription and the requests alone.
LEMMA SaleKept ==
    ASSUME SaleInv, SaleTypeOK', UNCHANGED <<store, replay, paid, page, desk, subLock>>
    PROVE  SaleInv'
BY DEF SaleInv, PricesFit, SubLocked, DeskFits, ChargeFits, AnswerApplied, SoldAsShown, ShownIsCharged

\* What staff edit is not what was sold.
LEMMA StaffKeepsSales ==
    ASSUME SaleInv, StaffStep
    PROVE  SaleInv'
<1>1. SaleTypeOK
  BY DEF SaleInv
<1>2. ASSUME NEW s \in Staff, WritePlan(s)
      PROVE  SaleInv'
  <2>1. plan' \in Rows /\ draft' \in [Staff -> SUBSET Rows]
    BY <1>1, <1>2 DEF WritePlan, SaleTypeOK
  <2>. QED  BY <1>1, <1>2, <2>1, SaleKept DEF WritePlan, SaleTypeOK
<1>3. ASSUME NEW s \in Staff, NEW field \in Fields, NEW value \in Values(field),
             ReadPlan(s, field, value)
      PROVE  SaleInv'
  <2>1. Merged(plan, field, value) \in Rows
    BY <1>1 DEF SaleTypeOK, Rows, Merged, Values, Fields, Intervals
  <2>2. draft' \in [Staff -> SUBSET Rows]
    BY <1>1, <1>3, <2>1 DEF ReadPlan, SaleTypeOK
  <2>3. planEdits' \in 0..MaxPlanEdits
    BY <1>1, <1>3, SaleConstants DEF ReadPlan, Edits, SaleTypeOK
  <2>. QED  BY <1>1, <1>3, <2>2, <2>3, SaleKept DEF ReadPlan, Edits, SaleTypeOK
<1>4. ASSUME \/ \E state \in {"waiting", "running"} :
                   CreatePromotion(state) \/ UpdatePromotion(state)
             \/ DeletePromotion \/ CreateCode \/ UpdateCode
      PROVE  SaleInv'
  <2>1. Edits
    BY <1>4 DEF CreatePromotion, UpdatePromotion, DeletePromotion, CreateCode, UpdateCode
  <2>2. planEdits' \in 0..MaxPlanEdits
    BY <1>1, <2>1, SaleConstants DEF Edits, SaleTypeOK
  <2>3. /\ UNCHANGED <<plan, draft>>
        /\ promotion' \in {"none", "waiting", "running"}
        /\ code' \in {"none", "held", "disabled", "spent"}
    BY <1>1, <1>4 DEF CreatePromotion, UpdatePromotion, DeletePromotion, CreateCode,
         UpdateCode, SaleTypeOK, InWindow
  <2>. QED  BY <1>1, <2>1, <2>2, <2>3, SaleKept DEF Edits, SaleTypeOK
<1>. QED  BY <1>2, <1>3, <1>4 DEF StaffStep

\* A request that turns to something else; the rest follows from its record
\* when what it rests on stays.
LEMMA DeskTurns ==
    ASSUME SaleInv, NEW t \in Desks, NEW q \in DeskRecords,
           desk' = [desk EXCEPT ![t] = q],
           q.pc \in ChangePCs => q.pc = "change" /\ t \in subLock /\ desk[t].pc \notin ChangePCs,
           q.pc # "idle" => q.offer \in Offers,
           q.pc \in PricedPCs => q.got = q.offer,
           q.pc = "coupon" => q.discount \in Sources,
           q.charged = 0,
           q.pc = "lock" => paid.at # NoOffer,
           \/ subLock' = subLock \ {t} /\ q.pc \notin ChangePCs
           \/ subLock' = subLock /\ (t \in subLock => desk[t].pc \notin ChangePCs
                                                    /\ q.pc \notin {"idle", "lock"}),
           UNCHANGED <<catalogue, paid, told, planEdits>>,
           replay'.change = replay.change,
           store' \in [product : BOOLEAN, price : [Offers -> MaybeOffers]],
           replay' \in [price : [Offers -> MaybeOffers], coupons : SUBSET Sources,
                        change : [Offers -> Answers]],
           PricesFit',
           page' \in [offer : MaybeOffers, shown : MaybeOffers, discount : Discounts],
           SoldAsShown',
           saleErrors' \in 0..MaxSaleErrors
    PROVE  SaleInv'
<1>1. SaleTypeOK /\ desk \in [Desks -> DeskRecords]
  BY DEF SaleInv, SaleTypeOK
<1>2. desk' \in [Desks -> DeskRecords] /\ desk'[t] = q
      /\ \A u \in Desks \ {t} : desk'[u] = desk[u]
  BY <1>1
<1>3. subLock' \subseteq subLock
  OBVIOUS
<1>4. SaleTypeOK'
  BY <1>1, <1>2, <1>3 DEF SaleTypeOK, catalogue
<1>5. SubLocked'
  <2>1. SubLocked /\ FreshKey' = FreshKey /\ subLock \subseteq Desks
    BY <1>1 DEF SaleInv, FreshKey, SaleTypeOK
  <2>2. \A u, v \in subLock' : u = v
    BY <1>3, <2>1 DEF SubLocked
  <2>3. \A u \in Desks : desk'[u].pc \in ChangePCs => u \in subLock'
    BY <1>2, <2>1 DEF SubLocked
  <2>4. ASSUME NEW u \in subLock'
        PROVE  /\ desk'[u].pc \notin {"idle", "lock"} /\ paid'.at # NoOffer
               /\ desk'[u].pc \notin ChangePCs => replay'.change = FreshKey
    <3>1. u \in subLock /\ u \in Desks
      BY <1>3, <2>1, <2>4
    <3>2. CASE u = t
      BY <1>2, <2>1, <3>1, <3>2, <2>4 DEF SubLocked
    <3>3. CASE u # t
      BY <1>2, <2>1, <3>1, <3>3 DEF SubLocked
    <3>. QED  BY <3>2, <3>3
  <2>. QED  BY <2>1, <2>2, <2>3, <2>4 DEF SubLocked
<1>6. ASSUME NEW u \in Desks
      PROVE  DeskFits(desk[u])'
  <2>1. CASE u = t
    <3>1. q.pc = "change" => paid.at # NoOffer /\ q.got \in Offers /\ replay.change = FreshKey
      BY DEF SaleInv, SubLocked, PricedPCs, ChangePCs
    <3>2. q.pc = "change" => replay'.change[q.got] = NoAnswer
      BY <3>1 DEF FreshKey
    <3>. QED  BY <1>2, <2>1, <3>1, <3>2 DEF DeskFits, ChargeFits, ChangePCs, AnswerApplied
  <2>2. CASE u # t
    BY <1>2, <2>2 DEF DeskFits, ChargeFits, SaleInv, AnswerApplied
  <2>. QED  BY <2>1, <2>2
<1>. QED  BY <1>4, <1>5, <1>6 DEF SaleInv, ShownIsCharged

\* An idle request rests on nothing.
LEMMA RestingFits ==
    /\ Resting \in DeskRecords /\ Resting.pc = "idle" /\ Resting.charged = 0
    /\ "idle" \notin ChangePCs \cup PricedPCs
BY DEF Resting, DeskRecords, DeskPCs, MaybeOffers, Discounts, Answers, NoAnswer,
   ChangePCs, PricedPCs

\* A request that ends.
LEMMA DeskEnds ==
    ASSUME SaleInv, NEW t \in Desks, Ends(t),
           UNCHANGED <<catalogue, paid, told, planEdits>>,
           replay'.change = replay.change,
           store' \in [product : BOOLEAN, price : [Offers -> MaybeOffers]],
           replay' \in [price : [Offers -> MaybeOffers], coupons : SUBSET Sources,
                        change : [Offers -> Answers]],
           PricesFit',
           page' \in [offer : MaybeOffers, shown : MaybeOffers, discount : Discounts],
           SoldAsShown',
           saleErrors' \in 0..MaxSaleErrors
    PROVE  SaleInv'
BY RestingFits, DeskTurns DEF Ends

\* What a request holds, by its state.
LEMMA DeskTyped ==
    ASSUME SaleInv, NEW t \in Desks
    PROVE  /\ desk \in [Desks -> DeskRecords] /\ desk[t] \in DeskRecords
           /\ DeskFits(desk[t])
           /\ store \in [product : BOOLEAN, price : [Offers -> MaybeOffers]]
           /\ replay \in [price : [Offers -> MaybeOffers], coupons : SUBSET Sources,
                          change : [Offers -> Answers]]
           /\ page \in [offer : MaybeOffers, shown : MaybeOffers, discount : Discounts]
           /\ saleErrors \in 0..MaxSaleErrors
           /\ PricesFit /\ SoldAsShown
           /\ t \in subLock => desk[t].pc \notin {"idle", "lock"}
BY DEF SaleInv, SaleTypeOK, SubLocked

\* A call of a request that charges nothing gets lost.
LEMMA DeskLost ==
    ASSUME SaleInv, NEW t \in Desks, NEW made \in BOOLEAN, Lost(t, 0, made),
           desk[t].pc \notin ChangePCs \cup {"idle", "lock"},
           UNCHANGED <<catalogue, paid, told, planEdits, page>>,
           replay'.change = replay.change,
           store' \in [product : BOOLEAN, price : [Offers -> MaybeOffers]],
           replay' \in [price : [Offers -> MaybeOffers], coupons : SUBSET Sources,
                        change : [Offers -> Answers]],
           PricesFit'
    PROVE  SaleInv'
<1>1. saleErrors' \in 0..MaxSaleErrors
  BY DeskTyped, SaleConstants DEF Lost
<1>2. SoldAsShown' /\ page' \in [offer : MaybeOffers, shown : MaybeOffers, discount : Discounts]
  BY DeskTyped DEF SoldAsShown
<1>3. CASE Ends(t)
  BY <1>1, <1>2, <1>3, DeskEnds
<1>4. CASE ~Ends(t)
  <2>. DEFINE q == [desk[t] EXCEPT !.again = TRUE, !.mine = made,
                           !.charged = @ + 0]
  <2>1. /\ desk[t] \in DeskRecords /\ DeskFits(desk[t]) /\ desk[t].charged = 0
        /\ desk \in [Desks -> DeskRecords]
    BY DeskTyped DEF DeskFits, ChargeFits
  <2>2. desk' = [desk EXCEPT ![t] = q] /\ UNCHANGED subLock
    BY <1>4, <2>1 DEF Lost, DeskRecords
  <2>3. /\ q \in DeskRecords /\ q.pc = desk[t].pc /\ q.offer = desk[t].offer
        /\ q.got = desk[t].got /\ q.charged = 0 /\ q.discount = desk[t].discount
    BY <2>1, desk[t].charged + 0 = 0 DEF DeskRecords
  <2>4. /\ q.pc \notin ChangePCs \cup {"idle", "lock"} /\ q.offer \in Offers
        /\ q.pc \in PricedPCs => q.got = q.offer
        /\ q.pc = "coupon" => q.discount \in Sources
    BY <2>1, <2>3 DEF DeskFits
  <2>. HIDE DEF q
  <2>. QED  BY <1>1, <1>2, <2>2, <2>3, <2>4, DeskTurns
<1>. QED  BY <1>3, <1>4

\* A request finds the price of its offer.
LEMMA DeskPriced ==
    ASSUME SaleInv, NEW t \in Desks, desk[t].pc \in {"find", "price"},
           Priced(t, desk[t].offer),
           UNCHANGED <<catalogue, paid, told, planEdits, page, saleErrors>>,
           replay'.change = replay.change,
           store' \in [product : BOOLEAN, price : [Offers -> MaybeOffers]],
           replay' \in [price : [Offers -> MaybeOffers], coupons : SUBSET Sources,
                        change : [Offers -> Answers]],
           PricesFit'
    PROVE  SaleInv'
<1>1. SoldAsShown' /\ page' \in [offer : MaybeOffers, shown : MaybeOffers, discount : Discounts]
      /\ saleErrors' \in 0..MaxSaleErrors
  BY DeskTyped DEF SoldAsShown
<1>2. CASE Ends(t)
  BY <1>1, <1>2, DeskEnds
<1>3. CASE ~Ends(t)
  <2>. DEFINE pc == IF Moves(t) THEN "change"
                    ELSE IF desk[t].discount # "none" THEN "coupon" ELSE "open"
              q == [desk[t] EXCEPT !.got = desk[t].offer, !.again = FALSE, !.pc = pc]
  <2>1. desk' = [desk EXCEPT ![t] = q] /\ UNCHANGED subLock
    BY <1>3, DeskTyped DEF Priced, DeskRecords
  <2>2. desk[t] \in DeskRecords /\ desk[t].offer \in Offers /\ desk[t].charged = 0
        /\ desk[t].pc \notin ChangePCs
    BY DeskTyped DEF DeskFits, ChargeFits, ChangePCs
  <2>3. /\ pc \in DeskPCs
        /\ pc \in ChangePCs => pc = "change" /\ t \in subLock
        /\ pc \notin {"idle", "lock"}
        /\ pc = "coupon" => desk[t].discount \in Sources
    BY <2>2 DEF DeskPCs, Moves, ChangePCs, DeskRecords, Discounts
  <2>4. q \in DeskRecords /\ q.pc = pc /\ q.got = q.offer /\ q.offer = desk[t].offer
    <3>1. desk[t].offer \in MaybeOffers /\ pc \in DeskPCs
      BY <2>2, <2>3 DEF MaybeOffers
    <3>. HIDE DEF pc
    <3>2. q \in DeskRecords
      BY <2>2, <3>1 DEF DeskRecords
    <3>3. q.pc = pc /\ q.got = desk[t].offer /\ q.offer = desk[t].offer
      BY <2>2 DEF DeskRecords
    <3>. QED  BY <3>2, <3>3
  <2>5. q.charged = 0 /\ q.discount = desk[t].discount
    BY <2>2 DEF DeskRecords
  <2>6. /\ q.pc \in ChangePCs => q.pc = "change" /\ t \in subLock /\ desk[t].pc \notin ChangePCs
        /\ q.pc # "idle" => q.offer \in Offers
        /\ q.pc \in PricedPCs => q.got = q.offer
        /\ q.pc = "coupon" => q.discount \in Sources
        /\ q.pc = "lock" => paid.at # NoOffer
        /\ t \in subLock => desk[t].pc \notin ChangePCs /\ q.pc \notin {"idle", "lock"}
    <3>. HIDE DEF q, pc
    <3>. QED  BY <2>2, <2>3, <2>4, <2>5
  <2>. HIDE DEF q
  <2>. QED  BY <1>1, <2>1, <2>4, <2>5, <2>6, DeskTurns
<1>. QED  BY <1>2, <1>3

\* A request starts.
LEMMA AskKeeps ==
    ASSUME SaleInv, NEW t \in Desks, NEW interval \in Intervals,
           AskToBuy(t, interval) \/ AskToChange(t, interval)
    PROVE  SaleInv'
<1>1. SaleTypeOK /\ desk \in [Desks -> DeskRecords] /\ desk[t].pc = "idle"
      /\ t \notin subLock
  BY DeskTyped DEF SaleInv, SaleTypeOK, AskToBuy, AskToChange, Waits
<1>2. PriceSpec(interval) \in Offers
  BY <1>1 DEF SaleTypeOK, Rows, AskToBuy, AskToChange, Purchasable, PriceOf, PriceSpec, Offers,
       Values, Fields, Intervals
<1>3. BestDiscount \in Discounts
  BY DEF BestDiscount, Discounts, Sources
<1>4. PICK q \in DeskRecords :
        /\ desk' = [desk EXCEPT ![t] = q] /\ q.pc \in {"find", "lock"}
        /\ q.offer = PriceSpec(interval) /\ q.charged = 0
        /\ q.pc = "lock" => AskToChange(t, interval)
  <2>. DEFINE f == [Resting EXCEPT !.pc = "find", !.discount = BestDiscount,
                                   !.offer = PriceSpec(interval)]
              l == [Resting EXCEPT !.pc = "lock", !.offer = PriceSpec(interval)]
  <2>1. CASE AskToBuy(t, interval)
    <3>1. f \in DeskRecords /\ f.pc = "find" /\ f.offer = PriceSpec(interval) /\ f.charged = 0
      BY <1>2, <1>3, RestingFits DEF DeskRecords, DeskPCs, MaybeOffers, Resting
    <3>2. desk' = [desk EXCEPT ![t] = f]
      BY <2>1 DEF AskToBuy
    <3>. HIDE DEF f
    <3>. QED  BY <3>1, <3>2
  <2>2. CASE AskToChange(t, interval)
    <3>1. l \in DeskRecords /\ l.pc = "lock" /\ l.offer = PriceSpec(interval) /\ l.charged = 0
      BY <1>2, RestingFits DEF DeskRecords, DeskPCs, MaybeOffers, Resting
    <3>2. desk' = [desk EXCEPT ![t] = l]
      BY <2>2 DEF AskToChange
    <3>. HIDE DEF l
    <3>. QED  BY <2>2, <3>1, <3>2
  <2>. QED  BY <2>1, <2>2
<1>6. q.pc \notin PricedPCs \cup ChangePCs /\ q.pc # "coupon"
  BY <1>4 DEF PricedPCs, ChangePCs
<1>7. q.pc = "lock" => paid.at # NoOffer
  BY <1>4 DEF AskToChange, SaleInv
<1>8. /\ UNCHANGED <<catalogue, paid, told, planEdits, store, replay, page, subLock, saleErrors>>
  BY DEF AskToBuy, AskToChange
<1>9. /\ store' \in [product : BOOLEAN, price : [Offers -> MaybeOffers]]
      /\ replay' \in [price : [Offers -> MaybeOffers], coupons : SUBSET Sources,
                      change : [Offers -> Answers]]
      /\ PricesFit'
      /\ page' \in [offer : MaybeOffers, shown : MaybeOffers, discount : Discounts]
      /\ SoldAsShown'
      /\ saleErrors' \in 0..MaxSaleErrors
  BY <1>8, DeskTyped DEF PricesFit, SoldAsShown
<1>. QED  BY <1>1, <1>2, <1>4, <1>6, <1>7, <1>8, <1>9, DeskTurns

\* A change takes the lock, and a key nobody used.
LEMMA LockPaidKeeps ==
    ASSUME SaleInv, NEW t \in Desks, LockPaid(t)
    PROVE  SaleInv'
<1>. DEFINE q == [desk[t] EXCEPT !.pc = "find", !.again = FALSE]
<1>1. /\ SaleTypeOK /\ desk \in [Desks -> DeskRecords] /\ desk[t] \in DeskRecords
      /\ DeskFits(desk[t]) /\ desk[t].pc = "lock" /\ subLock' = {t} /\ subLock = {}
  BY DeskTyped DEF SaleInv, LockPaid, Waits
<1>2. desk' = [desk EXCEPT ![t] = q]
  BY <1>1 DEF LockPaid, Goes
<1>3. /\ q \in DeskRecords /\ q.pc = "find" /\ q.offer = desk[t].offer /\ q.charged = 0
      /\ q.offer \in Offers
  BY <1>1 DEF DeskRecords, DeskPCs, DeskFits, ChargeFits, ChangePCs
<1>. HIDE DEF q
<1>4. FreshKey \in [Offers -> Answers]
  BY DEF FreshKey, NoAnswer, Answers, MaybeOffers
<1>5. /\ desk' \in [Desks -> DeskRecords] /\ desk'[t] = q
      /\ \A u \in Desks \ {t} : desk'[u] = desk[u]
  BY <1>1, <1>2, <1>3
<1>6. /\ replay' \in [price : [Offers -> MaybeOffers], coupons : SUBSET Sources,
                      change : [Offers -> Answers]]
      /\ replay'.change = FreshKey /\ replay'.price = replay.price
  BY <1>1, <1>4 DEF LockPaid, SaleTypeOK
<1>7. SaleTypeOK'
  BY <1>1, <1>5, <1>6 DEF SaleTypeOK, LockPaid, catalogue
<1>8. paid'.at # NoOffer /\ UNCHANGED <<paid, page, store>>
  BY <1>1 DEF DeskFits, LockPaid
<1>9. SubLocked'
  <2>1. \A u \in Desks : desk'[u].pc \in ChangePCs => u \in subLock'
    BY <1>1, <1>3, <1>5 DEF SaleInv, SubLocked, ChangePCs
  <2>. QED  BY <1>1, <1>3, <1>5, <1>6, <1>8, <2>1 DEF SubLocked, FreshKey
<1>10. ASSUME NEW u \in Desks
       PROVE  DeskFits(desk[u])'
  <2>1. CASE u = t
    BY <1>3, <1>5, <2>1 DEF DeskFits, ChargeFits, ChangePCs, PricedPCs
  <2>2. CASE u # t
    <3>1. desk'[u] = desk[u] /\ desk[u].pc \notin ChangePCs /\ DeskFits(desk[u])
      BY <1>1, <1>5, <2>2 DEF SaleInv, SubLocked
    <3>. QED  BY <1>8, <3>1 DEF DeskFits, ChargeFits, ChangePCs
  <2>. QED  BY <2>1, <2>2
<1>. QED  BY <1>6, <1>7, <1>8, <1>9, <1>10 DEF SaleInv, PricesFit, SoldAsShown, ShownIsCharged

\* The price is found, or a product is asked for.
LEMMA FindPriceKeeps ==
    ASSUME SaleInv, NEW t \in Desks, FindPrice(t)
    PROVE  SaleInv'
<1>1. /\ desk[t].pc = "find" /\ desk[t] \in DeskRecords /\ desk[t].offer \in Offers
      /\ desk[t].charged = 0 /\ desk \in [Desks -> DeskRecords]
  BY DeskTyped DEF FindPrice, Waits, DeskFits, ChargeFits, ChangePCs
<1>2. /\ UNCHANGED <<catalogue, paid, told, planEdits, store, replay, page, saleErrors>>
      /\ PricesFit' /\ SoldAsShown'
      /\ store' \in [product : BOOLEAN, price : [Offers -> MaybeOffers]]
      /\ replay' \in [price : [Offers -> MaybeOffers], coupons : SUBSET Sources,
                      change : [Offers -> Answers]]
      /\ page' \in [offer : MaybeOffers, shown : MaybeOffers, discount : Discounts]
      /\ saleErrors' \in 0..MaxSaleErrors
  BY DeskTyped DEF FindPrice, PricesFit, SoldAsShown
<1>3. store.price[desk[t].offer] \in {NoOffer, desk[t].offer}
  BY <1>1, DeskTyped DEF PricesFit
<1>4. CASE store.price[desk[t].offer] = NoOffer
  <2>. DEFINE q == [desk[t] EXCEPT !.pc = "product", !.again = FALSE]
  <2>1. desk' = [desk EXCEPT ![t] = q] /\ UNCHANGED subLock
    BY <1>1, <1>4 DEF FindPrice, LookupKey, Goes
  <2>2. /\ q \in DeskRecords /\ q.pc = "product" /\ q.offer = desk[t].offer
        /\ q.charged = 0 /\ q.pc \notin PricedPCs \cup ChangePCs
    BY <1>1 DEF DeskRecords, DeskPCs, PricedPCs, ChangePCs
  <2>. HIDE DEF q
  <2>. QED  BY <1>1, <1>2, <2>1, <2>2, DeskTurns DEF ChangePCs
<1>5. CASE store.price[desk[t].offer] # NoOffer
  <2>1. Priced(t, desk[t].offer)
    BY <1>3, <1>5 DEF FindPrice, LookupKey
  <2>. QED  BY <1>1, <1>2, <2>1, DeskPriced
<1>. QED  BY <1>4, <1>5

\* The product is created, or its call is lost.
LEMMA MakeProductKeeps ==
    ASSUME SaleInv, NEW t \in Desks, NEW fate \in Fates, MakeProduct(t, fate)
    PROVE  SaleInv'
<1>1. /\ desk[t].pc = "product" /\ desk[t] \in DeskRecords /\ desk[t].offer \in Offers
      /\ desk[t].charged = 0 /\ desk \in [Desks -> DeskRecords]
      /\ desk[t].pc \notin ChangePCs \cup {"idle", "lock"}
  BY DeskTyped DEF MakeProduct, Waits, DeskFits, ChargeFits, ChangePCs
<1>2. /\ UNCHANGED <<catalogue, paid, told, planEdits, replay, page>> /\ store'.price = store.price
      /\ store' \in [product : BOOLEAN, price : [Offers -> MaybeOffers]]
      /\ replay' \in [price : [Offers -> MaybeOffers], coupons : SUBSET Sources,
                      change : [Offers -> Answers]]
      /\ page' \in [offer : MaybeOffers, shown : MaybeOffers, discount : Discounts]
  BY DeskTyped DEF MakeProduct
<1>3. PricesFit' /\ SoldAsShown'
  BY <1>2, DeskTyped DEF PricesFit, SoldAsShown
<1>4. CASE fate = "answered"
  <2>. DEFINE q == [desk[t] EXCEPT !.pc = "price", !.again = FALSE]
  <2>1. desk' = [desk EXCEPT ![t] = q] /\ UNCHANGED subLock /\ saleErrors' \in 0..MaxSaleErrors
    BY <1>1, <1>4, DeskTyped DEF MakeProduct, Goes
  <2>2. /\ q \in DeskRecords /\ q.pc = "price" /\ q.offer = desk[t].offer
        /\ q.charged = 0 /\ q.pc \notin PricedPCs \cup ChangePCs
    BY <1>1 DEF DeskRecords, DeskPCs, PricedPCs, ChangePCs
  <2>. HIDE DEF q
  <2>. QED  BY <1>1, <1>2, <1>3, <2>1, <2>2, DeskTurns DEF ChangePCs
<1>5. CASE fate # "answered"
  <2>1. Lost(t, 0, FALSE)
    BY <1>5 DEF MakeProduct
  <2>. QED  BY <1>1, <1>2, <1>3, <2>1, DeskLost
<1>. QED  BY <1>4, <1>5

\* The price is created under its own key.
LEMMA MakePriceKeeps ==
    ASSUME SaleInv, NEW t \in Desks, NEW fate \in Fates, MakePrice(t, fate)
    PROVE  SaleInv'
<1>. DEFINE k == desk[t].offer
<1>1. /\ desk[t].pc = "price" /\ desk[t] \in DeskRecords /\ k \in Offers
      /\ desk[t].pc \notin ChangePCs \cup {"idle", "lock"}
  BY DeskTyped DEF MakePrice, Waits, DeskFits, ChangePCs
<1>2. replay.price[k] \in {NoOffer, k} /\ store.price[k] \in {NoOffer, k}
  BY <1>1, DeskTyped DEF PricesFit
<1>3. /\ store' \in {store, [store EXCEPT !.price[k] = k]}
      /\ replay' \in {replay, [replay EXCEPT !.price[k] = k]}
  BY <1>2 DEF MakePrice, LookupKey
<1>4. /\ UNCHANGED <<catalogue, paid, told, planEdits, page>>
      /\ store' \in [product : BOOLEAN, price : [Offers -> MaybeOffers]]
      /\ replay' \in [price : [Offers -> MaybeOffers], coupons : SUBSET Sources,
                      change : [Offers -> Answers]]
      /\ replay'.change = replay.change
  BY <1>1, <1>3, DeskTyped DEF MakePrice, MaybeOffers
<1>5. PricesFit'
  BY <1>1, <1>3, DeskTyped DEF PricesFit
<1>6. CASE fate = "answered"
  <2>1. Priced(t, k) /\ UNCHANGED saleErrors
    BY <1>2, <1>6 DEF MakePrice, LookupKey
  <2>. QED  BY <1>1, <1>4, <1>5, <2>1, DeskPriced
<1>7. CASE fate # "answered"
  <2>1. Lost(t, 0, FALSE)
    BY <1>7 DEF MakePrice
  <2>. QED  BY <1>1, <1>4, <1>5, <2>1, DeskLost
<1>. QED  BY <1>6, <1>7

\* The coupon of the best discount is created, or refused.
LEMMA MakeCouponKeeps ==
    ASSUME SaleInv, NEW t \in Desks, NEW fate \in Fates, MakeCoupon(t, fate)
    PROVE  SaleInv'
<1>1. /\ desk[t].pc = "coupon" /\ desk[t] \in DeskRecords /\ desk[t].offer \in Offers
      /\ desk[t].got = desk[t].offer
      /\ desk[t].charged = 0 /\ desk \in [Desks -> DeskRecords]
      /\ desk[t].pc \notin ChangePCs \cup {"idle", "lock"}
  BY DeskTyped DEF MakeCoupon, Waits, DeskFits, ChargeFits, ChangePCs, PricedPCs
<1>2. /\ UNCHANGED <<catalogue, paid, told, planEdits, store, page>>
      /\ store' \in [product : BOOLEAN, price : [Offers -> MaybeOffers]]
      /\ page' \in [offer : MaybeOffers, shown : MaybeOffers, discount : Discounts]
  BY DeskTyped DEF MakeCoupon
<1>. DEFINE s == desk[t].discount
<1>3. s \in Sources
  BY <1>1, DeskTyped DEF DeskFits
<1>4. replay' \in {replay, [replay EXCEPT !.coupons = @ \cup {s}]}
  BY DEF MakeCoupon
<1>5. /\ replay' \in [price : [Offers -> MaybeOffers], coupons : SUBSET Sources,
                      change : [Offers -> Answers]]
      /\ replay'.change = replay.change /\ replay'.price = replay.price
  BY <1>3, <1>4, DeskTyped
<1>6. PricesFit' /\ SoldAsShown'
  BY <1>2, <1>5, DeskTyped DEF PricesFit, SoldAsShown, MakeCoupon
<1>7. CASE fate = "answered"
  <2>. DEFINE q == [desk[t] EXCEPT !.pc = "open", !.again = FALSE]
  <2>1. saleErrors' \in 0..MaxSaleErrors
    BY <1>7, DeskTyped DEF MakeCoupon
  <2>2. CASE Ends(t)
    BY <1>2, <1>5, <1>6, <2>1, <2>2, DeskEnds
  <2>3. CASE ~Ends(t)
    <3>1. desk' = [desk EXCEPT ![t] = q] /\ UNCHANGED subLock
      BY <1>1, <1>7, <2>3 DEF MakeCoupon, Goes
    <3>2. /\ q \in DeskRecords /\ q.pc = "open" /\ q.offer = desk[t].offer
          /\ q.charged = 0 /\ q.got = q.offer /\ q.pc \notin ChangePCs
      BY <1>1 DEF DeskRecords, DeskPCs, ChangePCs
    <3>. HIDE DEF q
    <3>. QED  BY <1>1, <1>2, <1>5, <1>6, <2>1, <3>1, <3>2, DeskTurns DEF ChangePCs
  <2>. QED  BY <2>2, <2>3
<1>8. CASE fate # "answered"
  <2>1. PICK made \in BOOLEAN : Lost(t, 0, made)
    BY <1>8 DEF MakeCoupon
  <2>. QED  BY <1>1, <1>2, <1>5, <1>6, <2>1, DeskLost
<1>. QED  BY <1>7, <1>8

\* The page is opened with what was asked for.
LEMMA OpenPageKeeps ==
    ASSUME SaleInv, NEW t \in Desks, OpenPage(t)
    PROVE  SaleInv'
<1>1. /\ desk[t].pc = "open" /\ desk[t] \in DeskRecords /\ desk[t].got = desk[t].offer
      /\ desk[t].offer \in Offers
  BY DeskTyped DEF OpenPage, Waits, DeskFits, PricedPCs
<1>2. /\ page' \in {page, PageOf(desk[t])}
      /\ UNCHANGED <<catalogue, store, replay, paid, told, planEdits, saleErrors>>
  BY DEF OpenPage
<1>3. /\ page' \in [offer : MaybeOffers, shown : MaybeOffers, discount : Discounts]
      /\ SoldAsShown'
  BY <1>1, <1>2, DeskTyped DEF PageOf, DeskRecords, SoldAsShown
<1>4. /\ store' \in [product : BOOLEAN, price : [Offers -> MaybeOffers]]
      /\ replay' \in [price : [Offers -> MaybeOffers], coupons : SUBSET Sources,
                      change : [Offers -> Answers]]
      /\ PricesFit' /\ saleErrors' \in 0..MaxSaleErrors
  BY <1>2, DeskTyped DEF PricesFit
<1>. QED  BY <1>2, <1>3, <1>4, DeskEnds DEF OpenPage

\* The requests' own promises, when only the subscription moves.
LEMMA PayPageKeeps ==
    ASSUME SaleInv, PayPage
    PROVE  SaleInv'
<1>1. SaleTypeOK /\ page.offer \in Offers /\ paid.at = NoOffer
  BY DEF SaleInv, SaleTypeOK, PayPage, MaybeOffers
<1>2. /\ paid' = [at |-> page.offer, row |-> page.offer, pending |-> NoOffer, drift |-> FALSE]
      /\ page' = NoSale /\ code' \in {code, "spent"}
      /\ UNCHANGED <<plan, draft, promotion, store, replay, desk, subLock, told, planEdits,
                     saleErrors>>
  BY DEF PayPage
<1>3. SaleTypeOK'
  BY <1>1, <1>2 DEF SaleTypeOK, MaybeOffers, NoSale, Discounts
<1>4. NoOffer \notin Offers
  BY DEF NoOffer, Offers, Intervals
<1>5. ASSUME NEW u \in Desks
      PROVE  DeskFits(desk[u])'
  <2>1. DeskFits(desk[u]) /\ desk[u].pc \notin ChangePCs \cup {"lock"}
    BY <1>1 DEF SaleInv, DeskFits
  <2>. QED  BY <1>2, <2>1 DEF DeskFits, ChargeFits, ChangePCs
<1>6. SubLocked'
  BY <1>1, <1>2, <1>4 DEF SaleInv, SubLocked, FreshKey
<1>. QED  BY <1>1, <1>2, <1>3, <1>4, <1>5, <1>6
       DEF SaleInv, PricesFit, SoldAsShown, ShownIsCharged, NoSale

\* A charge is confirmed: the row lags behind.
LEMMA ConfirmKeeps ==
    ASSUME SaleInv, ConfirmCharge
    PROVE  SaleInv'
<1>1. /\ SaleTypeOK /\ paid.pending \in Offers /\ NoOffer \notin Offers
  BY DEF SaleInv, SaleTypeOK, ConfirmCharge, MaybeOffers, NoOffer, Offers, Intervals
<1>2. /\ paid' = [paid EXCEPT !.at = paid.pending, !.pending = NoOffer, !.drift = TRUE]
      /\ UNCHANGED <<catalogue, store, replay, page, desk, subLock, told, planEdits, saleErrors>>
  BY DEF ConfirmCharge
<1>3. /\ paid' \in [at : MaybeOffers, row : MaybeOffers, pending : MaybeOffers, drift : BOOLEAN]
      /\ paid'.at \in Offers /\ paid'.drift
  BY <1>1, <1>2 DEF SaleTypeOK, MaybeOffers
<1>4. SaleTypeOK'
  BY <1>1, <1>2, <1>3 DEF SaleTypeOK, catalogue
<1>5. ASSUME NEW u \in Desks
      PROVE  DeskFits(desk[u])'
  <2>1. DeskFits(desk[u])
    BY DEF SaleInv
  <2>2. ASSUME NEW answer, AnswerApplied(answer)
        PROVE  answer # NoAnswer => answer.pending
    BY <1>1, <2>2 DEF AnswerApplied
  <2>. QED  BY <1>1, <1>2, <1>3, <2>1, <2>2 DEF DeskFits, ChargeFits, AnswerApplied
<1>6. SubLocked'
  BY <1>1, <1>2, <1>3 DEF SaleInv, SubLocked, FreshKey
<1>. QED  BY <1>1, <1>2, <1>3, <1>4, <1>5, <1>6
       DEF SaleInv, PricesFit, SoldAsShown, ShownIsCharged

\* Nobody rests on the row.
LEMMA MirrorPriceKeeps ==
    ASSUME SaleInv, MirrorPrice
    PROVE  SaleInv'
<1>1. /\ SaleTypeOK
      /\ paid' = [paid EXCEPT !.row = paid.at, !.drift = FALSE]
      /\ UNCHANGED <<catalogue, store, replay, page, desk, subLock, told, planEdits, saleErrors>>
  BY DEF SaleInv, MirrorPrice
<1>2. /\ paid' \in [at : MaybeOffers, row : MaybeOffers, pending : MaybeOffers, drift : BOOLEAN]
      /\ paid'.at = paid.at /\ paid'.row = paid.at /\ paid'.pending = paid.pending
  BY <1>1 DEF SaleTypeOK
<1>3. SaleTypeOK'
  BY <1>1, <1>2 DEF SaleTypeOK, catalogue
<1>4. \A u \in Desks : DeskFits(desk[u])'
  BY <1>1, <1>2 DEF SaleInv, DeskFits, ChargeFits, AnswerApplied
<1>5. SubLocked'
  BY <1>1, <1>2 DEF SaleInv, SubLocked, FreshKey
<1>. QED  BY <1>1, <1>2, <1>3, <1>4, <1>5 DEF SaleInv, PricesFit, SoldAsShown, ShownIsCharged

\* The provider forgets an hour, or archives a price.
LEMMA ProviderKeeps ==
    ASSUME SaleInv, HourPasses \/ \E offer \in Offers : Archive(offer)
    PROVE  SaleInv'
<1>1. /\ SaleTypeOK
      /\ store' \in [product : BOOLEAN, price : [Offers -> MaybeOffers]]
      /\ replay' \in [price : [Offers -> MaybeOffers], coupons : SUBSET Sources,
                      change : [Offers -> Answers]]
      /\ replay'.change = replay.change /\ PricesFit'
      /\ planEdits' \in 0..MaxPlanEdits
      /\ UNCHANGED <<catalogue, paid, page, desk, subLock, told, saleErrors>>
  <2>1. CASE HourPasses
    BY <2>1 DEF HourPasses, SaleInv, SaleTypeOK, PricesFit
  <2>2. CASE \E offer \in Offers : Archive(offer)
    <3>1. PICK offer \in Offers : Archive(offer)
      BY <2>2
    <3>2. store' = [store EXCEPT !.price[offer] = NoOffer] /\ replay' = replay
          /\ planEdits' = planEdits + 1 /\ planEdits < MaxPlanEdits
      BY <3>1 DEF Archive
    <3>3. SaleTypeOK /\ PricesFit
      BY DEF SaleInv
    <3>4. store' \in [product : BOOLEAN, price : [Offers -> MaybeOffers]] /\ PricesFit'
      BY <3>2, <3>3 DEF SaleTypeOK, PricesFit, MaybeOffers
    <3>5. planEdits' \in 0..MaxPlanEdits
      BY <3>2, <3>3, SaleConstants DEF SaleTypeOK
    <3>. QED  BY <3>1, <3>2, <3>3, <3>4, <3>5 DEF Archive, SaleTypeOK
  <2>. QED  BY <2>1, <2>2
<1>2. SaleTypeOK'
  BY <1>1 DEF SaleTypeOK, catalogue
<1>3. \A u \in Desks : DeskFits(desk[u])'
  BY <1>1 DEF SaleInv, DeskFits, ChargeFits, AnswerApplied
<1>4. SubLocked'
  BY <1>1 DEF SaleInv, SubLocked, FreshKey
<1>. QED  BY <1>1, <1>2, <1>3, <1>4 DEF SaleInv, SoldAsShown, ShownIsCharged

\* A change that reaches the provider, or does not.
LEMMA ChangePriceKeeps ==
    ASSUME SaleInv, NEW t \in Desks, NEW fate \in Fates, NEW confirmed \in BOOLEAN,
           ChangePrice(t, fate, confirmed)
    PROVE  SaleInv'
<1>0. PICK offer : offer = desk[t].got
  OBVIOUS
<1>. DEFINE first == fate # "failed" /\ replay.change[offer] = NoAnswer
<1>1. /\ SaleTypeOK /\ desk[t].pc = "change" /\ desk[t] \in DeskRecords
      /\ desk[t].got = desk[t].offer /\ offer \in Offers /\ DeskFits(desk[t])
      /\ t \in subLock /\ paid.at # NoOffer /\ NoOffer \notin Offers
      /\ desk \in [Desks -> DeskRecords] /\ subLock = {t}
  BY <1>0, DeskTyped DEF SaleInv, ChangePrice, Waits, DeskFits, PricedPCs, ChangePCs, SubLocked,
     NoOffer, Offers, Intervals
<1>2. /\ paid' = IF first THEN Moved(offer, confirmed) ELSE paid
      /\ replay' = IF first THEN [replay EXCEPT !.change[offer] =
                                    [at |-> paid'.at, pending |-> ~confirmed]]
                   ELSE replay
      /\ UNCHANGED <<catalogue, store, page, told, planEdits>>
  BY <1>0 DEF ChangePrice, Seen
<1>3. /\ paid' \in [at : MaybeOffers, row : MaybeOffers, pending : MaybeOffers, drift : BOOLEAN]
      /\ paid'.at # NoOffer
      /\ ~first => paid' = paid
      /\ first /\ confirmed => paid'.at = offer /\ paid'.pending = NoOffer
      /\ paid'.row = paid.row /\ (paid'.at # paid.at \/ paid'.drift # paid.drift => paid'.drift)
  BY <1>1, <1>2 DEF SaleTypeOK, Moved, MaybeOffers
<1>4. [at |-> paid'.at, pending |-> ~confirmed] \in Answers
  BY <1>3 DEF Answers
<1>5. /\ replay' \in [price : [Offers -> MaybeOffers], coupons : SUBSET Sources,
                      change : [Offers -> Answers]]
      /\ replay'.price = replay.price
      /\ first => replay'.change[offer] = [at |-> paid'.at, pending |-> ~confirmed]
      /\ ~first => replay' = replay
  BY <1>1, <1>2, <1>4 DEF SaleTypeOK
<1>6. AnswerApplied(replay.change[offer]) /\ ChargeFits(desk[t])
  BY <1>0, <1>1 DEF DeskFits
<1>7. AnswerApplied(replay.change[offer])'
  <2>1. CASE first
    <3>1. (replay'.change[offer]).pending = ~confirmed /\ (replay'.change[offer]).at = paid'.at
      BY <1>5, <2>1
    <3>2. confirmed => paid'.pending = NoOffer
      BY <1>3, <2>1
    <3>. HIDE DEF first
    <3>. QED  BY <3>1, <3>2 DEF AnswerApplied
  <2>2. CASE ~first
    BY <1>3, <1>5, <1>6, <2>2 DEF AnswerApplied
  <2>. QED  BY <2>1, <2>2
<1>8. ASSUME NEW u \in Desks, u # t
      PROVE  desk[u].pc \notin ChangePCs
  BY <1>1, <1>8 DEF SaleInv, SubLocked
\* How often it is charged: once, with the first answer.
<1>. DEFINE n == IF first THEN 1 ELSE 0
<1>9. /\ n \in 0..1 /\ desk[t].charged \in 0..2 /\ desk[t].charged + n <= 1
      /\ desk[t].charged + n \in 0..2
      /\ desk[t].charged + n = 1 => replay'.change[offer] # NoAnswer
  <2>1. first => desk[t].charged = 0
    BY <1>0, <1>1, <1>6 DEF ChargeFits, DeskRecords
  <2>2. first => replay'.change[offer] # NoAnswer
    BY <1>3, <1>5 DEF NoAnswer
  <2>3. ~first /\ desk[t].charged = 1 => replay'.change[offer] # NoAnswer
    BY <1>0, <1>1, <1>5, <1>6 DEF ChargeFits
  <2>4. desk[t].charged \in 0..2 /\ desk[t].charged <= 1
    BY <1>1, <1>6 DEF ChargeFits, DeskRecords
  <2>. QED  BY <2>1, <2>2, <2>3, <2>4
<1>10. PICK q \in DeskRecords :
         /\ desk' = [desk EXCEPT ![t] = q]
         /\ saleErrors' \in 0..MaxSaleErrors
         /\ \/ q = Resting /\ subLock' = subLock \ {t}
            \/ /\ subLock' = subLock /\ q.offer = desk[t].offer /\ q.got = offer
               /\ q.charged = desk[t].charged + n
               /\ \/ q.pc = "change"
                  \/ q.pc = "answer" /\ q.answer = replay'.change[offer] /\ q.answer # NoAnswer
  <2>. DEFINE a == [desk[t] EXCEPT !.pc = "answer", !.again = FALSE,
                    !.answer = replay'.change[offer], !.charged = @ + n]
              b == [desk[t] EXCEPT !.again = TRUE, !.mine = FALSE, !.charged = @ + n]
  <2>1. CASE fate = "answered"
    <3>1. desk' = [desk EXCEPT ![t] = a] /\ UNCHANGED <<subLock, saleErrors>>
      BY <1>0, <1>1, <2>1 DEF ChangePrice, Seen
    <3>2. replay'.change[offer] \in Answers /\ replay'.change[offer] # NoAnswer
      <4>1. CASE first
        BY <1>3, <1>4, <1>5, <4>1 DEF NoAnswer
      <4>2. CASE ~first
        BY <1>1, <1>5, <2>1, <4>2
      <4>. QED  BY <4>1, <4>2
    <3>3. a \in DeskRecords /\ a.pc = "answer" /\ a.answer = replay'.change[offer]
          /\ a.offer = desk[t].offer /\ a.got = offer /\ a.charged = desk[t].charged + n
      BY <1>0, <1>1, <1>9, <3>2 DEF DeskRecords, DeskPCs
    <3>. HIDE DEF a
    <3>. QED  BY <1>1, <3>1, <3>2, <3>3 DEF SaleTypeOK
  <2>2. CASE fate # "answered"
    <3>1. Lost(t, n, FALSE)
      BY <1>0, <2>2 DEF ChangePrice, Seen
    <3>2. saleErrors' \in 0..MaxSaleErrors
      BY <1>1, <3>1, SaleConstants DEF Lost, SaleTypeOK
    <3>3. CASE Ends(t)
      BY <3>2, <3>3, RestingFits DEF Ends
    <3>4. CASE ~Ends(t)
      <4>1. desk' = [desk EXCEPT ![t] = b] /\ UNCHANGED subLock
        BY <1>1, <3>1, <3>4 DEF Lost
      <4>2. b \in DeskRecords /\ b.pc = "change" /\ b.offer = desk[t].offer
            /\ b.got = offer /\ b.charged = desk[t].charged + n
        BY <1>0, <1>1, <1>9 DEF DeskRecords
      <4>. HIDE DEF b
      <4>. QED  BY <3>2, <4>1, <4>2
    <3>. QED  BY <3>3, <3>4
  <2>. QED  BY <2>1, <2>2
<1>. HIDE DEF first, n
<1>11. /\ desk' \in [Desks -> DeskRecords] /\ desk'[t] = q
       /\ \A u \in Desks \ {t} : desk'[u] = desk[u]
  BY <1>1, <1>10
<1>12. SaleTypeOK'
  BY <1>1, <1>2, <1>3, <1>5, <1>10, <1>11 DEF SaleTypeOK, catalogue
<1>13. ASSUME NEW u \in Desks
       PROVE  DeskFits(desk[u])'
  <2>1. CASE u # t
    <3>1. desk'[u] = desk[u] /\ DeskFits(desk[u]) /\ desk[u].pc \notin ChangePCs
      BY <1>8, <1>11, <2>1 DEF SaleInv
    <3>. QED  BY <1>3, <3>1 DEF DeskFits, ChargeFits, ChangePCs
  <2>2. CASE q = Resting
    BY <1>11, <2>2, <2>1, RestingFits DEF DeskFits, ChargeFits, ChangePCs
  <2>3. CASE u = t /\ q # Resting
    <3>1. /\ desk'[u] = q /\ q.offer = desk[t].offer /\ q.got = offer
          /\ q.charged = desk[t].charged + n
          /\ \/ q.pc = "change"
             \/ q.pc = "answer" /\ q.answer = replay'.change[offer] /\ q.answer # NoAnswer
      BY <1>10, <1>11, <2>3
    <3>2. ChargeFits(q)'
      BY <1>9, <3>1 DEF ChargeFits, ChangePCs
    <3>3. q.pc = "answer" => AnswerApplied(q.answer)'
      BY <1>7, <3>1 DEF AnswerApplied
    <3>4. q.pc = "change" => AnswerApplied(replay.change[q.got])'
      BY <1>7, <3>1
    <3>. QED  BY <1>0, <1>1, <1>3, <3>1, <3>2, <3>3, <3>4 DEF DeskFits
  <2>. QED  BY <2>1, <2>2, <2>3
<1>14. SubLocked'
  <2>1. subLock' \subseteq {t} /\ FreshKey' = FreshKey
    BY <1>1, <1>10 DEF FreshKey
  <2>2. \A u \in Desks : desk'[u].pc \in ChangePCs => u \in subLock'
    BY <1>1, <1>8, <1>10, <1>11, RestingFits
  <2>3. t \in subLock' => q.pc \in ChangePCs
    BY <1>10 DEF ChangePCs
  <2>4. \A u \in subLock' : desk'[u].pc \in ChangePCs
    BY <1>11, <2>1, <2>3
  <2>. QED  BY <1>3, <2>1, <2>2, <2>4 DEF SubLocked, ChangePCs
<1>15. PricesFit' /\ SoldAsShown'
  BY <1>2, <1>5 DEF SaleInv, PricesFit, SoldAsShown
<1>. QED  BY <1>3, <1>12, <1>13, <1>14, <1>15 DEF SaleInv, ShownIsCharged

\* The answer is refused, told or mirrored.
LEMMA HearAnswerKeeps ==
    ASSUME SaleInv, NEW t \in Desks, HearAnswer(t)
    PROVE  SaleInv'
<1>. DEFINE answer == desk[t].answer
<1>1. /\ SaleTypeOK /\ desk[t].pc = "answer" /\ desk[t] \in DeskRecords
      /\ desk[t].got = desk[t].offer /\ desk[t].offer \in Offers
      /\ AnswerApplied(answer) /\ answer # NoAnswer /\ answer \in Answers
      /\ desk \in [Desks -> DeskRecords] /\ subLock = {t} /\ paid.at # NoOffer
  BY DeskTyped DEF SaleInv, HearAnswer, Waits, DeskFits, PricedPCs, ChangePCs, SubLocked,
     DeskRecords
<1>2. /\ paid' \in {paid, [paid EXCEPT !.row = answer.at, !.drift = FALSE]}
      /\ paid' # paid => answer.at = desk[t].got /\ ~answer.pending
      /\ told' \in {told, Confirmation}
      /\ desk' = [desk EXCEPT ![t] = Resting] /\ subLock' = {}
      /\ UNCHANGED <<catalogue, store, replay, page, planEdits, saleErrors>>
  BY <1>1 DEF HearAnswer, Ends
<1>3. /\ paid' \in [at : MaybeOffers, row : MaybeOffers, pending : MaybeOffers, drift : BOOLEAN]
      /\ paid'.at = paid.at /\ paid'.pending = paid.pending
      /\ paid' # paid => paid'.row = paid.at
  BY <1>1, <1>2 DEF SaleTypeOK, Answers, AnswerApplied
<1>4. /\ desk' \in [Desks -> DeskRecords] /\ desk'[t] = Resting
      /\ \A u \in Desks \ {t} : desk'[u] = desk[u]
  BY <1>1, <1>2, RestingFits
<1>5. SaleTypeOK'
  BY <1>1, <1>2, <1>3, <1>4 DEF SaleTypeOK, catalogue
<1>6. \A u \in Desks : u # t => desk[u].pc \notin ChangePCs
  BY <1>1 DEF SaleInv, SubLocked
<1>7. ASSUME NEW u \in Desks
      PROVE  DeskFits(desk[u])'
  <2>1. CASE u = t
    BY <1>4, <2>1, RestingFits DEF DeskFits, ChargeFits, ChangePCs
  <2>2. CASE u # t
    <3>1. desk'[u] = desk[u] /\ DeskFits(desk[u]) /\ desk[u].pc \notin ChangePCs
      BY <1>4, <1>6, <2>2 DEF SaleInv
    <3>. QED  BY <1>3, <3>1 DEF DeskFits, ChargeFits, ChangePCs
  <2>. QED  BY <2>1, <2>2
<1>8. SubLocked'
  BY <1>2, <1>4, <1>6, RestingFits DEF SubLocked
<1>. QED  BY <1>1, <1>2, <1>3, <1>5, <1>7, <1>8
       DEF SaleInv, PricesFit, SoldAsShown, ShownIsCharged

\* Every step keeps what the sales rest on.
LEMMA SaleInvStep == SaleInv /\ [SaleNext]_saleVars => SaleInv'
<1>1. ASSUME SaleInv, SaleNext
      PROVE  SaleInv'
  <2>1. ASSUME NEW t \in Desks, DeskStep(t)
        PROVE  SaleInv'
    BY <1>1, <2>1, AskKeeps, LockPaidKeeps, FindPriceKeeps, OpenPageKeeps, HearAnswerKeeps,
       MakeProductKeeps, MakePriceKeeps, MakeCouponKeeps, ChangePriceKeeps DEF DeskStep
  <2>. QED  BY <1>1, <2>1, StaffKeepsSales, PayPageKeeps, ConfirmKeeps, MirrorPriceKeeps,
              ProviderKeeps DEF SaleNext
<1>2. ASSUME SaleInv, UNCHANGED saleVars
      PROVE  SaleInv'
  <2>1. SaleTypeOK'
    BY <1>2 DEF SaleInv, SaleTypeOK, saleVars, catalogue
  <2>. QED  BY <1>2, <2>1, SaleKept DEF saleVars
<1>. QED  BY <1>1, <1>2

\* What the sales rest on gives what they promise.
LEMMA SaleInvSafe == SaleInv => SaleSafety
BY DEF SaleInv, SaleSafety, DeskFits, ChargeFits, ChargedOnce

\* The requests, the catalogue and what the provider keeps of them stay of
\* their types.
THEOREM SaleTypes == SaleSpec => []SaleTypeOK
<1>1. SaleInv => SaleTypeOK
  BY DEF SaleInv
<1>. QED  BY SaleInvInit, SaleInvStep, <1>1, PTL DEF SaleSpec

\* Whatever staff edit and whatever calls get lost: a page charges what it
\* showed, a change is charged once, and the row shows the price that is
\* charged (ensure_price, call, change_price, change_plan).
THEOREM SalesAreSafe == SaleSpec => []SaleSafety
BY SaleInvInit, SaleInvStep, SaleInvSafe, PTL DEF SaleSpec

-----------------------------------------------------------------------------
(* Side by side, as they are checked: each part keeps what it rests on, and *)
(* stands still while another moves.                                        *)

billingVars == <<part, creditVars, ledgerVars, checkoutVars, saleVars>>

\* The part that moves keeps what it rests on.
PartsSafe ==
    /\ part \in {"credits", "ledger", "checkout", "sales"}
    /\ part = "credits" => CreditInv
    /\ part = "ledger" => LedgerInv
    /\ part = "checkout" => CheckoutInv
    /\ part = "sales" => SaleInv

\* A behaviour is of one part, and steps only there.
LEMMA OnePartMoves ==
    ASSUME [Next]_billingVars
    PROVE  /\ part' = part
           /\ part = "credits" => [CreditsNext]_creditVars
           /\ part = "ledger" => [LedgerNext]_ledgerVars
           /\ part = "checkout" => [CheckoutNext]_checkoutVars
           /\ part = "sales" => [SaleNext]_saleVars
BY DEF Next, OthersOf, billingVars

\* Every step keeps what the part that moves rests on.
LEMMA PartsStep ==
    ASSUME PartsSafe, [Next]_billingVars
    PROVE  PartsSafe'
BY OnePartMoves, CreditInvStep, LedgerInvStep, CheckoutInvStep, SaleInvStep
DEF PartsSafe

\* The type invariant of what surrounds a subscription.
THEOREM BillingTypes == Spec => []TypesOK
<1>1. Init => PartsSafe
  BY CreditInvInit, LedgerInvInit, CheckoutInvInit, SaleInvInit
  DEF Init, PartsSafe
<1>2. PartsSafe => TypesOK
  <2>1. /\ CreditInv => CreditsTypeOK
        /\ LedgerInv => LedgerTypeOK
        /\ CheckoutInv => CheckoutTypeOK
        /\ SaleInv => SaleTypeOK
    BY DEF CreditInv, WorkInv, LedgerInv, CheckoutInv, SaleInv
  <2>. QED  BY <2>1 DEF PartsSafe, TypesOK
<1>. QED  BY <1>1, PartsStep, <1>2, PTL DEF Spec, billingVars
=============================================================================
