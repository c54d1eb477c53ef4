------------------------------ MODULE Credits ------------------------------
(***************************************************************************)
(* The credit ledger: referral bonuses and rewards, their reversal after a *)
(* refund, promo codes, rewards bought with credits, staff adjustments.    *)
(*                                                                         *)
(* Each operation reads something, opens a transaction, takes its locks    *)
(* one after the other and commits.  A lock is the advisory lock of one    *)
(* account's credits, or the row of a referral or of the promo code; an    *)
(* UPDATE waits for a row only when the row matches what it sees.          *)
(***************************************************************************)
EXTENDS Integers, FiniteSets, Sequences

CONSTANTS
    Referrer,           \* the account everybody was referred by
    Referred,           \* the accounts it referred
    Spenders,           \* accounts that spend or get credits by other ways
    Redeemers,          \* accounts that use the promo code
    CreditWorkers,      \* requests, webhooks and jobs in progress
    RewardCredits, BonusCredits, PromoCredits,
    RewardCost,         \* price of a reward
    MaxPerMonth,        \* max_rewarded_per_month
    MaxRedemptions,     \* max_redemptions of the promo code
    ClawbackMonths,     \* REFERRAL_CLAWBACK_DAYS, in months
    MaxCreditEvents     \* bound: months that pass, transactions that fail,
                        \* rewards bought, adjustments and uses of the code, in all

ASSUME CreditConstants ==
    /\ IsFiniteSet(Referred) /\ Referrer \notin Referred
    /\ "nobody" \notin CreditWorkers
    /\ Spenders \cup Redeemers \subseteq Referred \cup {Referrer}
    /\ RewardCredits \in Nat \ {0} /\ BonusCredits \in Nat
    /\ PromoCredits \in Nat /\ RewardCost \in Nat \ {0}
    /\ MaxPerMonth \in Nat /\ MaxRedemptions \in Nat /\ ClawbackMonths \in Nat
    /\ MaxCreditEvents \in Nat

VARIABLES
    month,
    balance,        \* sum of the ledger's entries of each account
    referral,       \* `referrals`, by referred account
    invoice,        \* each referred account's payment, and its ledger row
    redeemed,       \* `promo_redemptions`
    redemptions,    \* `promo_codes.redemptions_count`
    held,           \* who holds each lock
    work,           \* what each worker is doing
    clawed,         \* ghost: credits taken back from the referrer
    events          \* the bounded events so far, and whether a worker was lost

creditVars == <<month, balance, referral, invoice, redeemed, redemptions,
                held, work, clawed, events>>

Nobody == "nobody"
Members == Referred \cup {Referrer}
Locks == ({"credits"} \X Members) \cup ({"row"} \X Referred)
           \cup {<<"promo", Referrer>>}

\* `granted`: the referrer's entries that name the referral, summed up.
Referrals == [status : {"pending", "rewarded", "rejected"}, bonus : BOOLEAN,
              at : Nat, granted : Nat]
Invoices == [known : BOOLEAN, refunded : BOOLEAN, reversed : BOOLEAN]
Ops == {"qualify", "reward", "reverse", "spend", "credit", "promo",
        "reject"}
Works == [op : Ops \cup {"none"}, who : Members, step : 1 .. 3,
          seen : Int]
NoWork == [op |-> "none", who |-> Referrer, step |-> 1, seen |-> 0]

\* The locks of an operation, in order.
LockOrder(op, who) ==
    CASE op = "qualify" -> <<<<"credits", who>>, <<"row", who>>>>
      [] op = "reward" -> <<<<"credits", Referrer>>, <<"row", who>>>>
      [] op = "reverse" -> <<<<"row", who>>, <<"credits", Referrer>>>>
      [] op = "promo" -> <<<<"promo", Referrer>>, <<"credits", who>>>>
      [] op = "reject" -> <<<<"row", who>>>>
      [] OTHER -> <<<<"credits", who>>>>

Free(w) == work[w].op = "none"
Begin(w, op, who) ==
    work' = [work EXCEPT ![w] = [NoWork EXCEPT !.op = op, !.who = who]]
Locked(w) == work[w].step > Len(LockOrder(work[w].op, work[w].who))
UnlockWork(w) == held' = [l \in Locks |-> IF held[l] = w THEN Nobody ELSE held[l]]
EndWork(w) == UnlockWork(w) /\ work' = [work EXCEPT ![w] = NoWork]

Event(loss) ==
    /\ events.n < MaxCreditEvents
    /\ events' = [n |-> events.n + 1, lost |-> events.lost \/ loss]

RewardedIn(m) == {b \in Referred : referral[b].status = "rewarded"
                                     /\ referral[b].at = m}

-----------------------------------------------------------------------------
(* What starts an operation. *)

\* A withdrawal, a refund by staff or in the provider's dashboard, or a
\* dispute, of a payment the ledger may not know yet.
RefundPayment(b) ==
    /\ ~invoice[b].refunded
    /\ invoice' = [invoice EXCEPT ![b].refunded = TRUE]
    /\ UNCHANGED <<month, balance, referral, redeemed, redemptions, held, work,
                   clawed, events>>

\* record_invoice of a payment, by a webhook, a sync or a refund: whoever
\* inserts the row pays the referrer, if the referral is pending; or rejects
\* it when referrals are switched off.
RecordInvoice(w, b, enabled) ==
    /\ Free(w) /\ ~invoice[b].known
    /\ invoice' = [invoice EXCEPT ![b].known = TRUE]
    /\ IF referral[b].status = "pending"
       THEN Begin(w, IF enabled THEN "reward" ELSE "reject", b)
       ELSE UNCHANGED work
    /\ UNCHANGED <<month, balance, referral, redeemed, redemptions, held,
                   clawed, events>>

\* The address is verified, perhaps twice at once; `fit` is that referrals
\* are on and the two accounts are not one mailbox.
Qualify(w, b, fit) ==
    /\ Free(w) /\ referral[b].status = "pending" /\ ~referral[b].bonus
    /\ Begin(w, IF fit THEN "qualify" ELSE "reject", b)
    /\ UNCHANGED <<month, balance, referral, invoice, redeemed, redemptions,
                   held, clawed, events>>

\* The refund's handler records the invoice first, then reverses once.
Reverse(w, b) ==
    /\ Free(w) /\ invoice[b].refunded /\ invoice[b].known
    /\ ~invoice[b].reversed /\ invoice' = [invoice EXCEPT ![b].reversed = TRUE]
    /\ Begin(w, "reverse", b)
    /\ UNCHANGED <<month, balance, referral, redeemed, redemptions, held,
                   clawed, events>>

\* redeem_reward or a negative adjust_user_credits, or a positive one.
Spend(w, op, who) ==
    /\ Free(w) /\ Event(FALSE)
    /\ Begin(w, op, who)
    /\ UNCHANGED <<month, balance, referral, invoice, redeemed, redemptions,
                   held, clawed>>

\* redeem_promo_code, which looks for an earlier redemption first.
RedeemPromo(w, who) ==
    /\ Free(w) /\ who \notin redeemed /\ Event(FALSE) /\ Begin(w, "promo", who)
    /\ UNCHANGED <<month, balance, referral, invoice, redeemed, redemptions,
                   held, clawed>>

-----------------------------------------------------------------------------
(* A transaction. *)

\* Mutant of RowMatches: the update does not ask for the status.
RowMatchesAny(op, b) == TRUE

\* What the statement that takes the row asks of it.
RowMatches(op, b) ==
    LET r == referral[b] IN
    CASE op = "qualify" -> r.status = "pending" /\ ~r.bonus
      [] op = "reverse" ->
           r.status = "rewarded" /\ month - r.at <= ClawbackMonths
      [] OTHER -> r.status = "pending"

\* Mutant of PromoLeft: the limit is not part of the update.
PromoLeftAlways == TRUE

PromoLeft == redemptions < MaxRedemptions

\* The statement finds what it asks for, before and after the wait.
Matches(op, lock) ==
    CASE lock[1] = "row" -> RowMatches(op, lock[2])
      [] lock[1] = "promo" -> PromoLeft
      [] OTHER -> TRUE

\* Mutant of MonthOver: counted one too late.
MonthOverLate == Cardinality(RewardedIn(month)) > MaxPerMonth

\* The limit is counted under the lock of the referrer's credits.
MonthOver == Cardinality(RewardedIn(month)) >= MaxPerMonth

NextLock(w) == LockOrder(work[w].op, work[w].who)[work[w].step]

\* Over the monthly limit: the transaction is dropped, and the referral
\* rejected by a statement of its own.
OverLimit(w) == work[w].op = "reward" /\ work[w].step = 2 /\ MonthOver

RejectOverLimit(w) ==
    /\ OverLimit(w) /\ UnlockWork(w)
    /\ Begin(w, "reject", work[w].who)
    /\ UNCHANGED <<month, balance, referral, invoice, redeemed, redemptions,
                   clawed, events>>

\* Mutant of MayTake: nobody waits.
MayTakeAnyway(w, lock) == TRUE

MayTake(w, lock) == held[lock] = Nobody

\* A spender reads the balance as soon as it has the lock.
TakeLock(w) ==
    /\ ~Free(w) /\ ~Locked(w) /\ ~OverLimit(w)
    /\ Matches(work[w].op, NextLock(w)) /\ MayTake(w, NextLock(w))
    /\ held' = [held EXCEPT ![NextLock(w)] = w]
    /\ work' = [work EXCEPT ![w].step = @ + 1,
                   ![w].seen = IF work[w].op = "spend"
                               THEN balance[work[w].who] ELSE 0]
    /\ UNCHANGED <<month, balance, referral, invoice, redeemed, redemptions,
                   clawed, events>>

\* No row, the transaction ends.
NothingToDo(w) ==
    /\ ~Free(w) /\ ~Locked(w) /\ ~OverLimit(w)
    /\ ~Matches(work[w].op, NextLock(w)) /\ EndWork(w)
    /\ UNCHANGED <<month, balance, referral, invoice, redeemed, redemptions,
                   clawed, events>>

CommitReferral(w) ==
    /\ Locked(w)
    /\ LET b == work[w].who IN
       \/ /\ work[w].op = "reject"
          /\ referral' = [referral EXCEPT ![b].status = "rejected"]
          /\ UNCHANGED <<balance, clawed>>
       \/ /\ work[w].op = "qualify"
          /\ referral' = [referral EXCEPT ![b].bonus = TRUE]
          /\ balance' = [balance EXCEPT ![b] = @ + BonusCredits]
          /\ UNCHANGED clawed
       \/ /\ work[w].op = "reward"
          /\ referral' = [referral EXCEPT ![b].status = "rewarded",
                            ![b].at = month, ![b].granted = @ + RewardCredits]
          /\ balance' = [balance EXCEPT ![Referrer] = @ + RewardCredits]
          /\ UNCHANGED clawed
       \/ /\ work[w].op = "reverse"
          /\ referral' = [referral EXCEPT ![b].status = "rejected",
                                          ![b].granted = 0]
          /\ balance' = [balance EXCEPT ![Referrer] = @ - referral[b].granted]
          /\ clawed' = clawed + referral[b].granted
    /\ EndWork(w)
    /\ UNCHANGED <<month, invoice, redeemed, redemptions, events>>

\* Without the credits nothing is written; nor when the plan time is
\* refused, because the account pays for a plan (grant_plan_time).
CommitSpending(w, refused) ==
    /\ Locked(w) /\ work[w].op = "spend"
    /\ balance' = IF work[w].seen < RewardCost \/ refused THEN balance
                  ELSE [balance EXCEPT ![work[w].who] = @ - RewardCost]
    /\ EndWork(w)
    /\ UNCHANGED <<month, referral, invoice, redeemed, redemptions, clawed,
                   events>>

\* A positive adjustment.
CommitCredit(w) ==
    /\ Locked(w) /\ work[w].op = "credit"
    /\ balance' = [balance EXCEPT ![work[w].who] = @ + 1]
    /\ EndWork(w)
    /\ UNCHANGED <<month, referral, invoice, redeemed, redemptions, clawed,
                   events>>

\* The unique index refuses a second redemption, and so the whole.
CommitPromo(w) ==
    /\ Locked(w) /\ work[w].op = "promo"
    /\ LET u == work[w].who IN
       IF u \in redeemed THEN UNCHANGED <<balance, redeemed, redemptions>>
       ELSE /\ redemptions' = redemptions + 1
            /\ redeemed' = redeemed \cup {u}
            /\ balance' = [balance EXCEPT ![u] = @ + PromoCredits]
    /\ EndWork(w)
    /\ UNCHANGED <<month, referral, invoice, clawed, events>>

\* A crash or an error before the commit.
LoseWork(w) ==
    /\ ~Free(w) /\ Event(TRUE)
    /\ EndWork(w)
    /\ UNCHANGED <<month, balance, referral, invoice, redeemed, redemptions,
                   clawed>>

NextMonth ==
    /\ Event(FALSE) /\ month' = month + 1
    /\ UNCHANGED <<balance, referral, invoice, redeemed, redemptions, held,
                   work, clawed>>

CreditsInit ==
    /\ month = 0 /\ clawed = 0 /\ redeemed = {} /\ redemptions = 0
    /\ balance = [u \in Members |-> 0]
    /\ referral = [b \in Referred |-> [status |-> "pending", bonus |-> FALSE,
                                       at |-> 0, granted |-> 0]]
    /\ invoice = [b \in Referred |-> [known |-> FALSE, refunded |-> FALSE,
                                      reversed |-> FALSE]]
    /\ held = [l \in Locks |-> Nobody]
    /\ work = [w \in CreditWorkers |-> NoWork]
    /\ events = [n |-> 0, lost |-> FALSE]

CreditStep(w) ==
    \/ \E b \in Referred : \/ Reverse(w, b)
                           \/ \E on \in BOOLEAN : RecordInvoice(w, b, on)
                                                    \/ Qualify(w, b, on)
    \/ \E op \in {"spend", "credit"}, who \in Spenders :
          Spend(w, op, who)
    \/ \E who \in Redeemers : RedeemPromo(w, who)
    \/ RejectOverLimit(w) \/ TakeLock(w) \/ NothingToDo(w)
    \/ CommitReferral(w) \/ CommitCredit(w) \/ CommitPromo(w) \/ LoseWork(w)
    \/ \E refused \in BOOLEAN : CommitSpending(w, refused)

CreditsNext ==
    \/ \E w \in CreditWorkers : CreditStep(w)
    \/ \E b \in Referred : RefundPayment(b)
    \/ NextMonth

CreditsSpec == CreditsInit /\ [][CreditsNext]_creditVars

-----------------------------------------------------------------------------
(* What the ledger promises. *)

\* Every variable keeps its type.
CreditsTypeOK ==
    /\ month \in Nat /\ clawed \in Nat /\ redemptions \in Nat
    /\ balance \in [Members -> Int]
    /\ referral \in [Referred -> Referrals]
    /\ invoice \in [Referred -> Invoices] /\ redeemed \subseteq Members
    /\ held \in [Locks -> CreditWorkers \cup {Nobody}]
    /\ work \in [CreditWorkers -> Works]
    /\ events \in [n : Nat, lost : BOOLEAN]

\* A referral is paid once, and holds credits exactly while it is rewarded,
\* whoever records the payment and however often it is refunded
\* (reward_referrer_on_payment, reverse_referral_reward).
RewardedOnce ==
    \A b \in Referred : referral[b].granted =
       IF referral[b].status = "rewarded" THEN RewardCredits ELSE 0

\* Only a reversal takes an account below zero: what is spent is read under
\* the lock that the spender holds (redeem_reward, adjust_user_credits).
NeverOverdrawn ==
    \A u \in Members : balance[u] + (IF u = Referrer THEN clawed ELSE 0) >= 0

\* No month pays more referrals than allowed, although the payments of
\* several referred accounts arrive at once (reward_referrer_on_payment).
MonthlyLimit == \A m \in 0 .. month : Cardinality(RewardedIn(m)) <= MaxPerMonth

\* The last redemption of a promo code goes to one account, and each
\* account has at most one (redeem_promo_code).
PromoLimit ==
    redemptions <= MaxRedemptions /\ redemptions = Cardinality(redeemed)

\* A reward locks the referrer's credits and then the referral, its
\* reversal the referral first: they never wait for each other, because
\* they ask for different states of the referral.
SomeoneCanGoOn ==
    LET busy == {w \in CreditWorkers : ~Free(w)} IN
    busy = {} \/ \E w \in busy :
       Locked(w) \/ OverLimit(w) \/ ~Matches(work[w].op, NextLock(w))
         \/ held[NextLock(w)] = Nobody

\* A referred account that pays and takes the money back leaves its
\* referrer nothing (reverse_referral_reward), once all work is done and
\* nothing was lost.
RefundTakesReward ==
    (\A w \in CreditWorkers : Free(w)) /\ ~events.lost =>
    \A b \in Referred :
       invoice[b].reversed /\ month - referral[b].at <= ClawbackMonths
         => referral[b].granted = 0

\* Every limit of the credits, under any interleaving of payments, refunds,
\* redemptions, rewards and staff, and none waits for all the others
\* (lock_user_credits and the row locks).
CreditSafety ==
    RewardedOnce /\ NeverOverdrawn /\ MonthlyLimit /\ PromoLimit /\ SomeoneCanGoOn
=============================================================================
