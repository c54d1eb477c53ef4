--------------------------- MODULE FinanceLedger ---------------------------
(***************************************************************************)
(* The finance ledger's row of one payment: what the provider's events say *)
(* was refunded or disputed, in whatever order they come and however       *)
(* often, and the sync that staff run over everything.                     *)
(*                                                                         *)
(* A handler reads from the provider, stores the refunds it knows of, and  *)
(* then updates the payment; each statement commits on its own.  A payment *)
(* the ledger does not have yet is imported first.                         *)
(***************************************************************************)
EXTENDS Integers, FiniteSets

CONSTANTS
    Refunds,            \* refunds of the payment, one unit each
    Amount,             \* what was paid
    Handlers,           \* webhooks and syncs in progress
    MaxReplays,         \* bound: events delivered again
    MaxLedgerErrors     \* bound: handlers that fail halfway

ASSUME LedgerConstants ==
    /\ IsFiniteSet(Refunds) /\ IsFiniteSet(Handlers)
    /\ Amount \in Nat /\ Cardinality(Refunds) <= Amount
    /\ MaxReplays \in Nat /\ MaxLedgerErrors \in Nat

VARIABLES
    provider,   \* the payment's refunds and dispute at the provider
    sent,       \* events on their way
    payment,    \* the `payments` row
    stored,     \* the `refunds` rows
    hand,       \* what each handler is doing
    quiet,      \* ghost: nothing happened since a sync began alone
    refundedInFull,   \* ghost: the latest payment was refunded in full
    replays, ledgerErrors

ledgerVars == <<provider, sent, payment, stored, hand, quiet, refundedInFull,
                replays, ledgerErrors>>

\* A refund counts while it is pending or succeeded.
RefundStatus == {"none", "counts", "failed"}
Disputes == {"none", "open", "won"}
Counted(refunds) == Cardinality({f \in Refunds : refunds[f] = "counts"})

\* An event carries what the provider said when it was made.
LedgerEvent(kind, refunds, says, dispute) ==
    [kind |-> kind, refunds |-> refunds, says |-> says, dispute |-> dispute]
EventKinds == {"invoice", "charge", "refund", "dispute"}
Events == [kind : EventKinds, refunds : [Refunds -> RefundStatus],
           says : Nat, dispute : Disputes]
NoRefunds == [f \in Refunds |-> "none"]

Payments == [known : BOOLEAN, refunded : Nat, disputed : Nat]
HandPCs == {"idle", "list", "store", "apply", "import"}
Hands == [pc : HandPCs, kind : EventKinds \cup {"sync"},
          refunds : [Refunds -> RefundStatus], says : Nat,
          dispute : Disputes]
NotHandling == [pc |-> "idle", kind |-> "sync", refunds |-> NoRefunds,
                says |-> 0, dispute |-> "none"]

Least(a, b) == IF a <= b THEN a ELSE b
Most(a, b) == IF a >= b THEN a ELSE b
AllIdle == \A h \in Handlers : hand[h].pc = "idle"
To(h, pc) == hand' = [hand EXCEPT ![h].pc = pc]
Finished(h) == hand' = [hand EXCEPT ![h] = NotHandling]

-----------------------------------------------------------------------------
(* The provider: external. *)

\* A refund is made, or fails later; both are announced.
RefundTurns(f, status) ==
    /\ <<provider.refunds[f], status>> \in
          {<<"none", "counts">>, <<"counts", "failed">>}
    /\ LET refunds == [provider.refunds EXCEPT ![f] = status]
           one == [NoRefunds EXCEPT ![f] = status] IN
       /\ provider' = [provider EXCEPT !.refunds = refunds]
       /\ sent' = sent \cup {LedgerEvent("refund", one, 0, "none")}
                    \cup (IF status = "counts"
                          THEN {LedgerEvent("charge", NoRefunds,
                                            Counted(refunds), "none")}
                          ELSE {})
    /\ quiet' = FALSE
    /\ UNCHANGED <<payment, stored, hand, refundedInFull, replays, ledgerErrors>>

DisputeTurns(status) ==
    /\ <<provider.dispute, status>> \in {<<"none", "open">>, <<"open", "won">>}
    /\ provider' = [provider EXCEPT !.dispute = status]
    /\ sent' = sent \cup {LedgerEvent("dispute", NoRefunds, 0, status)}
    /\ UNCHANGED <<payment, stored, hand, quiet, refundedInFull, replays,
                   ledgerErrors>>

-----------------------------------------------------------------------------
(* handle_webhook: no event of these kinds is remembered, and a failed one *)
(* is sent again.                                                          *)

FirstStep(kind) ==
    CASE kind = "charge" -> "list"
      [] kind = "refund" -> "store"
      [] kind = "dispute" -> "apply"
      [] OTHER -> "import"

Receive(h, e, again) ==
    /\ hand[h].pc = "idle" /\ e \in sent
    /\ IF again THEN replays < MaxReplays /\ replays' = replays + 1
                     /\ UNCHANGED sent
       ELSE sent' = sent \ {e} /\ UNCHANGED replays
    /\ hand' = [hand EXCEPT ![h] =
         [pc |-> FirstStep(e.kind), kind |-> e.kind, refunds |-> e.refunds,
          says |-> e.says, dispute |-> e.dispute]]
    /\ quiet' = FALSE
    /\ UNCHANGED <<provider, payment, stored, refundedInFull, ledgerErrors>>

\* sync_from_provider: the paid invoices, then the refunds.
StartSync(h) ==
    /\ hand[h].pc = "idle"
    /\ quiet' = AllIdle
    /\ payment' = [payment EXCEPT !.known = TRUE]
    /\ hand' = [hand EXCEPT ![h] = [NotHandling EXCEPT !.pc = "list"]]
    /\ UNCHANGED <<provider, sent, stored, refundedInFull, replays, ledgerErrors>>

\* list_refunds; a webhook goes on without the list.
ListRefunds(h, answered) ==
    /\ hand[h].pc = "list"
    /\ hand[h].kind = "sync" => answered
    /\ hand' = [hand EXCEPT ![h].pc = IF answered THEN "store" ELSE "apply",
                  ![h].refunds = IF answered THEN provider.refunds
                                 ELSE NoRefunds]
    /\ UNCHANGED <<provider, sent, payment, stored, quiet, refundedInFull, replays,
                   ledgerErrors>>

\* store_refund, for each.
StoreRefunds(h) ==
    /\ hand[h].pc = "store"
    /\ stored' = [f \in Refunds |-> IF hand[h].refunds[f] = "none"
                                    THEN stored[f] ELSE hand[h].refunds[f]]
    /\ To(h, "apply")
    /\ UNCHANGED <<provider, sent, payment, quiet, refundedInFull, replays,
                   ledgerErrors>>

\* set_refunded: never below what is known.
Set(says) ==
    Least(Amount, Most(payment.refunded, Most(says, Counted(stored))))

\* Mutant of Recomputed: the total never goes down.
RecomputedUp == Set(0)

\* recompute_refunded: what counts now.
Recomputed == Least(Amount, Counted(stored))

\* mark_disputed: a dispute that was won counts for nothing.
Applied(h) ==
    CASE hand[h].kind = "charge" ->
           [payment EXCEPT !.refunded = Set(hand[h].says)]
      [] hand[h].kind = "dispute" ->
           [payment EXCEPT !.disputed =
              IF hand[h].dispute = "won" THEN 0 ELSE Amount]
      [] OTHER -> [payment EXCEPT !.refunded = Recomputed]

\* The update; without a row to update the invoice is imported first.  A
\* full refund cancels the subscription (handle_charge_refunded).
ApplyEvent(h) ==
    /\ hand[h].pc = "apply"
    /\ IF payment.known
       THEN /\ payment' = Applied(h) /\ Finished(h)
            /\ refundedInFull' = (\/ refundedInFull
                            \/ /\ hand[h].kind = "charge"
                               /\ Applied(h).refunded = Amount)
       ELSE To(h, "import") /\ UNCHANGED <<payment, refundedInFull>>
    /\ UNCHANGED <<provider, sent, stored, quiet, replays, ledgerErrors>>

\* Mutant of AfterImport: the event is not applied to the new row.
AfterImportDone(kind) == "idle"

AfterImport(kind) == IF kind = "invoice" THEN "idle" ELSE "apply"

\* record_invoice: a row with nothing refunded, unless there is one.
ImportInvoice(h) ==
    /\ hand[h].pc = "import"
    /\ payment' = [payment EXCEPT !.known = TRUE]
    /\ IF AfterImport(hand[h].kind) = "idle" THEN Finished(h)
       ELSE To(h, AfterImport(hand[h].kind))
    /\ UNCHANGED <<provider, sent, stored, quiet, refundedInFull, replays,
                   ledgerErrors>>

\* A paid invoice that could not be recorded never fails its event.
SentAgain(h) ==
    LET refunds == IF hand[h].kind = "refund" THEN hand[h].refunds
                   ELSE NoRefunds IN
    IF hand[h].kind \in {"sync", "invoice"} THEN {}
    ELSE {LedgerEvent(hand[h].kind, refunds, hand[h].says, hand[h].dispute)}

\* A handler fails; the provider sends its event again.
FailHandler(h) ==
    /\ hand[h].pc # "idle" /\ ledgerErrors < MaxLedgerErrors
    /\ ledgerErrors' = ledgerErrors + 1
    /\ sent' = sent \cup SentAgain(h)
    /\ quiet' = FALSE /\ Finished(h)
    /\ UNCHANGED <<provider, payment, stored, refundedInFull, replays>>

LedgerInit ==
    /\ provider = [refunds |-> NoRefunds, dispute |-> "none"]
    /\ sent = {LedgerEvent("invoice", NoRefunds, 0, "none")}
    /\ payment = [known |-> FALSE, refunded |-> 0, disputed |-> 0]
    /\ stored = NoRefunds /\ hand = [h \in Handlers |-> NotHandling]
    /\ quiet = FALSE /\ refundedInFull = FALSE /\ replays = 0 /\ ledgerErrors = 0

HandlerStep(h) ==
    \/ \E e \in sent, again \in BOOLEAN : Receive(h, e, again)
    \/ \E answered \in BOOLEAN : ListRefunds(h, answered)
    \/ StartSync(h) \/ StoreRefunds(h) \/ ApplyEvent(h) \/ ImportInvoice(h)
    \/ FailHandler(h)

LedgerNext ==
    \/ \E h \in Handlers : HandlerStep(h)
    \/ \E f \in Refunds, s \in {"counts", "failed"} : RefundTurns(f, s)
    \/ \E s \in {"open", "won"} : DisputeTurns(s)

LedgerSpec == LedgerInit /\ [][LedgerNext]_ledgerVars

-----------------------------------------------------------------------------
(* What the ledger promises. *)

\* Every variable keeps its type.
LedgerTypeOK ==
    /\ provider \in [refunds : [Refunds -> RefundStatus], dispute : Disputes]
    /\ sent \subseteq Events /\ payment \in Payments
    /\ stored \in [Refunds -> RefundStatus] /\ hand \in [Handlers -> Hands]
    /\ quiet \in BOOLEAN /\ refundedInFull \in BOOLEAN
    /\ replays \in Nat /\ ledgerErrors \in Nat

\* No refund the ledger has stored is missing from its payment, also when
\* the refund's event came before the payment's (apply_refund_event,
\* upsert_refund), once no handler is at work and none failed.
RefundsNotForgotten ==
    AllIdle /\ ledgerErrors = 0 /\ payment.known =>
       payment.refunded >= Counted(stored)

\* A sync that nothing disturbs leaves the payment as the provider has it
\* (sync_from_provider).
SyncRepairs ==
    quiet /\ AllIdle => payment.refunded = Counted(provider.refunds)

\* Replays and late deliveries of charge.refunded are harmless
\* (set_refunded): once every event was applied and the refunds are known
\* as they are, the payment counts what they add up to.
LateRefundsHarmless ==
    AllIdle /\ ledgerErrors = 0 /\ sent = {} /\ payment.known
       /\ stored = provider.refunds =>
          payment.refunded = Counted(provider.refunds)

\* No stored refund is missing from its payment, and a sync puts right
\* whatever events in another order left behind.
RefundsKept == RefundsNotForgotten /\ SyncRepairs
=============================================================================
