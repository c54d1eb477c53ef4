------------------------------- MODULE Checkout -------------------------------
(***************************************************************************)
(* Checkout pages and the customer an account has at the payment provider. *)
(*                                                                         *)
(* A tab asking for a page reads the account, makes sure of its customer,  *)
(* asks the provider for live subscriptions, and under the checkout lock   *)
(* expires the earlier pages before it opens its own.  Everything before   *)
(* the lock interleaves with other tabs, with webhooks, with customers     *)
(* deleted in the provider's dashboard and with the account's deletion.    *)
(* A customer is named by the generation it was created under, a page by   *)
(* its attempt and its price: these are the idempotency keys.              *)
(***************************************************************************)
EXTENDS Integers, FiniteSets

CONSTANTS
    Tabs,               \* requests for a page
    Prices,             \* a plan and an interval
    MaxPages,           \* bound: attempts of the account
    MaxGeneration,      \* bound: customers forgotten
    MaxCheckoutErrors   \* bound: provider failures and crashes

ASSUME CheckoutConstants ==
    /\ IsFiniteSet(Tabs) /\ IsFiniteSet(Prices)
    /\ MaxPages \in Nat /\ MaxGeneration \in Nat /\ MaxCheckoutErrors \in Nat

VARIABLES
    owner,          \* the `users` row: its customer and the generation
    customers,      \* customers at the provider
    pages,          \* checkout pages at the provider
    sessions,       \* the `checkout_sessions` rows
    handed,         \* pages whose address the buyer got
    tab,            \* what each request is doing
    checkoutLock,   \* the account's checkout lock
    leaving,        \* the account's deletion
    cleanup,        \* the `stripe_cleanup_queue`
    checkoutErrors

checkoutVars == <<owner, customers, pages, sessions, handed, tab,
                  checkoutLock, leaving, cleanup, checkoutErrors>>

NoCustomer == -1
Generations == 0..MaxGeneration
CustomerIds == Generations \cup {NoCustomer}
Keys == (0..MaxPages) \X Prices

NoPage == [is |-> "none", of |-> NoCustomer]
PageStates == {"none", "open", "expired", "paid", "ended"}
TabPCs == {"idle", "ensure", "store", "live", "clear", "reload", "lock",
           "expire", "create", "commit"}
TabRecords == [pc : TabPCs, price : Prices \cup {"none"},
               customer : CustomerIds, generation : Generations,
               again : BOOLEAN, open : SUBSET Keys]
Rest == [pc |-> "idle", price |-> "none", customer |-> NoCustomer,
         generation |-> 0, again |-> FALSE, open |-> {}]

\* The customer has a subscription that charges.
Charging(c) == \E k \in Keys : pages[k].is = "paid" /\ pages[k].of = c
Payable(k) ==
    /\ k \in handed /\ pages[k].is = "open"
    /\ customers[pages[k].of] = "live"
\* checkout_sessions rows still open, and all of them.
OpenRows == {k \in Keys : sessions[k] = "open"}
Attempts == Cardinality({k \in Keys : sessions[k] # "none"})

At(t, pc) == tab[t].pc = pc
Turn(t, pc) == tab' = [tab EXCEPT ![t].pc = pc]
Leave(t) == tab' = [tab EXCEPT ![t] = Rest]
\* Mutant of Unlock: the lock is the connection's, not the transaction's.
UnlockNever(t) == UNCHANGED checkoutLock

\* With the transaction.
Unlock(t) == checkoutLock' = checkoutLock \ {t}
KeyOf(t) == <<Attempts, tab[t].price>>

\* The account as a request reads it, and where it goes on.
Loaded(t, pc, price, again) ==
    tab' = [tab EXCEPT ![t] =
              [Rest EXCEPT !.price = price, !.again = again,
                 !.customer = owner.customer, !.generation = owner.generation,
                 !.pc = IF owner.customer = NoCustomer THEN "ensure" ELSE pc]]

-----------------------------------------------------------------------------
(* start_checkout. *)

\* The account exists and has no paid subscription in effect.
AskPage(t, price) ==
    /\ At(t, "idle") /\ owner.exists /\ owner.paid = {} /\ Attempts < MaxPages
    /\ Loaded(t, "live", price, FALSE)
    /\ UNCHANGED <<owner, customers, pages, sessions, handed, checkoutLock,
                   leaving, cleanup, checkoutErrors>>

\* ensure_customer: the generation is the idempotency key, so creating
\* twice gives the same customer.
CreateCustomer(t) ==
    /\ At(t, "ensure")
    /\ LET g == tab[t].generation IN
       customers' = [customers EXCEPT ![g] = IF @ = "none" THEN "live" ELSE @]
    /\ Turn(t, "store")
    /\ UNCHANGED <<owner, pages, sessions, handed, checkoutLock, leaving,
                   cleanup, checkoutErrors>>

\* Mutant of Kept: the customer just created is stored over another's.
KeptLast(stored, created) == created

\* COALESCE: the customer another checkout stored first is kept.
Kept(stored, created) == IF stored = NoCustomer THEN created ELSE stored

StoreCustomer(t) ==
    /\ At(t, "store")
    /\ IF owner.exists
       THEN LET c == Kept(owner.customer, tab[t].generation) IN
            /\ owner' = [owner EXCEPT !.customer = c]
            /\ tab' = [tab EXCEPT ![t].customer = c,
                 ![t].pc = IF tab[t].again THEN "lock" ELSE "live"]
       ELSE UNCHANGED owner /\ Leave(t)
    /\ UNCHANGED <<customers, pages, sessions, handed, checkoutLock, leaving,
                   cleanup, checkoutErrors>>

\* provider_has_live_subscription.
AskProvider(t) ==
    /\ At(t, "live")
    /\ IF customers[tab[t].customer] = "gone" THEN Turn(t, "clear")
       ELSE IF Charging(tab[t].customer) THEN Leave(t)
       ELSE Turn(t, "lock")
    /\ UNCHANGED <<owner, customers, pages, sessions, handed, checkoutLock,
                   leaving, cleanup, checkoutErrors>>

\* clear_customer: forgotten, and the next one is of a new generation.
Forgets(c) ==
    owner' = IF owner.exists /\ owner.customer = c
             THEN [owner EXCEPT !.customer = NoCustomer, !.generation = @ + 1]
             ELSE owner

ClearCustomer(t) ==
    /\ At(t, "clear") /\ owner.generation < MaxGeneration
    /\ Forgets(tab[t].customer) /\ Turn(t, "reload")
    /\ UNCHANGED <<customers, pages, sessions, handed, checkoutLock, leaving,
                   cleanup, checkoutErrors>>

ReloadAccount(t) ==
    /\ At(t, "reload")
    /\ IF owner.exists THEN Loaded(t, "lock", tab[t].price, TRUE)
       ELSE Leave(t)
    /\ UNCHANGED <<owner, customers, pages, sessions, handed, checkoutLock,
                   leaving, cleanup, checkoutErrors>>

\* Mutant of Earlier: only the pages of the same price are expired.
EarlierSamePrice(price) == {k \in OpenRows : k[2] = price}

\* The pages to expire: every one still open, whatever it sells.
Earlier(price) == OpenRows

LockCheckout(t) ==
    /\ At(t, "lock") /\ checkoutLock = {} /\ Attempts <= MaxPages
    /\ checkoutLock' = {t}
    /\ tab' = [tab EXCEPT ![t].open = Earlier(tab[t].price),
                          ![t].pc = "expire"]
    /\ UNCHANGED <<owner, customers, pages, sessions, handed, leaving,
                   cleanup, checkoutErrors>>

\* expire_checkout: one that is no longer open answers 400, which is fine.
ExpirePages(t) ==
    /\ At(t, "expire")
    /\ pages' = [k \in Keys |-> IF k \in tab[t].open /\ pages[k].is = "open"
                                THEN [pages[k] EXCEPT !.is = "expired"]
                                ELSE pages[k]]
    /\ Turn(t, "create")
    /\ UNCHANGED <<owner, customers, sessions, handed, checkoutLock, leaving,
                   cleanup, checkoutErrors>>

\* create_checkout, keyed by the attempt and the price: a second call with
\* the key gives the first one's page, and fails for another customer.
CreatePage(t) ==
    /\ At(t, "create")
    /\ LET k == KeyOf(t)
           c == tab[t].customer IN
       IF customers[c] = "gone" \/ (pages[k].is # "none" /\ pages[k].of # c)
       THEN Leave(t) /\ Unlock(t) /\ UNCHANGED pages
       ELSE /\ pages' = [pages EXCEPT ![k] =
                           IF @.is = "none" THEN [is |-> "open", of |-> c]
                           ELSE @]
            /\ Turn(t, "commit")
            /\ UNCHANGED checkoutLock
    /\ UNCHANGED <<owner, customers, sessions, handed, leaving, cleanup,
                   checkoutErrors>>

\* The rows commit with the lock, and the address is answered.
CommitPage(t) ==
    /\ At(t, "commit")
    /\ IF owner.exists
       THEN /\ sessions' = [k \in Keys |->
                 IF k = KeyOf(t) THEN "open"
                 ELSE IF k \in tab[t].open THEN "closed" ELSE sessions[k]]
            /\ handed' = handed \cup {KeyOf(t)}
       ELSE UNCHANGED <<sessions, handed>>
    /\ Leave(t) /\ Unlock(t)
    /\ UNCHANGED <<owner, customers, pages, leaving, cleanup, checkoutErrors>>

\* A provider or database failure, or a crash: what was not committed is
\* rolled back, what the provider did stays done.
FailCheckout(t) ==
    /\ ~At(t, "idle") /\ checkoutErrors < MaxCheckoutErrors
    /\ checkoutErrors' = checkoutErrors + 1
    /\ Leave(t) /\ Unlock(t)
    /\ UNCHANGED <<owner, customers, pages, sessions, handed, leaving,
                   cleanup>>

-----------------------------------------------------------------------------
(* The buyer, the provider's dashboard, and the webhooks. *)

BuyerPays(k) ==
    /\ Payable(k)
    /\ pages' = [pages EXCEPT ![k].is = "paid"]
    /\ UNCHANGED <<owner, customers, sessions, handed, tab, checkoutLock,
                   leaving, cleanup, checkoutErrors>>

\* checkout.session.completed: the row closes and the subscription is
\* mirrored, or canceled and refunded when the account has another one.
\* One of no known account is ignored.
PageCompleted(k) ==
    /\ pages[k].is = "paid"
    /\ owner.exists /\ k \notin owner.paid
    /\ sessions' = [sessions EXCEPT ![k] = IF @ = "open" THEN "closed" ELSE @]
    /\ IF owner.paid = {}
       THEN owner' = [owner EXCEPT !.paid = {k}] /\ UNCHANGED pages
       ELSE pages' = [pages EXCEPT ![k].is = "ended"] /\ UNCHANGED owner
    /\ UNCHANGED <<customers, handed, tab, checkoutLock, leaving, cleanup,
                   checkoutErrors>>

\* A customer that is deleted takes its subscriptions with it.
CustomerGone(g) ==
    /\ customers' = [customers EXCEPT ![g] = "gone"]
    /\ pages' = [k \in Keys |-> IF pages[k].of = g /\ pages[k].is = "paid"
                                THEN [pages[k] EXCEPT !.is = "ended"]
                                ELSE pages[k]]

\* Staff delete the customer of an account that pays nothing.
DashboardDeletes(g) ==
    /\ customers[g] = "live" /\ owner.generation < MaxGeneration
    /\ owner.paid = {} /\ CustomerGone(g)
    /\ UNCHANGED <<owner, sessions, handed, tab, checkoutLock, leaving,
                   cleanup, checkoutErrors>>

\* customer.deleted, and a portal or an e-mail change that misses it.
CustomerDeleted(g) ==
    /\ customers[g] = "gone" /\ owner.generation < MaxGeneration
    /\ owner.customer = g /\ Forgets(g)
    /\ UNCHANGED <<customers, pages, sessions, handed, tab, checkoutLock,
                   leaving, cleanup, checkoutErrors>>

-----------------------------------------------------------------------------
(* delete_current_user and delete_user. *)

\* cancel_paid_subscription: every subscription of the customer ends.
EndSubscriptions ==
    /\ leaving.pc = "no" /\ owner.exists
    /\ pages' = [k \in Keys |->
         IF pages[k].is = "paid" /\ pages[k].of = owner.customer
         THEN [pages[k] EXCEPT !.is = "ended"] ELSE pages[k]]
    /\ leaving' = [leaving EXCEPT !.pc = "read"]
    /\ UNCHANGED <<owner, customers, sessions, handed, tab, checkoutLock,
                   cleanup, checkoutErrors>>

\* customer_of.
ReadCustomer ==
    /\ leaving.pc = "read"
    /\ leaving' = [pc |-> "delete", customer |-> owner.customer]
    /\ UNCHANGED <<owner, customers, pages, sessions, handed, tab,
                   checkoutLock, cleanup, checkoutErrors>>

\* The row goes, and its checkout sessions with it.
DeleteRow ==
    /\ leaving.pc = "delete"
    /\ owner' = [owner EXCEPT !.exists = FALSE, !.customer = NoCustomer]
    /\ sessions' = [k \in Keys |-> "none"]
    /\ leaving' = [leaving EXCEPT !.pc = "forget"]
    /\ UNCHANGED <<customers, pages, handed, tab, checkoutLock, cleanup,
                   checkoutErrors>>

\* Mutant of Queued: a customer that could not be deleted is let go.
QueuedNever(c) == cleanup

Queued(c) == cleanup \cup {c}

\* forget_customer: deleted, or queued for the hourly job.
ForgetCustomer(deleted) ==
    /\ leaving.pc = "forget"
    /\ ~deleted => checkoutErrors < MaxCheckoutErrors
    /\ leaving' = [leaving EXCEPT !.pc = "gone"]
    /\ checkoutErrors' = IF deleted THEN checkoutErrors ELSE checkoutErrors + 1
    /\ LET c == leaving.customer IN
       IF c = NoCustomer THEN UNCHANGED <<customers, pages, cleanup>>
       ELSE IF deleted THEN CustomerGone(c) /\ UNCHANGED cleanup
       ELSE cleanup' = Queued(c) /\ UNCHANGED <<customers, pages>>
    /\ UNCHANGED <<owner, sessions, handed, tab, checkoutLock>>

\* process_cleanup_queue: the entry goes once the provider confirms.
CleanUp(g) ==
    /\ g \in cleanup
    /\ CustomerGone(g) /\ cleanup' = cleanup \ {g}
    /\ UNCHANGED <<owner, sessions, handed, tab, checkoutLock, leaving,
                   checkoutErrors>>

-----------------------------------------------------------------------------
CheckoutInit ==
    /\ owner = [exists |-> TRUE, customer |-> NoCustomer, generation |-> 0,
                paid |-> {}]
    /\ customers = [g \in Generations |-> "none"]
    /\ pages = [k \in Keys |-> NoPage] /\ sessions = [k \in Keys |-> "none"]
    /\ handed = {} /\ tab = [t \in Tabs |-> Rest] /\ checkoutLock = {}
    /\ leaving = [pc |-> "no", customer |-> NoCustomer]
    /\ cleanup = {} /\ checkoutErrors = 0

TabStep(t) ==
    \/ \E price \in Prices : AskPage(t, price)
    \/ CreateCustomer(t) \/ StoreCustomer(t) \/ AskProvider(t)
    \/ ClearCustomer(t) \/ ReloadAccount(t) \/ LockCheckout(t)
    \/ ExpirePages(t) \/ CreatePage(t) \/ CommitPage(t) \/ FailCheckout(t)

CheckoutNext ==
    \/ \E t \in Tabs : TabStep(t)
    \/ \E k \in Keys : BuyerPays(k) \/ PageCompleted(k)
    \/ \E g \in Generations :
          DashboardDeletes(g) \/ CustomerDeleted(g) \/ CleanUp(g)
    \/ EndSubscriptions \/ ReadCustomer \/ DeleteRow
    \/ \E deleted \in BOOLEAN : ForgetCustomer(deleted)

CheckoutSpec == CheckoutInit /\ [][CheckoutNext]_checkoutVars

-----------------------------------------------------------------------------
(* What checkout promises. *)

\* Every variable keeps its type, and the lock is a request's that is past it.
CheckoutTypeOK ==
    /\ owner \in [exists : BOOLEAN, customer : CustomerIds,
                  generation : Generations, paid : SUBSET Keys]
    /\ customers \in [Generations -> {"none", "live", "gone"}]
    /\ pages \in [Keys -> [is : PageStates, of : CustomerIds]]
    /\ sessions \in [Keys -> {"none", "open", "closed"}]
    /\ handed \subseteq Keys /\ tab \in [Tabs -> TabRecords]
    /\ checkoutLock \subseteq
         {t \in Tabs : tab[t].pc \in {"expire", "create", "commit"}}
    /\ leaving \in [pc : {"no", "read", "delete", "forget", "gone"},
                    customer : CustomerIds]
    /\ cleanup \subseteq Generations /\ checkoutErrors \in Nat

\* However many tabs ask, fail and ask again for other plans, the buyer
\* holds the address of at most one page that can still be paid
\* (start_checkout).
OnePayablePage ==
    owner.exists => Cardinality({k \in Keys : Payable(k)}) <= 1

\* A customer that lives at the provider is never forgotten nor replaced by
\* another while the account exists, whatever a slow checkout or a late
\* event still holds (ensure_customer, clear_customer).
CustomerKept == [][
    owner.customer # NoCustomer /\ owner'.exists
       /\ customers[owner.customer] = "live" =>
          owner'.customer = owner.customer]_checkoutVars

\* The customer a deletion read is deleted at the provider in the end, or
\* queued for it (forget_customer, process_cleanup_queue).
ForgottenOrQueued ==
    leaving.pc = "gone" /\ leaving.customer # NoCustomer =>
       \/ customers[leaving.customer] = "gone"
       \/ leaving.customer \in cleanup

\* A buyer never holds two pages to pay, and a customer who leaves is
\* deleted at the provider or in the queue.
CheckoutSafety == OnePayablePage /\ ForgottenOrQueued

\* A deleted account is not charged any more, once its deletion is done and
\* nothing is left to clean up (cancel_paid_subscription).
DeletedNotCharged ==
    leaving.pc = "gone" /\ cleanup = {} =>
       \A k \in Keys : pages[k].is # "paid"
=============================================================================
