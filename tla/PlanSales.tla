------------------------------ MODULE PlanSales ------------------------------
(***************************************************************************)
(* What plans cost, and how they are sold through the payment provider.    *)
(*                                                                         *)
(* Admins edit the plan, its promotion and a promo code.  A buyer's        *)
(* request reads the plan, finds or creates the price at the provider,     *)
(* makes a coupon of the best discount and opens a page; a subscriber's    *)
(* moves the subscription to another price and records what the provider   *)
(* answered.  Every call may be lost on its way or back: it is repeated    *)
(* once, and the provider answers a key it has seen with its first answer. *)
(* An offer is a billing interval and an amount.  Customers, the pages of  *)
(* other tabs and cancelled subscriptions are Checkout's and               *)
(* SubscriptionMirror's.                                                   *)
(***************************************************************************)
EXTENDS Integers

CONSTANTS
    Desks,           \* requests of an account that buys or changes
    Staff,           \* requests of admins
    Amounts,         \* what an interval may cost, in cents
    PromotionPercent, CodePercent,   \* the discounts
    MaxPlanEdits,    \* bound: edits by staff
    MaxSaleErrors    \* bound: lost calls

\* What the provider charges at least.
MinCharge == 50

ASSUME SaleConstants ==
    /\ Amounts \subseteq Nat /\ \A a \in Amounts : a >= MinCharge
    /\ PromotionPercent \in 1..100 /\ CodePercent \in 1..100
    /\ MaxPlanEdits \in Nat /\ MaxSaleErrors \in Nat

VARIABLES
    plan,         \* the `plans` row: is it public, and its two prices
    draft,        \* the rows that staff's requests are about to write
    promotion,    \* the promotion: missing, not running, running
    code,         \* the promo code of the buyer
    store,        \* products and prices at the provider
    replay,       \* the idempotency keys the provider has seen
    paid,         \* the subscription: its price there and its price here
    page,         \* the checkout page that can be paid
    desk,         \* what each request is doing
    subLock,      \* the lock on the subscription
    told,         \* what the last change was told
    planEdits, saleErrors

catalogue == <<plan, draft, promotion, code>>
saleVars == <<catalogue, store, replay, paid, page, desk, subLock, told,
              planEdits, saleErrors>>

Intervals == {"monthly", "yearly"}
Fields == Intervals \cup {"public"}
Offers == Intervals \X Amounts
NoOffer == <<"none", 0>>
MaybeOffers == Offers \cup {NoOffer}

\* validate_chargeable_price: free, or what the provider accepts.
Values(field) == IF field = "public" THEN {0, 1} ELSE Amounts \cup {0}
Rows == {row \in [Fields -> Amounts \cup {0, 1}] :
            \A f \in Fields : row[f] \in Values(f)}

\* The provider's answer to a change: the price the subscription is on, and
\* whether an update waits for the charge.
Answers == [at : MaybeOffers, pending : BOOLEAN]
NoAnswer == [at |-> NoOffer, pending |-> FALSE]

\* "setlyst-coupon-...": a promotion's or a redemption's.
Sources == {"promotion", "code"}
Discounts == Sources \cup {"none"}
DeskPCs == {"idle", "find", "product", "price", "coupon", "open", "lock",
            "change", "answer"}
DeskRecords == [pc : DeskPCs, offer : MaybeOffers, discount : Discounts,
                got : MaybeOffers, again : BOOLEAN, mine : BOOLEAN,
                answer : Answers, charged : 0..2]

\* A plan nobody created is as one that is not public and not sold.
NewPlan == [f \in Fields |-> 0]
Resting == [pc |-> "idle", offer |-> NoOffer, discount |-> "none",
            got |-> NoOffer, again |-> FALSE, mine |-> FALSE,
            answer |-> NoAnswer, charged |-> 0]
NoSale == [offer |-> NoOffer, shown |-> NoOffer, discount |-> "none"]

Waits(t, pc) == desk[t].pc = pc
Ends(t) == desk' = [desk EXCEPT ![t] = Resting] /\ subLock' = subLock \ {t}
Goes(t, pc) == desk' = [desk EXCEPT ![t].pc = pc, ![t].again = FALSE]
Moves(t) == t \in subLock

-----------------------------------------------------------------------------
(* Staff: the plan, its promotion and the promo code. *)

Edits ==
    /\ planEdits < MaxPlanEdits /\ planEdits' = planEdits + 1
    /\ UNCHANGED <<store, replay, paid, page, desk, subLock, told, saleErrors>>

\* The field that is given replaces the one of the row that was read.
Merged(row, field, value) == [row EXCEPT ![field] = value]

\* The handler of upsert_plan, up to the repository's read of the row.
ReadPlan(s, field, value) ==
    /\ draft[s] = {} /\ value \in Values(field)
    /\ draft' = [draft EXCEPT ![s] = {Merged(plan, field, value)}]
    /\ Edits /\ UNCHANGED <<plan, promotion, code>>

\* upsert_plan of the repository: every column is written.
WritePlan(s) ==
    /\ draft[s] # {} /\ plan' \in draft[s]
    /\ draft' = [draft EXCEPT ![s] = {}]
    /\ UNCHANGED <<promotion, code, store, replay, paid, page, desk, subLock,
                   told, planEdits, saleErrors>>

\* An end after the start: the table refuses what two edits turn around.
InWindow(state) == state \in {"waiting", "running"}

CreatePromotion(state) ==
    /\ Edits /\ promotion = "none" /\ InWindow(state) /\ promotion' = state
    /\ UNCHANGED <<plan, draft, code>>

\* update_promotion; or its time comes, or is over.
UpdatePromotion(state) ==
    /\ Edits /\ promotion # "none" /\ InWindow(state)
    /\ state # promotion /\ promotion' = state
    /\ UNCHANGED <<plan, draft, code>>

DeletePromotion ==
    /\ Edits /\ promotion # "none" /\ promotion' = "none"
    /\ UNCHANGED <<plan, draft, code>>

\* A code of the kind "discount" is created, and the account redeems it
\* (Credits).
CreateCode ==
    /\ Edits /\ code = "none" /\ code' = "held"
    /\ UNCHANGED <<plan, draft, promotion>>

\* update_promo_code: it is disabled or expires, or is put back.
UpdateCode ==
    /\ Edits /\ code \in {"held", "disabled"}
    /\ code' = IF code = "held" THEN "disabled" ELSE "held"
    /\ UNCHANGED <<plan, draft, promotion>>

-----------------------------------------------------------------------------
(* A request finds its price. *)

\* price_of.
PriceOf(interval) == plan[interval]

\* purchasable_plan.
Purchasable(interval) == plan["public"] = 1 /\ PriceOf(interval) > 0

\* running_promotions.
Running == promotion = "running"

\* best_discount: the promotion wins ties, and keeps the code for later.
BestDiscount ==
    IF code = "held" /\ (Running => CodePercent > PromotionPercent) THEN "code"
    ELSE IF Running THEN "promotion" ELSE "none"

\* What is asked for.
PriceSpec(interval) == <<interval, PriceOf(interval)>>

\* The handler of a checkout, and start_checkout up to the price.
AskToBuy(t, interval) ==
    /\ Waits(t, "idle") /\ Purchasable(interval) /\ paid.row = NoOffer
    /\ desk' = [desk EXCEPT ![t] =
          [Resting EXCEPT !.pc = "find", !.discount = BestDiscount,
                          !.offer = PriceSpec(interval)]]
    /\ UNCHANGED <<catalogue, store, replay, paid, page, subLock, told,
                   planEdits, saleErrors>>

\* The handler of a change, and change_plan up to the subscription's lock.
AskToChange(t, interval) ==
    /\ Waits(t, "idle") /\ Purchasable(interval) /\ paid.row # NoOffer
    /\ desk' = [desk EXCEPT ![t] =
          [Resting EXCEPT !.pc = "lock", !.offer = PriceSpec(interval)]]
    /\ UNCHANGED <<catalogue, store, replay, paid, page, subLock, told,
                   planEdits, saleErrors>>

\* The key of a change is its own: the provider has not seen it.
FreshKey == [o \in Offers |-> NoAnswer]

LockPaid(t) ==
    /\ Waits(t, "lock") /\ subLock = {} /\ subLock' = {t}
    /\ Goes(t, "find") /\ told' = "nothing"
    /\ replay' = [replay EXCEPT !.change = FreshKey]
    /\ UNCHANGED <<catalogue, store, paid, page, planEdits, saleErrors>>

\* What a call may come to: answered, done without an answer, not done.
Fates == {"answered", "lost", "failed"}

\* A call got no answer, after it charged so often, or made the coupon.  It
\* is repeated once, then the request fails.  (An answer that refuses the
\* call fails it at once, as a second loss does.)
Lost(t, charged, made) ==
    /\ saleErrors < MaxSaleErrors /\ saleErrors' = saleErrors + 1
    /\ IF desk[t].again THEN Ends(t)
       ELSE /\ desk' = [desk EXCEPT ![t].again = TRUE, ![t].mine = made,
                                    ![t].charged = @ + charged]
            /\ UNCHANGED subLock

\* Mutant of LookupKey: a plan keeps its price when its amount changes.
LookupKeyOfInterval(offer) == <<offer[1], CHOOSE a \in Amounts : TRUE>>

\* A changed amount is a new price.
LookupKey(offer) == offer

\* What follows ensure_price: a change is refused when the subscription is
\* on the price, or on the interval of the plan.
Priced(t, price) ==
    IF Moves(t) /\ (price = paid.at \/ desk[t].offer[1] = paid.at[1])
    THEN Ends(t)
    ELSE /\ desk' = [desk EXCEPT ![t].got = price, ![t].again = FALSE,
              ![t].pc = IF Moves(t) THEN "change"
                        ELSE IF desk[t].discount # "none" THEN "coupon"
                        ELSE "open"]
         /\ UNCHANGED subLock

\* ensure_price: the price that holds the lookup key.
FindPrice(t) ==
    /\ Waits(t, "find")
    /\ LET price == store.price[LookupKey(desk[t].offer)] IN
       IF price = NoOffer THEN Goes(t, "product") /\ UNCHANGED subLock
       ELSE Priced(t, price)
    /\ UNCHANGED <<catalogue, store, replay, paid, page, told, planEdits,
                   saleErrors>>

\* ensure_product: one that exists, under whatever name, answers 400, and
\* is found.
MakeProduct(t, fate) ==
    /\ Waits(t, "product")
    /\ store' = IF fate = "failed" THEN store
                ELSE [store EXCEPT !.product = TRUE]
    /\ IF fate = "answered"
       THEN Goes(t, "price") /\ UNCHANGED <<subLock, saleErrors>>
       ELSE Lost(t, 0, FALSE)
    /\ UNCHANGED <<catalogue, replay, paid, page, told, planEdits>>

\* The price is created and takes the lookup key over; a key that was seen
\* is answered with the price it made, archived since or not.
MakePrice(t, fate) ==
    LET offer == desk[t].offer
        k == LookupKey(offer)
        made == IF replay.price[k] = NoOffer THEN offer ELSE replay.price[k]
    IN
    /\ Waits(t, "price")
    /\ IF fate = "failed" THEN UNCHANGED <<store, replay>>
       ELSE /\ store' = IF replay.price[k] = NoOffer
                        THEN [store EXCEPT !.price[k] = offer] ELSE store
            /\ replay' = [replay EXCEPT !.price[k] = made]
    /\ IF fate = "answered" THEN Priced(t, made) /\ UNCHANGED saleErrors
       ELSE Lost(t, 0, FALSE)
    /\ UNCHANGED <<catalogue, paid, page, told, planEdits>>

-----------------------------------------------------------------------------
(* Pages. *)

\* create_coupon, keyed by the discount and the hour.  It names the second
\* until which it is valid, so that the key of another request of the same
\* hour is refused.
MakeCoupon(t, fate) ==
    LET s == desk[t].discount IN
    /\ Waits(t, "coupon")
    /\ replay' = IF fate = "failed" THEN replay
                 ELSE [replay EXCEPT !.coupons = @ \cup {s}]
    /\ IF fate = "answered"
       THEN /\ IF s \in replay.coupons /\ ~desk[t].mine THEN Ends(t)
               ELSE Goes(t, "open") /\ UNCHANGED subLock
            /\ UNCHANGED saleErrors
       ELSE Lost(t, 0, fate = "lost" /\ s \notin replay.coupons)
    /\ UNCHANGED <<catalogue, store, paid, page, told, planEdits>>

\* What the page is opened with: checkout_params.
PageOf(request) == [offer |-> request.got, shown |-> request.offer,
                    discount |-> request.discount]

\* create_checkout, after the earlier page was expired.  An archived price
\* is refused.
OpenPage(t) ==
    /\ Waits(t, "open") /\ Ends(t)
    /\ page' = IF store.price[LookupKey(desk[t].got)] # desk[t].got THEN page
               ELSE PageOf(desk[t])
    /\ UNCHANGED <<catalogue, store, replay, paid, told, planEdits,
                   saleErrors>>

\* The page is paid and the subscription mirrored, which spends the code.
PayPage ==
    /\ page.offer # NoOffer /\ paid.at = NoOffer
    /\ paid' = [at |-> page.offer, row |-> page.offer, pending |-> NoOffer,
                drift |-> FALSE]
    /\ code' = IF page.discount = "code" THEN "spent" ELSE code
    /\ page' = NoSale
    /\ UNCHANGED <<plan, draft, promotion, store, replay, desk, subLock, told,
                   planEdits, saleErrors>>

-----------------------------------------------------------------------------
(* Changes. *)

\* The subscription moves when the proration is paid; a charge the customer
\* must confirm leaves it where it is, with an update that waits.
Moved(price, confirmed) ==
    IF confirmed
    THEN [paid EXCEPT !.at = price, !.pending = NoOffer, !.drift = TRUE]
    ELSE [paid EXCEPT !.pending = price]

\* Mutant of Seen: the call is repeated without a key.
SeenNever(t) == NoAnswer

\* What the provider recorded under the key of the change.
Seen(t) == replay.change[desk[t].got]

\* change_price, and the answer that parse_subscription reads.
ChangePrice(t, fate, confirmed) ==
    LET made == fate # "failed"
        first == made /\ Seen(t) = NoAnswer IN
    /\ Waits(t, "change")
    /\ paid' = IF first THEN Moved(desk[t].got, confirmed) ELSE paid
    /\ replay' = IF first
                 THEN [replay EXCEPT !.change[desk[t].got] =
                          [at |-> paid'.at, pending |-> ~confirmed]]
                 ELSE replay
    /\ IF fate = "answered"
       THEN /\ desk' = [desk EXCEPT ![t].pc = "answer", ![t].again = FALSE,
                                    ![t].answer = replay'.change[desk[t].got],
                                    ![t].charged = @ + (IF first THEN 1 ELSE 0)]
            /\ UNCHANGED <<subLock, saleErrors>>
       ELSE Lost(t, IF first THEN 1 ELSE 0, FALSE)
    /\ UNCHANGED <<catalogue, store, page, told, planEdits>>

\* pending_change_error.
Confirmation == "confirm"

\* The answer: of another price it is refused, of an update that waits the
\* customer is told, and the rest is mirrored.
HearAnswer(t) ==
    LET answer == desk[t].answer
        refused == answer.at # desk[t].got IN
    /\ Waits(t, "answer") /\ Ends(t)
    /\ told' = IF answer.pending /\ ~refused THEN Confirmation ELSE told
    /\ paid' = IF refused \/ answer.pending THEN paid
               ELSE [paid EXCEPT !.row = answer.at, !.drift = FALSE]
    /\ UNCHANGED <<catalogue, store, replay, page, planEdits, saleErrors>>

\* The customer confirms the charge on the provider's page.
ConfirmCharge ==
    /\ paid.pending # NoOffer
    /\ paid' = [paid EXCEPT !.at = paid.pending, !.pending = NoOffer,
                            !.drift = TRUE]
    /\ UNCHANGED <<catalogue, store, replay, page, desk, subLock, told,
                   planEdits, saleErrors>>

\* A webhook or the daily walk mirrors the subscription, under its lock.
MirrorPrice ==
    /\ paid.drift /\ subLock = {}
    /\ paid' = [paid EXCEPT !.row = paid.at, !.drift = FALSE]
    /\ UNCHANGED <<catalogue, store, replay, page, desk, subLock, told,
                   planEdits, saleErrors>>

-----------------------------------------------------------------------------
(* The provider. *)

\* A price is archived in the dashboard.
Archive(offer) ==
    /\ planEdits < MaxPlanEdits /\ planEdits' = planEdits + 1
    /\ store.price[offer] # NoOffer
    /\ store' = [store EXCEPT !.price[offer] = NoOffer]
    /\ UNCHANGED <<catalogue, replay, paid, page, desk, subLock, told,
                   saleErrors>>

\* The keys of coupons name the hour; none ends while a coupon is made.
\* (Keys last a day, which nothing here does.)
HourPasses ==
    /\ replay.coupons # {} /\ \A t \in Desks : ~Waits(t, "coupon")
    /\ replay' = [replay EXCEPT !.coupons = {}]
    /\ UNCHANGED <<catalogue, store, paid, page, desk, subLock, told,
                   planEdits, saleErrors>>

-----------------------------------------------------------------------------
SaleInit ==
    /\ plan \in {row \in Rows : row["public"] = 1 /\ row["monthly"] > 0
                               /\ row["yearly"] = row["monthly"]}
    /\ draft = [s \in Staff |-> {}]
    /\ promotion = "running" /\ code = "held"
    /\ store = [product |-> FALSE, price |-> [k \in Offers |-> NoOffer]]
    /\ replay = [price |-> [k \in Offers |-> NoOffer], coupons |-> {},
                 change |-> [o \in Offers |-> NoAnswer]]
    /\ paid = [at |-> NoOffer, row |-> NoOffer, pending |-> NoOffer,
               drift |-> FALSE]
    /\ page = NoSale
    /\ desk = [t \in Desks |-> Resting] /\ subLock = {}
    /\ told = "nothing" /\ planEdits = 0 /\ saleErrors = 0

StaffStep ==
    \/ \E s \in Staff : WritePlan(s)
    \/ \E s \in Staff, field \in Fields : \E value \in Values(field) :
          ReadPlan(s, field, value)
    \/ \E state \in {"waiting", "running"} :
          CreatePromotion(state) \/ UpdatePromotion(state)
    \/ DeletePromotion \/ CreateCode \/ UpdateCode

DeskStep(t) ==
    \/ \E interval \in Intervals : AskToBuy(t, interval) \/ AskToChange(t, interval)
    \/ LockPaid(t) \/ FindPrice(t) \/ OpenPage(t) \/ HearAnswer(t)
    \/ \E fate \in Fates :
          \/ MakeProduct(t, fate) \/ MakePrice(t, fate) \/ MakeCoupon(t, fate)
          \/ \E confirmed \in BOOLEAN : ChangePrice(t, fate, confirmed)

SaleNext ==
    \/ StaffStep
    \/ \E t \in Desks : DeskStep(t)
    \/ PayPage \/ ConfirmCharge \/ MirrorPrice \/ HourPasses
    \/ \E offer \in Offers : Archive(offer)

SaleSpec == SaleInit /\ [][SaleNext]_saleVars

-----------------------------------------------------------------------------
(* What selling promises. *)

\* Every variable keeps its type.
SaleTypeOK ==
    /\ plan \in Rows /\ draft \in [Staff -> SUBSET Rows]
    /\ promotion \in {"none", "waiting", "running"}
    /\ code \in {"none", "held", "disabled", "spent"}
    /\ store \in [product : BOOLEAN, price : [Offers -> MaybeOffers]]
    /\ replay \in [price : [Offers -> MaybeOffers], coupons : SUBSET Sources,
                   change : [Offers -> Answers]]
    /\ paid \in [at : MaybeOffers, row : MaybeOffers, pending : MaybeOffers,
                 drift : BOOLEAN]
    /\ page \in [offer : MaybeOffers, shown : MaybeOffers,
                 discount : Discounts]
    /\ desk \in [Desks -> DeskRecords] /\ subLock \subseteq Desks
    /\ told \in {"nothing", Confirmation}
    /\ planEdits \in 0..MaxPlanEdits /\ saleErrors \in 0..MaxSaleErrors

\* A page charges what the plan cost when the buyer asked, whatever staff
\* edit, archive, or other requests create meanwhile (ensure_price).
SoldAsShown == page.offer = page.shown

\* A change is charged once, even when its answer got lost and the call was
\* repeated (call, change_price).
ChargedOnce == \A t \in Desks : desk[t].charged <= 1

\* Unless it moved without an answer, the plan the account is shown is the
\* one it pays for: also after changes there and back (change_price).
ShownIsCharged == ~paid.drift => paid.row = paid.at

SaleSafety == SoldAsShown /\ ChargedOnce /\ ShownIsCharged

\* A subscriber whose bank wants the charge confirmed is told so
\* (change_plan).
PendingIsTold == [][
    \A t \in Desks :
       desk[t].answer.pending /\ desk'[t].pc = "idle" => told' = Confirmation
    ]_saleVars
=============================================================================
