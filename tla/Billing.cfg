\* What surrounds a subscription: two workers, two accounts, two tabs.
CONSTANTS
    CreditWorkers = {w1, w2}
    Handlers = {w1, w2}
    Tabs = {w1, w2}
    Referrer = ra
    Referred = {b1, b2}
    Spenders = {ra}
    Redeemers = {b1, b2}
    RewardCredits = 1
    BonusCredits = 1
    PromoCredits = 1
    RewardCost = 1
    MaxPerMonth = 1
    MaxRedemptions = 1
    ClawbackMonths = 0
    MaxCreditEvents = 2
    Refunds = {f1}
    Amount = 1
    MaxReplays = 1
    MaxLedgerErrors = 1
    Prices = {b1, b2}
    MaxPages = 2
    MaxGeneration = 1
    MaxCheckoutErrors = 1
    Desks = {d1}
    Staff = {d1}
    Amounts = {50, 60}
    PromotionPercent = 10
    CodePercent = 20
    MaxPlanEdits = 1
    MaxSaleErrors = 1
SPECIFICATION Spec
SYMMETRY Symmetry
\* Every event may have been handled and every bound used up.
CHECK_DEADLOCK FALSE
INVARIANTS
    TypesOK
    CreditSafety
    RefundsKept
    CheckoutSafety
    SaleSafety
PROPERTIES
    CustomerKept
