\* A duplicate whose refund call fails once.
CONSTANTS
    Subs = {s1, s2}
    Plans = {p1}
    Handlers = {h1}
    Scheduler = job0
    NoSub = NoSub
    NoWorker = NoWorker
    Requests <- WebhookRequests
    MaxTime = 0
    MaxVersion = 1
    MaxFailures = 1
    RenewalGrace = 1
    PaymentGrace = 2
    Period = 3
    GrantDays = 2
    WithdrawLimit = 2
SPECIFICATION RetriedSpec
PROPERTIES
    DuplicateIsRefunded
CHECK_DEADLOCK FALSE
