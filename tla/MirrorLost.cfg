\* Every webhook about a subscription is lost, and one job fails halfway.
CONSTANTS
    Subs = {s1, s2}
    Plans = {p1}
    Handlers = {h1}
    Scheduler = job0
    NoSub = NoSub
    NoWorker = NoWorker
    Requests <- LostRequests
    MaxTime = 0
    MaxVersion = 1
    MaxFailures = 1
    RenewalGrace = 1
    PaymentGrace = 2
    Period = 3
    GrantDays = 2
    WithdrawLimit = 2
SPECIFICATION FairSpec
PROPERTIES
    OneSubscriptionLeft
    MirrorConverges
    RefundedIsEnded
\* The customer stops, and then nothing is left to do.
CHECK_DEADLOCK FALSE
