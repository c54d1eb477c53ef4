\* One subscription over its periods, with plan changes, staff grants, trials.
CONSTANTS
    Subs = {s1}
    Plans = {p1, p2}
    Handlers = {h1}
    Scheduler = job0
    NoSub = NoSub
    NoWorker = NoWorker
    Requests <- LifeRequests
    MaxTime = 3
    MaxVersion = 3
    MaxFailures = 0
    RenewalGrace = 1
    PaymentGrace = 2
    Period = 2
    GrantDays = 2
    WithdrawLimit = 2
SPECIFICATION Spec
SYMMETRY Symmetry
INVARIANTS
    TypeOK
    GrantComesBack
    MirrorExact
PROPERTIES
    GraceNotRestarted
