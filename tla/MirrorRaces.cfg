\* Two workers on the account's two subscriptions, at one moment.
CONSTANTS
    Subs = {s1, s2}
    Plans = {p1}
    Handlers = {h1, h2}
    Scheduler = job0
    NoSub = NoSub
    NoWorker = NoWorker
    Requests <- RaceRequests
    MaxTime = 0
    MaxVersion = 2
    MaxFailures = 0
    RenewalGrace = 1
    PaymentGrace = 2
    Period = 3
    GrantDays = 2
    WithdrawLimit = 1
SPECIFICATION Spec
SYMMETRY Symmetry
INVARIANTS
    RecordedMeansApplied
    DuplicateHasAKeeper
PROPERTIES
    KeepsPromise
    EndedStaysEnded
