\* What guards an account: two requests at once, on tight limits.
CONSTANTS
    CodeRequests = {x1, x2}
    ConfirmRequests = {x1, x2}
    SignIns = {x1, x2}
    Logins = {x1, x2}
    MailRequests = {x1, x2}
    Networks = {y1, y2}
    LoginNetworks = {y1, y2}
    Addresses = {home}
    CodeMaxAttempts = 2
    CodeDailyCap = 2
    PerNetwork = 2
    PerAccount = 3
    CodeLife = 2
    ResendInterval = 1
    Day = 3
    MaxCodes = 2
    MaxCodeTime = 3
    MaxVoids = 1
    MaxFailed = 1
    WindowLife = 1
    DayLife = 2
    SignOutAt = 2
    MaxConfirmTime = 2
    MaxConfirmLosses = 1
    ChallengeMaxAttempts = 2
    TotpWindow = 0
    MaxRevocations = 1
    MaxChallenges = 1
    MaxSecrets = 1
    MaxStep = 1
    LockoutThreshold = 1
    AccountFailureCap = 2
    FailureWindow = 1
    FirstLock = 1
    LongestLock = 2
    MaxLoginTime = 1
    MaxLoginFailures = 2
    MaxLoginLosses = 1
    People = {y1, y2}
    Mails = {z1, z2}
    MidTrial = FALSE
    MaxMails = 2
    MaxTroubles = 1
    Quarantine = 1
    Cooldown = 1
    MaxNameTime = 1
SPECIFICATION Spec
SYMMETRY Symmetry
\* Every request may have been answered and every bound used up.
CHECK_DEADLOCK FALSE
INVARIANTS
    TypesOK
    CodeLimits
    DailyGuesses
    CheckLimits
    SignInSafety
    LockLimits
    
    
PROPERTIES
    AskingKeepsCode
    LockNotShortened
    
