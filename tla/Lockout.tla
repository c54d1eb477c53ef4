------------------------------ MODULE Lockout ------------------------------
(***************************************************************************)
(* The locks against guessed passwords of one account: one per network     *)
(* after so many failures from it, one of the account after so many from   *)
(* everywhere, one after wrong second factors.  A failure is counted in    *)
(* the background by up to three statements, each on its own; a complete   *)
(* sign-in and a recovery clear what was counted.                          *)
(***************************************************************************)
EXTENDS Integers, FiniteSets

CONSTANTS
    Logins,             \* requests in progress
    LoginNetworks,      \* the networks they come from (ip_bucket)
    LockoutThreshold,   \* LOCKOUT_THRESHOLD, NETWORK_LOCKOUT_THRESHOLD
    AccountFailureCap,  \* ACCOUNT_FAILURE_CAP
    FailureWindow,      \* ACCOUNT_FAILURE_WINDOW_MINUTES
    FirstLock,          \* 15 minutes
    LongestLock,        \* 24 hours
    MaxLoginTime,       \* bound: the clock stops here
    MaxLoginFailures,   \* bound: failures in each count
    MaxLoginLosses      \* bound: background tasks that die

ASSUME LockoutConstants ==
    /\ IsFiniteSet(Logins)
    /\ LockoutThreshold \in Nat \ {0} /\ AccountFailureCap \in Nat \ {0}
    /\ FailureWindow \in Nat \ {0} /\ FirstLock \in Nat \ {0}
    /\ LongestLock \in Nat /\ FirstLock <= LongestLock
    /\ FirstLock >= FailureWindow
    /\ MaxLoginTime \in Nat /\ MaxLoginFailures \in Nat /\ MaxLoginLosses \in Nat

VARIABLES
    minute,     \* the clock
    bucket,     \* `login_failures` of each network
    everywhere, \* `login_failures` of bucket '*'
    factor,     \* failed_login_count: wrong second factors
    locked,     \* locked_until; 0 is NULL
    login,      \* what each request is doing
    guessed,    \* ghost: wrong passwords of a network that were looked at
                \* since its last lock ended or its failures were cleared
    cleared,    \* ghost: the lock of this window was cleared or never set
    lost        \* background tasks that died

lockoutVars ==
    <<minute, bucket, everywhere, factor, locked, login, guessed, cleared,
      lost>>

Buckets == [failures : Nat, until : Nat]
Everywhere == [failures : Nat, since : Nat]
NoNetwork == "none"
LoginPCs == {"idle", "guess", "own", "count", "countall", "lock", "reset",
             "forget", "factor"}
Attempts == [pc : LoginPCs, net : LoginNetworks \cup {NoNetwork}, until : Nat]
NoAttempt == [pc |-> "idle", net |-> NoNetwork, until |-> 0]
EmptyBucket == [failures |-> 0, until |-> 0]

\* 15 minutes, doubling with each further lock, at most 24 hours.
LockTime(n) ==
    LET doubled == FirstLock * 2 ^ (n \div LockoutThreshold - 1) IN
    IF doubled > LongestLock THEN LongestLock ELSE doubled

Until(n, before) ==
    IF n % LockoutThreshold = 0 THEN minute + LockTime(n) ELSE before

-----------------------------------------------------------------------------
(* login *)

\* find_by_identifier, with a wrong password (a guess) or the right one.
ReadLogin(r, net, pc) ==
    /\ login[r].pc = "idle" /\ pc \in {"guess", "own"}
    /\ login' = [login EXCEPT ![r] =
          [pc |-> pc, net |-> net, until |-> IF pc = "own" THEN locked ELSE 0]]
    /\ UNCHANGED <<minute, bucket, everywhere, factor, locked, guessed,
                   cleared, lost>>

\* Mutant of NetworkOpen: a network is never refused.
NetworkOpenAlways(net) == TRUE

NetworkOpen(net) == bucket[net].until <= minute

\* network_locked_until, then the password.  A right one is told of the
\* account's lock as it was read; a wrong one is counted in the background.
CheckPassword(r) ==
    /\ login[r].pc \in {"guess", "own"}
    /\ LET net == login[r].net
           guess == login[r].pc = "guess"
           refused == ~NetworkOpen(net) \/ login[r].until > minute IN
       /\ login' = [login EXCEPT ![r] =
            IF refused THEN NoAttempt
            ELSE [@ EXCEPT !.pc = IF guess THEN "count" ELSE "reset",
                           !.until = 0]]
       /\ guessed' = [guessed EXCEPT ![net] =
            IF guess /\ ~refused THEN @ + 1 ELSE @]
    /\ UNCHANGED <<minute, bucket, everywhere, factor, locked, cleared, lost>>

\* record_password_failure, the failures of the network.
CountNetwork(r) ==
    /\ login[r].pc = "count"
    /\ LET net == login[r].net
           n == bucket[net].failures + 1 IN
       /\ n <= MaxLoginFailures
       /\ bucket' = [bucket EXCEPT ![net] =
                       [failures |-> n, until |-> Until(n, @.until)]]
    /\ login' = [login EXCEPT ![r] = [NoAttempt EXCEPT !.pc = "countall"]]
    /\ UNCHANGED <<minute, everywhere, factor, locked, guessed, cleared, lost>>

AllWindowOver == everywhere.since + FailureWindow <= minute

\* Mutant of AccountCapReached: one failure too many is needed.
AccountCapPassed(n) == n = AccountFailureCap + 1

AccountCapReached(n) == n = AccountFailureCap

\* record_password_failure, the failures from everywhere.
CountAccount(r) ==
    /\ login[r].pc = "countall"
    /\ LET n == IF AllWindowOver THEN 1 ELSE everywhere.failures + 1 IN
       /\ n <= MaxLoginFailures
       /\ everywhere' = [failures |-> n,
             since |-> IF AllWindowOver THEN minute ELSE everywhere.since]
       /\ login' = [login EXCEPT ![r] =
             IF AccountCapReached(n) THEN [@ EXCEPT !.pc = "lock"]
             ELSE NoAttempt]
    /\ cleared' = (cleared /\ ~AllWindowOver)
    /\ UNCHANGED <<minute, bucket, factor, locked, guessed, lost>>

\* Mutant of AccountLock: the later of the two locks is not kept.
AccountLockNew == minute + FailureWindow

AccountLock ==
    IF locked > minute + FailureWindow THEN locked ELSE minute + FailureWindow

LockAccount(r) ==
    /\ login[r].pc = "lock"
    /\ locked' = AccountLock
    /\ login' = [login EXCEPT ![r] = NoAttempt]
    /\ UNCHANGED <<minute, bucket, everywhere, factor, guessed, cleared, lost>>

\* The background task dies, or the database refuses it.
LoseFailure(r) ==
    /\ login[r].pc \in {"count", "countall", "lock"}
    /\ lost < MaxLoginLosses /\ lost' = lost + 1
    /\ cleared' = (cleared \/ login[r].pc = "lock")
    /\ login' = [login EXCEPT ![r] = NoAttempt]
    /\ UNCHANGED <<minute, bucket, everywhere, factor, locked, guessed>>

\* issue_session: reset_login_failures of the account, then of the network.
ResetAccount(r) ==
    /\ login[r].pc = "reset"
    /\ factor' = 0 /\ locked' = 0
    /\ cleared' = (cleared \/ locked > minute)
    /\ login' = [login EXCEPT ![r].pc = "forget"]
    /\ UNCHANGED <<minute, bucket, everywhere, guessed, lost>>

ForgetNetwork(r) ==
    /\ login[r].pc = "forget"
    /\ bucket' = [bucket EXCEPT ![login[r].net] = EmptyBucket]
    /\ guessed' = [guessed EXCEPT ![login[r].net] = 0]
    /\ login' = [login EXCEPT ![r] = NoAttempt]
    /\ UNCHANGED <<minute, everywhere, factor, locked, cleared, lost>>

-----------------------------------------------------------------------------
(* login_two_factor with a wrong code, and recovery. *)

SecondFactor(r) ==
    /\ login[r].pc = "idle" /\ locked <= minute
    /\ login' = [login EXCEPT ![r].pc = "factor"]
    /\ UNCHANGED <<minute, bucket, everywhere, factor, locked, guessed,
                   cleared, lost>>

\* record_failed_login, one statement.
CountFactor(r) ==
    /\ login[r].pc = "factor" /\ factor < MaxLoginFailures
    /\ factor' = factor + 1
    /\ locked' = Until(factor + 1, locked)
    /\ login' = [login EXCEPT ![r] = NoAttempt]
    /\ UNCHANGED <<minute, bucket, everywhere, guessed, cleared, lost>>

\* recover_password, one transaction.
RecoverLocked ==
    /\ factor' = 0 /\ locked' = 0
    /\ bucket' = [n \in LoginNetworks |-> EmptyBucket]
    /\ everywhere' = [failures |-> 0, since |-> minute]
    /\ guessed' = [n \in LoginNetworks |-> 0]
    /\ cleared' = FALSE
    /\ UNCHANGED <<minute, login, lost>>

\* A network whose lock ends may guess again.
LoginTick ==
    /\ minute < MaxLoginTime /\ minute' = minute + 1
    /\ guessed' = [n \in LoginNetworks |->
                     IF bucket[n].until = minute + 1 THEN 0 ELSE guessed[n]]
    /\ UNCHANGED <<bucket, everywhere, factor, locked, login, cleared, lost>>

LockoutInit ==
    /\ minute = 0 /\ factor = 0 /\ locked = 0 /\ cleared = FALSE /\ lost = 0
    /\ bucket = [n \in LoginNetworks |-> EmptyBucket]
    /\ everywhere = [failures |-> 0, since |-> 0]
    /\ login = [r \in Logins |-> NoAttempt]
    /\ guessed = [n \in LoginNetworks |-> 0]

LoginStep(r) ==
    \/ \E net \in LoginNetworks, pc \in {"guess", "own"} : ReadLogin(r, net, pc)
    \/ CheckPassword(r) \/ CountNetwork(r) \/ CountAccount(r) \/ LockAccount(r)
    \/ LoseFailure(r) \/ ResetAccount(r) \/ ForgetNetwork(r)
    \/ SecondFactor(r) \/ CountFactor(r)

LockoutNext ==
    (\E r \in Logins : LoginStep(r)) \/ RecoverLocked \/ LoginTick

LockoutSpec == LockoutInit /\ [][LockoutNext]_lockoutVars

-----------------------------------------------------------------------------
(* What the locks promise. *)

\* Every variable keeps its type.
LockoutTypeOK ==
    /\ minute \in Nat /\ factor \in Nat /\ locked \in Nat /\ lost \in Nat /\ cleared \in BOOLEAN
    /\ bucket \in [LoginNetworks -> Buckets] /\ everywhere \in Everywhere
    /\ login \in [Logins -> Attempts] /\ guessed \in [LoginNetworks -> Nat]

\* A lock of the account is never shortened: two kinds of lock write the
\* same column, and only a complete sign-in or a recovery clears it.
LockNotShortened == [][locked' >= locked \/ locked' = 0]_lockoutVars

\* Failures from everywhere lock the account although they are counted one
\* by one in the background and only one number locks: in a window with so
\* many failures the account is locked until the window is over, or is
\* about to be, unless a sign-in that had begun before cleared it.
CapLocksAccount ==
    everywhere.failures >= AccountFailureCap /\ ~AllWindowOver /\ ~cleared =>
      \/ locked >= everywhere.since + FailureWindow
      \/ \E r \in Logins : login[r].pc = "lock"

\* A network tries only so many passwords between two locks of it, but for
\* the requests that were past the check when it was locked and those whose
\* failure was never counted.
GuessesPerNetwork ==
    \A n \in LoginNetworks :
       guessed[n] <= LockoutThreshold + Cardinality(Logins) - 1 + lost

\* Guessing is held down from one network and from everywhere, although
\* failures are counted in the background (record_password_failure).
LockLimits == CapLocksAccount /\ GuessesPerNetwork
=============================================================================
