--------------------------- MODULE Confirmations ---------------------------
(***************************************************************************)
(* Confirmations of sensitive actions by a signed-in account: a password   *)
(* or an e-mailed code ("proof"), and a second factor ("factor").  Each    *)
(* kind has a window of so many failures; both count towards one total of  *)
(* the day, which signs the account out everywhere.                        *)
(*                                                                         *)
(* A check is claimed in one statement, made, and given back when it was   *)
(* right; the window may have ended and another begun in between.          *)
(***************************************************************************)
EXTENDS Integers, FiniteSets, Sequences

CONSTANTS
    ConfirmRequests,    \* requests of the account in progress
    MaxFailed,          \* REAUTH_MAX_FAILURES, SECOND_FACTOR_MAX_FAILURES
    WindowLife,         \* REAUTH_WINDOW_SECONDS, SECOND_FACTOR_WINDOW_SECONDS
    DayLife,            \* 24 hours
    SignOutAt,          \* REAUTH_DAILY_FAILURES_BEFORE_SIGN_OUT
    MaxConfirmTime,     \* bound: the clock stops here
    MaxConfirmLosses    \* bound: requests that die halfway

ASSUME ConfirmConstants ==
    /\ IsFiniteSet(ConfirmRequests)
    /\ MaxFailed \in Nat \ {0} /\ SignOutAt \in Nat \ {0}
    /\ WindowLife \in Nat \ {0} /\ DayLife \in Nat \ {0}
    /\ MaxConfirmTime \in Nat /\ MaxConfirmLosses \in Nat

VARIABLES
    today,      \* the clock
    window,     \* the failures claimed in each kind's current window
    total,      \* the wrong confirmations of the day
    confirm,    \* what each request is doing
    wrong,      \* ghost: wrong answers claimed in the current window
    signedOut,  \* ghost: the days whose total signed the account out
    losses

confirmVars == <<today, window, total, confirm, wrong, signedOut, losses>>

Kinds == {"proof", "factor"}
Windows == [since : Nat, failures : Nat]
Totals == [since : Nat, failures : Nat]

\* What an action asks for, in order: the second factor where the account
\* has one.  Turning the second factor on checks a code of the pending
\* secret, whose failures no day counts.
EmailChangeNeeds == <<"proof", "factor">>
DeletionNeeds == <<"proof", "factor">>
DisableNeeds == <<"proof", "factor">>
RecoveryCodesNeed == <<"factor">>
PasswordChangeNeeds == <<"proof">>
SetupNeeds == <<"proof">>
LinkNeeds == <<"proof">>
UnlinkNeeds == <<"proof">>
EnableNeeds == <<"pending">>

ConfirmActs ==
    {EmailChangeNeeds, DeletionNeeds, DisableNeeds, RecoveryCodesNeed,
     PasswordChangeNeeds, SetupNeeds, LinkNeeds, UnlinkNeeds, EnableNeeds}

ConfirmPCs == {"idle", "claim", "wrong", "right", "signout"}
Confirming ==
    [pc : ConfirmPCs, needs : {<<>>} \cup ConfirmActs, day : Nat]
NotConfirming == [pc |-> "idle", needs |-> <<>>, day |-> 0]

\* The window a check counts in.
KindOf(need) == IF need = "proof" THEN "proof" ELSE "factor"

-----------------------------------------------------------------------------
(* The limiter. *)

\* Mutant of WindowOver: a window is over as soon as it is full.
WindowOverFull(w) == w.failures >= MaxFailed \/ w.since + WindowLife <= today

WindowOver(w) == w.since + WindowLife <= today

\* claim_second_factor_check, claim_reauth_check: a new window, or one more
\* check in this one while it is below the limit; otherwise refused.
Claimed(w) ==
    IF WindowOver(w) THEN [since |-> today, failures |-> 1]
    ELSE [w EXCEPT !.failures = @ + 1]

MayClaim(w) == WindowOver(w) \/ w.failures < MaxFailed

\* Mutant of Released: the check is not given back.
NotReleased(w) == w

\* Mutant of Released: it may fall below zero.
ReleasedBelow(w) == [w EXCEPT !.failures = @ - 1]

\* release_second_factor_check, release_reauth_check
Released(w) ==
    [w EXCEPT !.failures = IF @ > 0 THEN @ - 1 ELSE 0]

\* record_reauth_failure: the total is read as it is increased.
Counted ==
    IF total.since + DayLife <= today THEN [since |-> today, failures |-> 1]
    ELSE [total EXCEPT !.failures = @ + 1]

-----------------------------------------------------------------------------
(* A request. *)

Confirm(r, act) ==
    /\ confirm[r].pc = "idle" /\ act \in ConfirmActs
    /\ confirm' = [confirm EXCEPT ![r] =
                     [pc |-> "claim", needs |-> act, day |-> 0]]
    /\ UNCHANGED <<today, window, total, wrong, signedOut, losses>>

ClaimCheck(r, right) ==
    /\ confirm[r].pc = "claim"
    /\ LET k == KindOf(Head(confirm[r].needs)) IN
       IF MayClaim(window[k])
       THEN /\ window' = [window EXCEPT ![k] = Claimed(@)]
            /\ wrong' = [wrong EXCEPT ![k] =
                 (IF window[k].since + WindowLife <= today THEN 0 ELSE @)
                   + (IF right THEN 0 ELSE 1)]
            /\ confirm' = [confirm EXCEPT ![r].pc =
                             IF right THEN "right" ELSE "wrong"]
       ELSE /\ confirm' = [confirm EXCEPT ![r] = NotConfirming]
            /\ UNCHANGED <<window, wrong>>
    /\ UNCHANGED <<today, total, signedOut, losses>>

\* The check is given back; the next one is asked for, or the action done.
CheckRight(r) ==
    /\ confirm[r].pc = "right"
    /\ LET needs == confirm[r].needs IN
       /\ window' = [window EXCEPT ![KindOf(Head(needs))] = Released(@)]
       /\ confirm' = [confirm EXCEPT ![r] =
                        IF Len(needs) = 1 THEN NotConfirming
                        ELSE [@ EXCEPT !.pc = "claim", !.needs = Tail(needs)]]
    /\ UNCHANGED <<today, total, wrong, signedOut, losses>>

\* Mutant of SignOutDue: one failure too late.
SignOutDueLate(n) == n = SignOutAt + 1

SignOutDue(n) == n = SignOutAt

\* record_reauth_failure; a wrong code of a pending secret is not counted.
CheckWrong(r) ==
    /\ confirm[r].pc = "wrong"
    /\ IF Head(confirm[r].needs) = "pending"
       THEN /\ confirm' = [confirm EXCEPT ![r] = NotConfirming]
            /\ UNCHANGED total
       ELSE /\ total' = Counted
            /\ confirm' = [confirm EXCEPT ![r] =
                 IF SignOutDue(Counted.failures)
                 THEN [@ EXCEPT !.pc = "signout", !.day = Counted.since]
                 ELSE NotConfirming]
    /\ UNCHANGED <<today, window, wrong, signedOut, losses>>

\* sign_out_after_too_many_failures: every session is revoked.
SignOut(r) ==
    /\ confirm[r].pc = "signout"
    /\ signedOut' = signedOut \cup {confirm[r].day}
    /\ confirm' = [confirm EXCEPT ![r] = NotConfirming]
    /\ UNCHANGED <<today, window, total, wrong, losses>>

\* A crash, or an error of the database: nothing is given back.
LoseRequest(r) ==
    /\ confirm[r].pc \notin {"idle", "claim"} /\ losses < MaxConfirmLosses
    /\ confirm' = [confirm EXCEPT ![r] = NotConfirming]
    /\ losses' = losses + 1
    /\ UNCHANGED <<today, window, total, wrong, signedOut>>

ConfirmTick ==
    /\ today < MaxConfirmTime /\ today' = today + 1
    /\ UNCHANGED <<window, total, confirm, wrong, signedOut, losses>>

ConfirmInit ==
    /\ today = 0 /\ losses = 0 /\ signedOut = {}
    /\ window = [k \in Kinds |-> [since |-> 0, failures |-> 0]]
    /\ total = [since |-> 0, failures |-> 0]
    /\ confirm = [r \in ConfirmRequests |-> NotConfirming]
    /\ wrong = [k \in Kinds |-> 0]

ConfirmStep(r) ==
    \/ \E act \in ConfirmActs : Confirm(r, act)
    \/ \E right \in BOOLEAN : ClaimCheck(r, right)
    \/ CheckRight(r) \/ CheckWrong(r) \/ SignOut(r) \/ LoseRequest(r)

ConfirmNext == (\E r \in ConfirmRequests : ConfirmStep(r)) \/ ConfirmTick

ConfirmSpec == ConfirmInit /\ [][ConfirmNext]_confirmVars

-----------------------------------------------------------------------------
(* What the limiters promise. *)

\* Every variable keeps its type.
ConfirmTypeOK ==
    /\ today \in Nat /\ losses \in Nat /\ signedOut \subseteq Nat
    /\ window \in [Kinds -> Windows] /\ total \in Totals
    /\ confirm \in [ConfirmRequests -> Confirming]
    /\ wrong \in [Kinds -> Nat]

\* Guesses are limited per window although a check may be given back in a
\* later window than it was claimed in: each such request lends the new
\* window one guess (release_second_factor_check names no window).
GuessesPerWindow ==
    \A k \in Kinds : wrong[k] <= MaxFailed + Cardinality(ConfirmRequests) - 1

\* Right answers cost the owner nothing: once no check is under way, a
\* window counts no more than the wrong answers in it, unless a request
\* died before it gave its check back.
OwnerNotLimited ==
    losses = 0 /\ (\A r \in ConfirmRequests : confirm[r].pc \in {"idle", "claim"})
      => \A k \in Kinds : window[k].failures <= wrong[k]

\* No day's total passes the limit without its sign-out, although the
\* request acts on one number only: each number is returned to one request
\* (sign_out_after_too_many_failures), and only one that died there skips it.
SignedOutAtLimit ==
    losses = 0 /\ total.failures >= SignOutAt =>
      \/ total.since \in signedOut
      \/ \E r \in ConfirmRequests :
            confirm[r].pc = "signout" /\ confirm[r].day = total.since

\* Both sides of a limiter whose checks are given back late: it holds
\* guesses down, it holds nothing against right answers, and reaching the
\* day's limit signs the other sessions out.
CheckLimits == GuessesPerWindow /\ OwnerNotLimited /\ SignedOutAtLimit
=============================================================================
