------------------------------- MODULE SignIn -------------------------------
(***************************************************************************)
(* Sessions of one account: signing in with the password or with Google,  *)
(* the challenge and the code of the second factor, the tokens that come   *)
(* of it, and what signs them out.  Setting the second factor up, using    *)
(* it and turning it off.                                                  *)
(*                                                                         *)
(* A request reads the account once and works with what it read, each      *)
(* statement on its own; other requests come between any two.              *)
(***************************************************************************)
EXTENDS Integers, FiniteSets

CONSTANTS
    SignIns,                \* requests in progress
    ChallengeMaxAttempts,   \* CHALLENGE_MAX_ATTEMPTS
    TotpWindow,             \* steps a code may be off (totp.rs WINDOW)
    MaxRevocations,         \* bound: credential changes and sign-outs
    MaxChallenges,          \* bound: challenges
    MaxSecrets,             \* bound: secrets generated
    MaxStep                 \* bound: time steps of the codes

ASSUME SignInConstants ==
    /\ IsFiniteSet(SignIns)
    /\ ChallengeMaxAttempts \in Nat \ {0} /\ TotpWindow \in Nat
    /\ MaxRevocations \in Nat /\ MaxChallenges \in Nat
    /\ MaxSecrets \in Nat /\ MaxStep \in Nat

VARIABLES
    account,    \* the account's row, as far as signing in goes
    recovery,   \* unused recovery codes
    challenges, \* `login_challenges`, by number
    tokens,     \* tokens handed out
    signIn,     \* what each request is doing
    step,       \* the clock of the codes
    used,       \* ghost: of each secret, how often each code was accepted
    verified    \* ghost: secrets a right code was entered for

signInVars ==
    <<account, recovery, challenges, tokens, signIn, step, used, verified>>

Secrets == 1 .. MaxSecrets
NoSecret == 0
Steps == 0 .. MaxStep + TotpWindow
Never == -1

AccountRows ==
    [version : Nat,             \* token_version
     changed : Nat,             \* the version of password_changed_at
     usable : BOOLEAN,          \* active and not banned
     secret : Secrets \cup {NoSecret},      \* totp_secret_enc
     pending : Secrets \cup {NoSecret},     \* totp_pending_secret_enc
     lastStep : Steps \cup {Never}]         \* totp_last_step
Challenges ==
    [live : BOOLEAN, attempts : Nat, since : Nat, wins : Nat, wrong : Nat]
Tokens == [ver : Nat, since : Nat]
SignInPCs ==
    {"idle", "challenge", "issue", "second", "attempt", "code", "claim",
     "wrong", "consume", "setup", "enable", "disable"}
\* What a request read, and the challenge it is about.
Requests ==
    [pc : SignInPCs, row : AccountRows, on : 0 .. MaxChallenges,
     attempts : Nat, code : Steps]

NewAccount ==
    [version |-> 0, changed |-> 0, usable |-> TRUE, secret |-> NoSecret,
     pending |-> NoSecret, lastStep |-> Never]
NoRequest ==
    [pc |-> "idle", row |-> NewAccount, on |-> 0, attempts |-> 0, code |-> 0]

Made == DOMAIN challenges
Generated == Cardinality(DOMAIN used)

\* check_claims: the token is of the account's present version.
Accepts(t) == t.ver = account.version /\ account.usable

-----------------------------------------------------------------------------
(* The first step. *)

\* login, or google_sign_in of an account the identity belongs to: the row
\* is read, and the password in it was right.
ReadAccount(r) ==
    /\ signIn[r].pc = "idle" /\ account.usable
    /\ signIn' = [signIn EXCEPT ![r] =
         [NoRequest EXCEPT !.row = account,
            !.pc = IF account.secret = NoSecret THEN "issue" ELSE "challenge"]]
    /\ UNCHANGED <<account, recovery, challenges, tokens, step, used, verified>>

\* create_challenge, under the account's advisory lock: the challenge
\* replaces any other.
CreateChallenge(r) ==
    /\ signIn[r].pc = "challenge" /\ Cardinality(Made) < MaxChallenges
    /\ challenges' = [c \in 1 .. Cardinality(Made) + 1 |->
          IF c \in Made THEN [challenges[c] EXCEPT !.live = FALSE]
          ELSE [live |-> TRUE, attempts |-> 0, since |-> account.version,
                wins |-> 0, wrong |-> 0]]
    /\ signIn' = [signIn EXCEPT ![r] = NoRequest]
    /\ UNCHANGED <<account, recovery, tokens, step, used, verified>>

\* issue_session: the token is of the version that was read.
IssueSession(r) ==
    /\ signIn[r].pc = "issue"
    /\ LET c == signIn[r].on IN
       tokens' = tokens \cup
         {[ver |-> signIn[r].row.version,
           since |-> IF c = 0 THEN signIn[r].row.version
                     ELSE challenges[c].since]}
    /\ signIn' = [signIn EXCEPT ![r] = NoRequest]
    /\ UNCHANGED <<account, recovery, challenges, step, used, verified>>

\* refresh: only what is accepted is renewed, in the account's version.
Renew(t) ==
    /\ t \in tokens /\ Accepts(t)
    /\ tokens' = tokens \cup {[t EXCEPT !.ver = account.version]}
    /\ UNCHANGED <<account, recovery, challenges, signIn, step, used, verified>>

-----------------------------------------------------------------------------
(* login_two_factor. *)

FindChallenge(r, c) ==
    /\ signIn[r].pc = "idle" /\ c \in Made /\ challenges[c].live
    /\ signIn' = [signIn EXCEPT ![r] =
                    [NoRequest EXCEPT !.pc = "second", !.on = c]]
    /\ UNCHANGED <<account, recovery, challenges, tokens, step, used, verified>>

\* find_account; a challenge from before the password changed is refused.
SecondStep(r) ==
    /\ signIn[r].pc = "second"
    /\ signIn' = [signIn EXCEPT ![r] =
          IF account.usable /\ challenges[@.on].since >= account.changed
          THEN [@ EXCEPT !.pc = "attempt", !.row = account]
          ELSE NoRequest]
    /\ UNCHANGED <<account, recovery, challenges, tokens, step, used, verified>>

\* claim_challenge_attempt
ClaimChallenge(r) ==
    /\ signIn[r].pc = "attempt"
    /\ LET c == signIn[r].on IN
       IF challenges[c].live /\ challenges[c].attempts < ChallengeMaxAttempts
       THEN /\ challenges' = [challenges EXCEPT ![c].attempts = @ + 1]
            /\ signIn' = [signIn EXCEPT ![r].pc = "code",
                            ![r].attempts = challenges[c].attempts + 1]
       ELSE /\ signIn' = [signIn EXCEPT ![r] = NoRequest]
            /\ UNCHANGED challenges
    /\ UNCHANGED <<account, recovery, tokens, step, used, verified>>

\* totp::verify against the secret and the last step that were read.
Matches(code, row) ==
    /\ row.secret # NoSecret
    /\ code \in step - TotpWindow .. step + TotpWindow
    /\ code > row.lastStep

CheckStep(r, code) ==
    /\ signIn[r].pc = "code" /\ code \in Steps
    /\ signIn' = [signIn EXCEPT ![r].code = code,
          ![r].pc = IF Matches(code, signIn[r].row) THEN "claim" ELSE "wrong"]
    /\ UNCHANGED <<account, recovery, challenges, tokens, step, used, verified>>

\* Mutant of StepFree: the step is not compared again.
StepFreeAnyway(code) == TRUE

StepFree(code) == account.lastStep < code

\* claim_totp_step
ClaimStep(r) ==
    /\ signIn[r].pc = "claim"
    /\ LET code == signIn[r].code
           s == signIn[r].row.secret IN
       IF StepFree(code)
       THEN /\ account' = [account EXCEPT !.lastStep = code]
            /\ used' = [used EXCEPT ![s][code] = @ + 1]
            /\ signIn' = [signIn EXCEPT ![r].pc = "consume"]
       ELSE /\ signIn' = [signIn EXCEPT ![r].pc = "wrong"]
            /\ UNCHANGED <<account, used>>
    /\ UNCHANGED <<recovery, challenges, tokens, step, verified>>

\* use_recovery_code
UseRecoveryCode(r) ==
    /\ signIn[r].pc = "code" /\ recovery > 0
    /\ recovery' = recovery - 1
    /\ signIn' = [signIn EXCEPT ![r].pc = "consume"]
    /\ UNCHANGED <<account, challenges, tokens, step, used, verified>>

\* The last attempt was wrong: the challenge is spent (record_failed_login
\* is the lockout's).
WrongCode(r) ==
    /\ signIn[r].pc = "wrong"
    /\ LET c == signIn[r].on IN
       challenges' = [challenges EXCEPT ![c].wrong = @ + 1,
          ![c].live = @ /\ signIn[r].attempts < ChallengeMaxAttempts]
    /\ signIn' = [signIn EXCEPT ![r] = NoRequest]
    /\ UNCHANGED <<account, recovery, tokens, step, used, verified>>

\* Mutant of ChallengeWon: the row count of the update is not looked at.
ChallengeWonAnyway(c) == TRUE

ChallengeWon(c) == challenges[c].live

\* consume_challenge: single use, even against a concurrent right attempt.
ConsumeChallenge(r) ==
    /\ signIn[r].pc = "consume"
    /\ LET c == signIn[r].on IN
       /\ challenges' = [challenges EXCEPT ![c].live = FALSE,
             ![c].wins = IF ChallengeWon(c) THEN @ + 1 ELSE @]
       /\ signIn' = [signIn EXCEPT ![r] =
             IF ChallengeWon(c) THEN [@ EXCEPT !.pc = "issue"] ELSE NoRequest]
    /\ UNCHANGED <<account, recovery, tokens, step, used, verified>>

-----------------------------------------------------------------------------
(* Credential changes. *)

\* Mutant of Voided: live challenges stay.
VoidedNone == challenges

WithoutTotp == [account EXCEPT !.secret = NoSecret, !.pending = NoSecret,
                               !.lastStep = Never]

\* invalidate_pending
Voided == [c \in Made |-> [challenges[c] EXCEPT !.live = FALSE]]

\* revoke_sessions: a new version, and nothing pending left.
Revoke ==
    /\ account.version < MaxRevocations
    /\ account' = [account EXCEPT !.version = @ + 1]
    /\ challenges' = Voided
    /\ UNCHANGED <<recovery, tokens, signIn, step, used, verified>>

\* set_password, recover_password of an address proven before
ChangePassword ==
    /\ account.version < MaxRevocations
    /\ account' = [account EXCEPT !.version = @ + 1, !.changed = account.version + 1]
    /\ challenges' = Voided
    /\ UNCHANGED <<recovery, tokens, signIn, step, used, verified>>

\* recover_password by the first proof of the address: what was set up
\* before it goes as well.
ProveAddress ==
    /\ account.version < MaxRevocations
    /\ account' = [WithoutTotp EXCEPT !.version = @ + 1,
                                     !.changed = account.version + 1]
    /\ recovery' = 0 /\ challenges' = Voided
    /\ UNCHANGED <<tokens, signIn, step, used, verified>>

Ban ==
    /\ account.version < MaxRevocations
    /\ account' = [account EXCEPT !.version = @ + 1, !.usable = FALSE]
    /\ challenges' = Voided
    /\ UNCHANGED <<recovery, tokens, signIn, step, used, verified>>

Unban ==
    /\ ~account.usable /\ account' = [account EXCEPT !.usable = TRUE]
    /\ UNCHANGED <<recovery, challenges, tokens, signIn, step, used, verified>>

-----------------------------------------------------------------------------
(* Setting the second factor up. *)

\* setup_two_factor, disable_two_factor: what the account has is looked at
\* before the confirmations are.
StartSetup(r) ==
    /\ signIn[r].pc = "idle" /\ account.usable /\ account.secret = NoSecret
    /\ Generated < MaxSecrets
    /\ signIn' = [signIn EXCEPT ![r] =
                    [NoRequest EXCEPT !.pc = "setup", !.row = account]]
    /\ UNCHANGED <<account, recovery, challenges, tokens, step, used, verified>>

StartDisable(r) ==
    /\ signIn[r].pc = "idle" /\ account.usable /\ account.secret # NoSecret
    /\ signIn' = [signIn EXCEPT ![r] =
                    [NoRequest EXCEPT !.pc = "disable", !.row = account]]
    /\ UNCHANGED <<account, recovery, challenges, tokens, step, used, verified>>

\* set_pending_totp: a new secret, until a code confirms it.
SetPendingTotp(r) ==
    /\ signIn[r].pc = "setup" /\ Generated < MaxSecrets
    /\ account' = [account EXCEPT !.pending = Generated + 1]
    /\ used' = [s \in 1 .. Generated + 1 |->
                  IF s \in DOMAIN used THEN used[s] ELSE [n \in Steps |-> 0]]
    /\ signIn' = [signIn EXCEPT ![r] = NoRequest]
    /\ UNCHANGED <<recovery, challenges, tokens, step, verified>>

\* disable_totp, delete_recovery_codes
DisableTotp(r) ==
    /\ signIn[r].pc = "disable"
    /\ account' = WithoutTotp /\ recovery' = 0
    /\ signIn' = [signIn EXCEPT ![r] = NoRequest]
    /\ UNCHANGED <<challenges, tokens, step, used, verified>>

\* enable_two_factor: a code of the pending secret that was read.
CheckPending(r, code) ==
    /\ signIn[r].pc = "idle" /\ account.usable
    /\ account.secret = NoSecret /\ account.pending # NoSecret
    /\ code \in Steps /\ code \in step - TotpWindow .. step + TotpWindow
    /\ signIn' = [signIn EXCEPT ![r] =
         [NoRequest EXCEPT !.pc = "enable", !.row = account, !.code = code]]
    /\ verified' = verified \cup {account.pending}
    /\ UNCHANGED <<account, recovery, challenges, tokens, step, used>>

EnabledStep(r) == signIn[r].code

\* enable_totp, then the recovery codes.
EnableTotp(r) ==
    /\ signIn[r].pc = "enable"
    /\ IF account.pending # NoSecret /\ account.secret = NoSecret
       THEN /\ account' = [account EXCEPT !.secret = account.pending,
                 !.lastStep = EnabledStep(r), !.pending = NoSecret]
            /\ used' = [used EXCEPT ![account.pending][signIn[r].code] =
                 IF signIn[r].row.pending = account.pending THEN @ + 1 ELSE @]
            /\ recovery' = 1
       ELSE UNCHANGED <<account, used, recovery>>
    /\ signIn' = [signIn EXCEPT ![r] = NoRequest]
    /\ UNCHANGED <<challenges, tokens, step, verified>>

CodeTick ==
    /\ step < MaxStep /\ step' = step + 1
    /\ UNCHANGED <<account, recovery, challenges, tokens, signIn, used, verified>>

-----------------------------------------------------------------------------

SignInInit ==
    /\ account = NewAccount /\ recovery = 0 /\ challenges = <<>>
    /\ tokens = {} /\ signIn = [r \in SignIns |-> NoRequest]
    /\ step = 0 /\ used = <<>> /\ verified = {}

SignInStep(r) ==
    \/ ReadAccount(r) \/ CreateChallenge(r) \/ IssueSession(r)
    \/ \E c \in 1 .. MaxChallenges : FindChallenge(r, c)
    \/ SecondStep(r) \/ ClaimChallenge(r)
    \/ \E code \in Steps : CheckStep(r, code) \/ CheckPending(r, code)
    \/ ClaimStep(r) \/ UseRecoveryCode(r) \/ WrongCode(r)
    \/ ConsumeChallenge(r)
    \/ StartSetup(r) \/ SetPendingTotp(r) \/ EnableTotp(r)
    \/ StartDisable(r) \/ DisableTotp(r)

SignInNext ==
    \/ \E r \in SignIns : SignInStep(r)
    \/ \E t \in tokens : Renew(t)
    \/ Revoke \/ ChangePassword \/ ProveAddress \/ Ban \/ Unban \/ CodeTick

SignInSpec == SignInInit /\ [][SignInNext]_signInVars

-----------------------------------------------------------------------------
(* What signing in promises. *)

\* Every variable keeps its type.
SignInTypeOK ==
    /\ account \in AccountRows /\ recovery \in Nat /\ step \in 0 .. MaxStep
    /\ Made \subseteq 1 .. MaxChallenges
    /\ \A c \in Made : challenges[c] \in Challenges
    /\ tokens \subseteq Tokens /\ signIn \in [SignIns -> Requests]
    /\ \A s \in DOMAIN used : used[s] \in [Steps -> Nat]
    /\ verified \subseteq Secrets

\* Nothing started before a sign-out survives it: an accepted token comes
\* from a sign-in whose first step was after the last sign-out, password
\* change or ban, and no challenge or renewal carries an older one over
\* (invalidate_pending, check_claims).
SignedOutStaysOut ==
    \A t \in tokens : t.ver = account.version => t.since = account.version

\* A code of the present secret is accepted once, the one that turned the
\* second factor on included, however many requests try it at once.
CodeAcceptedOnce ==
    account.secret # NoSecret =>
      \A n \in Steps : used[account.secret][n] <= 1

\* One challenge is live at a time, it signs in once, and it takes no more
\* wrong codes than its attempts.
ChallengeLimits ==
    /\ Cardinality({c \in Made : challenges[c].live}) <= 1
    /\ \A c \in Made : /\ challenges[c].wins <= 1
                       /\ challenges[c].wrong <= ChallengeMaxAttempts

\* The secret in force is one whose code was entered: "a current code from
\* the authenticator app for the secret from /2fa/setup".
EnabledIsConfirmed == account.secret # NoSecret => account.secret \in verified

\* All of it together: sessions, codes and challenges outlive neither a
\* sign-out nor their own use, however requests interleave.
SignInSafety == SignedOutStaysOut /\ CodeAcceptedOnce /\ ChallengeLimits
=============================================================================
