---------------------------- MODULE SignInProofs ----------------------------
(***************************************************************************)
(* What holds of SignIn for every number of requests, challenges, secrets  *)
(* and credential changes.                                                 *)
(*                                                                         *)
(* The inductive invariants are four: what requests and the account name   *)
(* exists; versions only move forward and a challenge carries none over a  *)
(* sign-out; every attempt of a challenge that may still turn out wrong    *)
(* was counted before; and no code of the secret in force was accepted     *)
(* after the last step on record.                                          *)
(***************************************************************************)
EXTENDS SignIn, FiniteSetTheorems, TLAPS

\* While a request is at these, it is about a challenge.
OnPCs == {"second", "attempt", "code", "claim", "wrong", "consume"}

Known(s) == s \in DOMAIN used \cup {NoSecret}

\* Challenges and secrets are numbered without gaps.
NumbersOK ==
    /\ Cardinality(Made) \in 0 .. MaxChallenges /\ Made = 1 .. Cardinality(Made)
    /\ Generated \in 0 .. MaxSecrets /\ DOMAIN used = 1 .. Generated

AccountOK == Known(account.secret) /\ Known(account.pending)

\* What a request read, and the challenge it is about, exist.
Fits(q) ==
    /\ Known(q.row.secret) /\ Known(q.row.pending)
    /\ q.on \in Made \cup {0}
    /\ q.pc \in OnPCs => q.on # 0

NamesInv ==
    /\ SignInTypeOK /\ NumbersOK /\ AccountOK
    /\ \A r \in SignIns : Fits(signIn[r])

\* A live challenge is the last one, of the account's present version, and
\* has not signed anyone in.
ChallengeOK(c) ==
    /\ challenges[c].since <= account.version
    /\ challenges[c].live =>
          /\ c = Cardinality(Made) /\ challenges[c].wins = 0
          /\ challenges[c].since = account.version
    /\ challenges[c].wins <= 1

\* What a request read is not newer than the account, and a challenge that
\* signed it in is not older than what it read.
ReadOK(r) ==
    /\ signIn[r].row.version <= account.version
    /\ signIn[r].pc = "issue" /\ signIn[r].on # 0 =>
          challenges[signIn[r].on].since >= signIn[r].row.version

TokenOK(t) ==
    /\ t.ver <= account.version
    /\ t.ver = account.version => t.since = account.version

VersionsInv ==
    /\ \A c \in Made : ChallengeOK(c)
    /\ \A r \in SignIns : ReadOK(r)
    /\ \A t \in tokens : TokenOK(t)

\* The requests that claimed an attempt of a challenge and have not said yet
\* whether it was right.
TryPCs == {"code", "claim", "wrong"}

Trying(c) == {r \in SignIns : signIn[r].on = c /\ signIn[r].pc \in TryPCs}

AttemptsInv ==
    \A c \in Made :
       /\ challenges[c].attempts <= ChallengeMaxAttempts
       /\ challenges[c].wrong + Cardinality(Trying(c)) <= challenges[c].attempts

\* Codes of the pending secret were not used, and none of the secret in
\* force after the last step; nobody who is signing in read the pending one
\* as the one in force.
UsedInv ==
    /\ account.pending # NoSecret =>
          /\ account.pending # account.secret
          /\ \A r \in SignIns : signIn[r].row.secret # account.pending
          /\ \A n \in Steps : used[account.pending][n] = 0
    /\ account.secret # NoSecret =>
          \A n \in Steps :
             /\ used[account.secret][n] <= 1
             /\ used[account.secret][n] = 1 => n <= account.lastStep

-----------------------------------------------------------------------------
(* Types, and what is named exists. *)

\* What the actions start from has its type.
LEMMA FreshTypes ==
    /\ NewAccount \in AccountRows /\ NoRequest \in Requests
    /\ 0 \in Steps /\ Steps \subseteq Int
<1>1. 0 \in Steps /\ Steps \subseteq Int
  BY SignInConstants DEF Steps
<1>2. NewAccount \in AccountRows
  BY DEF NewAccount, AccountRows
<1>3. 0 \in 0 .. MaxChallenges
  BY SignInConstants
<1>. QED  BY <1>1, <1>2, <1>3 DEF NoRequest, Requests, SignInPCs

\* A request that moves on keeps what the requests promise, while
\* challenges and secrets are only added.
LEMMA Requested ==
    ASSUME NamesInv, NEW r \in SignIns, NEW q \in Requests, Fits(q),
           signIn' = [signIn EXCEPT ![r] = q],
           Made \subseteq Made', DOMAIN used \subseteq DOMAIN used'
    PROVE  /\ signIn' \in [SignIns -> Requests]
           /\ \A p \in SignIns : Fits(signIn[p])'
BY DEF NamesInv, SignInTypeOK, Fits, Known

\* The same when no request moves.
LEMMA NotRequested ==
    ASSUME NamesInv, UNCHANGED signIn,
           Made \subseteq Made', DOMAIN used \subseteq DOMAIN used'
    PROVE  /\ signIn' \in [SignIns -> Requests]
           /\ \A p \in SignIns : Fits(signIn[p])'
BY DEF NamesInv, SignInTypeOK, Fits, Known

\* A step that only moves a request on, or adds a token.
LEMMA OnlyRequests ==
    ASSUME NamesInv, NEW r \in SignIns, NEW q \in Requests, Fits(q),
           signIn' = [signIn EXCEPT ![r] = q],
           UNCHANGED <<account, recovery, challenges, step, used>>,
           tokens' \subseteq Tokens, verified' \subseteq Secrets
    PROVE  NamesInv'
<1>1. Made' = Made /\ DOMAIN used' = DOMAIN used
  BY DEF Made
<1>2. signIn' \in [SignIns -> Requests] /\ \A p \in SignIns : Fits(signIn[p])'
  BY <1>1, Requested
<1>3. SignInTypeOK'
  BY <1>1, <1>2 DEF NamesInv, SignInTypeOK
<1>. QED  BY <1>1, <1>2, <1>3 DEF NamesInv, NumbersOK, AccountOK, Known, Generated

\* A step that moves a request on and changes existing challenges.
LEMMA RequestsAndChallenges ==
    ASSUME NamesInv, NEW r \in SignIns, NEW q \in Requests, Fits(q),
           signIn' = [signIn EXCEPT ![r] = q], Made' = Made,
           \A c \in Made : challenges'[c] \in Challenges,
           UNCHANGED <<account, recovery, tokens, step, used, verified>>
    PROVE  NamesInv'
<1>1. signIn' \in [SignIns -> Requests] /\ \A p \in SignIns : Fits(signIn[p])'
  BY Requested
<1>2. SignInTypeOK'
  BY <1>1 DEF NamesInv, SignInTypeOK
<1>. QED  BY <1>1, <1>2 DEF NamesInv, NumbersOK, AccountOK, Known, Generated

\* A step that changes the account, the codes' counts and one request.
LEMMA RequestsAndAccount ==
    ASSUME NamesInv, NEW r \in SignIns, NEW q \in Requests, Fits(q),
           signIn' = [signIn EXCEPT ![r] = q],
           account' \in AccountRows, AccountOK', recovery' \in Nat,
           DOMAIN used' = DOMAIN used,
           \A s \in DOMAIN used : used'[s] \in [Steps -> Nat],
           UNCHANGED <<challenges, tokens, step, verified>>
    PROVE  NamesInv'
<1>1. Made' = Made
  BY DEF Made
<1>2. signIn' \in [SignIns -> Requests] /\ \A p \in SignIns : Fits(signIn[p])'
  BY <1>1, Requested
<1>3. SignInTypeOK'
  BY <1>1, <1>2 DEF NamesInv, SignInTypeOK
<1>. QED  BY <1>1, <1>2, <1>3 DEF NamesInv, NumbersOK, Generated

\* A request's step keeps types and names.
LEMMA NamesRequest ==
    ASSUME NamesInv, NEW r \in SignIns, SignInStep(r)
    PROVE  NamesInv'
<1>. DEFINE q0 == signIn[r]
<1>1. /\ q0 \in Requests /\ Fits(q0) /\ NoRequest \in Requests
      /\ account \in AccountRows /\ AccountOK
      /\ tokens \subseteq Tokens /\ verified \subseteq Secrets
      /\ step \in 0 .. MaxStep /\ recovery \in Nat
      /\ signIn \in [SignIns -> Requests]
  BY FreshTypes DEF NamesInv, SignInTypeOK
<1>2. Fits(NoRequest)
  BY DEF Fits, NoRequest, NewAccount, OnPCs, Known
<1>3. Made \subseteq 1 .. MaxChallenges /\ \A c \in Made : challenges[c] \in Challenges
  BY DEF NamesInv, SignInTypeOK
<1>4. ASSUME NEW pc \in SignInPCs \ OnPCs
      PROVE  /\ [NoRequest EXCEPT !.pc = pc, !.row = account] \in Requests
             /\ Fits([NoRequest EXCEPT !.pc = pc, !.row = account])
  BY <1>1, <1>2 DEF Requests, Fits, NoRequest, AccountOK
<1>5. ASSUME NEW pc \in SignInPCs, pc \in OnPCs => q0.pc \in OnPCs
      PROVE  [q0 EXCEPT !.pc = pc] \in Requests /\ Fits([q0 EXCEPT !.pc = pc])
  <2>1. [q0 EXCEPT !.pc = pc] \in Requests
    BY <1>1 DEF Requests
  <2>2. /\ [q0 EXCEPT !.pc = pc].row = q0.row /\ [q0 EXCEPT !.pc = pc].on = q0.on
        /\ [q0 EXCEPT !.pc = pc].pc = pc
    BY <1>1 DEF Requests
  <2>. HIDE DEF q0
  <2>. QED  BY <1>1, <1>5, <2>1, <2>2 DEF Fits
<1>6. CASE ReadAccount(r)
  <2>1. \E pc \in SignInPCs \ OnPCs :
           signIn' = [signIn EXCEPT ![r] = [NoRequest EXCEPT !.pc = pc, !.row = account]]
    <3>1. {"issue", "challenge"} \subseteq SignInPCs \ OnPCs
      BY DEF SignInPCs, OnPCs
    <3>2. CASE account.secret = NoSecret
      BY <1>1, <1>6, <3>1, <3>2 DEF ReadAccount
    <3>3. CASE account.secret # NoSecret
      BY <1>1, <1>6, <3>1, <3>3 DEF ReadAccount
    <3>. QED  BY <3>2, <3>3
  <2>. QED  BY <1>1, <1>4, <1>6, <2>1, OnlyRequests DEF ReadAccount
<1>7. CASE CreateChallenge(r)
  <2>1. /\ Cardinality(Made) \in 0 .. MaxChallenges
        /\ Made = 1 .. Cardinality(Made) /\ Cardinality(Made) < MaxChallenges
    BY <1>7 DEF CreateChallenge, NamesInv, NumbersOK
  <2>. DEFINE n == Cardinality(Made)
  <2>2. Made' = 1 .. n + 1
    BY <1>7 DEF CreateChallenge, Made
  <2>3. Cardinality(Made') = n + 1
    BY <2>1, <2>2, FS_Interval, SignInConstants
  <2>4. \A c \in Made' : challenges'[c] \in Challenges
    <3>1. account.version \in Nat
      BY <1>1 DEF AccountRows
    <3>2. SUFFICES ASSUME NEW c \in 1 .. n + 1
                   PROVE  challenges'[c] \in Challenges
      BY <2>2
    <3>3. CASE c \in Made
      BY <1>3, <1>7, <3>2, <3>3 DEF CreateChallenge, Challenges
    <3>4. CASE c \notin Made
      BY <1>7, <3>1, <3>2, <3>4 DEF CreateChallenge, Challenges
    <3>. QED  BY <3>3, <3>4
  <2>5. Made \subseteq Made' /\ Made' \subseteq 1 .. MaxChallenges
    BY <2>1, <2>2, SignInConstants
  <2>6. signIn' \in [SignIns -> Requests] /\ \A p \in SignIns : Fits(signIn[p])'
    BY <1>1, <1>2, <1>7, <2>5, Requested DEF CreateChallenge
  <2>7. SignInTypeOK'
    BY <1>7, <2>4, <2>5, <2>6 DEF CreateChallenge, NamesInv, SignInTypeOK
  <2>8. NumbersOK'
    BY <1>7, <2>1, <2>2, <2>3, SignInConstants DEF CreateChallenge, NamesInv, NumbersOK, Generated
  <2>. QED  BY <1>7, <2>6, <2>7, <2>8 DEF CreateChallenge, NamesInv, AccountOK, Known
<1>8. CASE IssueSession(r)
  <2>1. q0.row.version \in Nat
    BY <1>1 DEF Requests, AccountRows
  <2>2. q0.on # 0 => challenges[q0.on].since \in Nat
    BY <1>1, <1>3 DEF Fits, Challenges
  <2>3. tokens' \subseteq Tokens
    BY <1>1, <1>8, <2>1, <2>2 DEF IssueSession, Tokens
  <2>. QED  BY <1>1, <1>2, <1>8, <2>3, OnlyRequests DEF IssueSession
<1>9. ASSUME NEW c \in 1 .. MaxChallenges, FindChallenge(r, c)
      PROVE  NamesInv'
  <2>. DEFINE q == [NoRequest EXCEPT !.pc = "second", !.on = c]
  <2>1. q \in Requests /\ Fits(q)
    <3>1. c \in Made /\ c # 0 /\ c \in 0 .. MaxChallenges
      BY <1>9, SignInConstants DEF FindChallenge
    <3>. QED  BY <1>1, <1>2, <3>1 DEF NoRequest, Requests, Fits, SignInPCs
  <2>. QED  BY <1>1, <1>9, <2>1, OnlyRequests DEF FindChallenge
<1>10. CASE SecondStep(r)
  <2>1. /\ [q0 EXCEPT !.pc = "attempt", !.row = account] \in Requests
        /\ Fits([q0 EXCEPT !.pc = "attempt", !.row = account])
    BY <1>1, <1>10 DEF SecondStep, Requests, Fits, SignInPCs, OnPCs, AccountOK
  <2>2. \E q \in {NoRequest, [q0 EXCEPT !.pc = "attempt", !.row = account]} :
           signIn' = [signIn EXCEPT ![r] = q]
    BY <1>10 DEF SecondStep
  <2>. QED  BY <1>1, <1>2, <1>10, <2>1, <2>2, OnlyRequests DEF SecondStep
<1>11. CASE ClaimChallenge(r)
  <2>. DEFINE c == q0.on
  <2>1. c \in Made /\ challenges[c] \in Challenges
    BY <1>1, <1>3, <1>11 DEF ClaimChallenge, Fits, OnPCs
  <2>2. CASE challenges[c].live /\ challenges[c].attempts < ChallengeMaxAttempts
    <3>. DEFINE q == [q0 EXCEPT !.pc = "code", !.attempts = challenges[c].attempts + 1]
    <3>1. q \in Requests /\ Fits(q)
      <4>1. challenges[c].attempts + 1 \in Nat
        BY <2>1 DEF Challenges
      <4>. QED  BY <1>1, <1>11, <4>1 DEF ClaimChallenge, Requests, Fits, SignInPCs, OnPCs
    <3>2. signIn' = [signIn EXCEPT ![r] = q]
      BY <1>1, <1>11, <2>2 DEF ClaimChallenge
    <3>3. challenges' = [challenges EXCEPT ![c].attempts = @ + 1]
      BY <1>11, <2>2 DEF ClaimChallenge
    <3>4. Made' = Made
      BY <3>3 DEF Made
    <3>5. \A d \in Made : challenges'[d] \in Challenges
      BY <1>3, <2>1, <3>3 DEF Made, Challenges
    <3>. QED  BY <1>11, <3>1, <3>2, <3>4, <3>5, RequestsAndChallenges DEF ClaimChallenge
  <2>3. CASE ~(challenges[c].live /\ challenges[c].attempts < ChallengeMaxAttempts)
    BY <1>1, <1>2, <1>11, <2>3, OnlyRequests DEF ClaimChallenge
  <2>. QED  BY <2>2, <2>3
<1>12. ASSUME NEW code \in Steps, CheckStep(r, code) \/ CheckPending(r, code)
       PROVE  NamesInv'
  <2>1. CASE CheckStep(r, code)
    <3>1. \E pc \in {"claim", "wrong"} :
            signIn' = [signIn EXCEPT ![r] = [q0 EXCEPT !.code = code, !.pc = pc]]
      BY <1>1, <2>1 DEF CheckStep
    <3>2. \A pc \in {"claim", "wrong"} :
             /\ [q0 EXCEPT !.code = code, !.pc = pc] \in Requests
             /\ Fits([q0 EXCEPT !.code = code, !.pc = pc])
      BY <1>1, <2>1 DEF CheckStep, Requests, Fits, SignInPCs, OnPCs
    <3>. QED  BY <1>1, <2>1, <3>1, <3>2, OnlyRequests DEF CheckStep
  <2>2. CASE CheckPending(r, code)
    <3>. DEFINE q == [NoRequest EXCEPT !.pc = "enable", !.row = account, !.code = code]
    <3>1. q \in Requests /\ Fits(q)
      BY <1>1, <1>2 DEF NoRequest, Requests, Fits, SignInPCs, OnPCs, AccountOK
    <3>2. verified' \subseteq Secrets
      BY <1>1, <2>2 DEF CheckPending, AccountRows
    <3>. QED  BY <1>1, <2>2, <3>1, <3>2, OnlyRequests DEF CheckPending
  <2>. QED  BY <1>12, <2>1, <2>2
<1>13. CASE ClaimStep(r)
  <2>1. \A pc \in {"consume", "wrong"} :
           [q0 EXCEPT !.pc = pc] \in Requests /\ Fits([q0 EXCEPT !.pc = pc])
    BY <1>1, <1>13 DEF ClaimStep, Requests, Fits, SignInPCs, OnPCs
  <2>2. CASE StepFree(q0.code)
    <3>1. /\ account' = [account EXCEPT !.lastStep = q0.code]
          /\ used' = [used EXCEPT ![q0.row.secret][q0.code] = @ + 1]
          /\ signIn' = [signIn EXCEPT ![r] = [q0 EXCEPT !.pc = "consume"]]
      BY <1>1, <1>13, <2>2 DEF ClaimStep
    <3>2. account' \in AccountRows /\ AccountOK'
      BY <1>1, <3>1 DEF AccountRows, AccountOK, Known, Requests
    <3>3. \A s \in DOMAIN used : used'[s] \in [Steps -> Nat]
      <4>1. \A s \in DOMAIN used : used[s] \in [Steps -> Nat]
        BY DEF NamesInv, SignInTypeOK
      <4>2. SUFFICES ASSUME NEW s \in DOMAIN used
                     PROVE  used'[s] \in [Steps -> Nat]
        OBVIOUS
      <4>3. [used[s] EXCEPT ![q0.code] = @ + 1] \in [Steps -> Nat]
        <5>1. q0.code \in Steps
          BY <1>1 DEF Requests
        <5>2. used[s] \in [Steps -> Nat] /\ used[s][q0.code] + 1 \in Nat
          BY <4>1, <5>1
        <5>. QED  BY <5>1, <5>2
      <4>. QED  BY <3>1, <4>1, <4>3
    <3>. QED  BY <1>1, <1>13, <2>1, <3>1, <3>2, <3>3, RequestsAndAccount DEF ClaimStep
  <2>3. CASE ~StepFree(q0.code)
    <3>1. signIn' = [signIn EXCEPT ![r] = [q0 EXCEPT !.pc = "wrong"]]
      BY <1>1, <1>13, <2>3 DEF ClaimStep
    <3>. QED  BY <1>1, <1>13, <2>1, <2>3, <3>1, OnlyRequests DEF ClaimStep
  <2>. QED  BY <2>2, <2>3
<1>14. CASE UseRecoveryCode(r)
  <2>1. [q0 EXCEPT !.pc = "consume"] \in Requests /\ Fits([q0 EXCEPT !.pc = "consume"])
    BY <1>1, <1>14 DEF UseRecoveryCode, Requests, Fits, SignInPCs, OnPCs
  <2>2. signIn' = [signIn EXCEPT ![r] = [q0 EXCEPT !.pc = "consume"]]
    BY <1>1, <1>14 DEF UseRecoveryCode
  <2>3. recovery' \in Nat /\ account' \in AccountRows /\ AccountOK'
    BY <1>1, <1>14 DEF UseRecoveryCode, AccountOK, Known
  <2>4. \A s \in DOMAIN used : used[s] \in [Steps -> Nat]
    BY DEF NamesInv, SignInTypeOK
  <2>. QED  BY <1>14, <2>1, <2>2, <2>3, <2>4, RequestsAndAccount DEF UseRecoveryCode
<1>15. CASE WrongCode(r)
  <2>. DEFINE c == q0.on
  <2>1. c \in Made /\ challenges[c] \in Challenges
    BY <1>1, <1>3, <1>15 DEF WrongCode, Fits, OnPCs
  <2>2. Made' = Made
    BY <1>15 DEF WrongCode, Made
  <2>3. (challenges[c].live /\ q0.attempts < ChallengeMaxAttempts) \in BOOLEAN
    BY <2>1 DEF Challenges
  <2>4. challenges[c].wrong + 1 \in Nat
    BY <2>1 DEF Challenges
  <2>5. \A d \in Made : challenges'[d] \in Challenges
    <3>. DEFINE cs == [challenges[c] EXCEPT !.wrong = @ + 1,
                         !.live = @ /\ q0.attempts < ChallengeMaxAttempts]
    <3>1. cs \in Challenges
      BY <2>1, <2>3, <2>4 DEF Challenges
    <3>2. challenges' = [challenges EXCEPT ![c] = cs]
      BY <1>15, <2>1, <2>3 DEF WrongCode, Challenges
    <3>. HIDE DEF cs
    <3>. QED  BY <1>3, <3>1, <3>2 DEF Made
  <2>. QED  BY <1>1, <1>2, <1>15, <2>2, <2>5, RequestsAndChallenges DEF WrongCode
<1>16. CASE ConsumeChallenge(r)
  <2>. DEFINE c == q0.on
  <2>1. c \in Made /\ challenges[c] \in Challenges
    BY <1>1, <1>3, <1>16 DEF ConsumeChallenge, Fits, OnPCs
  <2>2. Made' = Made
    BY <1>16 DEF ConsumeChallenge, Made
  <2>3. \A d \in Made : challenges'[d] \in Challenges
    <3>. DEFINE cs == [challenges[c] EXCEPT !.live = FALSE,
                         !.wins = IF ChallengeWon(c) THEN @ + 1 ELSE @]
    <3>1. cs \in Challenges
      <4>1. (IF ChallengeWon(c) THEN challenges[c].wins + 1 ELSE challenges[c].wins) \in Nat
        BY <2>1 DEF Challenges
      <4>2. [challenges[c] EXCEPT !.live = FALSE, !.wins =
               IF ChallengeWon(c) THEN challenges[c].wins + 1 ELSE challenges[c].wins] \in Challenges
        BY <2>1, <4>1 DEF Challenges
      <4>. QED  BY <2>1, <4>2 DEF Challenges
    <3>2. challenges' = [challenges EXCEPT ![c] = cs]
      BY <1>16 DEF ConsumeChallenge
    <3>. HIDE DEF cs
    <3>. QED  BY <1>3, <3>1, <3>2 DEF Made
  <2>4. [q0 EXCEPT !.pc = "issue"] \in Requests /\ Fits([q0 EXCEPT !.pc = "issue"])
    BY <1>5 DEF SignInPCs, OnPCs
  <2>5. \E q \in {NoRequest, [q0 EXCEPT !.pc = "issue"]} : signIn' = [signIn EXCEPT ![r] = q]
    BY <1>16 DEF ConsumeChallenge
  <2>. QED  BY <1>1, <1>2, <1>16, <2>2, <2>3, <2>4, <2>5, RequestsAndChallenges
            DEF ConsumeChallenge
<1>17. CASE StartSetup(r) \/ StartDisable(r)
  <2>1. {"setup", "disable"} \subseteq SignInPCs \ OnPCs
    BY DEF SignInPCs, OnPCs
  <2>. QED  BY <1>1, <1>4, <1>17, <2>1, OnlyRequests DEF StartSetup, StartDisable
<1>18. CASE SetPendingTotp(r)
  <2>1. /\ Generated \in 0 .. MaxSecrets /\ Generated < MaxSecrets
        /\ DOMAIN used = 1 .. Generated
    BY <1>18 DEF SetPendingTotp, NamesInv, NumbersOK
  <2>2. DOMAIN used' = 1 .. Generated + 1
    BY <1>18 DEF SetPendingTotp
  <2>3. Generated' = Generated + 1
    BY <2>1, <2>2, FS_Interval, SignInConstants DEF Generated
  <2>4. \A s \in DOMAIN used' : used'[s] \in [Steps -> Nat]
    <3>1. \A s \in DOMAIN used : used[s] \in [Steps -> Nat]
      BY DEF NamesInv, SignInTypeOK
    <3>. QED  BY <1>18, <2>2, <3>1 DEF SetPendingTotp
  <2>5. Made' = Made /\ DOMAIN used \subseteq DOMAIN used'
    BY <1>18, <2>1, <2>2, SignInConstants DEF SetPendingTotp, Made
  <2>6. signIn' \in [SignIns -> Requests] /\ \A p \in SignIns : Fits(signIn[p])'
    BY <1>1, <1>2, <1>18, <2>5, Requested DEF SetPendingTotp
  <2>7. account' \in AccountRows
    <3>1. Generated + 1 \in Secrets
      BY <2>1, SignInConstants DEF Secrets
    <3>. QED  BY <1>1, <1>18, <3>1 DEF SetPendingTotp, AccountRows
  <2>8. AccountOK'
    <3>1. Generated + 1 \in DOMAIN used'
      BY <2>1, <2>2, SignInConstants
    <3>. QED  BY <1>1, <1>18, <2>5, <3>1 DEF SetPendingTotp, AccountOK, Known, AccountRows
  <2>9. SignInTypeOK'
    BY <1>18, <2>4, <2>5, <2>6, <2>7 DEF SetPendingTotp, NamesInv, SignInTypeOK
  <2>10. NumbersOK'
    BY <2>1, <2>2, <2>3, <2>5, SignInConstants DEF NamesInv, NumbersOK
  <2>. QED  BY <2>6, <2>8, <2>9, <2>10 DEF NamesInv
<1>19. CASE EnableTotp(r)
  <2>1. \A s \in DOMAIN used : used[s] \in [Steps -> Nat]
    BY DEF NamesInv, SignInTypeOK
  <2>2. CASE account.pending # NoSecret /\ account.secret = NoSecret
    <3>1. account' \in AccountRows /\ AccountOK'
      <4>1. account' = [account EXCEPT !.secret = account.pending,
                          !.lastStep = q0.code, !.pending = NoSecret]
        BY <1>19, <2>2 DEF EnableTotp, EnabledStep
      <4>2. DOMAIN used' = DOMAIN used
        BY <1>19, <2>2 DEF EnableTotp
      <4>3. q0.code \in Steps
        BY <1>1 DEF Requests
      <4>4. account' \in AccountRows
        BY <1>1, <4>1, <4>3 DEF AccountRows
      <4>5. account'.secret = account.pending /\ account'.pending = NoSecret
        BY <1>1, <4>1 DEF AccountRows
      <4>. QED  BY <1>1, <4>2, <4>4, <4>5 DEF AccountOK, Known
    <3>2. /\ DOMAIN used' = DOMAIN used
          /\ \A s \in DOMAIN used : used'[s] \in [Steps -> Nat]
      BY <1>19, <2>1, <2>2 DEF EnableTotp
    <3>3. recovery' \in Nat
      BY <1>19, <2>2 DEF EnableTotp
    <3>. QED  BY <1>1, <1>2, <1>19, <3>1, <3>2, <3>3, RequestsAndAccount DEF EnableTotp
  <2>3. CASE ~(account.pending # NoSecret /\ account.secret = NoSecret)
    BY <1>1, <1>2, <1>19, <2>3, OnlyRequests DEF EnableTotp
  <2>. QED  BY <2>2, <2>3
<1>20. CASE DisableTotp(r)
  <2>1. account' \in AccountRows /\ AccountOK' /\ recovery' \in Nat
    BY <1>1, <1>20 DEF DisableTotp, WithoutTotp, AccountRows, AccountOK, Known
  <2>2. \A s \in DOMAIN used : used'[s] \in [Steps -> Nat]
    BY <1>20 DEF DisableTotp, NamesInv, SignInTypeOK
  <2>. QED  BY <1>1, <1>2, <1>20, <2>1, <2>2, RequestsAndAccount DEF DisableTotp
<1>. QED  BY <1>6, <1>7, <1>8, <1>9, <1>10, <1>11, <1>12, <1>13, <1>14, <1>15,
             <1>16, <1>17, <1>18, <1>19, <1>20 DEF SignInStep

\* Live challenges gone keep their type.
LEMMA VoidedType ==
    ASSUME NamesInv
    PROVE  DOMAIN Voided = Made /\ \A c \in Made : Voided[c] \in Challenges
BY DEF Voided, NamesInv, SignInTypeOK, Challenges

\* Revocations keep types and names.
LEMMA NamesRevoked ==
    ASSUME NamesInv, account' \in AccountRows, AccountOK', recovery' \in Nat,
           challenges' \in {challenges, Voided},
           UNCHANGED <<tokens, signIn, step, used, verified>>
    PROVE  NamesInv'
<1>1. Made' = Made /\ \A c \in Made : challenges'[c] \in Challenges
  BY VoidedType DEF Made, NamesInv, SignInTypeOK
<1>2. signIn' \in [SignIns -> Requests] /\ \A p \in SignIns : Fits(signIn[p])'
  BY <1>1, NotRequested
<1>3. SignInTypeOK'
  BY <1>1, <1>2 DEF NamesInv, SignInTypeOK
<1>. QED  BY <1>1, <1>2, <1>3 DEF NamesInv, NumbersOK, Generated

\* Every step keeps types and names.
LEMMA NamesNext ==
    ASSUME NamesInv, SignInNext
    PROVE  NamesInv'
<1>1. account \in AccountRows /\ AccountOK /\ recovery \in Nat /\ account.version + 1 \in Nat
  BY DEF NamesInv, SignInTypeOK, AccountRows
<1>2. ASSUME NEW r \in SignIns, SignInStep(r)
      PROVE  NamesInv'
  BY <1>2, NamesRequest
<1>3. ASSUME NEW t \in tokens, Renew(t)
      PROVE  NamesInv'
  <2>1. tokens' \subseteq Tokens
    BY <1>1, <1>3 DEF Renew, Tokens, NamesInv, SignInTypeOK, AccountRows
  <2>2. Made' = Made
    BY <1>3 DEF Renew, Made
  <2>3. signIn' \in [SignIns -> Requests] /\ \A p \in SignIns : Fits(signIn[p])'
    BY <1>3, <2>2, NotRequested DEF Renew
  <2>4. SignInTypeOK'
    BY <1>3, <2>1, <2>2, <2>3 DEF Renew, NamesInv, SignInTypeOK
  <2>. QED  BY <1>3, <2>2, <2>3, <2>4
            DEF Renew, NamesInv, NumbersOK, AccountOK, Known, Generated
<1>4. CASE Revoke \/ ChangePassword \/ ProveAddress \/ Ban
  <2>1. account' \in AccountRows /\ AccountOK'
    BY <1>1, <1>4 DEF Revoke, ChangePassword, ProveAddress, Ban, WithoutTotp,
       AccountRows, AccountOK, Known
  <2>. QED  BY <1>1, <1>4, <2>1, NamesRevoked DEF Revoke, ChangePassword, ProveAddress, Ban
<1>5. CASE Unban
  <2>1. account' \in AccountRows /\ AccountOK'
    BY <1>1, <1>5 DEF Unban, AccountRows, AccountOK, Known
  <2>. QED  BY <1>1, <1>5, <2>1, NamesRevoked DEF Unban
<1>6. CASE CodeTick
  <2>1. step' \in 0 .. MaxStep /\ Made' = Made
    BY <1>6, SignInConstants DEF CodeTick, Made, NamesInv, SignInTypeOK
  <2>2. signIn' \in [SignIns -> Requests] /\ \A p \in SignIns : Fits(signIn[p])'
    BY <1>6, <2>1, NotRequested DEF CodeTick
  <2>3. SignInTypeOK'
    BY <1>6, <2>1, <2>2 DEF CodeTick, NamesInv, SignInTypeOK
  <2>. QED  BY <1>6, <2>1, <2>2, <2>3
            DEF CodeTick, NamesInv, NumbersOK, AccountOK, Known, Generated
<1>. QED  BY <1>2, <1>3, <1>4, <1>5, <1>6 DEF SignInNext

\* Nothing exists at the start.
LEMMA NamesInit ==
    ASSUME SignInInit
    PROVE  NamesInv
<1>1. Made = {} /\ DOMAIN used = {} /\ Cardinality({}) = 0
  BY FS_EmptySet DEF SignInInit, Made
<1>2. Cardinality(Made) = 0 /\ Generated = 0 /\ 1 .. 0 = {}
  BY <1>1 DEF Generated
<1>3. NumbersOK
  BY <1>1, <1>2, SignInConstants DEF NumbersOK
<1>4. SignInTypeOK
  BY <1>1, FreshTypes, SignInConstants DEF SignInInit, SignInTypeOK
<1>5. AccountOK /\ \A r \in SignIns : Fits(signIn[r])
  BY DEF SignInInit, AccountOK, Fits, Known, NoRequest, NewAccount, OnPCs
<1>. QED  BY <1>3, <1>4, <1>5 DEF NamesInv

\* The type invariant of signing in: rows, challenges, tokens and requests
\* keep their types (services/account.rs, auth_repository.rs).
THEOREM SignInTypes == SignInSpec => []SignInTypeOK
<1>1. NamesInv /\ [SignInNext]_signInVars => NamesInv'
  <2>1. CASE SignInNext
    BY <2>1, NamesNext
  <2>2. CASE UNCHANGED signInVars
    BY <2>2 DEF signInVars, NamesInv, SignInTypeOK, NumbersOK, AccountOK, Fits, Known,
       Made, Generated
  <2>. QED  BY <2>1, <2>2
<1>. QED  BY NamesInit, <1>1, PTL DEF SignInSpec, NamesInv

-----------------------------------------------------------------------------
(* Versions. *)

\* Versions, challenges and what requests read have their types.
LEMMA Typed ==
    ASSUME NamesInv
    PROVE  /\ account \in AccountRows /\ account.version \in Nat
           /\ signIn \in [SignIns -> Requests]
           /\ \A r \in SignIns : /\ signIn[r] \in Requests
                                 /\ signIn[r].row.version \in Nat
           /\ \A c \in Made : challenges[c] \in Challenges /\ challenges[c].since \in Nat
           /\ Cardinality(Made) \in Nat /\ Made = 1 .. Cardinality(Made)
BY SignInConstants
   DEF NamesInv, SignInTypeOK, NumbersOK, AccountRows, Requests, Challenges

\* No request changes the version, or the version of a challenge.
LEMMA RequestKeeps ==
    ASSUME NamesInv, NEW r \in SignIns, SignInStep(r)
    PROVE  /\ account'.version = account.version
           /\ \A p \in SignIns \ {r} : signIn'[p] = signIn[p]
           /\ \A c \in Made : c \in Made' /\ challenges'[c].since = challenges[c].since
<1>1. account'.version = account.version
  BY Typed DEF SignInStep, ReadAccount, CreateChallenge, IssueSession, FindChallenge,
     SecondStep, ClaimChallenge, CheckStep, CheckPending, ClaimStep, UseRecoveryCode,
     WrongCode, ConsumeChallenge, StartSetup, SetPendingTotp, EnableTotp,
     StartDisable, DisableTotp, WithoutTotp, AccountRows
<1>2. \A p \in SignIns \ {r} : signIn'[p] = signIn[p]
  BY Typed DEF SignInStep, ReadAccount, CreateChallenge, IssueSession, FindChallenge,
     SecondStep, ClaimChallenge, CheckStep, CheckPending, ClaimStep, UseRecoveryCode,
     WrongCode, ConsumeChallenge, StartSetup, SetPendingTotp, EnableTotp,
     StartDisable, DisableTotp
<1>3. ASSUME NEW c \in Made
      PROVE  c \in Made' /\ challenges'[c].since = challenges[c].since
  <2>1. challenges[c] \in Challenges /\ c \in 1 .. Cardinality(Made) + 1
    BY Typed
  <2>2. CASE CreateChallenge(r)
    BY <2>1, <2>2 DEF CreateChallenge, Made, Challenges
  <2>3. CASE ClaimChallenge(r) \/ WrongCode(r) \/ ConsumeChallenge(r)
    BY <2>1, <2>3 DEF ClaimChallenge, WrongCode, ConsumeChallenge, Made, Challenges
  <2>4. CASE UNCHANGED challenges
    BY <2>4 DEF Made
  <2>. QED
    BY <2>2, <2>3, <2>4 DEF SignInStep, ReadAccount, IssueSession, FindChallenge,
       SecondStep, CheckStep, CheckPending, ClaimStep, UseRecoveryCode, StartSetup,
       SetPendingTotp, EnableTotp, StartDisable, DisableTotp
<1>. QED  BY <1>1, <1>2, <1>3

\* Challenges stay of their version, single and unused while live.
LEMMA ChallengesRequest ==
    ASSUME NamesInv, VersionsInv, NEW r \in SignIns, SignInStep(r)
    PROVE  \A c \in Made' : ChallengeOK(c)'
<1>1. account'.version = account.version /\ account.version \in Nat
  BY Typed, RequestKeeps
<1>2. \A c \in Made : challenges[c] \in Challenges /\ ChallengeOK(c)
  BY Typed DEF VersionsInv
<1>3. CASE CreateChallenge(r)
  <2>. DEFINE n == Cardinality(Made)
  <2>1. Made' = 1 .. n + 1 /\ n \in Nat /\ Made = 1 .. n
    BY <1>3, Typed DEF CreateChallenge, Made
  <2>2. Cardinality(Made') = n + 1
    BY <2>1, FS_Interval
  <2>3. ASSUME NEW c \in Made
        PROVE  ChallengeOK(c)'
    <3>1. challenges'[c] = [challenges[c] EXCEPT !.live = FALSE]
      BY <1>3, <2>1, <2>3 DEF CreateChallenge
    <3>. QED  BY <1>1, <1>2, <2>3, <3>1 DEF ChallengeOK, Challenges
  <2>4. ASSUME NEW c \in Made', c \notin Made
        PROVE  ChallengeOK(c)'
    <3>1. c = n + 1
      BY <2>1, <2>4
    <3>2. challenges'[c] = [live |-> TRUE, attempts |-> 0, since |-> account.version,
                            wins |-> 0, wrong |-> 0]
      BY <1>3, <2>1, <2>4 DEF CreateChallenge
    <3>. QED  BY <1>1, <2>2, <3>1, <3>2 DEF ChallengeOK
  <2>. QED  BY <2>3, <2>4
<1>4. CASE ClaimChallenge(r) \/ WrongCode(r) \/ ConsumeChallenge(r)
  <2>1. Made' = Made
    BY <1>4 DEF ClaimChallenge, WrongCode, ConsumeChallenge, Made
  <2>2. ASSUME NEW c \in Made
        PROVE  /\ challenges'[c].since = challenges[c].since
               /\ challenges'[c].live => challenges[c].live
               /\ \/ challenges'[c].wins = challenges[c].wins
                  \/ /\ challenges'[c].wins = challenges[c].wins + 1
                     /\ challenges[c].live /\ ~challenges'[c].live
    <3>1. challenges[c] \in Challenges
      BY <1>2
    <3>2. CASE ClaimChallenge(r)
      BY <3>1, <3>2 DEF ClaimChallenge, Challenges, Made
    <3>3. CASE WrongCode(r)
      BY <3>1, <3>3 DEF WrongCode, Challenges, Made
    <3>4. CASE ConsumeChallenge(r)
      BY <3>1, <3>4 DEF ConsumeChallenge, ChallengeWon, Challenges, Made
    <3>. QED  BY <1>4, <3>2, <3>3, <3>4
  <2>3. ASSUME NEW c \in Made
        PROVE  ChallengeOK(c)'
    BY <1>1, <1>2, <2>1, <2>2, <2>3 DEF ChallengeOK, Challenges
  <2>. QED  BY <2>1, <2>3
<1>5. CASE UNCHANGED challenges
  BY <1>1, <1>2, <1>5 DEF ChallengeOK, Made
<1>. QED
  BY <1>3, <1>4, <1>5 DEF SignInStep, ReadAccount, IssueSession, FindChallenge,
     SecondStep, CheckStep, CheckPending, ClaimStep, UseRecoveryCode, StartSetup,
     SetPendingTotp, EnableTotp, StartDisable, DisableTotp

\* What a request read is not newer than the account, and what its challenge
\* let it do is not older than what it read.
LEMMA ReadsRequest ==
    ASSUME NamesInv, VersionsInv, NEW r \in SignIns, SignInStep(r)
    PROVE  \A p \in SignIns : ReadOK(p)'
<1>1. /\ account'.version = account.version
      /\ \A p \in SignIns \ {r} : signIn'[p] = signIn[p]
      /\ \A c \in Made : c \in Made' /\ challenges'[c].since = challenges[c].since
  BY RequestKeeps
<1>2. \A p \in SignIns : Fits(signIn[p]) /\ ReadOK(p)
  BY DEF NamesInv, VersionsInv
<1>3. ASSUME NEW p \in SignIns \ {r}
      PROVE  ReadOK(p)'
  BY <1>1, <1>2 DEF ReadOK, Fits
<1>. SUFFICES ReadOK(r)'
  BY <1>3
<1>4. /\ \/ signIn'[r].row = signIn[r].row
         \/ signIn'[r].row = account
         \/ signIn'[r].row = NewAccount
      /\ signIn'[r].pc # "issue" \/ signIn'[r].on = 0
      => ReadOK(r)'
  <2>1. NewAccount.version = 0
    BY DEF NewAccount
  <2>. QED  BY <1>1, <1>2, <2>1, Typed DEF ReadOK
<1>5. NoRequest.row = NewAccount /\ NoRequest.pc = "idle" /\ NoRequest.on = 0
  BY DEF NoRequest
<1>6. CASE ConsumeChallenge(r)
  <2>. DEFINE c == signIn[r].on
  <2>1. c \in Made /\ c # 0
    BY <1>2, <1>6 DEF ConsumeChallenge, Fits, OnPCs
  <2>2. CASE ChallengeWon(c)
    <3>1. signIn'[r] = [signIn[r] EXCEPT !.pc = "issue"]
      BY <1>6, <2>2, Typed DEF ConsumeChallenge
    <3>2. signIn'[r].row = signIn[r].row /\ signIn'[r].on = c
      BY <3>1, Typed DEF Requests
    <3>3. challenges[c].since = account.version
      BY <2>1, <2>2 DEF ChallengeWon, VersionsInv, ChallengeOK
    <3>. QED  BY <1>1, <1>2, <2>1, <3>2, <3>3, Typed DEF ReadOK
  <2>3. CASE ~ChallengeWon(c)
    <3>1. signIn'[r] = NoRequest
      BY <1>6, <2>3, Typed DEF ConsumeChallenge
    <3>. QED  BY <1>4, <1>5, <3>1
  <2>. QED  BY <2>2, <2>3
<1>7. CASE ReadAccount(r)
  BY <1>4, <1>5, <1>7, Typed DEF ReadAccount, NoRequest
<1>8. CASE CreateChallenge(r) \/ IssueSession(r) \/ WrongCode(r) \/ SetPendingTotp(r)
           \/ EnableTotp(r) \/ DisableTotp(r)
  <2>1. signIn'[r] = NoRequest
    BY <1>8, Typed DEF CreateChallenge, IssueSession, WrongCode, SetPendingTotp,
       EnableTotp, DisableTotp
  <2>. QED  BY <1>4, <1>5, <2>1
<1>9. CASE SecondStep(r)
  <2>1. \/ signIn'[r] = NoRequest
        \/ signIn'[r] = [signIn[r] EXCEPT !.pc = "attempt", !.row = account]
    BY <1>9, Typed DEF SecondStep
  <2>. QED  BY <1>4, <1>5, <2>1, Typed DEF Requests
<1>10. CASE ClaimChallenge(r)
  <2>1. \/ signIn'[r] = NoRequest
        \/ signIn'[r].row = signIn[r].row /\ signIn'[r].pc = "code"
    BY <1>10, Typed DEF ClaimChallenge, Requests
  <2>. QED  BY <1>4, <1>5, <2>1
<1>11. ASSUME NEW code \in Steps, CheckStep(r, code)
       PROVE  ReadOK(r)'
  <2>1. signIn'[r].row = signIn[r].row /\ signIn'[r].pc \in {"claim", "wrong"}
    BY <1>11, Typed DEF CheckStep, Requests
  <2>. QED  BY <1>4, <2>1
<1>12. CASE ClaimStep(r) \/ UseRecoveryCode(r)
  <2>1. signIn'[r].row = signIn[r].row /\ signIn'[r].pc \in {"consume", "wrong"}
    BY <1>12, Typed DEF ClaimStep, UseRecoveryCode, Requests
  <2>. QED  BY <1>4, <2>1
<1>13. ASSUME NEW code \in Steps, CheckPending(r, code)
       PROVE  ReadOK(r)'
  BY <1>4, <1>5, <1>13, Typed DEF CheckPending, NoRequest
<1>14. ASSUME NEW c \in 1 .. MaxChallenges, FindChallenge(r, c)
       PROVE  ReadOK(r)'
  BY <1>4, <1>5, <1>14, Typed DEF FindChallenge, NoRequest
<1>15. CASE StartSetup(r) \/ StartDisable(r)
  BY <1>4, <1>5, <1>15, Typed DEF StartSetup, StartDisable, NoRequest
<1>. QED
  BY <1>6, <1>7, <1>8, <1>9, <1>10, <1>11, <1>12, <1>13, <1>14, <1>15 DEF SignInStep

\* A token handed out is not newer than the account, and if it is of its
\* version, so is the sign-in it comes from.
LEMMA TokensRequest ==
    ASSUME NamesInv, VersionsInv, NEW r \in SignIns, SignInStep(r)
    PROVE  \A t \in tokens' : TokenOK(t)'
<1>1. account'.version = account.version /\ account.version \in Nat
  BY RequestKeeps, Typed
<1>2. \A t \in tokens : TokenOK(t)
  BY DEF VersionsInv
<1>3. CASE IssueSession(r)
  <2>1. Fits(signIn[r]) /\ ReadOK(r)
    BY DEF NamesInv, VersionsInv
  <2>2. signIn[r].on # 0 => /\ signIn[r].on \in Made
                            /\ challenges[signIn[r].on].since <= account.version
                            /\ challenges[signIn[r].on].since >= signIn[r].row.version
    BY <1>3, <2>1 DEF IssueSession, Fits, ReadOK, VersionsInv, ChallengeOK
  <2>. QED  BY <1>1, <1>2, <1>3, <2>1, <2>2, Typed DEF IssueSession, TokenOK, ReadOK
<1>4. CASE tokens' = tokens
  BY <1>1, <1>2, <1>4 DEF TokenOK
<1>. QED
  BY <1>3, <1>4 DEF SignInStep, ReadAccount, CreateChallenge, FindChallenge,
     SecondStep, ClaimChallenge, CheckStep, CheckPending, ClaimStep, UseRecoveryCode,
     WrongCode, ConsumeChallenge, StartSetup, SetPendingTotp, EnableTotp,
     StartDisable, DisableTotp

\* A new version leaves nothing of the old one live.
LEMMA VersionsRevoked ==
    ASSUME NamesInv, VersionsInv, account'.version = account.version + 1,
           challenges' = Voided, UNCHANGED <<tokens, signIn>>
    PROVE  VersionsInv'
<1>1. Made' = Made
  BY DEF Voided, Made
<1>2. \A c \in Made : /\ challenges[c] \in Challenges
                      /\ challenges'[c] = [challenges[c] EXCEPT !.live = FALSE]
  BY Typed DEF Voided
<1>3. ASSUME NEW c \in Made
      PROVE  ChallengeOK(c)'
  <2>1. /\ challenges'[c].since = challenges[c].since /\ challenges[c].since \in Nat
        /\ challenges'[c].live = FALSE /\ challenges'[c].wins = challenges[c].wins
    BY <1>2, Typed DEF Challenges
  <2>. QED  BY <2>1, Typed DEF VersionsInv, ChallengeOK
<1>4. ASSUME NEW p \in SignIns
      PROVE  ReadOK(p)'
  <2>1. ReadOK(p) /\ Fits(signIn[p])
    BY DEF VersionsInv, NamesInv
  <2>2. signIn[p].on # 0 => challenges'[signIn[p].on].since = challenges[signIn[p].on].since
    BY <1>2, <2>1 DEF Fits, Challenges
  <2>. QED  BY <2>1, <2>2, Typed DEF ReadOK
<1>5. \A t \in tokens : TokenOK(t)'
  <2>1. \A t \in tokens : t.ver \in Nat
    BY DEF NamesInv, SignInTypeOK, Tokens
  <2>. QED  BY <2>1, Typed DEF VersionsInv, TokenOK
<1>. QED  BY <1>1, <1>3, <1>4, <1>5 DEF VersionsInv

\* Every step keeps the versions in order.
LEMMA VersionsNext ==
    ASSUME NamesInv, VersionsInv, SignInNext
    PROVE  VersionsInv'
<1>1. ASSUME NEW r \in SignIns, SignInStep(r)
      PROVE  VersionsInv'
  BY <1>1, ChallengesRequest, ReadsRequest, TokensRequest DEF VersionsInv
<1>2. ASSUME NEW t \in tokens, Renew(t)
      PROVE  VersionsInv'
  <2>1. TokenOK([t EXCEPT !.ver = account.version])
    BY <1>2, Typed DEF Renew, Accepts, VersionsInv, TokenOK, NamesInv, SignInTypeOK, Tokens
  <2>. QED  BY <1>2, <2>1 DEF Renew, VersionsInv, ChallengeOK, ReadOK, TokenOK, Made
<1>3. CASE Revoke \/ ChangePassword \/ ProveAddress \/ Ban
  <2>1. account'.version = account.version + 1
    BY <1>3, Typed DEF Revoke, ChangePassword, ProveAddress, Ban, WithoutTotp, AccountRows
  <2>. QED  BY <1>3, <2>1, VersionsRevoked DEF Revoke, ChangePassword, ProveAddress, Ban
<1>4. CASE Unban \/ CodeTick
  <2>1. account'.version = account.version
    BY <1>4, Typed DEF Unban, CodeTick, AccountRows
  <2>. QED  BY <1>4, <2>1 DEF Unban, CodeTick, VersionsInv, ChallengeOK, ReadOK, TokenOK, Made
<1>. QED  BY <1>1, <1>2, <1>3, <1>4 DEF SignInNext

-----------------------------------------------------------------------------
(* Attempts. *)

\* The requests at a challenge are finitely many, and fewer are not more.
LEMMA TryingFinite ==
    ASSUME NEW c
    PROVE  /\ IsFiniteSet(Trying(c)) /\ Cardinality(Trying(c)) \in Nat
           /\ IsFiniteSet(Trying(c)') /\ Cardinality(Trying(c)') \in Nat
           /\ Trying(c)' \subseteq Trying(c)
                => Cardinality(Trying(c)') <= Cardinality(Trying(c))
<1>1. Trying(c) \subseteq SignIns /\ Trying(c)' \subseteq SignIns
  BY DEF Trying
<1>. QED  BY <1>1, SignInConstants, FS_Subset, FS_CardinalityType

\* While no attempt is claimed or reported, requests only leave a challenge.
LEMMA AttemptsFewer ==
    ASSUME NamesInv, AttemptsInv, NEW r \in SignIns,
           \A p \in SignIns \ {r} : signIn'[p] = signIn[p],
           \/ signIn'[r].pc \notin TryPCs
           \/ signIn'[r].on = signIn[r].on /\ signIn[r].pc \in TryPCs,
           Made' = Made,
           \A c \in Made : /\ challenges'[c].attempts = challenges[c].attempts
                           /\ challenges'[c].wrong = challenges[c].wrong
    PROVE  AttemptsInv'
<1>1. ASSUME NEW c
      PROVE  Trying(c)' \subseteq Trying(c)
  BY DEF Trying
<1>2. ASSUME NEW c \in Made
      PROVE  /\ challenges'[c].attempts <= ChallengeMaxAttempts
             /\ challenges'[c].wrong + Cardinality(Trying(c)') <= challenges'[c].attempts
  <2>1. challenges[c].wrong \in Nat /\ challenges[c].attempts \in Nat
    BY Typed DEF Challenges
  <2>. QED  BY <1>1, <2>1, TryingFinite DEF AttemptsInv
<1>. QED  BY <1>2 DEF AttemptsInv

\* A wrong code was counted as an attempt before it was looked at.
LEMMA AttemptsRequest ==
    ASSUME NamesInv, AttemptsInv, NEW r \in SignIns, SignInStep(r)
    PROVE  AttemptsInv'
<1>1. /\ \A p \in SignIns \ {r} : signIn'[p] = signIn[p]
      /\ \A p \in SignIns : Fits(signIn[p])
  BY RequestKeeps DEF NamesInv
<1>2. NoRequest.pc = "idle" /\ "idle" \notin TryPCs
  BY DEF NoRequest, TryPCs
<1>3. CASE CreateChallenge(r)
  <2>. DEFINE n == Cardinality(Made)
  <2>1. Made' = 1 .. n + 1 /\ n \in Nat /\ Made = 1 .. n
    BY <1>3, Typed DEF CreateChallenge, Made
  <2>2. ASSUME NEW c
        PROVE  Trying(c)' \subseteq Trying(c)
    BY <1>1, <1>2, <1>3, Typed DEF Trying, CreateChallenge
  <2>3. ASSUME NEW c \in Made
        PROVE  /\ challenges'[c].attempts <= ChallengeMaxAttempts
               /\ challenges'[c].wrong + Cardinality(Trying(c)') <= challenges'[c].attempts
    <3>1. challenges'[c] = [challenges[c] EXCEPT !.live = FALSE]
      BY <1>3, <2>1, <2>3 DEF CreateChallenge
    <3>2. /\ challenges'[c].wrong = challenges[c].wrong /\ challenges[c].wrong \in Nat
          /\ challenges'[c].attempts = challenges[c].attempts
          /\ challenges[c].attempts \in Nat
      BY <3>1, Typed DEF Challenges
    <3>. QED  BY <2>2, <3>2, TryingFinite DEF AttemptsInv
  <2>4. ASSUME NEW c \in Made', c \notin Made
        PROVE  /\ challenges'[c].attempts <= ChallengeMaxAttempts
               /\ challenges'[c].wrong + Cardinality(Trying(c)') <= challenges'[c].attempts
    <3>1. challenges'[c].wrong = 0 /\ challenges'[c].attempts = 0
      BY <1>3, <2>1, <2>4 DEF CreateChallenge
    <3>2. Trying(c)' = {}
      <4>1. \A p \in SignIns : signIn[p].on # c \/ signIn[p].pc \notin TryPCs
        BY <1>1, <2>1, <2>4 DEF Fits, OnPCs, TryPCs
      <4>. QED  BY <2>2, <4>1 DEF Trying
    <3>. QED  BY <3>1, <3>2, FS_EmptySet, SignInConstants
  <2>. QED  BY <2>3, <2>4 DEF AttemptsInv
<1>4. CASE ClaimChallenge(r)
  <2>. PICK c \in Made : c = signIn[r].on
    BY <1>1, <1>4 DEF ClaimChallenge, Fits, OnPCs
  <2>1. CASE challenges[c].live /\ challenges[c].attempts < ChallengeMaxAttempts
    <3>1. /\ challenges' = [challenges EXCEPT ![c].attempts = @ + 1]
          /\ signIn'[r].pc = "code" /\ signIn'[r].on = c
      BY <1>4, <2>1, Typed DEF ClaimChallenge, Requests
    <3>2. Made' = Made /\ r \notin Trying(c)
      BY <1>4, <3>1 DEF ClaimChallenge, Made, Trying, TryPCs
    <3>3. Trying(c)' = Trying(c) \cup {r}
      BY <1>1, <3>1 DEF Trying, TryPCs
    <3>4. Cardinality(Trying(c)') = Cardinality(Trying(c)) + 1
      BY <3>2, <3>3, TryingFinite, FS_AddElement
    <3>5. ASSUME NEW d \in Made
          PROVE  /\ challenges'[d].attempts <= ChallengeMaxAttempts
                 /\ challenges'[d].wrong + Cardinality(Trying(d)') <= challenges'[d].attempts
      <4>1. challenges[d] \in Challenges
        BY Typed
      <4>2. CASE d = c
        BY <2>1, <3>1, <3>4, <4>1, <4>2, TryingFinite, SignInConstants
        DEF AttemptsInv, Challenges, Made
      <4>3. CASE d # c
        <5>1. Trying(d)' \subseteq Trying(d) /\ challenges'[d] = challenges[d]
          BY <1>1, <3>1, <4>3 DEF Trying, Made
        <5>. QED  BY <4>1, <5>1, TryingFinite DEF AttemptsInv, Challenges
      <4>. QED  BY <4>2, <4>3
    <3>. QED  BY <3>2, <3>5 DEF AttemptsInv
  <2>2. CASE ~(challenges[c].live /\ challenges[c].attempts < ChallengeMaxAttempts)
    <3>1. signIn'[r] = NoRequest /\ challenges' = challenges
      BY <1>4, <2>2, Typed DEF ClaimChallenge
    <3>. QED  BY <1>1, <1>2, <3>1, AttemptsFewer DEF Made
  <2>. QED  BY <2>1, <2>2
<1>5. CASE WrongCode(r)
  <2>. PICK c \in Made : c = signIn[r].on
    BY <1>1, <1>5 DEF WrongCode, Fits, OnPCs
  <2>1. r \in Trying(c)
    BY <1>5 DEF WrongCode, Trying, TryPCs
  <2>2. Made' = Made
    BY <1>5 DEF WrongCode, Made
  <2>3. signIn'[r].pc \notin TryPCs
    BY <1>2, <1>5, Typed DEF WrongCode
  <2>4. Trying(c)' = Trying(c) \ {r}
    BY <1>1, <2>3 DEF Trying
  <2>5. Cardinality(Trying(c)') = Cardinality(Trying(c)) - 1
    BY <2>1, <2>4, TryingFinite, FS_RemoveElement
  <2>6. ASSUME NEW d \in Made
        PROVE  /\ challenges'[d].attempts <= ChallengeMaxAttempts
               /\ challenges'[d].wrong + Cardinality(Trying(d)') <= challenges'[d].attempts
    <3>1. challenges[d] \in Challenges
      BY Typed
    <3>2. /\ challenges'[d].attempts = challenges[d].attempts
          /\ challenges'[d].wrong = IF d = c THEN challenges[d].wrong + 1
                                    ELSE challenges[d].wrong
      BY <1>5, <3>1 DEF WrongCode, Made, Challenges
    <3>3. CASE d = c
      BY <2>5, <3>1, <3>2, <3>3, TryingFinite DEF AttemptsInv, Challenges
    <3>4. CASE d # c
      <4>1. Trying(d)' \subseteq Trying(d)
        BY <1>1, <2>3 DEF Trying
      <4>. QED  BY <3>1, <3>2, <3>4, <4>1, TryingFinite DEF AttemptsInv, Challenges
    <3>. QED  BY <3>3, <3>4
  <2>. QED  BY <2>2, <2>6 DEF AttemptsInv
<1>6. CASE ConsumeChallenge(r)
  <2>1. \A c \in Made : /\ challenges'[c].attempts = challenges[c].attempts
                        /\ challenges'[c].wrong = challenges[c].wrong
    BY <1>6, Typed DEF ConsumeChallenge, Made, Challenges
  <2>2. Made' = Made
    BY <1>6 DEF ConsumeChallenge, Made
  <2>3. signIn'[r].pc \notin TryPCs
    BY <1>2, <1>6, Typed DEF ConsumeChallenge, Requests, TryPCs
  <2>. QED  BY <1>1, <2>1, <2>2, <2>3, AttemptsFewer
<1>7. ASSUME challenges' = challenges,
             \/ signIn'[r].pc \notin TryPCs
             \/ signIn'[r].on = signIn[r].on /\ signIn[r].pc \in TryPCs
      PROVE  AttemptsInv'
  BY <1>1, <1>7, AttemptsFewer DEF Made
<1>8. CASE IssueSession(r) \/ SetPendingTotp(r) \/ EnableTotp(r) \/ DisableTotp(r)
  <2>1. signIn'[r] = NoRequest /\ challenges' = challenges
    BY <1>8, Typed DEF IssueSession, SetPendingTotp, EnableTotp, DisableTotp
  <2>. QED  BY <1>2, <1>7, <2>1
<1>9. CASE ReadAccount(r) \/ StartSetup(r) \/ StartDisable(r) \/ SecondStep(r)
  <2>1. signIn'[r].pc \notin TryPCs /\ challenges' = challenges
    <3>1. CASE ReadAccount(r)
      BY <3>1, Typed DEF ReadAccount, NoRequest, TryPCs
    <3>2. CASE StartSetup(r)
      BY <3>2, Typed DEF StartSetup, NoRequest, TryPCs
    <3>3. CASE SecondStep(r)
      BY <3>3, Typed DEF SecondStep, NoRequest, TryPCs, Requests
    <3>4. CASE StartDisable(r)
      BY <3>4, Typed DEF StartDisable, NoRequest, TryPCs
    <3>. QED  BY <1>9, <3>1, <3>2, <3>3, <3>4
  <2>. QED  BY <1>7, <2>1
<1>10. ASSUME NEW c \in 1 .. MaxChallenges, FindChallenge(r, c)
       PROVE  AttemptsInv'
  <2>1. signIn'[r].pc \notin TryPCs /\ challenges' = challenges
    BY <1>10, Typed DEF FindChallenge, NoRequest, TryPCs
  <2>. QED  BY <1>7, <2>1
<1>11. ASSUME NEW code \in Steps, CheckStep(r, code) \/ CheckPending(r, code)
       PROVE  AttemptsInv'
  <2>1. CASE CheckStep(r, code)
    <3>1. /\ signIn'[r].on = signIn[r].on /\ signIn[r].pc \in TryPCs
          /\ challenges' = challenges
      BY <2>1, Typed DEF CheckStep, Requests, TryPCs
    <3>. QED  BY <1>7, <3>1
  <2>2. CASE CheckPending(r, code)
    <3>1. signIn'[r].pc \notin TryPCs /\ challenges' = challenges
      BY <2>2, Typed DEF CheckPending, NoRequest, TryPCs
    <3>. QED  BY <1>7, <3>1
  <2>. QED  BY <1>11, <2>1, <2>2
<1>12. CASE ClaimStep(r) \/ UseRecoveryCode(r)
  <2>1. /\ signIn'[r].on = signIn[r].on /\ signIn[r].pc \in TryPCs
        /\ challenges' = challenges
    BY <1>12, Typed DEF ClaimStep, UseRecoveryCode, Requests, TryPCs
  <2>. QED  BY <1>7, <2>1
<1>. QED  BY <1>3, <1>4, <1>5, <1>6, <1>8, <1>9, <1>10, <1>11, <1>12 DEF SignInStep

\* Every step keeps the attempts counted.
LEMMA AttemptsNext ==
    ASSUME NamesInv, AttemptsInv, SignInNext
    PROVE  AttemptsInv'
<1>1. ASSUME NEW r \in SignIns, SignInStep(r)
      PROVE  AttemptsInv'
  BY <1>1, AttemptsRequest
<1>2. ASSUME challenges' \in {challenges, Voided}, UNCHANGED signIn
      PROVE  AttemptsInv'
  <2>1. /\ Made' = Made
        /\ \A c \in Made : /\ challenges'[c].attempts = challenges[c].attempts
                           /\ challenges'[c].wrong = challenges[c].wrong
    BY <1>2, Typed DEF Voided, Made, Challenges
  <2>2. \A c \in Made : Trying(c)' = Trying(c)
    BY <1>2 DEF Trying
  <2>. QED  BY <2>1, <2>2 DEF AttemptsInv
<1>3. CASE Revoke \/ ChangePassword \/ ProveAddress \/ Ban \/ Unban \/ CodeTick
  BY <1>2, <1>3 DEF Revoke, ChangePassword, ProveAddress, Ban, Unban, CodeTick
<1>4. ASSUME NEW t \in tokens, Renew(t)
      PROVE  AttemptsInv'
  BY <1>2, <1>4 DEF Renew
<1>. QED  BY <1>1, <1>3, <1>4 DEF SignInNext

-----------------------------------------------------------------------------
(* Codes. *)

\* Every request's row was the account's, or is nobody's.
LEMMA RowsRead ==
    ASSUME NamesInv, NEW r \in SignIns, SignInStep(r)
    PROVE  \/ signIn'[r].row = signIn[r].row
           \/ signIn'[r].row = account
           \/ signIn'[r].row.secret = NoSecret
<1>1. NoRequest.row.secret = NoSecret
  BY DEF NoRequest, NewAccount
<1>2. CASE ReadAccount(r)
  BY <1>2, Typed DEF ReadAccount, NoRequest
<1>3. CASE StartSetup(r)
  BY <1>3, Typed DEF StartSetup, NoRequest
<1>4. CASE StartDisable(r)
  BY <1>4, Typed DEF StartDisable, NoRequest
<1>5. ASSUME NEW code \in Steps, CheckPending(r, code)
      PROVE  signIn'[r].row = account
  BY <1>5, Typed DEF CheckPending, NoRequest
<1>6. ASSUME NEW c \in 1 .. MaxChallenges, FindChallenge(r, c)
      PROVE  signIn'[r].row.secret = NoSecret
  BY <1>6, Typed DEF FindChallenge, NoRequest, NewAccount
<1>7. CASE SecondStep(r)
  BY <1>1, <1>7, Typed DEF SecondStep, Requests
<1>8. CASE ClaimChallenge(r)
  BY <1>1, <1>8, Typed DEF ClaimChallenge, Requests
<1>9. ASSUME NEW code \in Steps, CheckStep(r, code)
      PROVE  signIn'[r].row = signIn[r].row
  BY <1>9, Typed DEF CheckStep, Requests
<1>10. CASE ClaimStep(r) \/ UseRecoveryCode(r)
  BY <1>10, Typed DEF ClaimStep, UseRecoveryCode, Requests
<1>11. CASE ConsumeChallenge(r)
  BY <1>1, <1>11, Typed DEF ConsumeChallenge, Requests
<1>12. CASE CreateChallenge(r) \/ IssueSession(r) \/ WrongCode(r)
            \/ SetPendingTotp(r) \/ EnableTotp(r) \/ DisableTotp(r)
  <2>1. signIn'[r] = NoRequest
    BY <1>12, Typed DEF CreateChallenge, IssueSession, WrongCode, SetPendingTotp,
       EnableTotp, DisableTotp
  <2>. QED  BY <1>1, <2>1
<1>. QED
  BY <1>2, <1>3, <1>4, <1>5, <1>6, <1>7, <1>8, <1>9, <1>10, <1>11, <1>12 DEF SignInStep

\* While secrets and codes stay, requests may read what they like.
LEMMA UsedKept ==
    ASSUME NamesInv, UsedInv, NEW r \in SignIns, SignInStep(r),
           UNCHANGED <<account, used>>
    PROVE  UsedInv'
<1>1. \A p \in SignIns : account.pending # NoSecret => signIn'[p].row.secret # account.pending
  BY RowsRead, RequestKeeps DEF UsedInv
<1>. QED  BY <1>1 DEF UsedInv

\* A secret that goes or stays, with its last step, leaves nothing to prove.
LEMMA UsedLess ==
    ASSUME UsedInv, UNCHANGED used,
           \A p \in SignIns : signIn'[p].row.secret \in {signIn[p].row.secret, NoSecret},
           \/ /\ account'.secret = NoSecret /\ account'.pending = NoSecret
           \/ /\ account'.secret = account.secret /\ account'.pending = account.pending
              /\ account'.lastStep = account.lastStep
    PROVE  UsedInv'
BY DEF UsedInv

\* A code is claimed after the last step on record, so it was not used.
LEMMA UsedRequest ==
    ASSUME NamesInv, UsedInv, NEW r \in SignIns, SignInStep(r)
    PROVE  UsedInv'
<1>1. /\ \A s \in DOMAIN used : used[s] \in [Steps -> Nat]
      /\ Known(account.secret) /\ Known(account.pending)
      /\ Known(signIn[r].row.secret)
      /\ account \in AccountRows /\ signIn[r].code \in Steps /\ Steps \subseteq Int
  BY Typed, FreshTypes DEF NamesInv, SignInTypeOK, AccountOK, Fits, Requests
<1>2. /\ \A p \in SignIns \ {r} : signIn'[p] = signIn[p]
      /\ NoRequest.row.secret = NoSecret
  BY RequestKeeps DEF NoRequest, NewAccount
<1>3. CASE UNCHANGED <<account, used>>
  BY <1>3, UsedKept
<1>4. CASE ClaimStep(r)
  <2>. DEFINE s == signIn[r].row.secret
              code == signIn[r].code
  <2>1. CASE StepFree(code)
    <3>1. /\ account' = [account EXCEPT !.lastStep = code]
          /\ used' = [used EXCEPT ![s][code] = @ + 1]
      BY <1>4, <2>1 DEF ClaimStep
    <3>2. /\ account'.secret = account.secret /\ account'.pending = account.pending
          /\ account'.lastStep = code /\ account.lastStep < code
      BY <1>1, <2>1, <3>1 DEF AccountRows, StepFree
    <3>3. account.lastStep \in Int /\ code \in Int
      <4>1. account.lastStep \in Steps \cup {Never} /\ Never \in Int
        BY <1>1 DEF AccountRows, Never
      <4>. QED  BY <1>1, <4>1
    <3>4. \A p \in SignIns : signIn'[p].row = signIn[p].row
      <4>1. signIn'[r].row = signIn[r].row
        BY <1>4, <2>1, Typed DEF ClaimStep, Requests
      <4>. QED  BY <1>2, <4>1
    <3>5. ASSUME account.pending # NoSecret
          PROVE  used'[account.pending] = used[account.pending]
      <4>1. account.pending # s /\ account.pending \in DOMAIN used
        BY <1>1, <3>5 DEF UsedInv, Known
      <4>. QED  BY <3>1, <4>1
    <3>6. ASSUME account.secret # NoSecret, NEW n \in Steps
          PROVE  /\ used'[account.secret][n] <= 1
                 /\ used'[account.secret][n] = 1 => n <= code
      <4>1. /\ account.secret \in DOMAIN used /\ used[account.secret] \in [Steps -> Nat]
            /\ used[account.secret][n] <= 1
            /\ used[account.secret][n] = 1 => n <= account.lastStep
        BY <1>1, <3>6 DEF UsedInv, Known
      <4>2. \/ used'[account.secret][n] = used[account.secret][n]
            \/ n = code /\ used'[account.secret][n] = used[account.secret][n] + 1
        BY <3>1, <4>1
      <4>3. n \in Int /\ used[account.secret][n] \in Nat
        BY <1>1, <4>1
      <4>. QED  BY <3>2, <3>3, <4>1, <4>2, <4>3
    <3>. QED  BY <3>2, <3>4, <3>5, <3>6 DEF UsedInv
  <2>2. CASE ~StepFree(code)
    BY <1>3, <1>4, <2>2 DEF ClaimStep
  <2>. QED  BY <2>1, <2>2
<1>5. CASE SetPendingTotp(r)
  <2>. DEFINE g == Generated + 1
  <2>1. g \notin DOMAIN used /\ g # NoSecret /\ DOMAIN used = 1 .. Generated
        /\ DOMAIN used' = 1 .. g /\ g \in DOMAIN used'
    BY <1>5, SignInConstants DEF SetPendingTotp, NamesInv, NumbersOK, NoSecret
  <2>2. /\ account'.pending = g /\ account'.secret = account.secret
        /\ account'.lastStep = account.lastStep
    BY <1>1, <1>5 DEF SetPendingTotp, AccountRows
  <2>3. \A n \in Steps : used'[g][n] = 0
    BY <1>5, <2>1 DEF SetPendingTotp
  <2>4. account.secret # g /\ \A p \in SignIns : signIn[p].row.secret # g
    BY <1>1, <2>1 DEF NamesInv, Fits, Known
  <2>5. signIn'[r] = NoRequest
    BY <1>5, Typed DEF SetPendingTotp
  <2>6. account.secret # NoSecret => used'[account.secret] = used[account.secret]
    <3>1. account.secret # NoSecret => account.secret \in DOMAIN used /\ account.secret \in 1 .. g
      BY <1>1, <2>1, SignInConstants DEF Known, NamesInv, NumbersOK
    <3>. QED  BY <1>5, <3>1 DEF SetPendingTotp
  <2>7. \A p \in SignIns : signIn'[p].row.secret # g
    BY <1>2, <2>1, <2>4, <2>5
  <2>. HIDE DEF g
  <2>. QED  BY <2>2, <2>3, <2>4, <2>6, <2>7 DEF UsedInv
<1>6. CASE EnableTotp(r)
  <2>. DEFINE code == signIn[r].code
              s == account.pending
  <2>1. CASE account.pending # NoSecret /\ account.secret = NoSecret
    <3>1. /\ account'.secret = s /\ account'.lastStep = code /\ account'.pending = NoSecret
      BY <1>1, <1>6, <2>1 DEF EnableTotp, EnabledStep, AccountRows
    <3>2. s \in DOMAIN used /\ used[s] \in [Steps -> Nat] /\ \A n \in Steps : used[s][n] = 0
      BY <1>1, <2>1 DEF Known, UsedInv
    <3>3. ASSUME NEW n \in Steps
          PROVE  \/ used'[s][n] = 0
                 \/ n = code /\ used'[s][n] = 1
      <4>1. used' = [used EXCEPT ![s][code] = IF signIn[r].row.pending = s THEN @ + 1 ELSE @]
        BY <1>6, <2>1 DEF EnableTotp
      <4>. QED  BY <3>2, <4>1
    <3>4. ASSUME NEW n \in Steps
          PROVE  used'[s][n] <= 1 /\ (used'[s][n] = 1 => n <= code)
      <4>1. n \in Int
        BY <1>1
      <4>. QED  BY <3>3, <4>1
    <3>. QED  BY <3>1, <3>4 DEF UsedInv
  <2>2. CASE ~(account.pending # NoSecret /\ account.secret = NoSecret)
    BY <1>3, <1>6, <2>2 DEF EnableTotp
  <2>. QED  BY <2>1, <2>2
<1>7. CASE DisableTotp(r)
  <2>1. account'.secret = NoSecret /\ account'.pending = NoSecret /\ signIn'[r] = NoRequest
    BY <1>1, <1>7, Typed DEF DisableTotp, WithoutTotp, AccountRows
  <2>. QED  BY <1>2, <1>7, <2>1, UsedLess DEF DisableTotp
<1>. QED
  BY <1>3, <1>4, <1>5, <1>6, <1>7 DEF SignInStep, ReadAccount, CreateChallenge,
     IssueSession, FindChallenge, SecondStep, ClaimChallenge, CheckStep, CheckPending,
     UseRecoveryCode, WrongCode, ConsumeChallenge, StartSetup, StartDisable

\* Every step keeps the codes single.
LEMMA UsedNext ==
    ASSUME NamesInv, UsedInv, SignInNext
    PROVE  UsedInv'
<1>1. ASSUME NEW r \in SignIns, SignInStep(r)
      PROVE  UsedInv'
  BY <1>1, UsedRequest
<1>2. CASE Revoke \/ ChangePassword \/ ProveAddress \/ Ban \/ Unban \/ CodeTick
  <2>1. /\ UNCHANGED <<used, signIn>>
        /\ \/ /\ account'.secret = NoSecret /\ account'.pending = NoSecret
           \/ /\ account'.secret = account.secret /\ account'.pending = account.pending
              /\ account'.lastStep = account.lastStep
    BY <1>2, Typed DEF Revoke, ChangePassword, ProveAddress, Ban, Unban, CodeTick,
       WithoutTotp, AccountRows
  <2>. QED  BY <2>1, UsedLess
<1>3. ASSUME NEW t \in tokens, Renew(t)
      PROVE  UsedInv'
  BY <1>3, UsedLess DEF Renew
<1>. QED  BY <1>1, <1>2, <1>3 DEF SignInNext

-----------------------------------------------------------------------------
(* What signing in promises. *)

SignInInv == NamesInv /\ VersionsInv /\ AttemptsInv /\ UsedInv

\* At the start there is nothing to keep apart.
LEMMA SignInStarts ==
    ASSUME SignInInit
    PROVE  SignInInv
<1>1. Made = {} /\ tokens = {} /\ account = NewAccount
  BY DEF SignInInit, Made
<1>2. \A r \in SignIns : signIn[r] = NoRequest
  BY DEF SignInInit
<1>3. VersionsInv
  BY <1>1, <1>2 DEF VersionsInv, ReadOK, NoRequest, NewAccount
<1>4. AttemptsInv /\ UsedInv
  BY <1>1 DEF AttemptsInv, UsedInv, NewAccount
<1>. QED  BY <1>3, <1>4, NamesInit DEF SignInInv

\* The invariant is why nothing outlives its use.
LEMMA SignInHolds ==
    ASSUME SignInInv
    PROVE  SignInSafety
<1>1. SignedOutStaysOut
  BY DEF SignInInv, VersionsInv, TokenOK, SignedOutStaysOut
<1>2. CodeAcceptedOnce
  BY DEF SignInInv, UsedInv, CodeAcceptedOnce
<1>3. ChallengeLimits
  <2>. DEFINE live == {c \in Made : challenges[c].live}
              n == Cardinality(Made)
  <2>1. live \subseteq {n}
    BY DEF SignInInv, VersionsInv, ChallengeOK
  <2>2. IsFiniteSet({n}) /\ Cardinality({n}) = 1
    BY FS_Singleton
  <2>. HIDE DEF live, n
  <2>3. Cardinality(live) <= 1
    BY <2>1, <2>2, FS_Subset
  <2>4. ASSUME NEW c \in Made
        PROVE  challenges[c].wins <= 1 /\ challenges[c].wrong <= ChallengeMaxAttempts
    BY Typed, TryingFinite, SignInConstants
    DEF SignInInv, VersionsInv, ChallengeOK, AttemptsInv, Challenges
  <2>. QED  BY <2>3, <2>4 DEF ChallengeLimits, live
<1>. QED  BY <1>1, <1>2, <1>3 DEF SignInSafety

\* Every step keeps what sign-in rests on.
LEMMA SignInStays ==
    ASSUME SignInInv, [SignInNext]_signInVars
    PROVE  SignInInv'
<1>1. CASE SignInNext
  BY <1>1, NamesNext, VersionsNext, AttemptsNext, UsedNext DEF SignInInv
<1>2. CASE UNCHANGED signInVars
  <2>1. NamesInv'
    BY <1>2 DEF signInVars, SignInInv, NamesInv, SignInTypeOK, NumbersOK, AccountOK,
       Fits, Known, Made, Generated
  <2>2. VersionsInv' /\ AttemptsInv' /\ UsedInv'
    BY <1>2 DEF signInVars, SignInInv, VersionsInv, ChallengeOK, ReadOK, TokenOK,
       AttemptsInv, Trying, UsedInv, Made
  <2>. QED  BY <2>1, <2>2 DEF SignInInv
<1>. QED  BY <1>1, <1>2

\* Sessions, codes and challenges outlive neither a sign-out nor their own
\* use, however requests interleave: an accepted token began after the last
\* sign-out, a code of the secret in force is accepted once, and a challenge
\* signs in once and takes no more wrong codes than its attempts
\* (invalidate_pending, claim_totp_step, consume_challenge).
THEOREM SignInIsSafe == SignInSpec => []SignInSafety
BY SignInStarts, SignInStays, SignInHolds, PTL DEF SignInSpec
=============================================================================
