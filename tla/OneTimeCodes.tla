---------------------------- MODULE OneTimeCodes ----------------------------
(***************************************************************************)
(* The e-mailed codes of one purpose (password recovery, verification,     *)
(* e-mail change, re-authentication) for one account.  Requests ask for a  *)
(* code, type one in, use it or give the attempt back, all at once and     *)
(* from several networks; a credential change voids what is pending.       *)
(*                                                                         *)
(* Issuing is one transaction under an advisory lock of the account.       *)
(* Everything else is single statements that commit on their own, so other *)
(* requests come between any two of them.                                  *)
(***************************************************************************)
EXTENDS Integers, Sequences, FiniteSetsExt

CONSTANTS
    CodeRequests,       \* API requests in progress at the same time
    Networks,           \* client networks the requests come from
    Addresses,          \* addresses a code may be sent to
    CodeMaxAttempts,    \* CODE_MAX_ATTEMPTS
    CodeDailyCap,       \* CODE_DAILY_FAILURE_CAP
    PerNetwork,         \* CODE_DAILY_LIMIT_PER_NETWORK
    PerAccount,         \* CODE_DAILY_LIMIT
    CodeLife,           \* lifetime of a code
    ResendInterval,     \* CODE_RESEND_SECONDS
    Day,                \* 24 hours
    MaxCodes,           \* bound: codes issued
    MaxCodeTime,        \* bound: the clock stops here
    MaxVoids            \* bound: credential changes

ASSUME CodeConstants ==
    /\ IsFiniteSet(CodeRequests) /\ "nobody" \notin CodeRequests
    /\ CodeMaxAttempts \in Nat \ {0} /\ CodeDailyCap \in Nat \ {0}
    /\ PerNetwork \in Nat \ {0} /\ PerAccount \in Nat \ {0}
    /\ CodeLife \in Nat \ {0} /\ ResendInterval \in Nat /\ Day \in Nat \ {0}
    /\ MaxCodes \in Nat /\ MaxCodeTime \in Nat /\ MaxVoids \in Nat

VARIABLES
    clock,
    codes,      \* `verification_codes`: issued codes by number
    asked,      \* `verification_code_requests`: when, from where, to where
    issuing,    \* the request that holds the account's lock, or none
    check,      \* what each request is doing
    accepted,   \* ghost: how often each code let someone through
    voids

codesVars == <<clock, codes, asked, issuing, check, accepted, voids>>

Nobody == "nobody"
Issued == DOMAIN codes
Ids == 1 .. MaxCodes

CodeRows == [live : BOOLEAN, attempts : Nat, failed : Nat, to : Addresses,
             made : Nat, expires : Nat]
CodePCs == {"idle", "lookup", "claim", "record", "exhaust", "right"}
NoAsk == [when |-> 0, net |-> "", to |-> ""]
Asks == {NoAsk} \cup [when : Nat, net : Networks, to : Addresses]
Checks == [pc : CodePCs \cup {"issue"}, typed : Ids \cup {0},
           code : Ids \cup {0}, attempts : Nat, ask : Asks]
NoCheck == [pc |-> "idle", typed |-> 0, code |-> 0, attempts |-> 0,
            ask |-> NoAsk]

\* Counts over the last 24 hours.
RecentRows(at) == {i \in Issued : codes[i].made >= at - Day}
WrongGuesses(at) == UNION {{i} \X (1 .. codes[i].failed) : i \in RecentRows(at)}
Failures(at) == Cardinality(WrongGuesses(at))
RecentAsks(at) == {n \in DOMAIN asked : asked[n].when >= at - Day}

AsksFrom(net) == {n \in RecentAsks(clock) : asked[n].net = net}

-----------------------------------------------------------------------------
(* create_code and send_code. *)

\* One request at a time, an allowance per network and one per account, and
\* none after too many wrong codes.
WithinAllowance(net) ==
    /\ \A n \in RecentAsks(clock) : clock - asked[n].when >= ResendInterval
    /\ Cardinality(AsksFrom(net)) < PerNetwork
    /\ Cardinality(RecentAsks(clock)) < PerAccount
    /\ Failures(clock) < CodeDailyCap

\* Mutant of IssuingFree: the advisory lock is not taken.
IssuingAnyway == TRUE

IssuingFree == issuing = Nobody

\* The counts, under the lock; a refused request changes nothing.
AskCode(r, net, to) ==
    /\ check[r].pc = "idle" /\ IssuingFree /\ WithinAllowance(net)
    /\ issuing' = r
    /\ check' = [check EXCEPT ![r].pc = "issue",
                   ![r].ask = [when |-> clock, net |-> net, to |-> to]]
    /\ UNCHANGED <<clock, codes, asked, accepted, voids>>

\* Mutant of Resendable: every request replaces the code.
NeverResendable(c, to, at) == FALSE

\* Live, for the same address, with half of its life left.
Resendable(c, to, at) ==
    c.live /\ c.to = to /\ c.expires >= at + CodeLife \div 2

\* The rows are written and the lock is released: the live code goes out
\* again, or a new one replaces it.  The mail itself is the outbox's.
IssueCode(r) ==
    /\ check[r].pc = "issue"
    /\ asked' = Append(asked, check[r].ask)
    /\ LET at == check[r].ask.when
           to == check[r].ask.to IN
       \/ /\ \E i \in Issued : Resendable(codes[i], to, at)
          /\ UNCHANGED codes
       \/ /\ \A i \in Issued : ~Resendable(codes[i], to, at)
          /\ Cardinality(Issued) < MaxCodes
          /\ codes' = [i \in 1 .. Cardinality(Issued) + 1 |->
                         IF i \in Issued THEN [codes[i] EXCEPT !.live = FALSE]
                         ELSE [live |-> TRUE, attempts |-> 0, failed |-> 0,
                               to |-> to, made |-> at,
                               expires |-> at + CodeLife]]
    /\ issuing' = Nobody
    /\ check' = [check EXCEPT ![r] = NoCheck]
    /\ UNCHANGED <<clock, accepted, voids>>

-----------------------------------------------------------------------------
(* check_code: `typed` is the number of the code someone types, 0 for none *)
(* that was ever sent.                                                     *)

\* Mutant of BelowDailyCap: the cap itself is let through.
UpToDailyCap == Failures(clock) <= CodeDailyCap

BelowDailyCap == Failures(clock) < CodeDailyCap

CheckCode(r, typed) ==
    /\ check[r].pc = "idle" /\ typed \in Issued \cup {0} /\ BelowDailyCap
    /\ check' = [check EXCEPT ![r] =
                   [NoCheck EXCEPT !.pc = "lookup", !.typed = typed]]
    /\ UNCHANGED <<clock, codes, asked, issuing, accepted, voids>>

\* latest_code; nothing to check when none is live.
LatestCode(r) ==
    /\ check[r].pc = "lookup"
    /\ LET live == {i \in Issued : codes[i].live} IN
       check' = [check EXCEPT ![r] =
                   IF live = {} THEN NoCheck
                   ELSE [@ EXCEPT !.pc = "claim", !.code = Max(live)]]
    /\ UNCHANGED <<clock, codes, asked, issuing, accepted, voids>>

\* Mutant of Claimable: what is left of the code's attempts is not asked.
ClaimableAnyway(c) == c.live /\ c.expires > clock

Claimable(c) ==
    c.live /\ c.attempts < CodeMaxAttempts /\ c.expires > clock

\* claim_code_attempt, in one statement; then the comparison.
ClaimAttempt(r) ==
    /\ check[r].pc = "claim"
    /\ LET i == check[r].code IN
       IF Claimable(codes[i])
       THEN /\ codes' = [codes EXCEPT ![i].attempts = @ + 1]
            /\ check' = [check EXCEPT ![r].attempts = codes[i].attempts + 1,
                  ![r].pc = IF check[r].typed = i THEN "right" ELSE "record"]
       ELSE /\ check' = [check EXCEPT ![r] = NoCheck]
            /\ UNCHANGED codes
    /\ UNCHANGED <<clock, asked, issuing, accepted, voids>>

\* record_code_failure
RecordFailure(r) ==
    /\ check[r].pc = "record"
    /\ codes' = [codes EXCEPT ![check[r].code].failed = @ + 1]
    /\ check' = [check EXCEPT ![r] =
                   IF @.attempts >= CodeMaxAttempts
                   THEN [@ EXCEPT !.pc = "exhaust"] ELSE NoCheck]
    /\ UNCHANGED <<clock, asked, issuing, accepted, voids>>

\* The last attempt was wrong: the code is spent.
ExhaustCode(r) ==
    /\ check[r].pc = "exhaust"
    /\ codes' = [codes EXCEPT ![check[r].code].live = FALSE]
    /\ check' = [check EXCEPT ![r] = NoCheck]
    /\ UNCHANGED <<clock, asked, issuing, accepted, voids>>

\* Mutant of ConsumeWins: the row count of the update is not looked at.
ConsumeWinsAnyway(i) == TRUE

ConsumeWins(i) == codes[i].live

\* consume_code: only one of several correct attempts gets to use it.
UseCode(r) ==
    /\ check[r].pc = "right"
    /\ LET i == check[r].code IN
       /\ codes' = [codes EXCEPT ![i].live = FALSE]
       /\ accepted' = [accepted EXCEPT ![i] =
                         IF ConsumeWins(i) THEN @ + 1 ELSE @]
    /\ check' = [check EXCEPT ![r] = NoCheck]
    /\ UNCHANGED <<clock, asked, issuing, voids>>

\* reset_password with a weak password: the attempt is given back.
GiveBack(r) ==
    /\ check[r].pc = "right"
    /\ LET i == check[r].code IN
       codes' = [codes EXCEPT ![i].attempts =
                   IF codes[i].live /\ @ > 0 THEN @ - 1 ELSE @]
    /\ check' = [check EXCEPT ![r] = NoCheck]
    /\ UNCHANGED <<clock, asked, issuing, accepted, voids>>

-----------------------------------------------------------------------------
(* Everything else. *)

\* invalidate_pending, in the transaction of a credential change.
VoidPending ==
    /\ voids < MaxVoids /\ voids' = voids + 1
    /\ codes' = [i \in Issued |-> [codes[i] EXCEPT !.live = FALSE]]
    /\ UNCHANGED <<clock, asked, issuing, check, accepted>>

CodesTick ==
    /\ clock < MaxCodeTime /\ clock' = clock + 1
    /\ UNCHANGED <<codes, asked, issuing, check, accepted, voids>>

CodesInit ==
    /\ clock = 0 /\ codes = <<>> /\ asked = <<>> /\ issuing = Nobody
    /\ check = [r \in CodeRequests |-> NoCheck]
    /\ accepted = [i \in Ids |-> 0] /\ voids = 0

CodeStep(r) ==
    \/ \E net \in Networks, to \in Addresses : AskCode(r, net, to)
    \/ IssueCode(r)
    \/ \E typed \in Ids \cup {0} : CheckCode(r, typed)
    \/ LatestCode(r) \/ ClaimAttempt(r) \/ RecordFailure(r) \/ ExhaustCode(r)
    \/ UseCode(r) \/ GiveBack(r)

CodesNext ==
    (\E r \in CodeRequests : CodeStep(r)) \/ VoidPending \/ CodesTick

CodesSpec == CodesInit /\ [][CodesNext]_codesVars

-----------------------------------------------------------------------------
(* What the codes promise. *)

\* Every variable keeps its type, and a request that is issuing has the lock.
CodesTypeOK ==
    /\ clock \in Nat /\ voids \in Nat
    /\ Issued \subseteq Ids /\ \A i \in Issued : codes[i] \in CodeRows
    /\ asked \in Seq(Asks)
    /\ issuing \in CodeRequests \cup {Nobody}
    /\ check \in [CodeRequests -> Checks]
    /\ accepted \in [Ids -> Nat]

\* A code lets one request through, however many type it at once
\* (consume_code).
CodeUsedOnce == \A i \in Issued : accepted[i] <= 1

\* No code takes more wrong guesses than its attempts, although attempts
\* are claimed before the comparison and given back after a right one
\* (check_code's "concurrent guesses can never exceed").
GuessesPerCode == \A i \in Issued : codes[i].failed <= CodeMaxAttempts

\* Fresh codes bring no fresh guesses: the wrong guesses of 24 hours stay
\* below the daily cap, which is read before the attempt is claimed, but
\* for the requests that were past that check already.
DailyGuesses ==
    Failures(clock) <= CodeDailyCap - 1 + Cardinality(CodeRequests)

\* At most so many codes are mailed in a day, in all and for the requests
\* of one network, however many ask at once (create_code's lock).
MailAllowance ==
    /\ Cardinality(RecentAsks(clock)) <= PerAccount
    /\ \A net \in Networks : Cardinality(AsksFrom(net)) <= PerNetwork

\* Somebody else's request never invalidates the code the owner is about
\* to type: asking replaces a live code of the same address only in the
\* second half of its life (send_code).
AskingKeepsCode ==
    [][\A r \in CodeRequests, i \in Issued :
          check[r].pc = "issue" /\ check'[r].pc = "idle"
            /\ codes[i].live /\ codes[i].to = check[r].ask.to
            /\ ~codes'[i].live
          => codes[i].expires < check[r].ask.when + CodeLife \div 2]_codesVars

\* All of it together: what bounds the guesses and the mails whatever the
\* requests interleave (check_code, create_code, consume_code).
CodeLimits == CodeUsedOnce /\ GuessesPerCode /\ MailAllowance
=============================================================================
