------------------------- MODULE GuessLimitsProofs -------------------------
(***************************************************************************)
(* What holds of the limits on guessing - one-time codes, confirmations    *)
(* and the locks of the login - for every number of requests, networks and *)
(* addresses, and every limit.                                             *)
(*                                                                         *)
(* Each limit is a count that is taken before an answer is looked at and   *)
(* settled afterwards, by a request that others overtake.  The inductive   *)
(* invariants add what the requests under way still have to settle to what *)
(* is on record.                                                           *)
(***************************************************************************)
EXTENDS OneTimeCodes, Confirmations, Lockout, FiniteSetTheorems, TLAPS

-----------------------------------------------------------------------------
(* One-time codes. *)

\* While a request is at these, it is about an issued code.
CodeOnPCs == {"claim", "record", "exhaust", "right"}

\* What a request is about exists.
CheckFits(q) ==
    /\ q.pc \in CodeOnPCs => q.code \in Issued
    /\ q.pc = "issue" => q.ask \in [when : Nat, net : Networks, to : Addresses]

\* Codes are numbered without gaps; a live one is the last and unused.
CodeFits(i) ==
    /\ accepted[i] <= 1
    /\ codes[i].live => i = Cardinality(Issued) /\ accepted[i] = 0

CodesInv ==
    /\ CodesTypeOK
    /\ Cardinality(Issued) \in 0 .. MaxCodes /\ Issued = 1 .. Cardinality(Issued)
    /\ \A r \in CodeRequests : CheckFits(check[r])
    /\ \A i \in Issued : CodeFits(i)
    /\ \A i \in Ids \ Issued : accepted[i] = 0

\* What is written first has its type.
LEMMA CodeFresh ==
    /\ NoCheck \in Checks /\ NoCheck.pc = "idle"
    /\ NoAsk \in Asks
BY DEF NoCheck, Checks, CodePCs, Asks, NoAsk

\* A request's step: it moves on, and codes are changed without a new one.
LEMMA CodesMoved ==
    ASSUME CodesInv, NEW r \in CodeRequests, NEW q \in Checks, CheckFits(q),
           check' = [check EXCEPT ![r] = q],
           Issued' = Issued, \A i \in Issued : codes'[i] \in CodeRows,
           \A i \in Issued : codes'[i].live => codes[i].live,
           accepted' = accepted \/ (\E i \in Issued :
              accepted' = [accepted EXCEPT ![i] = @ + 1]
              /\ codes[i].live /\ ~codes'[i].live),
           asked' = asked, clock' = clock, voids' = voids,
           issuing' \in CodeRequests \cup {Nobody}
    PROVE  CodesInv'
<1>1. check' \in [CodeRequests -> Checks] /\ \A p \in CodeRequests : CheckFits(check[p])'
  BY DEF CodesInv, CodesTypeOK, CheckFits
<1>2. /\ accepted \in [Ids -> Nat] /\ Issued \subseteq Ids
      /\ \A i \in Issued : CodeFits(i) /\ accepted[i] \in Nat
  BY DEF CodesInv, CodesTypeOK
<1>3. accepted' \in [Ids -> Nat]
  BY <1>2
<1>4. CodesTypeOK'
  BY <1>1, <1>3 DEF CodesInv, CodesTypeOK
<1>5. \A i \in Issued : CodeFits(i)'
  BY <1>2 DEF CodeFits
<1>6. \A i \in Ids \ Issued : accepted'[i] = 0
  BY <1>2 DEF CodesInv
<1>. QED  BY <1>1, <1>4, <1>5, <1>6 DEF CodesInv

\* A request asks, and issues what it asked for.
LEMMA CodesAsked ==
    ASSUME CodesInv, NEW r \in CodeRequests, NEW net \in Networks,
           NEW to \in Addresses, AskCode(r, net, to)
    PROVE  CodesInv'
<1>. DEFINE q == [check[r] EXCEPT !.pc = "issue",
                    !.ask = [when |-> clock, net |-> net, to |-> to]]
<1>1. check[r] \in Checks /\ clock \in Nat
  BY DEF CodesInv, CodesTypeOK
<1>2. [when |-> clock, net |-> net, to |-> to] \in Asks
  BY <1>1 DEF Asks
<1>3. q \in Checks
  BY <1>1, <1>2 DEF Checks
<1>4. CheckFits(q)
  <2>1. q.pc = "issue" /\ q.ask = [when |-> clock, net |-> net, to |-> to]
    BY <1>1 DEF Checks
  <2>. HIDE DEF q
  <2>. QED  BY <1>1, <2>1 DEF CheckFits, CodeOnPCs
<1>5. check' = [check EXCEPT ![r] = q] /\ UNCHANGED codes
  BY <1>1 DEF AskCode
<1>. HIDE DEF q
<1>6. \A i \in Issued : codes[i] \in CodeRows
  BY DEF CodesInv, CodesTypeOK
<1>. QED  BY <1>3, <1>4, <1>5, <1>6, CodesMoved DEF AskCode, Issued

\* A new code is the last one, and the only live one.
LEMMA CodesIssued ==
    ASSUME CodesInv, NEW r \in CodeRequests, IssueCode(r)
    PROVE  CodesInv'
<1>. DEFINE n == Cardinality(Issued)
            at == check[r].ask.when
            to == check[r].ask.to
<1>1. /\ check[r] \in Checks /\ CheckFits(check[r])
      /\ n \in 0 .. MaxCodes /\ Issued = 1 .. n /\ Issued \subseteq Ids
      /\ \A i \in Issued : codes[i] \in CodeRows /\ CodeFits(i)
      /\ \A i \in Ids \ Issued : accepted[i] = 0
      /\ check \in [CodeRequests -> Checks] /\ asked \in Seq(Asks)
  BY DEF CodesInv, CodesTypeOK
<1>2. at \in Nat /\ to \in Addresses /\ check[r].ask \in Asks
  BY <1>1 DEF IssueCode, CheckFits, Checks
<1>3. asked' \in Seq(Asks)
  BY <1>1, <1>2 DEF IssueCode
<1>4. \/ codes' = codes
      \/ /\ n + 1 \in 1 .. MaxCodes
         /\ codes' = [i \in 1 .. n + 1 |->
                         IF i \in Issued THEN [codes[i] EXCEPT !.live = FALSE]
                         ELSE [live |-> TRUE, attempts |-> 0, failed |-> 0, to |-> to,
                               made |-> at, expires |-> at + CodeLife]]
  BY <1>1, CodeConstants DEF IssueCode
<1>5. issuing' \in CodeRequests \cup {Nobody}
  BY DEF IssueCode
<1>6. ASSUME Issued \subseteq Issued'
      PROVE  /\ check' \in [CodeRequests -> Checks]
             /\ \A p \in CodeRequests : CheckFits(check[p])'
  <2>1. check' = [check EXCEPT ![r] = NoCheck]
    BY DEF IssueCode
  <2>2. CheckFits(NoCheck)
    BY CodeFresh DEF CheckFits, CodeOnPCs
  <2>. QED  BY <1>1, <1>6, <2>1, <2>2, CodeFresh DEF CheckFits, CodesInv
<1>7. CASE codes' = codes
  BY <1>1, <1>3, <1>5, <1>6, <1>7 DEF IssueCode, CodesInv, CodesTypeOK, CodeFits, Issued
<1>8. CASE codes' # codes
  <2>1. Issued' = 1 .. n + 1
    BY <1>4, <1>8 DEF Issued
  <2>2. Cardinality(Issued') = n + 1 /\ n + 1 \in 0 .. MaxCodes /\ Issued' \subseteq Ids
    <3>1. n \in Nat /\ n + 1 \in 1 .. MaxCodes
      BY <1>1, <1>4, <1>8, CodeConstants
    <3>. HIDE DEF n
    <3>2. Cardinality(1 .. n + 1) = n + 1
      BY <3>1, FS_Interval
    <3>. QED  BY <2>1, <3>1, <3>2, CodeConstants DEF Ids
  <2>3. Issued \subseteq Issued'
    BY <1>1, <2>1
  <2>4. ASSUME NEW i \in Issued
        PROVE  codes'[i] \in CodeRows /\ CodeFits(i)'
    <3>1. codes'[i] = [codes[i] EXCEPT !.live = FALSE]
      BY <1>4, <1>8, <2>1, <2>3
    <3>2. codes'[i] \in CodeRows /\ codes'[i].live = FALSE
      BY <1>1, <3>1 DEF CodeRows
    <3>. QED  BY <1>1, <3>2 DEF CodeFits, IssueCode
  <2>5. ASSUME NEW i \in Issued', i \notin Issued
        PROVE  codes'[i] \in CodeRows /\ CodeFits(i)'
    <3>1. i = n + 1 /\ accepted[i] = 0
      BY <1>1, <2>1, <2>2, <2>5
    <3>2. codes'[i] = [live |-> TRUE, attempts |-> 0, failed |-> 0, to |-> to,
                       made |-> at, expires |-> at + CodeLife]
      BY <1>4, <1>8, <2>1, <2>5
    <3>3. codes'[i] \in CodeRows
      BY <1>2, <3>2, CodeConstants DEF CodeRows
    <3>. QED  BY <2>2, <3>1, <3>3 DEF CodeFits, IssueCode
  <2>6. CodesTypeOK'
    BY <1>3, <1>5, <1>6, <2>2, <2>3, <2>4, <2>5 DEF IssueCode, CodesInv, CodesTypeOK
  <2>7. Cardinality(Issued') \in 0 .. MaxCodes /\ Issued' = 1 .. Cardinality(Issued')
    BY <2>1, <2>2
  <2>8. \A i \in Ids \ Issued' : accepted'[i] = 0
    BY <1>1, <2>3 DEF IssueCode
  <2>. QED  BY <1>6, <2>3, <2>4, <2>5, <2>6, <2>7, <2>8 DEF CodesInv
<1>. QED  BY <1>7, <1>8

\* The latest code is the live one.
LEMMA LatestIsLive ==
    ASSUME CodesInv, NEW i \in Issued, codes[i].live
    PROVE  Max({j \in Issued : codes[j].live}) = i
<1>1. {j \in Issued : codes[j].live} = {i}
  BY DEF CodesInv, CodeFits
<1>2. i \in Int
  BY DEF CodesInv
<1>. QED  BY <1>1, <1>2 DEF Max

\* A request's step keeps types, and a live code unused.
LEMMA CodesRequest ==
    ASSUME CodesInv, NEW r \in CodeRequests, CodeStep(r)
    PROVE  CodesInv'
<1>. DEFINE q0 == check[r]
<1>1. /\ q0 \in Checks /\ CheckFits(q0) /\ check \in [CodeRequests -> Checks]
      /\ \A i \in Issued : codes[i] \in CodeRows
      /\ accepted \in [Ids -> Nat] /\ Issued \subseteq Ids
      /\ issuing \in CodeRequests \cup {Nobody}
  BY DEF CodesInv, CodesTypeOK
<1>2. NoCheck \in Checks /\ CheckFits(NoCheck)
  BY CodeFresh DEF CheckFits, CodeOnPCs
<1>3. CASE \E net \in Networks, to \in Addresses : AskCode(r, net, to)
  BY <1>3, CodesAsked
<1>4. CASE IssueCode(r)
  BY <1>4, CodesIssued
<1>5. ASSUME NEW typed \in Ids \cup {0}, CheckCode(r, typed)
      PROVE  CodesInv'
  <2>. DEFINE q == [NoCheck EXCEPT !.pc = "lookup", !.typed = typed]
  <2>1. q \in Checks /\ CheckFits(q)
    BY <1>2 DEF Checks, NoCheck, CheckFits, CodeOnPCs, CodePCs
  <2>. QED  BY <1>1, <1>5, <2>1, CodesMoved DEF CheckCode, Issued
<1>6. CASE LatestCode(r)
  <2>. DEFINE live == {i \in Issued : codes[i].live}
  <2>1. CASE live = {}
    BY <1>1, <1>2, <1>6, <2>1, CodesMoved DEF LatestCode, Issued
  <2>2. CASE live # {}
    <3>. DEFINE q == [q0 EXCEPT !.pc = "claim", !.code = Max(live)]
    <3>1. Max(live) \in Issued
      BY <2>2, LatestIsLive
    <3>2. check' = [check EXCEPT ![r] = q]
      BY <1>6, <2>2 DEF LatestCode
    <3>3. q \in Checks /\ q.pc = "claim" /\ q.code = Max(live)
      BY <1>1, <3>1 DEF Checks, CodePCs
    <3>. HIDE DEF q, live
    <3>4. CheckFits(q)
      BY <3>1, <3>3 DEF CheckFits
    <3>. QED  BY <1>1, <1>6, <3>2, <3>3, <3>4, CodesMoved DEF LatestCode, Issued
  <2>. QED  BY <2>1, <2>2
<1>7. CASE ClaimAttempt(r)
  <2>. PICK i \in Issued : i = q0.code
    BY <1>1, <1>7 DEF ClaimAttempt, CheckFits, CodeOnPCs
  <2>1. CASE Claimable(codes[i])
    <3>1. \E pc \in {"right", "record"} :
             check' = [check EXCEPT ![r] = [q0 EXCEPT !.attempts = codes[i].attempts + 1,
                                                     !.pc = pc]]
      BY <1>1, <1>7, <2>1 DEF ClaimAttempt
    <3>2. codes[i].attempts + 1 \in Nat
      BY <1>1 DEF CodeRows
    <3>3. ASSUME NEW pc \in {"right", "record"}
          PROVE  LET q == [q0 EXCEPT !.attempts = codes[i].attempts + 1, !.pc = pc]
                 IN q \in Checks /\ CheckFits(q)
      BY <1>1, <3>2 DEF Checks, CodePCs, CheckFits
    <3>4. codes' = [codes EXCEPT ![i].attempts = @ + 1]
      BY <1>7, <2>1 DEF ClaimAttempt
    <3>5. /\ Issued' = Issued /\ \A j \in Issued : codes'[j] \in CodeRows
          /\ \A j \in Issued : codes'[j].live = codes[j].live
      BY <1>1, <3>2, <3>4 DEF CodeRows, Issued
    <3>. QED  BY <1>1, <1>7, <3>1, <3>3, <3>5, CodesMoved DEF ClaimAttempt
  <2>2. CASE ~Claimable(codes[i])
    BY <1>1, <1>2, <1>7, <2>2, CodesMoved DEF ClaimAttempt, Issued
  <2>. QED  BY <2>1, <2>2
<1>8. CASE RecordFailure(r)
  <2>. PICK i \in Issued : i = q0.code
    BY <1>1, <1>8 DEF RecordFailure, CheckFits, CodeOnPCs
  <2>1. [q0 EXCEPT !.pc = "exhaust"] \in Checks /\ CheckFits([q0 EXCEPT !.pc = "exhaust"])
    BY <1>1 DEF Checks, CodePCs, CheckFits
  <2>2. \E q \in {NoCheck, [q0 EXCEPT !.pc = "exhaust"]} : check' = [check EXCEPT ![r] = q]
    BY <1>8 DEF RecordFailure
  <2>3. codes' = [codes EXCEPT ![i].failed = @ + 1]
    BY <1>8 DEF RecordFailure
  <2>4. /\ Issued' = Issued /\ \A j \in Issued : codes'[j] \in CodeRows
        /\ \A j \in Issued : codes'[j].live = codes[j].live
    BY <1>1, <2>3 DEF CodeRows, Issued
  <2>. QED  BY <1>1, <1>2, <1>8, <2>1, <2>2, <2>4, CodesMoved DEF RecordFailure
<1>9. CASE ExhaustCode(r) \/ UseCode(r) \/ GiveBack(r)
  <2>. PICK i \in Issued : i = q0.code
    BY <1>1, <1>9 DEF ExhaustCode, UseCode, GiveBack, CheckFits, CodeOnPCs
  <2>1. check' = [check EXCEPT ![r] = NoCheck]
    BY <1>9 DEF ExhaustCode, UseCode, GiveBack
  <2>2. CASE ExhaustCode(r)
    <3>1. /\ Issued' = Issued /\ \A j \in Issued : codes'[j] \in CodeRows
          /\ \A j \in Issued : codes'[j].live => codes[j].live
      BY <1>1, <2>2 DEF ExhaustCode, CodeRows, Issued
    <3>. QED  BY <1>1, <1>2, <2>1, <2>2, <3>1, CodesMoved DEF ExhaustCode
  <2>3. CASE UseCode(r)
    <3>1. /\ Issued' = Issued /\ \A j \in Issued : codes'[j] \in CodeRows
          /\ \A j \in Issued : codes'[j].live => codes[j].live
          /\ ~codes'[i].live
      BY <1>1, <2>3 DEF UseCode, CodeRows, Issued
    <3>2. \/ accepted' = accepted
          \/ accepted' = [accepted EXCEPT ![i] = @ + 1] /\ codes[i].live
      BY <1>1, <2>3 DEF UseCode, ConsumeWins
    <3>. QED  BY <1>1, <1>2, <2>1, <2>3, <3>1, <3>2, CodesMoved DEF UseCode
  <2>4. CASE GiveBack(r)
    <3>1. (IF codes[i].live /\ codes[i].attempts > 0 THEN codes[i].attempts - 1
           ELSE codes[i].attempts) \in Nat
      BY <1>1 DEF CodeRows
    <3>2. codes' = [codes EXCEPT ![i].attempts = IF codes[i].live /\ @ > 0 THEN @ - 1 ELSE @]
      BY <2>4 DEF GiveBack
    <3>3. /\ Issued' = Issued /\ \A j \in Issued : codes'[j] \in CodeRows
          /\ \A j \in Issued : codes'[j].live = codes[j].live
      BY <1>1, <3>1, <3>2 DEF CodeRows, Issued
    <3>. QED  BY <1>1, <1>2, <2>1, <2>4, <3>3, CodesMoved DEF GiveBack
  <2>. QED  BY <1>9, <2>2, <2>3, <2>4
<1>. QED  BY <1>3, <1>4, <1>5, <1>6, <1>7, <1>8, <1>9 DEF CodeStep

\* Every step keeps types, and a live code unused.
LEMMA CodesStep ==
    ASSUME CodesInv, CodesNext
    PROVE  CodesInv'
<1>1. CASE VoidPending
  <2>1. /\ Issued' = Issued
        /\ \A i \in Issued : codes[i] \in CodeRows
                            /\ codes'[i] = [codes[i] EXCEPT !.live = FALSE]
    BY <1>1 DEF VoidPending, CodesInv, CodesTypeOK, Issued
  <2>2. \A i \in Issued : codes'[i] \in CodeRows /\ codes'[i].live = FALSE
    BY <2>1 DEF CodeRows
  <2>3. voids' \in Nat
    BY <1>1 DEF VoidPending, CodesInv, CodesTypeOK
  <2>4. CodesTypeOK'
    BY <1>1, <2>1, <2>2, <2>3 DEF VoidPending, CodesInv, CodesTypeOK
  <2>5. \A r \in CodeRequests : CheckFits(check[r])'
    BY <1>1, <2>1 DEF VoidPending, CodesInv, CheckFits
  <2>6. \A i \in Issued : CodeFits(i)'
    BY <1>1, <2>2 DEF VoidPending, CodesInv, CodeFits
  <2>. QED  BY <1>1, <2>1, <2>4, <2>5, <2>6 DEF VoidPending, CodesInv
<1>2. CASE CodesTick
  <2>1. clock' \in Nat
    BY <1>2 DEF CodesTick, CodesInv, CodesTypeOK
  <2>. QED  BY <1>2, <2>1 DEF CodesTick, CodesInv, CodesTypeOK, CheckFits, CodeFits, Issued
<1>. QED  BY <1>1, <1>2, CodesRequest DEF CodesNext

\* No code exists at the start.
LEMMA CodesStart ==
    ASSUME CodesInit
    PROVE  CodesInv
<1>1. Issued = {} /\ 1 .. 0 = {} /\ Cardinality({}) = 0 /\ asked \in Seq(Asks)
  BY FS_EmptySet DEF CodesInit, Issued
<1>2. Cardinality(Issued) = 0 /\ 0 \in 0 .. MaxCodes
  BY <1>1, CodeConstants
<1>3. CodesTypeOK
  BY <1>1, CodeFresh DEF CodesInit, CodesTypeOK
<1>4. \A r \in CodeRequests : CheckFits(check[r])
  BY CodeFresh DEF CodesInit, CheckFits, CodeOnPCs
<1>. QED  BY <1>1, <1>2, <1>3, <1>4 DEF CodesInit, CodesInv

\* The type invariant of the one-time codes: codes, requests and counts keep
\* their types (auth_repository.rs, services/account.rs).
THEOREM CodesTyped == CodesSpec => []CodesTypeOK
<1>1. CodesInv /\ [CodesNext]_codesVars => CodesInv'
  <2>1. CASE UNCHANGED codesVars
    BY <2>1 DEF codesVars, CodesInv, CodesTypeOK, CheckFits, CodeFits, Issued
  <2>. QED  BY <2>1, CodesStep
<1>. QED  BY CodesStart, <1>1, PTL DEF CodesSpec, CodesInv

\* The requests that claimed an attempt of a code and have neither recorded
\* a failure nor used the code or given the attempt back.
Guessing(i) ==
    {r \in CodeRequests : check[r].code = i /\ check[r].pc \in {"record", "right"}}

GuessInv ==
    \A i \in Issued :
       /\ codes[i].attempts <= CodeMaxAttempts
       /\ codes[i].failed + Cardinality(Guessing(i)) <= codes[i].attempts

\* The requests guessing a code are finitely many, and fewer are not more.
LEMMA GuessingFinite ==
    ASSUME NEW i
    PROVE  /\ IsFiniteSet(Guessing(i)) /\ Cardinality(Guessing(i)) \in Nat
           /\ IsFiniteSet(Guessing(i)') /\ Cardinality(Guessing(i)') \in Nat
           /\ Guessing(i)' \subseteq Guessing(i)
                => Cardinality(Guessing(i)') <= Cardinality(Guessing(i))
<1>1. Guessing(i) \subseteq CodeRequests /\ Guessing(i)' \subseteq CodeRequests
  BY DEF Guessing
<1>. QED  BY <1>1, CodeConstants, FS_Subset, FS_CardinalityType

\* A guess under way is counted until it is settled: what a step does to
\* the counts of a code and to the requests that guess it.
LEMMA GuessSettled ==
    ASSUME CodesInv, GuessInv, NEW r \in CodeRequests, NEW i \in Issued,
           \A p \in CodeRequests \ {r} : check'[p] = check[p], r \in Guessing(i),
           check'[r].pc \notin {"record", "right"}, Issued' = Issued,
           \A j \in Issued \ {i} : codes'[j].failed = codes[j].failed
                                  /\ codes'[j].attempts = codes[j].attempts,
           \/ /\ codes'[i].failed \in {codes[i].failed, codes[i].failed + 1}
              /\ codes'[i].attempts = codes[i].attempts
           \/ /\ codes'[i].failed = codes[i].failed
              /\ codes'[i].attempts = codes[i].attempts - 1
    PROVE  GuessInv'
<1>1. Guessing(i)' = Guessing(i) \ {r} /\ \A j \in Issued : Guessing(j)' \subseteq Guessing(j)
  BY DEF Guessing
<1>2. Cardinality(Guessing(i)') = Cardinality(Guessing(i)) - 1
  BY <1>1, GuessingFinite, FS_RemoveElement
<1>3. \A j \in Issued : codes[j].failed \in Nat /\ codes[j].attempts \in Nat
  BY DEF CodesInv, CodesTypeOK, CodeRows
<1>4. ASSUME NEW j \in Issued
      PROVE  /\ codes'[j].attempts <= CodeMaxAttempts
             /\ codes'[j].failed + Cardinality(Guessing(j)') <= codes'[j].attempts
  <2>1. CASE j = i
    BY <1>2, <1>3, <2>1, GuessingFinite, CodeConstants DEF GuessInv
  <2>2. CASE j # i
    BY <1>1, <1>3, <2>2, GuessingFinite, CodeConstants DEF GuessInv
  <2>. QED  BY <2>1, <2>2
<1>. QED  BY <1>4 DEF GuessInv

\* Where no count changes, no request starts to guess.
LEMMA GuessUnchanged ==
    ASSUME CodesInv, GuessInv, Issued' = Issued,
           \A i \in Issued : codes'[i].failed = codes[i].failed
                            /\ codes'[i].attempts = codes[i].attempts,
           \A p \in CodeRequests : check'[p].pc \in {"record", "right"}
              => check'[p].code = check[p].code /\ check[p].pc \in {"record", "right"}
    PROVE  GuessInv'
<1>1. \A i \in Issued : Guessing(i)' \subseteq Guessing(i)
  BY DEF Guessing
<1>2. \A i \in Issued : codes[i].failed \in Nat /\ codes[i].attempts \in Nat
  BY DEF CodesInv, CodesTypeOK, CodeRows
<1>. QED  BY <1>1, <1>2, GuessingFinite DEF GuessInv

\* No request's step takes a guess that was not counted.
LEMMA GuessRequest ==
    ASSUME CodesInv, GuessInv, NEW r \in CodeRequests, CodeStep(r)
    PROVE  GuessInv'
<1>1. /\ check \in [CodeRequests -> Checks] /\ CheckFits(check[r])
      /\ \A i \in Issued : codes[i] \in CodeRows
      /\ NoCheck.pc \notin {"record", "right"}
  BY CodeFresh DEF CodesInv, CodesTypeOK
<1>2. ASSUME NEW net \in Networks, NEW to \in Addresses, AskCode(r, net, to)
      PROVE  GuessInv'
  <2>1. check'[r].pc = "issue" /\ \A p \in CodeRequests \ {r} : check'[p] = check[p]
    BY <1>1, <1>2 DEF AskCode, Checks
  <2>. QED  BY <1>2, <2>1, GuessUnchanged DEF AskCode, Issued
<1>3. CASE IssueCode(r)
  <2>1. check'[r] = NoCheck /\ \A p \in CodeRequests \ {r} : check'[p] = check[p]
    BY <1>1, <1>3 DEF IssueCode
  <2>2. CASE codes' = codes
    BY <1>1, <2>1, <2>2, GuessUnchanged DEF Issued
  <2>3. CASE codes' # codes
    <3>. DEFINE n == Cardinality(Issued)
    <3>1. /\ n \in Nat /\ Issued = 1 .. n
          /\ codes' = [i \in 1 .. n + 1 |->
                IF i \in Issued THEN [codes[i] EXCEPT !.live = FALSE]
                ELSE [live |-> TRUE, attempts |-> 0, failed |-> 0,
                      to |-> check[r].ask.to, made |-> check[r].ask.when,
                      expires |-> check[r].ask.when + CodeLife]]
      BY <1>3, <2>3, CodeConstants DEF IssueCode, CodesInv
    <3>2. \A i : Guessing(i)' \subseteq Guessing(i)
      BY <1>1, <2>1 DEF Guessing
    <3>3. ASSUME NEW i \in Issued
          PROVE  /\ codes'[i].attempts <= CodeMaxAttempts
                 /\ codes'[i].failed + Cardinality(Guessing(i)') <= codes'[i].attempts
      <4>1. codes'[i] = [codes[i] EXCEPT !.live = FALSE]
        BY <3>1
      <4>2. /\ codes'[i].failed = codes[i].failed /\ codes[i].failed \in Nat
            /\ codes'[i].attempts = codes[i].attempts /\ codes[i].attempts \in Nat
        BY <1>1, <4>1 DEF CodeRows
      <4>. QED  BY <3>2, <4>2, GuessingFinite DEF GuessInv
    <3>4. ASSUME NEW i \in Issued', i \notin Issued
          PROVE  /\ codes'[i].attempts <= CodeMaxAttempts
                 /\ codes'[i].failed + Cardinality(Guessing(i)') <= codes'[i].attempts
      <4>1. codes'[i].attempts = 0 /\ codes'[i].failed = 0
        BY <3>1, <3>4 DEF Issued
      <4>2. Guessing(i)' = {}
        <5>1. Guessing(i) = {}
          BY <3>4 DEF CodesInv, CheckFits, CodeOnPCs, Guessing
        <5>. QED  BY <3>2, <5>1
      <4>. QED  BY <4>1, <4>2, FS_EmptySet, CodeConstants
    <3>. QED  BY <3>3, <3>4 DEF GuessInv
  <2>. QED  BY <2>2, <2>3
<1>4. ASSUME NEW typed \in Ids \cup {0}, CheckCode(r, typed)
      PROVE  GuessInv'
  <2>1. check'[r].pc = "lookup" /\ \A p \in CodeRequests \ {r} : check'[p] = check[p]
    BY <1>1, <1>4 DEF CheckCode, NoCheck
  <2>. QED  BY <1>4, <2>1, GuessUnchanged DEF CheckCode, Issued
<1>5. CASE LatestCode(r)
  <2>1. /\ check'[r].pc \notin {"record", "right"}
        /\ \A p \in CodeRequests \ {r} : check'[p] = check[p]
    BY <1>1, <1>5 DEF LatestCode, Checks
  <2>. QED  BY <1>5, <2>1, GuessUnchanged DEF LatestCode, Issued
<1>6. CASE ClaimAttempt(r)
  <2>. PICK i \in Issued : i = check[r].code
    BY <1>1, <1>6 DEF ClaimAttempt, CheckFits, CodeOnPCs
  <2>1. CASE Claimable(codes[i])
    <3>1. /\ codes' = [codes EXCEPT ![i].attempts = @ + 1]
          /\ check'[r].pc \in {"record", "right"} /\ check'[r].code = i
          /\ \A p \in CodeRequests \ {r} : check'[p] = check[p]
          /\ codes[i].attempts < CodeMaxAttempts
      BY <1>1, <1>6, <2>1 DEF ClaimAttempt, Checks, Claimable
    <3>2. r \notin Guessing(i)
      BY <1>6 DEF ClaimAttempt, Guessing
    <3>3. Guessing(i)' = Guessing(i) \cup {r}
          /\ \A j \in Issued \ {i} : Guessing(j)' \subseteq Guessing(j)
      BY <3>1 DEF Guessing
    <3>4. Cardinality(Guessing(i)') = Cardinality(Guessing(i)) + 1
      BY <3>2, <3>3, GuessingFinite, FS_AddElement
    <3>5. ASSUME NEW j \in Issued
          PROVE  /\ codes'[j].attempts <= CodeMaxAttempts
                 /\ codes'[j].failed + Cardinality(Guessing(j)') <= codes'[j].attempts
      <4>1. codes[j].failed \in Nat /\ codes[j].attempts \in Nat
        BY <1>1 DEF CodeRows
      <4>2. CASE j = i
        <5>1. codes'[i].failed = codes[i].failed /\ codes'[i].attempts = codes[i].attempts + 1
          BY <1>1, <3>1 DEF Issued, CodeRows
        <5>. QED  BY <3>1, <3>4, <4>1, <4>2, <5>1, GuessingFinite, CodeConstants DEF GuessInv
      <4>3. CASE j # i
        <5>1. codes'[j] = codes[j]
          BY <3>1, <4>3 DEF Issued
        <5>. QED  BY <3>3, <4>1, <4>3, <5>1, GuessingFinite DEF GuessInv
      <4>. QED  BY <4>2, <4>3
    <3>. QED  BY <3>1, <3>5 DEF GuessInv, Issued
  <2>2. CASE ~Claimable(codes[i])
    <3>1. check'[r] = NoCheck /\ \A p \in CodeRequests \ {r} : check'[p] = check[p]
      BY <1>1, <1>6, <2>2 DEF ClaimAttempt
    <3>. QED  BY <1>1, <1>6, <2>2, <3>1, GuessUnchanged DEF ClaimAttempt, Issued
  <2>. QED  BY <2>1, <2>2
<1>7. CASE RecordFailure(r) \/ UseCode(r) \/ GiveBack(r)
  <2>. PICK i \in Issued : i = check[r].code
    BY <1>1, <1>7 DEF RecordFailure, UseCode, GiveBack, CheckFits, CodeOnPCs
  <2>1. r \in Guessing(i)
    BY <1>7 DEF RecordFailure, UseCode, GiveBack, Guessing
  <2>2. /\ check'[r].pc \notin {"record", "right"}
        /\ \A p \in CodeRequests \ {r} : check'[p] = check[p]
    BY <1>1, <1>7 DEF RecordFailure, UseCode, GiveBack, Checks
  <2>3. Issued' = Issued /\ \A j \in Issued \ {i} : codes'[j] = codes[j]
    BY <1>7 DEF RecordFailure, UseCode, GiveBack, Issued
  <2>4. \/ /\ codes'[i].failed \in {codes[i].failed, codes[i].failed + 1}
           /\ codes'[i].attempts = codes[i].attempts
        \/ /\ codes'[i].failed = codes[i].failed
           /\ codes'[i].attempts = codes[i].attempts - 1
    <3>1. CASE RecordFailure(r)
      BY <1>1, <3>1 DEF RecordFailure, CodeRows, Issued
    <3>2. CASE UseCode(r)
      BY <1>1, <3>2 DEF UseCode, CodeRows, Issued
    <3>3. CASE GiveBack(r)
      BY <1>1, <3>3 DEF GiveBack, CodeRows, Issued
    <3>. QED  BY <1>7, <3>1, <3>2, <3>3
  <2>. QED  BY <2>1, <2>2, <2>3, <2>4, GuessSettled
<1>8. CASE ExhaustCode(r)
  <2>. PICK i \in Issued : i = check[r].code
    BY <1>1, <1>8 DEF ExhaustCode, CheckFits, CodeOnPCs
  <2>1. check'[r] = NoCheck /\ \A p \in CodeRequests \ {r} : check'[p] = check[p]
    BY <1>1, <1>8 DEF ExhaustCode
  <2>2. \A j \in Issued : codes'[j].failed = codes[j].failed
                         /\ codes'[j].attempts = codes[j].attempts
    BY <1>1, <1>8 DEF ExhaustCode, CodeRows, Issued
  <2>. QED  BY <1>1, <1>8, <2>1, <2>2, GuessUnchanged DEF ExhaustCode, Issued
<1>. QED  BY <1>2, <1>3, <1>4, <1>5, <1>6, <1>7, <1>8 DEF CodeStep

\* Neither does anything else.
LEMMA GuessStep ==
    ASSUME CodesInv, GuessInv, CodesNext
    PROVE  GuessInv'
<1>1. CASE VoidPending
  <2>1. \A i \in Issued : codes'[i].failed = codes[i].failed
                         /\ codes'[i].attempts = codes[i].attempts
    BY <1>1 DEF VoidPending, CodesInv, CodesTypeOK, CodeRows
  <2>. QED  BY <1>1, <2>1, GuessUnchanged DEF VoidPending, Issued
<1>2. CASE CodesTick
  BY <1>2, GuessUnchanged DEF CodesTick, Issued
<1>. QED  BY <1>1, <1>2, GuessRequest DEF CodesNext

\* Who holds the lock counted below the allowance, and nobody else asks.
MailInv ==
    /\ MailAllowance
    /\ \A r \in CodeRequests : check[r].pc = "issue" =>
          /\ issuing = r
          /\ Cardinality(RecentAsks(clock)) < PerAccount
          /\ Cardinality(AsksFrom(check[r].ask.net)) < PerNetwork

\* Part of a finite set, and part of it with one more.
LEMMA OneMore ==
    ASSUME NEW S, IsFiniteSet(S), NEW x, NEW T, T \subseteq S \cup {x}
    PROVE  /\ IsFiniteSet(T) /\ Cardinality(T) \in Nat /\ Cardinality(S) \in Nat
           /\ Cardinality(T) <= Cardinality(S) + 1
           /\ T \subseteq S => Cardinality(T) <= Cardinality(S)
<1>1. /\ IsFiniteSet(S \cup {x})
      /\ Cardinality(S \cup {x}) \in {Cardinality(S), Cardinality(S) + 1}
  BY FS_AddElement
<1>2. IsFiniteSet(T) /\ Cardinality(T) <= Cardinality(S \cup {x})
  BY <1>1, FS_Subset
<1>3. T \subseteq S => Cardinality(T) <= Cardinality(S)
  BY FS_Subset
<1>4. Cardinality(T) \in Nat /\ Cardinality(S) \in Nat
  BY <1>2, FS_CardinalityType
<1>. QED  BY <1>1, <1>2, <1>3, <1>4

\* The asks of the last day are finitely many.
LEMMA AsksFinite ==
    ASSUME CodesInv, NEW net
    PROVE  /\ IsFiniteSet(RecentAsks(clock)) /\ IsFiniteSet(AsksFrom(net))
           /\ Cardinality(RecentAsks(clock)) \in Nat
           /\ Cardinality(AsksFrom(net)) \in Nat
<1>1. asked \in Seq(Asks)
  BY DEF CodesInv, CodesTypeOK
<1>2. IsFiniteSet(1 .. Len(asked))
  BY <1>1, FS_Interval
<1>3. RecentAsks(clock) \subseteq 1 .. Len(asked) /\ AsksFrom(net) \subseteq 1 .. Len(asked)
  BY <1>1 DEF RecentAsks, AsksFrom
<1>. QED  BY <1>2, <1>3, FS_Subset, FS_CardinalityType

\* While nothing is asked, time only makes asks older.
LEMMA MailFewer ==
    ASSUME CodesInv, MailInv, asked' = asked, clock' \in Nat, clock' >= clock,
           \A r \in CodeRequests : check'[r].pc = "issue" =>
              /\ check[r].pc = "issue" /\ issuing' = issuing
              /\ check'[r].ask = check[r].ask
    PROVE  MailInv'
<1>1. \A n \in DOMAIN asked : asked[n].when \in Nat
  <2>1. asked \in Seq(Asks)
    BY DEF CodesInv, CodesTypeOK
  <2>2. \A a \in Asks : a.when \in Nat
    <3>1. NoAsk.when \in Nat
      BY DEF NoAsk
    <3>. QED  BY <3>1 DEF Asks
  <2>. QED  BY <2>1, <2>2
<1>2. clock \in Nat /\ Day \in Nat
  BY CodeConstants DEF CodesInv, CodesTypeOK
<1>3. RecentAsks(clock)' \subseteq RecentAsks(clock)
  BY <1>1, <1>2 DEF RecentAsks
<1>4. ASSUME NEW net
      PROVE  AsksFrom(net)' \subseteq AsksFrom(net)
  BY <1>3 DEF AsksFrom, RecentAsks
<1>5. ASSUME NEW net
      PROVE  /\ Cardinality(RecentAsks(clock)') <= Cardinality(RecentAsks(clock))
             /\ Cardinality(AsksFrom(net)') <= Cardinality(AsksFrom(net))
             /\ Cardinality(RecentAsks(clock)') \in Nat /\ Cardinality(AsksFrom(net)') \in Nat
  BY <1>3, <1>4, AsksFinite, FS_Subset, FS_CardinalityType
<1>6. MailAllowance'
  BY <1>5, AsksFinite, CodeConstants DEF MailInv, MailAllowance
<1>7. ASSUME NEW r \in CodeRequests, check'[r].pc = "issue"
      PROVE  /\ issuing' = r
             /\ Cardinality(RecentAsks(clock)') < PerAccount
             /\ Cardinality({n \in RecentAsks(clock)' :
                              asked'[n].net = check'[r].ask.net}) < PerNetwork
  <2>. PICK net : net = check[r].ask.net
    OBVIOUS
  <2>1. /\ issuing = r /\ issuing' = issuing /\ check'[r].ask = check[r].ask
        /\ Cardinality(RecentAsks(clock)) < PerAccount
        /\ Cardinality(AsksFrom(check[r].ask.net)) < PerNetwork
    BY <1>7 DEF MailInv
  <2>2. AsksFrom(net)' = {n \in RecentAsks(clock)' : asked'[n].net = check'[r].ask.net}
    BY <2>1 DEF AsksFrom
  <2>3. Cardinality(AsksFrom(net)') < PerNetwork
    BY <1>5, <2>1, AsksFinite, CodeConstants
  <2>4. Cardinality(RecentAsks(clock)') < PerAccount
    BY <1>5, <2>1, AsksFinite, CodeConstants
  <2>. QED  BY <2>1, <2>2, <2>3, <2>4
<1>. QED  BY <1>6, <1>7 DEF MailInv, AsksFrom

\* Counting and writing are one request's at a time.
LEMMA AskRequest ==
    ASSUME CodesInv, MailInv, NEW r \in CodeRequests, CodeStep(r)
    PROVE  MailInv'
<1>1. /\ check \in [CodeRequests -> Checks] /\ clock \in Nat /\ asked \in Seq(Asks)
      /\ NoCheck.pc # "issue"
  BY CodeFresh DEF CodesInv, CodesTypeOK
<1>2. ASSUME NEW net \in Networks, NEW to \in Addresses, AskCode(r, net, to)
      PROVE  MailInv'
  <2>1. \A p \in CodeRequests : check[p].pc # "issue"
    BY <1>2, CodeConstants DEF AskCode, IssuingFree, MailInv, Nobody
  <2>2. /\ \A p \in CodeRequests \ {r} : check'[p] = check[p]
        /\ check'[r].ask.net = net /\ issuing' = r
        /\ UNCHANGED <<asked, clock>>
    BY <1>1, <1>2 DEF AskCode, Checks
  <2>3. /\ Cardinality(RecentAsks(clock)) < PerAccount
        /\ Cardinality(AsksFrom(net)) < PerNetwork
    BY <1>2 DEF AskCode, WithinAllowance
  <2>. QED  BY <2>1, <2>2, <2>3 DEF MailInv, MailAllowance, RecentAsks, AsksFrom
<1>3. CASE IssueCode(r)
  <2>. DEFINE ask == check[r].ask
              last == Len(asked) + 1
  <2>1. \A p \in CodeRequests \ {r} : check[p].pc # "issue"
    BY <1>3 DEF IssueCode, MailInv
  <2>2. \A p \in CodeRequests : check'[p].pc # "issue"
    BY <1>1, <1>3, <2>1 DEF IssueCode
  <2>3. asked' = Append(asked, ask) /\ clock' = clock
    BY <1>3 DEF IssueCode
  <2>4. ask \in Asks
    BY <1>1 DEF Checks
  <2>5. /\ DOMAIN asked' = DOMAIN asked \cup {last} /\ last \notin DOMAIN asked
        /\ asked'[last] = ask /\ \A n \in DOMAIN asked : asked'[n] = asked[n]
    BY <1>1, <2>3, <2>4
  <2>6. RecentAsks(clock)' \subseteq RecentAsks(clock) \cup {last}
    BY <2>3, <2>5 DEF RecentAsks
  <2>7. ASSUME NEW net \in Networks
        PROVE  /\ AsksFrom(net)' \subseteq AsksFrom(net) \cup {last}
               /\ net # ask.net => AsksFrom(net)' \subseteq AsksFrom(net)
    BY <2>3, <2>5 DEF RecentAsks, AsksFrom
  <2>8. Cardinality(RecentAsks(clock)') <= PerAccount
    <3>1. Cardinality(RecentAsks(clock)) < PerAccount
      BY <1>3 DEF IssueCode, MailInv
    <3>2. /\ Cardinality(RecentAsks(clock)') <= Cardinality(RecentAsks(clock)) + 1
          /\ Cardinality(RecentAsks(clock)') \in Nat
      BY <2>6, OneMore, AsksFinite
    <3>. QED  BY <3>1, <3>2, AsksFinite, CodeConstants
  <2>9. ASSUME NEW net \in Networks
        PROVE  Cardinality(AsksFrom(net)') <= PerNetwork
    <3>1. /\ Cardinality(AsksFrom(net)) <= PerNetwork
          /\ net = ask.net => Cardinality(AsksFrom(net)) < PerNetwork
      BY <1>3 DEF IssueCode, MailInv, MailAllowance
    <3>2. /\ Cardinality(AsksFrom(net)') <= Cardinality(AsksFrom(net)) + 1
          /\ net # ask.net => Cardinality(AsksFrom(net)') <= Cardinality(AsksFrom(net))
          /\ Cardinality(AsksFrom(net)') \in Nat
      BY <2>7, OneMore, AsksFinite
    <3>. QED  BY <3>1, <3>2, AsksFinite, CodeConstants
  <2>. QED  BY <2>2, <2>8, <2>9 DEF MailInv, MailAllowance
<1>4. ASSUME check'[r].pc # "issue", \A p \in CodeRequests \ {r} : check'[p] = check[p],
             UNCHANGED <<asked, clock, issuing>>
      PROVE  MailInv'
  BY <1>1, <1>4, MailFewer
<1>5. ASSUME NEW typed \in Ids \cup {0}, CheckCode(r, typed)
      PROVE  MailInv'
  BY <1>1, <1>4, <1>5 DEF CheckCode, NoCheck
<1>6. CASE LatestCode(r)
  BY <1>1, <1>4, <1>6 DEF LatestCode, Checks
<1>7. CASE ClaimAttempt(r)
  BY <1>1, <1>4, <1>7 DEF ClaimAttempt, Checks
<1>8. CASE RecordFailure(r)
  BY <1>1, <1>4, <1>8 DEF RecordFailure, Checks
<1>9. CASE ExhaustCode(r) \/ UseCode(r) \/ GiveBack(r)
  BY <1>1, <1>4, <1>9 DEF ExhaustCode, UseCode, GiveBack
<1>. QED  BY <1>2, <1>3, <1>5, <1>6, <1>7, <1>8, <1>9 DEF CodeStep

\* Neither a credential change nor time adds an ask.
LEMMA MailStep ==
    ASSUME CodesInv, MailInv, CodesNext
    PROVE  MailInv'
<1>1. CASE VoidPending \/ CodesTick
  <2>1. clock \in Nat
    BY DEF CodesInv, CodesTypeOK
  <2>. QED  BY <1>1, <2>1, MailFewer DEF VoidPending, CodesTick
<1>. QED  BY <1>1, AskRequest DEF CodesNext

\* The requests that passed the day's cap and may still count a wrong guess.
StillGuessing == {r \in CodeRequests : check[r].pc \in {"lookup", "claim", "record"}}

DailyInv == Failures(clock) + Cardinality(StillGuessing) <= CodeDailyCap - 1 + Cardinality(CodeRequests)

\* A day's wrong guesses are finitely many: codes and their attempts are.
LEMMA WrongFinite ==
    ASSUME CodesInv, GuessInv, NEW at
    PROVE  IsFiniteSet(WrongGuesses(at)) /\ Failures(at) \in Nat
<1>1. MaxCodes \in Nat /\ CodeMaxAttempts \in Nat
  BY CodeConstants
<1>2. IsFiniteSet(Ids \X (1 .. CodeMaxAttempts))
  <2>1. IsFiniteSet(1 .. MaxCodes) /\ IsFiniteSet(1 .. CodeMaxAttempts)
    BY <1>1, FS_Interval
  <2>. QED  BY <2>1, FS_Product DEF Ids
<1>3. WrongGuesses(at) \subseteq Ids \X (1 .. CodeMaxAttempts)
  <2>1. ASSUME NEW i \in Issued
        PROVE  i \in Ids /\ 1 .. codes[i].failed \subseteq 1 .. CodeMaxAttempts
    <3>1. /\ codes[i].failed \in Nat /\ codes[i].attempts \in Nat
          /\ codes[i].attempts <= CodeMaxAttempts
          /\ codes[i].failed + Cardinality(Guessing(i)) <= codes[i].attempts
          /\ i \in Ids /\ Cardinality(Guessing(i)) \in Nat
      BY GuessingFinite DEF CodesInv, CodesTypeOK, CodeRows, GuessInv
    <3>2. codes[i].failed <= CodeMaxAttempts
      BY <1>1, <3>1
    <3>. QED  BY <1>1, <3>1, <3>2
  <2>2. ASSUME NEW g \in WrongGuesses(at)
        PROVE  g \in Ids \X (1 .. CodeMaxAttempts)
    <3>1. PICK i \in Issued : g \in {i} \X (1 .. codes[i].failed)
      BY <2>2 DEF WrongGuesses, RecentRows
    <3>. QED  BY <2>1, <3>1
  <2>. QED  BY <2>2
<1>. QED  BY <1>2, <1>3, FS_Subset, FS_CardinalityType DEF Failures

\* The requests still guessing are finitely many.
LEMMA StillFinite ==
    /\ IsFiniteSet(StillGuessing) /\ Cardinality(StillGuessing) \in Nat
    /\ Cardinality(StillGuessing) <= Cardinality(CodeRequests)
    /\ IsFiniteSet(StillGuessing') /\ Cardinality(StillGuessing') \in Nat
    /\ Cardinality(StillGuessing') <= Cardinality(CodeRequests)
    /\ Cardinality(CodeRequests) \in Nat
    /\ StillGuessing' \subseteq StillGuessing
         => Cardinality(StillGuessing') <= Cardinality(StillGuessing)
<1>1. StillGuessing \subseteq CodeRequests /\ StillGuessing' \subseteq CodeRequests
  BY DEF StillGuessing
<1>. QED  BY <1>1, CodeConstants, FS_Subset, FS_CardinalityType

\* Where no wrong guess is added and nobody starts to guess, the cap holds on.
LEMMA NoMoreWrong ==
    ASSUME CodesInv, GuessInv, DailyInv, clock \in Nat, clock' \in Nat, clock <= clock',
           StillGuessing' \subseteq StillGuessing,
           \A i \in Issued' :
              /\ codes'[i].made \in Nat
              /\ \/ codes'[i].failed = 0
                 \/ i \in Issued /\ codes'[i].failed = codes[i].failed
                                 /\ codes'[i].made = codes[i].made
    PROVE  DailyInv'
<1>1. CodeDailyCap \in Nat /\ Day \in Nat
  BY CodeConstants
<1>2. WrongGuesses(clock)' \subseteq WrongGuesses(clock)
  <2>1. ASSUME NEW g \in WrongGuesses(clock)'
        PROVE  g \in WrongGuesses(clock)
    <3>1. PICK i \in Issued' : codes'[i].made >= clock' - Day
                               /\ g \in {i} \X (1 .. codes'[i].failed)
      BY <2>1 DEF WrongGuesses, RecentRows
    <3>2. codes'[i].failed # 0
      BY <3>1
    <3>3. i \in Issued /\ codes'[i].failed = codes[i].failed /\ codes'[i].made = codes[i].made
          /\ codes'[i].made \in Nat
      BY <3>2
    <3>4. codes[i].made >= clock - Day
      BY <1>1, <3>1, <3>3
    <3>. QED  BY <3>1, <3>3, <3>4 DEF WrongGuesses, RecentRows
  <2>. QED  BY <2>1
<1>3. /\ Failures(clock) \in Nat /\ Failures(clock)' \in Nat /\ Failures(clock)' <= Failures(clock)
  BY <1>2, WrongFinite, FS_Subset, FS_CardinalityType DEF Failures
<1>. QED  BY <1>1, <1>3, StillFinite DEF DailyInv

\* A wrong guess is counted by a request that stops guessing.
LEMMA WrongCounted ==
    ASSUME CodesInv, GuessInv, DailyInv, NEW r \in CodeRequests, RecordFailure(r)
    PROVE  DailyInv'
<1>1. /\ check \in [CodeRequests -> Checks] /\ CheckFits(check[r])
      /\ \A i \in Issued : codes[i] \in CodeRows
  BY DEF CodesInv, CodesTypeOK
<1>. PICK i \in Issued : i = check[r].code
  BY <1>1 DEF RecordFailure, CheckFits, CodeOnPCs
<1>2. StillGuessing' = StillGuessing \ {r} /\ r \in StillGuessing
  <2>1. /\ check[r].pc = "record" /\ check'[r].pc \in {"exhaust", "idle"}
        /\ \A p \in CodeRequests \ {r} : check'[p] = check[p]
    BY <1>1, CodeFresh DEF RecordFailure, Checks
  <2>. QED  BY <2>1 DEF StillGuessing
<1>3. Cardinality(StillGuessing') = Cardinality(StillGuessing) - 1
  BY <1>2, StillFinite, FS_RemoveElement
<1>4. /\ DOMAIN codes' = DOMAIN codes /\ clock' = clock
      /\ codes'[i].made = codes[i].made /\ codes'[i].failed = codes[i].failed + 1
      /\ codes[i].failed \in Nat /\ \A j \in Issued \ {i} : codes'[j] = codes[j]
  BY <1>1 DEF RecordFailure, CodeRows, Issued
<1>. DEFINE g == <<i, codes[i].failed + 1>>
            W == WrongGuesses(clock)
<1>5. WrongGuesses(clock)' \subseteq W \cup {g}
  <2>1. ASSUME NEW h \in WrongGuesses(clock)'
        PROVE  h \in W \cup {g}
    <3>1. PICK j \in Issued : codes'[j].made >= clock - Day
                              /\ h \in {j} \X (1 .. codes'[j].failed)
      BY <1>4, <2>1 DEF WrongGuesses, RecentRows, Issued
    <3>2. CASE j # i
      BY <1>4, <3>1, <3>2 DEF WrongGuesses, RecentRows
    <3>3. CASE j = i
      <4>1. PICK k \in 1 .. codes[i].failed + 1 : h = <<i, k>>
        BY <1>4, <3>1, <3>3
      <4>2. CASE k = codes[i].failed + 1
        BY <4>1, <4>2
      <4>3. CASE k \in 1 .. codes[i].failed
        BY <1>4, <3>1, <3>3, <4>1, <4>3 DEF WrongGuesses, RecentRows
      <4>. QED  BY <1>4, <4>1, <4>2, <4>3
    <3>. QED  BY <3>2, <3>3
  <2>. QED  BY <2>1
<1>6. IsFiniteSet(W) /\ Cardinality(W) \in Nat
  BY WrongFinite DEF Failures
<1>. HIDE DEF W, g
<1>7. IsFiniteSet(W \cup {g}) /\ Cardinality(W \cup {g}) <= Cardinality(W) + 1
      /\ Cardinality(W \cup {g}) \in Nat
  <2>1. CASE g \in W
    <3>1. W \cup {g} = W
      BY <2>1
    <3>2. Cardinality(W \cup {g}) = Cardinality(W) /\ IsFiniteSet(W \cup {g})
      BY <1>6, <3>1
    <3>. QED  BY <1>6, <3>2
  <2>2. CASE g \notin W
    BY <1>6, <2>2, FS_AddElement
  <2>. QED  BY <2>1, <2>2
<1>8. Failures(clock)' \in Nat /\ Failures(clock)' <= Failures(clock) + 1 /\ Failures(clock) \in Nat
  <2>1. /\ Cardinality(WrongGuesses(clock)') \in Nat
        /\ Cardinality(WrongGuesses(clock)') <= Cardinality(W \cup {g})
    BY <1>5, <1>7, FS_Subset, FS_CardinalityType
  <2>. QED  BY <1>6, <1>7, <2>1 DEF Failures, W
<1>9. CodeDailyCap \in Nat
  BY CodeConstants
<1>. QED  BY <1>3, <1>8, <1>9, StillFinite DEF DailyInv

\* Whatever happens, a wrong guess was below the cap when it was let in, but
\* for those that were let in before it.
LEMMA DailyStep ==
    ASSUME CodesInv, GuessInv, DailyInv, CodesNext
    PROVE  DailyInv'
<1>0. /\ check \in [CodeRequests -> Checks] /\ clock \in Nat
      /\ \A i \in Issued : codes[i] \in CodeRows
      /\ \A q \in CodeRequests : CheckFits(check[q])
      /\ NoCheck.pc = "idle"
  BY CodeFresh DEF CodesInv, CodesTypeOK
<1>1. \A i \in Issued : codes[i].made \in Nat
  BY <1>0 DEF CodeRows
<1>2. CASE VoidPending
  <2>1. /\ Issued' = Issued /\ clock' = clock /\ StillGuessing' = StillGuessing
        /\ \A i \in Issued : codes'[i].failed = codes[i].failed /\ codes'[i].made = codes[i].made
    BY <1>0, <1>2 DEF VoidPending, Issued, CodeRows, StillGuessing
  <2>. QED  BY <1>0, <1>1, <2>1, NoMoreWrong
<1>3. CASE CodesTick
  <2>1. /\ codes' = codes /\ Issued' = Issued /\ clock' = clock + 1 /\ StillGuessing' = StillGuessing
    BY <1>3 DEF CodesTick, Issued, StillGuessing
  <2>. QED  BY <1>0, <1>1, <2>1, NoMoreWrong
<1>4. ASSUME NEW r \in CodeRequests, CodeStep(r)
      PROVE  DailyInv'
  <2>1. ASSUME NEW net \in Networks, NEW to \in Addresses, AskCode(r, net, to)
        PROVE  DailyInv'
    <3>1. /\ check'[r].pc = "issue" /\ \A p \in CodeRequests \ {r} : check'[p] = check[p]
          /\ codes' = codes /\ Issued' = Issued /\ clock' = clock
      BY <1>0, <2>1 DEF AskCode, Checks, Issued
    <3>2. StillGuessing' \subseteq StillGuessing
      BY <3>1 DEF StillGuessing
    <3>. QED  BY <1>0, <1>1, <3>1, <3>2, NoMoreWrong
  <2>2. CASE IssueCode(r)
    <3>1. /\ check'[r] = NoCheck /\ \A p \in CodeRequests \ {r} : check'[p] = check[p]
          /\ clock' = clock
      BY <1>0, <2>2 DEF IssueCode
    <3>2. StillGuessing' \subseteq StillGuessing
      BY <1>0, <3>1 DEF StillGuessing
    <3>3. \A i \in Issued' :
             /\ codes'[i].made \in Nat
             /\ \/ codes'[i].failed = 0
                \/ i \in Issued /\ codes'[i].failed = codes[i].failed
                                /\ codes'[i].made = codes[i].made
      <4>1. CASE codes' = codes
        BY <1>1, <4>1 DEF Issued
      <4>2. CASE codes' # codes
        <5>1. check[r].ask.when \in Nat
          BY <1>0, <2>2 DEF IssueCode, CheckFits
        <5>2. codes' = [i \in 1 .. Cardinality(Issued) + 1 |->
                IF i \in Issued THEN [codes[i] EXCEPT !.live = FALSE]
                ELSE [live |-> TRUE, attempts |-> 0, failed |-> 0,
                      to |-> check[r].ask.to, made |-> check[r].ask.when,
                      expires |-> check[r].ask.when + CodeLife]]
          BY <2>2, <4>2 DEF IssueCode
        <5>3. ASSUME NEW i \in Issued', i \in Issued
              PROVE  codes'[i].failed = codes[i].failed /\ codes'[i].made = codes[i].made
          <6>1. codes'[i] = [codes[i] EXCEPT !.live = FALSE]
            BY <5>2, <5>3 DEF Issued
          <6>. QED  BY <1>0, <5>3, <6>1 DEF CodeRows
        <5>4. ASSUME NEW i \in Issued', i \notin Issued
              PROVE  codes'[i].failed = 0 /\ codes'[i].made = check[r].ask.when
          BY <5>2, <5>4 DEF Issued
        <5>. QED  BY <1>1, <5>1, <5>3, <5>4
      <4>. QED  BY <4>1, <4>2
    <3>. QED  BY <1>0, <3>1, <3>2, <3>3, NoMoreWrong
  <2>3. ASSUME NEW typed \in Ids \cup {0}, CheckCode(r, typed)
        PROVE  DailyInv'
    <3>1. Failures(clock) < CodeDailyCap /\ codes' = codes /\ clock' = clock
      BY <2>3 DEF CheckCode, BelowDailyCap
    <3>2. Failures(clock)' = Failures(clock)
      BY <3>1 DEF Failures, WrongGuesses, RecentRows, Issued
    <3>3. CodeDailyCap \in Nat /\ Failures(clock) \in Nat
      BY CodeConstants, WrongFinite
    <3>. QED  BY <3>1, <3>2, <3>3, StillFinite DEF DailyInv
  <2>4. CASE LatestCode(r)
    <3>1. /\ check[r].pc = "lookup" /\ \A p \in CodeRequests \ {r} : check'[p] = check[p]
          /\ codes' = codes /\ Issued' = Issued /\ clock' = clock
      BY <1>0, <2>4 DEF LatestCode, Issued
    <3>2. StillGuessing' \subseteq StillGuessing
      BY <3>1 DEF StillGuessing
    <3>. QED  BY <1>0, <1>1, <3>1, <3>2, NoMoreWrong
  <2>5. CASE RecordFailure(r)
    BY <2>5, WrongCounted
  <2>6. CASE ClaimAttempt(r) \/ ExhaustCode(r) \/ UseCode(r) \/ GiveBack(r)
    <3>0. PICK i \in Issued : i = check[r].code
      BY <1>0, <2>6 DEF ClaimAttempt, ExhaustCode, UseCode, GiveBack, CheckFits, CodeOnPCs
    <3>1. /\ \A p \in CodeRequests \ {r} : check'[p] = check[p]
          /\ clock' = clock /\ Issued' = Issued
          /\ check[r].pc = "claim" \/ check'[r].pc = "idle"
      BY <1>0, <2>6 DEF ClaimAttempt, ExhaustCode, UseCode, GiveBack, Issued
    <3>2. StillGuessing' \subseteq StillGuessing
      BY <3>1 DEF StillGuessing
    <3>3. \A j \in Issued : codes'[j].failed = codes[j].failed /\ codes'[j].made = codes[j].made
      <4>1. CASE ClaimAttempt(r)
        BY <1>0, <3>0, <4>1 DEF ClaimAttempt, CodeRows, Issued
      <4>2. CASE ExhaustCode(r)
        BY <1>0, <3>0, <4>2 DEF ExhaustCode, CodeRows, Issued
      <4>3. CASE UseCode(r)
        BY <1>0, <3>0, <4>3 DEF UseCode, CodeRows, Issued
      <4>4. CASE GiveBack(r)
        BY <1>0, <3>0, <4>4 DEF GiveBack, CodeRows, Issued
      <4>. QED  BY <2>6, <4>1, <4>2, <4>3, <4>4
    <3>. QED  BY <1>0, <1>1, <3>1, <3>2, <3>3, NoMoreWrong
  <2>. QED  BY <1>4, <2>1, <2>2, <2>3, <2>4, <2>5, <2>6 DEF CodeStep
<1>. QED  BY <1>2, <1>3, <1>4 DEF CodesNext

CodesSafe == CodesInv /\ GuessInv /\ MailInv /\ DailyInv

\* At the start nothing was asked or guessed.
LEMMA CodesSafeInit ==
    ASSUME CodesInit
    PROVE  CodesSafe
<1>1. Issued = {} /\ asked = <<>> /\ \A r \in CodeRequests : check[r].pc = "idle"
  BY CodeFresh DEF CodesInit, Issued
<1>2. \A net : RecentAsks(clock) = {} /\ AsksFrom(net) = {} /\ Cardinality({}) = 0
  BY <1>1, FS_EmptySet DEF RecentAsks, AsksFrom
<1>3. MailAllowance
  BY <1>2, CodeConstants DEF MailAllowance
<1>4. MailInv
  BY <1>1, <1>3 DEF MailInv
<1>5. DailyInv
  <2>1. WrongGuesses(clock) = {} /\ StillGuessing = {}
    BY <1>1 DEF WrongGuesses, RecentRows, StillGuessing
  <2>. QED  BY <2>1, FS_EmptySet, StillFinite, CodeConstants DEF DailyInv, Failures
<1>. QED  BY <1>1, <1>4, <1>5, CodesStart DEF CodesSafe, GuessInv

\* Every step keeps all of it.
LEMMA CodesSafeStep ==
    ASSUME CodesSafe, [CodesNext]_codesVars
    PROVE  CodesSafe'
<1>1. CASE UNCHANGED codesVars
  BY <1>1 DEF codesVars, CodesSafe, CodesInv, CodesTypeOK, CheckFits, CodeFits, Issued,
     GuessInv, Guessing, MailInv, MailAllowance, RecentAsks, AsksFrom, DailyInv,
     StillGuessing, Failures, WrongGuesses, RecentRows
<1>. QED  BY <1>1, CodesStep, GuessStep, MailStep, DailyStep DEF CodesSafe

\* A code lets one request through, no code takes more wrong guesses than its
\* attempts, and a day's mails stay within the allowances of the account and
\* of each network, however many requests check, give back and ask at once
\* (consume_code, claim_code_attempt, create_code).
THEOREM CodesAreLimited == CodesSpec => []CodeLimits
<1>1. CodesSafe => CodeLimits
  <2>1. ASSUME CodesSafe, NEW i \in Issued
        PROVE  accepted[i] <= 1 /\ codes[i].failed <= CodeMaxAttempts
    <3>1. /\ codes[i].failed \in Nat /\ codes[i].attempts \in Nat
          /\ codes[i].attempts <= CodeMaxAttempts
          /\ codes[i].failed + Cardinality(Guessing(i)) <= codes[i].attempts
      BY <2>1 DEF CodesSafe, CodesInv, CodesTypeOK, CodeRows, GuessInv
    <3>. QED  BY <2>1, <3>1, GuessingFinite, CodeConstants DEF CodesSafe, CodesInv, CodeFits
  <2>. QED  BY <2>1 DEF CodeLimits, CodeUsedOnce, GuessesPerCode, CodesSafe, MailInv
<1>. QED  BY CodesSafeInit, CodesSafeStep, <1>1, PTL DEF CodesSpec

\* Fresh codes bring no fresh guesses: the wrong guesses of a day stay below
\* the cap, but for the requests that had passed it already (check_code).
THEOREM DailyCapHolds == CodesSpec => []DailyGuesses
<1>1. CodesSafe => DailyGuesses
  <2>1. ASSUME CodesSafe
        PROVE  Failures(clock) <= CodeDailyCap - 1 + Cardinality(CodeRequests)
    <3>1. Failures(clock) \in Nat
      BY <2>1, WrongFinite DEF CodesSafe
    <3>2. CodeDailyCap \in Nat
      BY CodeConstants
    <3>. QED  BY <2>1, <3>1, <3>2, StillFinite DEF CodesSafe, DailyInv
  <2>. QED  BY <2>1 DEF DailyGuesses
<1>. QED  BY CodesSafeInit, CodesSafeStep, <1>1, PTL DEF CodesSpec

\* Asking again replaces a live code of the same address only in the second
\* half of its life, whoever asks (send_code).
THEOREM AskingKeeps == CodesSpec => AskingKeepsCode
<1>1. ASSUME CodesInv, CodesNext, NEW r \in CodeRequests, NEW i \in Issued,
             check[r].pc = "issue", check'[r].pc = "idle", codes[i].live,
             codes[i].to = check[r].ask.to, ~codes'[i].live
      PROVE  codes[i].expires < check[r].ask.when + CodeLife \div 2
  <2>1. check \in [CodeRequests -> Checks]
    BY <1>1 DEF CodesInv, CodesTypeOK
  <2>2. CASE IssueCode(r)
    <3>1. ~Resendable(codes[i], check[r].ask.to, check[r].ask.when)
      BY <1>1, <2>2 DEF IssueCode
    <3>2. codes[i].expires \in Nat /\ check[r].ask.when \in Nat /\ CodeLife \div 2 \in Int
      <4>1. check[r].ask \in [when : Nat, net : Networks, to : Addresses]
        BY <1>1 DEF CodesInv, CheckFits
      <4>. QED  BY <1>1, <4>1, CodeConstants DEF CodesInv, CodesTypeOK, CodeRows
    <3>. QED  BY <1>1, <3>1, <3>2 DEF Resendable
  <2>3. CASE ~IssueCode(r)
    <3>1. check'[r] = check[r]
      <4>1. ASSUME NEW p \in CodeRequests, CodeStep(p)
            PROVE  check'[r] = check[r]
        <5>1. p # r
          BY <1>1, <2>3, <4>1 DEF CodeStep, AskCode, CheckCode, LatestCode, ClaimAttempt,
             RecordFailure, ExhaustCode, UseCode, GiveBack
        <5>. QED  BY <2>1, <4>1, <5>1 DEF CodeStep, AskCode, IssueCode, CheckCode,
             LatestCode, ClaimAttempt, RecordFailure, ExhaustCode, UseCode, GiveBack
      <4>. QED  BY <1>1, <4>1 DEF CodesNext, VoidPending, CodesTick
    <3>. QED  BY <1>1, <3>1
  <2>. QED  BY <2>2, <2>3
<1>2. CodesSafe /\ [CodesNext]_codesVars =>
        [\A r \in CodeRequests, i \in Issued :
          check[r].pc = "issue" /\ check'[r].pc = "idle"
            /\ codes[i].live /\ codes[i].to = check[r].ask.to
            /\ ~codes'[i].live
          => codes[i].expires < check[r].ask.when + CodeLife \div 2]_codesVars
  BY <1>1 DEF CodesSafe
<1>. QED  BY CodesSafeInit, CodesSafeStep, <1>2, PTL DEF CodesSpec, AskingKeepsCode

-----------------------------------------------------------------------------
(* Confirmations. *)

\* The requests that answered right and have not given their check back.
Returning(k) ==
    {r \in ConfirmRequests :
       confirm[r].pc = "right" /\ KindOf(Head(confirm[r].needs)) = k}

\* What is left of an action's needs is the needs of an action.
LEMMA NeedsType ==
    /\ NotConfirming \in Confirming
    /\ \A need : KindOf(need) \in Kinds
    /\ \A needs \in ConfirmActs : Len(needs) # 1 => Tail(needs) \in ConfirmActs
<1>1. NotConfirming \in Confirming
  BY DEF NotConfirming, Confirming, ConfirmPCs
<1>2. \A need : KindOf(need) \in Kinds
  BY DEF KindOf, Kinds
<1>3. ConfirmActs = {<<"proof", "factor">>, <<"factor">>, <<"proof">>, <<"pending">>}
  BY DEF ConfirmActs, EmailChangeNeeds, DeletionNeeds, DisableNeeds,
     RecoveryCodesNeed, PasswordChangeNeeds, SetupNeeds, LinkNeeds, UnlinkNeeds, EnableNeeds
<1>4. Len(<<"factor">>) = 1 /\ Len(<<"proof">>) = 1 /\ Len(<<"pending">>) = 1
  OBVIOUS
<1>5. Tail(<<"proof", "factor">>) = <<"factor">>
  OBVIOUS
<1>6. ASSUME NEW needs \in ConfirmActs, Len(needs) # 1
      PROVE  Tail(needs) \in ConfirmActs
  <2>1. needs = <<"proof", "factor">>
    BY <1>3, <1>4, <1>6
  <2>. QED  BY <1>3, <1>5, <2>1
<1>. QED  BY <1>1, <1>2, <1>6

\* A request under way has needs, and no window counts more than it may.
ConfirmInv ==
    /\ ConfirmTypeOK
    /\ \A r \in ConfirmRequests : confirm[r].pc # "idle" => confirm[r].needs \in ConfirmActs
    /\ \A k \in Kinds : window[k].failures <= MaxFailed

\* The wrong answers of a window and the right ones not given back are in its
\* count, but for what requests of an earlier window may still give back.
WrongInv ==
    \A k \in Kinds :
       /\ ConfirmRequests # {} =>
             wrong[k] + Cardinality(Returning(k))
               <= window[k].failures + Cardinality(ConfirmRequests) - 1
       /\ ConfirmRequests = {} => wrong[k] = 0
       /\ losses = 0 => window[k].failures <= wrong[k] + Cardinality(Returning(k))

ConfirmSafe == ConfirmInv /\ WrongInv /\ SignedOutAtLimit

\* What the requests, the windows and the totals are.
LEMMA ConfirmTyped ==
    ASSUME ConfirmInv
    PROVE  /\ today \in Nat /\ total \in Totals /\ losses \in Nat
           /\ confirm \in [ConfirmRequests -> Confirming]
           /\ window \in [Kinds -> Windows] /\ wrong \in [Kinds -> Nat]
           /\ \A k \in Kinds : /\ window[k].since \in Nat /\ window[k].failures \in 0 .. MaxFailed
                              /\ wrong[k] \in Nat
BY ConfirmConstants DEF ConfirmInv, ConfirmTypeOK, Windows

\* The requests giving back are finitely many, and not all that there are
\* while one of them is doing something else.
LEMMA ReturningFinite ==
    ASSUME NEW k
    PROVE  /\ IsFiniteSet(Returning(k)) /\ Cardinality(Returning(k)) \in Nat
           /\ IsFiniteSet(Returning(k)') /\ Cardinality(Returning(k)') \in Nat
           /\ Returning(k)' \subseteq Returning(k)
                => Cardinality(Returning(k)') <= Cardinality(Returning(k))
           /\ Cardinality(ConfirmRequests) \in Nat
           /\ \A r \in ConfirmRequests \ Returning(k) :
                 Cardinality(Returning(k)) <= Cardinality(ConfirmRequests) - 1
<1>1. Returning(k) \subseteq ConfirmRequests /\ Returning(k)' \subseteq ConfirmRequests
  BY DEF Returning
<1>2. ASSUME NEW r \in ConfirmRequests \ Returning(k)
      PROVE  Cardinality(Returning(k)) <= Cardinality(ConfirmRequests) - 1
  <2>1. Returning(k) \subseteq ConfirmRequests \ {r}
    BY <1>1
  <2>2. /\ IsFiniteSet(ConfirmRequests \ {r})
        /\ Cardinality(ConfirmRequests \ {r}) = Cardinality(ConfirmRequests) - 1
    BY ConfirmConstants, FS_RemoveElement
  <2>. QED  BY <2>1, <2>2, FS_Subset
<1>. QED  BY <1>1, <1>2, ConfirmConstants, FS_Subset, FS_CardinalityType

\* A check is claimed: the window has room for it.
LEMMA CheckClaimed ==
    ASSUME ConfirmSafe, NEW r \in ConfirmRequests, NEW right \in BOOLEAN,
           ClaimCheck(r, right)
    PROVE  ConfirmSafe'
<1>1. confirm[r] \in Confirming /\ confirm[r].needs \in ConfirmActs
  BY ConfirmTyped DEF ConfirmSafe, ConfirmInv, ClaimCheck
<1>. DEFINE k == KindOf(Head(confirm[r].needs))
<1>2. k \in Kinds
  BY NeedsType
<1>3. CASE ~MayClaim(window[k])
  <2>1. confirm' = [confirm EXCEPT ![r] = NotConfirming] /\ UNCHANGED <<window, wrong>>
    BY <1>3 DEF ClaimCheck
  <2>2. /\ confirm' \in [ConfirmRequests -> Confirming]
        /\ \A p \in ConfirmRequests : confirm'[p] \in {confirm[p], NotConfirming}
        /\ confirm'[r] = NotConfirming
    BY <2>1, NeedsType, ConfirmTyped DEF ConfirmSafe
  <2>3. ConfirmInv'
    BY <2>1, <2>2 DEF ClaimCheck, ConfirmSafe, ConfirmInv, ConfirmTypeOK, NotConfirming
  <2>4. \A j \in Kinds : Returning(j)' = Returning(j)
    BY <2>1, ConfirmTyped DEF ClaimCheck, Returning, NotConfirming, ConfirmSafe
  <2>5. WrongInv'
    BY <2>1, <2>4 DEF ClaimCheck, ConfirmSafe, WrongInv
  <2>6. SignedOutAtLimit'
    BY <2>1, ConfirmTyped DEF ClaimCheck, ConfirmSafe, SignedOutAtLimit, NotConfirming
  <2>. QED  BY <2>3, <2>5, <2>6 DEF ConfirmSafe
<1>4. CASE MayClaim(window[k])
  <2>. DEFINE q == [confirm[r] EXCEPT !.pc = IF right THEN "right" ELSE "wrong"]
              old == IF window[k].since + WindowLife <= today THEN 0 ELSE wrong[k]
              one == IF right THEN 0 ELSE 1
  <2>1. /\ window' = [window EXCEPT ![k] = Claimed(window[k])]
        /\ wrong' = [wrong EXCEPT ![k] = old + one]
        /\ confirm' = [confirm EXCEPT ![r] = q]
        /\ confirm[r].pc = "claim" /\ UNCHANGED <<today, total, signedOut, losses>>
    BY <1>1, <1>4, ConfirmTyped DEF ClaimCheck, ConfirmSafe
  <2>2. q \in Confirming /\ q.needs = confirm[r].needs
        /\ q.pc = IF right THEN "right" ELSE "wrong"
    BY <1>1 DEF Confirming, ConfirmPCs
  <2>. HIDE DEF q
  <2>3. /\ Claimed(window[k]) \in Windows
        /\ Claimed(window[k]).failures <= MaxFailed
        /\ \/ WindowOver(window[k]) /\ Claimed(window[k]).failures = 1
           \/ ~WindowOver(window[k]) /\ Claimed(window[k]).failures = window[k].failures + 1
    BY <1>2, <1>4, ConfirmTyped, ConfirmConstants
    DEF ConfirmSafe, Claimed, MayClaim, Windows
  <2>4. old \in Nat /\ one \in {0, 1}
    BY <1>2, ConfirmTyped DEF ConfirmSafe
  <2>5. ConfirmInv'
    <3>1. ConfirmTypeOK'
      BY <1>2, <2>1, <2>2, <2>3, <2>4, ConfirmTyped DEF ConfirmSafe, ConfirmInv, ConfirmTypeOK
    <3>. QED  BY <1>1, <1>2, <2>1, <2>2, <2>3, <3>1, ConfirmTyped DEF ConfirmSafe, ConfirmInv
  <2>6. WrongInv'
    <3>1. r \notin Returning(k)
      BY <2>1 DEF Returning
    <3>2. \A j \in Kinds \ {k} : Returning(j)' = Returning(j)
      BY <2>1, <2>2, ConfirmTyped DEF Returning, ConfirmSafe
    <3>. PICK kk \in Kinds : kk = k
      BY <1>2
    <3>. HIDE DEF k
    <3>3. Returning(kk)' = IF right THEN Returning(kk) \cup {r} ELSE Returning(kk)
      BY <2>1, <2>2, ConfirmTyped DEF Returning, ConfirmSafe, k
    <3>4. Cardinality(Returning(kk)') = Cardinality(Returning(kk)) + 1 - one
      <4>1. CASE right
        <5>1. Returning(kk)' = Returning(kk) \cup {r} /\ r \notin Returning(kk) /\ one = 0
          BY <3>1, <3>3, <4>1
        <5>2. Cardinality(Returning(kk) \cup {r}) = Cardinality(Returning(kk)) + 1
          BY <5>1, ReturningFinite, FS_AddElement
        <5>. QED  BY <5>1, <5>2, ReturningFinite
      <4>2. CASE ~right
        BY <3>3, <4>2, ReturningFinite
      <4>. QED  BY <4>1, <4>2
    <3>5. Cardinality(Returning(kk)) <= Cardinality(ConfirmRequests) - 1
      BY <3>1, ReturningFinite
    <3>6. wrong'[kk] = old + one /\ window'[kk].failures = Claimed(window[k]).failures
      BY <2>1, ConfirmTyped DEF ConfirmSafe
    <3>7. /\ wrong[kk] + Cardinality(Returning(kk))
               <= window[kk].failures + Cardinality(ConfirmRequests) - 1
          /\ losses = 0 => window[kk].failures <= wrong[kk] + Cardinality(Returning(kk))
      BY DEF ConfirmSafe, WrongInv
    <3>8. /\ Cardinality(Returning(kk)) \in Nat /\ Cardinality(ConfirmRequests) \in Nat
          /\ window[kk].failures \in Nat /\ wrong[kk] \in Nat
      BY ReturningFinite, ConfirmTyped DEF ConfirmSafe
    <3>9. /\ wrong'[kk] + Cardinality(Returning(kk)')
               <= window'[kk].failures + Cardinality(ConfirmRequests) - 1
          /\ losses = 0 => window'[kk].failures <= wrong'[kk] + Cardinality(Returning(kk)')
      <4>1. CASE WindowOver(window[k])
        <5>1. old = 0 /\ Claimed(window[k]).failures = 1
          BY <2>3, <4>1 DEF WindowOver
        <5>. QED  BY <2>4, <3>4, <3>5, <3>6, <3>8, <5>1
      <4>2. CASE ~WindowOver(window[k])
        <5>1. old = wrong[kk] /\ Claimed(window[k]).failures = window[kk].failures + 1
          BY <2>3, <4>2 DEF WindowOver
        <5>. QED  BY <2>4, <3>4, <3>6, <3>7, <3>8, <5>1
      <4>. QED  BY <4>1, <4>2
    <3>10. ASSUME NEW j \in Kinds, j # kk
           PROVE  wrong'[j] = wrong[j] /\ window'[j] = window[j] /\ Returning(j)' = Returning(j)
      BY <2>1, <3>2, <3>10
    <3>. QED  BY <2>1, <3>9, <3>10 DEF WrongInv, ConfirmSafe
  <2>7. SignedOutAtLimit'
    BY <2>1, <2>2, ConfirmTyped DEF ConfirmSafe, SignedOutAtLimit
  <2>. QED  BY <2>5, <2>6, <2>7 DEF ConfirmSafe
<1>. QED  BY <1>3, <1>4

\* A right answer is given back, once, to whatever window there is.
LEMMA CheckReturned ==
    ASSUME ConfirmSafe, NEW r \in ConfirmRequests, CheckRight(r)
    PROVE  ConfirmSafe'
<1>. DEFINE needs == confirm[r].needs
            k == KindOf(Head(needs))
            q == IF Len(needs) = 1 THEN NotConfirming
                 ELSE [confirm[r] EXCEPT !.pc = "claim", !.needs = Tail(needs)]
<1>1. confirm[r] \in Confirming /\ needs \in ConfirmActs /\ k \in Kinds
  BY ConfirmTyped, NeedsType DEF ConfirmSafe, ConfirmInv, CheckRight
<1>2. /\ window' = [window EXCEPT ![k] = Released(window[k])]
      /\ confirm' = [confirm EXCEPT ![r] = q]
      /\ confirm[r].pc = "right" /\ UNCHANGED <<today, total, wrong, signedOut, losses>>
  BY <1>1, ConfirmTyped DEF CheckRight, ConfirmSafe
<1>3. /\ q \in Confirming /\ q.pc \in {"idle", "claim"}
      /\ q.pc # "idle" => q.needs \in ConfirmActs
  <2>1. CASE Len(needs) = 1
    BY <2>1, NeedsType DEF NotConfirming
  <2>2. CASE Len(needs) # 1
    BY <1>1, <2>2, NeedsType DEF Confirming, ConfirmPCs
  <2>. QED  BY <2>1, <2>2
<1>. HIDE DEF q
<1>4. /\ Released(window[k]) \in Windows
      /\ Released(window[k]).failures =
           IF window[k].failures > 0 THEN window[k].failures - 1 ELSE 0
  <2>1. window[k] \in Windows /\ (IF window[k].failures > 0 THEN window[k].failures - 1 ELSE 0) \in Nat
    BY <1>1, ConfirmTyped DEF ConfirmSafe
  <2>. QED  BY <2>1 DEF Released, Windows
<1>5. ConfirmInv'
  <2>1. ConfirmTypeOK'
    BY <1>1, <1>2, <1>3, <1>4, ConfirmTyped DEF ConfirmSafe, ConfirmInv, ConfirmTypeOK
  <2>. QED  BY <1>1, <1>2, <1>3, <1>4, <2>1, ConfirmTyped, ConfirmConstants DEF ConfirmSafe, ConfirmInv
<1>6. WrongInv'
  <2>. PICK kk \in Kinds : kk = k
    BY <1>1
  <2>1. r \in Returning(kk)
    BY <1>2 DEF Returning
  <2>2. Returning(kk)' = Returning(kk) \ {r}
    BY <1>2, <1>3, ConfirmTyped DEF Returning, ConfirmSafe
  <2>3. Cardinality(Returning(kk)') = Cardinality(Returning(kk)) - 1
    BY <2>1, <2>2, ReturningFinite, FS_RemoveElement
  <2>4. \A j \in Kinds \ {kk} : Returning(j)' = Returning(j)
    BY <1>2, <1>3, ConfirmTyped DEF Returning, ConfirmSafe
  <2>5. /\ wrong[kk] + Cardinality(Returning(kk))
             <= window[kk].failures + Cardinality(ConfirmRequests) - 1
        /\ losses = 0 => window[kk].failures <= wrong[kk] + Cardinality(Returning(kk))
    BY DEF ConfirmSafe, WrongInv
  <2>6. window'[kk].failures = IF window[kk].failures > 0 THEN window[kk].failures - 1 ELSE 0
    BY <1>2, <1>4, ConfirmTyped DEF ConfirmSafe
  <2>7. /\ Cardinality(Returning(kk)) \in Nat /\ Cardinality(ConfirmRequests) \in Nat
        /\ window[kk].failures \in Nat /\ wrong[kk] \in Nat
        /\ Cardinality(Returning(kk)') \in Nat
    BY ReturningFinite, ConfirmTyped DEF ConfirmSafe
  <2>8. Cardinality(Returning(kk)) <= Cardinality(ConfirmRequests)
    BY ConfirmConstants, FS_Subset DEF Returning
  <2>9. /\ wrong[kk] + Cardinality(Returning(kk)')
             <= window'[kk].failures + Cardinality(ConfirmRequests) - 1
        /\ losses = 0 => window'[kk].failures <= wrong[kk] + Cardinality(Returning(kk)')
    BY <2>3, <2>5, <2>6, <2>7, <2>8
  <2>10. ASSUME NEW j \in Kinds, j # kk
         PROVE  window'[j] = window[j] /\ Returning(j)' = Returning(j)
    BY <1>2, <2>4, <2>10
  <2>. QED  BY <1>2, <2>9, <2>10 DEF WrongInv, ConfirmSafe
<1>7. SignedOutAtLimit'
  BY <1>2, <1>3, ConfirmTyped DEF ConfirmSafe, SignedOutAtLimit
<1>. QED  BY <1>5, <1>6, <1>7 DEF ConfirmSafe

\* A request that does not count in a window any more.
LEMMA WrongFewer ==
    ASSUME ConfirmSafe, UNCHANGED <<window, wrong>>, losses' \in Nat,
           losses' = losses \/ losses' # 0,
           \A k \in Kinds : \/ Returning(k)' = Returning(k)
                            \/ losses' # 0 /\ Returning(k)' \subseteq Returning(k)
    PROVE  WrongInv'
<1>1. ASSUME NEW k \in Kinds
      PROVE  /\ ConfirmRequests # {} =>
                   wrong[k] + Cardinality(Returning(k)')
                     <= window[k].failures + Cardinality(ConfirmRequests) - 1
             /\ ConfirmRequests = {} => wrong[k] = 0
             /\ losses' = 0 => window[k].failures <= wrong[k] + Cardinality(Returning(k)')
  BY ReturningFinite, ConfirmTyped DEF ConfirmSafe, WrongInv
<1>. QED  BY <1>1 DEF WrongInv

\* A wrong answer is recorded, signs the account out, or its request is lost.
LEMMA CheckRecorded ==
    ASSUME ConfirmSafe, NEW r \in ConfirmRequests,
           CheckWrong(r) \/ SignOut(r) \/ LoseRequest(r)
    PROVE  ConfirmSafe'
<1>1. /\ confirm[r] \in Confirming /\ confirm \in [ConfirmRequests -> Confirming]
      /\ total \in Totals /\ today \in Nat /\ losses \in Nat
      /\ NotConfirming \in Confirming /\ NotConfirming.pc = "idle"
  BY ConfirmTyped, NeedsType DEF ConfirmSafe, NotConfirming
<1>2. Counted \in Totals
  BY <1>1 DEF Counted, Totals
<1>3. CASE CheckWrong(r)
  <2>. DEFINE q == [confirm[r] EXCEPT !.pc = "signout", !.day = Counted.since]
  <2>1. /\ q \in Confirming /\ q.pc = "signout" /\ q.needs = confirm[r].needs
        /\ q.day = Counted.since
    BY <1>1, <1>2 DEF Confirming, ConfirmPCs, Totals
  <2>2. \/ confirm' = [confirm EXCEPT ![r] = NotConfirming] /\ total' = total
        \/ /\ confirm' = [confirm EXCEPT ![r] = q] /\ total' = Counted
           /\ Counted.failures = SignOutAt
        \/ /\ confirm' = [confirm EXCEPT ![r] = NotConfirming] /\ total' = Counted
           /\ Counted.failures # SignOutAt
    BY <1>3 DEF CheckWrong, SignOutDue
  <2>3. confirm[r].pc = "wrong" /\ UNCHANGED <<today, window, wrong, signedOut, losses>>
    BY <1>3 DEF CheckWrong
  <2>. HIDE DEF q
  <2>4. ConfirmInv'
    <3>1. ConfirmTypeOK'
      BY <1>1, <1>2, <2>1, <2>2, <2>3 DEF ConfirmSafe, ConfirmInv, ConfirmTypeOK
    <3>. QED  BY <1>1, <2>1, <2>2, <2>3, <3>1 DEF ConfirmSafe, ConfirmInv
  <2>5. \A k \in Kinds : Returning(k)' = Returning(k)
    BY <1>1, <2>1, <2>2, <2>3 DEF Returning
  <2>6. WrongInv'
    BY <1>1, <2>3, <2>5, WrongFewer
  <2>7. SignedOutAtLimit'
    <3>1. CASE total' = total
      BY <1>1, <2>1, <2>2, <2>3, <3>1 DEF ConfirmSafe, SignedOutAtLimit
    <3>2. CASE confirm' = [confirm EXCEPT ![r] = q] /\ total' = Counted
      <4>1. confirm'[r].pc = "signout" /\ confirm'[r].day = total'.since
        BY <1>1, <2>1, <3>2
      <4>. QED  BY <4>1 DEF SignedOutAtLimit
    <3>3. CASE /\ confirm' = [confirm EXCEPT ![r] = NotConfirming] /\ total' = Counted
               /\ Counted.failures # SignOutAt
      <4>2. Counted.failures >= SignOutAt => /\ Counted.since = total.since
                                             /\ total.failures >= SignOutAt
        BY <1>1, <3>3, ConfirmConstants DEF Counted, Totals
      <4>. QED  BY <1>1, <2>3, <3>3, <4>2 DEF ConfirmSafe, SignedOutAtLimit
    <3>. QED  BY <2>2, <3>1, <3>2, <3>3
  <2>. QED  BY <2>4, <2>6, <2>7 DEF ConfirmSafe
<1>4. CASE SignOut(r)
  <2>1. /\ confirm' = [confirm EXCEPT ![r] = NotConfirming] /\ confirm[r].pc = "signout"
        /\ signedOut' = signedOut \cup {confirm[r].day}
        /\ UNCHANGED <<today, window, total, wrong, losses>>
    BY <1>4 DEF SignOut
  <2>2. confirm[r].day \in Nat
    BY <1>1 DEF Confirming
  <2>3. ConfirmInv'
    BY <1>1, <2>1, <2>2 DEF ConfirmSafe, ConfirmInv, ConfirmTypeOK
  <2>4. \A k \in Kinds : Returning(k)' = Returning(k)
    BY <1>1, <2>1 DEF Returning
  <2>5. WrongInv'
    BY <1>1, <2>1, <2>4, WrongFewer
  <2>6. SignedOutAtLimit'
    BY <1>1, <2>1 DEF ConfirmSafe, SignedOutAtLimit
  <2>. QED  BY <2>3, <2>5, <2>6 DEF ConfirmSafe
<1>5. CASE LoseRequest(r)
  <2>1. /\ confirm' = [confirm EXCEPT ![r] = NotConfirming]
        /\ losses' = losses + 1 /\ UNCHANGED <<today, window, total, wrong, signedOut>>
    BY <1>5 DEF LoseRequest
  <2>2. losses' \in Nat /\ losses' # 0
    BY <1>1, <2>1
  <2>3. ConfirmInv'
    BY <1>1, <2>1, <2>2 DEF ConfirmSafe, ConfirmInv, ConfirmTypeOK
  <2>4. \A k \in Kinds : Returning(k)' \subseteq Returning(k)
    BY <1>1, <2>1 DEF Returning
  <2>5. WrongInv'
    BY <1>1, <2>1, <2>2, <2>4, WrongFewer
  <2>6. SignedOutAtLimit'
    BY <2>2 DEF SignedOutAtLimit
  <2>. QED  BY <2>3, <2>5, <2>6 DEF ConfirmSafe
<1>. QED  BY <1>3, <1>4, <1>5

\* A request begins, or time passes.
LEMMA CheckBegun ==
    ASSUME ConfirmSafe,
           ConfirmTick \/ \E r \in ConfirmRequests, act \in ConfirmActs : Confirm(r, act)
    PROVE  ConfirmSafe'
<1>1. /\ confirm \in [ConfirmRequests -> Confirming] /\ losses \in Nat /\ today \in Nat
  BY ConfirmTyped DEF ConfirmSafe
<1>2. CASE ConfirmTick
  <2>1. UNCHANGED <<window, total, confirm, wrong, signedOut, losses>> /\ today' \in Nat
    BY <1>1, <1>2 DEF ConfirmTick
  <2>. QED  BY <2>1 DEF ConfirmSafe, ConfirmInv, ConfirmTypeOK, WrongInv, Returning,
            SignedOutAtLimit
<1>3. ASSUME NEW r \in ConfirmRequests, NEW act \in ConfirmActs, Confirm(r, act)
      PROVE  ConfirmSafe'
  <2>. DEFINE q == [pc |-> "claim", needs |-> act, day |-> 0]
  <2>1. q \in Confirming /\ q.pc = "claim" /\ q.needs = act
    BY DEF Confirming, ConfirmPCs
  <2>2. /\ confirm' = [confirm EXCEPT ![r] = q] /\ confirm[r].pc = "idle"
        /\ UNCHANGED <<today, window, total, wrong, signedOut, losses>>
    BY <1>3 DEF Confirm
  <2>. HIDE DEF q
  <2>3. ConfirmInv'
    BY <1>1, <2>1, <2>2 DEF ConfirmSafe, ConfirmInv, ConfirmTypeOK
  <2>4. \A k \in Kinds : Returning(k)' = Returning(k)
    BY <1>1, <2>1, <2>2 DEF Returning
  <2>5. WrongInv'
    BY <1>1, <2>2, <2>4, WrongFewer
  <2>6. SignedOutAtLimit'
    BY <1>1, <2>1, <2>2 DEF ConfirmSafe, SignedOutAtLimit
  <2>. QED  BY <2>3, <2>5, <2>6 DEF ConfirmSafe
<1>. QED  BY <1>2, <1>3

\* At the start nothing was claimed.
LEMMA ConfirmSafeInit ==
    ASSUME ConfirmInit
    PROVE  ConfirmSafe
<1>1. ConfirmInv
  BY NeedsType, ConfirmConstants DEF ConfirmInit, ConfirmInv, ConfirmTypeOK, Windows,
     Totals, NotConfirming
<1>2. \A k : Returning(k) = {} /\ Cardinality({}) = 0
  BY FS_EmptySet DEF ConfirmInit, Returning, NotConfirming
<1>3. ConfirmRequests # {} => Cardinality(ConfirmRequests) \in Nat \ {0}
  BY ConfirmConstants, FS_EmptySet, FS_CardinalityType
<1>4. WrongInv
  <2>1. losses = 0 /\ \A k \in Kinds : wrong[k] = 0 /\ window[k].failures = 0
    BY DEF ConfirmInit
  <2>2. \A k : Cardinality(Returning(k)) = 0
    BY <1>2
  <2>. QED  BY <1>3, <2>1, <2>2 DEF WrongInv
<1>5. SignedOutAtLimit
  BY ConfirmConstants DEF ConfirmInit, SignedOutAtLimit
<1>. QED  BY <1>1, <1>4, <1>5 DEF ConfirmSafe

\* Every step keeps what the confirmations rest on.
LEMMA ConfirmSafeStep ==
    ASSUME ConfirmSafe, [ConfirmNext]_confirmVars
    PROVE  ConfirmSafe'
<1>1. CASE UNCHANGED confirmVars
  BY <1>1 DEF confirmVars, ConfirmSafe, ConfirmInv, ConfirmTypeOK, WrongInv, Returning,
     SignedOutAtLimit
<1>2. ASSUME NEW r \in ConfirmRequests, ConfirmStep(r)
      PROVE  ConfirmSafe'
  BY <1>2, CheckClaimed, CheckReturned, CheckRecorded, CheckBegun DEF ConfirmStep
<1>. QED  BY <1>1, <1>2, CheckBegun DEF ConfirmNext

\* The type invariant of the confirmations.
THEOREM ConfirmTypes == ConfirmSpec => []ConfirmTypeOK
BY ConfirmSafeInit, ConfirmSafeStep, PTL DEF ConfirmSpec, ConfirmSafe, ConfirmInv

\* The limiters of confirmations hold guesses down, hold nothing against
\* right answers and sign the account out at the day's limit, although a
\* check may be given back to a later window than it was claimed in
\* (claim_second_factor_check, release_second_factor_check,
\* record_reauth_failure).
THEOREM ChecksAreLimited == ConfirmSpec => []CheckLimits
<1>1. ConfirmSafe => CheckLimits
  <2>. SUFFICES ASSUME ConfirmSafe
                PROVE  CheckLimits
    OBVIOUS
  <2>1. ASSUME NEW k \in Kinds
        PROVE  wrong[k] <= MaxFailed + Cardinality(ConfirmRequests) - 1
    <3>1. /\ wrong[k] \in Nat /\ window[k].failures \in 0 .. MaxFailed
          /\ Cardinality(Returning(k)) \in Nat /\ Cardinality(ConfirmRequests) \in Nat
          /\ ConfirmRequests = {} => wrong[k] = 0
          /\ ConfirmRequests # {} =>
                 wrong[k] + Cardinality(Returning(k))
                   <= window[k].failures + Cardinality(ConfirmRequests) - 1
      BY ConfirmTyped, ReturningFinite DEF ConfirmSafe, WrongInv
    <3>. QED  BY <3>1, ConfirmConstants
  <2>2. OwnerNotLimited
    <3>1. ASSUME \A r \in ConfirmRequests : confirm[r].pc \in {"idle", "claim"},
                 NEW k \in Kinds
          PROVE  Cardinality(Returning(k)) = 0
      <4>1. Returning(k) = {}
        BY <3>1 DEF Returning
      <4>. QED  BY <4>1, FS_EmptySet
    <3>. QED  BY <3>1, ConfirmTyped DEF ConfirmSafe, WrongInv, OwnerNotLimited
  <2>. QED  BY <2>1, <2>2 DEF ConfirmSafe, CheckLimits, GuessesPerWindow
<1>. QED  BY ConfirmSafeInit, ConfirmSafeStep, <1>1, PTL DEF ConfirmSpec

-----------------------------------------------------------------------------
(* The locks of the login. *)

\* What division leaves.
LEMMA Split ==
    ASSUME NEW L \in Int, L > 0, NEW n \in Int
    PROVE  n % L = n - L * (n \div L) /\ n % L \in 0 .. L - 1 /\ n \div L \in Int
<1>1. n % L = n - L * (n \div L)
  BY SMTT(30)
<1>. QED  BY <1>1

\* Only the quotient leaves less than the divisor.
LEMMA Quotient ==
    ASSUME NEW L \in Int, L > 0, NEW n \in Int, NEW q \in Int, NEW r \in Int, n = q * L + r, 0 <= r, r < L
    PROVE  q = n \div L
BY SMTT(30)

\* The rest counts up and starts over.
LEMMA NextRest ==
    ASSUME NEW L \in Int, L > 0, NEW n \in Int
    PROVE  IF n % L = L - 1 THEN (n + 1) % L = 0 ELSE (n + 1) % L = (n % L) + 1
<1>. DEFINE q == n \div L
            r == n % L
<1>1. /\ q \in Int /\ r \in 0 .. L - 1 /\ r = n - L * q
  BY Split
<1>2. (n + 1) % L = (n + 1) - L * ((n + 1) \div L)
  BY Split
<1>. HIDE DEF q, r
<1>3. CASE r = L - 1
  <2>1. n + 1 = (q + 1) * L + 0
    BY <1>1, <1>3
  <2>2. q + 1 = (n + 1) \div L
    BY <1>1, <2>1, Quotient
  <2>3. (n + 1) % L = (n + 1) - L * (q + 1)
    BY <1>2, <2>2
  <2>. QED  BY <1>1, <1>3, <2>1, <2>3 DEF r
<1>4. CASE r # L - 1
  <2>1. n + 1 = q * L + (r + 1)
    BY <1>1, <1>4
  <2>2. q = (n + 1) \div L
    BY <1>1, <1>4, <2>1, Quotient
  <2>3. (n + 1) % L = (n + 1) - L * q
    BY <1>2, <2>2
  <2>. QED  BY <1>1, <1>4, <2>1, <2>3 DEF r
<1>. QED  BY <1>3, <1>4

\* Powers of two grow: subsets of a part are subsets of the whole.
LEMMA PowersGrow ==
    ASSUME NEW n \in Nat, NEW m \in Nat, m <= n
    PROVE  2 ^ m \in Nat /\ 2 ^ n \in Nat /\ 1 <= 2 ^ m /\ 2 ^ m <= 2 ^ n
<1>1. \A k \in Nat : IsFiniteSet(1 .. k) /\ Cardinality(1 .. k) = k
  BY FS_Interval
<1>2. \A k \in Nat : IsFiniteSet(SUBSET (1 .. k)) /\ Cardinality(SUBSET (1 .. k)) = 2 ^ k
  BY <1>1, FS_SUBSET
<1>3. SUBSET (1 .. m) \subseteq SUBSET (1 .. n)
  OBVIOUS
<1>4. {{}} \subseteq SUBSET (1 .. m) /\ Cardinality({{}}) = 1
  BY FS_Singleton
<1>5. /\ IsFiniteSet(SUBSET (1 .. m)) /\ Cardinality(SUBSET (1 .. m)) = 2 ^ m
      /\ IsFiniteSet(SUBSET (1 .. n)) /\ Cardinality(SUBSET (1 .. n)) = 2 ^ n
  BY <1>2
<1>6. Cardinality(SUBSET (1 .. m)) <= Cardinality(SUBSET (1 .. n))
  BY <1>3, <1>5, FS_Subset
<1>7. Cardinality({{}}) <= Cardinality(SUBSET (1 .. m))
  BY <1>4, <1>5, FS_Subset
<1>8. Cardinality(SUBSET (1 .. m)) \in Nat /\ Cardinality(SUBSET (1 .. n)) \in Nat
  BY <1>5, FS_CardinalityType
<1>. QED  BY <1>4, <1>5, <1>6, <1>7, <1>8

\* The lock after so many failures lasts at least as long as the window, and
\* a later one at least as long as an earlier one.
LEMMA LocksGrow ==
    ASSUME NEW n \in Nat, n % LockoutThreshold = 0, NEW m \in Nat, m > 0, m <= n,
           m % LockoutThreshold = 0
    PROVE  /\ LockTime(n) \in Nat /\ LockTime(m) \in Nat
           /\ LockTime(m) >= FirstLock /\ LockTime(m) <= LockTime(n)
<1>. DEFINE a == m \div LockoutThreshold - 1
            b == n \div LockoutThreshold - 1
<1>1. a \in Nat /\ b \in Nat /\ a <= b
  <2>1. /\ m \div LockoutThreshold \in Int /\ n \div LockoutThreshold \in Int
        /\ m \div LockoutThreshold <= n \div LockoutThreshold
    BY LockoutConstants
  <2>2. m \div LockoutThreshold >= 1
    BY LockoutConstants
  <2>. QED  BY <2>1, <2>2
<1>2. 2 ^ a \in Nat /\ 2 ^ b \in Nat /\ 1 <= 2 ^ a /\ 2 ^ a <= 2 ^ b
  BY <1>1, PowersGrow
<1>3. ASSUME NEW x \in Nat, NEW y \in Nat, 1 <= x, x <= y
      PROVE  FirstLock <= FirstLock * x /\ FirstLock * x <= FirstLock * y
             /\ FirstLock * x \in Nat /\ FirstLock * y \in Nat
  BY <1>3, LockoutConstants
<1>. HIDE DEF a, b
<1>4. /\ FirstLock <= FirstLock * 2 ^ a /\ FirstLock * 2 ^ a <= FirstLock * 2 ^ b
      /\ FirstLock * 2 ^ a \in Nat /\ FirstLock * 2 ^ b \in Nat
  BY <1>2, <1>3
<1>. QED  BY <1>4, LockoutConstants DEF LockTime, a, b

\* A request that counts or clears knows its network.
NetPCs == {"guess", "own", "count", "reset", "forget"}

LoginFits(q) == q.pc \in NetPCs => q.net \in LoginNetworks

LoginInv ==
    /\ LockoutTypeOK
    /\ \A r \in Logins : LoginFits(login[r])
    /\ everywhere.since <= minute

\* The requests that guessed from a network and have not counted it.
Counting(n) == {r \in Logins : login[r].pc = "count" /\ login[r].net = n}

\* Guesses are counted, or about to be, or lost; a locked network had no more
\* than the requests there are, beyond its threshold.
NetworkOK(n) ==
    IF bucket[n].until > minute
    THEN guessed[n] <= LockoutThreshold - 1 + Cardinality(Logins) + lost
    ELSE guessed[n] <= (bucket[n].failures % LockoutThreshold)
                         + Cardinality(Counting(n)) + lost

\* The account's lock lasts no longer than the next one would.
LockedOK ==
    \/ locked <= minute + FailureWindow
    \/ \E n \in 1 .. factor : /\ n % LockoutThreshold = 0
                             /\ locked <= minute + LockTime(n)

LockSafe ==
    /\ LoginInv /\ CapLocksAccount /\ LockedOK
    /\ \A n \in LoginNetworks : NetworkOK(n)

\* What the requests, the counts and the locks are.
LEMMA LoginTyped ==
    ASSUME LoginInv
    PROVE  /\ minute \in Nat /\ factor \in Nat /\ locked \in Nat /\ lost \in Nat
           /\ cleared \in BOOLEAN
           /\ bucket \in [LoginNetworks -> Buckets] /\ everywhere \in Everywhere
           /\ everywhere.failures \in Nat /\ everywhere.since \in Nat
           /\ login \in [Logins -> Attempts] /\ guessed \in [LoginNetworks -> Nat]
           /\ \A n \in LoginNetworks : /\ bucket[n] \in Buckets /\ guessed[n] \in Nat
                                      /\ bucket[n].failures \in Nat /\ bucket[n].until \in Nat
           /\ NoAttempt \in Attempts /\ NoAttempt.pc = "idle" /\ EmptyBucket \in Buckets
BY DEF LoginInv, LockoutTypeOK, Buckets, Everywhere, NoAttempt, Attempts, LoginPCs, EmptyBucket

\* The requests counting are finitely many, and fewer are not more.
LEMMA CountingFinite ==
    ASSUME NEW n
    PROVE  /\ IsFiniteSet(Counting(n)) /\ Cardinality(Counting(n)) \in Nat
           /\ IsFiniteSet(Counting(n)') /\ Cardinality(Counting(n)') \in Nat
           /\ Cardinality(Counting(n)) <= Cardinality(Logins)
           /\ Cardinality(Counting(n)') <= Cardinality(Logins)
           /\ Cardinality(Logins) \in Nat
<1>1. Counting(n) \subseteq Logins /\ Counting(n)' \subseteq Logins
  BY DEF Counting
<1>. QED  BY <1>1, LockoutConstants, FS_Subset, FS_CardinalityType

\* The network's bound, locked or not.
LEMMA NetworkBound ==
    ASSUME LoginInv, NEW n \in LoginNetworks, NetworkOK(n)
    PROVE  guessed[n] <= LockoutThreshold + Cardinality(Logins) - 1 + lost
<1>1. bucket[n].failures % LockoutThreshold \in 0 .. LockoutThreshold - 1
  BY LoginTyped, Split, LockoutConstants
<1>2. /\ guessed[n] \in Nat /\ lost \in Nat /\ Cardinality(Logins) \in Nat
      /\ Cardinality(Counting(n)) \in Nat /\ Cardinality(Counting(n)) <= Cardinality(Logins)
  BY LoginTyped, CountingFinite
<1>3. CASE bucket[n].until > minute
  BY <1>2, <1>3, LockoutConstants DEF NetworkOK
<1>4. CASE ~(bucket[n].until > minute)
  <2>1. guessed[n] <= (bucket[n].failures % LockoutThreshold) + Cardinality(Counting(n)) + lost
    BY <1>4 DEF NetworkOK
  <2>. QED  BY <1>1, <1>2, <2>1, LockoutConstants
<1>. QED  BY <1>3, <1>4

\* A lock takes effect after the moment it is set.
LEMMA UntilLater ==
    ASSUME LoginInv, NEW n \in Nat, n > 0, NEW before \in Nat
    PROVE  /\ Until(n, before) \in Nat
           /\ n % LockoutThreshold = 0 =>
                 /\ Until(n, before) = minute + LockTime(n)
                 /\ Until(n, before) >= minute + FailureWindow /\ Until(n, before) > minute
           /\ n % LockoutThreshold # 0 => Until(n, before) = before
<1>1. CASE n % LockoutThreshold = 0
  <2>1. LockTime(n) \in Nat /\ LockTime(n) >= FirstLock
    BY <1>1, LocksGrow
  <2>. QED  BY <1>1, <2>1, LoginTyped, LockoutConstants DEF Until
<1>2. CASE n % LockoutThreshold # 0
  BY <1>2 DEF Until
<1>. QED  BY <1>1, <1>2

\* Where neither counts, locks nor time change, a request only has to keep
\* what it knows, and not to leave a count or a lock behind.
LEMMA LoginMoved ==
    ASSUME LockSafe, NEW r \in Logins, NEW q \in Attempts, LoginFits(q),
           login' = [login EXCEPT ![r] = q], login[r].pc \notin {"count", "lock"},
           UNCHANGED <<minute, bucket, everywhere, factor, locked, lost>>,
           cleared' \in BOOLEAN, cleared => cleared',
           \/ guessed' = guessed
           \/ /\ q.pc = "count" /\ bucket[q.net].until <= minute
              /\ guessed' = [guessed EXCEPT ![q.net] = @ + 1]
    PROVE  LockSafe'
<1>1. /\ login' \in [Logins -> Attempts] /\ \A p \in Logins : LoginFits(login'[p])
      /\ login'[r] = q /\ \A p \in Logins \ {r} : login'[p] = login[p]
  BY LoginTyped DEF LockSafe, LoginInv
<1>2. guessed' \in [LoginNetworks -> Nat]
  BY LoginTyped DEF LockSafe
<1>3. LoginInv'
  BY <1>1, <1>2 DEF LockSafe, LoginInv, LockoutTypeOK, LoginFits
<1>4. CapLocksAccount'
  BY <1>1 DEF LockSafe, CapLocksAccount, AllWindowOver
<1>5. LockedOK'
  BY DEF LockSafe, LockedOK, LockTime
<1>6. ASSUME NEW n \in LoginNetworks
      PROVE  NetworkOK(n)'
  <2>1. /\ NetworkOK(n) /\ guessed[n] \in Nat /\ lost \in Nat
        /\ bucket[n].failures % LockoutThreshold \in Int
        /\ Cardinality(Counting(n)) \in Nat
    BY LoginTyped, Split, LockoutConstants, CountingFinite DEF LockSafe
  <2>2. CASE q.pc = "count" /\ q.net = n
    <3>1. Counting(n)' = Counting(n) \cup {r} /\ r \notin Counting(n)
      BY <1>1, <2>2 DEF Counting
    <3>2. Cardinality(Counting(n)') = Cardinality(Counting(n)) + 1
      BY <3>1, CountingFinite, FS_AddElement
    <3>3. \/ guessed'[n] = guessed[n]
          \/ guessed'[n] = guessed[n] + 1 /\ bucket[n].until <= minute
      BY <2>2, LoginTyped DEF LockSafe
    <3>. QED  BY <2>1, <3>2, <3>3, LoginTyped DEF NetworkOK, LockSafe
  <2>3. CASE ~(q.pc = "count" /\ q.net = n)
    <3>1. Counting(n)' = Counting(n)
      BY <1>1, <2>3 DEF Counting
    <3>2. guessed'[n] = guessed[n]
      BY <2>3, LoginTyped DEF LockSafe
    <3>. QED  BY <2>1, <3>1, <3>2 DEF NetworkOK
  <2>. QED  BY <2>2, <2>3
<1>. QED  BY <1>3, <1>4, <1>5, <1>6 DEF LockSafe

\* A guess is counted for its network, which may lock it.
LEMMA NetworkCounted ==
    ASSUME LockSafe, NEW r \in Logins, CountNetwork(r)
    PROVE  LockSafe'
<1>. DEFINE q == [NoAttempt EXCEPT !.pc = "countall"]
<1>1. PICK net \in LoginNetworks : net = login[r].net
  BY DEF CountNetwork, LockSafe, LoginInv, LoginFits, NetPCs
<1>2. PICK n \in Nat : n = bucket[net].failures + 1
  BY LoginTyped DEF LockSafe
<1>3. /\ bucket' = [bucket EXCEPT ![net] = [failures |-> n, until |-> Until(n, bucket[net].until)]]
      /\ login' = [login EXCEPT ![r] = q] /\ login[r].pc = "count"
      /\ UNCHANGED <<minute, everywhere, factor, locked, guessed, cleared, lost>>
  BY <1>1, <1>2, LoginTyped DEF CountNetwork, LockSafe
<1>4. q \in Attempts /\ q.pc = "countall"
  BY DEF NoAttempt, Attempts, LoginPCs
<1>. HIDE DEF q
<1>5. /\ login' \in [Logins -> Attempts] /\ login'[r] = q
      /\ \A p \in Logins \ {r} : login'[p] = login[p]
  BY <1>3, <1>4, LoginTyped DEF LockSafe
<1>6. bucket[net].until \in Nat /\ Until(n, bucket[net].until) \in Nat /\ n > 0
  BY <1>2, LoginTyped, UntilLater DEF LockSafe
<1>7. bucket' \in [LoginNetworks -> Buckets]
  BY <1>3, <1>6, LoginTyped DEF LockSafe, Buckets
<1>8. LoginInv'
  BY <1>3, <1>4, <1>5, <1>7 DEF LockSafe, LoginInv, LockoutTypeOK, LoginFits, NetPCs
<1>9. CapLocksAccount'
  BY <1>3, <1>4, <1>5 DEF LockSafe, CapLocksAccount, AllWindowOver
<1>10. LockedOK'
  BY <1>3 DEF LockSafe, LockedOK, LockTime
<1>11. NetworkOK(net)'
  <2>1. Counting(net)' = Counting(net) \ {r} /\ r \in Counting(net)
    BY <1>1, <1>3, <1>4, <1>5 DEF Counting
  <2>2. Cardinality(Counting(net)') = Cardinality(Counting(net)) - 1
    BY <2>1, CountingFinite, FS_RemoveElement
  <2>3. /\ NetworkOK(net) /\ guessed[net] \in Nat /\ lost \in Nat /\ minute \in Nat
        /\ guessed[net] <= LockoutThreshold + Cardinality(Logins) - 1 + lost
    BY LoginTyped, NetworkBound DEF LockSafe
  <2>4. /\ bucket'[net].failures = n /\ bucket'[net].until = Until(n, bucket[net].until)
    BY <1>3, LoginTyped DEF LockSafe
  <2>5. CASE n % LockoutThreshold = 0
    <3>1. Until(n, bucket[net].until) > minute
      BY <1>6, <2>5, UntilLater DEF LockSafe
    <3>. QED  BY <1>3, <2>3, <2>4, <3>1, CountingFinite, LockoutConstants DEF NetworkOK
  <2>6. CASE n % LockoutThreshold # 0
    <3>1. Until(n, bucket[net].until) = bucket[net].until
      BY <2>6 DEF Until
    <3>2. /\ n % LockoutThreshold = (bucket[net].failures % LockoutThreshold) + 1
          /\ bucket[net].failures % LockoutThreshold \in Int
      <4>1. PICK f \in Int : f = bucket[net].failures
        BY LoginTyped DEF LockSafe
      <4>2. LockoutThreshold \in Int /\ LockoutThreshold > 0 /\ n = f + 1
        BY <1>2, <4>1, LockoutConstants
      <4>3. IF f % LockoutThreshold = LockoutThreshold - 1
            THEN (f + 1) % LockoutThreshold = 0
            ELSE (f + 1) % LockoutThreshold = (f % LockoutThreshold) + 1
        BY <4>2, NextRest
      <4>4. f % LockoutThreshold \in Int
        BY <4>2, Split
      <4>5. (f + 1) % LockoutThreshold # 0
        BY <2>6, <4>2
      <4>. QED  BY <4>1, <4>2, <4>3, <4>4, <4>5
    <3>. QED  BY <1>3, <2>2, <2>3, <2>4, <3>1, <3>2, CountingFinite DEF NetworkOK
  <2>. QED  BY <2>5, <2>6
<1>12. ASSUME NEW m \in LoginNetworks, m # net
       PROVE  NetworkOK(m)'
  <2>1. Counting(m)' = Counting(m)
    BY <1>1, <1>3, <1>4, <1>5, <1>12 DEF Counting
  <2>2. bucket'[m] = bucket[m] /\ NetworkOK(m)
    BY <1>3, <1>12, LoginTyped DEF LockSafe
  <2>. QED  BY <1>3, <2>1, <2>2 DEF NetworkOK
<1>. QED  BY <1>8, <1>9, <1>10, <1>11, <1>12 DEF LockSafe

\* The networks are not concerned while none of their requests counts and
\* their locks stay.
LEMMA NetworksKept ==
    ASSUME LockSafe, NEW r \in Logins, \A p \in Logins \ {r} : login'[p] = login[p],
           login'[r].pc # "count", login[r].pc # "count" \/ lost' = lost + 1,
           UNCHANGED <<minute, bucket, guessed>>, lost' \in {lost, lost + 1}
    PROVE  \A n \in LoginNetworks : NetworkOK(n)'
<1>1. ASSUME NEW n \in LoginNetworks
      PROVE  NetworkOK(n)'
  <2>1. Counting(n)' \in {Counting(n), Counting(n) \ {r}}
    BY DEF Counting
  <2>2. \/ Cardinality(Counting(n)') = Cardinality(Counting(n))
        \/ /\ Cardinality(Counting(n)') = Cardinality(Counting(n)) - 1
           /\ lost' = lost + 1
    <3>1. CASE Counting(n)' = Counting(n)
      BY <3>1
    <3>2. CASE r \in Counting(n) /\ Counting(n)' = Counting(n) \ {r}
      <4>1. lost' = lost + 1
        BY <3>2 DEF Counting
      <4>. QED  BY <3>2, <4>1, CountingFinite, FS_RemoveElement
    <3>. QED  BY <2>1, <3>1, <3>2
  <2>3. /\ NetworkOK(n) /\ guessed[n] \in Nat /\ lost \in Nat
        /\ bucket[n].failures % LockoutThreshold \in Int
    BY LoginTyped, Split, LockoutConstants DEF LockSafe
  <2>. QED  BY <2>2, <2>3, CountingFinite, LockoutConstants DEF NetworkOK
<1>. QED  BY <1>1

\* A request that has not to do with a network leaves, or goes on to lock or
\* to clear: the networks stay as they were.
LEMMA AccountMoved ==
    ASSUME LockSafe, NEW r \in Logins, NEW q \in Attempts, LoginFits(q), q.pc # "count",
           login' = [login EXCEPT ![r] = q],
           login[r].pc # "count" \/ lost' = lost + 1, lost' \in {lost, lost + 1},
           UNCHANGED <<minute, bucket, guessed>>,
           factor' \in Nat, locked' \in Nat, cleared' \in BOOLEAN,
           everywhere' \in Everywhere, everywhere'.since <= minute,
           CapLocksAccount', LockedOK'
    PROVE  LockSafe'
<1>1. /\ login' \in [Logins -> Attempts] /\ \A p \in Logins : LoginFits(login'[p])
      /\ login'[r] = q /\ \A p \in Logins \ {r} : login'[p] = login[p]
  BY LoginTyped DEF LockSafe, LoginInv
<1>2. lost' \in Nat
  BY LoginTyped DEF LockSafe
<1>3. LoginInv'
  BY <1>1, <1>2 DEF LockSafe, LoginInv, LockoutTypeOK, LoginFits
<1>4. \A n \in LoginNetworks : NetworkOK(n)'
  BY <1>1, NetworksKept
<1>. QED  BY <1>3, <1>4 DEF LockSafe

\* A failure is counted for the account; the last one allowed goes on to lock.
LEMMA AccountCounted ==
    ASSUME LockSafe, NEW r \in Logins, CountAccount(r)
    PROVE  LockSafe'
<1>1. PICK n \in Nat : n = IF AllWindowOver THEN 1 ELSE everywhere.failures + 1
  BY LoginTyped DEF LockSafe
<1>2. PICK since \in Nat : since = IF AllWindowOver THEN minute ELSE everywhere.since
  BY LoginTyped DEF LockSafe
<1>3. PICK q : q = IF AccountCapReached(n) THEN [login[r] EXCEPT !.pc = "lock"] ELSE NoAttempt
  OBVIOUS
<1>4. /\ everywhere' = [failures |-> n, since |-> since]
      /\ login' = [login EXCEPT ![r] = q]
      /\ login[r].pc = "countall" /\ cleared' = (cleared /\ ~AllWindowOver)
      /\ UNCHANGED <<minute, bucket, factor, locked, guessed, lost>>
  BY <1>1, <1>2, <1>3, LoginTyped DEF CountAccount, LockSafe
<1>5. q \in Attempts /\ q.pc # "count" /\ LoginFits(q) /\ (n = AccountFailureCap => q.pc = "lock")
  BY <1>3, LoginTyped DEF LockSafe, AccountCapReached, NoAttempt, Attempts, LoginPCs,
     LoginFits, NetPCs
<1>6. /\ login'[r] = q /\ \A p \in Logins \ {r} : login'[p] = login[p]
  BY <1>4, LoginTyped DEF LockSafe
<1>7. /\ everywhere' \in Everywhere /\ since <= minute /\ everywhere'.since = since
      /\ everywhere'.failures = n
  BY <1>2, <1>4, LoginTyped DEF LockSafe, LoginInv, Everywhere
<1>8. CapLocksAccount'
  <2>1. SUFFICES ASSUME n >= AccountFailureCap, ~AllWindowOver', ~cleared'
                 PROVE  \/ locked >= since + FailureWindow
                        \/ \E p \in Logins : login'[p].pc = "lock"
    BY <1>4, <1>7 DEF CapLocksAccount
  <2>2. CASE n = AccountFailureCap
    BY <1>5, <1>6, <2>2
  <2>3. CASE n # AccountFailureCap
    <3>1. ~AllWindowOver /\ n = everywhere.failures + 1 /\ since = everywhere.since
      BY <1>1, <1>2, <2>1, <2>3, LockoutConstants
    <3>2. everywhere.failures >= AccountFailureCap /\ ~cleared
      BY <1>4, <2>1, <2>3, <3>1, LoginTyped, LockoutConstants DEF LockSafe
    <3>3. CASE locked >= everywhere.since + FailureWindow
      BY <3>1, <3>3
    <3>4. CASE \E p \in Logins : login[p].pc = "lock"
      BY <1>4, <1>6, <3>4
    <3>. QED  BY <3>1, <3>2, <3>3, <3>4 DEF LockSafe, CapLocksAccount
  <2>. QED  BY <2>2, <2>3
<1>9. LockedOK'
  BY <1>4 DEF LockSafe, LockedOK, LockTime
<1>10. factor' \in Nat /\ locked' \in Nat /\ cleared' \in BOOLEAN
  BY <1>4, LoginTyped DEF LockSafe
<1>. QED  BY <1>4, <1>5, <1>7, <1>8, <1>9, <1>10, AccountMoved

\* The account is locked until the window is over; a lost lock is a cleared
\* one.
LEMMA AccountLocked ==
    ASSUME LockSafe, NEW r \in Logins, LockAccount(r) \/ LoseFailure(r)
    PROVE  LockSafe'
<1>1. /\ NoAttempt \in Attempts /\ NoAttempt.pc = "idle" /\ LoginFits(NoAttempt)
  BY DEF NoAttempt, Attempts, LoginPCs, LoginFits, NetPCs
<1>2. /\ login' = [login EXCEPT ![r] = NoAttempt]
      /\ UNCHANGED <<minute, bucket, everywhere, factor, guessed>>
  BY DEF LockAccount, LoseFailure
<1>3. login'[r] = NoAttempt /\ \A p \in Logins \ {r} : login'[p] = login[p]
  BY <1>2, LoginTyped DEF LockSafe
<1>4. everywhere' \in Everywhere /\ everywhere'.since <= minute /\ factor' \in Nat
  BY <1>2, LoginTyped DEF LockSafe, LoginInv
<1>5. CASE LockAccount(r)
  <2>1. /\ locked' = AccountLock /\ cleared' = cleared /\ lost' = lost /\ login[r].pc = "lock"
    BY <1>5 DEF LockAccount
  <2>2. /\ locked' \in Nat /\ locked' >= minute + FailureWindow
        /\ locked' = locked \/ locked' = minute + FailureWindow
    BY <2>1, LoginTyped, LockoutConstants DEF AccountLock, LockSafe
  <2>3. locked' >= everywhere'.since + FailureWindow
    BY <1>2, <1>4, <2>2, LoginTyped, LockoutConstants DEF LockSafe
  <2>4. CapLocksAccount'
    BY <2>3 DEF CapLocksAccount
  <2>5. LockedOK'
    BY <1>2, <2>2, LoginTyped, LockoutConstants DEF LockSafe, LockedOK, LockTime
  <2>6. lost' \in {lost, lost + 1} /\ cleared' \in BOOLEAN /\ login[r].pc # "count"
    BY <2>1, LoginTyped DEF LockSafe
  <2>. QED  BY <1>1, <1>2, <1>4, <2>2, <2>4, <2>5, <2>6, AccountMoved
<1>6. CASE LoseFailure(r)
  <2>1. /\ locked' = locked /\ cleared' = (cleared \/ login[r].pc = "lock") /\ lost' = lost + 1
    BY <1>6 DEF LoseFailure
  <2>2. CapLocksAccount'
    <3>1. SUFFICES ASSUME everywhere.failures >= AccountFailureCap, ~AllWindowOver, ~cleared'
                   PROVE  \/ locked >= everywhere.since + FailureWindow
                          \/ \E p \in Logins : login'[p].pc = "lock"
      BY <1>2, <2>1 DEF CapLocksAccount, AllWindowOver
    <3>2. ~cleared /\ login[r].pc # "lock"
      BY <2>1, <3>1
    <3>. QED  BY <1>3, <3>1, <3>2 DEF LockSafe, CapLocksAccount
  <2>3. LockedOK'
    BY <1>2, <2>1 DEF LockSafe, LockedOK, LockTime
  <2>4. cleared' \in BOOLEAN /\ locked' \in Nat /\ lost' \in {lost, lost + 1}
    BY <2>1, LoginTyped DEF LockSafe
  <2>. QED  BY <1>1, <1>2, <1>4, <2>1, <2>2, <2>3, <2>4, AccountMoved
<1>. QED  BY <1>5, <1>6

\* A complete sign-in clears the lock of the account.
LEMMA AccountReset ==
    ASSUME LockSafe, NEW r \in Logins, ResetAccount(r)
    PROVE  LockSafe'
<1>1. PICK q : q = [login[r] EXCEPT !.pc = "forget"]
  OBVIOUS
<1>2. /\ login' = [login EXCEPT ![r] = q] /\ login[r].pc = "reset"
      /\ factor' = 0 /\ locked' = 0 /\ cleared' = (cleared \/ locked > minute)
      /\ UNCHANGED <<minute, bucket, everywhere, guessed, lost>>
  BY <1>1 DEF ResetAccount
<1>3. q \in Attempts /\ q.pc = "forget" /\ LoginFits(q)
  BY <1>1, <1>2, LoginTyped DEF LockSafe, LoginInv, Attempts, LoginPCs, LoginFits, NetPCs
<1>4. \A p \in Logins \ {r} : login'[p] = login[p]
  BY <1>2, LoginTyped DEF LockSafe
<1>5. CapLocksAccount'
  <2>1. SUFFICES ASSUME everywhere.failures >= AccountFailureCap, ~AllWindowOver, ~cleared'
                 PROVE  \E p \in Logins : login'[p].pc = "lock"
    BY <1>2 DEF CapLocksAccount, AllWindowOver
  <2>2. ~cleared /\ ~(locked > minute)
    BY <1>2, <2>1
  <2>3. ~(locked >= everywhere.since + FailureWindow)
    BY <2>1, <2>2, LoginTyped, LockoutConstants DEF AllWindowOver, LockSafe
  <2>. QED  BY <1>2, <1>4, <2>1, <2>2, <2>3 DEF LockSafe, CapLocksAccount
<1>6. LockedOK'
  BY <1>2, LoginTyped, LockoutConstants DEF LockSafe, LockedOK
<1>7. /\ everywhere' \in Everywhere /\ everywhere'.since <= minute /\ factor' \in Nat
      /\ locked' \in Nat /\ cleared' \in BOOLEAN /\ lost' \in {lost, lost + 1}
  BY <1>2, LoginTyped DEF LockSafe, LoginInv
<1>. QED  BY <1>2, <1>3, <1>5, <1>6, <1>7, AccountMoved

\* And what its network had counted.
LEMMA NetworkForgotten ==
    ASSUME LockSafe, NEW r \in Logins, ForgetNetwork(r)
    PROVE  LockSafe'
<1>1. PICK net \in LoginNetworks : net = login[r].net
  BY DEF ForgetNetwork, LockSafe, LoginInv, LoginFits, NetPCs
<1>2. /\ bucket' = [bucket EXCEPT ![net] = EmptyBucket]
      /\ guessed' = [guessed EXCEPT ![net] = 0]
      /\ login' = [login EXCEPT ![r] = NoAttempt] /\ login[r].pc = "forget"
      /\ UNCHANGED <<minute, everywhere, factor, locked, cleared, lost>>
  BY <1>1 DEF ForgetNetwork
<1>3. NoAttempt \in Attempts /\ NoAttempt.pc = "idle" /\ LoginFits(NoAttempt)
  BY DEF NoAttempt, Attempts, LoginPCs, LoginFits, NetPCs
<1>4. /\ login' \in [Logins -> Attempts] /\ login'[r] = NoAttempt
      /\ \A p \in Logins \ {r} : login'[p] = login[p]
  BY <1>2, <1>3, LoginTyped DEF LockSafe
<1>5. bucket' \in [LoginNetworks -> Buckets] /\ guessed' \in [LoginNetworks -> Nat]
  BY <1>2, LoginTyped DEF LockSafe
<1>6. LoginInv'
  BY <1>2, <1>3, <1>4, <1>5 DEF LockSafe, LoginInv, LockoutTypeOK, LoginFits
<1>7. CapLocksAccount'
  BY <1>2, <1>4 DEF LockSafe, CapLocksAccount, AllWindowOver
<1>8. LockedOK'
  BY <1>2 DEF LockSafe, LockedOK, LockTime
<1>9. ASSUME NEW n \in LoginNetworks
      PROVE  NetworkOK(n)'
  <2>1. Counting(n)' = Counting(n)
    BY <1>2, <1>3, <1>4 DEF Counting
  <2>2. CASE n = net
    <3>1. /\ bucket'[n].failures = 0 /\ bucket'[n].until = 0 /\ guessed'[n] = 0
      BY <1>2, <2>2, LoginTyped DEF LockSafe, EmptyBucket
    <3>2. 0 % LockoutThreshold \in 0 .. LockoutThreshold - 1
      BY Split, LockoutConstants
    <3>. QED  BY <1>2, <3>1, <3>2, CountingFinite, LoginTyped, LockoutConstants
              DEF NetworkOK, LockSafe
  <2>3. CASE n # net
    <3>1. bucket'[n] = bucket[n] /\ guessed'[n] = guessed[n] /\ NetworkOK(n)
      BY <1>2, <2>3, LoginTyped DEF LockSafe
    <3>. QED  BY <1>2, <2>1, <3>1 DEF NetworkOK
  <2>. QED  BY <2>2, <2>3
<1>. QED  BY <1>6, <1>7, <1>8, <1>9 DEF LockSafe

\* A wrong second factor may lock the account, never for less than another
\* lock would.
LEMMA FactorCounted ==
    ASSUME LockSafe, NEW r \in Logins, CountFactor(r)
    PROVE  LockSafe'
<1>1. PICK n \in Nat : n = factor + 1
  BY LoginTyped DEF LockSafe
<1>2. /\ factor' = n /\ locked' = Until(n, locked) /\ login[r].pc = "factor"
      /\ login' = [login EXCEPT ![r] = NoAttempt]
      /\ UNCHANGED <<minute, bucket, everywhere, guessed, cleared, lost>>
  BY <1>1 DEF CountFactor
<1>3. NoAttempt \in Attempts /\ NoAttempt.pc = "idle" /\ LoginFits(NoAttempt)
  BY DEF NoAttempt, Attempts, LoginPCs, LoginFits, NetPCs
<1>4. \A p \in Logins \ {r} : login'[p] = login[p]
  BY <1>2, LoginTyped DEF LockSafe
<1>5. n > 0 /\ factor \in Nat /\ locked \in Nat /\ minute \in Nat
  BY <1>1, LoginTyped DEF LockSafe
<1>6. /\ locked' \in Nat
      /\ n % LockoutThreshold = 0 =>
           locked' = minute + LockTime(n) /\ locked' >= minute + FailureWindow
      /\ n % LockoutThreshold # 0 => locked' = locked
  BY <1>2, <1>5, UntilLater DEF LockSafe
<1>7. CapLocksAccount'
  <2>1. SUFFICES ASSUME everywhere.failures >= AccountFailureCap, ~AllWindowOver, ~cleared
                 PROVE  \/ locked' >= everywhere.since + FailureWindow
                        \/ \E p \in Logins : login'[p].pc = "lock"
    BY <1>2 DEF CapLocksAccount, AllWindowOver
  <2>2. CASE n % LockoutThreshold = 0
    BY <1>6, <2>2, LoginTyped, LockoutConstants DEF LockSafe, LoginInv
  <2>3. CASE n % LockoutThreshold # 0
    BY <1>2, <1>4, <1>6, <2>1, <2>3 DEF LockSafe, CapLocksAccount
  <2>. QED  BY <2>2, <2>3
<1>8. LockedOK'
  <2>1. CASE n % LockoutThreshold = 0
    <3>1. n \in 1 .. factor' /\ locked' <= minute' + LockTime(n)
      BY <1>2, <1>5, <1>6, <2>1
    <3>. QED  BY <2>1, <3>1 DEF LockedOK, LockTime
  <2>2. CASE n % LockoutThreshold # 0
    <3>1. locked' = locked /\ minute' = minute
      BY <1>2, <1>6, <2>2
    <3>2. CASE locked <= minute + FailureWindow
      BY <3>1, <3>2 DEF LockedOK
    <3>3. ASSUME NEW m \in 1 .. factor, m % LockoutThreshold = 0, locked <= minute + LockTime(m)
          PROVE  LockedOK'
      <4>1. m \in 1 .. factor'
        BY <1>1, <1>2, <1>5, <3>3
      <4>. QED  BY <3>1, <3>3, <4>1 DEF LockedOK, LockTime
    <3>. QED  BY <3>2, <3>3 DEF LockSafe, LockedOK
  <2>. QED  BY <2>1, <2>2
<1>9. /\ everywhere' \in Everywhere /\ everywhere'.since <= minute /\ factor' \in Nat
      /\ cleared' \in BOOLEAN /\ lost' \in {lost, lost + 1} /\ login[r].pc # "count"
      /\ NoAttempt.pc # "count"
  BY <1>2, <1>3, LoginTyped DEF LockSafe, LoginInv
<1>. QED  BY <1>2, <1>3, <1>6, <1>7, <1>8, <1>9, AccountMoved

\* Recovery clears everything.
LEMMA LocksRecovered ==
    ASSUME LockSafe, RecoverLocked
    PROVE  LockSafe'
<1>1. /\ factor' = 0 /\ locked' = 0 /\ cleared' = FALSE
      /\ bucket' = [n \in LoginNetworks |-> EmptyBucket]
      /\ everywhere' = [failures |-> 0, since |-> minute]
      /\ guessed' = [n \in LoginNetworks |-> 0]
      /\ UNCHANGED <<minute, login, lost>>
  BY DEF RecoverLocked
<1>2. LoginInv'
  <2>1. /\ bucket' \in [LoginNetworks -> Buckets] /\ guessed' \in [LoginNetworks -> Nat]
        /\ everywhere' \in Everywhere /\ everywhere'.since <= minute'
        /\ factor' \in Nat /\ locked' \in Nat /\ cleared' \in BOOLEAN
    <3>1. bucket' \in [LoginNetworks -> Buckets]
      BY <1>1, LoginTyped DEF LockSafe
    <3>2. guessed' \in [LoginNetworks -> Nat]
      BY <1>1
    <3>3. everywhere' \in Everywhere /\ everywhere'.since <= minute'
      BY <1>1, LoginTyped DEF LockSafe, Everywhere
    <3>. QED  BY <1>1, <3>1, <3>2, <3>3
  <2>2. LockoutTypeOK'
    BY <1>1, <2>1, LoginTyped DEF LockSafe, LockoutTypeOK
  <2>3. \A r \in Logins : LoginFits(login[r])'
    BY <1>1 DEF LockSafe, LoginInv, LoginFits
  <2>. QED  BY <2>1, <2>2, <2>3 DEF LoginInv
<1>3. CapLocksAccount' /\ LockedOK'
  BY <1>1, LoginTyped, LockoutConstants DEF LockSafe, CapLocksAccount, LockedOK
<1>4. ASSUME NEW n \in LoginNetworks
      PROVE  NetworkOK(n)'
  <2>1. /\ bucket'[n].failures = 0 /\ bucket'[n].until = 0 /\ guessed'[n] = 0
    BY <1>1 DEF EmptyBucket
  <2>2. 0 % LockoutThreshold \in 0 .. LockoutThreshold - 1
    BY Split, LockoutConstants
  <2>. QED  BY <1>1, <2>1, <2>2, CountingFinite, LoginTyped, LockoutConstants
            DEF NetworkOK, LockSafe
<1>. QED  BY <1>2, <1>3, <1>4 DEF LockSafe

\* Time passes; a network whose lock ends starts over.
LEMMA LockTimePasses ==
    ASSUME LockSafe, LoginTick
    PROVE  LockSafe'
<1>1. /\ minute' = minute + 1
      /\ guessed' = [n \in LoginNetworks |->
                       IF bucket[n].until = minute + 1 THEN 0 ELSE guessed[n]]
      /\ UNCHANGED <<bucket, everywhere, factor, locked, login, cleared, lost>>
  BY DEF LoginTick
<1>2. LoginInv'
  <2>1. guessed' \in [LoginNetworks -> Nat] /\ minute' \in Nat /\ everywhere.since <= minute'
    BY <1>1, LoginTyped DEF LockSafe, LoginInv
  <2>. QED  BY <1>1, <2>1 DEF LockSafe, LoginInv, LockoutTypeOK, LoginFits
<1>3. CapLocksAccount'
  <2>1. AllWindowOver => AllWindowOver'
    BY <1>1, LoginTyped, LockoutConstants DEF LockSafe, AllWindowOver
  <2>. QED  BY <1>1, <2>1 DEF LockSafe, CapLocksAccount
<1>4. LockedOK'
  <2>1. CASE locked <= minute + FailureWindow
    BY <1>1, <2>1, LoginTyped, LockoutConstants DEF LockSafe, LockedOK
  <2>2. ASSUME NEW m \in 1 .. factor, m % LockoutThreshold = 0, locked <= minute + LockTime(m)
        PROVE  LockedOK'
    <3>1. LockTime(m) \in Nat
      BY <2>2, LocksGrow, LoginTyped DEF LockSafe
    <3>2. locked' <= minute' + LockTime(m) /\ m \in 1 .. factor'
      BY <1>1, <2>2, <3>1, LoginTyped DEF LockSafe
    <3>. QED  BY <2>2, <3>2 DEF LockedOK, LockTime
  <2>. QED  BY <2>1, <2>2 DEF LockSafe, LockedOK
<1>5. ASSUME NEW n \in LoginNetworks
      PROVE  NetworkOK(n)'
  <2>1. Counting(n)' = Counting(n)
    BY <1>1 DEF Counting
  <2>2. /\ NetworkOK(n) /\ guessed[n] \in Nat /\ lost \in Nat /\ bucket[n].until \in Nat
        /\ bucket[n].failures % LockoutThreshold \in 0 .. LockoutThreshold - 1
        /\ guessed'[n] = IF bucket[n].until = minute + 1 THEN 0 ELSE guessed[n]
        /\ minute \in Nat
    BY <1>1, LoginTyped, Split, LockoutConstants DEF LockSafe
  <2>3. CASE bucket[n].until = minute + 1
    <3>1. ~(bucket'[n].until > minute') /\ guessed'[n] = 0
      BY <1>1, <2>2, <2>3
    <3>. QED  BY <1>1, <2>1, <2>2, <3>1, CountingFinite, LockoutConstants DEF NetworkOK
  <2>4. CASE bucket[n].until # minute + 1
    <3>1. (bucket'[n].until > minute') <=> (bucket[n].until > minute)
      BY <1>1, <2>2, <2>4
    <3>. QED  BY <1>1, <2>1, <2>2, <2>4, <3>1 DEF NetworkOK
  <2>. QED  BY <2>3, <2>4
<1>. QED  BY <1>2, <1>3, <1>4, <1>5 DEF LockSafe

\* The steps of a request that only read, or look at a password.
LEMMA LoginRead ==
    ASSUME LockSafe, NEW r \in Logins,
           \/ \E net \in LoginNetworks, pc \in {"guess", "own"} : ReadLogin(r, net, pc)
           \/ CheckPassword(r) \/ SecondFactor(r)
    PROVE  LockSafe'
<1>1. ASSUME NEW net \in LoginNetworks, NEW pc \in {"guess", "own"}, ReadLogin(r, net, pc)
      PROVE  LockSafe'
  <2>1. PICK q : q = [pc |-> pc, net |-> net, until |-> IF pc = "own" THEN locked ELSE 0]
    OBVIOUS
  <2>2. q \in Attempts /\ LoginFits(q)
    BY <2>1, LoginTyped DEF LockSafe, Attempts, LoginPCs, LoginFits
  <2>3. /\ login' = [login EXCEPT ![r] = q] /\ login[r].pc = "idle"
        /\ UNCHANGED <<minute, bucket, everywhere, factor, locked, guessed, cleared, lost>>
    BY <1>1, <2>1 DEF ReadLogin
  <2>4. cleared' \in BOOLEAN
    BY <2>3, LoginTyped DEF LockSafe
  <2>. QED  BY <2>2, <2>3, <2>4, LoginMoved
<1>2. CASE CheckPassword(r)
  <2>1. PICK net \in LoginNetworks : net = login[r].net
    BY <1>2 DEF CheckPassword, LockSafe, LoginInv, LoginFits, NetPCs
  <2>2. PICK refused \in BOOLEAN : refused = (~NetworkOpen(net) \/ login[r].until > minute)
    OBVIOUS
  <2>3. PICK q : q = IF refused THEN NoAttempt
                     ELSE [login[r] EXCEPT !.pc = IF login[r].pc = "guess" THEN "count" ELSE "reset",
                                           !.until = 0]
    OBVIOUS
  <2>4. /\ login' = [login EXCEPT ![r] = q] /\ login[r].pc \in {"guess", "own"}
        /\ guessed' = [guessed EXCEPT ![net] =
                         IF login[r].pc = "guess" /\ ~refused THEN @ + 1 ELSE @]
        /\ UNCHANGED <<minute, bucket, everywhere, factor, locked, cleared, lost>>
    BY <1>2, <2>1, <2>2, <2>3 DEF CheckPassword
  <2>5. login[r] \in Attempts
    BY LoginTyped DEF LockSafe
  <2>6. q \in Attempts /\ LoginFits(q)
    BY <2>1, <2>3, <2>4, <2>5 DEF NoAttempt, Attempts, LoginPCs, LoginFits, NetPCs
  <2>7. \/ guessed' = guessed
        \/ /\ q.pc = "count" /\ bucket[q.net].until <= minute
           /\ guessed' = [guessed EXCEPT ![q.net] = @ + 1]
    <3>1. CASE login[r].pc = "guess" /\ ~refused
      <4>1. q.pc = "count" /\ q.net = net
        BY <2>1, <2>3, <2>5, <3>1 DEF Attempts
      <4>. QED  BY <2>2, <2>4, <3>1, <4>1 DEF NetworkOpen
    <3>2. CASE ~(login[r].pc = "guess" /\ ~refused)
      BY <2>4, <3>2, LoginTyped DEF LockSafe
    <3>. QED  BY <3>1, <3>2
  <2>8. cleared' \in BOOLEAN
    BY <2>4, LoginTyped DEF LockSafe
  <2>. QED  BY <2>4, <2>6, <2>7, <2>8, LoginMoved
<1>3. CASE SecondFactor(r)
  <2>1. PICK q : q = [login[r] EXCEPT !.pc = "factor"]
    OBVIOUS
  <2>2. /\ login' = [login EXCEPT ![r] = q] /\ login[r].pc = "idle"
        /\ UNCHANGED <<minute, bucket, everywhere, factor, locked, guessed, cleared, lost>>
    BY <1>3, <2>1 DEF SecondFactor
  <2>3. q \in Attempts /\ LoginFits(q)
    BY <2>1, LoginTyped DEF LockSafe, Attempts, LoginPCs, LoginFits, NetPCs
  <2>4. cleared' \in BOOLEAN
    BY <2>2, LoginTyped DEF LockSafe
  <2>. QED  BY <2>2, <2>3, <2>4, LoginMoved
<1>. QED  BY <1>1, <1>2, <1>3

\* At the start nothing is counted or locked.
LEMMA LockSafeInit ==
    ASSUME LockoutInit
    PROVE  LockSafe
<1>1. LoginInv
  <2>1. NoAttempt \in Attempts /\ LoginFits(NoAttempt) /\ EmptyBucket \in Buckets
    BY DEF NoAttempt, Attempts, LoginPCs, LoginFits, NetPCs, EmptyBucket, Buckets
  <2>2. /\ bucket \in [LoginNetworks -> Buckets] /\ guessed \in [LoginNetworks -> Nat]
        /\ everywhere \in Everywhere /\ everywhere.since <= minute
        /\ login \in [Logins -> Attempts] /\ \A r \in Logins : LoginFits(login[r])
    BY <2>1 DEF LockoutInit, Everywhere
  <2>. QED  BY <2>2 DEF LockoutInit, LoginInv, LockoutTypeOK
<1>2. CapLocksAccount /\ LockedOK
  BY LockoutConstants DEF LockoutInit, CapLocksAccount, LockedOK
<1>3. ASSUME NEW n \in LoginNetworks
      PROVE  NetworkOK(n)
  <2>1. /\ bucket[n].failures = 0 /\ bucket[n].until = 0 /\ guessed[n] = 0 /\ lost = 0
        /\ minute = 0
    BY DEF LockoutInit, EmptyBucket
  <2>2. 0 % LockoutThreshold \in 0 .. LockoutThreshold - 1
    BY Split, LockoutConstants
  <2>. QED  BY <2>1, <2>2, CountingFinite, LockoutConstants DEF NetworkOK
<1>. QED  BY <1>1, <1>2, <1>3 DEF LockSafe

\* Every step keeps what the locks rest on.
LEMMA LockSafeStep ==
    ASSUME LockSafe, [LockoutNext]_lockoutVars
    PROVE  LockSafe'
<1>1. CASE UNCHANGED lockoutVars
  <2>1. LoginInv' /\ CapLocksAccount' /\ LockedOK'
    BY <1>1 DEF lockoutVars, LockSafe, LoginInv, LockoutTypeOK, CapLocksAccount,
       AllWindowOver, LockedOK, LockTime
  <2>2. \A n \in LoginNetworks : Counting(n)' = Counting(n)
    BY <1>1 DEF lockoutVars, Counting
  <2>3. \A n \in LoginNetworks : NetworkOK(n)'
    BY <1>1, <2>2 DEF lockoutVars, LockSafe, NetworkOK
  <2>. QED  BY <2>1, <2>3 DEF LockSafe
<1>2. ASSUME NEW r \in Logins, LoginStep(r)
      PROVE  LockSafe'
  BY <1>2, LoginRead, NetworkCounted, AccountCounted, AccountLocked, AccountReset,
     NetworkForgotten, FactorCounted DEF LoginStep
<1>. QED  BY <1>1, <1>2, LocksRecovered, LockTimePasses DEF LockoutNext

\* The type invariant of the locks.
THEOREM LockTypes == LockoutSpec => []LockoutTypeOK
BY LockSafeInit, LockSafeStep, PTL DEF LockoutSpec, LockSafe, LoginInv

\* Guessing is held down from one network and from everywhere, whatever the
\* order in which the background tasks count the failures, and however many
\* of them die (record_password_failure).
THEOREM LocksHold == LockoutSpec => []LockLimits
<1>1. LockSafe => LockLimits
  BY NetworkBound DEF LockSafe, LockLimits, GuessesPerNetwork
<1>. QED  BY LockSafeInit, LockSafeStep, <1>1, PTL DEF LockoutSpec

\* No step shortens the lock of the account but one that clears it: the lock
\* after failures from everywhere takes the later of the two, and the one
\* after wrong second factors lasts at least as long as any before it
\* (record_password_failure, record_failed_login).
THEOREM LocksStay == LockoutSpec => LockNotShortened
<1>1. ASSUME LockSafe, [LockoutNext]_lockoutVars
      PROVE  [locked' >= locked \/ locked' = 0]_lockoutVars
  <2>1. locked \in Nat /\ minute \in Nat /\ factor \in Nat
    BY <1>1, LoginTyped DEF LockSafe
  <2>2. CASE UNCHANGED lockoutVars
    BY <2>2
  <2>3. ASSUME NEW r \in Logins, LoginStep(r)
        PROVE  locked' >= locked \/ locked' = 0
    <3>1. CASE CountFactor(r)
      <4>1. PICK n \in Nat : n = factor + 1
        BY <2>1
      <4>2. locked' = Until(n, locked) /\ n > 0
        BY <2>1, <3>1, <4>1 DEF CountFactor
      <4>3. CASE n % LockoutThreshold = 0
        <5>1. locked' = minute + LockTime(n) /\ locked' >= minute + FailureWindow /\ locked' \in Nat
          BY <1>1, <2>1, <4>2, <4>3, UntilLater DEF LockSafe
        <5>2. CASE locked <= minute + FailureWindow
          BY <2>1, <5>1, <5>2, LockoutConstants
        <5>3. ASSUME NEW m \in 1 .. factor, m % LockoutThreshold = 0,
                     locked <= minute + LockTime(m)
              PROVE  locked' >= locked
          <6>1. LockTime(m) <= LockTime(n) /\ LockTime(n) \in Nat /\ LockTime(m) \in Nat
            <7>1. m \in Nat /\ m > 0 /\ m <= n
              BY <2>1, <4>1, <5>3
            <7>. QED  BY <4>3, <5>3, <7>1, LocksGrow
          <6>. QED  BY <2>1, <5>1, <5>3, <6>1
        <5>. QED  BY <1>1, <5>2, <5>3 DEF LockSafe, LockedOK
      <4>4. CASE n % LockoutThreshold # 0
        BY <2>1, <4>2, <4>4 DEF Until
      <4>. QED  BY <4>3, <4>4
    <3>2. CASE LockAccount(r)
      BY <2>1, <3>2, LockoutConstants DEF LockAccount, AccountLock
    <3>3. CASE ResetAccount(r)
      BY <3>3 DEF ResetAccount
    <3>4. CASE UNCHANGED locked
      BY <2>1, <3>4
    <3>. QED  BY <2>3, <3>1, <3>2, <3>3, <3>4 DEF LoginStep, ReadLogin, CheckPassword,
              CountNetwork, CountAccount, LoseFailure, ForgetNetwork, SecondFactor
  <2>4. CASE RecoverLocked
    BY <2>4 DEF RecoverLocked
  <2>5. CASE LoginTick
    BY <2>1, <2>5 DEF LoginTick
  <2>. QED  BY <1>1, <2>2, <2>3, <2>4, <2>5 DEF LockoutNext
<1>. QED  BY LockSafeInit, LockSafeStep, <1>1, PTL DEF LockoutSpec, LockNotShortened
=============================================================================
