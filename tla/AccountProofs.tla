---------------------------- MODULE AccountProofs ----------------------------
(***************************************************************************)
(* What holds of an account's address, name and rank for every number of   *)
(* accounts, addresses, names and requests; and, with the proofs of what   *)
(* guards its sign-in, of the parts of MCAccount together.                 *)
(*                                                                         *)
(* The inductive invariants say what a request may still rely on of what   *)
(* it read: the address of a code typed was proven by the account; a trial *)
(* being started has claimed its address, and nobody else has; a name      *)
(* found free is not kept for another, or is held; and the admins a        *)
(* request locked still serve.                                             *)
(***************************************************************************)
EXTENDS MCAccount, GuessLimitsProofs, SignInProofs

-----------------------------------------------------------------------------
(* Addresses. *)

\* A request under way is about an account, which is not to be made any more
\* once a code of it was typed, and about an address.
MailingFits(q) ==
    /\ q.pc # "idle" => q.who \in People /\ q.to \in Mails
    /\ q.pc \in {"claim", "start", "check"} =>
          /\ people[q.who].state # "none"
          /\ people[q.who].state = "live" => people[q.who].ever
    /\ q.pc = "write" => /\ people[q.who].state # "none"
                         /\ q.to \in proofs[q.who]

AddressInv ==
    /\ MailTypeOK /\ VerifiedUnlessCrossed
    /\ \A r \in MailRequests : MailingFits(mailing[r])

\* A request that started a trial, or is about to.
Starting(r) == mailing[r].pc \in {"start", "check"}

\* Who is about to start a trial has claimed the address alone, and nobody
\* had one with it; who started one still has it when the request looks.
TrialsInv ==
    /\ \A r \in MailRequests : Starting(r) => mailing[r].to \in claims
    /\ \A r, s \in MailRequests :
          Starting(r) /\ Starting(s) /\ mailing[r].to = mailing[s].to => r = s
    /\ \A t \in trials : t[2] \in claims
    /\ \A t \in trials, r \in MailRequests : mailing[r].to = t[2] =>
          /\ mailing[r].pc # "start"
          /\ mailing[r].pc = "check" =>
                /\ mailing[r].who = t[1]
                /\ people[t[1]].state = "live" /\ people[t[1]].plan = "trial"
    /\ \A s, t \in trials : s[2] = t[2] => s[1] = t[1]

\* What is done to accounts stays compatible with the requests under way.
Lasting ==
    \A a \in People : people[a].state # "none" =>
       /\ people'[a].state # "none"
       /\ people'[a].state = "live" =>
             people[a].state = "live" /\ (people[a].ever => people'[a].ever)
       /\ proofs[a] \subseteq proofs'[a]

\* What the variables are, and what a request is about.
LEMMA MailTyped ==
    ASSUME AddressInv
    PROVE  /\ people \in [People -> Accounts]
           /\ mailed \in [People -> [Purposes -> Mails \cup {NoMail}]]
           /\ mailing \in [MailRequests -> Mailings]
           /\ proofs \in [People -> SUBSET Mails]
           /\ \A a \in People : people[a] \in Accounts
           /\ \A r \in MailRequests : mailing[r] \in Mailings
           /\ \A r \in MailRequests : mailing[r].pc # "idle" =>
                 mailing[r].who \in People /\ mailing[r].to \in Mails
           /\ NoCodes \in [Purposes -> Mails \cup {NoMail}]
           /\ NoAccount \in Accounts /\ NotMailing \in Mailings
           /\ NotMailing.pc = "idle"
<1>1. NoAccount \in Accounts
  BY DEF NoAccount, Accounts
<1>2. NotMailing \in Mailings /\ NotMailing.pc = "idle"
  BY DEF NotMailing, Mailings, MailPCs
<1>3. NoCodes \in [Purposes -> Mails \cup {NoMail}]
  BY DEF NoCodes
<1>. QED  BY <1>1, <1>2, <1>3 DEF AddressInv, MailTypeOK, MailingFits

\* A request that moves on, and the others, keep what they rely on.
LEMMA StillFits ==
    ASSUME AddressInv, Lasting, NEW r \in MailRequests, NEW q \in Mailings,
           MailingFits(q)', mailing' = [mailing EXCEPT ![r] = q]
    PROVE  /\ mailing' \in [MailRequests -> Mailings]
           /\ \A s \in MailRequests : MailingFits(mailing[s])'
<1>1. mailing' \in [MailRequests -> Mailings]
  BY MailTyped
<1>2. ASSUME NEW s \in MailRequests
      PROVE  MailingFits(mailing[s])'
  <2>1. CASE s = r
    <3>1. mailing'[s] = q
      BY <2>1, MailTyped
    <3>. QED  BY <3>1 DEF MailingFits
  <2>2. CASE s # r
    <3>1. mailing'[s] = mailing[s]
      BY <2>2, MailTyped
    <3>2. MailingFits(mailing[s])
      BY DEF AddressInv
    <3>. QED  BY <3>1, <3>2 DEF MailingFits, Lasting
  <2>. QED  BY <2>1, <2>2
<1>. QED  BY <1>1, <1>2

\* The same when no request moves.
LEMMA AllFit ==
    ASSUME AddressInv, Lasting, UNCHANGED mailing
    PROVE  /\ mailing' \in [MailRequests -> Mailings]
           /\ \A s \in MailRequests : MailingFits(mailing[s])'
BY DEF AddressInv, MailTypeOK, MailingFits, Lasting

\* The bounds count.
LEMMA BoundsCount ==
    ASSUME AddressInv, NEW event, NEW bound, Within(event, bound)
    PROVE  bounds' \in [DOMAIN bounds' -> Nat]
<1>1. bounds \in [DOMAIN bounds -> Nat]
  BY DEF AddressInv, MailTypeOK
<1>2. bounds' = [e \in DOMAIN bounds |->
                   IF e = event THEN bounds[e] + 1 ELSE bounds[e]]
  BY <1>1 DEF Within
<1>3. \A e \in DOMAIN bounds : bounds[e] \in Nat /\ bounds[e] + 1 \in Nat
  BY <1>1
<1>4. DOMAIN bounds' = DOMAIN bounds
  BY <1>2
<1>5. bounds' \in [DOMAIN bounds -> Nat]
  BY <1>2, <1>3
<1>. QED  BY <1>4, <1>5

\* A request that is over relies on nothing.
LEMMA OverFits ==
    ASSUME AddressInv
    PROVE  MailingFits(NotMailing)'
BY DEF MailingFits, NotMailing

\* A request that goes on to start a trial keeps its account and address.
LEMMA TrialBegun ==
    ASSUME AddressInv, NEW r \in MailRequests, mailing[r].pc # "idle", ToTrial(r)
    PROVE  \E q \in Mailings :
              /\ mailing' = [mailing EXCEPT ![r] = q]
              /\ q.pc = "claim" /\ q.who = mailing[r].who /\ q.to = mailing[r].to
<1>. DEFINE q == [NotMailing EXCEPT !.pc = "claim", !.who = mailing[r].who,
                                    !.to = mailing[r].to]
<1>1. q \in Mailings /\ q.pc = "claim" /\ q.who = mailing[r].who /\ q.to = mailing[r].to
  BY MailTyped DEF NotMailing, Mailings, MailPCs
<1>. QED  BY <1>1 DEF ToTrial

-----------------------------------------------------------------------------
(* Every step keeps the addresses. *)

\* Accounts and requests change only as AddressInv allows.
LEMMA AddressKept ==
    ASSUME AddressInv, people' \in [People -> Accounts],
           mailed' \in [People -> [Purposes -> Mails \cup {NoMail}]],
           claims' \subseteq Mails, mailing' \in [MailRequests -> Mailings],
           proofs' \in [People -> SUBSET Mails], trials' \subseteq People \X Mails,
           crossed' \subseteq People, bounds' \in [DOMAIN bounds' -> Nat],
           VerifiedUnlessCrossed',
           \A r \in MailRequests : MailingFits(mailing[r])'
    PROVE  AddressInv'
BY DEF AddressInv, MailTypeOK

\* Codes that are asked for.
LEMMA CodesAreAsked ==
    ASSUME AddressInv, NEW a \in People, NEW why \in Purposes,
           NEW e \in Mails \cup {NoMail}, SendMail(a, why, e)
    PROVE  AddressInv'
<1>1. mailed' \in [People -> [Purposes -> Mails \cup {NoMail}]]
  BY MailTyped DEF SendMail
<1>2. bounds' \in [DOMAIN bounds' -> Nat]
  BY BoundsCount DEF SendMail
<1>3. /\ mailing' \in [MailRequests -> Mailings]
      /\ \A s \in MailRequests : MailingFits(mailing[s])'
  BY AllFit DEF SendMail, Lasting
<1>4. VerifiedUnlessCrossed'
  BY DEF SendMail, AddressInv, VerifiedUnlessCrossed
<1>. QED  BY <1>1, <1>2, <1>3, <1>4, AddressKept DEF SendMail, AddressInv, MailTypeOK

\* An account that is made.
LEMMA AccountIsMade ==
    ASSUME AddressInv, NEW a \in People, NEW e \in Mails, Register(a, e)
    PROVE  AddressInv'
<1>. DEFINE p == [NoAccount EXCEPT !.state = "live", !.mail = e]
<1>1. p \in Accounts /\ ~p.verified
  BY DEF NoAccount, Accounts
<1>2. /\ people' \in [People -> Accounts] /\ ~people'[a].verified
      /\ \A b \in People : b # a => people'[b] = people[b]
  BY <1>1, MailTyped DEF Register
<1>3. Lasting
  BY <1>2 DEF Register, Lasting
<1>4. VerifiedUnlessCrossed'
  BY <1>2 DEF Register, AddressInv, VerifiedUnlessCrossed
<1>. QED  BY <1>2, <1>3, <1>4, AllFit, AddressKept DEF Register, AddressInv, MailTypeOK

\* A code that is typed: whoever types it has proven its address.
LEMMA CodeIsTyped ==
    ASSUME AddressInv, NEW r \in MailRequests, NEW a \in People,
           NEW why \in Purposes, TypeCode(r, a, why)
    PROVE  AddressInv'
<1>1. mailed[a][why] \in Mails
  BY MailTyped DEF TypeCode
<1>2. people[a].mail \in Mails \cup {NoMail} /\ people[a].verified \in BOOLEAN
      /\ people[a].state = "live"
  BY MailTyped DEF Accounts, TypeCode, Live
<1>3. PICK q \in Mailings :
         q = [pc |-> "write", who |-> a, why |-> why, read |-> people[a].mail,
              to |-> mailed[a][why], fresh |-> ~people[a].verified]
  <2>1. PICK fresh \in BOOLEAN : fresh = ~people[a].verified
    BY Zenon
  <2>. QED  BY <1>1, <1>2, <2>1 DEF Mailings, MailPCs
<1>4. /\ proofs' \in [People -> SUBSET Mails]
      /\ \A b \in People : proofs[b] \subseteq proofs'[b]
      /\ mailed[a][why] \in proofs'[a]
  BY <1>1, MailTyped DEF TypeCode
<1>5. Lasting
  BY <1>4 DEF TypeCode, Lasting
<1>6. MailingFits(q)'
  BY <1>1, <1>2, <1>3, <1>4 DEF TypeCode, MailingFits
<1>7. /\ mailing' \in [MailRequests -> Mailings]
      /\ \A s \in MailRequests : MailingFits(mailing[s])'
  BY <1>3, <1>5, <1>6, StillFits DEF TypeCode
<1>8. mailed' \in [People -> [Purposes -> Mails \cup {NoMail}]]
  BY MailTyped DEF TypeCode
<1>9. VerifiedUnlessCrossed'
  BY <1>4 DEF TypeCode, AddressInv, VerifiedUnlessCrossed
<1>. QED  BY <1>4, <1>7, <1>8, <1>9, AddressKept DEF TypeCode, AddressInv, MailTypeOK

\* A request that goes on to start a trial, of an account proven by then.
LEMMA TrialFits ==
    ASSUME AddressInv, Lasting, NEW r \in MailRequests, mailing[r].pc # "idle",
           ToTrial(r), people'[mailing[r].who].state # "none",
           people'[mailing[r].who].state = "live" => people'[mailing[r].who].ever
    PROVE  /\ mailing' \in [MailRequests -> Mailings]
           /\ \A s \in MailRequests : MailingFits(mailing[s])'
<1>1. PICK q \in Mailings :
         /\ mailing' = [mailing EXCEPT ![r] = q]
         /\ q.pc = "claim" /\ q.who = mailing[r].who /\ q.to = mailing[r].to
  BY TrialBegun
<1>2. MailingFits(q)'
  BY <1>1, MailTyped DEF MailingFits
<1>. QED  BY <1>1, <1>2, StillFits

\* A request that is over.
LEMMA OverStays ==
    ASSUME AddressInv, Lasting, NEW r \in MailRequests, Done(r)
    PROVE  /\ mailing' \in [MailRequests -> Mailings]
           /\ \A s \in MailRequests : MailingFits(mailing[s])'
BY StillFits, OverFits, MailTyped DEF Done

\* A request that moves on with what it has.
LEMMA GoneOn ==
    ASSUME AddressInv, Lasting, NEW r \in MailRequests, NEW pc \in MailPCs,
           Go(r, pc), mailing[r].pc # "idle",
           pc \in {"claim", "start", "check"} =>
              mailing[r].pc \in {"claim", "start", "check"},
           pc # "write"
    PROVE  /\ mailing' \in [MailRequests -> Mailings]
           /\ \A s \in MailRequests : MailingFits(mailing[s])'
<1>1. PICK q \in Mailings :
         /\ q = [mailing[r] EXCEPT !.pc = pc]
         /\ q.pc = pc /\ q.who = mailing[r].who /\ q.to = mailing[r].to
  <2>1. mailing[r] \in Mailings
    BY MailTyped
  <2>2. [mailing[r] EXCEPT !.pc = pc] \in Mailings
    BY <2>1 DEF Mailings
  <2>. QED  BY <2>1, <2>2 DEF Mailings
<1>2. mailing' = [mailing EXCEPT ![r] = q]
  BY <1>1 DEF Go
<1>3. MailingFits(mailing[r])
  BY DEF AddressInv
<1>4. MailingFits(q)'
  BY <1>1, <1>3, MailTyped DEF MailingFits, Lasting
<1>. QED  BY <1>2, <1>4, StillFits

\* What a code lets through: the address is marked verified, changed, or
\* verified by a recovery.
LEMMA CodeIsUsed ==
    ASSUME AddressInv, NEW r \in MailRequests,
           MarkVerified(r) \/ ChangeEmail(r) \/ RecoverPassword(r)
    PROVE  AddressInv'
<1>1. PICK a \in People : a = mailing[r].who
  BY MailTyped DEF MarkVerified, ChangeEmail, RecoverPassword
<1>2. PICK e \in Mails : e = mailing[r].to
  BY MailTyped DEF MarkVerified, ChangeEmail, RecoverPassword
<1>3. people[a].state # "none" /\ e \in proofs[a] /\ mailing[r].pc = "write"
  BY <1>1, <1>2 DEF AddressInv, MailingFits, MarkVerified, ChangeEmail, RecoverPassword
<1>4. people[a] \in Accounts /\ UNCHANGED <<claims, proofs, trials, bounds>>
  BY MailTyped DEF MarkVerified, ChangeEmail, RecoverPassword
<1>5. CASE Done(r) /\ UNCHANGED <<people, mailed, crossed>>
  <2>1. Lasting /\ VerifiedUnlessCrossed'
    BY <1>4, <1>5 DEF Lasting, AddressInv, VerifiedUnlessCrossed
  <2>. QED  BY <1>4, <1>5, <2>1, OverStays, AddressKept DEF AddressInv, MailTypeOK
<1>6. ASSUME NEW p \in Accounts, people' = [people EXCEPT ![a] = p],
             p.state = people[a].state, people[a].state = "live",
             mailed' \in [People -> [Purposes -> Mails \cup {NoMail}]],
             crossed' \subseteq People, crossed \subseteq crossed',
             people[a].ever => p.ever,
             p.verified => p.mail \in proofs[a] \cup {NoMail} \/ a \in crossed',
             Done(r) \/ (ToTrial(r) /\ p.ever)
      PROVE  AddressInv'
  <2>1. /\ people' \in [People -> Accounts] /\ people'[a] = p
        /\ \A b \in People : b # a => people'[b] = people[b]
    BY <1>6, MailTyped
  <2>2. Lasting
    BY <1>4, <1>6, <2>1 DEF Lasting
  <2>3. VerifiedUnlessCrossed'
    BY <1>4, <1>6, <2>1 DEF AddressInv, VerifiedUnlessCrossed
  <2>4. /\ mailing' \in [MailRequests -> Mailings]
        /\ \A s \in MailRequests : MailingFits(mailing[s])'
    BY <1>1, <1>3, <1>6, <2>1, <2>2, OverStays, TrialFits
  <2>. QED  BY <1>4, <1>6, <2>1, <2>3, <2>4, AddressKept DEF AddressInv, MailTypeOK
<1>7. CASE MarkVerified(r) /\ Live(a) /\ Marked(people[a], e)
  <2>1. PICK p : p = Proven(people[a], people[a].mail)
    OBVIOUS
  <2>2. p \in Accounts /\ p.verified /\ p.ever /\ p.mail = e /\ p.state = people[a].state
    BY <1>4, <1>7, <2>1 DEF Marked, Accounts, Proven
  <2>3. /\ people' = [people EXCEPT ![a] = p] /\ ToTrial(r)
        /\ UNCHANGED <<mailed, crossed>>
    BY <1>1, <1>2, <1>7, <2>1 DEF MarkVerified
  <2>. QED  BY <1>3, <1>6, <1>7, <2>2, <2>3, MailTyped DEF Live, AddressInv, MailTypeOK
<1>8. CASE ChangeEmail(r) /\ Live(a) /\ ~TakenByOther(e, a)
  <2>1. PICK p : p = Proven(people[a], e)
    OBVIOUS
  <2>2. p \in Accounts /\ p.verified /\ p.ever /\ p.mail = e /\ p.state = people[a].state
    BY <1>4, <2>1 DEF Accounts, Proven
  <2>3. /\ people' = [people EXCEPT ![a] = p] /\ (ToTrial(r) \/ Done(r))
        /\ mailed' = [mailed EXCEPT ![a] = NoCodes] /\ UNCHANGED crossed
    BY <1>1, <1>2, <1>8, <2>1 DEF ChangeEmail
  <2>. QED  BY <1>3, <1>6, <1>8, <2>2, <2>3, MailTyped DEF Live, AddressInv, MailTypeOK
<1>9. CASE RecoverPassword(r) /\ Live(a)
  <2>1. PICK verifies \in BOOLEAN : verifies = (mailing[r].read = mailing[r].to)
    OBVIOUS
  <2>2. PICK p : p = Recovered(people[a], verifies)
    OBVIOUS
  <2>3. /\ p \in Accounts /\ p.state = people[a].state /\ p.mail = people[a].mail
        /\ verifies => p.verified /\ p.ever
        /\ ~verifies => p.verified = people[a].verified /\ p.ever = people[a].ever
        /\ people[a].ever => p.ever
    BY <1>4, <2>2 DEF Accounts, Recovered
  <2>4. /\ people' = [people EXCEPT ![a] = p]
        /\ mailed' = [mailed EXCEPT ![a] = NoCodes]
        /\ crossed' = IF verifies /\ people[a].mail # mailing[r].read
                      THEN crossed \cup {a} ELSE crossed
        /\ Done(r) \/ (ToTrial(r) /\ verifies)
    BY <1>1, <1>9, <2>1, <2>2 DEF RecoverPassword
  <2>5. p.verified => p.mail \in proofs[a] \cup {NoMail} \/ a \in crossed'
    BY <1>2, <1>3, <2>1, <2>3, <2>4 DEF AddressInv, VerifiedUnlessCrossed
  <2>6. crossed' \subseteq People /\ crossed \subseteq crossed'
    BY <2>4 DEF AddressInv, MailTypeOK
  <2>. QED  BY <1>6, <1>9, <2>3, <2>4, <2>5, <2>6, MailTyped DEF Live
<1>. QED  BY <1>1, <1>2, <1>5, <1>7, <1>8, <1>9
          DEF MarkVerified, ChangeEmail, RecoverPassword

\* A request that only moves on, or is over.
LEMMA RequestGone ==
    ASSUME AddressInv, NEW r \in MailRequests, UNCHANGED <<people, mailed, proofs>>,
           claims' \subseteq Mails, UNCHANGED <<trials, crossed>>,
           bounds' \in [DOMAIN bounds' -> Nat],
           \/ Done(r)
           \/ \E pc \in {"start", "check"} :
                 Go(r, pc) /\ mailing[r].pc \in {"claim", "start"}
    PROVE  AddressInv'
<1>1. Lasting /\ VerifiedUnlessCrossed'
  BY DEF Lasting, AddressInv, VerifiedUnlessCrossed
<1>2. /\ mailing' \in [MailRequests -> Mailings]
      /\ \A s \in MailRequests : MailingFits(mailing[s])'
  BY <1>1, OverStays, GoneOn DEF MailPCs
<1>. QED  BY <1>1, <1>2, AddressKept DEF AddressInv, MailTypeOK

\* The start of a trial: the claim, the trial, and the look at it.
LEMMA TrialMoves ==
    ASSUME AddressInv, NEW r \in MailRequests, NEW enforced \in BOOLEAN,
           ClaimTrial(r) \/ StartTrial(r, enforced) \/ CheckTrial(r)
    PROVE  AddressInv'
<1>1. PICK a \in People : a = mailing[r].who
  BY MailTyped DEF ClaimTrial, StartTrial, CheckTrial
<1>2. PICK e \in Mails : e = mailing[r].to
  BY MailTyped DEF ClaimTrial, StartTrial, CheckTrial
<1>3. CASE ClaimTrial(r)
  BY <1>2, <1>3, RequestGone DEF ClaimTrial, AddressInv, MailTypeOK
<1>4. CASE CheckTrial(r)
  <2>1. claims' \subseteq Mails
    BY <1>4 DEF CheckTrial, AddressInv, MailTypeOK
  <2>. QED  BY <1>4, <2>1, RequestGone DEF CheckTrial, AddressInv, MailTypeOK
<1>5. CASE StartTrial(r, enforced)
  <2>1. CASE UNCHANGED <<people, trials>>
    BY <1>5, <2>1, RequestGone DEF StartTrial, AddressInv, MailTypeOK
  <2>2. CASE people' = [people EXCEPT ![a].plan = "trial"]
               /\ trials' = trials \cup {<<a, e>>}
    <3>1. PICK p : p = [people[a] EXCEPT !.plan = "trial"]
      OBVIOUS
    <3>2. /\ p \in Accounts /\ p.state = people[a].state /\ p.mail = people[a].mail
          /\ p.ever = people[a].ever /\ p.verified = people[a].verified
      BY <3>1, MailTyped DEF Accounts
    <3>3. people' = [people EXCEPT ![a] = p]
      BY <2>2, <3>1, MailTyped
    <3>4. /\ people' \in [People -> Accounts] /\ people'[a] = p
          /\ \A b \in People : b # a => people'[b] = people[b]
      BY <3>2, <3>3, MailTyped
    <3>5. Lasting
      BY <1>5, <3>2, <3>4 DEF StartTrial, Lasting
    <3>6. VerifiedUnlessCrossed'
      BY <1>5, <3>2, <3>4 DEF StartTrial, AddressInv, VerifiedUnlessCrossed
    <3>7. /\ mailing' \in [MailRequests -> Mailings]
          /\ \A s \in MailRequests : MailingFits(mailing[s])'
      BY <1>5, <3>5, GoneOn DEF StartTrial, MailPCs
    <3>8. trials' \subseteq People \X Mails
      BY <2>2 DEF AddressInv, MailTypeOK
    <3>. QED  BY <1>5, <3>4, <3>6, <3>7, <3>8, AddressKept
              DEF StartTrial, AddressInv, MailTypeOK
  <2>. QED  BY <1>1, <1>2, <1>5, <2>1, <2>2 DEF StartTrial
<1>. QED  BY <1>3, <1>4, <1>5

\* A Google sign-up: the look, the address taken, and the account made.
LEMMA GoogleSignsUp ==
    ASSUME AddressInv, NEW r \in MailRequests,
           \/ \E a \in People, e \in Mails, authoritative \in BOOLEAN :
                 GoogleLook(r, a, e, authoritative)
           \/ GoogleDetach(r) \/ GoogleCreate(r)
    PROVE  AddressInv'
<1>1. ASSUME NEW a \in People, NEW e \in Mails, NEW authoritative \in BOOLEAN,
             GoogleLook(r, a, e, authoritative)
      PROVE  AddressInv'
  <2>1. PICK pc \in {"detach", "create"} : pc = IF Taken(e) THEN "detach" ELSE "create"
    OBVIOUS
  <2>2. PICK q \in Mailings :
          /\ q = [NotMailing EXCEPT !.who = a, !.to = e, !.fresh = authoritative, !.pc = pc]
          /\ q.pc \in {"detach", "create"} /\ q.who = a /\ q.to = e
    <3>1. PICK q : q = [NotMailing EXCEPT !.who = a, !.to = e, !.fresh = authoritative,
                                          !.pc = pc]
      OBVIOUS
    <3>2. q \in Mailings
      BY <3>1 DEF Mailings, NotMailing, MailPCs
    <3>3. q.pc \in {"detach", "create"} /\ q.who = a /\ q.to = e
      BY <3>1 DEF NotMailing
    <3>. QED  BY <3>1, <3>2, <3>3
  <2>3. mailing' = [mailing EXCEPT ![r] = q]
    BY <1>1, <2>1, <2>2 DEF GoogleLook
  <2>4. Lasting /\ VerifiedUnlessCrossed'
    BY <1>1 DEF GoogleLook, Lasting, AddressInv, VerifiedUnlessCrossed
  <2>5. MailingFits(q)'
    BY <2>2 DEF MailingFits
  <2>. QED  BY <1>1, <2>3, <2>4, <2>5, StillFits, AddressKept
            DEF GoogleLook, AddressInv, MailTypeOK
<1>2. CASE GoogleDetach(r)
  <2>. DEFINE found == {b \in People : people[b].mail = mailing[r].to
                                         /\ Detachable(people[b])}
  <2>1. \A b \in People :
           people'[b] = IF b \in found THEN [people[b] EXCEPT !.mail = NoMail]
                        ELSE people[b]
    BY <1>2 DEF GoogleDetach
  <2>2. /\ people' = [b \in People |-> people'[b]]
        /\ mailed' \in [People -> [Purposes -> Mails \cup {NoMail}]]
    BY <1>2, MailTyped DEF GoogleDetach
  <2>3. ASSUME NEW b \in People
        PROVE  /\ people'[b] \in Accounts /\ people'[b].state = people[b].state
               /\ people'[b].ever = people[b].ever
               /\ people'[b].verified = people[b].verified
               /\ people[b].verified => people'[b].mail = people[b].mail
    <3>1. PICK p : p = [people[b] EXCEPT !.mail = NoMail]
      OBVIOUS
    <3>2. p \in Accounts /\ p.state = people[b].state /\ p.ever = people[b].ever
          /\ p.verified = people[b].verified
      BY <3>1, MailTyped DEF Accounts
    <3>3. b \in found => ~people[b].verified
      BY DEF Detachable
    <3>4. people'[b] = IF b \in found THEN p ELSE people[b]
      BY <2>1, <3>1
    <3>. QED  BY <3>2, <3>3, <3>4, MailTyped
  <2>4. people' \in [People -> Accounts]
    BY <2>2, <2>3
  <2>5. Lasting
    BY <1>2, <2>3 DEF GoogleDetach, Lasting
  <2>6. VerifiedUnlessCrossed'
    BY <1>2, <2>3 DEF GoogleDetach, AddressInv, VerifiedUnlessCrossed
  <2>7. Done(r) \/ Go(r, "create")
    BY <1>2 DEF GoogleDetach
  <2>8. mailing[r].pc = "detach"
    BY <1>2 DEF GoogleDetach
  <2>9. /\ mailing' \in [MailRequests -> Mailings]
        /\ \A s \in MailRequests : MailingFits(mailing[s])'
    BY <2>5, <2>7, <2>8, OverStays, GoneOn DEF MailPCs
  <2>. QED  BY <1>2, <2>2, <2>4, <2>6, <2>9, AddressKept
            DEF GoogleDetach, AddressInv, MailTypeOK
<1>3. CASE GoogleCreate(r)
  <2>1. PICK a \in People : a = mailing[r].who
    BY <1>3, MailTyped DEF GoogleCreate
  <2>2. PICK e \in Mails : e = mailing[r].to
    BY <1>3, MailTyped DEF GoogleCreate
  <2>3. PICK proven \in BOOLEAN : proven = mailing[r].fresh
    BY MailTyped DEF Mailings
  <2>4. CASE Done(r) /\ UNCHANGED <<people, proofs>>
    BY <1>3, <2>4, RequestGone DEF GoogleCreate, AddressInv, MailTypeOK
  <2>5. CASE /\ people[a].state = "none"
             /\ people' = [people EXCEPT ![a] =
                  [state |-> "live", mail |-> e, verified |-> proven,
                   ever |-> proven, extra |-> TRUE, plan |-> "none"]]
             /\ proofs' = [proofs EXCEPT ![a] = IF proven THEN {e} ELSE {}]
             /\ IF proven THEN ToTrial(r) ELSE Done(r)
    <3>1. PICK p \in Accounts :
             /\ p = [state |-> "live", mail |-> e, verified |-> proven,
                     ever |-> proven, extra |-> TRUE, plan |-> "none"]
             /\ p.state = "live" /\ p.mail = e /\ p.verified = proven /\ p.ever = proven
      <4>1. PICK p : p = [state |-> "live", mail |-> e, verified |-> proven,
                          ever |-> proven, extra |-> TRUE, plan |-> "none"]
        OBVIOUS
      <4>2. TRUE \in BOOLEAN
        OBVIOUS
      <4>3. p \in Accounts
        BY <4>1, <4>2 DEF Accounts
      <4>. QED  BY <4>1, <4>3
    <3>2. /\ people' \in [People -> Accounts] /\ people'[a] = p
          /\ \A b \in People : b # a => people'[b] = people[b]
      BY <2>5, <3>1, MailTyped
    <3>3. /\ proofs' \in [People -> SUBSET Mails] /\ (proven => proofs'[a] = {e})
          /\ \A b \in People : b # a => proofs'[b] = proofs[b]
      BY <2>5, MailTyped
    <3>4. Lasting
      BY <2>5, <3>2, <3>3 DEF Lasting
    <3>5. VerifiedUnlessCrossed'
      BY <1>3, <3>1, <3>2, <3>3 DEF GoogleCreate, AddressInv, VerifiedUnlessCrossed
    <3>6. /\ mailing' \in [MailRequests -> Mailings]
          /\ \A s \in MailRequests : MailingFits(mailing[s])'
      BY <1>3, <2>1, <2>5, <3>1, <3>2, <3>4, OverStays, TrialFits DEF GoogleCreate
    <3>. QED  BY <1>3, <3>2, <3>3, <3>5, <3>6, AddressKept
              DEF GoogleCreate, AddressInv, MailTypeOK
  <2>. QED  BY <1>3, <2>1, <2>2, <2>3, <2>4, <2>5 DEF GoogleCreate
<1>. QED  BY <1>1, <1>2, <1>3

\* One account changes, and no request.
LEMMA PersonChanges ==
    ASSUME AddressInv, NEW a \in People, NEW p \in Accounts,
           people' = [people EXCEPT ![a] = p],
           people[a].state # "none" => p.state # "none",
           p.state = "live" => people[a].state = "live" /\ (people[a].ever => p.ever),
           p.verified => people[a].verified /\ p.mail = people[a].mail,
           mailed' \in [People -> [Purposes -> Mails \cup {NoMail}]],
           bounds' \in [DOMAIN bounds' -> Nat],
           UNCHANGED <<claims, mailing, proofs, trials, crossed>>
    PROVE  AddressInv'
<1>1. /\ people' \in [People -> Accounts] /\ people'[a] = p
      /\ \A b \in People : b # a => people'[b] = people[b]
  BY MailTyped
<1>2. Lasting
  BY <1>1 DEF Lasting
<1>3. VerifiedUnlessCrossed'
  BY <1>1 DEF AddressInv, VerifiedUnlessCrossed
<1>. QED  BY <1>1, <1>2, <1>3, AllFit, AddressKept DEF AddressInv, MailTypeOK

\* What else touches an account.
LEMMA OthersTouch ==
    ASSUME AddressInv, NEW a \in People,
           \/ SetUpExtra(a) \/ DeletePerson(a) \/ Purge(a) \/ TrialEnds(a)
           \/ \E e \in Mails \cup {NoMail} : StaffSetEmail(a, e)
    PROVE  AddressInv'
<1>1. people[a] \in Accounts /\ bounds \in [DOMAIN bounds -> Nat]
  BY MailTyped DEF AddressInv, MailTypeOK
<1>2. CASE SetUpExtra(a)
  <2>1. PICK p : p = [people[a] EXCEPT !.extra = TRUE]
    OBVIOUS
  <2>2. /\ p \in Accounts /\ p.state = people[a].state /\ p.ever = people[a].ever
        /\ p.verified = people[a].verified /\ p.mail = people[a].mail
    BY <1>1, <2>1 DEF Accounts
  <2>3. people' = [people EXCEPT ![a] = p]
    BY <1>2, <2>1, MailTyped DEF SetUpExtra
  <2>4. UNCHANGED <<mailed, claims, mailing, proofs, trials, crossed, bounds>>
    BY <1>2 DEF SetUpExtra
  <2>5. /\ mailed' \in [People -> [Purposes -> Mails \cup {NoMail}]]
        /\ bounds' \in [DOMAIN bounds' -> Nat]
    BY <1>1, <2>4, MailTyped
  <2>. QED  BY <2>2, <2>3, <2>4, <2>5, PersonChanges
<1>3. CASE TrialEnds(a)
  <2>1. PICK p : p = [people[a] EXCEPT !.plan = "over"]
    OBVIOUS
  <2>2. /\ p \in Accounts /\ p.state = people[a].state /\ p.ever = people[a].ever
        /\ p.verified = people[a].verified /\ p.mail = people[a].mail
    BY <1>1, <2>1 DEF Accounts
  <2>3. people' = [people EXCEPT ![a] = p]
    BY <1>3, <2>1, MailTyped DEF TrialEnds
  <2>4. UNCHANGED <<mailed, claims, mailing, proofs, trials, crossed, bounds>>
    BY <1>3 DEF TrialEnds
  <2>5. /\ mailed' \in [People -> [Purposes -> Mails \cup {NoMail}]]
        /\ bounds' \in [DOMAIN bounds' -> Nat]
    BY <1>1, <2>4, MailTyped
  <2>. QED  BY <2>2, <2>3, <2>4, <2>5, PersonChanges
<1>4. CASE DeletePerson(a) \/ Purge(a)
  <2>1. PICK how \in {"deleted", "purged"} : Remove(a, how)
    BY <1>4 DEF DeletePerson, Purge
  <2>2. PICK p : p = [NoAccount EXCEPT !.state = how]
    OBVIOUS
  <2>3. p \in Accounts /\ p.state = how /\ ~p.verified
    BY <2>2 DEF Accounts, NoAccount
  <2>4. mailed' \in [People -> [Purposes -> Mails \cup {NoMail}]]
    BY <2>1, MailTyped DEF Remove
  <2>. QED  BY <1>1, <2>1, <2>2, <2>3, <2>4, PersonChanges DEF Remove
<1>5. ASSUME NEW e \in Mails \cup {NoMail}, StaffSetEmail(a, e)
      PROVE  AddressInv'
  <2>1. PICK p : p = [people[a] EXCEPT !.mail = e, !.verified = FALSE]
    OBVIOUS
  <2>2. /\ p \in Accounts /\ p.state = people[a].state /\ p.ever = people[a].ever
        /\ ~p.verified
    BY <1>1, <2>1 DEF Accounts
  <2>3. people' = [people EXCEPT ![a] = p]
    BY <1>5, <2>1, MailTyped DEF StaffSetEmail
  <2>4. mailed' \in [People -> [Purposes -> Mails \cup {NoMail}]]
    BY <1>5, MailTyped DEF StaffSetEmail
  <2>5. bounds' \in [DOMAIN bounds' -> Nat]
    BY <1>5, BoundsCount DEF StaffSetEmail
  <2>6. UNCHANGED <<claims, mailing, proofs, trials, crossed>>
    BY <1>5 DEF StaffSetEmail
  <2>. QED  BY <2>2, <2>3, <2>4, <2>5, <2>6, PersonChanges
<1>. QED  BY <1>2, <1>3, <1>4, <1>5

\* Every step of a request keeps the addresses.
LEMMA AddressRequest ==
    ASSUME AddressInv, NEW r \in MailRequests, MailRequest(r)
    PROVE  AddressInv'
<1>1. CASE LoseMailing(r)
  <2>1. bounds' \in [DOMAIN bounds' -> Nat]
    BY <1>1, BoundsCount DEF LoseMailing
  <2>. QED  BY <1>1, <2>1, RequestGone DEF LoseMailing, AddressInv, MailTypeOK
<1>. QED  BY <1>1, CodeIsTyped, CodeIsUsed, TrialMoves, GoogleSignsUp DEF MailRequest

\* Every step keeps the addresses.
LEMMA AddressStep ==
    ASSUME AddressInv, [MailNext]_mailVars
    PROVE  AddressInv'
<1>1. CASE UNCHANGED mailVars
  BY <1>1 DEF mailVars, AddressInv, MailTypeOK, VerifiedUnlessCrossed, MailingFits
<1>2. ASSUME NEW a \in People, NEW e \in Mails, StartChange(a, e)
      PROVE  AddressInv'
  <2>1. PICK to \in Mails \cup {NoMail} : to = IF TakenByOther(e, a) THEN NoMail ELSE e
    OBVIOUS
  <2>. QED  BY <1>2, <2>1, CodesAreAsked DEF StartChange, Purposes
<1>3. ASSUME NEW a \in People, NEW why \in {"verify", "recover"}, AskByMail(a, why)
      PROVE  AddressInv'
  <2>1. PICK to \in Mails \cup {NoMail} : to = people[a].mail
    BY MailTyped DEF Accounts
  <2>. QED  BY <1>3, <2>1, CodesAreAsked DEF AskByMail, Purposes
<1>. QED  BY <1>1, <1>2, <1>3, AddressRequest, AccountIsMade, OthersTouch DEF MailNext

\* At the start there are no accounts.
LEMMA AddressStart ==
    ASSUME MailInit
    PROVE  AddressInv
<1>1. NoAccount \in Accounts /\ ~NoAccount.verified
  BY DEF NoAccount, Accounts
<1>2. NotMailing \in Mailings /\ NotMailing.pc = "idle"
  BY DEF NotMailing, Mailings, MailPCs
<1>3. NoCodes \in [Purposes -> Mails \cup {NoMail}]
  BY DEF NoCodes
<1>4. MailTypeOK
  BY <1>1, <1>2, <1>3 DEF MailInit, MailTypeOK
<1>5. VerifiedUnlessCrossed
  BY <1>1 DEF MailInit, VerifiedUnlessCrossed
<1>6. \A r \in MailRequests : MailingFits(mailing[r])
  BY <1>2 DEF MailInit, MailingFits
<1>. QED  BY <1>4, <1>5, <1>6 DEF AddressInv

\* The type invariant of the addresses.
THEOREM MailTypes == MailSpec => []MailTypeOK
BY AddressStart, AddressStep, PTL DEF MailSpec, AddressInv

\* An address is verified for an account only when the account proved it,
\* whatever else is done to the account between the code and its use, but
\* for an address replaced under a recovery (mark_email_verified,
\* change_email, recover_password, detach_unverified_email).
THEOREM VerifiedIsProven == MailSpec => []VerifiedUnlessCrossed
BY AddressStart, AddressStep, PTL DEF MailSpec, AddressInv

-----------------------------------------------------------------------------
(* One trial per address. *)

\* What the trials and the claims are.
LEMMA TrialsTyped ==
    ASSUME AddressInv
    PROVE  /\ claims \subseteq Mails /\ trials \subseteq People \X Mails
           /\ \A t \in trials : t[1] \in People /\ t[2] \in Mails /\ t = <<t[1], t[2]>>
BY DEF AddressInv, MailTypeOK

\* Steps that start no trial, give no claim back, and touch no trial that a
\* request is about to look at.
LEMMA TrialsKept ==
    ASSUME AddressInv, TrialsInv, UNCHANGED trials, claims \subseteq claims',
           \A r \in MailRequests : Starting(r)' =>
              Starting(r) /\ mailing'[r] = mailing[r],
           \A t \in trials, r \in MailRequests :
              mailing[r].pc = "check" /\ mailing[r].to = t[2] =>
                 people'[t[1]].state = people[t[1]].state
                   /\ people'[t[1]].plan = people[t[1]].plan
    PROVE  TrialsInv'
BY DEF TrialsInv, Starting

\* A request that is not starting a trial after its step.
LEMMA NotStarting ==
    ASSUME AddressInv, NEW r \in MailRequests, NEW q,
           q.pc \notin {"start", "check"}, mailing' = [mailing EXCEPT ![r] = q]
    PROVE  \A s \in MailRequests : Starting(s)' =>
              Starting(s) /\ mailing'[s] = mailing[s]
BY MailTyped DEF Starting

\* The start of a trial.
LEMMA TrialsMove ==
    ASSUME AddressInv, TrialsInv, NEW r \in MailRequests, NEW enforced \in BOOLEAN,
           ClaimTrial(r) \/ StartTrial(r, enforced) \/ CheckTrial(r)
    PROVE  TrialsInv'
<1>1. PICK a \in People : a = mailing[r].who
  BY MailTyped DEF ClaimTrial, StartTrial, CheckTrial
<1>2. PICK e \in Mails : e = mailing[r].to
  BY MailTyped DEF ClaimTrial, StartTrial, CheckTrial
<1>3. ASSUME NEW pc \in {"start", "check"}, Go(r, pc)
      PROVE  /\ mailing'[r].pc = pc /\ mailing'[r].who = a /\ mailing'[r].to = e
             /\ \A s \in MailRequests : s # r => mailing'[s] = mailing[s]
  BY <1>1, <1>2, <1>3, MailTyped DEF Go, Mailings
<1>4. ASSUME Done(r)
      PROVE  /\ mailing'[r] = NotMailing
             /\ \A s \in MailRequests : s # r => mailing'[s] = mailing[s]
  BY <1>4, MailTyped DEF Done
<1>5. CASE ClaimTrial(r) /\ Done(r) /\ UNCHANGED claims
  <2>1. UNCHANGED <<people, trials>>
    BY <1>5 DEF ClaimTrial
  <2>. QED  BY <1>4, <1>5, <2>1, MailTyped, TrialsKept DEF Starting
<1>6. CASE ClaimTrial(r) /\ e \notin claims /\ claims' = claims \cup {e} /\ Go(r, "start")
  <2>1. UNCHANGED <<people, trials>>
    BY <1>6 DEF ClaimTrial
  <2>2. \A s \in MailRequests : Starting(s)' => s = r \/ Starting(s)
    BY <1>3, <1>6 DEF Starting
  <2>. QED  BY <1>3, <1>6, <2>1, <2>2 DEF TrialsInv, Starting
<1>7. CASE CheckTrial(r)
  <2>1. UNCHANGED <<people, trials>> /\ mailing[r].pc = "check" /\ Starting(r)
    BY <1>7 DEF CheckTrial, Starting
  <2>2. /\ mailing'[r].pc = "idle"
        /\ \A s \in MailRequests : s # r => mailing'[s] = mailing[s]
    BY <1>4, <1>7, MailTyped DEF CheckTrial
  <2>3. CASE claims' = claims
    BY <2>1, <2>2, <2>3, TrialsKept DEF Starting
  <2>4. CASE claims' = claims \ {e} /\ ~(Live(a) /\ people[a].plan = "trial")
    <3>1. \A t \in trials : t[2] # e
      BY <1>1, <1>2, <2>1, <2>4 DEF TrialsInv, Live
    <3>2. \A s \in MailRequests : Starting(s)' =>
             s # r /\ Starting(s) /\ mailing'[s] = mailing[s] /\ mailing'[s].to # e
      BY <1>2, <2>1, <2>2 DEF TrialsInv, Starting
    <3>. QED  BY <2>1, <2>2, <2>4, <3>1, <3>2 DEF TrialsInv, Starting
  <2>. QED  BY <1>1, <1>2, <1>7, <2>3, <2>4 DEF CheckTrial
<1>8. CASE StartTrial(r, enforced)
  <2>1. /\ mailing[r].pc = "start" /\ Starting(r) /\ UNCHANGED claims
        /\ mailing'[r].pc = "check" /\ mailing'[r].who = a /\ mailing'[r].to = e
        /\ \A s \in MailRequests : s # r => mailing'[s] = mailing[s]
    BY <1>3, <1>8 DEF StartTrial, Starting
  <2>2. \A s \in MailRequests : Starting(s)' =>
           Starting(s) /\ mailing'[s].to = mailing[s].to
    BY <1>2, <2>1 DEF Starting
  <2>3. \A t \in trials : t[2] # e
    BY <1>2, <2>1 DEF TrialsInv
  <2>4. CASE UNCHANGED <<people, trials>>
    BY <2>1, <2>2, <2>3, <2>4 DEF TrialsInv, Starting
  <2>5. CASE /\ Live(a) /\ people' = [people EXCEPT ![a].plan = "trial"]
             /\ trials' = trials \cup {<<a, e>>}
    <3>1. /\ people'[a].state = "live" /\ people'[a].plan = "trial"
          /\ \A b \in People : b # a => people'[b] = people[b]
      BY <2>5, MailTyped DEF Live, Accounts
    <3>2. \A s \in MailRequests : mailing[s].pc = "check" => mailing[s].to # e
      BY <1>2, <2>1 DEF TrialsInv, Starting
    <3>3. \A s \in MailRequests : Starting(s)' => mailing'[s].to \in claims'
      BY <2>1, <2>2 DEF TrialsInv
    <3>4. \A s, q \in MailRequests :
             Starting(s)' /\ Starting(q)' /\ mailing'[s].to = mailing'[q].to => s = q
      BY <2>2 DEF TrialsInv
    <3>5. ASSUME NEW t \in trials'
          PROVE  /\ t[2] \in claims'
                 /\ \A s \in MailRequests : mailing'[s].to = t[2] =>
                       /\ mailing'[s].pc # "start"
                       /\ mailing'[s].pc = "check" =>
                             /\ mailing'[s].who = t[1]
                             /\ people'[t[1]].state = "live"
                             /\ people'[t[1]].plan = "trial"
      <4>1. CASE t \in trials
        <5>1. t[2] # e /\ t[1] \in People /\ t[2] \in claims
          BY <2>3, <4>1, TrialsTyped DEF TrialsInv
        <5>. QED  BY <2>1, <3>1, <4>1, <5>1 DEF TrialsInv
      <4>2. CASE t = <<a, e>>
        <5>1. t[1] = a /\ t[2] = e /\ e \in claims'
          BY <1>2, <2>1, <4>2 DEF TrialsInv
        <5>2. ASSUME NEW s \in MailRequests, s # r, mailing[s].to = e
              PROVE  ~Starting(s)
          BY <1>2, <2>1, <5>2 DEF TrialsInv
        <5>. QED  BY <2>1, <3>1, <5>1, <5>2 DEF Starting
      <4>. QED  BY <2>5, <4>1, <4>2
    <3>6. \A s, t \in trials' : s[2] = t[2] => s[1] = t[1]
      BY <2>3, <2>5 DEF TrialsInv
    <3>. QED  BY <3>3, <3>4, <3>5, <3>6 DEF TrialsInv
  <2>. QED  BY <1>1, <1>2, <1>8, <2>4, <2>5 DEF StartTrial
<1>. QED  BY <1>2, <1>5, <1>6, <1>7, <1>8 DEF ClaimTrial, ClaimFree

\* What a code lets through, and a Google sign-up, keep the trials.
LEMMA TrialsRequest ==
    ASSUME AddressInv, TrialsInv, NEW r \in MailRequests,
           \/ \E a \in People, why \in Purposes : TypeCode(r, a, why)
           \/ MarkVerified(r) \/ ChangeEmail(r) \/ RecoverPassword(r)
           \/ \E a \in People, e \in Mails, authoritative \in BOOLEAN :
                 GoogleLook(r, a, e, authoritative)
           \/ GoogleDetach(r) \/ GoogleCreate(r) \/ LoseMailing(r)
    PROVE  TrialsInv'
<1>1. \/ UNCHANGED mailing
      \/ \E q : q.pc \notin {"start", "check"} /\ mailing' = [mailing EXCEPT ![r] = q]
  <2>1. ASSUME Done(r)
        PROVE  \E q : q.pc \notin {"start", "check"} /\ mailing' = [mailing EXCEPT ![r] = q]
    BY <2>1, MailTyped DEF Done
  <2>2. ASSUME ToTrial(r), mailing[r].pc # "idle"
        PROVE  \E q : q.pc \notin {"start", "check"} /\ mailing' = [mailing EXCEPT ![r] = q]
    BY <2>2, TrialBegun
  <2>3. ASSUME Go(r, "create")
        PROVE  \E q : q.pc \notin {"start", "check"} /\ mailing' = [mailing EXCEPT ![r] = q]
    <3>1. PICK q : q = [mailing[r] EXCEPT !.pc = "create"]
      OBVIOUS
    <3>2. q.pc = "create" /\ mailing' = [mailing EXCEPT ![r] = q]
      BY <2>3, <3>1, MailTyped DEF Go, Mailings
    <3>. QED  BY <3>2
  <2>4. ASSUME NEW a \in People, NEW why \in Purposes, TypeCode(r, a, why)
        PROVE  \E q : q.pc \notin {"start", "check"} /\ mailing' = [mailing EXCEPT ![r] = q]
    <3>1. PICK fresh \in BOOLEAN : fresh = ~people[a].verified
      BY Zenon
    <3>2. PICK q : q = [pc |-> "write", who |-> a, why |-> why,
                        read |-> people[a].mail, to |-> mailed[a][why],
                        fresh |-> fresh]
      OBVIOUS
    <3>3. q.pc = "write"
      BY <3>2
    <3>. QED  BY <2>4, <3>1, <3>2, <3>3 DEF TypeCode
  <2>5. ASSUME NEW a \in People, NEW e \in Mails, NEW authoritative \in BOOLEAN,
               GoogleLook(r, a, e, authoritative)
        PROVE  \E q : q.pc \notin {"start", "check"} /\ mailing' = [mailing EXCEPT ![r] = q]
    <3>1. PICK pc : pc = (IF Taken(e) THEN "detach" ELSE "create")
      OBVIOUS
    <3>2. PICK q : q = [NotMailing EXCEPT !.who = a, !.to = e, !.fresh = authoritative,
                                          !.pc = pc]
      OBVIOUS
    <3>3. q.pc = pc /\ pc \in {"detach", "create"}
      BY <3>1, <3>2 DEF NotMailing
    <3>. QED  BY <2>5, <3>1, <3>2, <3>3 DEF GoogleLook
  <2>6. CASE MarkVerified(r) \/ ChangeEmail(r) \/ RecoverPassword(r)
    BY <2>1, <2>2, <2>6 DEF MarkVerified, ChangeEmail, RecoverPassword
  <2>7. CASE GoogleDetach(r) \/ GoogleCreate(r) \/ LoseMailing(r)
    BY <2>1, <2>2, <2>3, <2>7 DEF GoogleDetach, GoogleCreate, LoseMailing
  <2>. QED  BY <2>4, <2>5, <2>6, <2>7
<1>2. \A s \in MailRequests : Starting(s)' => Starting(s) /\ mailing'[s] = mailing[s]
  BY <1>1, NotStarting DEF Starting
<1>3. UNCHANGED <<trials, claims>>
  BY DEF TypeCode, SendMail, MarkVerified, ChangeEmail, RecoverPassword, GoogleLook,
     GoogleDetach, GoogleCreate, LoseMailing
<1>4. ASSUME NEW b \in People, people[b].state # "none"
      PROVE  people'[b].state = people[b].state /\ people'[b].plan = people[b].plan
  <2>1. people[b] \in Accounts /\ people \in [People -> Accounts]
    BY MailTyped
  <2>2. ASSUME NEW a \in People, NEW p, people' = [people EXCEPT ![a] = p],
               p.state = people[a].state, p.plan = people[a].plan
        PROVE  people'[b].state = people[b].state /\ people'[b].plan = people[b].plan
    BY <2>1, <2>2
  <2>3. CASE MarkVerified(r) \/ ChangeEmail(r) \/ RecoverPassword(r)
    <3>1. PICK a \in People : a = mailing[r].who
      BY <2>3, MailTyped DEF MarkVerified, ChangeEmail, RecoverPassword
    <3>2. people[a] \in Accounts
      BY MailTyped
    <3>3. \/ people' = people
          \/ people' = [people EXCEPT ![a] = Proven(people[a], people[a].mail)]
          \/ people' = [people EXCEPT ![a] = Proven(people[a], mailing[r].to)]
          \/ \E v : people' = [people EXCEPT ![a] = Recovered(people[a], v)]
      BY <2>3, <3>1 DEF MarkVerified, ChangeEmail, RecoverPassword
    <3>4. ASSUME NEW e
          PROVE  /\ Proven(people[a], e).state = people[a].state
                 /\ Proven(people[a], e).plan = people[a].plan
                 /\ Recovered(people[a], e).state = people[a].state
                 /\ Recovered(people[a], e).plan = people[a].plan
      BY <3>2 DEF Proven, Recovered, Accounts
    <3>. QED  BY <2>2, <3>3, <3>4
  <2>4. CASE GoogleDetach(r)
    BY <2>1, <2>4 DEF GoogleDetach, Accounts
  <2>5. CASE GoogleCreate(r)
    BY <1>4, <2>1, <2>5 DEF GoogleCreate
  <2>6. CASE UNCHANGED people
    BY <2>6
  <2>. QED  BY <2>3, <2>4, <2>5, <2>6 DEF TypeCode, GoogleLook, LoseMailing
<1>5. ASSUME NEW t \in trials, NEW s \in MailRequests,
             mailing[s].pc = "check", mailing[s].to = t[2]
      PROVE  /\ people'[t[1]].state = people[t[1]].state
             /\ people'[t[1]].plan = people[t[1]].plan
  <2>1. t[1] \in People /\ people[t[1]].state = "live"
    BY <1>5, TrialsTyped DEF TrialsInv
  <2>. QED  BY <1>4, <2>1
<1>. QED  BY <1>2, <1>3, <1>5, TrialsKept

\* What else touches an account spares a trial that is about to be looked at:
\* by assumption, or because its account was proven.
LEMMA TrialsSpared ==
    ASSUME ~MidTrial, AddressInv, TrialsInv, NEW a \in People,
           \/ SetUpExtra(a) \/ DeletePerson(a) \/ Purge(a) \/ TrialEnds(a)
           \/ \E e \in Mails \cup {NoMail} : StaffSetEmail(a, e)
           \/ \E e \in Mails : Register(a, e)
    PROVE  TrialsInv'
<1>1. UNCHANGED <<trials, claims, mailing>>
  BY DEF SetUpExtra, DeletePerson, Purge, Remove, TrialEnds, StaffSetEmail, Register
<1>2. ASSUME NEW t \in trials, NEW r \in MailRequests,
             mailing[r].pc = "check", mailing[r].to = t[2]
      PROVE  /\ people'[t[1]].state = people[t[1]].state
             /\ people'[t[1]].plan = people[t[1]].plan
  <2>1. /\ mailing[r].who = t[1] /\ t[1] \in People
        /\ people[t[1]].state = "live" /\ people[t[1]].ever
    BY <1>2, TrialsTyped DEF TrialsInv, AddressInv, MailingFits
  <2>2. CASE t[1] # a
    <3>1. \E p : people' = [people EXCEPT ![a] = p]
      <4>1. CASE SetUpExtra(a)
        BY <4>1, MailTyped DEF SetUpExtra
      <4>2. CASE DeletePerson(a) \/ Purge(a)
        BY <4>2 DEF DeletePerson, Purge, Remove
      <4>3. CASE TrialEnds(a)
        BY <4>3, MailTyped DEF TrialEnds
      <4>4. ASSUME NEW e, StaffSetEmail(a, e) \/ Register(a, e)
            PROVE  \E p : people' = [people EXCEPT ![a] = p]
        BY <4>4, MailTyped DEF StaffSetEmail, Register
      <4>. QED  BY <4>1, <4>2, <4>3, <4>4
    <3>. QED  BY <2>1, <2>2, <3>1, MailTyped
  <2>3. CASE t[1] = a
    <3>1. ~Settled(a)
      BY <1>2, <2>1, <2>3 DEF Settled
    <3>2. ~DeletePerson(a) /\ ~Purge(a) /\ ~TrialEnds(a) /\ \A e : ~Register(a, e)
      BY <2>1, <2>3, <3>1 DEF DeletePerson, Purge, Purgeable, TrialEnds, Register
    <3>3. CASE SetUpExtra(a)
      BY <2>3, <3>3, MailTyped DEF SetUpExtra, Accounts
    <3>4. ASSUME NEW e, StaffSetEmail(a, e)
          PROVE  /\ people'[a].state = people[a].state
                 /\ people'[a].plan = people[a].plan
      BY <3>4, MailTyped DEF StaffSetEmail, Accounts
    <3>. QED  BY <2>3, <3>2, <3>3, <3>4
  <2>. QED  BY <2>2, <2>3
<1>. QED  BY <1>1, <1>2, TrialsKept DEF Starting

\* Every step keeps the trials apart.
LEMMA TrialsStep ==
    ASSUME ~MidTrial, AddressInv, TrialsInv, [MailNext]_mailVars
    PROVE  TrialsInv'
<1>1. CASE UNCHANGED mailVars
  BY <1>1 DEF mailVars, TrialsInv, Starting
<1>2. ASSUME NEW r \in MailRequests, MailRequest(r)
      PROVE  TrialsInv'
  BY <1>2, TrialsMove, TrialsRequest DEF MailRequest
<1>3. ASSUME NEW a \in People, NEW why, NEW e, SendMail(a, why, e)
      PROVE  TrialsInv'
  BY <1>3, TrialsKept DEF SendMail, Starting
<1>. QED  BY <1>1, <1>2, <1>3, TrialsSpared DEF MailNext, StartChange, AskByMail

\* At the start nothing is on trial.
LEMMA TrialsStart ==
    ASSUME MailInit
    PROVE  TrialsInv
BY DEF MailInit, TrialsInv, Starting, NotMailing

\* Trials that are of one account are one.
LEMMA TrialsAreOne ==
    ASSUME TrialsInv
    PROVE  OneTrialPerMail
<1>1. SUFFICES ASSUME NEW e \in Mails
               PROVE  Cardinality({a \in People : <<a, e>> \in trials}) <= 1
  BY DEF OneTrialPerMail
<1>. DEFINE those == {a \in People : <<a, e>> \in trials}
<1>2. \A a, b \in those : a = b
  BY DEF TrialsInv
<1>. HIDE DEF those
<1>3. ASSUME those = {}
      PROVE  Cardinality(those) <= 1
  BY <1>3, FS_EmptySet
<1>4. ASSUME those # {}
      PROVE  Cardinality(those) <= 1
  <2>1. PICK a : those = {a}
    BY <1>2, <1>4
  <2>2. Cardinality({a}) = 1
    BY FS_Singleton
  <2>. QED  BY <2>1, <2>2
<1>5. Cardinality(those) <= 1
  BY <1>3, <1>4
<1>. QED  BY <1>5 DEF those

\* An address is verified only for who proved it, and has one trial, ever,
\* whatever becomes of its account, as long as no account goes and no trial
\* is replaced between its start and the look at it (claim_trial,
\* start_registration_trial, release_trial_claim).
THEOREM AddressesAreSafe ==
    ASSUME ~MidTrial
    PROVE  MailSpec => []MailSafety
<1>1. AddressInv /\ TrialsInv /\ [MailNext]_mailVars => (AddressInv /\ TrialsInv)'
  BY AddressStep, TrialsStep
<1>2. AddressInv /\ TrialsInv => MailSafety
  BY TrialsAreOne DEF AddressInv, MailSafety
<1>. QED  BY AddressStart, TrialsStart, <1>1, <1>2, PTL DEF MailSpec

-----------------------------------------------------------------------------
(* Owners keep what they proved. *)

\* One step takes nothing from an account that once proved an address.
LEMMA OwnerStep ==
    ASSUME AddressInv, MailNext, NEW a \in People, people[a].ever, Live(a)
    PROVE  /\ people'[a].state # "purged"
           /\ people'[a].state = "live" =>
                 (people[a].extra => people'[a].extra)
<1>1. people \in [People -> Accounts] /\ people[a] \in Accounts
  BY MailTyped
<1>2. ASSUME people[a].state = "live", NEW b \in People, NEW p,
             people' = [people EXCEPT ![b] = p],
             b = a => /\ p.state # "purged"
                      /\ p.state = "live" => (people[a].extra => p.extra)
      PROVE  /\ people'[a].state # "purged"
             /\ people'[a].state = "live" => (people[a].extra => people'[a].extra)
  BY <1>1, <1>2
<1>3. CASE UNCHANGED people
  BY <1>1, <1>3 DEF Live
<1>4. ASSUME NEW r \in MailRequests, MailRequest(r)
      PROVE  /\ people'[a].state # "purged"
             /\ people'[a].state = "live" => (people[a].extra => people'[a].extra)
  <2>1. CASE MarkVerified(r) \/ ChangeEmail(r)
    <3>1. PICK b \in People : b = mailing[r].who
      BY <2>1, MailTyped DEF MarkVerified, ChangeEmail
    <3>2. ASSUME NEW e
          PROVE  /\ Proven(people[b], e).state = people[b].state
                 /\ Proven(people[b], e).extra = people[b].extra
      BY MailTyped DEF Proven, Accounts
    <3>. QED  BY <1>2, <1>3, <2>1, <3>1, <3>2 DEF MarkVerified, ChangeEmail, Live
  <2>2. CASE RecoverPassword(r)
    <3>1. PICK b \in People : b = mailing[r].who
      BY <2>2, MailTyped DEF RecoverPassword
    <3>2. ASSUME NEW v
          PROVE  Recovered(people[b], v).state = people[b].state
      BY MailTyped DEF Recovered, Accounts
    <3>3. ASSUME NEW v, people[b].ever, people[b].extra
          PROVE  Recovered(people[b], v).extra
      BY <3>3, MailTyped DEF Recovered, FirstProof, Accounts
    <3>. QED  BY <1>2, <1>3, <2>2, <3>1, <3>2, <3>3 DEF RecoverPassword, Live
  <2>3. CASE GoogleDetach(r)
    BY <1>1, <2>3 DEF GoogleDetach, Live, Accounts
  <2>4. CASE GoogleCreate(r)
    BY <1>1, <1>3, <2>4, MailTyped DEF GoogleCreate, Live
  <2>5. ASSUME NEW enforced \in BOOLEAN, StartTrial(r, enforced)
        PROVE  /\ people'[a].state # "purged"
               /\ people'[a].state = "live" => (people[a].extra => people'[a].extra)
    BY <1>1, <1>3, <2>5, MailTyped DEF StartTrial, Live, Accounts
  <2>. QED  BY <1>3, <1>4, <2>1, <2>2, <2>3, <2>4, <2>5
            DEF MailRequest, TypeCode, ClaimTrial, CheckTrial, GoogleLook, LoseMailing
<1>5. ASSUME NEW b \in People, NEW e \in Mails, Register(b, e) \/ StartChange(b, e)
      PROVE  /\ people'[a].state # "purged"
             /\ people'[a].state = "live" => (people[a].extra => people'[a].extra)
  BY <1>1, <1>3, <1>5 DEF Register, StartChange, SendMail, Live
<1>6. ASSUME NEW b \in People, NEW e, StaffSetEmail(b, e) \/ SetUpExtra(b) \/ TrialEnds(b)
      PROVE  /\ people'[a].state # "purged"
             /\ people'[a].state = "live" => (people[a].extra => people'[a].extra)
  BY <1>1, <1>6 DEF StaffSetEmail, SetUpExtra, TrialEnds, Live, Accounts
<1>7. ASSUME NEW b \in People, DeletePerson(b) \/ Purge(b)
      PROVE  /\ people'[a].state # "purged"
             /\ people'[a].state = "live" => (people[a].extra => people'[a].extra)
  BY <1>1, <1>7 DEF DeletePerson, Purge, Purgeable, Remove, NoAccount, Live
<1>. QED  BY <1>3, <1>4, <1>5, <1>6, <1>7 DEF MailNext, AskByMail, SendMail

\* One step of a Google sign-up takes no address that is proven by then.
LEMMA DetachStep ==
    ASSUME AddressInv, MailNext, NEW a \in People, NEW r \in MailRequests,
           people[a].verified, mailing[r].pc = "detach", mailing'[r].pc # "detach"
    PROVE  people'[a].mail = people[a].mail
<1>1. CASE UNCHANGED mailing
  BY <1>1
<1>2. ASSUME NEW s \in MailRequests, MailRequest(s)
      PROVE  people'[a].mail = people[a].mail
  <2>1. CASE GoogleDetach(s)
    BY <2>1, MailTyped DEF GoogleDetach, Detachable
  <2>2. CASE ~GoogleDetach(s)
    <3>1. mailing[s].pc # "detach"
      BY <1>2, <2>2 DEF MailRequest, TypeCode, MarkVerified, ChangeEmail,
         RecoverPassword, ClaimTrial, StartTrial, CheckTrial, GoogleLook, Idle,
         GoogleCreate, LoseMailing
    <3>2. \E q : mailing' = [mailing EXCEPT ![s] = q]
      BY <1>2, <2>2 DEF MailRequest, TypeCode, MarkVerified, ChangeEmail,
         RecoverPassword, ClaimTrial, StartTrial, CheckTrial, GoogleLook,
         GoogleCreate, LoseMailing, Done, ToTrial, Go
    <3>3. mailing'[r] = mailing[r]
      BY <3>1, <3>2, MailTyped
    <3>. QED  BY <3>3
  <2>. QED  BY <2>1, <2>2
<1>3. MailNext => UNCHANGED mailing \/ \E s \in MailRequests : MailRequest(s)
  BY DEF MailNext, Register, StartChange, AskByMail, SendMail, StaffSetEmail,
     SetUpExtra, DeletePerson, Purge, Remove, TrialEnds
<1>. QED  BY <1>1, <1>2, <1>3

\* An account that once proved an address keeps what it set up and is not
\* purged, and a Google sign-up takes no address that is proven, although it
\* may have been found unproven (recover_password, purge_unverified,
\* detach_unverified_email).
THEOREM OwnersAreSafe == MailSpec => OwnersKeep
<1>1. ASSUME AddressInv, [MailNext]_mailVars
      PROVE  [\A a \in People : people[a].ever /\ Live(a) =>
                 /\ people'[a].state # "purged"
                 /\ people'[a].state = "live" =>
                       (people[a].extra => people'[a].extra)]_mailVars
  BY <1>1, OwnerStep
<1>2. ASSUME AddressInv, [MailNext]_mailVars
      PROVE  [\A a \in People, r \in MailRequests :
                 people[a].verified /\ mailing[r].pc = "detach"
                   /\ mailing'[r].pc # "detach" =>
                 people'[a].mail = people[a].mail]_mailVars
  BY <1>2, DetachStep
<1>. QED  BY AddressStart, AddressStep, <1>1, <1>2, PTL
          DEF MailSpec, OwnersKeep, OwnersKeepAccount, ProvenKeepsAddress

-----------------------------------------------------------------------------
(* Names. *)

\* A request that has looked is about an account and a name.
Asked(c) == /\ c.pc \in {"released", "held", "cooldown", "write"}
            /\ c.account \in People /\ c.name \in Mails

\* Who holds a name held it last.
HoldersLast ==
    \A a \in People : U!Here(a) => q5[q1[a]] = a

\* A request that found its name free may take it unless it was given up since;
\* while somebody holds it, it cannot.
FoundFree(c) ==
    c.pc \in {"cooldown", "write"} /\ ~c.since =>
       ~U!Quarantined(c) \/ U!Holders(c.name) # {}

NamesSafe ==
    /\ U!NamesTypeOK /\ HoldersLast /\ U!VacatedIsKept
    /\ \A r \in MailRequests : FoundFree(q4[r])

\* What the names are, and that a state without one is not a name.
LEMMA NamesTyped ==
    ASSUME NamesSafe
    PROVE  /\ q1 \in [People -> Mails \cup {"not yet", "gone"}]
           /\ q2 \in [People -> U!NameTimes]
           /\ q3 \in [Mails -> [by : People \cup {"nobody"}, at : U!NameTimes]]
           /\ q4 \in [MailRequests -> U!RenameRecords]
           /\ q5 \in [Mails -> People \cup {"nobody"}]
           /\ q6 \in Nat /\ q6 \in U!NameTimes
           /\ "not yet" \notin Mails /\ "gone" \notin Mails
           /\ \A r \in MailRequests : q4[r].pc # "idle" => Asked(q4[r])
<1>1. U!NamesTypeOK
  BY DEF NamesSafe
<1>0. MaxNameTime \in Nat
  BY NameConstants
<1>2. q6 \in 0 .. MaxNameTime /\ q6 \in Nat
  <2>1. q6 \in 0 .. MaxNameTime
    BY <1>1 DEF U!NamesTypeOK
  <2>. QED  BY <1>0, <2>1
<1>3. ASSUME NEW r \in MailRequests, q4[r].pc # "idle"
      PROVE  Asked(q4[r])
  <2>1. q4[r] \in U!RenameRecords
    BY <1>1 DEF U!NamesTypeOK
  <2>. QED  BY <1>3, <2>1 DEF U!RenameRecords, U!NoRename, Asked
<1>4. q6 \in U!NameTimes
  BY <1>2 DEF U!NameTimes
<1>. QED  BY <1>1, <1>2, <1>3, <1>4, NameConstants
          DEF U!NamesTypeOK, U!NotYet, U!Gone

\* The clock is a number.
LEMMA ClockTyped ==
    ASSUME NamesSafe
    PROVE  q6 \in Nat
BY NamesTyped

\* A request under way is about an account and a name.
LEMMA AskedTyped ==
    ASSUME NamesSafe, NEW r \in MailRequests, q4[r].pc # "idle"
    PROVE  Asked(q4[r])
BY NamesTyped

\* So are the times of releases.
LEMMA TimesTyped ==
    ASSUME NamesSafe
    PROVE  \A n \in Mails : q3[n].at \in Int
<1>1. U!NameTimes \subseteq Int
  <2>1. MaxNameTime \in Nat
    BY NameConstants
  <2>. QED  BY <2>1 DEF U!NameTimes, U!Never
<1>. QED  BY <1>1 DEF NamesSafe, U!NamesTypeOK

\* A request that found its name free still may, while nothing happened to the
\* name but that time passed.
LEMMA FreeKept ==
    ASSUME NamesSafe, NEW c, NEW d, FoundFree(c), Asked(c),
           d.pc = c.pc, d.name = c.name, d.kind = c.kind, d.account = c.account,
           ~d.since => ~c.since,
           q3'[c.name] = q3[c.name], q6' \in Nat, q6' >= q6,
           \A a \in People : (q1[a] = c.name) <=> (q1'[a] = c.name)
    PROVE  FoundFree(d)'
<1>1. SUFFICES ASSUME d.pc \in {"cooldown", "write"}, ~d.since
               PROVE  ~U!Quarantined(d)' \/ U!Holders(d.name)' # {}
  BY DEF FoundFree
<1>2. CASE U!Holders(c.name) # {}
  BY <1>2 DEF U!Holders
<1>3. CASE ~U!Quarantined(c)
  <2>1. q3[c.name].at \in Int /\ q6 \in Nat /\ Quarantine \in Nat
    BY NamesTyped, TimesTyped, NameConstants DEF Asked
  <2>. QED  BY <1>3, <2>1 DEF U!Quarantined, U!Excluded
<1>. QED  BY <1>1, <1>2, <1>3 DEF FoundFree

\* A request that moves on, while no name changes.
LEMMA NameLooked ==
    ASSUME NamesSafe, NEW r \in MailRequests, NEW d \in U!RenameRecords,
           FoundFree(d), U!Sets(r, d)
    PROVE  NamesSafe'
<1>1. /\ UNCHANGED <<q1, q2, q3, q5, q6>> /\ q4' = [q4 EXCEPT ![r] = d]
      /\ q4' \in [MailRequests -> U!RenameRecords]
  BY NamesTyped DEF U!Sets
<1>2. ASSUME NEW s \in MailRequests
      PROVE  FoundFree(q4[s])'
  <2>1. PICK c : c = q4'[s]
    OBVIOUS
  <2>2. FoundFree(c)
    BY <1>1, <2>1, NamesTyped DEF NamesSafe
  <2>. QED  BY <1>1, <2>1, <2>2 DEF FoundFree, U!Quarantined, U!Holders
<1>. QED  BY <1>1, <1>2 DEF NamesSafe, U!NamesTypeOK, HoldersLast, U!VacatedIsKept,
     U!Here, U!Holders

\* The looks of a request.
LEMMA NameAsked ==
    ASSUME NamesSafe, NEW r \in MailRequests,
           U!AskName(r) \/ U!CheckAgain(r) \/ U!CheckCooldown(r) \/ U!RefuseName(r)
    PROVE  NamesSafe'
<1>1. U!NoRename \in U!RenameRecords /\ FoundFree(U!NoRename)
  BY DEF U!RenameRecords, U!NoRename, FoundFree
<1>2. CASE U!AskName(r)
  <2>1. PICK kind \in U!Kinds, a \in People, n \in Mails :
           U!Sets(r, [pc |-> U!Checks[2], kind |-> kind, account |-> a, name |-> n,
                      since |-> FALSE])
    BY <1>2 DEF U!AskName
  <2>2. U!Checks[2] = "released"
    BY DEF U!Checks
  <2>3. PICK d : d = [pc |-> "released", kind |-> kind, account |-> a, name |-> n,
                      since |-> FALSE]
    OBVIOUS
  <2>4. d \in U!RenameRecords /\ d.pc = "released"
    BY <2>3 DEF U!RenameRecords
  <2>. QED  BY <2>1, <2>2, <2>3, <2>4, NameLooked DEF FoundFree
<1>3. CASE U!CheckAgain(r)
  <2>1. U!Checks[2] = "released"
    BY DEF U!Checks
  <2>2. PICK c : c = q4[r]
    OBVIOUS
  <2>3. c.pc = "released" /\ c \in U!RenameRecords
    BY <1>3, <2>1, <2>2, NamesTyped DEF U!CheckAgain
  <2>4. PICK pc \in {"cooldown", "write"} : pc = IF c.kind = "self" THEN "cooldown" ELSE "write"
    OBVIOUS
  <2>5. PICK d : d = [c EXCEPT !.pc = pc, !.since = FALSE]
    OBVIOUS
  <2>6. /\ d \in U!RenameRecords /\ d.pc = pc /\ ~d.since
        /\ d.name = c.name /\ d.kind = c.kind /\ d.account = c.account
    <3>1. c \in [pc : {"released", "held", "cooldown", "write"}, kind : U!Kinds,
                 account : People, name : Mails, since : BOOLEAN]
      BY <2>3 DEF U!RenameRecords, U!NoRename
    <3>2. FALSE \in BOOLEAN /\ pc \in {"released", "held", "cooldown", "write"}
      OBVIOUS
    <3>3. d \in [pc : {"released", "held", "cooldown", "write"}, kind : U!Kinds,
                 account : People, name : Mails, since : BOOLEAN]
      BY <2>5, <3>1, <3>2
    <3>4. d \in U!RenameRecords
      BY <3>3 DEF U!RenameRecords
    <3>. QED  BY <2>5, <3>1, <3>4
  <2>7. U!Sets(r, U!NoRename) \/ (~U!Quarantined(c) /\ U!Sets(r, d))
    BY <1>3, <2>1, <2>2, <2>4, <2>5 DEF U!CheckAgain, U!Refuses
  <2>8. ~U!Quarantined(c) => FoundFree(d)
    BY <2>6 DEF FoundFree, U!Quarantined, U!Excluded
  <2>. QED  BY <1>1, <2>6, <2>7, <2>8, NameLooked
<1>4. CASE U!CheckCooldown(r)
  <2>1. PICK c : c = q4[r]
    OBVIOUS
  <2>2. c.pc = "cooldown" /\ c \in U!RenameRecords /\ FoundFree(c)
    BY <1>4, <2>1, NamesTyped DEF U!CheckCooldown, NamesSafe
  <2>3. PICK d : d = [c EXCEPT !.pc = "write"]
    OBVIOUS
  <2>4. /\ d \in U!RenameRecords /\ d.pc = "write" /\ d.since = c.since
        /\ d.name = c.name /\ d.kind = c.kind /\ d.account = c.account
    BY <2>2, <2>3 DEF U!RenameRecords, U!NoRename
  <2>5. U!Sets(r, U!NoRename) \/ U!Sets(r, d)
    BY <1>4, <2>1, <2>3 DEF U!CheckCooldown
  <2>6. FoundFree(d)
    BY <2>2, <2>4 DEF FoundFree, U!Quarantined, U!Excluded
  <2>. QED  BY <1>1, <2>4, <2>5, <2>6, NameLooked
<1>5. CASE U!RefuseName(r)
  BY <1>1, <1>5, NameLooked DEF U!RefuseName
<1>. QED  BY <1>2, <1>3, <1>4, <1>5

\* A name given up warns the requests that found it free.
LEMMA Outdated ==
    ASSUME NEW n, NEW rec \in [MailRequests -> U!RenameRecords], NEW s \in MailRequests
    PROVE  /\ U!Outdate(n, rec) \in [MailRequests -> U!RenameRecords]
           /\ U!Outdate(n, rec)[s].pc = rec[s].pc
           /\ rec[s].pc # "idle" =>
                 /\ U!Outdate(n, rec)[s].name = rec[s].name
                 /\ U!Outdate(n, rec)[s].kind = rec[s].kind
                 /\ U!Outdate(n, rec)[s].account = rec[s].account
                 /\ ~U!Outdate(n, rec)[s].since => ~rec[s].since /\ rec[s].name # n
<1>. DEFINE full == [pc : {"released", "held", "cooldown", "write"}, kind : U!Kinds,
                     account : People, name : Mails, since : BOOLEAN]
<1>1. ASSUME NEW q \in MailRequests, rec[q] # U!NoRename
      PROVE  \E d \in full : /\ U!Outdate(n, rec)[q] = d
                             /\ d.pc = rec[q].pc /\ d.name = rec[q].name
                             /\ d.kind = rec[q].kind /\ d.account = rec[q].account
                             /\ ~d.since => ~rec[q].since /\ rec[q].name # n
  <2>1. PICK c \in full : c = rec[q]
    BY <1>1 DEF U!RenameRecords
  <2>2. PICK since \in BOOLEAN : since = (c.since \/ c.name = n)
    BY Zenon
  <2>3. PICK d : d = [c EXCEPT !.since = since]
    OBVIOUS
  <2>4. /\ d \in full /\ d.pc = c.pc /\ d.name = c.name /\ d.kind = c.kind
        /\ d.account = c.account /\ d.since = since
    BY <2>1, <2>3
  <2>5. U!Outdate(n, rec)[q] = d
    BY <1>1, <2>1, <2>2, <2>3 DEF U!Outdate
  <2>. QED  BY <2>1, <2>2, <2>4, <2>5
<1>2. ASSUME NEW q \in MailRequests, rec[q] = U!NoRename
      PROVE  U!Outdate(n, rec)[q] = U!NoRename
  BY <1>2 DEF U!Outdate
<1>3. full \subseteq U!RenameRecords /\ U!NoRename \in U!RenameRecords
      /\ U!NoRename.pc = "idle"
  BY DEF U!RenameRecords, U!NoRename
<1>4. U!Outdate(n, rec) = [q \in MailRequests |-> U!Outdate(n, rec)[q]]
  BY DEF U!Outdate
<1>. HIDE DEF full
<1>5. U!Outdate(n, rec) \in [MailRequests -> U!RenameRecords]
  BY <1>1, <1>2, <1>3, <1>4
<1>. QED  BY <1>1, <1>2, <1>3, <1>5

\* One account's name changes: to another, or to none.
LEMMA NameChanged ==
    ASSUME NamesSafe, NEW a \in People, NEW n, NEW rest \in [MailRequests -> U!RenameRecords],
           n \in Mails \cup {"gone"},
           \A s \in MailRequests : rest[s] \in {q4[s], U!NoRename},
           n \in Mails => /\ \A b \in People : q1[b] = n => b = a
                          /\ q5' = [q5 EXCEPT ![n] = a],
           n = "gone" => UNCHANGED q5 /\ U!Here(a),
           q1' = [q1 EXCEPT ![a] = n], q2' \in [People -> U!NameTimes], UNCHANGED q6,
           IF U!Here(a) /\ q1[a] # n
           THEN /\ q3' = [q3 EXCEPT ![q1[a]] = [by |-> a, at |-> q6]]
                /\ q4' = U!Outdate(q1[a], rest)
           ELSE /\ \/ UNCHANGED q3
                   \/ U!Here(a) /\ q3' = [q3 EXCEPT ![n] = [by |-> a, at |-> q6]]
                /\ q4' = rest
    PROVE  NamesSafe'
<1>1. /\ q1' \in [People -> Mails \cup {"not yet", "gone"}] /\ q1'[a] = n
      /\ \A b \in People : b # a => q1'[b] = q1[b]
  BY NamesTyped
<1>2. /\ q5' \in [Mails -> People \cup {"nobody"}]
      /\ n \in Mails => q5'[n] = a
      /\ \A m \in Mails : m # n => q5'[m] = q5[m]
  BY NamesTyped
<1>3. /\ q3' \in [Mails -> [by : People \cup {"nobody"}, at : U!NameTimes]]
      /\ \A m \in Mails : m # n /\ m # q1[a] => q3'[m] = q3[m]
      /\ U!Here(a) /\ q1[a] # n => q3'[q1[a]].by = a
  <2>1. q6 \in U!NameTimes
    BY NamesTyped
  <2>2. PICK row \in [by : People \cup {"nobody"}, at : U!NameTimes] :
           row = [by |-> a, at |-> q6] /\ row.by = a
    <3>1. PICK row : row = [by |-> a, at |-> q6]
      OBVIOUS
    <3>. QED  BY <2>1, <3>1
  <2>3. CASE UNCHANGED q3 /\ ~(U!Here(a) /\ q1[a] # n)
    BY <2>3, NamesTyped
  <2>4. CASE U!Here(a) /\ q3' = [q3 EXCEPT ![q1[a]] = row]
    BY <2>2, <2>4, NamesTyped DEF U!Here
  <2>. QED  BY <2>2, <2>3, <2>4
<1>4. q4' \in [MailRequests -> U!RenameRecords]
  <2>1. CASE U!Here(a) /\ q1[a] # n
    <3>1. q4' = U!Outdate(q1[a], rest)
      BY <2>1
    <3>2. CASE MailRequests = {}
      BY <3>1, <3>2 DEF U!Outdate
    <3>. QED  BY <3>1, <3>2, Outdated
  <2>. QED  BY <2>1
<1>5. HoldersLast'
  <2>1. ASSUME NEW b \in People, q1'[b] \in Mails
        PROVE  q5'[q1'[b]] = b
    <3>1. CASE b = a
      BY <1>1, <1>2, <2>1, <3>1
    <3>2. CASE b # a
      <4>1. q1[b] # n /\ q1[b] \in Mails /\ q1'[b] = q1[b] /\ q5[q1[b]] = b
        BY <1>1, <2>1, <3>2, NamesTyped DEF NamesSafe, HoldersLast, U!Here
      <4>. QED  BY <1>2, <4>1
    <3>. QED  BY <3>1, <3>2
  <2>. QED  BY <2>1 DEF HoldersLast, U!Here
<1>6. ASSUME NEW m \in Mails, m # n, ~(U!Here(a) /\ m = q1[a])
      PROVE  /\ \A b \in People : (q1[b] = m) <=> (q1'[b] = m)
             /\ q3'[m] = q3[m] /\ q5'[m] = q5[m]
  BY <1>1, <1>2, <1>3, <1>6 DEF U!Here
<1>7. U!VacatedIsKept'
  <2>1. ASSUME NEW m \in Mails, \A b \in People : q1'[b] # m
        PROVE  q3'[m].by = q5'[m]
    <3>1. m # n
      BY <1>1, <2>1
    <3>2. CASE U!Here(a) /\ m = q1[a]
      <4>1. q5[m] = a
        BY <3>2 DEF NamesSafe, HoldersLast
      <4>. QED  BY <1>2, <1>3, <3>1, <3>2, <4>1
    <3>3. CASE ~(U!Here(a) /\ m = q1[a])
      <4>1. q3[m].by = q5[m]
        BY <1>6, <2>1, <3>1, <3>3 DEF NamesSafe, U!VacatedIsKept, U!Holders
      <4>. QED  BY <1>6, <3>1, <3>3, <4>1
    <3>. QED  BY <3>2, <3>3
  <2>. QED  BY <2>1 DEF U!VacatedIsKept, U!Holders
<1>8. ASSUME NEW s \in MailRequests
      PROVE  FoundFree(q4[s])'
  <2>1. PICK c : c = q4[s]
    OBVIOUS
  <2>2. PICK d : d = q4'[s]
    OBVIOUS
  <2>3. FoundFree(c)
    BY <2>1 DEF NamesSafe
  <2>4. CASE d.pc \notin {"cooldown", "write"} \/ d.since
    BY <2>2, <2>4 DEF FoundFree
  <2>5. CASE d.pc \in {"cooldown", "write"} /\ ~d.since
    <3>1. /\ d.pc = c.pc /\ d.name = c.name /\ d.kind = c.kind /\ d.account = c.account
          /\ ~c.since /\ Asked(c)
          /\ U!Here(a) /\ q1[a] # n => c.name # q1[a]
      <4>1. CASE U!Here(a) /\ q1[a] # n
        <5>1. /\ d.pc = rest[s].pc
              /\ rest[s].pc # "idle" =>
                    /\ d.name = rest[s].name /\ d.kind = rest[s].kind
                    /\ d.account = rest[s].account
                    /\ ~d.since => ~rest[s].since /\ rest[s].name # q1[a]
          BY <2>2, <4>1, Outdated
        <5>2. rest[s].pc # "idle" /\ rest[s] = c
          BY <2>1, <2>5, <5>1 DEF U!NoRename
        <5>3. Asked(c)
          <6>1. q4[s].pc # "idle" /\ q4[s] = c
            BY <2>1, <2>5, <5>1, <5>2
          <6>. QED  BY <6>1, AskedTyped
        <5>4. ~rest[s].since /\ rest[s].name # q1[a]
          BY <2>5, <5>1, <5>2
        <5>. QED  BY <2>5, <5>1, <5>2, <5>3, <5>4
      <4>2. CASE ~(U!Here(a) /\ q1[a] # n)
        <5>1. d = c
          BY <2>1, <2>2, <2>5, <4>2 DEF U!NoRename
        <5>. QED  BY <2>1, <2>5, <4>2, <5>1, NamesTyped
      <4>. QED  BY <4>1, <4>2
    <3>2. CASE c.name = n
      <4>1. U!Holders(d.name)' # {}
        BY <1>1, <3>1, <3>2 DEF U!Holders
      <4>. QED  BY <2>2, <4>1 DEF FoundFree
    <3>3. CASE c.name # n
      <4>1. /\ \A b \in People : (q1[b] = c.name) <=> (q1'[b] = c.name)
            /\ q3'[c.name] = q3[c.name]
        BY <1>6, <3>1, <3>3 DEF Asked
      <4>2. q6' \in Nat /\ q6' >= q6
        BY ClockTyped
      <4>3. FoundFree(d)'
        BY <2>3, <3>1, <4>1, <4>2, FreeKept
      <4>. QED  BY <2>2, <4>3 DEF FoundFree
    <3>. QED  BY <3>2, <3>3
  <2>. QED  BY <2>4, <2>5
<1>9. U!NamesTypeOK'
  BY <1>1, <1>2, <1>3, <1>4 DEF NamesSafe, U!NamesTypeOK, U!NotYet, U!Gone
<1>. QED  BY <1>5, <1>7, <1>8, <1>9 DEF NamesSafe

\* A name written, by whoever asked for it.
LEMMA NameWritten ==
    ASSUME NamesSafe, NEW r \in MailRequests, U!WriteName(r)
    PROVE  NamesSafe'
<1>1. PICK c : c = q4[r]
  OBVIOUS
<1>2. c.pc = "write" /\ Asked(c)
  BY <1>1, AskedTyped DEF U!WriteName
<1>3. PICK a \in People : a = c.account
  BY <1>2 DEF Asked
<1>4. PICK n \in Mails : n = c.name
  BY <1>2 DEF Asked
<1>5. PICK rest : rest = [q4 EXCEPT ![r] = U!NoRename]
  OBVIOUS
<1>6. /\ rest \in [MailRequests -> U!RenameRecords]
      /\ \A s \in MailRequests : rest[s] \in {q4[s], U!NoRename}
  BY <1>5, NamesTyped DEF U!RenameRecords
<1>7. /\ \A b \in People : q1[b] = n => b = a
      /\ q5' = [q5 EXCEPT ![n] = a] /\ q1' = [q1 EXCEPT ![a] = n] /\ UNCHANGED q6
  BY <1>1, <1>3, <1>4 DEF U!WriteName, U!Holders
<1>8. q2' \in [People -> U!NameTimes]
  <2>1. PICK at \in U!NameTimes : q2' = [q2 EXCEPT ![a] = at]
    <3>1. U!Never \in U!NameTimes /\ q6 \in U!NameTimes
      BY NamesTyped DEF U!NameTimes
    <3>. QED  BY <1>1, <1>3, <3>1 DEF U!WriteName
  <2>. QED  BY <2>1, NamesTyped
<1>9. CASE U!Here(a) /\ q1[a] # n
  <2>1. /\ q3' = [q3 EXCEPT ![q1[a]] = [by |-> a, at |-> q6]]
        /\ q4' = U!Outdate(q1[a], rest)
    BY <1>1, <1>3, <1>4, <1>5, <1>9 DEF U!WriteName, U!GiveUp, U!Released
  <2>2. n # "gone"
    BY <1>4, NamesTyped
  <2>. QED  BY <1>6, <1>7, <1>8, <1>9, <2>1, <2>2, NameChanged
<1>10. CASE ~(U!Here(a) /\ q1[a] # n)
  <2>1. /\ \/ UNCHANGED q3
           \/ U!Here(a) /\ q3' = [q3 EXCEPT ![n] = [by |-> a, at |-> q6]]
        /\ q4' = rest
    BY <1>1, <1>3, <1>4, <1>5, <1>10 DEF U!WriteName, U!GiveUp, U!Released
  <2>2. n # "gone"
    BY <1>4, NamesTyped
  <2>. QED  BY <1>6, <1>7, <1>8, <1>10, <2>1, <2>2, NameChanged
<1>. QED  BY <1>9, <1>10

\* An account that goes gives its name up.
LEMMA NameGone ==
    ASSUME NamesSafe, NEW a \in People, U!DeleteAccount(a)
    PROVE  NamesSafe'
<1>1. /\ U!Here(a) /\ q1' = [q1 EXCEPT ![a] = "gone"] /\ UNCHANGED <<q2, q5, q6>>
      /\ q3' = [q3 EXCEPT ![q1[a]] = [by |-> a, at |-> q6]]
      /\ q4' = U!Outdate(q1[a], q4)
  BY DEF U!DeleteAccount, U!Gone, U!GiveUp, U!Released
<1>2. "gone" \notin Mails /\ q1[a] # "gone"
  BY <1>1, NamesTyped DEF U!Here
<1>3. q4 \in [MailRequests -> U!RenameRecords] /\ q2' \in [People -> U!NameTimes]
  BY <1>1, NamesTyped
<1>. QED  BY <1>1, <1>2, <1>3, NameChanged

\* Time passes.
LEMMA NameTimePasses ==
    ASSUME NamesSafe, U!NameTick
    PROVE  NamesSafe'
<1>1. q6 \in Nat /\ MaxNameTime \in Nat /\ q6' = q6 + 1 /\ q6 < MaxNameTime
      /\ UNCHANGED <<q1, q2, q3, q4, q5>>
  BY ClockTyped, NameConstants DEF U!NameTick
<1>2. q6' \in 0 .. MaxNameTime /\ q6' \in Nat /\ q6' >= q6
  BY <1>1
<1>3. U!NamesTypeOK'
  BY <1>1, <1>2 DEF NamesSafe, U!NamesTypeOK
<1>4. ASSUME NEW s \in MailRequests
      PROVE  FoundFree(q4[s])'
  <2>1. PICK c : c = q4[s]
    OBVIOUS
  <2>2. CASE c.pc = "idle"
    BY <1>1, <2>1, <2>2 DEF FoundFree
  <2>3. CASE c.pc # "idle"
    <3>1. FoundFree(c) /\ Asked(c)
      BY <2>1, <2>3, AskedTyped DEF NamesSafe
    <3>2. FoundFree(c)'
      BY <1>1, <1>2, <3>1, FreeKept
    <3>. QED  BY <1>1, <2>1, <3>2 DEF FoundFree, U!Quarantined, U!Excluded, U!Holders
  <2>. QED  BY <2>2, <2>3
<1>. QED  BY <1>1, <1>3, <1>4 DEF NamesSafe, HoldersLast, U!Here, U!VacatedIsKept, U!Holders

\* Every step keeps the names.
LEMMA NamesSafeStep ==
    ASSUME NamesSafe, [U!NamesNext]_(U!nameVars)
    PROVE  NamesSafe'
<1>1. CASE UNCHANGED U!nameVars
  BY <1>1 DEF U!nameVars, NamesSafe, U!NamesTypeOK, HoldersLast, U!Here, U!VacatedIsKept,
     U!Holders, FoundFree, U!Quarantined
<1>. QED  BY <1>1, NameAsked, NameWritten, NameGone, NameTimePasses DEF U!NamesNext

\* At the start nobody has a name.
LEMMA NamesSafeStart ==
    ASSUME U!NamesInit
    PROVE  NamesSafe
<1>1. "not yet" \notin Mails /\ MaxNameTime \in Nat
  BY NameConstants
<1>2. /\ U!Never \in U!NameTimes /\ U!NoRename \in U!RenameRecords
      /\ U!NeverReleased \in [by : People \cup {"nobody"}, at : U!NameTimes]
      /\ U!NeverReleased.by = "nobody"
  BY DEF U!NameTimes, U!NeverReleased, U!RenameRecords
<1>3. 0 \in 0 .. MaxNameTime
  <2>1. MaxNameTime \in Nat
    BY <1>1
  <2>. QED  BY <2>1
<1>4. U!NamesTypeOK
  BY <1>2, <1>3 DEF U!NamesInit, U!NamesTypeOK
<1>5. HoldersLast /\ U!VacatedIsKept
  BY <1>1, <1>2 DEF U!NamesInit, HoldersLast, U!Here, U!VacatedIsKept, U!NotYet
<1>6. \A r \in MailRequests : FoundFree(q4[r])
  BY DEF U!NamesInit, FoundFree, U!NoRename
<1>. QED  BY <1>4, <1>5, <1>6 DEF NamesSafe

\* Nobody takes a name another gave up since it was found free.
LEMMA NamesHold ==
    ASSUME NamesSafe
    PROVE  U!QuarantineKept
<1>1. SUFFICES ASSUME NEW r \in MailRequests, U!WriteName(r),
                      q1[q4[r].account] # q4[r].name, ~q4[r].since
               PROVE  ~U!Quarantined(q4[r])
  BY DEF U!QuarantineKept
<1>2. U!Holders(q4[r].name) = {}
  BY <1>1 DEF U!WriteName, U!Holders
<1>. QED  BY <1>1, <1>2 DEF U!WriteName, NamesSafe, FoundFree

-----------------------------------------------------------------------------
(* Ranks. *)

\* A request that is about to write.
Writing(r) == q2[r].pc = "write"

\* The admins a request locked serve, and no other request has locked them;
\* who takes an admin away locked another one who stays.
AdminsSafe ==
    /\ A!AdminsTypeOK /\ A!AdminsStay
    /\ \A r \in MailRequests : Writing(r) => q2[r].locks \subseteq A!ActiveAdmins
    /\ \A r, s \in MailRequests :
          Writing(r) /\ Writing(s) /\ r # s => q2[r].locks \cap q2[s].locks = {}
    /\ \A r \in MailRequests :
          Writing(r) /\ A!Guarded(q2[r].change) /\ ~q3 =>
             \E u \in q2[r].locks : u # q2[r].on

\* What the ranks are.
LEMMA AdminsTyped ==
    ASSUME AdminsSafe
    PROVE  /\ q1 \in [People -> A!UserRows] /\ q2 \in [MailRequests -> A!ActRecords]
           /\ q3 \in BOOLEAN /\ A!NoAct \in A!ActRecords /\ A!NoAct.pc = "idle"
           /\ \A r \in MailRequests : q2[r].pc # "idle" =>
                 /\ q2[r] \in [pc : {"leave", "guard", "write"}, change : A!Changes,
                               on : People, locks : SUBSET People]
BY DEF AdminsSafe, A!AdminsTypeOK, A!ActRecords, A!NoAct

\* A request that moves on without locks.
LEMMA ActMoves ==
    ASSUME AdminsSafe, NEW r \in MailRequests, NEW d \in A!ActRecords, A!Does(r, d),
           d.pc = "write" =>
              /\ d.locks \subseteq A!ActiveAdmins
              /\ \A s \in MailRequests : Writing(s) => d.locks \cap q2[s].locks = {}
              /\ A!Guarded(d.change) /\ ~q3 => \E u \in d.locks : u # d.on
    PROVE  AdminsSafe'
<1>1. /\ UNCHANGED <<q1, q3>> /\ q2' \in [MailRequests -> A!ActRecords] /\ q2'[r] = d
      /\ \A s \in MailRequests : s # r => q2'[s] = q2[s]
  BY AdminsTyped DEF A!Does
<1>2. A!AdminsTypeOK' /\ A!AdminsStay'
  BY <1>1 DEF AdminsSafe, A!AdminsTypeOK, A!AdminsStay, A!ActiveAdmins, A!Serving
<1>3. A!ActiveAdmins' = A!ActiveAdmins
  BY <1>1 DEF A!ActiveAdmins, A!Serving
<1>4. \A s \in MailRequests : Writing(s)' => q2'[s].locks \subseteq A!ActiveAdmins'
  BY <1>1, <1>3 DEF AdminsSafe, Writing
<1>5. \A s, t \in MailRequests :
         Writing(s)' /\ Writing(t)' /\ s # t => q2'[s].locks \cap q2'[t].locks = {}
  BY <1>1 DEF AdminsSafe, Writing
<1>6. \A s \in MailRequests :
         Writing(s)' /\ A!Guarded(q2'[s].change) /\ ~q3' =>
            \E u \in q2'[s].locks : u # q2'[s].on
  BY <1>1 DEF AdminsSafe, Writing
<1>. QED  BY <1>2, <1>4, <1>5, <1>6 DEF AdminsSafe

\* A request that begins, looks, or gives up.
LEMMA ActBegins ==
    ASSUME AdminsSafe, NEW r \in MailRequests,
           \/ A!StaffAsk(r) \/ A!DemoteAsk(r) \/ A!LeaveAsk(r) \/ A!LeaveCheck(r)
           \/ A!AbortAct(r)
    PROVE  AdminsSafe'
<1>1. ASSUME A!Does(r, A!NoAct)
      PROVE  AdminsSafe'
  BY <1>1, ActMoves, AdminsTyped
<1>2. ASSUME NEW change \in A!Changes, NEW u \in People, NEW d,
             d = A!Begin(change, u)
      PROVE  /\ d \in A!ActRecords /\ d.locks = {} /\ d.change = change /\ d.on = u
             /\ d.pc = "write" => ~A!Guarded(change)
             /\ d.pc \in {"guard", "write"}
  BY <1>2 DEF A!Begin, A!ActRecords
<1>3. ASSUME NEW change \in A!Changes, NEW u \in People, A!Does(r, A!Begin(change, u))
      PROVE  AdminsSafe'
  <2>1. PICK d : d = A!Begin(change, u)
    OBVIOUS
  <2>. QED  BY <1>2, <1>3, <2>1, ActMoves
<1>4. CASE A!StaffAsk(r) \/ A!DemoteAsk(r)
  BY <1>3, <1>4 DEF A!StaffAsk, A!DemoteAsk, A!Changes
<1>5. CASE A!LeaveAsk(r)
  <2>1. PICK u \in People, pc \in {"leave", "guard"} :
           A!Does(r, [A!Begin("delete", u) EXCEPT !.pc = pc])
    BY <1>5 DEF A!LeaveAsk
  <2>2. PICK d : d = [A!Begin("delete", u) EXCEPT !.pc = pc]
    OBVIOUS
  <2>3. d \in A!ActRecords /\ d.pc # "write"
    BY <2>2 DEF A!Begin, A!ActRecords, A!Changes
  <2>. QED  BY <2>1, <2>2, <2>3, ActMoves
<1>6. CASE A!LeaveCheck(r)
  <2>1. PICK d : d = [q2[r] EXCEPT !.pc = "guard"]
    OBVIOUS
  <2>2. d \in A!ActRecords /\ d.pc = "guard"
    BY <1>6, <2>1, AdminsTyped DEF A!LeaveCheck, A!ActRecords
  <2>. QED  BY <1>1, <1>6, <2>1, <2>2, ActMoves DEF A!LeaveCheck
<1>. QED  BY <1>1, <1>4, <1>5, <1>6 DEF A!AbortAct

\* A request that locks the active admins, unless it would take the last.
LEMMA ActGuards ==
    ASSUME AdminsSafe, NEW r \in MailRequests, A!Guard(r)
    PROVE  AdminsSafe'
<1>1. PICK d : d = [q2[r] EXCEPT !.pc = "write", !.locks = A!ActiveAdmins]
  OBVIOUS
<1>2. A!ActiveAdmins \subseteq People /\ q2[r].pc = "guard"
  BY DEF A!ActiveAdmins, A!Guard
<1>3. /\ d \in A!ActRecords /\ d.pc = "write" /\ d.locks = A!ActiveAdmins
      /\ d.on = q2[r].on
  BY <1>1, <1>2, AdminsTyped DEF A!ActRecords
<1>4. CASE A!Does(r, A!NoAct)
  BY <1>4, ActMoves, AdminsTyped
<1>5. CASE ~A!LastAdmin(q2[r].on) /\ A!Does(r, d)
  <2>1. \A s \in MailRequests : Writing(s) => d.locks \cap q2[s].locks = {}
    BY <1>3 DEF A!Guard, A!LockedRows, Writing
  <2>2. ~q3 => \E u \in d.locks : u # d.on
    BY <1>3, <1>5 DEF AdminsSafe, A!AdminsStay, A!LastAdmin
  <2>. QED  BY <1>3, <1>5, <2>1, <2>2, ActMoves
<1>. QED  BY <1>1, <1>4, <1>5 DEF A!Guard, A!GuardLocks

\* A change that is written.
LEMMA ActWrites ==
    ASSUME AdminsSafe, NEW r \in MailRequests, A!WriteAct(r)
    PROVE  AdminsSafe'
<1>1. PICK d : d = q2[r]
  OBVIOUS
<1>2. d \in [pc : {"leave", "guard", "write"}, change : A!Changes, on : People,
             locks : SUBSET People]
  BY <1>1, AdminsTyped DEF A!WriteAct
<1>3. /\ Writing(r) /\ d.pc = "write"
      /\ q2' \in [MailRequests -> A!ActRecords] /\ q2'[r].pc = "idle"
      /\ \A s \in MailRequests : s # r => q2'[s] = q2[s]
  BY <1>1, AdminsTyped DEF A!WriteAct, Writing
<1>4. PICK row : row = A!Changed(q1[d.on], d.change)
  OBVIOUS
<1>5. q1[d.on] \in A!UserRows
  BY <1>2, AdminsTyped
<1>6. /\ row \in A!UserRows
      /\ q1[d.on].rank = "admin" /\ q1[d.on].active /\ ~q1[d.on].banned
           /\ ~A!Guarded(d.change) /\ d.change # "ban" =>
           row.rank = "admin" /\ row.active /\ ~row.banned
  BY <1>2, <1>4, <1>5 DEF A!Changed, A!Changes, A!UserRows, A!Ranks, A!GoneUser, A!Guarded
<1>7. /\ q1' \in [People -> A!UserRows] /\ q1'[d.on] = row
      /\ \A u \in People : u # d.on => q1'[u] = q1[u]
  BY <1>1, <1>2, <1>4, <1>6, AdminsTyped DEF A!WriteAct
<1>8. q3' \in BOOLEAN /\ (q3 => q3')
      /\ (d.change = "ban" /\ q1[d.on].rank = "admin" => q3')
  BY <1>1, AdminsTyped, Zenon DEF A!WriteAct
<1>9. \A u \in People : u # d.on => (A!Serving(u)' <=> A!Serving(u))
  BY <1>7 DEF A!Serving
<1>10. ASSUME NEW s \in MailRequests, s # r, Writing(s)
       PROVE  d.on \notin q2[s].locks
  <2>1. CASE d.on \in d.locks
    BY <1>1, <1>3, <1>10, <2>1 DEF AdminsSafe
  <2>2. CASE d.on \notin d.locks
    BY <1>1, <1>10, <2>2 DEF A!WriteAct, A!LockedRows, Writing
  <2>. QED  BY <2>1, <2>2
<1>11. ASSUME NEW s \in MailRequests, Writing(s)'
       PROVE  s # r /\ Writing(s) /\ q2'[s] = q2[s]
  BY <1>3, <1>11 DEF Writing
<1>12. \A s \in MailRequests : Writing(s)' => q2'[s].locks \subseteq A!ActiveAdmins'
  <2>1. ASSUME NEW s \in MailRequests, Writing(s)', NEW u \in q2[s].locks
        PROVE  u \in A!ActiveAdmins'
    <3>1. s # r /\ Writing(s) /\ u # d.on
      BY <1>10, <1>11, <2>1
    <3>2. u \in People /\ A!Serving(u)
      BY <2>1, <3>1 DEF AdminsSafe, A!ActiveAdmins
    <3>. QED  BY <1>9, <3>1, <3>2 DEF A!ActiveAdmins
  <2>. QED  BY <1>11, <2>1
<1>13. A!AdminsStay'
  <2>1. CASE q3'
    BY <2>1 DEF A!AdminsStay
  <2>2. CASE ~q3'
    <3>1. PICK u \in People : A!Serving(u)
      BY <1>8, <2>2 DEF AdminsSafe, A!AdminsStay, A!ActiveAdmins
    <3>2. CASE A!Guarded(d.change)
      <4>1. PICK v \in d.locks : v # d.on
        BY <1>1, <1>3, <1>8, <2>2, <3>2 DEF AdminsSafe
      <4>2. v \in People /\ A!Serving(v)
        BY <1>1, <1>3, <4>1 DEF AdminsSafe, A!ActiveAdmins
      <4>. QED  BY <1>9, <4>1, <4>2 DEF A!AdminsStay, A!ActiveAdmins
    <3>3. CASE ~A!Guarded(d.change)
      <4>1. A!Serving(u)'
        <5>1. CASE u # d.on
          BY <1>9, <3>1, <5>1
        <5>2. CASE u = d.on
          BY <1>6, <1>7, <1>8, <2>2, <3>1, <3>3, <5>2 DEF A!Serving
        <5>. QED  BY <5>1, <5>2
      <4>. QED  BY <4>1 DEF A!AdminsStay, A!ActiveAdmins
    <3>. QED  BY <3>2, <3>3
  <2>. QED  BY <2>1, <2>2
<1>14. A!AdminsTypeOK'
  BY <1>3, <1>7, <1>8 DEF A!AdminsTypeOK
<1>15. \A s, t \in MailRequests :
          Writing(s)' /\ Writing(t)' /\ s # t => q2'[s].locks \cap q2'[t].locks = {}
  BY <1>11 DEF AdminsSafe
<1>16. \A s \in MailRequests :
          Writing(s)' /\ A!Guarded(q2'[s].change) /\ ~q3' =>
             \E u \in q2'[s].locks : u # q2'[s].on
  BY <1>8, <1>11 DEF AdminsSafe
<1>. QED  BY <1>12, <1>13, <1>14, <1>15, <1>16 DEF AdminsSafe

\* An account that is made, or a suspension that ends.
LEMMA UserAppears ==
    ASSUME AdminsSafe, NEW u \in People, A!CreateUser(u) \/ A!BanEnds(u)
    PROVE  AdminsSafe'
<1>1. UNCHANGED <<q2, q3>>
  BY DEF A!CreateUser, A!BanEnds
<1>2. PICK row \in A!UserRows :
         q1' = [q1 EXCEPT ![u] = row] /\ (q1[u].banned \/ q1[u].rank = "gone")
  <2>1. CASE A!CreateUser(u)
    <3>1. PICK rank \in A!Ranks \ {"gone"} :
             q1' = [q1 EXCEPT ![u] = [rank |-> rank, active |-> TRUE, banned |-> FALSE]]
      BY <2>1 DEF A!CreateUser
    <3>2. [rank |-> rank, active |-> TRUE, banned |-> FALSE] \in A!UserRows
      BY DEF A!UserRows
    <3>. QED  BY <2>1, <3>1, <3>2 DEF A!CreateUser
  <2>2. CASE A!BanEnds(u)
    <3>1. PICK row : row = [q1[u] EXCEPT !.banned = FALSE]
      OBVIOUS
    <3>2. row \in A!UserRows
      BY <3>1, AdminsTyped DEF A!UserRows
    <3>. QED  BY <2>2, <3>1, <3>2, AdminsTyped DEF A!BanEnds
  <2>. QED  BY <2>1, <2>2
<1>3. /\ q1' \in [People -> A!UserRows]
      /\ \A v \in People : v # u => q1'[v] = q1[v]
  BY <1>2, AdminsTyped
<1>4. A!ActiveAdmins \subseteq A!ActiveAdmins'
  BY <1>2, <1>3 DEF A!ActiveAdmins, A!Serving
<1>5. A!AdminsTypeOK' /\ A!AdminsStay'
  BY <1>1, <1>3, <1>4 DEF AdminsSafe, A!AdminsTypeOK, A!AdminsStay
<1>6. \A r \in MailRequests : Writing(r)' => q2'[r].locks \subseteq A!ActiveAdmins'
  BY <1>1, <1>4 DEF AdminsSafe, Writing
<1>. QED  BY <1>1, <1>5, <1>6 DEF AdminsSafe, Writing

\* Every step keeps an admin.
LEMMA AdminsSafeStep ==
    ASSUME AdminsSafe, [A!AdminsNext]_(A!adminVars)
    PROVE  AdminsSafe'
<1>1. CASE UNCHANGED A!adminVars
  BY <1>1 DEF A!adminVars, AdminsSafe, A!AdminsTypeOK, A!AdminsStay, A!ActiveAdmins,
     A!Serving, Writing
<1>. QED  BY <1>1, ActBegins, ActGuards, ActWrites, UserAppears DEF A!AdminsNext

\* At the start there is one.
LEMMA AdminsSafeStart ==
    ASSUME A!AdminsInit
    PROVE  AdminsSafe
<1>1. A!NoAct \in A!ActRecords /\ A!NoAct.pc = "idle"
  BY DEF A!ActRecords, A!NoAct
<1>2. A!AdminsTypeOK /\ A!AdminsStay
  BY <1>1 DEF A!AdminsInit, A!AdminsTypeOK, A!AdminsStay
<1>3. \A r \in MailRequests : ~Writing(r)
  BY <1>1 DEF A!AdminsInit, Writing
<1>. QED  BY <1>2, <1>3 DEF AdminsSafe

-----------------------------------------------------------------------------
(* The parts together. *)

\* The part that moves keeps what it rests on.
PartsSafe ==
    /\ part \in {"codes", "confirmations", "sign in", "locks", "addresses", "names",
                 "admins"}
    /\ part = "codes" => CodesSafe
    /\ part = "confirmations" => ConfirmSafe
    /\ part = "sign in" => SignInInv
    /\ part = "locks" => LockSafe
    /\ part = "addresses" => AddressInv
    /\ part = "names" => NamesSafe
    /\ part = "admins" => AdminsSafe

\* At the start every part does.
LEMMA PartsStart ==
    ASSUME Init
    PROVE  PartsSafe
BY CodesSafeInit, ConfirmSafeInit, SignInStarts, LockSafeInit, AddressStart,
   NamesSafeStart, AdminsSafeStart DEF Init, PartsSafe

\* One part moves, or none.
LEMMA OnePartMoves ==
    ASSUME PartsSafe, [Next]_allVars
    PROVE  /\ UNCHANGED part
           /\ part = "codes" => [CodesNext]_codesVars
           /\ part = "confirmations" => [ConfirmNext]_confirmVars
           /\ part = "sign in" => [SignInNext]_signInVars
           /\ part = "locks" => [LockoutNext]_lockoutVars
           /\ part = "addresses" => [MailNext]_mailVars
           /\ part # "addresses" => UNCHANGED mailVars
           /\ part = "names" => [U!NamesNext]_(U!nameVars)
           /\ part = "admins" => [A!AdminsNext]_(A!adminVars)
<1>1. CASE UNCHANGED allVars
  BY <1>1 DEF allVars, OldVars, qVars, U!nameVars, A!adminVars
<1>2. CASE Next
  BY <1>2 DEF Next, OthersOf, OldVars
<1>. QED  BY <1>1, <1>2

\* Every step keeps all of it.
LEMMA PartsStep ==
    ASSUME PartsSafe, [Next]_allVars
    PROVE  PartsSafe'
BY OnePartMoves, CodesSafeStep, ConfirmSafeStep, SignInStays, LockSafeStep, AddressStep,
   NamesSafeStep, AdminsSafeStep DEF PartsSafe

\* The type invariant of all that guards an account.
THEOREM AccountTypes == Spec => []TypesOK
<1>1. PartsSafe => TypesOK
  <2>1. /\ CodesSafe => CodesTypeOK
        /\ ConfirmSafe => ConfirmTypeOK
        /\ SignInInv => SignInTypeOK
        /\ LockSafe => LockoutTypeOK
        /\ AddressInv => MailTypeOK
        /\ NamesSafe => U!NamesTypeOK
        /\ AdminsSafe => A!AdminsTypeOK
    BY DEF CodesSafe, CodesInv, ConfirmSafe, ConfirmInv, SignInInv, NamesInv, LockSafe,
       LoginInv, AddressInv, NamesSafe, AdminsSafe
  <2>. QED  BY <2>1 DEF PartsSafe, TypesOK
<1>. QED  BY PartsStart, PartsStep, <1>1, PTL DEF Spec

\* A name nobody holds is kept for who held it last, and the platform keeps
\* an active admin, unless one was suspended by who took them for less
\* (release_username, guard_last_admin).
THEOREM IdentityIsSafe == Spec => []IdentitySafety
<1>1. PartsSafe => IdentitySafety
  BY DEF PartsSafe, IdentitySafety, NamesSafe, AdminsSafe
<1>. QED  BY PartsStart, PartsStep, <1>1, PTL DEF Spec

\* No step takes what is somebody's: a proven address, what an account that
\* proved one has set up, or a name that another gave up lately
\* (purge_unverified, recover_password, detach_unverified_email, is_unique).
THEOREM AccountIsKept == Spec => AccountSteps
<1>1. ASSUME PartsSafe, [Next]_allVars
      PROVE  [\A a \in People : people[a].ever /\ Live(a) =>
                 /\ people'[a].state # "purged"
                 /\ people'[a].state = "live" =>
                       (people[a].extra => people'[a].extra)]_mailVars
  <2>1. CASE part = "addresses"
    BY <1>1, <2>1, OnePartMoves, OwnerStep DEF PartsSafe
  <2>2. CASE part # "addresses"
    BY <1>1, <2>2, OnePartMoves
  <2>. QED  BY <2>1, <2>2
<1>2. ASSUME PartsSafe, [Next]_allVars
      PROVE  [\A a \in People, r \in MailRequests :
                 people[a].verified /\ mailing[r].pc = "detach"
                   /\ mailing'[r].pc # "detach" =>
                 people'[a].mail = people[a].mail]_mailVars
  <2>1. CASE part = "addresses"
    BY <1>2, <2>1, OnePartMoves, DetachStep DEF PartsSafe
  <2>2. CASE part # "addresses"
    BY <1>2, <2>2, OnePartMoves
  <2>. QED  BY <2>1, <2>2
<1>3. ASSUME PartsSafe, [Next]_allVars
      PROVE  [part = "names" => U!QuarantineKept]_allVars
  BY <1>3, NamesHold DEF PartsSafe
<1>. QED  BY PartsStart, PartsStep, <1>1, <1>2, <1>3, PTL
          DEF Spec, AccountSteps, OwnersKeep, OwnersKeepAccount, ProvenKeepsAddress
=============================================================================
