---------------------------- MODULE AccountEmail ----------------------------
(***************************************************************************)
(* Which account has which e-mail address, who proved it, and what follows *)
(* the proof: the sign-up trial of the address, and the removal of what    *)
(* was set up before the first proof.                                      *)
(*                                                                         *)
(* A request reads its account once and acts on it in several statements;  *)
(* staff, Google sign-ins, the clean-up job and other requests change the  *)
(* account in between.  Whoever types a code reads the mailbox it went to. *)
(***************************************************************************)
EXTENDS Integers, FiniteSets

CONSTANTS
    People,             \* accounts
    Mails,              \* canonical e-mail addresses
    MailRequests,       \* requests in progress
    MidTrial,           \* whether an account may go, or its trial be replaced,
                        \* between the start of the trial and the look at it
    MaxMails,           \* bound: codes sent
    MaxTroubles         \* bound: addresses set by staff, requests that die

ASSUME MailConstants ==
    /\ IsFiniteSet(People) /\ IsFiniteSet(MailRequests)
    /\ MidTrial \in BOOLEAN
    /\ MaxMails \in Nat /\ MaxTroubles \in Nat

VARIABLES
    people,     \* `users`, and whether the account is on its trial
    mailed,     \* the live code of each account and purpose: its address
    claims,     \* `trial_claims`
    mailing,    \* what each request is doing
    proofs,     \* ghost: the addresses each account proved
    trials,     \* ghost: trials started, by account and address claimed
    crossed,    \* ghost: whose address was replaced under a recovery
    bounds      \* how often each bounded event happened

mailVars ==
    <<people, mailed, claims, mailing, proofs, trials, crossed, bounds>>

NoMail == "none"
Purposes == {"verify", "change", "recover"}

Accounts ==
    [state : {"none", "live", "purged", "deleted"}, mail : Mails \cup {NoMail},
     verified : BOOLEAN, ever : BOOLEAN, extra : BOOLEAN,
     plan : {"none", "trial", "over"}]
NoAccount == [state |-> "none", mail |-> NoMail, verified |-> FALSE,
              ever |-> FALSE, extra |-> FALSE, plan |-> "none"]

MailPCs == {"idle", "write", "detach", "create", "claim", "start", "check"}
\* `extra`: a second factor or a linked Google account.  A request keeps its
\* own copy of the address, whether it was `fresh` (not verified), and where
\* its code went.
Mailings ==
    [pc : MailPCs, who : People \cup {NoMail}, why : Purposes \cup {"google"},
     read : Mails \cup {NoMail}, to : Mails \cup {NoMail}, fresh : BOOLEAN]
NotMailing == [pc |-> "idle", who |-> NoMail, why |-> "google",
               read |-> NoMail, to |-> NoMail, fresh |-> FALSE]

Live(a) == people[a].state = "live"
Taken(e) == \E a \in People : people[a].mail = e
TakenByOther(e, a) == \E b \in People \ {a} : people[b].mail = e
NoCodes == [p \in Purposes |-> NoMail]

Idle(r) == mailing[r].pc = "idle"
Go(r, pc) == mailing' = [mailing EXCEPT ![r].pc = pc]
ToTrial(r) == mailing' = [mailing EXCEPT ![r] =
    [NotMailing EXCEPT !.pc = "claim", !.who = mailing[r].who, !.to = mailing[r].to]]
Done(r) == mailing' = [mailing EXCEPT ![r] = NotMailing]

Within(event, bound) ==
    bounds[event] < bound /\ bounds' = [bounds EXCEPT ![event] = @ + 1]

-----------------------------------------------------------------------------
(* Codes. *)

\* register; the unique index on the address decides.
Register(a, e) ==
    /\ people[a].state = "none" /\ ~Taken(e)
    /\ people' = [people EXCEPT ![a] =
                    [NoAccount EXCEPT !.state = "live", !.mail = e]]
    /\ UNCHANGED <<mailed, claims, mailing, proofs, trials, crossed, bounds>>

\* send_code replaces the live code of the purpose.
SendMail(a, why, e) ==
    /\ Within("mails", MaxMails)
    /\ mailed' = [mailed EXCEPT ![a][why] = e]
    /\ UNCHANGED <<people, claims, mailing, proofs, trials, crossed>>

\* forgot_password, send_email_verification: to the account's address.
AskByMail(a, why) ==
    /\ Live(a) /\ people[a].mail # NoMail
    /\ why = "verify" => ~people[a].verified
    /\ SendMail(a, why, people[a].mail)

\* start_email_change: to the new one, unless another account has it (its
\* owner gets a notice, and nobody the code).
StartChange(a, e) ==
    /\ Live(a) /\ people[a].mail # e
    /\ SendMail(a, "change", IF TakenByOther(e, a) THEN NoMail ELSE e)

\* verify_email, check_reset_code, confirm_email_change: the account is
\* read, and consume_code lets one of the requests with the code go on.
TypeCode(r, a, why) ==
    /\ Idle(r) /\ Live(a) /\ mailed[a][why] # NoMail
    /\ why = "verify" => ~people[a].verified
    /\ mailing' = [mailing EXCEPT ![r] =
         [pc |-> "write", who |-> a, why |-> why, read |-> people[a].mail,
          to |-> mailed[a][why], fresh |-> ~people[a].verified]]
    /\ mailed' = [mailed EXCEPT ![a][why] = NoMail]
    /\ proofs' = [proofs EXCEPT ![a] = @ \cup {mailed[a][why]}]
    /\ UNCHANGED <<people, claims, trials, crossed, bounds>>

-----------------------------------------------------------------------------
(* What the code lets through. *)

\* Mutant of Marked: the address is not compared.
MarkedAny(p, e) == ~p.verified

Marked(p, e) == p.mail = e /\ ~p.verified

\* The account has the address, and proved it.
Proven(p, e) == [p EXCEPT !.mail = e, !.verified = TRUE, !.ever = TRUE]

\* mark_email_verified; the address may have changed since.
MarkVerified(r) ==
    /\ mailing[r].pc = "write" /\ mailing[r].why = "verify"
    /\ LET a == mailing[r].who IN
       IF Live(a) /\ Marked(people[a], mailing[r].to)
       THEN /\ people' = [people EXCEPT ![a] = Proven(people[a], people[a].mail)]
            /\ ToTrial(r)
       ELSE Done(r) /\ UNCHANGED people
    /\ UNCHANGED <<mailed, claims, proofs, trials, crossed, bounds>>

\* is_email_taken, and the unique index; change_email voids every code.
ChangeEmail(r) ==
    /\ mailing[r].pc = "write" /\ mailing[r].why = "change"
    /\ LET a == mailing[r].who
           e == mailing[r].to IN
       IF Live(a) /\ ~TakenByOther(e, a)
       THEN /\ people' = [people EXCEPT ![a] = Proven(people[a], e)]
            /\ mailed' = [mailed EXCEPT ![a] = NoCodes]
            /\ IF mailing[r].fresh THEN ToTrial(r) ELSE Done(r)
       ELSE Done(r) /\ UNCHANGED <<people, mailed>>
    /\ UNCHANGED <<claims, proofs, trials, crossed, bounds>>

\* Mutant of FirstProof: of the address, not of the account.
FirstProofNow(p) == ~p.verified

FirstProof(p) == ~p.ever

Recovered(p, verifies) ==
    [p EXCEPT !.verified = p.verified \/ verifies, !.ever = p.ever \/ verifies,
              !.extra = p.extra /\ ~(verifies /\ FirstProof(p))]

\* recover_password: sessions and codes are void; the address is verified
\* when the code went to the one the request read, and what was set up
\* before the account's first proof is removed.
RecoverPassword(r) ==
    /\ mailing[r].pc = "write" /\ mailing[r].why = "recover"
    /\ LET a == mailing[r].who
           verifies == mailing[r].read = mailing[r].to IN
       IF Live(a)
       THEN /\ people' = [people EXCEPT ![a] = Recovered(people[a], verifies)]
            /\ mailed' = [mailed EXCEPT ![a] = NoCodes]
            /\ crossed' = IF verifies /\ people[a].mail # mailing[r].read
                          THEN crossed \cup {a} ELSE crossed
            /\ IF verifies /\ mailing[r].fresh THEN ToTrial(r) ELSE Done(r)
       ELSE Done(r) /\ UNCHANGED <<people, mailed, crossed>>
    /\ UNCHANGED <<claims, proofs, trials, bounds>>

-----------------------------------------------------------------------------
(* start_verified_trial. *)

\* Mutant of ClaimFree: the insert's conflict is ignored.
ClaimFreeAnyway(e) == TRUE

ClaimFree(e) == e \notin claims

ClaimTrial(r) ==
    /\ mailing[r].pc = "claim"
    /\ IF ClaimFree(mailing[r].to)
       THEN claims' = claims \cup {mailing[r].to} /\ Go(r, "start")
       ELSE Done(r) /\ UNCHANGED claims
    /\ UNCHANGED <<people, mailed, proofs, trials, crossed, bounds>>

\* start_registration_trial: where plans are enforced, for an account that
\* never had a plan.
StartTrial(r, enforced) ==
    /\ mailing[r].pc = "start"
    /\ LET a == mailing[r].who IN
       IF enforced /\ Live(a) /\ people[a].plan = "none"
       THEN /\ people' = [people EXCEPT ![a].plan = "trial"]
            /\ trials' = trials \cup {<<a, mailing[r].to>>}
       ELSE UNCHANGED <<people, trials>>
    /\ Go(r, "check")
    /\ UNCHANGED <<mailed, claims, proofs, crossed, bounds>>

\* The claim is given back unless the account is on a trial.
CheckTrial(r) ==
    /\ mailing[r].pc = "check"
    /\ LET a == mailing[r].who IN
       claims' = IF Live(a) /\ people[a].plan = "trial" THEN claims
                 ELSE claims \ {mailing[r].to}
    /\ Done(r)
    /\ UNCHANGED <<people, mailed, proofs, trials, crossed, bounds>>

-----------------------------------------------------------------------------
(* Google sign-up with an address: linked identities and sign-ins of       *)
(* verified accounts do not come here.                                     *)

GoogleLook(r, a, e, authoritative) ==
    /\ Idle(r) /\ people[a].state = "none"
    /\ \A b \in People : people[b].mail = e =>
          ~people[b].verified /\ authoritative
    /\ mailing' = [mailing EXCEPT ![r] =
         [NotMailing EXCEPT !.who = a, !.to = e, !.fresh = authoritative,
            !.pc = IF Taken(e) THEN "detach" ELSE "create"]]
    /\ UNCHANGED <<people, mailed, claims, proofs, trials, crossed, bounds>>

\* Mutant of Detachable: the handler's own look is relied on.
DetachableAny(p) == TRUE

Detachable(p) == ~p.verified

\* detach_unverified_email of the account the request found.
GoogleDetach(r) ==
    /\ mailing[r].pc = "detach"
    /\ LET found == {b \in People : people[b].mail = mailing[r].to
                                      /\ Detachable(people[b])} IN
       /\ people' = [b \in People |->
                       IF b \in found THEN [people[b] EXCEPT !.mail = NoMail]
                       ELSE people[b]]
       /\ mailed' = [b \in People |-> IF b \in found THEN NoCodes
                                      ELSE mailed[b]]
       /\ IF found = {} /\ Taken(mailing[r].to) THEN Done(r)
          ELSE Go(r, "create")
    /\ UNCHANGED <<claims, proofs, trials, crossed, bounds>>

\* create_account, link_identity; a proven address starts its trial.
GoogleCreate(r) ==
    /\ mailing[r].pc = "create"
    /\ LET a == mailing[r].who
           e == mailing[r].to
           proven == mailing[r].fresh IN
       IF people[a].state = "none" /\ ~Taken(e)
       THEN /\ people' = [people EXCEPT ![a] =
                 [state |-> "live", mail |-> e, verified |-> proven,
                  ever |-> proven, extra |-> TRUE, plan |-> "none"]]
            /\ proofs' = [proofs EXCEPT ![a] = IF proven THEN {e} ELSE {}]
            /\ IF proven THEN ToTrial(r) ELSE Done(r)
       ELSE Done(r) /\ UNCHANGED <<people, proofs>>
    /\ UNCHANGED <<mailed, claims, trials, crossed, bounds>>

-----------------------------------------------------------------------------
(* Everything else that touches the account. *)

\* link_google, or enable_two_factor of an account with a verified address.
SetUpExtra(a) ==
    /\ Live(a) /\ people' = [people EXCEPT ![a].extra = TRUE]
    /\ UNCHANGED <<mailed, claims, mailing, proofs, trials, crossed, bounds>>

\* UserRepository::update by staff: a new address is unproven, and the
\* codes of the old one are void.
StaffSetEmail(a, e) ==
    /\ Within("troubles", MaxTroubles) /\ Live(a) /\ e # people[a].mail
    /\ e \in Mails => ~Taken(e)
    /\ people' = [people EXCEPT ![a].mail = e, ![a].verified = FALSE]
    /\ mailed' = [mailed EXCEPT ![a] = NoCodes]
    /\ UNCHANGED <<claims, mailing, proofs, trials, crossed>>

\* The account goes with its codes; the claims stay.
Remove(a, how) ==
    /\ people' = [people EXCEPT ![a] = [NoAccount EXCEPT !.state = how]]
    /\ mailed' = [mailed EXCEPT ![a] = NoCodes]
    /\ UNCHANGED <<claims, mailing, proofs, trials, crossed, bounds>>

Settled(a) ==
    MidTrial \/ \A r \in MailRequests :
                   mailing[r].who = a => mailing[r].pc # "check"

DeletePerson(a) == Live(a) /\ Settled(a) /\ Remove(a, "deleted")

\* Mutant of Purgeable: the address the account has now.
PurgeableNow(p) == ~p.verified /\ p.mail # NoMail /\ ~p.extra

Purgeable(p) == PurgeableNow(p) /\ ~p.ever

\* purge_unverified: never proven, no identity, and no content.
Purge(a) == Live(a) /\ Purgeable(people[a]) /\ Remove(a, "purged")

\* By its end, or by a plan that is bought.
TrialEnds(a) ==
    /\ people[a].plan = "trial" /\ Settled(a)
    /\ people' = [people EXCEPT ![a].plan = "over"]
    /\ UNCHANGED <<mailed, claims, mailing, proofs, trials, crossed, bounds>>

\* A crash, an error of the database, or a client that hangs up.
LoseMailing(r) ==
    /\ mailing[r].pc \in {"write", "create", "claim", "start", "check"}
    /\ Within("troubles", MaxTroubles)
    /\ Done(r)
    /\ UNCHANGED <<people, mailed, claims, proofs, trials, crossed>>

MailInit ==
    /\ people = [a \in People |-> NoAccount]
    /\ mailed = [a \in People |-> NoCodes]
    /\ claims = {} /\ trials = {} /\ crossed = {}
    /\ bounds = [event \in {"mails", "troubles"} |-> 0]
    /\ mailing = [r \in MailRequests |-> NotMailing]
    /\ proofs = [a \in People |-> {}]

MailRequest(r) ==
    \/ \E a \in People, why \in Purposes : TypeCode(r, a, why)
    \/ MarkVerified(r) \/ ChangeEmail(r) \/ RecoverPassword(r)
    \/ ClaimTrial(r) \/ CheckTrial(r)
    \/ \E enforced \in BOOLEAN : StartTrial(r, enforced)
    \/ \E a \in People, e \in Mails, authoritative \in BOOLEAN :
          GoogleLook(r, a, e, authoritative)
    \/ GoogleDetach(r) \/ GoogleCreate(r) \/ LoseMailing(r)

MailNext ==
    \/ \E r \in MailRequests : MailRequest(r)
    \/ \E a \in People, e \in Mails : Register(a, e) \/ StartChange(a, e)
    \/ \E a \in People, why \in {"verify", "recover"} : AskByMail(a, why)
    \/ \E a \in People, e \in Mails \cup {NoMail} : StaffSetEmail(a, e)
    \/ \E a \in People : SetUpExtra(a) \/ DeletePerson(a) \/ Purge(a) \/ TrialEnds(a)

MailSpec == MailInit /\ [][MailNext]_mailVars

-----------------------------------------------------------------------------
(* What the addresses promise. *)

\* Every variable keeps its type.
MailTypeOK ==
    /\ people \in [People -> Accounts]
    /\ mailed \in [People -> [Purposes -> Mails \cup {NoMail}]]
    /\ claims \subseteq Mails /\ mailing \in [MailRequests -> Mailings]
    /\ proofs \in [People -> SUBSET Mails]
    /\ trials \subseteq People \X Mails
    /\ crossed \subseteq People /\ bounds \in [DOMAIN bounds -> Nat]

\* A verified address was proven by the account that has it: by a code
\* that went there, or by Google (mark_email_verified, change_email,
\* recover_password).
VerifiedWasProven ==
    \A a \in People : people[a].verified =>
       people[a].mail \in proofs[a] \cup {NoMail}

\* The same but for an address replaced between the code of a recovery and
\* its write, which does not compare it again.
VerifiedUnlessCrossed ==
    \A a \in People : people[a].verified =>
       people[a].mail \in proofs[a] \cup {NoMail} \/ a \in crossed

\* One trial per address, ever, whatever becomes of the account it was for
\* (claim_trial, release_trial_claim).
OneTrialPerMail ==
    \A e \in Mails : Cardinality({a \in People : <<a, e>> \in trials}) <= 1

\* An account that once proved an address keeps what it set up and is never
\* purged, also while an address staff gave it is not verified
\* (recover_password's first proof, purge_unverified).
OwnersKeepAccount ==
    [][\A a \in People : people[a].ever /\ Live(a) =>
          /\ people'[a].state # "purged"
          /\ people'[a].state = "live" =>
                (people[a].extra => people'[a].extra)]_mailVars

\* A Google sign-up takes an address only from an account that has not
\* proven it, although the account may prove it meanwhile
\* (detach_unverified_email).
ProvenKeepsAddress ==
    [][\A a \in People, r \in MailRequests :
          people[a].verified /\ mailing[r].pc = "detach"
            /\ mailing'[r].pc # "detach" => people'[a].mail = people[a].mail]_mailVars

\* What an address is worth: it is verified for who proved it, and it has
\* had a trial at most once.
MailSafety == VerifiedUnlessCrossed /\ OneTrialPerMail

\* What was proven stays: neither the account nor its address is taken from
\* who proved it by a purge, a first proof or a Google sign-up.
OwnersKeep == OwnersKeepAccount /\ ProvenKeepsAddress
=============================================================================
