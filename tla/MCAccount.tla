------------------------------ MODULE MCAccount ------------------------------
(***************************************************************************)
(* Small instances of what guards an account, for TLC: its one-time codes, *)
(* confirmations, sign-ins, locks and addresses, its username and its      *)
(* rank.  They share nothing but the kinds of their actors, so one run     *)
(* checks them side by side: `part` says which one a behaviour is of.  The *)
(* last two share the variables q1 to q6, which stay 0 in other parts.     *)
(***************************************************************************)
EXTENDS OneTimeCodes, Confirmations, SignIn, Lockout, AccountEmail, TLC

CONSTANTS
    Quarantine,   \* USERNAME_QUARANTINE_DAYS
    Cooldown,     \* USERNAME_CHANGE_COOLDOWN_DAYS
    MaxNameTime   \* bound: the clock of the names

\* The states an account has instead of a name are not names.
ASSUME NameConstants ==
    /\ Quarantine \in Nat /\ Cooldown \in Nat /\ MaxNameTime \in Nat
    /\ "not yet" \notin Mails /\ "gone" \notin Mails

VARIABLES part, q1, q2, q3, q4, q5, q6

\* Two accounts and two names.
U == INSTANCE Usernames WITH
        Accounts <- People, Names <- Mails, Renames <- MailRequests,
        NoAccount <- "nobody",
        name <- q1, changed <- q2, released <- q3, rename <- q4,
        lastHolder <- q5, nameTime <- q6

\* Two accounts, of which one or both are admins.
A == INSTANCE Admins WITH
        Users <- People, Acts <- MailRequests,
        user <- q1, act <- q2, ambushed <- q3

qVars == <<q1, q2, q3, q4, q5, q6>>
Last3 == q4 = 0 /\ q5 = 0 /\ q6 = 0

Init ==
    /\ CodesInit /\ ConfirmInit /\ SignInInit /\ LockoutInit /\ MailInit
    /\ \/ /\ part \in {"codes", "confirmations", "sign in", "locks", "addresses"}
          /\ q1 = 0 /\ q2 = 0 /\ q3 = 0 /\ Last3
       \/ part = "names" /\ U!NamesInit
       \/ part = "admins" /\ A!AdminsInit /\ Last3

OldVars == <<codesVars, confirmVars, signInVars, lockoutVars, mailVars>>
OthersOf(vars) == UNCHANGED <<part, qVars, vars>>

Next ==
    \/ /\ part = "codes" /\ CodesNext
       /\ OthersOf(<<confirmVars, signInVars, lockoutVars, mailVars>>)
    \/ /\ part = "confirmations" /\ ConfirmNext
       /\ OthersOf(<<codesVars, signInVars, lockoutVars, mailVars>>)
    \/ /\ part = "sign in" /\ SignInNext
       /\ OthersOf(<<codesVars, confirmVars, lockoutVars, mailVars>>)
    \/ /\ part = "locks" /\ LockoutNext
       /\ OthersOf(<<codesVars, confirmVars, signInVars, mailVars>>)
    \/ /\ part = "addresses" /\ MailNext
       /\ OthersOf(<<codesVars, confirmVars, signInVars, lockoutVars>>)
    \/ part = "names" /\ U!NamesNext /\ UNCHANGED <<part, OldVars>>
    \/ /\ part = "admins" /\ A!AdminsNext
       /\ UNCHANGED <<part, OldVars, q4, q5, q6>>

allVars == <<part, qVars, OldVars>>

Spec == Init /\ [][Next]_allVars

\* Requests are alike in every part.  Networks are alike in the parts that
\* have them, and so are accounts, which take the same model values.
Symmetry ==
    Permutations(MailRequests) \cup Permutations(People) \cup Permutations(Mails)

\* Every variable of the part that moves keeps its type.
TypesOK ==
    CASE part = "codes" -> CodesTypeOK
      [] part = "confirmations" -> ConfirmTypeOK
      [] part = "sign in" -> SignInTypeOK
      [] part = "locks" -> LockoutTypeOK
      [] part = "addresses" -> MailTypeOK
      [] part = "names" -> U!NamesTypeOK
      [] part = "admins" -> A!AdminsTypeOK

\* A name given up is kept for who held it last, and the platform keeps an
\* active admin (Usernames, Admins).
IdentitySafety ==
    /\ part = "names" => U!VacatedIsKept
    /\ part = "admins" => A!AdminsStay

\* No step takes what is somebody's: a proven address, a name in quarantine
\* (AccountEmail, Usernames).
AccountSteps ==
    /\ OwnersKeep
    /\ [][part = "names" => U!QuarantineKept]_allVars
=============================================================================
