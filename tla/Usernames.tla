------------------------------ MODULE Usernames ------------------------------
(***************************************************************************)
(* Usernames: unique but for case, and kept for their previous owner for a *)
(* while after a rename or a deletion (user_repository.rs, and the         *)
(* requests that give names: sign-up, staff, the account itself, a reset   *)
(* by moderation, the purge of accounts that never verified).              *)
(*                                                                         *)
(* A request looks whether the name is held, then whether it was released, *)
(* and an account that renames itself whether it did lately; each is a     *)
(* statement of its own.  The change is one transaction.                   *)
(***************************************************************************)
EXTENDS Integers, FiniteSets

CONSTANTS
    Accounts,     \* the accounts there ever are
    Names,        \* the names, case aside
    Renames,      \* requests that give a name
    NoAccount,    \* nobody
    Quarantine,   \* USERNAME_QUARANTINE_DAYS
    Cooldown,     \* USERNAME_CHANGE_COOLDOWN_DAYS
    MaxNameTime   \* bound: the clock

VARIABLES
    name,       \* the name of each account
    changed,    \* username_changed_at
    released,   \* the name's row of released_usernames
    rename,     \* what each request is doing
    lastHolder, \* who held each name last
    nameTime    \* the clock

nameVars == <<name, changed, released, rename, lastHolder, nameTime>>

NotYet == "not yet"
Gone == "gone"
Never == 0 - 1
NameTimes == {Never} \cup 0..MaxNameTime

NeverReleased == [by |-> NoAccount, at |-> Never]

\* Who gives the name: who signs up, the account, staff, or moderation.
Kinds == {"create", "self", "staff", "reset"}
NoRename == [pc |-> "idle"]

\* `since`: somebody has given the name up since it was found free.
RenameRecords ==
    {NoRename}
      \cup [pc : {"released", "held", "cooldown", "write"}, kind : Kinds,
            account : Accounts, name : Names, since : BOOLEAN]

NamesTypeOK ==
    /\ name \in [Accounts -> Names \cup {NotYet, Gone}]
    /\ changed \in [Accounts -> NameTimes]
    /\ released \in [Names -> [by : Accounts \cup {NoAccount}, at : NameTimes]]
    /\ rename \in [Renames -> RenameRecords]
    /\ lastHolder \in [Names -> Accounts \cup {NoAccount}]
    /\ nameTime \in 0..MaxNameTime

NamesInit ==
    /\ name = [a \in Accounts |-> NotYet]
    /\ changed = [a \in Accounts |-> Never]
    /\ released = [n \in Names |-> NeverReleased]
    /\ rename = [r \in Renames |-> NoRename]
    /\ lastHolder = [n \in Names |-> NoAccount]
    /\ nameTime = 0

-----------------------------------------------------------------------------
Here(a) == name[a] \in Names
Holders(n) == {a \in Accounts : name[a] = n}

\* Whom the checks leave out: a new account and a reset leave out nobody.
Excluded(c) == IF c.kind \in {"self", "staff"} THEN {c.account} ELSE {}

Held(c) == Holders(c.name) \ Excluded(c) # {}

\* A name given up lately is free for its previous owner alone.
Quarantined(c) ==
    /\ released[c.name].at # Never
    /\ released[c.name].at > nameTime - Quarantine
    /\ released[c.name].by \notin Excluded(c)

ChecksSwapped == <<"released", "held">>
Checks == <<"held", "released">>

Refuses(c, check) == IF check = "held" THEN Held(c) ELSE Quarantined(c)

Sets(r, c) ==
    rename' = [rename EXCEPT ![r] = c]
      /\ UNCHANGED <<name, changed, released, lastHolder, nameTime>>

Asking == {q \in Renames : rename[q] # NoRename}

\* The first check of a request.
AskName(r) ==
    \E kind \in Kinds, a \in Accounts, n \in Names :
       LET c == [pc |-> Checks[2], kind |-> kind, account |-> a, name |-> n,
                 since |-> FALSE] IN
       /\ rename[r] = NoRename
       /\ IF kind = "create"
          THEN name[a] = NotYet /\ ~\E q \in Asking : rename[q].account = a
          ELSE Here(a)
       /\ ~Refuses(c, Checks[1])
       /\ Sets(r, c)

CheckAgain(r) ==
    LET c == rename[r] IN
    /\ c.pc = Checks[2]
    /\ Sets(r, IF Refuses(c, Checks[2]) THEN NoRename
               ELSE [c EXCEPT !.pc = IF c.kind = "self" THEN "cooldown" ELSE "write",
                              !.since = FALSE])

CheckCooldown(r) ==
    LET c == rename[r]
        at == changed[c.account] IN
    /\ c.pc = "cooldown"
    /\ Sets(r, IF Here(c.account) /\ (at = Never \/ at + Cooldown <= nameTime)
               THEN [c EXCEPT !.pc = "write"] ELSE NoRename)

-----------------------------------------------------------------------------
\* A later release replaces an earlier one.
ReleasedOnce(old, new) == IF old = NeverReleased THEN new ELSE old
Released(old, new) == new

GiveUp(a) ==
    released' = [released EXCEPT ![name[a]] =
                   Released(@, [by |-> a, at |-> nameTime])]

\* Requests that found the name free before it was given up.
Outdate(n, rec) ==
    [q \in Renames |->
       IF rec[q] = NoRename THEN NoRename
       ELSE [rec[q] EXCEPT !.since = @ \/ rec[q].name = n]]

\* The index on the name refuses what somebody else holds.
WriteName(r) ==
    LET c == rename[r]
        a == c.account
        rest == [rename EXCEPT ![r] = NoRename]
        leaves == Here(a) /\ name[a] # c.name
    IN
    /\ c.pc = "write"
    /\ Holders(c.name) \subseteq {a}
    /\ c.kind = "create" \/ Here(a)
    /\ name' = [name EXCEPT ![a] = c.name]
    /\ changed' = [changed EXCEPT ![a] =
                     IF c.kind \in {"create", "reset"} THEN Never ELSE nameTime]
    /\ IF leaves \/ (c.kind = "reset" /\ Here(a)) THEN GiveUp(a)
       ELSE UNCHANGED released
    /\ rename' = IF leaves THEN Outdate(name[a], rest) ELSE rest
    /\ lastHolder' = [lastHolder EXCEPT ![c.name] = a]
    /\ UNCHANGED nameTime

\* It fails: the name is taken, the account gone, or the database away.
RefuseName(r) == rename[r].pc = "write" /\ Sets(r, NoRename)

\* A deletion, or a purge, gives the name up in its transaction.
DeleteAccount(a) ==
    /\ Here(a)
    /\ name' = [name EXCEPT ![a] = Gone]
    /\ GiveUp(a)
    /\ rename' = Outdate(name[a], rename)
    /\ UNCHANGED <<changed, lastHolder, nameTime>>

NameTick ==
    /\ nameTime < MaxNameTime
    /\ nameTime' = nameTime + 1
    /\ UNCHANGED <<name, changed, released, rename, lastHolder>>

NamesNext ==
    \/ \E r \in Renames :
         AskName(r) \/ CheckAgain(r) \/ CheckCooldown(r) \/ WriteName(r)
           \/ RefuseName(r)
    \/ \E a \in Accounts : DeleteAccount(a)
    \/ NameTick

-----------------------------------------------------------------------------
\* A name nobody holds is kept for whoever held it last, however often it
\* changed hands (release_username).
VacatedIsKept ==
    \A n \in Names : Holders(n) = {} => released[n].by = lastHolder[n]

\* Nobody takes a name that another account gave up lately, unless it was
\* taken and given up again since it was found free (is_unique).
QuarantineKept ==
    \A r \in Renames :
       LET c == rename[r] IN
       WriteName(r) /\ name[c.account] # c.name /\ ~c.since => ~Quarantined(c)

\* Refuted: it may be given up after the check, and two renames of an account
\* may both find that it has not renamed itself lately.
NeverTakenInQuarantine ==
    [][\A r \in Renames :
         WriteName(r) /\ name[rename[r].account] # rename[r].name
           => ~Quarantined(rename[r])]_nameVars
CooldownHeld ==
    [][\A r \in Renames :
         WriteName(r) /\ rename[r].kind = "self" =>
           changed[rename[r].account] = Never
             \/ changed[rename[r].account] + Cooldown <= nameTime]_nameVars
=============================================================================
