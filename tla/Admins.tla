------------------------------- MODULE Admins -------------------------------
(***************************************************************************)
(* The ranks of accounts, and what staff do to them: change their role,    *)
(* suspend, deactivate or delete them (controllers/user.rs,                *)
(* user_repository.rs); an admin who deletes their own account             *)
(* (controllers/account.rs) or is demoted from the command line            *)
(* (bin/create_superuser.rs).                                              *)
(*                                                                         *)
(* A request loads its target and compares ranks; the change is a          *)
(* transaction of its own, which locks the active admins when it may take  *)
(* one away.                                                               *)
(***************************************************************************)
EXTENDS Integers, FiniteSets

CONSTANTS
    Users,   \* the accounts
    Acts     \* requests

VARIABLES
    user,     \* each account
    act,      \* what each request is doing
    ambushed  \* somebody was suspended while an admin

adminVars == <<user, act, ambushed>>

\* Moderators and users alike are below admins.
Ranks == {"gone", "below", "admin"}

UserRows == [rank : Ranks, active : BOOLEAN, banned : BOOLEAN]
GoneUser == [rank |-> "gone", active |-> FALSE, banned |-> FALSE]

Changes == {"promote", "demote", "activate", "deactivate", "ban", "unban", "delete"}

NoAct == [pc |-> "idle"]
ActRecords ==
    {NoAct} \cup [pc : {"leave", "guard", "write"}, change : Changes, on : Users,
                  locks : SUBSET Users]

AdminsTypeOK ==
    /\ user \in [Users -> UserRows]
    /\ act \in [Acts -> ActRecords]
    /\ ambushed \in BOOLEAN

Serving(u) == user[u].rank = "admin" /\ user[u].active /\ ~user[u].banned
ActiveAdmins == {u \in Users : Serving(u)}

\* Accounts nobody suspended, one of them an active admin.
AdminsInit ==
    /\ user \in [Users -> {row \in UserRows : row.rank # "gone" /\ ~row.banned}]
    /\ ActiveAdmins # {}
    /\ act = [r \in Acts |-> NoAct]
    /\ ambushed = FALSE

-----------------------------------------------------------------------------
Free(r) == act[r].pc = "idle"
Does(r, a) == act' = [act EXCEPT ![r] = a] /\ UNCHANGED <<user, ambushed>>

\* What can take an active admin away is guarded; a suspension is not.
Guarded(change) == change \in {"demote", "deactivate", "delete"}

Begin(change, u) ==
    [pc |-> IF Guarded(change) THEN "guard" ELSE "write", change |-> change,
     on |-> u, locks |-> {}]

\* Staff outrank whom they manage; only admins change roles and delete.
\* There may be moderators beside the accounts modelled.
StaffAsk(r) ==
    \E u \in Users, change \in Changes :
       /\ Free(r)
       /\ user[u].rank = "below"
       /\ change \in {"promote", "delete"} => ActiveAdmins # {}
       /\ change # "demote"
       /\ Does(r, Begin(change, u))

\* From the command line.
DemoteAsk(r) ==
    \E u \in Users :
       Free(r) /\ user[u].rank = "admin" /\ Does(r, Begin("demote", u))

\* The owner's deletion counts admins first, without a lock.
LeaveAsk(r) ==
    \E u \in Users :
       /\ Free(r)
       /\ user[u].rank # "gone" /\ user[u].active /\ ~user[u].banned
       /\ Does(r, [Begin("delete", u) EXCEPT !.pc =
                     IF user[u].rank = "admin" THEN "leave" ELSE "guard"])

LeaveCheck(r) ==
    /\ act[r].pc = "leave"
    /\ Does(r, IF Cardinality(ActiveAdmins) <= 1 THEN NoAct
               ELSE [act[r] EXCEPT !.pc = "guard"])

-----------------------------------------------------------------------------
LockedRows == UNION {act[q].locks : q \in {p \in Acts : act[p].pc = "write"}}

\* guard_last_admin: the active admins are locked and looked at again.
LastAdmin(u) == ActiveAdmins = {u}

LocksNone == {}
GuardLocks == ActiveAdmins

Guard(r) ==
    /\ act[r].pc = "guard"
    /\ ActiveAdmins \cap LockedRows = {}
    /\ Does(r, IF LastAdmin(act[r].on) THEN NoAct
               ELSE [act[r] EXCEPT !.pc = "write", !.locks = GuardLocks])

Changed(row, change) ==
    IF row.rank = "gone" THEN row ELSE
    CASE change = "promote" -> [row EXCEPT !.rank = "admin"]
      [] change = "demote" -> [row EXCEPT !.rank = "below"]
      [] change = "activate" -> [row EXCEPT !.active = TRUE]
      [] change = "deactivate" -> [row EXCEPT !.active = FALSE]
      [] change = "ban" -> [row EXCEPT !.banned = TRUE]
      [] change = "unban" -> [row EXCEPT !.banned = FALSE]
      [] change = "delete" -> GoneUser

WriteAct(r) ==
    LET a == act[r] IN
    /\ a.pc = "write"
    /\ a.on \notin LockedRows \ a.locks
    /\ user' = [user EXCEPT ![a.on] = Changed(@, a.change)]
    /\ ambushed' = (ambushed \/ (a.change = "ban" /\ user[a.on].rank = "admin"))
    /\ act' = [act EXCEPT ![r] = NoAct]

\* The transaction fails, and its locks go.
AbortAct(r) == act[r].pc \in {"guard", "write"} /\ Does(r, NoAct)

-----------------------------------------------------------------------------
\* A new account, of any rank.
CreateUser(u) ==
    /\ user[u].rank = "gone"
    /\ \E rank \in Ranks \ {"gone"} :
         user' = [user EXCEPT ![u] =
                    [rank |-> rank, active |-> TRUE, banned |-> FALSE]]
    /\ UNCHANGED <<act, ambushed>>

\* A suspension for some hours ends.
BanEnds(u) ==
    /\ user[u].banned
    /\ user' = [user EXCEPT ![u].banned = FALSE]
    /\ UNCHANGED <<act, ambushed>>

AdminsNext ==
    \/ \E r \in Acts :
         StaffAsk(r) \/ DemoteAsk(r) \/ LeaveAsk(r) \/ LeaveCheck(r) \/ Guard(r)
           \/ WriteAct(r) \/ AbortAct(r)
    \/ \E u \in Users : CreateUser(u) \/ BanEnds(u)

-----------------------------------------------------------------------------
\* The platform keeps an active admin, although admins leave and are demoted
\* at once, unless one was suspended by who took them for less
\* (guard_last_admin).
AdminsStay == ambushed \/ ActiveAdmins # {}

\* Refuted: whoever suspends an account compared its rank before it was made
\* an admin, and a suspension is not guarded.
AlwaysAnAdmin == ActiveAdmins # {}
OnlyLowerRanksManaged ==
    [][\A r \in Acts :
         act[r].pc = "write" /\ act'[r].pc = "idle" /\ user' # user
            /\ act[r].change \in {"ban", "deactivate"}
           => user[act[r].on].rank = "below"]_adminVars
=============================================================================
