-------------------------------- MODULE Bands --------------------------------
(***************************************************************************)
(* Bands: their members and roles, the invites, ownership, and what        *)
(* becomes of a band when an account is deleted.                           *)
(*                                                                         *)
(* Membership changes lock the band's row; one that is a single statement  *)
(* or a short transaction under that lock is one action here.  Those that  *)
(* count first and write later, or that read before they take the lock,    *)
(* are transactions of several steps.  The deletion of an account does not *)
(* lock the bands: it only holds the membership rows it has updated.       *)
(***************************************************************************)
EXTENDS Integers, FiniteSets

CONSTANTS
    People, Bands, BandTxs,
    Invites,            \* invites ever made
    MemberLimit,        \* members of a band, by its owner's plan
    MembershipLimit,    \* bands of an account, by its plan
    InviteUses,         \* max_uses of an invite
    MaxStaffActs        \* bound: interventions of the platform's staff

VARIABLES
    accounts,   \* `users`
    bands,      \* `bands`
    role,       \* `band_members`: the role of each person in each band
    invite,     \* `band_invites`
    bandTx,     \* transactions and requests in progress
    staffAdded, \* ghost: members staff added past every limit
    staffActs

bandVars == <<accounts, bands, role, invite, bandTx, staffAdded, staffActs>>

\* band_role, low to high; a moderator ranks like a member here.
None == 0
Member == 1
Admin == 2
Owner == 3
Roles == None..Owner

NoInvite == [is |-> "none", band |-> "none", by |-> "none", role |-> None,
             uses |-> 0]
InviteRecords ==
    [is : {"none", "usable", "revoked"}, band : Bands \cup {"none"},
     by : People \cup {"none"}, role : Roles, uses : 0..InviteUses]
BandPCs == {"idle", "create", "redeem", "transfer", "deleteBand", "list",
            "pick", "promote"}
BandTxRecords ==
    [pc : BandPCs, who : People \cup {"none"}, band : Bands \cup {"none"},
     other : People \cup {"none"}, invite : Invites \cup {"none"},
     todo : SUBSET Bands, heirs : SUBSET (Bands \X People),
     ending : SUBSET Bands]
NoTx == [pc |-> "idle", who |-> "none", band |-> "none", other |-> "none",
         invite |-> "none", todo |-> {}, heirs |-> {}, ending |-> {}]

MembersOf(b) == {u \in People : role[b][u] # None}
BandsOf(u) == {b \in Bands : role[b][u] # None}
OwnersOf(b) == {u \in People : role[b][u] = Owner}

\* Mutant of Usable: an invite is never used up.
UsableAlways(i) == invite[i].is = "usable"

Usable(i) == invite[i].is = "usable" /\ invite[i].uses < InviteUses

\* lock_band: held to the end of a transaction.
BandLocked(b) == \E x \in BandTxs : bandTx[x].pc = "redeem" /\ bandTx[x].band = b
\* The advisory lock of a person who redeems (key 11), and the quota's.
RedeemLocked(u) == \E x \in BandTxs : bandTx[x].pc = "redeem" /\ bandTx[x].who = u
QuotaLocked(u) == \E x \in BandTxs : bandTx[x].pc = "create" /\ bandTx[x].who = u
\* A membership row another transaction has updated and not committed.
RowFree(b, u) == \A x \in BandTxs : <<b, u>> \notin bandTx[x].heirs

\* An invite's row, which who redeems it holds.
InviteFree(i) == \A x \in BandTxs : ~(bandTx[x].pc = "redeem" /\ bandTx[x].invite = i)

EndTx(x) == bandTx' = [bandTx EXCEPT ![x] = NoTx]
Begin(x, pc, u, b, other, i) ==
    /\ bandTx[x].pc = "idle"
    /\ bandTx' = [bandTx EXCEPT ![x] = [NoTx EXCEPT !.pc = pc, !.who = u,
                    !.band = b, !.other = other, !.invite = i]]

\* Mutant of RevokedOf: invites outlive their creator's authority.
RevokedOfNone(b, u) == invite

\* revoke_invites_of.
RevokedOf(b, u) ==
    [i \in Invites |-> IF invite[i].band = b /\ invite[i].by = u
                       THEN [invite[i] EXCEPT !.is = "revoked"]
                       ELSE invite[i]]

-----------------------------------------------------------------------------
(* create_band: both limits are counted under the quota's locks, then the  *)
(* band and its owner are inserted.                                        *)

BeginCreate(x, u, b) ==
    /\ u \in accounts /\ b \notin bands /\ ~QuotaLocked(u)
    /\ \A y \in BandTxs : ~(bandTx[y].pc = "create" /\ bandTx[y].band = b)
    /\ Cardinality(BandsOf(u)) + 1 <= MembershipLimit
    /\ Begin(x, "create", u, b, "none", "none")
    /\ UNCHANGED <<accounts, bands, role, invite, staffAdded, staffActs>>

InsertBand(x) ==
    /\ bandTx[x].pc = "create"
    /\ LET u == bandTx[x].who
           b == bandTx[x].band IN
       IF u \in accounts
       THEN bands' = bands \cup {b} /\ role' = [role EXCEPT ![b][u] = Owner]
       ELSE UNCHANGED <<bands, role>>
    /\ EndTx(x)
    /\ UNCHANGED <<accounts, invite, staffAdded, staffActs>>

-----------------------------------------------------------------------------
(* Invites. *)

\* create_band_invite: only a role below the creator's own.
CreateInvite(i, b, u, r) ==
    /\ invite[i].is = "none" /\ b \in bands /\ ~BandLocked(b)
    /\ role[b][u] >= Admin /\ r < role[b][u] /\ r >= Member
    /\ invite' = [invite EXCEPT ![i] = [is |-> "usable", band |-> b, by |-> u,
                                        role |-> r, uses |-> 0]]
    /\ UNCHANGED <<accounts, bands, role, bandTx, staffAdded, staffActs>>

\* revoke_band_invite.
RevokeInvite(i, u) ==
    /\ invite[i].is = "usable" /\ InviteFree(i)
    /\ role[invite[i].band][u] >= Admin
    /\ invite' = [invite EXCEPT ![i].is = "revoked"]
    /\ UNCHANGED <<accounts, bands, role, bandTx, staffAdded, staffActs>>

\* Mutant of MayBegin: a redemption does not wait for the band's lock.
MayBeginNow(b, u) == ~RedeemLocked(u)

MayBegin(b, u) == ~BandLocked(b) /\ ~RedeemLocked(u)

\* redeem: the band, the invite and the person are locked, then counted.
BeginRedeem(x, i, u) ==
    LET b == invite[i].band IN
    /\ u \in accounts /\ Usable(i) /\ MayBegin(b, u)
    /\ Cardinality(MembersOf(b)) + 1 <= MemberLimit
    /\ Cardinality(BandsOf(u)) + 1 <= MembershipLimit
    /\ role[b][u] = None
    /\ Begin(x, "redeem", u, b, "none", i)
    /\ UNCHANGED <<accounts, bands, role, invite, staffAdded, staffActs>>

Redeem(x) ==
    /\ bandTx[x].pc = "redeem"
    /\ LET u == bandTx[x].who
           b == bandTx[x].band
           i == bandTx[x].invite IN
       IF u \in accounts /\ role[b][u] = None
       THEN /\ role' = [role EXCEPT ![b][u] = invite[i].role]
            /\ invite' = [invite EXCEPT ![i].uses = @ + 1]
       ELSE UNCHANGED <<role, invite>>
    /\ EndTx(x)
    /\ UNCHANGED <<accounts, bands, staffAdded, staffActs>>

-----------------------------------------------------------------------------
(* Members. *)

\* A membership is written to u's row, once nobody holds it.
Writes(b, u, r) ==
    /\ b \in bands /\ ~BandLocked(b) /\ RowFree(b, u)
    /\ role' = [role EXCEPT ![b][u] = r]

Demotes(b, u, r) ==
    invite' = IF r < role[b][u] THEN RevokedOf(b, u) ELSE invite

\* change_role: the actor outranks the target, and only the owner gives a
\* role as high as an admin's.
ChangeRole(b, a, u, r) ==
    /\ a # u /\ role[b][a] >= Admin /\ role[b][u] \in Member..(role[b][a] - 1)
    /\ r \in Member..(role[b][a] - 1) /\ r # role[b][u]
    /\ Writes(b, u, r) /\ Demotes(b, u, r)
    /\ UNCHANGED <<accounts, bands, bandTx, staffAdded, staffActs>>

\* Mutant of MayGo: the owner may leave like anyone else.
MayGoAnyone(b, a, u) ==
    IF a = u THEN TRUE ELSE role[b][a] >= Admin /\ role[b][u] < role[b][a]

MayGo(b, a, u) ==
    IF a = u THEN role[b][u] # Owner
    ELSE role[b][a] >= Admin /\ role[b][u] < role[b][a]

\* remove_as and delete_membership.
RemoveMember(b, a, u) ==
    /\ role[b][a] # None /\ role[b][u] # None /\ MayGo(b, a, u)
    /\ Writes(b, u, None) /\ Demotes(b, u, None)
    /\ UNCHANGED <<accounts, bands, bandTx, staffAdded, staffActs>>

\* transfer_ownership: the caller's role is read before the band is locked.
AskTransfer(x, b, u, new) ==
    /\ role[b][u] = Owner /\ new # u /\ new \in accounts
    /\ Begin(x, "transfer", u, b, new, "none")
    /\ UNCHANGED <<accounts, bands, role, invite, staffAdded, staffActs>>

\* transfer_ownership_within.
Transfer(x) ==
    LET u == bandTx[x].who
        b == bandTx[x].band
        new == bandTx[x].other IN
    /\ bandTx[x].pc = "transfer" /\ ~BandLocked(b)
    /\ RowFree(b, u) /\ RowFree(b, new)
    /\ IF role[b][new] \in {Member, Admin} /\ role[b][u] = Owner
       THEN /\ role' = [role EXCEPT ![b][u] = Admin, ![b][new] = Owner]
            /\ invite' = RevokedOf(b, u)
       ELSE UNCHANGED <<role, invite>>
    /\ EndTx(x)
    /\ UNCHANGED <<accounts, bands, staffAdded, staffActs>>

\* delete_band: the caller's role is read first; the row goes with
\* everything in it, whoever owns it by then.
AskDeleteBand(x, b, u) ==
    /\ role[b][u] = Owner
    /\ Begin(x, "deleteBand", u, b, "none", "none")
    /\ UNCHANGED <<accounts, bands, role, invite, staffAdded, staffActs>>

Gone(bs) ==
    /\ bands' = bands \ bs
    /\ invite' = [i \in Invites |-> IF invite[i].band \in bs THEN NoInvite
                                    ELSE invite[i]]

DeleteBand(x) ==
    LET b == bandTx[x].band IN
    /\ bandTx[x].pc = "deleteBand" /\ ~BandLocked(b)
    /\ \A u \in People : RowFree(b, u)
    /\ Gone({b})
    /\ role' = [role EXCEPT ![b] = [u \in People |-> None]]
    /\ EndTx(x)
    /\ UNCHANGED <<accounts, staffAdded, staffActs>>

-----------------------------------------------------------------------------
(* The platform's staff. *)

\* add_member, update_role and remove.
StaffChanges(b, u, r) ==
    /\ staffActs < MaxStaffActs /\ staffActs' = staffActs + 1
    /\ u \in accounts /\ role[b][u] # Owner
    /\ r \in {None, Member, Admin} /\ r # role[b][u]
    /\ Writes(b, u, r) /\ Demotes(b, u, r)
    /\ staffAdded' = IF role[b][u] = None
                     THEN [staffAdded EXCEPT ![b] = @ + 1] ELSE staffAdded
    /\ UNCHANGED <<accounts, bands, bandTx>>

\* transfer_band_ownership of a band that has no owner.
StaffGivesBand(b, u) ==
    /\ staffActs < MaxStaffActs /\ staffActs' = staffActs + 1
    /\ OwnersOf(b) = {} /\ role[b][u] # None
    /\ Writes(b, u, Owner)
    /\ UNCHANGED <<accounts, bands, invite, bandTx, staffAdded>>

-----------------------------------------------------------------------------
(* The deletion of an account (UserRepository::delete). *)

ListOwned(x, u) ==
    /\ u \in accounts /\ bandTx[x].pc = "idle"
    /\ \A y \in BandTxs : ~(bandTx[y].pc \in {"pick", "promote"} /\
                            bandTx[y].who = u)
    /\ bandTx' = [bandTx EXCEPT ![x] = [NoTx EXCEPT !.pc = "pick", !.who = u,
                    !.todo = {b \in bands : role[b][u] = Owner}]]
    /\ UNCHANGED <<accounts, bands, role, invite, staffAdded, staffActs>>

\* The most senior other member takes over; a band without one ends.
PickHeir(x, b) ==
    LET others == MembersOf(b) \ {bandTx[x].who} IN
    /\ bandTx[x].pc = "pick" /\ b \in bandTx[x].todo
    /\ IF others = {}
       THEN bandTx' = [bandTx EXCEPT ![x].todo = @ \ {b},
                                     ![x].ending = @ \cup {b}]
       ELSE \E u \in others :
            /\ \A v \in others : role[b][v] <= role[b][u]
            /\ bandTx' = [bandTx EXCEPT ![x].todo = @ \ {b}, ![x].band = b,
                            ![x].other = u, ![x].pc = "promote"]
    /\ UNCHANGED <<accounts, bands, role, invite, staffAdded, staffActs>>

\* The update waits for the row; a row that is gone is not updated.
PromoteHeir(x) ==
    LET b == bandTx[x].band
        u == bandTx[x].other IN
    /\ bandTx[x].pc = "promote" /\ RowFree(b, u)
    /\ bandTx' = [bandTx EXCEPT ![x].pc = "pick",
         ![x].heirs = IF role[b][u] # None THEN @ \cup {<<b, u>>} ELSE @]
    /\ UNCHANGED <<accounts, bands, role, invite, staffAdded, staffActs>>

\* The account goes with its memberships and its invites; at the commit no
\* band may have two owners, or everything is rolled back.
DeleteAccount(x) ==
    LET u == bandTx[x].who
        ending == bandTx[x].ending
        after == [b \in Bands |-> [v \in People |->
                    IF v = u \/ b \in ending THEN None
                    ELSE IF <<b, v>> \in bandTx[x].heirs THEN Owner
                    ELSE role[b][v]]] IN
    /\ bandTx[x].pc = "pick" /\ bandTx[x].todo = {}
    /\ \A b \in BandsOf(u) : RowFree(b, u)
    /\ \A b \in ending : ~BandLocked(b) /\ \A v \in People : RowFree(b, v)
    /\ \A i \in Invites : invite[i].by = u => InviteFree(i)
    /\ IF \E b \in bands : Cardinality({v \in People : after[b][v] = Owner}) > 1
       THEN UNCHANGED <<accounts, bands, role, invite>>
       ELSE /\ accounts' = accounts \ {u} /\ role' = after
            /\ bands' = bands \ ending
            /\ invite' = [i \in Invites |->
                 IF invite[i].by = u \/ invite[i].band \in ending
                 THEN NoInvite ELSE invite[i]]
    /\ EndTx(x)
    /\ UNCHANGED <<staffAdded, staffActs>>

\* A transaction that deadlocks, times out or loses its connection.
AbortTx(x) ==
    /\ bandTx[x].pc # "idle" /\ EndTx(x)
    /\ UNCHANGED <<accounts, bands, role, invite, staffAdded, staffActs>>

-----------------------------------------------------------------------------
BandInit ==
    /\ accounts = People /\ bands = {}
    /\ role = [b \in Bands |-> [u \in People |-> None]]
    /\ invite = [i \in Invites |-> NoInvite]
    /\ bandTx = [x \in BandTxs |-> NoTx]
    /\ staffAdded = [b \in Bands |-> 0] /\ staffActs = 0

BandTxStep(x) ==
    \/ \E u \in People, b \in Bands :
          BeginCreate(x, u, b) \/ AskDeleteBand(x, b, u)
    \/ \E u \in People, i \in Invites : BeginRedeem(x, i, u)
    \/ \E b \in Bands, u, v \in People : AskTransfer(x, b, u, v)
    \/ \E u \in People : ListOwned(x, u)
    \/ \E b \in Bands : PickHeir(x, b)
    \/ InsertBand(x) \/ Redeem(x) \/ Transfer(x) \/ DeleteBand(x)
    \/ PromoteHeir(x) \/ DeleteAccount(x) \/ AbortTx(x)

BandNext ==
    \/ \E x \in BandTxs : BandTxStep(x)
    \/ \E i \in Invites, u \in People :
          \/ \E b \in Bands, r \in Roles : CreateInvite(i, b, u, r)
          \/ RevokeInvite(i, u)
    \/ \E b \in Bands, u \in People :
          \/ \E a \in People :
                RemoveMember(b, a, u) \/ \E r \in Roles : ChangeRole(b, a, u, r)
          \/ StaffGivesBand(b, u)
          \/ \E r \in Roles : StaffChanges(b, u, r)

BandSpec == BandInit /\ [][BandNext]_bandVars

-----------------------------------------------------------------------------
(* What the bands promise. *)

\* Every variable keeps its type, and no band has two owners.
BandTypeOK ==
    /\ accounts \subseteq People /\ bands \subseteq Bands
    /\ role \in [Bands -> [People -> Roles]]
    /\ invite \in [Invites -> InviteRecords]
    /\ bandTx \in [BandTxs -> BandTxRecords]
    /\ staffAdded \in [Bands -> Nat] /\ staffActs \in Nat
    /\ \A b \in Bands : Cardinality(OwnersOf(b)) <= 1

\* An invite that can be used never gives more than its creator could give
\* now: demoted, removed or with the band handed over, they take their
\* invites with them (revoke_invites_of, create_band_invite).
InviteAuthority ==
    \A i \in Invites : Usable(i) =>
       LET held == role[invite[i].band][invite[i].by] IN
       held >= Admin /\ invite[i].role < held

\* However many redeem at once, a band has no more members than its plan
\* allows, but for those the staff added (redeem); its owner has a seat
\* whatever that is (create_band looks at no limit on members).
Seats == IF MemberLimit = 0 THEN 1 ELSE MemberLimit
MembersWithinLimit ==
    \A b \in Bands :
       Cardinality(MembersOf(b)) <= Seats + staffAdded[b]

\* As long as nobody deletes their account, a band always has its owner,
\* whatever transfers, removals and changes of role come together
\* (transfer_ownership_within, remove_as, change_role, update_role).
BandHasOwner ==
    accounts = People => \A b \in bands : OwnersOf(b) # {}

\* What holds of every band whatever its people and the staff do at once.
BandSafety == InviteAuthority /\ MembersWithinLimit /\ BandHasOwner

\* Accounts that are deleted hand their bands over (UserRepository::delete):
\* a band with members always has an owner.
BandHandedOver ==
    \A b \in bands : MembersOf(b) # {} => OwnersOf(b) # {}
=============================================================================
