------------------------------- MODULE BandDesk -------------------------------
(***************************************************************************)
(* A band from within: ranks and who may act on whom, the permissions of    *)
(* plain members and moderators, and the reminders they leave each other.   *)
(*                                                                         *)
(* The same rules are written down several times: what the band's page says *)
(* its reader may do, what a request is then allowed, and the hierarchy in  *)
(* every handler about another member.  Reminders are counted and inserted  *)
(* under the lock that changes of rank take too.                            *)
(***************************************************************************)
EXTENDS Integers, FiniteSets

CONSTANTS
    Crew, Founder,      \* people, and who made the band
    Powers,             \* BandPermission
    NoteRows, MaxNotes, \* reminders, and how many a band may have
    Desks,              \* requests under way
    NoNote, NoOne       \* no reminder, and nobody

VARIABLES
    rank,       \* `band_members.role`
    matrix,     \* `band_role_permissions`: the powers of the lower ranks
    note,       \* `band_notes`: the author of each
    desk        \* the requests

deskVars == <<rank, matrix, note, desk>>

\* BandRole, and Outside.
Outside == 0
Member == 1
Moderator == 2
Admin == 3
Owner == 4
Configurable == {Member, Moderator}

NoRequest == [pc |-> "idle", who |-> NoOne, note |-> NoNote]
DeskRecords ==
    [pc : {"idle", "create", "insert", "drop"}, who : Crew \cup {NoOne},
     note : NoteRows \cup {NoNote}]

Written == {n \in NoteRows : note[n] # NoOne}
SetDesk(x, r) == desk' = [desk EXCEPT ![x] = r]

-----------------------------------------------------------------------------
(* What a member may do. *)

\* require_role: outsiders are not told that there is a band.
RequireRole(u, least) ==
    IF rank[u] = Outside THEN "not_found"
    ELSE IF rank[u] >= least THEN "ok" ELSE "forbidden"

\* role_has_permission; a row that is missing allows nothing.
HasPower(r, p) == r >= Admin \/ (r \in Configurable /\ p \in matrix[r])

\* require_permission.
RequirePower(u, p) ==
    IF rank[u] = Outside THEN "not_found"
    ELSE IF HasPower(rank[u], p) THEN "ok" ELSE "forbidden"

\* Mutant of PageFlags: moderators are taken for admins.
PageFlagsOfStaff(u) ==
    {p \in Powers : rank[u] >= Moderator \/ (rank[u] = Member /\ p \in matrix[rank[u]])}

\* MyBandPermissions on the band's page, and in the list of the reader's bands.
PageFlags(u) ==
    {p \in Powers :
        rank[u] \in {Admin, Owner} \/ \E r \in Configurable : rank[u] = r /\ p \in matrix[r]}
ListFlags(u) ==
    {p \in Powers :
        rank[u] \in {Admin, Owner} \/ \E r \in Configurable : rank[u] = r /\ p \in matrix[r]}
PageAnswer(u) == IF rank[u] = Outside THEN "not_found" ELSE "ok"
ListsBand(u) == rank[u] # Outside

UpdateBandAnswer(u) == RequireRole(u, Admin)
FavoriteAnswer(u) == RequireRole(u, Member)
RosterAnswer(u) == RequireRole(u, Member)
InvitesAnswer(u) == RequireRole(u, Admin)
RevokeInviteAnswer(u) == RequireRole(u, Admin)
MatrixAnswer(u) == RequireRole(u, Admin)

\* update_role_permissions: only the rows of the lower ranks.
SetMatrix(u, r, p, may) ==
    /\ RequireRole(u, Admin) = "ok" /\ r \in Configurable /\ may # (p \in matrix[r])
    /\ matrix' = [matrix EXCEPT ![r] = IF may THEN @ \cup {p} ELSE @ \ {p}]
    /\ UNCHANGED <<rank, note, desk>>

-----------------------------------------------------------------------------
(* Who may act on whom. *)

\* update_band_member_title: one's own, or that of who ranks below.
TitleAnswer(a, u) ==
    IF a = u THEN RequireRole(a, Member)
    ELSE IF RequireRole(a, Admin) # "ok" THEN RequireRole(a, Admin)
    ELSE IF rank[u] = Outside THEN "not_found"
    ELSE IF rank[u] >= rank[a] THEN "forbidden" ELSE "ok"

\* Mutant of RoleAnswer: an admin hands out a rank as high as their own.
RoleAnswerUpTo(a, u, r) ==
    IF r = Owner \/ a = u THEN "forbidden"
    ELSE IF RequireRole(a, Admin) # "ok" THEN RequireRole(a, Admin)
    ELSE IF rank[u] = Outside THEN "not_found"
    ELSE IF rank[u] >= rank[a] \/ r > rank[a] THEN "forbidden"
    ELSE IF r = rank[u] THEN "not_modified" ELSE "ok"

\* update_band_member_role and change_role.
RoleAnswer(a, u, r) ==
    IF r = Owner \/ a = u THEN "forbidden"
    ELSE IF RequireRole(a, Admin) # "ok" THEN RequireRole(a, Admin)
    ELSE IF rank[u] = Outside THEN "not_found"
    ELSE IF rank[u] >= rank[a] \/ (r >= rank[a] /\ rank[a] # Owner) THEN "forbidden"
    ELSE IF r = rank[u] THEN "not_modified" ELSE "ok"

\* remove_as: leaving, or of who ranks below.
RemoveAnswer(a, u) ==
    IF rank[a] = Outside THEN "not_found"
    ELSE IF a = u THEN IF rank[a] = Owner THEN "forbidden" ELSE "ok"
    ELSE IF rank[u] = Outside THEN "not_found"
    ELSE IF rank[a] < Admin \/ rank[u] >= rank[a] THEN "forbidden" ELSE "ok"

\* create_band_invite, of an invite that names its role.
InviteAnswer(a, r) ==
    IF RequireRole(a, Admin) # "ok" THEN RequireRole(a, Admin)
    ELSE IF r >= rank[a] THEN "forbidden" ELSE "ok"

\* Mutant of BandFree: nobody waits for who counts reminders.
BandFreeAlways == TRUE

\* The band's row, locked by every change of rank and by who adds a reminder.
BandFree == \A x \in Desks : desk[x].pc # "insert"

SetRank(u, r) ==
    /\ BandFree /\ rank' = [rank EXCEPT ![u] = r]
    /\ UNCHANGED <<matrix, note, desk>>

ChangeRank(a, u, r) == RoleAnswer(a, u, r) = "ok" /\ SetRank(u, r)
RemoveMember(a, u) == RemoveAnswer(a, u) = "ok" /\ SetRank(u, Outside)

\* accept_band_invite: invites give no rank as high as their maker's (Bands).
Join(u, r) == rank[u] = Outside /\ r \in Member..Admin /\ SetRank(u, r)

\* transfer_ownership_within.
HandOver(a, u) ==
    /\ rank[a] = Owner /\ rank[u] \in Member..Admin /\ BandFree
    /\ rank' = [rank EXCEPT ![a] = Admin, ![u] = Owner]
    /\ UNCHANGED <<matrix, note, desk>>

-----------------------------------------------------------------------------
(* Reminders. *)

\* Mutant of CanEdit: a moderator may edit whatever they find.
CanEditAny(u, n) == note[n] = u \/ rank[u] >= Moderator

\* can_edit: its author; or who ranks above the author, who may have left.
CanEdit(u, n) ==
    \/ note[n] = u
    \/ /\ rank[u] >= Moderator
       /\ rank[u] = Owner \/ rank[note[n]] = Outside \/ rank[note[n]] < rank[u]

\* list_notes tells of each whether its reader may edit it.
NotesAnswer(u) == RequireRole(u, Member)
Editable(u) == {n \in Written : CanEdit(u, n)}

NewNoteAnswer(u, pinned) ==
    IF RequireRole(u, Member) # "ok" THEN RequireRole(u, Member)
    ELSE IF pinned /\ rank[u] < Moderator THEN "forbidden" ELSE "ok"
UpdateNoteAnswer(u, n, pins) ==
    IF RequireRole(u, Member) # "ok" THEN RequireRole(u, Member)
    ELSE IF n \notin Written THEN "not_found"
    ELSE IF ~CanEdit(u, n) \/ (pins /\ rank[u] < Moderator) THEN "forbidden" ELSE "ok"
DeleteNoteAnswer(u, n) ==
    IF RequireRole(u, Member) # "ok" THEN RequireRole(u, Member)
    ELSE IF n \notin Written THEN "not_found"
    ELSE IF ~CanEdit(u, n) THEN "forbidden" ELSE "ok"

\* create_note: the rank is read, then the band is locked and its reminders are
\* counted, then one is inserted.
AskNote(x, u) ==
    /\ desk[x].pc = "idle" /\ NewNoteAnswer(u, FALSE) = "ok"
    /\ SetDesk(x, [NoRequest EXCEPT !.pc = "create", !.who = u])
    /\ UNCHANGED <<rank, matrix, note>>
CountNotes(x) ==
    /\ desk[x].pc = "create" /\ BandFree
    /\ SetDesk(x, IF Cardinality(Written) >= MaxNotes THEN NoRequest
                  ELSE [desk[x] EXCEPT !.pc = "insert"])
    /\ UNCHANGED <<rank, matrix, note>>
InsertNote(x, n) ==
    /\ desk[x].pc = "insert"
    /\ n \notin Written /\ \A y \in Desks : desk[y].note # n     \* a new id
    /\ note' = [note EXCEPT ![n] = desk[x].who] /\ SetDesk(x, NoRequest)
    /\ UNCHANGED <<rank, matrix>>

\* delete_note: by who could edit it when asked.
AskDrop(x, u, n) ==
    /\ desk[x].pc = "idle" /\ DeleteNoteAnswer(u, n) = "ok"
    /\ SetDesk(x, [NoRequest EXCEPT !.pc = "drop", !.note = n])
    /\ UNCHANGED <<rank, matrix, note>>
DropNote(x) ==
    /\ desk[x].pc = "drop"
    /\ note' = [note EXCEPT ![desk[x].note] = NoOne] /\ SetDesk(x, NoRequest)
    /\ UNCHANGED <<rank, matrix>>

\* A request that fails, and its transaction with it.
AbortDesk(x) ==
    /\ desk[x].pc # "idle" /\ SetDesk(x, NoRequest)
    /\ UNCHANGED <<rank, matrix, note>>

\* BandRepository::create: moderators may do everything, members take files out.
DeskInit ==
    /\ rank = [u \in Crew |-> IF u = Founder THEN Owner ELSE Outside]
    /\ matrix = [r \in Configurable |->
                   IF r = Moderator THEN Powers ELSE Powers \cap {"export_pdf"}]
    /\ note = [n \in NoteRows |-> NoOne]
    /\ desk = [x \in Desks |-> NoRequest]

DeskNext ==
    \/ \E a, u \in Crew :
          \/ RemoveMember(a, u) \/ HandOver(a, u)
          \/ \E r \in Member..Owner : ChangeRank(a, u, r)
    \/ \E u \in Crew, r \in Member..Admin : Join(u, r)
    \/ \E u \in Crew, r \in Configurable, p \in Powers, may \in BOOLEAN :
          SetMatrix(u, r, p, may)
    \/ \E x \in Desks :
          \/ \E u \in Crew : AskNote(x, u) \/ \E n \in NoteRows : AskDrop(x, u, n)
          \/ \E n \in NoteRows : InsertNote(x, n)
          \/ CountNotes(x) \/ DropNote(x) \/ AbortDesk(x)

-----------------------------------------------------------------------------
\* Every variable keeps its type.
DeskTypeOK ==
    /\ rank \in [Crew -> Outside..Owner]
    /\ matrix \in [Configurable -> SUBSET Powers]
    /\ note \in [NoteRows -> Crew \cup {NoOne}]
    /\ desk \in [Desks -> DeskRecords]

\* What the page and the list say a member may do is what requests are allowed,
\* whatever the ranks and the matrix became ("Keep them in sync if the shape
\* changes"; MyBandPermissions, "computed with the same rules the API enforces").
FlagsAgree ==
    \A u \in Crew :
       /\ PageFlags(u) = ListFlags(u)
       /\ PageFlags(u) = {p \in Powers : RequirePower(u, p) = "ok"}
       /\ ListsBand(u) <=> PageAnswer(u) = "ok"
       /\ PageAnswer(u) = "not_found" <=> RosterAnswer(u) = "not_found"

\* One owner; and every handler about another member has the same hierarchy: who
\* may be given a title may be removed, an invite gives no more than a change of
\* rank could, and only the owner makes admins.
RanksAgree ==
    /\ \E u \in Crew : rank[u] = Owner /\ \A v \in Crew \ {u} : rank[v] # Owner
    /\ \A a, u \in Crew : a # u =>
          /\ TitleAnswer(a, u) = "ok" <=> RemoveAnswer(a, u) = "ok"
          /\ RemoveAnswer(a, u) = "ok" => rank[u] < rank[a]
          /\ \A r \in Member..Owner :
                /\ RoleAnswer(a, u, r) \in {"ok", "not_modified"} <=>
                      RemoveAnswer(a, u) = "ok" /\ InviteAnswer(a, r) = "ok"
                /\ RoleAnswer(a, u, r) = "ok" /\ r = Admin => rank[a] = Owner

\* Reminders: within the limit, however many are added at once; the list says
\* who may edit which as the requests do; and nobody but its author edits one of
\* who ranks as high as themselves.
NotesKept ==
    /\ Cardinality(Written) <= MaxNotes
    /\ \A u \in Crew : rank[u] # Outside =>
          /\ Editable(u) = {n \in NoteRows : DeleteNoteAnswer(u, n) = "ok"}
          /\ Editable(u) = {n \in NoteRows : UpdateNoteAnswer(u, n, FALSE) = "ok"}
          /\ \A n \in Editable(u) : note[n] = u \/ rank[note[n]] < rank[u]

DeskSafety ==
    /\ FlagsAgree
    /\ RanksAgree
    /\ NotesKept
=============================================================================
