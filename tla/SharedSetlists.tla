----------------------------- MODULE SharedSetlists ----------------------------
(***************************************************************************)
(* Personal setlists shared with collaborators, and the songs these        *)
(* contribute from their own libraries.                                    *)
(*                                                                         *)
(* The setlist links the contributor's song.  When the link is about to    *)
(* break (they leave or are removed, the song or its artist goes to the    *)
(* trash, the account is deleted) the song is detached: the setlist holds  *)
(* a copy of it from then on.  Changes of collaborators are one            *)
(* transaction under the setlist's lock; trashing and deleting detach with *)
(* one statement and break the link with a later one.                      *)
(***************************************************************************)
EXTENDS Integers, FiniteSets

CONSTANTS
    Players, Lists, Pieces,     \* people, setlists, songs
    ListOwner, PieceOwner,      \* whose each is
    Tasks,                      \* requests in progress
    MaxInvitations,             \* bound: invitations ever sent
    MaxContributions            \* bound: songs ever added

VARIABLES
    people,      \* accounts there are
    collab,      \* `setlist_collaborators`
    piece,       \* `songs`: "live", in the "trash", or "gone"
    linked,      \* `setlist_songs`
    held,        \* `setlist_held_songs`: copies of a song a setlist holds
    task,
    given,       \* ghost: contributions nobody took out of the setlist
    due,         \* ghost: those of them that were visible when they were made
                 \* and met no removal that leaves songs unlocked
    hurried,     \* ghost: those that did meet one
    invitations, contributions

sharedVars == <<people, collab, piece, linked, held, task, given, due, hurried,
                invitations, contributions>>
libraryVars == <<people, piece>>
ghostVars == <<given, due, hurried>>
boundVars == <<invitations, contributions>>

\* CollaboratorRole.
Viewer == 1
Editor == 2
Manager == 3
Stranger == [role |-> 0, accepted |-> FALSE]
Entries == Lists \X Pieces

TaskPCs == {"idle", "add", "drop", "song", "artist", "account"}
NoTask == [pc |-> "idle", who |-> "none", list |-> "none", piece |-> "none",
           moved |-> {}]
TaskRecords ==
    [pc : TaskPCs, who : Players \cup {"none"}, list : Lists \cup {"none"},
     piece : Pieces \cup {"none"}, moved : SUBSET Entries]

LiveList(l) == ListOwner[l] \in people

\* SetlistStanding: the owner, or an accepted collaborator's role.
Standing(l, u) ==
    IF u = ListOwner[l] THEN Manager + 1
    ELSE IF collab[l][u].accepted THEN collab[l][u].role ELSE 0

\* can_manage: a manager only deals with viewers and editors.
CanManage(l, u, r) ==
    \/ Standing(l, u) > Manager
    \/ Standing(l, u) = Manager /\ r < Manager

\* Songs a setlist links that are not its owner's.
Contributed(u) ==
    {p \in linked : PieceOwner[p[2]] = u /\ ListOwner[p[1]] # u /\
                    piece[p[2]] = "live"}

\* scoped_songs: what a setlist shows of what it links.
Visible(p) == p \in linked /\ piece[p[2]] = "live" /\
              Standing(p[1], PieceOwner[p[2]]) > 0
Copies(p) == held[p] + (IF p \in linked THEN 1 ELSE 0)
Shown(p) == held[p] + (IF Visible(p) THEN 1 ELSE 0)

\* A row a transaction has deleted and not committed makes others wait.
EntryFree(p) == \A x \in Tasks : p \notin task[x].moved
EntriesFree(ps) == \A p \in ps : EntryFree(p)

\* Mutant of PieceLocked: moving a song to the trash does not lock it.
PieceLockedNever(s) == FALSE

\* SongRepository::trash reads the song FOR UPDATE; a link to it waits.
PieceLocked(s) == \E x \in Tasks : task[x].pc = "song" /\ task[x].piece = s

\* An artist's songs and an account's are detached without that lock.
RemovalUnderWay(s) ==
    \E x \in Tasks : task[x].pc \in {"artist", "account"} /\
                     task[x].who = PieceOwner[s]

Detached(ps) ==
    /\ linked' = linked \ ps
    /\ held' = [p \in Entries |-> IF p \in ps THEN held[p] + 1 ELSE held[p]]

StartTask(x, pc, u, l, s, ps) ==
    /\ task[x].pc = "idle"
    /\ task' = [task EXCEPT ![x] = [pc |-> pc, who |-> u, list |-> l,
                                    piece |-> s, moved |-> ps]]
EndTask(x) == task' = [task EXCEPT ![x] = NoTask]

-----------------------------------------------------------------------------
(* Collaborators. *)

Invite(l, a, u, r) ==
    /\ invitations < MaxInvitations /\ LiveList(l) /\ u \in people
    /\ u \notin {a, ListOwner[l]} /\ collab[l][u] = Stranger
    /\ CanManage(l, a, r)
    /\ collab' = [collab EXCEPT ![l][u] = [role |-> r, accepted |-> FALSE]]
    /\ invitations' = invitations + 1
    /\ UNCHANGED <<libraryVars, linked, held, task, ghostVars, contributions>>

AcceptInvitation(l, u) ==
    /\ LiveList(l) /\ collab[l][u].role > 0 /\ ~collab[l][u].accepted
    /\ collab' = [collab EXCEPT ![l][u].accepted = TRUE]
    /\ UNCHANGED <<libraryVars, linked, held, task, ghostVars, boundVars>>

DeclineInvitation(l, u) ==
    /\ LiveList(l) /\ collab[l][u].role > 0 /\ ~collab[l][u].accepted
    /\ collab' = [collab EXCEPT ![l][u] = Stranger]
    /\ UNCHANGED <<libraryVars, linked, held, task, ghostVars, boundVars>>

ChangeCollabRole(l, a, u, r) ==
    /\ LiveList(l) /\ a # u /\ collab[l][u].role \notin {0, r}
    /\ CanManage(l, a, collab[l][u].role) /\ CanManage(l, a, r)
    /\ collab' = [collab EXCEPT ![l][u].role = r]
    /\ UNCHANGED <<libraryVars, linked, held, task, ghostVars, boundVars>>

\* remove: by someone who manages them, or leaving.
RemoveCollab(l, a, u) ==
    LET theirs == {p \in Contributed(u) : p[1] = l} IN
    /\ LiveList(l) /\ collab[l][u].role > 0
    /\ IF a = u THEN collab[l][u].accepted ELSE CanManage(l, a, collab[l][u].role)
    /\ EntriesFree(theirs) /\ Detached(theirs)
    /\ collab' = [collab EXCEPT ![l][u] = Stranger]
    /\ UNCHANGED <<libraryVars, task, ghostVars, boundVars>>

-----------------------------------------------------------------------------
(* Songs in and out of a setlist. *)

\* add_song_to_setlist: an editor, a live song of their own.
AskAdd(x, l, u, s) ==
    /\ contributions < MaxContributions
    /\ LiveList(l) /\ Standing(l, u) >= Editor
    /\ PieceOwner[s] = u /\ piece[s] = "live" /\ <<l, s>> \notin linked
    /\ StartTask(x, "add", u, l, s, {})
    /\ UNCHANGED <<libraryVars, collab, linked, held, ghostVars, boundVars>>

\* SetlistRepository::add_song, whatever has become of the caller's role.
AddPiece(x) ==
    LET p == <<task[x].list, task[x].piece>>
        u == task[x].who
        counts == Standing(p[1], u) > 0 /\ piece[p[2]] = "live" /\
                  u # ListOwner[p[1]] IN
    /\ task[x].pc = "add" /\ ~PieceLocked(p[2]) /\ EntryFree(p)
    /\ IF LiveList(p[1]) /\ u \in people /\ piece[p[2]] # "gone" /\ p \notin linked
       THEN /\ linked' = linked \cup {p}
            /\ contributions' = contributions + 1
            /\ given' = [given EXCEPT ![p] = @ + 1]
            /\ due' = IF counts /\ ~RemovalUnderWay(p[2])
                      THEN [due EXCEPT ![p] = @ + 1] ELSE due
            /\ hurried' = IF counts /\ RemovalUnderWay(p[2])
                          THEN [hurried EXCEPT ![p] = @ + 1] ELSE hurried
       ELSE UNCHANGED <<linked, contributions, ghostVars>>
    /\ EndTask(x)
    /\ UNCHANGED <<libraryVars, collab, held, invitations>>

\* What someone takes out is no longer owed to the setlist.
Forgiven(p) ==
    /\ given' = [given EXCEPT ![p] = @ - 1]
    /\ due' = [due EXCEPT ![p] = 0] /\ hurried' = [hurried EXCEPT ![p] = 0]

AskDrop(x, l, u, s) ==
    /\ LiveList(l) /\ Standing(l, u) >= Editor /\ Copies(<<l, s>>) > 0
    /\ StartTask(x, "drop", u, l, s, {})
    /\ UNCHANGED <<libraryVars, collab, linked, held, ghostVars, boundVars>>

\* remove_song: a linked song, or one the setlist holds.
DropPiece(x) ==
    LET p == <<task[x].list, task[x].piece>> IN
    /\ task[x].pc = "drop" /\ EntryFree(p)
    /\ IF ~LiveList(p[1]) \/ Copies(p) = 0
       THEN UNCHANGED <<linked, held, ghostVars>>
       ELSE /\ Forgiven(p)
            /\ \/ /\ p \in linked /\ linked' = linked \ {p} /\ UNCHANGED held
               \/ /\ held[p] > 0 /\ held' = [held EXCEPT ![p] = @ - 1]
                  /\ UNCHANGED linked
    /\ EndTask(x)
    /\ UNCHANGED <<libraryVars, collab, boundVars>>

\* copy_song_to_library by the setlist's owner: their own copy of a held
\* song takes its place.
AdoptHeld(p) ==
    /\ LiveList(p[1]) /\ held[p] > 0 /\ held' = [held EXCEPT ![p] = @ - 1]
    /\ Forgiven(p)
    /\ UNCHANGED <<libraryVars, collab, linked, task, boundVars>>

-----------------------------------------------------------------------------
(* Songs, artists and accounts that go. *)

\* The first statements: lock (a song only) and detach.
BeginTrashSong(x, s) ==
    LET theirs == {p \in Contributed(PieceOwner[s]) : p[2] = s} IN
    /\ piece[s] = "live" /\ ~PieceLocked(s) /\ EntriesFree(theirs)
    /\ StartTask(x, "song", PieceOwner[s], "none", s, theirs)
    /\ UNCHANGED <<libraryVars, collab, linked, held, ghostVars, boundVars>>

\* An artist with everything of theirs in the person's library.
BeginTrashArtist(x, u) ==
    /\ u \in people /\ \E s \in Pieces : PieceOwner[s] = u /\ piece[s] = "live"
    /\ EntriesFree(Contributed(u))
    /\ StartTask(x, "artist", u, "none", "none", Contributed(u))
    /\ UNCHANGED <<libraryVars, collab, linked, held, ghostVars, boundVars>>

BeginDeleteAccount(x, u) ==
    /\ u \in people /\ EntriesFree(Contributed(u))
    /\ StartTask(x, "account", u, "none", "none", Contributed(u))
    /\ UNCHANGED <<libraryVars, collab, linked, held, ghostVars, boundVars>>

\* The last statement and the commit.
EndTrash(x) ==
    LET u == task[x].who
        going == IF task[x].pc = "song" THEN {task[x].piece}
                 ELSE {s \in Pieces : PieceOwner[s] = u} IN
    /\ task[x].pc \in {"song", "artist"}
    /\ \A s \in going : task[x].pc = "song" \/ ~PieceLocked(s)
    /\ Detached(task[x].moved)
    /\ piece' = [s \in Pieces |-> IF s \in going /\ piece[s] = "live"
                                  THEN "trash" ELSE piece[s]]
    /\ EndTask(x)
    /\ UNCHANGED <<people, collab, ghostVars, boundVars>>

\* DELETE FROM users cascades over the library, the setlists and the
\* collaborations; rows other transactions have touched are waited for.
DeletePerson(x) ==
    LET u == task[x].who
        theirs == {p \in Entries : u \in {PieceOwner[p[2]], ListOwner[p[1]]}} IN
    /\ task[x].pc = "account"
    /\ \A s \in Pieces : PieceOwner[s] = u => ~PieceLocked(s)
    /\ \A y \in Tasks \ {x} : task[y].moved \cap theirs = {}
    /\ people' = people \ {u}
    /\ piece' = [s \in Pieces |-> IF PieceOwner[s] = u THEN "gone" ELSE piece[s]]
    /\ linked' = linked \ theirs
    /\ held' = [p \in Entries |-> IF ListOwner[p[1]] = u THEN 0
                                  ELSE IF p \in task[x].moved THEN held[p] + 1
                                  ELSE held[p]]
    /\ collab' = [l \in Lists |-> IF ListOwner[l] = u
                                  THEN [v \in Players |-> Stranger]
                                  ELSE [collab[l] EXCEPT ![u] = Stranger]]
    /\ EndTask(x)
    /\ UNCHANGED <<ghostVars, boundVars>>

\* TrashRepository::restore, and delete_permanently or purge_before.
RestorePiece(s) ==
    /\ piece[s] = "trash" /\ piece' = [piece EXCEPT ![s] = "live"]
    /\ UNCHANGED <<people, collab, linked, held, task, ghostVars, boundVars>>

PurgePiece(s) ==
    /\ piece[s] = "trash" /\ EntriesFree({p \in linked : p[2] = s})
    /\ piece' = [piece EXCEPT ![s] = "gone"]
    /\ linked' = {p \in linked : p[2] # s}
    /\ UNCHANGED <<people, collab, held, task, ghostVars, boundVars>>

\* A request that fails, deadlocks or is cut off is rolled back.
AbortTask(x) ==
    /\ task[x].pc # "idle" /\ EndTask(x)
    /\ UNCHANGED <<libraryVars, collab, linked, held, ghostVars, boundVars>>

-----------------------------------------------------------------------------
SharedInit ==
    /\ people = Players /\ piece = [s \in Pieces |-> "live"]
    /\ collab = [l \in Lists |-> [u \in Players |-> Stranger]]
    /\ linked = {} /\ held = [p \in Entries |-> 0]
    /\ task = [x \in Tasks |-> NoTask]
    /\ given = [p \in Entries |-> 0] /\ due = given /\ hurried = given
    /\ invitations = 0 /\ contributions = 0

SharedNext ==
    \/ \E l \in Lists, u \in Players :
          \/ AcceptInvitation(l, u) \/ DeclineInvitation(l, u)
          \/ \E a \in Players :
                \/ RemoveCollab(l, a, u)
                \/ \E r \in Viewer..Manager :
                      Invite(l, a, u, r) \/ ChangeCollabRole(l, a, u, r)
    \/ \E x \in Tasks :
          \/ \E l \in Lists, u \in Players, s \in Pieces :
                AskAdd(x, l, u, s) \/ AskDrop(x, l, u, s)
          \/ \E s \in Pieces : BeginTrashSong(x, s)
          \/ \E u \in Players : BeginTrashArtist(x, u) \/ BeginDeleteAccount(x, u)
          \/ AddPiece(x) \/ DropPiece(x) \/ EndTrash(x) \/ DeletePerson(x)
          \/ AbortTask(x)
    \/ \E p \in Entries : AdoptHeld(p)
    \/ \E s \in Pieces : RestorePiece(s) \/ PurgePiece(s)

SharedSpec == SharedInit /\ [][SharedNext]_sharedVars

-----------------------------------------------------------------------------
(* What a shared setlist promises. *)

\* Every variable keeps its type.
SharedTypeOK ==
    /\ people \subseteq Players
    /\ collab \in [Lists -> [Players ->
                     [role : 0..Manager, accepted : BOOLEAN]]]
    /\ piece \in [Pieces -> {"live", "trash", "gone"}]
    /\ linked \subseteq Entries /\ held \in [Entries -> Nat]
    /\ task \in [Tasks -> TaskRecords]
    /\ given \in [Entries -> Nat] /\ due \in [Entries -> Nat]
    /\ hurried \in [Entries -> Nat]
    /\ invitations \in Nat /\ contributions \in Nat

\* A song someone contributed and that showed in the setlist stays in it,
\* linked or held, and never twice, whoever leaves, trashes or deletes what
\* at the same time (detach_contributed_songs and its four callers); a song
\* added in the middle of an artist's or an account's removal excepted.
ContributedStays ==
    \A p \in Entries : LiveList(p[1]) =>
       due[p] <= Shown(p) /\ Copies(p) <= given[p]

\* What detach_contributed_songs says: no contribution ever vanishes from
\* someone else's show.
NeverVanishes ==
    \A p \in Entries : LiveList(p[1]) => due[p] + hurried[p] <= Shown(p)
=============================================================================
