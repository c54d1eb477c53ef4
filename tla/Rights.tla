-------------------------------- MODULE Rights --------------------------------
(***************************************************************************)
(* What a request about a setlist, its collaborators or a song answers, and *)
(* to whom: owners, accepted collaborators by role, members of the band by  *)
(* permission, people invited and not yet there, and strangers.             *)
(*                                                                         *)
(* A handler asks one query who may do it and others for what it needs, each *)
(* with its own joins and its own NotFound, Forbidden or Conflict.  Who is   *)
(* not shown a row is not told that it exists.                              *)
(***************************************************************************)
EXTENDS Access

CONSTANT
    Repertoires     \* of the bands' setlists, those that hold their songs

VARIABLES
    deputy,     \* `setlist_collaborators.role`, of whom was invited
    giver,      \* ghost: who gave them that role
    holds       \* `setlist_songs`: the songs of each setlist

rightsVars == <<row, member, allowed, guests, deputy, giver, holds>>

\* CollaboratorRole; the owner stands above all of them.
None == 0
Viewer == 1
Editor == 2
Manager == 3
Owner == 4

SetlistRows == OfKind("setlist")
SongRows == OfKind("song")
Personal(i) == HomeOf[i] \in Callers

\* Answers: a handler goes on to its next query as long as it is "ok".
Answers == {"ok", "not_found", "forbidden", "unavailable", "conflict", "self"}
Then(first, next) == IF first = "ok" THEN next ELSE first
FoundIf(yes) == IF yes THEN "ok" ELSE "not_found"

\* An invitation nobody answered gives no access.
Accepted(i, u) == IF u \in guests[i] THEN deputy[i][u] ELSE None
Pending(i, u) == deputy[i][u] # None /\ u \notin guests[i]

Find(i, u) == FoundIf(FindSetlist(i, u))
Exists(i, u) == FoundIf(SetlistExists(i, u))
FindTune(s, u) == FoundIf(FindSong(s, u))

\* A band's own check: outsiders are not told that there is one.
Requires(b, u, p) ==
    IF ~Joined(b, u) THEN "not_found"
    ELSE IF RoleAllows(b, member[b][u], p) THEN "ok" ELSE "forbidden"

\* collaborator_minimum: nobody but the owner manages.
Minimum(action) ==
    CASE action = "Manage" -> Owner
      [] action = "EditItems" -> Editor
      [] action = "EditDetails" -> Manager
      [] action = "ExportPdf" -> Viewer
BandPermission(action) ==
    IF action = "ExportPdf" THEN "export_pdf" ELSE "manage_setlists"

\* Mutant of Knows: whoever was invited knows it already.
KnowsInvited(i, u) ==
    IF Personal(i) THEN deputy[i][u] # None ELSE Joined(HomeOf[i], u)

\* check_permission, in one query: `knows_it`, then who may.
Knows(i, u) == IF Personal(i) THEN Accepted(i, u) # None ELSE Joined(HomeOf[i], u)
Check(i, u, action) ==
    IF KindOf[i] # "setlist" \/ ~Live(i) THEN "not_found"
    ELSE IF IF Personal(i) THEN Mine(i, u) \/ Accepted(i, u) >= Minimum(action)
            ELSE MayDo(HomeOf[i], u, BandPermission(action)) THEN "ok"
    ELSE IF Knows(i, u) THEN "forbidden" ELSE "not_found"

CanManageSetlist(i, u) == Check(i, u, "Manage")
CanEditItems(i, u) == Check(i, u, "EditItems")
CanEditDetails(i, u) == Check(i, u, "EditDetails")
CanExportPdf(i, u) == Check(i, u, "ExportPdf")

\* SongRepository::can_manage.
CanManageSong(s, u) ==
    IF KindOf[s] # "song" \/ ~Live(s) THEN "not_found"
    ELSE IF Personal(s) THEN FoundIf(Mine(s, u))
    ELSE Requires(HomeOf[s], u, "manage_songs")

-----------------------------------------------------------------------------
(* The songs of a setlist. *)

\* scoped_songs: a personal setlist shows songs of its owner and collaborators,
\* a band's those of the band; setlist_columns and setlists_of say it again.
Scoped(i, s) ==
    /\ s \in holds[i] /\ Live(s)
    /\ \/ Personal(i) /\ Personal(s) /\ (HomeOf[s] = HomeOf[i] \/ HomeOf[s] \in guests[i])
       \/ ~Personal(i) /\ HomeOf[s] = HomeOf[i]

\* get_songs, and how many of them a setlist says it has.
SongsIn(i) == {s \in SongRows : Scoped(i, s)}
SongCount(i) ==
    Cardinality({s \in holds[i] :
        /\ Live(s)
        /\ \/ Personal(i) /\ Personal(s)
              /\ (HomeOf[s] = HomeOf[i] \/ HomeOf[s] \in guests[i])
           \/ HomeOf[s] = HomeOf[i]})
HasSong(i, s) == s \in holds[i]

\* Mutant of SetlistsOfSong: those of the song's band, the caller in it or not.
SetlistsHolding(s, u) == {i \in SetlistRows : Live(i) /\ Scoped(i, s)}

\* setlists_of: where a song is played, of what the caller sees.
SetlistsOfSong(s, u) ==
    {i \in SetlistRows :
        /\ Live(i) /\ Scoped(i, s)
        /\ \/ Mine(i, u) \/ InItsBand(i, u) \/ (Personal(i) /\ u \in guests[i])}

\* The band's repertoire, by its own query.
RepertoireSongs(b) ==
    {s \in SongRows : \E i \in Repertoires : HomeOf[i] = b /\ Scoped(i, s)}

-----------------------------------------------------------------------------
(* Requests about a setlist. *)

DuplicateAnswer(i, u) ==
    Then(Find(i, u), IF Personal(i) THEN "ok" ELSE CanExportPdf(i, u))
DeleteAnswer(i, u) ==
    Then(CanManageSetlist(i, u), IF i \in Repertoires THEN "conflict" ELSE "ok")

\* A new title is unique among those of the setlist's owner, whose it reads.
RenameAnswer(i, u) ==
    Then(CanEditDetails(i, u),
         Then(Find(i, u), IF i \in Repertoires THEN "conflict" ELSE "ok"))

\* A band's setlist takes a copy of a song that is not its own.
AddSongAnswer(i, s, u) ==
    Then(CanEditItems(i, u),
         Then(FindTune(s, u),
              Then(Find(i, u),
                   IF Personal(i) /\ ~Personal(s) THEN "not_found"
                   ELSE IF HasSong(i, s) THEN "conflict" ELSE "ok")))
TransposeAnswer(i, s, u) == Then(CanEditItems(i, u), FoundIf(HasSong(i, s)))

\* Taken out of the repertoire, a song goes to the trash.
RemoveSongAnswer(i, s, u) ==
    Then(CanEditItems(i, u),
         Then(Find(i, u),
              Then(FoundIf(HasSong(i, s)),
                   IF i \in Repertoires THEN CanManageSong(s, u) ELSE "ok")))

\* To the caller's own library, of a song in somebody else's.
CopySongAnswer(i, s, u) ==
    Then(Find(i, u),
         IF ~Personal(i) \/ s \notin SongsIn(i) \/ ~Personal(s) THEN "not_found"
         ELSE IF Mine(s, u) THEN "conflict" ELSE "ok")

SongPageAnswer(i, u) == Exists(i, u)
ItemPageAnswer(i, u) == Exists(i, u)
FavoriteAnswer(i, u) == Exists(i, u)
ReorderSongsAnswer(i, u) == CanEditItems(i, u)
ReorderItemsAnswer(i, u) == CanEditItems(i, u)
BlocksAnswer(i, u) == CanEditItems(i, u)
BreaksAnswer(i, u) == CanEditItems(i, u)
DropMarkerAnswer(i, u) == CanEditItems(i, u)

\* find_band_repertoire, and find_band_song_updates.
RepertoireAnswer(b, u) == FoundIf(Joined(b, u))
UpdatesAnswer(b, u) == FoundIf(Joined(b, u))

-----------------------------------------------------------------------------
(* Requests about its collaborators. *)

\* lock_standing: where the caller stands in a setlist people share; of a band's
\* setlist, members are told that there is nothing to share.
Standing(i, u) ==
    IF KindOf[i] # "setlist" \/ ~Live(i) THEN "not_found"
    ELSE IF ~Personal(i)
         THEN IF Joined(HomeOf[i], u) THEN "unavailable" ELSE "not_found"
    ELSE FoundIf(Mine(i, u) \/ Accepted(i, u) # None)

\* can_manage of a standing.
GivesRole(i, u, role) == Mine(i, u) \/ (Accepted(i, u) = Manager /\ role < Manager)
MayGive(i, u, role) == IF GivesRole(i, u, role) THEN "ok" ELSE "forbidden"
Shareable(i) == IF Personal(i) THEN "ok" ELSE "unavailable"

CollaboratorsAnswer(i, u) == Then(Find(i, u), Shareable(i))
LookupAnswer(i, u) ==
    Then(Find(i, u),
         Then(Shareable(i), Then(Standing(i, u), MayGive(i, u, Viewer))))

\* candidate_status, which a lookup shows of somebody else.
Status(i, v) ==
    IF Mine(i, v) THEN "owner"
    ELSE IF v \in guests[i] THEN "collaborator"
    ELSE IF deputy[i][v] # None THEN "invited" ELSE "available"

InviteAnswer(i, u, v, role) ==
    Then(Find(i, u),
         Then(Standing(i, u),
              Then(MayGive(i, u, role),
                   IF Mine(i, v) \/ v = u \/ deputy[i][v] # None
                   THEN "conflict" ELSE "ok")))

\* Mutant of ChangeRoleAnswer: only the role they have is looked at.
ChangeRoleAnswerFrom(i, u, v, role) ==
    IF v = u THEN "self"
    ELSE Then(Standing(i, u),
              Then(FoundIf(deputy[i][v] # None), MayGive(i, u, deputy[i][v])))

ChangeRoleAnswer(i, u, v, role) ==
    IF v = u THEN "self"
    ELSE Then(Standing(i, u),
              Then(FoundIf(deputy[i][v] # None),
                   Then(MayGive(i, u, deputy[i][v]), MayGive(i, u, role))))

\* remove: another one; and leaving, which a setlist in the trash allows too.
RemoveAnswer(i, u, v) ==
    Then(Standing(i, u),
         Then(FoundIf(deputy[i][v] # None), MayGive(i, u, deputy[i][v])))
LeaveAnswer(i, u) == FoundIf(u \in guests[i])

AcceptAnswer(i, u) == FoundIf(Live(i) /\ Pending(i, u))
DeclineAnswer(i, u) == FoundIf(Pending(i, u))
Invitations(u) == {i \in SetlistRows : Live(i) /\ Pending(i, u)}

-----------------------------------------------------------------------------
(* Requests about a song. *)

SongAnswer(s, u) == FindTune(s, u)
SongSetlistsAnswer(s, u) == FindTune(s, u)
VersionsAnswer(s, u) == FindTune(s, u)
BandCopiesAnswer(s, u) == FindTune(s, u)
AnalysisAnswer(s, u) == FindTune(s, u)
SaveAnalysisAnswer(s, u) == CanManageSong(s, u)
DeleteAnalysisAnswer(s, u) == CanManageSong(s, u)

\* exportable_song: of a band's song, its permission.
ExportableSong(s, u) ==
    Then(FindTune(s, u),
         IF Personal(s) THEN "ok" ELSE Requires(HomeOf[s], u, "export_pdf"))
SongFileAnswer(s, u) == ExportableSong(s, u)
SongPdfAnswer(s, u) == ExportableSong(s, u)

-----------------------------------------------------------------------------
(* Steps. *)

SetDeputy(i, v, role, u) ==
    /\ deputy' = [deputy EXCEPT ![i][v] = role]
    /\ giver' = [giver EXCEPT ![i][v] = u]

InviteDeputy(i, u, v, role) ==
    /\ InviteAnswer(i, u, v, role) = "ok" /\ SetDeputy(i, v, role, u)
    /\ UNCHANGED <<accessVars, holds>>
ChangeDeputy(i, u, v, role) ==
    /\ ChangeRoleAnswer(i, u, v, role) = "ok" /\ deputy[i][v] # role
    /\ SetDeputy(i, v, role, u) /\ UNCHANGED <<accessVars, holds>>
Accept(i, u) ==
    /\ AcceptAnswer(i, u) = "ok" /\ guests' = [guests EXCEPT ![i] = @ \cup {u}]
    /\ UNCHANGED <<row, member, allowed, deputy, giver, holds>>
Decline(i, u) ==
    /\ DeclineAnswer(i, u) = "ok" /\ SetDeputy(i, u, None, HomeOf[i])
    /\ UNCHANGED <<accessVars, holds>>

\* Whoever leaves takes no song along: the setlist holds copies, in nobody's
\* library, of what it linked of theirs.
RemoveDeputy(i, u, v) ==
    /\ IF v = u THEN LeaveAnswer(i, u) = "ok" ELSE RemoveAnswer(i, u, v) = "ok"
    /\ SetDeputy(i, v, None, HomeOf[i])
    /\ guests' = [guests EXCEPT ![i] = @ \ {v}]
    /\ holds' = [holds EXCEPT ![i] = {s \in @ : ~(Live(s) /\ Mine(s, v))}]
    /\ UNCHANGED <<row, member, allowed>>

\* SongRepository::trash: others' setlists keep a copy of it too.
TrashTune(s, u) ==
    /\ MoveToTrash(s, u)
    /\ holds' = [i \in SetlistRows |->
                   IF Personal(i) /\ ~Mine(i, HomeOf[s]) THEN holds[i] \ {s} ELSE holds[i]]
    /\ UNCHANGED <<deputy, giver>>

\* add_song: what a band plays is in its repertoire too.
AddTune(i, s, u) ==
    /\ AddSongAnswer(i, s, u) = "ok" /\ (Personal(i) \/ HomeOf[s] = HomeOf[i])
    /\ holds' = [j \in SetlistRows |->
                   IF j = i \/ (j \in Repertoires /\ HomeOf[j] = HomeOf[i])
                   THEN holds[j] \cup {s} ELSE holds[j]]
    /\ UNCHANGED <<accessVars, deputy, giver>>
RemoveTune(i, s, u) ==
    /\ RemoveSongAnswer(i, s, u) = "ok"
    /\ IF i \in Repertoires
       THEN row' = [row EXCEPT ![s] = "trash"] /\ UNCHANGED holds
       ELSE holds' = [holds EXCEPT ![i] = @ \ {s}] /\ UNCHANGED row
    /\ UNCHANGED <<member, allowed, guests, deputy, giver>>
DeleteList(i, u) ==
    /\ DeleteAnswer(i, u) = "ok" /\ row' = [row EXCEPT ![i] = "trash"]
    /\ UNCHANGED <<member, allowed, guests, deputy, giver, holds>>

RightsInit ==
    /\ row = [i \in Things |-> "live"]
    /\ member = [b \in Bands |-> [u \in Callers |-> Plain]]
    /\ allowed = [b \in Bands |-> {}]
    /\ guests = [i \in Things |-> {}]
    /\ deputy = [i \in SetlistRows |-> [u \in Callers |-> None]]
    /\ giver = [i \in SetlistRows |-> [u \in Callers |-> HomeOf[i]]]
    /\ holds = [i \in SetlistRows |-> {}]

RightsNext ==
    \/ \E i \in SetlistRows, u \in Callers :
          \/ Accept(i, u) \/ Decline(i, u) \/ DeleteList(i, u)
          \/ \E v \in Callers :
                \/ RemoveDeputy(i, u, v)
                \/ \E role \in Viewer..Manager :
                      InviteDeputy(i, u, v, role) \/ ChangeDeputy(i, u, v, role)
          \/ \E s \in SongRows : AddTune(i, s, u) \/ RemoveTune(i, s, u)
    \/ \E s \in SongRows, u \in Callers : TrashTune(s, u)
    \/ /\ \/ \E i \in Things, u \in Callers : RestoreThing(i, u)
          \/ \E b \in Bands :
                \/ \E u \in Joining, role \in Outside..Leading : SetRole(b, u, role)
                \/ \E p \in Permissions \cap Granting, may \in BOOLEAN :
                      SetPermission(b, p, may)
       /\ UNCHANGED <<deputy, giver, holds>>

-----------------------------------------------------------------------------
\* Every variable keeps its type.
RightsTypeOK ==
    /\ AccessTypeOK
    /\ deputy \in [SetlistRows -> [Callers -> None..Manager]]
    /\ giver \in [SetlistRows -> [Callers -> Callers \cup Bands]]
    /\ holds \in [SetlistRows -> SUBSET SongRows]

\* What anybody may be answered about a setlist, and about a song.
SetlistAnswers(i, u) ==
    {Check(i, u, a) : a \in {"Manage", "EditItems", "EditDetails", "ExportPdf"}}
    \cup {DuplicateAnswer(i, u), DeleteAnswer(i, u), RenameAnswer(i, u),
          SongPageAnswer(i, u), ItemPageAnswer(i, u), FavoriteAnswer(i, u),
          ReorderSongsAnswer(i, u), ReorderItemsAnswer(i, u), BlocksAnswer(i, u),
          BreaksAnswer(i, u), DropMarkerAnswer(i, u),
          CollaboratorsAnswer(i, u), LookupAnswer(i, u)}
    \cup (UNION {{AddSongAnswer(i, s, u), TransposeAnswer(i, s, u),
                  RemoveSongAnswer(i, s, u), CopySongAnswer(i, s, u)} : s \in SongRows})
    \cup (UNION {{InviteAnswer(i, u, v, r), ChangeRoleAnswer(i, u, v, r),
                  RemoveAnswer(i, u, v)} : v \in Callers \ {u}, r \in Viewer..Manager})
SongAnswers(s, u) ==
    {SongAnswer(s, u), SongSetlistsAnswer(s, u), VersionsAnswer(s, u),
     BandCopiesAnswer(s, u), AnalysisAnswer(s, u), SaveAnalysisAnswer(s, u),
     DeleteAnalysisAnswer(s, u), SongFileAnswer(s, u), SongPdfAnswer(s, u)}

\* Whatever is asked about a setlist or song, who could not open it is told that
\* there is none, as of one that never was; and who could is told whether they
\* may: check_permission and visible_to_caller are two queries with joins of
\* their own ("don't reveal that it exists").
NothingRevealed ==
    \A u \in Callers :
       /\ \A i \in SetlistRows :
             /\ ~FindSetlist(i, u) => \A a \in SetlistAnswers(i, u) : a = "not_found"
             /\ FindSetlist(i, u) =>
                   \A a \in {"Manage", "EditItems", "EditDetails", "ExportPdf"} :
                      Check(i, u, a) # "not_found"
       /\ \A s \in SongRows :
             ~FindSong(s, u) => \A a \in SongAnswers(s, u) : a = "not_found"

\* A request passes its later queries once the first let it: who edits finds the
\* setlist and stands in it; more rights include fewer.
ChecksAgree ==
    \A u \in Callers, i \in SetlistRows :
       /\ CanManageSetlist(i, u) = "ok" <=> ManagesSetlist(i, u)
       /\ CanManageSetlist(i, u) = "ok" => CanEditDetails(i, u) = "ok"
       /\ CanEditDetails(i, u) = "ok" => CanEditItems(i, u) = "ok"
       /\ CanExportPdf(i, u) = "ok" <=> ExportsSetlist(i, u)
       /\ Personal(i) => (Standing(i, u) = "ok" <=> CanExportPdf(i, u) = "ok")
       /\ FindSetlist(i, u) <=> Standing(i, u) # "not_found"

\* Invitations: only people's setlists have any, and give nothing until they are
\* accepted; who lists one may accept or decline it; a lookup calls available
\* exactly whom its caller may invite; and only the owner makes managers.
InvitationsAgree ==
    /\ \A i \in SetlistRows, u \in Callers :
          /\ deputy[i][u] # None => Personal(i) /\ ~Mine(i, u)
          /\ u \in guests[i] => deputy[i][u] # None
          /\ Pending(i, u) => ~FindSetlist(i, u)
          /\ deputy[i][u] = Manager => giver[i][u] = HomeOf[i]
          /\ AcceptAnswer(i, u) = "ok" <=> i \in Invitations(u)
          /\ AcceptAnswer(i, u) = "ok" => DeclineAnswer(i, u) = "ok"
          /\ LookupAnswer(i, u) = "ok" =>
                \A v \in Callers \ {u} :
                   Status(i, v) = "available" <=> InviteAnswer(i, u, v, Viewer) = "ok"

\* What a setlist links is of its scope, its songs are as many as it says, and a
\* song lists the setlists in which its reader sees it; the repertoire of a band
\* is never deleted and has all it plays ("Every song a band plays belongs to its
\* repertoire"; scoped_songs, setlist_columns, setlists_of, add_song).
SongsAgree ==
    /\ \A i \in SetlistRows :
          /\ \A s \in holds[i] :
                HomeOf[s] = HomeOf[i] \/ (HomeOf[s] \in guests[i] /\ Live(s))
          /\ SongCount(i) = Cardinality(SongsIn(i))
    /\ \A s \in SongRows, u \in Callers :
          SetlistsOfSong(s, u) = {i \in SetlistRows : FindSetlist(i, u) /\ s \in SongsIn(i)}
    /\ \A r \in Repertoires :
          /\ Live(r)
          /\ \A i \in SetlistRows : HomeOf[i] = HomeOf[r] =>
                holds[i] \subseteq holds[r] /\ SongsIn(i) \subseteq RepertoireSongs(HomeOf[r])

RightsSafety ==
    /\ NothingRevealed
    /\ ChecksAgree
    /\ InvitationsAgree
    /\ SongsAgree
=============================================================================
