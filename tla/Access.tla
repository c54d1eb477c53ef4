-------------------------------- MODULE Access --------------------------------
(***************************************************************************)
(* Who sees and who manages what: songs, artists, setlists, gigs and tours *)
(* belong to a person or to a band.                                        *)
(*                                                                         *)
(* Every repository answers for its own table, in its own SQL: one query   *)
(* opens a row, others list the person's, the band's and, of setlists, the *)
(* shared ones; another decides who may change it; the trash and the pins  *)
(* have theirs.                                                            *)
(***************************************************************************)
EXTENDS Integers, FiniteSets

CONSTANTS
    Callers, Bands,     \* people and bands
    Things,             \* rows of any table, each created once
    KindOf, HomeOf,     \* the table of each; the person or band it belongs to
    Joining,            \* bound: whose role in a band changes
    Granting            \* bound: which permissions of plain members change

VARIABLES
    row,        \* of each thing: "none" yet, "live", in the "trash", "gone"
    member,     \* `band_members`: Outside, Plain or Leading
    allowed,    \* `band_role_permissions`: what plain members may do
    guests      \* `setlist_collaborators` who accepted, of each thing

accessVars == <<row, member, allowed, guests>>

Kinds == {"song", "artist", "setlist", "gig", "tour"}

\* BandRole; an admin and the owner may do the same here.
Outside == 0
Plain == 1
Leading == 2

\* TrashType::band_permission, and what the repositories ask for.
PermissionOf(kind) ==
    IF kind \in {"song", "artist"} THEN "manage_songs" ELSE "manage_setlists"
Permissions == {"export_pdf"} \cup {PermissionOf(KindOf[i]) : i \in Things}

OfKind(kind) == {i \in Things : KindOf[i] = kind}
Live(i) == row[i] = "live"
Mine(i, u) == HomeOf[i] = u

\* role_of: the caller's row in the band.
Joined(b, u) == member[b][u] # Outside
InItsBand(i, u) == HomeOf[i] \in Bands /\ Joined(HomeOf[i], u)

\* role_has_permission.
RoleAllows(b, role, p) == role = Leading \/ (role = Plain /\ p \in allowed[b])

\* require_permission.
MayDo(b, u, p) == Joined(b, u) /\ RoleAllows(b, member[b][u], p)

-----------------------------------------------------------------------------
(* Opening one. *)

FindSong(i, u) == KindOf[i] = "song" /\ Live(i) /\ (Mine(i, u) \/ InItsBand(i, u))
FindArtist(i, u) == KindOf[i] = "artist" /\ Live(i) /\ (Mine(i, u) \/ InItsBand(i, u))
FindGig(i, u) == KindOf[i] = "gig" /\ Live(i) /\ (Mine(i, u) \/ InItsBand(i, u))
FindTour(i, u) == KindOf[i] = "tour" /\ Live(i) /\ (Mine(i, u) \/ InItsBand(i, u))

\* visible_to_caller: an accepted collaborator opens a person's setlist too.
FindSetlist(i, u) ==
    /\ KindOf[i] = "setlist" /\ Live(i)
    /\ \/ Mine(i, u) \/ InItsBand(i, u)
       \/ HomeOf[i] \in Callers /\ u \in guests[i]

\* exists, which other requests ask first; of songs, only for a person's own.
SongExists(i, u) == KindOf[i] = "song" /\ Live(i) /\ Mine(i, u)
ArtistExists(i, u) == KindOf[i] = "artist" /\ Live(i) /\ Mine(i, u)
GigExists(i, u) == KindOf[i] = "gig" /\ Live(i) /\ (Mine(i, u) \/ InItsBand(i, u))
SetlistExists(i, u) ==
    /\ KindOf[i] = "setlist" /\ Live(i)
    /\ \/ Mine(i, u) \/ InItsBand(i, u)
       \/ HomeOf[i] \in Callers /\ u \in guests[i]

\* resolved_pins: what somebody's pins show; and is_accessible, what may be pinned.
PinShows(i, u) ==
    /\ KindOf[i] # "artist" /\ Live(i)
    /\ \/ Mine(i, u) \/ InItsBand(i, u)
       \/ KindOf[i] = "setlist" /\ HomeOf[i] \in Callers /\ u \in guests[i]
IsAccessible(i, u) ==
    /\ KindOf[i] \in {"song", "setlist", "tour", "gig"} /\ Live(i)
    /\ \/ Mine(i, u) \/ InItsBand(i, u)
       \/ KindOf[i] = "setlist" /\ HomeOf[i] \in Callers /\ u \in guests[i]

Opens(i, u) ==
    \/ FindSong(i, u) \/ FindArtist(i, u) \/ FindSetlist(i, u)
    \/ FindGig(i, u) \/ FindTour(i, u)

-----------------------------------------------------------------------------
(* Listing them. *)

SongsOf(u) == {i \in OfKind("song") : Live(i) /\ Mine(i, u)}
ArtistsOf(u) == {i \in OfKind("artist") : Live(i) /\ Mine(i, u)}
SetlistsOf(u) == {i \in OfKind("setlist") : Live(i) /\ Mine(i, u)}
GigsOf(u) == {i \in OfKind("gig") : Live(i) /\ Mine(i, u)}
ToursOf(u) == {i \in OfKind("tour") : Live(i) /\ Mine(i, u)}

\* find_shared: of people's setlists, not of a band's.
SharedWith(u) ==
    {i \in OfKind("setlist") : Live(i) /\ HomeOf[i] \in Callers /\ u \in guests[i]}

\* find_all_for_user: the bands a caller is in.
BandsOf(u) == {b \in Bands : Joined(b, u)}

\* What a band has.
BandSetlists(b) == {i \in OfKind("setlist") : Live(i) /\ HomeOf[i] = b}
BandGigs(b) == {i \in OfKind("gig") : Live(i) /\ HomeOf[i] = b}
BandTours(b) == {i \in OfKind("tour") : Live(i) /\ HomeOf[i] = b}

\* The pages of it, which only ask whether the caller is in the band.
BandSetlistPage(b, u) == {i \in BandSetlists(b) : Joined(b, u)}
BandGigPage(b, u) == {i \in BandGigs(b) : Joined(b, u)}
BandTourPage(b, u) == {i \in BandTours(b) : Joined(b, u)}

Listed(u) ==
    SongsOf(u) \cup ArtistsOf(u) \cup SetlistsOf(u) \cup GigsOf(u) \cup ToursOf(u)
    \cup SharedWith(u)
    \cup UNION {BandSetlistPage(b, u) \cup BandGigPage(b, u) \cup BandTourPage(b, u) :
                  b \in BandsOf(u)}

\* A band's songs and artists have no list of their own: its repertoire is one.
HasList(i) == HomeOf[i] \in Callers \/ KindOf[i] \in {"setlist", "gig", "tour"}

-----------------------------------------------------------------------------
(* Changing them. *)

ManagesSong(i, u) ==
    /\ KindOf[i] = "song" /\ Live(i)
    /\ IF HomeOf[i] \in Callers THEN Mine(i, u) ELSE MayDo(HomeOf[i], u, "manage_songs")
ManagesGig(i, u) ==
    /\ KindOf[i] = "gig" /\ Live(i)
    /\ IF HomeOf[i] \in Callers THEN Mine(i, u) ELSE MayDo(HomeOf[i], u, "manage_setlists")
ManagesTour(i, u) ==
    /\ KindOf[i] = "tour" /\ Live(i)
    /\ IF HomeOf[i] \in Callers THEN Mine(i, u) ELSE MayDo(HomeOf[i], u, "manage_setlists")
ManagesSetlist(i, u) ==
    /\ KindOf[i] = "setlist" /\ Live(i)
    /\ IF HomeOf[i] \in Callers THEN Mine(i, u) ELSE MayDo(HomeOf[i], u, "manage_setlists")

\* Only the person's own artists are changed.
ManagesArtist(i, u) == KindOf[i] = "artist" /\ Live(i) /\ Mine(i, u)

Manages(i, u) ==
    \/ ManagesSong(i, u) \/ ManagesArtist(i, u) \/ ManagesSetlist(i, u)
    \/ ManagesGig(i, u) \/ ManagesTour(i, u)

-----------------------------------------------------------------------------
(* Public links: whose is shown to whom. *)

\* Mutant of ShowsToken: a collaborator is shown it.
ShowsTokenToAll(i, u) == HomeOf[i] \in Callers \/ ManagesSetlist(i, u)

\* withhold_share_token_from_non_managers.
ShowsToken(i, u) ==
    IF HomeOf[i] \in Callers THEN Mine(i, u) ELSE ManagesSetlist(i, u)

\* find_setlist_by_id and the lists; the shared one withholds them all.
SetlistTokens(u) == {i \in Things : FindSetlist(i, u) /\ ShowsToken(i, u)}
OwnSetlistTokens(u) == SetlistsOf(u)
SharedTokens(u) == {i \in SharedWith(u) : FALSE}
BandSetlistTokens(b, u) == {i \in BandSetlistPage(b, u) : ShowsToken(i, u)}

\* find_gig_by_id and the lists of gigs.
GigTokens(u) ==
    {i \in Things : FindGig(i, u) /\ (HomeOf[i] \in Bands => ManagesGig(i, u))}
OwnGigTokens(u) == GigsOf(u)
BandGigTokens(b, u) == {i \in BandGigPage(b, u) : ManagesGig(i, u)}

Tokens(u) ==
    SetlistTokens(u) \cup OwnSetlistTokens(u) \cup SharedTokens(u)
    \cup GigTokens(u) \cup OwnGigTokens(u)
    \cup UNION {BandSetlistTokens(b, u) \cup BandGigTokens(b, u) : b \in Bands}

-----------------------------------------------------------------------------
(* Taking a copy out: files and PDFs. *)

\* can_export_pdf: its owner, any collaborator, who may in its band.
ExportsSetlist(i, u) ==
    /\ KindOf[i] = "setlist" /\ Live(i)
    /\ IF HomeOf[i] \in Callers THEN Mine(i, u) \/ u \in guests[i]
       ELSE MayDo(HomeOf[i], u, "export_pdf")

\* Mutant of SetlistFile: the permission is not asked for.
SetlistFileOfReader(i, u) == FindSetlist(i, u)

\* exportable_setlist; and export_setlist_pdf, which asks for the setlist first.
SetlistFile(i, u) == ExportsSetlist(i, u) /\ FindSetlist(i, u)
SetlistPdf(i, u) == FindSetlist(i, u) /\ ExportsSetlist(i, u)

\* exportable_song, and export_songs_chordpro: the whole library of a person.
SongFile(i, u) ==
    FindSong(i, u) /\ (HomeOf[i] \in Bands => MayDo(HomeOf[i], u, "export_pdf"))
LibraryFile(u) == {i \in OfKind("song") : Live(i) /\ Mine(i, u)}

-----------------------------------------------------------------------------
(* The trash. *)

\* band_types: NotFound for outsiders, Forbidden without a permission.
TrashKinds(b, u) == {k \in Kinds : MayDo(b, u, PermissionOf(k))}

\* scope_filter and list.
TrashOf(u) == {i \in Things : row[i] = "trash" /\ Mine(i, u)}
BandTrash(b, u) ==
    {i \in Things : row[i] = "trash" /\ HomeOf[i] = b /\ KindOf[i] \in TrashKinds(b, u)}

\* authorize_row, of a row that `find` finds in the trash.
MayRestore(i, u) ==
    /\ row[i] = "trash"
    /\ IF HomeOf[i] \in Bands THEN KindOf[i] \in TrashKinds(HomeOf[i], u) ELSE Mine(i, u)

-----------------------------------------------------------------------------
(* Steps. *)

\* A row is made by its person, or by who may manage the band's setlists, which
\* its songs come in by.
MayCreate(i, u) ==
    /\ row[i] = "none"
    /\ IF HomeOf[i] \in Callers THEN Mine(i, u)
       ELSE MayDo(HomeOf[i], u, "manage_setlists")

Create(i, u) ==
    /\ MayCreate(i, u) /\ row' = [row EXCEPT ![i] = "live"]
    /\ UNCHANGED <<member, allowed, guests>>

MoveToTrash(i, u) ==
    /\ Manages(i, u) /\ row' = [row EXCEPT ![i] = "trash"]
    /\ UNCHANGED <<member, allowed, guests>>

RestoreThing(i, u) ==
    /\ MayRestore(i, u) /\ row' = [row EXCEPT ![i] = "live"]
    /\ UNCHANGED <<member, allowed, guests>>

\* delete_permanently by who may restore it, or purge_before.
PurgeThing(i) ==
    /\ row[i] = "trash" /\ row' = [row EXCEPT ![i] = "gone"]
    /\ guests' = [guests EXCEPT ![i] = {}]
    /\ UNCHANGED <<member, allowed>>

\* Invites, roles and leaving, as Bands has them.
SetRole(b, u, role) ==
    /\ member[b][u] # role /\ member' = [member EXCEPT ![b][u] = role]
    /\ UNCHANGED <<row, allowed, guests>>

\* update_role_permissions, by the band's owner.
SetPermission(b, p, may) ==
    /\ may # (p \in allowed[b])
    /\ allowed' = [allowed EXCEPT ![b] = IF may THEN @ \cup {p} ELSE @ \ {p}]
    /\ UNCHANGED <<row, member, guests>>

\* An invitation accepted, and a collaborator who leaves or is removed.
Collaborate(i, u) ==
    /\ KindOf[i] = "setlist" /\ Live(i) /\ HomeOf[i] \in Callers /\ ~Mine(i, u)
    /\ u \notin guests[i] /\ guests' = [guests EXCEPT ![i] = @ \cup {u}]
    /\ UNCHANGED <<row, member, allowed>>
StopCollaborating(i, u) ==
    /\ u \in guests[i] /\ guests' = [guests EXCEPT ![i] = @ \ {u}]
    /\ UNCHANGED <<row, member, allowed>>

AccessInit ==
    /\ row = [i \in Things |-> "none"]
    /\ member = [b \in Bands |-> [u \in Callers |-> Plain]]
    /\ allowed = [b \in Bands |-> {}]
    /\ guests = [i \in Things |-> {}]

\* What happens around a request, but for rows that are purged.
AccessMoves ==
    \/ \E i \in Things, u \in Callers :
          \/ Create(i, u) /\ KindOf[i] # "gig"
          \/ MoveToTrash(i, u) \/ RestoreThing(i, u)
          \/ Collaborate(i, u) \/ StopCollaborating(i, u)
    \/ \E b \in Bands :
          \/ \E u \in Joining, role \in Outside..Leading : SetRole(b, u, role)
          \/ \E p \in Permissions \cap Granting, may \in BOOLEAN :
                SetPermission(b, p, may)

-----------------------------------------------------------------------------
\* Every variable keeps its type.
AccessTypeOK ==
    /\ row \in [Things -> {"none", "live", "trash", "gone"}]
    /\ member \in [Bands -> [Callers -> Outside..Leading]]
    /\ allowed \in [Bands -> SUBSET Permissions]
    /\ guests \in [Things -> SUBSET Callers]

\* The queries agree, whoever came and went: what somebody opens is what their
\* lists show, what other requests find there, and what their pins resolve to;
\* and the trash lists what its reader may restore (find_all, find_by_id,
\* exists, resolved_pins, is_accessible, and trash.rs).
QueriesAgree ==
    \A u \in Callers :
       /\ {i \in Things : HasList(i) /\ Opens(i, u)} = Listed(u)
       /\ \A i \in Things :
             /\ KindOf[i] \in {"gig", "setlist"} =>
                   (Opens(i, u) <=> GigExists(i, u) \/ SetlistExists(i, u))
             /\ SongExists(i, u) \/ ArtistExists(i, u) => Opens(i, u)
             /\ KindOf[i] # "artist" => (Opens(i, u) <=> PinShows(i, u))
             /\ IsAccessible(i, u) <=> PinShows(i, u)
       /\ {i \in Things : MayRestore(i, u)} =
             TrashOf(u) \cup UNION {BandTrash(b, u) : b \in BandsOf(u)}

\* Who may change something, or take it out, opens it; and a public link is
\* only shown to who may change what it is of ("anyone else could hand it out,
\* and keep using it after leaving"), in every list and alone.
LinksForManagers ==
    \A u \in Callers :
       /\ \A i \in Things : Manages(i, u) \/ ExportsSetlist(i, u) => Opens(i, u)
       /\ \A i \in LibraryFile(u) : SongFile(i, u)
       /\ \A i \in Tokens(u) : Manages(i, u)
=============================================================================
