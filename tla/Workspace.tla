------------------------------ MODULE Workspace ------------------------------
(***************************************************************************)
(* What people keep and share.  The parts have nothing in common but the   *)
(* kinds of their actors, so they stand side by side: a behaviour is of    *)
(* one part, which `part` names.  The variables p1 to p11 are that part's, *)
(* whichever it is; those it does not need stay 0.                         *)
(***************************************************************************)
EXTENDS Integers, FiniteSets

CONSTANTS
    Requests,       \* requests, jobs and transactions under way, in any part
    \* Bands and their members; suggestions of songs; the band's copies.
    Members, Bands, Invites, MemberLimit, MembershipLimit, InviteUses, MaxStaffActs,
    Fans, Offers, Tunes, BandOwned, TuneOwner, Threshold, MaxMishaps,
    Originals, OriginalOf, NoOriginal, CopyRows, BandSongLimits, Changing, MaxCopyEdits,
    \* Shared setlists, their running order, and public links.
    Players, Lists, Pieces, ListOwner, PieceOwner, MaxInvitations, MaxContributions,
    Numbers, Marks, ItemLimit, MarkLimit, MaxPlace,
    Setlists, Gigs, Sharers, Visits, NoSetlist, MaxLinks, MaxTakedowns,
    \* The library: its trash, its backup, its limits.
    Artists, Songs, ArtistOf, TitleOf, SongLimit,
    Tracks, Keys, KeyOf(_), Names, NameOf(_), Shows, NoShow, Wanted, KeyLimit, MaxTouches,
    Titles, PlayedBy(_), NoJob, SongRoom, ArtistRoom, ListRoom,
    \* Who sees what, gigs with their setlist and tour, and pins.
    Callers, Things, KindOf, HomeOf, Planners, Keep, Targets, PinLimit, MaxSpot,
    \* What requests about setlists and songs answer; a band from within.
    Goods, KindOfGood, HomeOfGood, Repertoires, Joining, Granting,
    Founder, Powers, NoteRows, MaxNotes,
    \* Announcements and support requests.
    Readers, MaxNewsTime, MaxNewsEdits,
    Tickets, Staff, Nobody, MaxActive, CloseAfter, MaxSupportTime, MaxMessages

\* Finitely many requests at once, and bounds that leave something to do.
ASSUME WorkspaceBounds ==
    /\ IsFiniteSet(Requests)
    /\ IsFiniteSet(Members) /\ MemberLimit \in Nat /\ InviteUses \in Nat
    /\ MaxNewsTime \in Nat /\ MaxNewsEdits \in Nat
    /\ IsFiniteSet(Artists) /\ IsFiniteSet(Songs) /\ Artists \cap Songs = {}
    /\ ArtistOf \in [Songs -> Artists] /\ SongLimit \in Nat
    /\ IsFiniteSet(Titles) /\ NoJob \notin Requests
    /\ \A t \in Tracks : KeyOf(t) \in Keys
    /\ Wanted \subseteq Keys /\ MaxTouches \in Nat
    /\ SongRoom \in Nat /\ ArtistRoom \in Nat /\ ListRoom \in Nat
    /\ IsFiniteSet(Numbers) /\ IsFiniteSet(Marks) /\ Numbers \cap Marks = {}
    /\ ItemLimit \in Nat /\ MaxPlace \in Nat \ {0, 1}
    /\ MaxLinks \in Nat /\ MaxTakedowns \in Nat
    /\ ListOwner \in [Lists -> Players] /\ PieceOwner \in [Pieces -> Players]
    /\ IsFiniteSet(CopyRows) /\ "none" \notin CopyRows /\ BandSongLimits \subseteq Nat
    /\ MaxCopyEdits \in Nat
    /\ \A s \in Originals : OriginalOf[s] \in Originals \cup {NoOriginal} /\ OriginalOf[s] # s
    /\ Callers \cap Bands = {} /\ {NoShow, Keep} \cap Things = {} /\ Keep # NoShow
    /\ KindOf \in [Things -> {"song", "artist", "setlist", "gig", "tour"}]
    /\ HomeOf \in [Things -> Callers \cup Bands]
    /\ Players \cap Bands = {}
    /\ KindOfGood \in [Goods -> {"song", "setlist"}]
    /\ HomeOfGood \in [Goods -> Players \cup Bands]
    /\ \A i \in Repertoires :
          i \in Goods /\ KindOfGood[i] = "setlist" /\ HomeOfGood[i] \in Bands
    /\ Joining \subseteq Players \cap Callers /\ Founder \in Players
    /\ IsFiniteSet(NoteRows) /\ MaxNotes \in Nat /\ NoShow \notin Players \cup NoteRows
    /\ IsFiniteSet(Targets) /\ PinLimit \in Nat /\ MaxSpot \in Nat /\ PinLimit <= MaxSpot
    /\ MaxSupportTime \in Nat /\ MaxMessages \in Nat \ {0} /\ CloseAfter \in Nat

VARIABLES part, p1, p2, p3, p4, p5, p6, p7, p8, p9, p10, p11

\* People, bands and invites.
B == INSTANCE Bands WITH
        People <- Members, BandTxs <- Requests,
        accounts <- p1, bands <- p2, role <- p3, invite <- p4, bandTx <- p5,
        staffAdded <- p6, staffActs <- p7

\* The songs a band's members suggest.
G == INSTANCE Suggestions WITH
        SugRequests <- Requests,
        inBand <- p1, offer <- p2, vote <- p3, playing <- p4, sugJob <- p5,
        added <- p6, stranded <- p7, addErrors <- p8, sugCrashes <- p9

\* Setlists with collaborators, who contribute songs.
L == INSTANCE SharedSetlists WITH
        Tasks <- Requests,
        people <- p1, collab <- p2, piece <- p3, linked <- p4, held <- p5,
        task <- p6, given <- p7, due <- p8, hurried <- p9, invitations <- p10,
        contributions <- p11

\* Songs, artists and the trash.
T == INSTANCE Trash WITH
        Ops <- Requests,
        artist <- p1, song <- p2, op <- p3, alone <- p4

\* The order of songs and markers.
R == INSTANCE RunningOrder WITH
        Hands <- Requests,
        place <- p1, away <- p2, hand <- p3, ordered <- p4, returned <- p5

\* Public links of setlists and gigs.
S == INSTANCE Sharing WITH
        link <- p1, down <- p2, binned <- p3, plays <- p4, ofBand <- p5, pays <- p6,
        sharer <- p7, visit <- p8, clearing <- p9, links <- p10, takedowns <- p11

\* A band's own copies of songs.
C == INSTANCE BandCopies WITH
        Adders <- Requests, MaxEdits <- MaxCopyEdits,
        bandLimit <- p1, edits <- p2, copy <- p3, adder <- p4, binnedOnce <- p5,
        hasty <- p6

\* An announcement, its readers and staff.
N == INSTANCE Announcements WITH
        Clerks <- Requests, MaxEdits <- MaxNewsEdits,
        news <- p1, clerk <- p2, told <- p3, receipt <- p4, newsTime <- p5,
        edits <- p6

\* Support requests and the staff who answer them.
H == INSTANCE SupportTickets WITH
        Helpers <- Requests,
        ticket <- p1, helper <- p2, unseen <- p3, excused <- p4, turned <- p5,
        supportTime <- p6

\* A backup made while its owner goes on editing, and its import.
K == INSTANCE Backups WITH
        lib <- p1, export <- p2, touched <- p3, touches <- p4, mine <- p5,
        import <- p6

\* The limits of a library.
Y == INSTANCE Library WITH
        Jobs <- Requests, Pieces <- Titles,
        songs <- p1, artists <- p2, lists <- p3, lock <- p4, work <- p5

\* Gigs, setlists and tours: who sees and changes them, and what names what.
D == INSTANCE Agenda WITH
        NoThing <- NoShow,
        row <- p1, member <- p2, allowed <- p3, guests <- p4, plays <- p5,
        partOf <- p6, plan <- p7

\* What an account pins.
P == INSTANCE Pins WITH
        Taps <- Requests, NoTarget <- NoShow,
        seen <- p1, pin <- p2, tap <- p3

\* What requests about setlists, collaborators and songs answer, and to whom.
Q == INSTANCE Rights WITH
        Callers <- Players, Things <- Goods, KindOf <- KindOfGood, HomeOf <- HomeOfGood,
        Granting <- Powers,
        row <- p1, member <- p2, allowed <- p3, guests <- p4, deputy <- p5, giver <- p6,
        holds <- p7

\* A band from within: ranks, permissions and reminders.
M == INSTANCE BandDesk WITH
        Crew <- Players, Desks <- Requests, NoNote <- NoShow, NoOne <- NoShow,
        rank <- p1, matrix <- p2, note <- p3, desk <- p4

-----------------------------------------------------------------------------
Last2 == p10 = 0 /\ p11 = 0
Last4 == p8 = 0 /\ p9 = 0 /\ Last2
Last5 == p7 = 0 /\ Last4
Last6 == p6 = 0 /\ Last5
Last7 == p5 = 0 /\ Last6
Last8 == p4 = 0 /\ Last7

Init ==
    \/ part = "bands" /\ B!BandInit /\ Last4
    \/ part = "suggestions" /\ G!SugInit /\ Last2
    \/ part = "setlists" /\ L!SharedInit
    \/ part = "trash" /\ T!TrashInit /\ Last7
    \/ part = "order" /\ R!OrderInit /\ Last6
    \/ part = "links" /\ S!SharingInit
    \/ part = "copies" /\ C!CopiesInit /\ Last5
    \/ part = "news" /\ N!NewsInit /\ Last5
    \/ part = "support" /\ H!SupportInit /\ Last5
    \/ part = "backup" /\ K!BackupInit /\ Last5
    \/ part = "library" /\ Y!LibraryInit /\ Last6
    \/ part = "agenda" /\ D!AgendaInit /\ Last4
    \/ part = "pins" /\ P!PinsInit /\ Last8
    \/ part = "rights" /\ Q!RightsInit /\ Last4
    \/ part = "desk" /\ M!DeskInit /\ Last7

Next ==
    /\ UNCHANGED part
    /\ \/ part = "bands" /\ B!BandNext /\ UNCHANGED <<p8, p9, p10, p11>>
       \/ part = "suggestions" /\ G!SugNext /\ UNCHANGED <<p10, p11>>
       \/ part = "setlists" /\ L!SharedNext
       \/ part = "trash" /\ T!TrashNext
          /\ UNCHANGED <<p5, p6, p7, p8, p9, p10, p11>>
       \/ part = "order" /\ R!OrderNext /\ UNCHANGED <<p6, p7, p8, p9, p10, p11>>
       \/ part = "links" /\ S!SharingNext
       \/ part = "copies" /\ C!CopiesNext /\ UNCHANGED <<p7, p8, p9, p10, p11>>
       \/ part = "news" /\ N!NewsNext /\ UNCHANGED <<p7, p8, p9, p10, p11>>
       \/ part = "support" /\ H!SupportNext /\ UNCHANGED <<p7, p8, p9, p10, p11>>
       \/ part = "backup" /\ K!BackupNext /\ UNCHANGED <<p7, p8, p9, p10, p11>>
       \/ part = "library" /\ Y!LibraryNext
          /\ UNCHANGED <<p6, p7, p8, p9, p10, p11>>
       \/ part = "agenda" /\ D!AgendaNext /\ UNCHANGED <<p8, p9, p10, p11>>
       \/ part = "pins" /\ P!PinsNext
          /\ UNCHANGED <<p4, p5, p6, p7, p8, p9, p10, p11>>
       \/ part = "rights" /\ Q!RightsNext /\ UNCHANGED <<p8, p9, p10, p11>>
       \/ part = "desk" /\ M!DeskNext /\ UNCHANGED <<p5, p6, p7, p8, p9, p10, p11>>

allVars == <<part, p1, p2, p3, p4, p5, p6, p7, p8, p9, p10, p11>>

Spec == Init /\ [][Next]_allVars

-----------------------------------------------------------------------------
\* Every variable of the part that moves keeps its type.
TypesOK ==
    CASE part = "bands" -> B!BandTypeOK
      [] part = "suggestions" -> G!SugTypeOK
      [] part = "setlists" -> L!SharedTypeOK
      [] part = "trash" -> T!TrashTypeOK
      [] part = "order" -> R!OrderTypeOK
      [] part = "links" -> S!SharingTypeOK
      [] part = "copies" -> C!CopiesTypeOK
      [] part = "news" -> N!NewsTypeOK
      [] part = "support" -> H!SupportTypeOK
      [] part = "backup" -> K!BackupTypeOK
      [] part = "library" -> Y!LibraryTypeOK
      [] part = "agenda" -> D!AgendaTypeOK
      [] part = "pins" -> P!PinsTypeOK
      [] part = "rights" -> Q!RightsTypeOK
      [] part = "desk" -> M!DeskTypeOK

\* Invites end with their maker's authority, limits of members hold, and a
\* band keeps its owner; an accepted suggestion had its song added; a band
\* holds one copy of a song, joined with those of its versions, within its
\* limit; a band's page says what its reader may do, one hierarchy holds, and
\* reminders keep within theirs (Bands, Suggestions, BandCopies, BandDesk).
BandSafety ==
    /\ part = "bands" => B!BandSafety
    /\ part = "suggestions" => G!AcceptedIsAdded
    /\ part = "copies" => C!CopySafety
    /\ part = "desk" => M!DeskSafety

\* What somebody contributed to a setlist stays in it; songs and markers are
\* appended apart, within the limit, and from the repertoire; what was taken
\* down has no link and is not shown; gigs, setlists and tours are shown to
\* whoever may open them, and pinned in order and within the limit; requests
\* tell nobody of what they could not open, and invitations give what their
\* giver could (SharedSetlists, RunningOrder, Sharing, Agenda, Pins, Rights).
SetlistSafety ==
    /\ part = "setlists" => L!ContributedStays
    /\ part = "order" => R!OrderSafety
    /\ part = "links" => S!SharingSafety
    /\ part = "agenda" => D!AgendaSafety
    /\ part = "pins" => P!PinsSafety
    /\ part = "rights" => Q!RightsSafety

\* The limits of an account hold, trashed songs stay in the trash, and what
\* was not edited while it was backed up comes back (Library, Trash, Backups).
LibrarySafety ==
    /\ part = "library" => Y!LimitsHold
    /\ part = "trash" => T!TrashSafety
    /\ part = "backup" => K!UntouchedComesBack

\* An admin stands behind what is mailed to everybody, and nobody is told
\* twice; a reply nobody was shown stays unread (Announcements,
\* SupportTickets).
MessageSafety ==
    /\ part = "news" => N!AnnouncementSafety
    /\ part = "support" => H!UnseenIsUnread

\* No step spoils what it should keep: of all who decide on a suggestion one
\* wins; a deletion spares songs that were live when it began; nobody is told
\* of an archived announcement; a closed ticket stays closed (Suggestions,
\* Trash, Announcements, SupportTickets).
WorkspaceSteps ==
    [][ /\ part = "suggestions" => G!KeepsOutcome
        /\ part = "trash" => T!SparesLiveSongs
        /\ part = "news" => N!KeepsSilence
        /\ part = "support" => H!KeepsTickets ]_allVars
=============================================================================
