--------------------------------- MODULE Trash ---------------------------------
(***************************************************************************)
(* The trash of one library: its songs and artists, and the requests and   *)
(* the hourly purge that trash, restore and delete them.                   *)
(*                                                                         *)
(* A transaction locks the rows it writes until it commits.  A statement   *)
(* chooses its rows from what was committed when it began; a row another   *)
(* transaction changes in between is looked at again only if the condition *)
(* is on that row itself.  Emptying the trash asks `deleted_at` of the row *)
(* it deletes; the purge deletes ids a subquery found.                     *)
(***************************************************************************)
EXTENDS Integers, FiniteSets

CONSTANTS
    Artists, Songs,    \* rows there may be
    ArtistOf,          \* whose each song is
    TitleOf,           \* what it is called
    Ops,               \* transactions and jobs under way
    SongLimit          \* QuotaLimits.songs

VARIABLES
    artist, song,   \* the rows: where they are and the batch they went with
    op,             \* what each transaction does
    alone           \* ghost: songs somebody trashed by themselves

trashVars == <<artist, song, op, alone>>

\* "old" is in the trash for longer than it is kept.
Places == {"none", "live", "trash", "old"}
InTrash == {"trash", "old"}
Batches == 0..(Cardinality(Artists) + Cardinality(Songs) + 1)
Rows == [at : Places, batch : Batches]
GoneRow == [at |-> "none", batch |-> 0]
LiveRow == [at |-> "live", batch |-> 0]

OpPCs == {"idle", "create", "inserted", "trashing", "restoring", "emptied",
          "purge", "purged", "sweep"}
NoOp == [pc |-> "idle", artists |-> {}, songs |-> {}, locked |-> {},
         kind |-> "none", live |-> {}]
OpRecords ==
    [pc : OpPCs, artists : SUBSET Artists, songs : SUBSET Songs,
     locked : SUBSET (Artists \cup Songs),
     kind : {"none", "empty", "purge"}, live : SUBSET Songs]

LiveSongs == {s \in Songs : song[s].at = "live"}
SongsOf(a) == {s \in Songs : ArtistOf[s] = a}
Twins(s) == {t \in Songs \ {s} : ArtistOf[t] = ArtistOf[s] /\ TitleOf[t] = TitleOf[s]}
UnusedBatch ==
    CHOOSE n \in Batches \ {0} :
       n \notin {artist[a].batch : a \in Artists} \cup {song[s].batch : s \in Songs}

\* Rows another transaction has locked are waited for.
Free(rows) == \A y \in Ops : op[y].locked \cap rows = {}

\* A song that is inserted keeps its artist's row from being deleted.
NoneInserted(a) == \A y \in Ops :
    op[y].pc = "inserted" => \A s \in op[y].songs : ArtistOf[s] # a

\* Mutant of SongQuotaFree: songs are counted without the scope's lock.
SongQuotaUnlocked == TRUE

\* lock_scope: the advisory lock of the scope's songs, held until the commit.
SongQuotaFree == \A y \in Ops : op[y].pc # "inserted"

\* The unique index on live titles sees what is not committed yet.
TitleFree(s) ==
    /\ Twins(s) \cap LiveSongs = {}
    /\ \A y \in Ops : op[y].pc = "inserted" => op[y].songs \cap Twins(s) = {}

BeginOp(x, r) == op[x].pc = "idle" /\ op' = [op EXCEPT ![x] = r]
EndOp(x) == op' = [op EXCEPT ![x] = NoOp]

\* Rows that go, with the songs that go with their artists.
Deleted(as, ss) ==
    /\ artist' = [a \in Artists |-> IF a \in as THEN GoneRow ELSE artist[a]]
    /\ song' = [s \in Songs |->
                  IF s \in ss \/ ArtistOf[s] \in as THEN GoneRow ELSE song[s]]
    /\ alone' = {s \in alone : s \notin ss /\ ArtistOf[s] \notin as}

-----------------------------------------------------------------------------
(* Creating and trashing. *)

CreateArtist(a) ==
    /\ artist[a] = GoneRow /\ artist' = [artist EXCEPT ![a] = LiveRow]
    /\ UNCHANGED <<song, op, alone>>

\* create_song: the artist, the title and the quota are looked at first.
AskCreateSong(x, s) ==
    /\ song[s] = GoneRow /\ artist[ArtistOf[s]].at = "live"
    /\ \A y \in Ops : s \notin op[y].songs
    /\ Twins(s) \cap LiveSongs = {} /\ Cardinality(LiveSongs) < SongLimit
    /\ BeginOp(x, [NoOp EXCEPT !.pc = "create", !.songs = {s}])
    /\ UNCHANGED <<artist, song, alone>>

\* QuotaGuard::enforce: counted again under the lock.
QuotaHolds(n) == Cardinality(LiveSongs) + n <= SongLimit

\* SongRepository::create up to the INSERT: the artist's row has to be there,
\* in the trash or not.
InsertSong(x) ==
    LET a == ArtistOf[CHOOSE s \in op[x].songs : TRUE] IN
    /\ op[x].pc = "create" /\ SongQuotaFree
    /\ IF QuotaHolds(1) /\ artist[a].at # "none" /\ \A s \in op[x].songs : TitleFree(s)
       THEN op' = [op EXCEPT ![x].pc = "inserted"]
       ELSE EndOp(x)
    /\ UNCHANGED <<artist, song, alone>>

CommitSong(x) ==
    /\ op[x].pc = "inserted"
    /\ song' = [s \in Songs |-> IF s \in op[x].songs THEN LiveRow ELSE song[s]]
    /\ EndOp(x)
    /\ UNCHANGED <<artist, alone>>

TrashSong(s) ==
    /\ song[s].at = "live" /\ Free({s})
    /\ song' = [song EXCEPT ![s] = [at |-> "trash", batch |-> UnusedBatch]]
    /\ alone' = alone \cup {s}
    /\ UNCHANGED <<artist, op>>

\* Mutant of TakenAlong: an artist takes the songs in the trash along.
TakenAlongAll(a) == {s \in SongsOf(a) : song[s].at # "none"}

\* The songs an artist takes to the trash.
TakenAlong(a) == SongsOf(a) \cap LiveSongs

\* ArtistRepository::trash: the artist first, then the songs it has by then.
BeginArtistTrash(x, a) ==
    /\ artist[a].at = "live" /\ Free({a})
    /\ BeginOp(x, [NoOp EXCEPT !.pc = "trashing", !.artists = {a}, !.locked = {a}])
    /\ UNCHANGED <<artist, song, alone>>

TrashArtist(x) ==
    LET a == CHOOSE b \in op[x].artists : TRUE
        gone == [at |-> "trash", batch |-> UnusedBatch] IN
    /\ op[x].pc = "trashing" /\ Free(TakenAlong(a))
    /\ artist' = [artist EXCEPT ![a] = gone]
    /\ song' = [s \in Songs |-> IF s \in TakenAlong(a) THEN gone ELSE song[s]]
    /\ EndOp(x)
    /\ UNCHANGED alone

\* The retention period of what is in the trash passes.
Age ==
    /\ \E s \in Songs : song[s].at = "trash"
    /\ artist' = [a \in Artists |-> IF artist[a].at = "trash"
                                    THEN [artist[a] EXCEPT !.at = "old"] ELSE artist[a]]
    /\ song' = [s \in Songs |-> IF song[s].at = "trash"
                                THEN [song[s] EXCEPT !.at = "old"] ELSE song[s]]
    /\ UNCHANGED <<op, alone>>

-----------------------------------------------------------------------------
(* Restoring. *)

\* A song brings its artist's row back with it, and nothing else.
BeginRestoreSong(x, s) ==
    LET a == ArtistOf[s]
        with == IF artist[a].at \in InTrash THEN {a} ELSE {} IN
    /\ song[s].at \in InTrash /\ Free({s}) /\ Twins(s) \cap LiveSongs = {}
    /\ BeginOp(x, [NoOp EXCEPT !.pc = "restoring", !.songs = {s}, !.artists = with,
                             !.locked = {s}])
    /\ UNCHANGED <<artist, song, alone>>

\* An artist brings back the songs that went with it.
BeginRestoreArtist(x, a) ==
    LET with == {s \in Songs : song[s].at \in InTrash /\
                               song[s].batch = artist[a].batch} IN
    /\ artist[a].at \in InTrash /\ Free({a}) /\ NoneInserted(a)
    /\ \A s \in with : Twins(s) \cap LiveSongs = {}
    /\ BeginOp(x, [NoOp EXCEPT !.pc = "restoring", !.songs = with, !.artists = {a},
                             !.locked = {a}])
    /\ UNCHANGED <<artist, song, alone>>

\* check_restore_quotas and the UPDATEs, which name the rows by id.
Restore(x) ==
    LET back == op[x].songs IN
    /\ op[x].pc = "restoring"
    /\ back # {} => SongQuotaFree
    /\ \A y \in Ops \ {x} : op[y].locked \cap (back \cup op[x].artists) = {}
    /\ IF (back = {} \/ QuotaHolds(Cardinality(back))) /\ \A s \in back : TitleFree(s)
       THEN /\ artist' = [a \in Artists |->
                            IF a \in op[x].artists /\ artist[a] # GoneRow
                            THEN LiveRow ELSE artist[a]]
            /\ song' = [s \in Songs |-> IF s \in back /\ song[s] # GoneRow
                                        THEN LiveRow ELSE song[s]]
            /\ alone' = IF op[x].locked = back THEN alone \ back ELSE alone
       ELSE UNCHANGED <<artist, song, alone>>
    /\ EndOp(x)

-----------------------------------------------------------------------------
(* Deleting for good. *)

\* delete_permanently: FOR UPDATE, then under the lock.
DeleteSong(s) ==
    /\ song[s].at \in InTrash /\ Free({s}) /\ Deleted({}, {s})
    /\ UNCHANGED op

DeleteArtist(a) ==
    LET with == {s \in Songs : song[s].at \in InTrash /\
                               song[s].batch = artist[a].batch} IN
    /\ artist[a].at \in InTrash /\ NoneInserted(a) /\ Free({a} \cup SongsOf(a))
    /\ SongsOf(a) \cap LiveSongs = {}
    /\ Deleted({a}, with)
    /\ UNCHANGED op

\* empty: the songs go with the transaction's commit.
BeginEmpty(x) ==
    LET ss == {s \in Songs : song[s].at \in InTrash} IN
    /\ Free(ss)
    /\ BeginOp(x, [NoOp EXCEPT !.pc = "emptied", !.kind = "empty", !.songs = ss,
                             !.locked = ss])
    /\ UNCHANGED <<artist, song, alone>>

\* purge_before: the ids its subquery finds.
BeginPurge(x) ==
    /\ BeginOp(x, [NoOp EXCEPT !.pc = "purge", !.kind = "purge", !.live = LiveSongs,
                             !.songs = {s \in Songs : song[s].at = "old"}])
    /\ UNCHANGED <<artist, song, alone>>

PurgeSongs(x) ==
    /\ op[x].pc = "purge" /\ Free(op[x].songs)
    /\ Deleted({}, op[x].songs)
    /\ op' = [op EXCEPT ![x].pc = "purged", ![x].songs = {}]

\* Mutant of Lonely: an artist goes whatever songs it has.
LonelyAnyway(a) == TRUE

\* An artist goes only when no live song refers to it.
Lonely(a) == SongsOf(a) \cap LiveSongs = {}

ChooseArtists(x) ==
    LET old == IF op[x].kind = "purge" THEN {"old"} ELSE InTrash IN
    /\ op[x].pc \in {"emptied", "purged"}
    /\ op' = [op EXCEPT ![x].pc = "sweep", ![x].live = LiveSongs,
                        ![x].artists = {a \in Artists : artist[a].at \in old /\ Lonely(a)}]
    /\ UNCHANGED <<artist, song, alone>>

\* An artist restored meanwhile is spared by emptying, not by the purge.
Sweep(x) ==
    LET as == {a \in op[x].artists :
                 op[x].kind = "purge" \/ artist[a].at \in InTrash} IN
    /\ op[x].pc = "sweep"
    /\ \A a \in op[x].artists : NoneInserted(a)
    /\ \A y \in Ops \ {x} :
          op[y].locked \cap (as \cup UNION {SongsOf(a) : a \in as}) = {}
    /\ Deleted(as, op[x].songs)
    /\ EndOp(x)

\* A deadlock or a failure rolls a transaction back.
AbortOp(x) ==
    /\ op[x].pc # "idle" /\ EndOp(x) /\ UNCHANGED <<artist, song, alone>>

-----------------------------------------------------------------------------
TrashInit ==
    /\ artist = [a \in Artists |-> LiveRow] /\ song = [s \in Songs |-> GoneRow]
    /\ op = [x \in Ops |-> NoOp] /\ alone = {}

TrashNext ==
    \/ \E x \in Ops :
          \/ \E s \in Songs : AskCreateSong(x, s) \/ BeginRestoreSong(x, s)
          \/ \E a \in Artists : BeginArtistTrash(x, a) \/ BeginRestoreArtist(x, a)
          \/ InsertSong(x) \/ CommitSong(x) \/ TrashArtist(x) \/ Restore(x)
          \/ BeginEmpty(x) \/ BeginPurge(x) \/ PurgeSongs(x) \/ ChooseArtists(x)
          \/ Sweep(x) \/ AbortOp(x)
    \/ \E s \in Songs : TrashSong(s) \/ DeleteSong(s)
    \/ \E a \in Artists : CreateArtist(a) \/ DeleteArtist(a)
    \/ Age

TrashSpec == TrashInit /\ [][TrashNext]_trashVars

-----------------------------------------------------------------------------
(* What the trash promises. *)

\* Every variable keeps its type.
TrashTypeOK ==
    /\ artist \in [Artists -> Rows] /\ song \in [Songs -> Rows]
    /\ op \in [Ops -> OpRecords] /\ alone \subseteq Songs

\* Songs created and restored at once stay within the limit
\* (QuotaGuard::enforce, check_restore_quotas).
SongsWithinLimit == Cardinality(LiveSongs) <= SongLimit

\* A song somebody put in the trash by itself stays there until it is
\* restored itself, whatever its artist goes through (trash_batch).
StaysInTrash == \A s \in alone : song[s].at \in InTrash

TrashSafety == SongsWithinLimit /\ StaysInTrash

\* A deletion never takes a song that was live when its statement began
\* (purge_before, empty: "NOT EXISTS ... deleted_at IS NULL").
SparesLiveSongs ==
    \A s \in Songs, x \in Ops :
       song[s].at # "none" /\ song'[s].at = "none" /\ op'[x] # op[x]
          => s \notin op[x].live
NoLiveSongTaken == [][SparesLiveSongs]_trashVars

\* What purge_before says: everything it deletes is in the trash.
OnlyTrashIsDeleted ==
    [][\A s \in Songs : song'[s].at = "none" => song[s].at # "live"]_trashVars
=============================================================================
