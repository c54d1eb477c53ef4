------------------------------- MODULE Library -------------------------------
(***************************************************************************)
(* The songs, artists and setlists of one account, within its limits       *)
(* (quota_repository.rs, song_repository.rs, setlist_repository.rs,        *)
(* backup_repository.rs).                                                  *)
(*                                                                         *)
(* Whatever adds rows locks what it counts first, until it commits.  The   *)
(* locks are taken one after the other, so requests may wait in a circle;  *)
(* the database then ends one of them.                                     *)
(***************************************************************************)
EXTENDS Integers, FiniteSets, Sequences, SequencesExt

CONSTANTS
    Jobs,        \* requests of the account at once
    NoJob,       \* no request
    Pieces,      \* songs, told apart by artist, title and version
    PlayedBy(_), \* the artist of a song
    SongRoom,    \* limits of the account
    ArtistRoom,
    ListRoom

VARIABLES
    songs,     \* the account's songs
    artists,   \* its artists
    lists,     \* how many setlists it has
    lock,      \* who adds songs, artists, setlists
    work       \* what each request is about

libraryVars == <<songs, artists, lists, lock, work>>

Resources == {"songs", "artists", "setlists"}
Kinds == {"song", "artist", "setlist", "copy", "duplicate", "import"}
Idle == [kind |-> "song", about |-> {}, pc |-> "idle", todo |-> <<>>, used |-> 0]

PlayersOf(keys) == {PlayedBy(k) : k \in keys}
AllArtists == PlayersOf(Pieces)

LibraryTypeOK ==
    /\ songs \subseteq Pieces /\ artists \subseteq AllArtists
    /\ lists \in 0..ListRoom
    /\ lock \in [Resources -> Jobs \cup {NoJob}]
    /\ \A j \in Jobs :
         /\ work[j].kind \in Kinds /\ work[j].about \subseteq Pieces
         /\ work[j].pc \in {"idle", "checked", "in", "counted"}
         /\ ToSet(work[j].todo) \subseteq Resources
         /\ work[j].used \in 0..SongRoom

LibraryInit ==
    /\ songs = {}
    /\ artists \in {some \in SUBSET AllArtists : Cardinality(some) <= ArtistRoom}
    /\ lists = 0
    /\ lock = [r \in Resources |-> NoJob]
    /\ work = [j \in Jobs |-> Idle]

-----------------------------------------------------------------------------
LocksOfGuards(kind) ==
    CASE kind = "song" -> <<"songs">>
      [] kind = "artist" -> <<"artists">>
      [] kind \in {"setlist", "duplicate"} -> <<"setlists">>
      [] kind = "copy" -> <<>>
      [] kind = "import" -> <<"songs", "artists", "setlists">>

\* What a request locks, in its order; a copy of songs counts what it locked
\* last, a new row what it adds.
LocksOf(kind) ==
    CASE kind = "song" -> <<"songs">>
      [] kind = "artist" -> <<"artists">>
      [] kind = "setlist" -> <<"setlists">>
      [] kind = "copy" -> <<"songs", "artists">>
      [] kind = "duplicate" -> <<"setlists", "songs", "artists">>
      [] kind = "import" -> <<"songs", "artists", "setlists">>

RoomOf(r) ==
    CASE r = "songs" -> SongRoom [] r = "artists" -> ArtistRoom [] r = "setlists" -> ListRoom

UsedOf(r) ==
    CASE r = "songs" -> Cardinality(songs)
      [] r = "artists" -> Cardinality(artists)
      [] r = "setlists" -> lists

HasRoom(r, more) == UsedOf(r) + more <= RoomOf(r)

\* Checked before anything is locked; an import counts all it holds as new.
Admits(kind, about) ==
    CASE kind = "song" -> HasRoom("songs", 1) /\ PlayersOf(about) \subseteq artists
                          /\ about \cap songs = {}
      [] kind = "artist" -> HasRoom("artists", 1) /\ PlayersOf(about) \cap artists = {}
      [] kind \in {"setlist", "duplicate"} -> HasRoom("setlists", 1)
      [] kind = "copy" -> TRUE
      [] kind = "import" -> /\ HasRoom("songs", Cardinality(about))
                            /\ HasRoom("artists", Cardinality(PlayersOf(about)))
                            /\ HasRoom("setlists", 1)

AboutOf(kind) ==
    CASE kind = "setlist" -> {{}}
      [] kind \in {"song", "artist", "copy"} -> {{k} : k \in Pieces}
      [] OTHER -> SUBSET Pieces \ {{}}

Ask(j, kind, about) ==
    /\ work[j].pc = "idle" /\ Admits(kind, about)
    /\ work' = [work EXCEPT ![j] = [Idle EXCEPT !.kind = kind, !.about = about,
                                                !.pc = "checked"]]
    /\ UNCHANGED <<songs, artists, lists, lock>>

\* One import at a time: another one is turned away.
Importing(i) == work[i].kind = "import" /\ work[i].pc \in {"in", "counted"}

BeginWork(j) ==
    LET refused == work[j].kind = "import" /\ \E i \in Jobs : Importing(i) IN
    /\ work[j].pc = "checked"
    /\ work' = [work EXCEPT ![j] = IF refused THEN Idle
                 ELSE [@ EXCEPT !.pc = "in", !.todo = LocksOf(work[j].kind)]]
    /\ UNCHANGED <<songs, artists, lists, lock>>

Released(j) == [r \in Resources |-> IF lock[r] = j THEN NoJob ELSE lock[r]]

GiveUp(j) ==
    /\ work' = [work EXCEPT ![j] = Idle]
    /\ lock' = Released(j)
    /\ UNCHANGED <<songs, artists, lists>>

Locks(j) ==
    /\ work[j].pc = "in" /\ work[j].todo # <<>>
    /\ lock[Head(work[j].todo)] = NoJob
    /\ lock' = [lock EXCEPT ![Head(work[j].todo)] = j]
    /\ work' = [work EXCEPT ![j].todo = Tail(@)]
    /\ UNCHANGED <<songs, artists, lists>>

\* Counted again under the locks.  Copies of songs go on without room: they
\* are made one by one, as long as there is some.
Counts(j) ==
    LET kind == work[j].kind
        adds == CASE kind = "song" -> {"songs"} [] kind = "artist" -> {"artists"}
                  [] kind \in {"setlist", "duplicate"} -> {"setlists"}
                  [] OTHER -> {} IN
    /\ work[j].pc = "in" /\ work[j].todo = <<>>
    /\ IF \A r \in adds : HasRoom(r, 1)
       THEN /\ work' = [work EXCEPT ![j].pc = "counted",
                                    ![j].used = Cardinality(songs)]
            /\ UNCHANGED <<songs, artists, lists, lock>>
       ELSE GiveUp(j)

-----------------------------------------------------------------------------
Done(j) ==
    /\ work' = [work EXCEPT ![j] = Idle]
    /\ lock' = Released(j)

\* A new song; the unique index refuses a second one.
AddSong(j) ==
    /\ work[j].kind = "song"
    /\ IF work[j].about \cap songs = {}
       THEN songs' = songs \cup work[j].about /\ Done(j) /\ UNCHANGED <<artists, lists>>
       ELSE GiveUp(j)

AddArtist(j) ==
    /\ work[j].kind = "artist"
    /\ IF PlayersOf(work[j].about) \cap artists = {}
       THEN /\ artists' = artists \cup PlayersOf(work[j].about)
            /\ Done(j) /\ UNCHANGED <<songs, lists>>
       ELSE GiveUp(j)

AddSetlist(j) ==
    /\ work[j].kind = "setlist"
    /\ lists' = lists + 1 /\ Done(j) /\ UNCHANGED <<songs, artists>>

\* What can be copied, with the artists it needs, in the room that was
\* counted; nothing more fits.
CopiesInRoom(used, keys) ==
    LET fit(made) == /\ used + Cardinality(made) <= SongRoom
                     /\ Cardinality(artists \cup PlayersOf(made))
                          <= IF PlayersOf(made) \subseteq artists
                             THEN Cardinality(AllArtists) ELSE ArtistRoom IN
    {made \in SUBSET (keys \ songs) :
       fit(made) /\ \A k \in keys \ (songs \cup made) : ~fit(made \cup {k})}

\* One song of a setlist; without room for it nothing is done.
CopySong(j) ==
    LET keys == work[j].about IN
    /\ work[j].kind = "copy"
    /\ \E made \in CopiesInRoom(work[j].used, keys) :
         IF keys \subseteq songs \cup made
         THEN /\ songs' = songs \cup made
              /\ artists' = artists \cup PlayersOf(made)
              /\ Done(j) /\ UNCHANGED lists
         ELSE GiveUp(j)

\* A setlist with its songs, those skipped for which there is no room.
Duplicate(j) ==
    /\ work[j].kind = "duplicate"
    /\ \E made \in CopiesInRoom(work[j].used, work[j].about) :
         /\ songs' = songs \cup made
         /\ artists' = artists \cup PlayersOf(made)
    /\ lists' = lists + 1
    /\ Done(j)

\* The totals are checked last, and all is undone if they are too many.
ImportAll(j) ==
    LET keys == work[j].about IN
    /\ work[j].kind = "import"
    /\ IF /\ Cardinality(songs \cup keys) <= SongRoom
          /\ Cardinality(artists \cup PlayersOf(keys)) <= ArtistRoom
          /\ HasRoom("setlists", 1)
       THEN /\ songs' = songs \cup keys
            /\ artists' = artists \cup PlayersOf(keys)
            /\ lists' = lists + 1
            /\ Done(j)
       ELSE GiveUp(j)

Commit(j) ==
    /\ work[j].pc = "counted"
    /\ \/ AddSong(j) \/ AddArtist(j) \/ AddSetlist(j)
       \/ CopySong(j) \/ Duplicate(j) \/ ImportAll(j)

-----------------------------------------------------------------------------
\* Moved to the trash: no lock is taken for it.
TrashSong(k) == k \in songs /\ songs' = songs \ {k} /\ UNCHANGED <<artists, lists, lock, work>>

TrashSetlist == lists > 0 /\ lists' = lists - 1 /\ UNCHANGED <<songs, artists, lock, work>>

TrashArtist(n) ==
    /\ n \in artists
    /\ artists' = artists \ {n}
    /\ songs' = {k \in songs : PlayedBy(k) # n}
    /\ UNCHANGED <<lists, lock, work>>

\* The database finds requests that wait for each other, and ends one.
WaitsFor(j, i) ==
    /\ work[j].pc = "in" /\ work[j].todo # <<>>
    /\ i # j /\ lock[Head(work[j].todo)] = i

BrokenOff(j) == (\E i \in Jobs : WaitsFor(j, i) /\ WaitsFor(i, j)) /\ GiveUp(j)

LibraryNext ==
    \/ \E j \in Jobs :
         \/ \E kind \in Kinds : \E about \in AboutOf(kind) : Ask(j, kind, about)
         \/ BeginWork(j) \/ Locks(j) \/ Counts(j) \/ Commit(j) \/ BrokenOff(j)
    \/ \E k \in Pieces : TrashSong(k)
    \/ \E n \in AllArtists : TrashArtist(n)
    \/ TrashSetlist

-----------------------------------------------------------------------------
\* However requests meet, an account has no more than its limits
\* (QuotaGuard::enforce, PersonalForker, import).
LimitsHold == \A r \in Resources : UsedOf(r) <= RoomOf(r)

\* Refuted: a duplicate locks setlists before songs, an import songs before
\* setlists.
NoCircle == \A j, i \in Jobs : ~(WaitsFor(j, i) /\ WaitsFor(i, j))
=============================================================================
