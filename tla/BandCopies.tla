------------------------------- MODULE BandCopies -------------------------------
(***************************************************************************)
(* A band's own copies of its members' songs.                              *)
(*                                                                         *)
(* Adding a member's song to a setlist copies it into the band once; adding *)
(* it again brings the copy up to date, unless the band edited it.  The    *)
(* original, the copy and what the band did to it are read in requests of  *)
(* their own before the transaction that writes.                           *)
(***************************************************************************)
EXTENDS Integers, FiniteSets

CONSTANTS
    Originals,      \* songs of members
    OriginalOf,     \* the song each is a version of, or NoOriginal
    NoOriginal,
    CopyRows,       \* rows of the band's copies there may ever be
    Adders,         \* requests under way
    BandSongLimits, \* QuotaLimits.band_songs of the plans there are
    Changing,       \* bound: originals that are changed
    MaxEdits        \* bound: changes of each

VARIABLES
    bandLimit,  \* the limit of the band owner's plan
    edits,      \* how many times each original was changed
    copy,       \* the band's rows
    adder,      \* requests that add or update
    binnedOnce, \* ghost: copies that were in the trash, or whose original was
    hasty       \* ghost: copies that were inserted without the lock

copyVars == <<bandLimit, edits, copy, adder, binnedOnce, hasty>>

\* `has`: the changes of the original it holds; `stamp`: those there were
\* when it was last marked as matching the original (source_synced_at).
NoCopy == [at |-> "none", from |-> NoOriginal, has |-> 0, stamp |-> 0,
           edited |-> FALSE, original |-> "none"]
CopyRecords ==
    [at : {"none", "live", "trash"}, from : Originals \cup {NoOriginal},
     has : 0..MaxEdits, stamp : 0..MaxEdits, edited : BOOLEAN,
     original : CopyRows \cup {"none"}]

NoAdder == [pc |-> "idle", song |-> NoOriginal, has |-> 0, stamp |-> 0,
            row |-> "none", locked |-> FALSE, asked |-> FALSE]
AdderPCs == {"idle", "add", "fork", "insert", "inserted", "refresh", "sync"}
AdderRecords ==
    [pc : AdderPCs, song : Originals \cup {NoOriginal}, has : 0..MaxEdits,
     stamp : 0..MaxEdits, row : CopyRows \cup {"none"}, locked : BOOLEAN, asked : BOOLEAN]

LiveCopies == {c \in CopyRows : copy[c].at = "live"}
CopiesOf(s) == {c \in LiveCopies : copy[c].from = s}

\* BandCopyStatus.
HasUpdates(c) == edits[copy[c].from] > copy[c].stamp

\* Mutant of BandQuotaFree: nothing is locked.
BandQuotaUnlocked == TRUE

\* The advisory lock of the band's songs.
BandQuotaFree == \A y \in Adders : ~adder[y].locked

SetAdder(x, r) == adder' = [adder EXCEPT ![x] = r]

-----------------------------------------------------------------------------
(* Adding a member's song. *)

\* find_with_artist_name: the original is read here.
AskAddSong(x, s) ==
    /\ adder[x].pc = "idle"
    /\ SetAdder(x, [NoAdder EXCEPT !.pc = "add", !.song = s, !.has = edits[s]])
    /\ UNCHANGED <<bandLimit, edits, copy, binnedOnce, hasty>>

\* band_song_for: the band's copy, or room for one.
FindFork(x) ==
    LET s == adder[x].song IN
    /\ adder[x].pc = "add"
    /\ \/ \E c \in CopiesOf(s) :
             SetAdder(x, [adder[x] EXCEPT !.pc = "refresh", !.row = c])
       \/ /\ CopiesOf(s) = {}
          /\ SetAdder(x, IF Cardinality(LiveCopies) < bandLimit
                         THEN [adder[x] EXCEPT !.pc = "fork"] ELSE NoAdder)
    /\ UNCHANGED <<bandLimit, edits, copy, binnedOnce, hasty>>

\* Mutant of BandRoom: the quota is not counted again under its lock.
BandRoomAnyway == TRUE

\* QuotaGuard::enforce.
BandRoom == Cardinality(LiveCopies) < bandLimit

\* create_band_copy stamps the copy and asks whether there is one by now: if
\* not, the band's songs are locked and counted.
BeginFork(x) ==
    LET s == adder[x].song
        r == [adder[x] EXCEPT !.pc = "insert", !.stamp = edits[s]] IN
    /\ adder[x].pc = "fork"
    /\ IF CopiesOf(s) # {} THEN SetAdder(x, r)
       ELSE /\ BandQuotaFree
            /\ SetAdder(x, IF BandRoom THEN [r EXCEPT !.locked = TRUE] ELSE NoAdder)
    /\ UNCHANGED <<bandLimit, edits, copy, binnedOnce, hasty>>

\* Mutant of Conflicting: the index that keeps copies apart is gone.
ConflictingNever(s) == {}

\* ON CONFLICT (band_id, forked_from): a live copy of the same song.
Conflicting(s) == CopiesOf(s)

\* A row with the same key that is not committed yet is waited for.
InsertFork(x) ==
    LET s == adder[x].song
        family == CopiesOf(OriginalOf[s]) IN
    /\ adder[x].pc = "insert"
    /\ \A y \in Adders : adder[y].pc = "inserted" => adder[y].song # s
    /\ IF Conflicting(s) # {} THEN SetAdder(x, NoAdder) /\ UNCHANGED copy
       ELSE \E c \in CopyRows :
          /\ copy[c] = NoCopy /\ \A y \in Adders : adder[y].row # c
          /\ copy' = [copy EXCEPT ![c] =
                [NoCopy EXCEPT !.from = s, !.has = adder[x].has, !.stamp = adder[x].stamp,
                               !.original = IF family = {} THEN "none"
                                            ELSE CHOOSE o \in family : TRUE]]
          /\ SetAdder(x, [adder[x] EXCEPT !.pc = "inserted", !.row = c])
    /\ UNCHANGED <<bandLimit, edits, binnedOnce, hasty>>

\* Copies of the song's versions that have no original yet join it.
CommitFork(x) ==
    LET joins == {c \in CopyRows : /\ copy[c].at # "none" /\ copy[c].original = "none"
                                   /\ OriginalOf[copy[c].from] = adder[x].song} IN
    /\ adder[x].pc = "inserted"
    /\ copy' = [c \in CopyRows |->
                  IF c = adder[x].row THEN [copy[c] EXCEPT !.at = "live"]
                  ELSE IF c \in joins THEN [copy[c] EXCEPT !.original = adder[x].row]
                  ELSE copy[c]]
    /\ hasty' = IF adder[x].locked THEN hasty ELSE hasty \cup {adder[x].row}
    /\ SetAdder(x, NoAdder)
    /\ UNCHANGED <<bandLimit, edits, binnedOnce>>

-----------------------------------------------------------------------------
(* Bringing a copy up to date. *)

\* A copy the band edited is left alone.
MayRefresh(c) == copy[c].at = "live" /\ HasUpdates(c) /\ ~copy[c].edited

\* refresh_band_copy, after the song was added.
RefreshCopy(x) ==
    /\ adder[x].pc = "refresh"
    /\ SetAdder(x, IF MayRefresh(adder[x].row) THEN [adder[x] EXCEPT !.pc = "sync"]
                   ELSE NoAdder)
    /\ UNCHANGED <<bandLimit, edits, copy, binnedOnce, hasty>>

\* sync_band_song: on request, whatever the band edited.
AskSync(x, c) ==
    /\ adder[x].pc = "idle" /\ copy[c].at = "live"
    /\ SetAdder(x, [NoAdder EXCEPT !.pc = "sync", !.song = copy[c].from, !.row = c,
                                   !.has = edits[copy[c].from], !.asked = TRUE])
    /\ UNCHANGED <<bandLimit, edits, copy, binnedOnce, hasty>>

\* sync_band_copy: what was read of the original, marked as in step with it.
SyncCopy(x) ==
    LET c == adder[x].row IN
    /\ adder[x].pc = "sync"
    /\ IF copy[c].at = "live" /\ copy[c].from = adder[x].song
       THEN copy' = [copy EXCEPT ![c].has = adder[x].has, ![c].edited = FALSE,
                                 ![c].stamp = edits[adder[x].song]]
       ELSE UNCHANGED copy
    /\ SetAdder(x, NoAdder)
    /\ UNCHANGED <<bandLimit, edits, binnedOnce, hasty>>

-----------------------------------------------------------------------------
(* Edits and the trash. *)

EditOriginal(s) ==
    /\ s \in Changing /\ edits[s] < MaxEdits /\ edits' = [edits EXCEPT ![s] = @ + 1]
    /\ UNCHANGED <<bandLimit, copy, adder, binnedOnce, hasty>>

EditCopy(c) ==
    /\ copy[c].at = "live" /\ copy' = [copy EXCEPT ![c].edited = TRUE]
    /\ UNCHANGED <<bandLimit, edits, adder, binnedOnce, hasty>>

TrashCopy(c) ==
    /\ copy[c].at = "live" /\ copy' = [copy EXCEPT ![c].at = "trash"]
    /\ binnedOnce' = binnedOnce \cup {c} \cup {d \in CopyRows : copy[d].original = c}
    /\ UNCHANGED <<bandLimit, edits, adder, hasty>>

\* Not next to another copy of the song, and within the band's songs.
RestoreCopy(c) ==
    /\ copy[c].at = "trash" /\ Conflicting(copy[c].from) = {}
    /\ \A y \in Adders : adder[y].pc = "inserted" =>
          adder[y].song # copy[c].from
    /\ BandQuotaFree /\ BandRoom
    /\ copy' = [copy EXCEPT ![c].at = "live"]
    /\ UNCHANGED <<bandLimit, edits, adder, binnedOnce, hasty>>

\* The copies of its versions lose their original with it.
PurgeCopy(c) ==
    /\ copy[c].at = "trash"
    /\ copy' = [d \in CopyRows |->
                  IF d = c THEN NoCopy
                  ELSE IF copy[d].original = c THEN [copy[d] EXCEPT !.original = "none"]
                  ELSE copy[d]]
    /\ binnedOnce' = binnedOnce \ {c} /\ hasty' = hasty \ {c}
    /\ adder' = [x \in Adders |-> IF adder[x].row = c THEN NoAdder ELSE adder[x]]
    /\ UNCHANGED <<bandLimit, edits>>

\* The row that was not committed goes.
AbortAdder(x) ==
    /\ adder[x].pc # "idle" /\ SetAdder(x, NoAdder)
    /\ copy' = IF adder[x].pc = "inserted"
               THEN [copy EXCEPT ![adder[x].row] = NoCopy] ELSE copy
    /\ binnedOnce' = IF adder[x].pc = "inserted" THEN binnedOnce \ {adder[x].row}
                     ELSE binnedOnce
    /\ UNCHANGED <<bandLimit, edits, hasty>>

-----------------------------------------------------------------------------
CopiesInit ==
    /\ bandLimit \in BandSongLimits
    /\ edits = [s \in Originals |-> 0] /\ copy = [c \in CopyRows |-> NoCopy]
    /\ adder = [x \in Adders |-> NoAdder] /\ binnedOnce = {} /\ hasty = {}

CopiesNext ==
    \/ \E x \in Adders :
          \/ \E s \in Originals : AskAddSong(x, s)
          \/ \E c \in CopyRows : AskSync(x, c)
          \/ FindFork(x) \/ BeginFork(x) \/ InsertFork(x)
          \/ CommitFork(x) \/ RefreshCopy(x) \/ SyncCopy(x) \/ AbortAdder(x)
    \/ \E s \in Originals : EditOriginal(s)
    \/ \E c \in CopyRows : EditCopy(c) \/ TrashCopy(c) \/ RestoreCopy(c) \/ PurgeCopy(c)

CopiesSpec == CopiesInit /\ [][CopiesNext]_copyVars

-----------------------------------------------------------------------------
(* What the band's copies promise. *)

\* Every variable keeps its type.
CopiesTypeOK ==
    /\ bandLimit \in BandSongLimits
    /\ edits \in [Originals -> 0..MaxEdits] /\ copy \in [CopyRows -> CopyRecords]
    /\ adder \in [Adders -> AdderRecords] /\ binnedOnce \subseteq CopyRows
    /\ hasty \subseteq CopyRows

\* A band holds one live copy of a song, whoever adds and restores it at once
\* (idx_songs_band_fork_unique).
OneCopyPerSong == \A s \in Originals : Cardinality(CopiesOf(s)) <= 1

\* Copies of a song and of its version find each other in whichever order they
\* are made, unless one was in the trash, or the version was joined with a copy
\* that was (it stays with that one), or one was inserted where a copy that
\* went meanwhile was found, which takes no lock (create_band_copy).
VersionsJoined ==
    \A c, d \in LiveCopies \ (binnedOnce \cup hasty) :
       OriginalOf[copy[d].from] = copy[c].from => copy[d].original = c

\* The band's songs stay within their limit, but for those inserted like that.
CopiesWithinLimit == Cardinality(LiveCopies \ hasty) <= bandLimit

CopySafety == OneCopyPerSong /\ VersionsJoined /\ CopiesWithinLimit

\* What BandCopyStatus says: a copy without updates has all of the original.
InStepHasAll ==
    \A c \in LiveCopies : ~HasUpdates(c) /\ ~copy[c].edited =>
       copy[c].has = edits[copy[c].from]

\* What refresh_band_copy says: nothing of the band's is lost by adding a song.
NothingLost ==
    [][\A c \in CopyRows, x \in Adders :
          SyncCopy(x) /\ adder[x].row = c /\ copy'[c] # copy[c] /\ copy[c].edited
             => adder[x].asked]_copyVars

\* What create_band_copy says: the band's song limit holds.
BandSongsWithinLimit == Cardinality(LiveCopies) <= bandLimit
=============================================================================
