------------------------------- MODULE Backups -------------------------------
(***************************************************************************)
(* The export of an account's personal library while its owner goes on     *)
(* editing it, and the import of the file into another account             *)
(* (backup_repository.rs, models/backup.rs).                               *)
(*                                                                         *)
(* The export is a handful of statements, the first ones at once on        *)
(* connections of their own, each seeing what is committed when it runs.   *)
(* The import is one transaction, which refuses a file with a reference to *)
(* what is not in it.                                                      *)
(***************************************************************************)
EXTENDS Integers, FiniteSets, FiniteSetsExt

CONSTANTS
    Tracks,     \* the songs there ever are
    Keys,       \* what an import tells songs apart by
    KeyOf(_),   \* a song's artist, title and version label, without their case
    Names,      \* the artists there ever are
    NameOf(_),  \* the artist of a song
    Shows,      \* the setlists there ever are
    NoShow,     \* no setlist
    Wanted,     \* what the importing account may have of its own
    KeyLimit,   \* its song limit
    MaxTouches  \* bound: edits while a file is made

VARIABLES
    lib,     \* the library that is exported
    export,  \* what has been read of it
    touched, \* what was edited since the export began
    touches, \* how many edits
    mine,    \* songs of the importing account
    import   \* what the import did

backupVars == <<lib, export, touched, touches, mine, import>>

\* Links outlive the trash, in which they are not shown.
Libraries ==
    [names : SUBSET Names, tracks : SUBSET Tracks, shows : SUBSET Shows,
     links : SUBSET (Shows \X Tracks), gig : Shows \cup {NoShow}]

Statements == {"artists", "songs", "setlists", "gigs"}
NoFile == [names |-> {}, tracks |-> {}, shows |-> {}, links |-> {}, gig |-> NoShow]
NotImported == [state |-> "no", links |-> {}, gig |-> NoShow]

BackupTypeOK ==
    /\ lib \in Libraries
    /\ export \in [pc : {"idle", "read", "songs", "done"}, left : SUBSET Statements,
                   file : Libraries]
    /\ touched \subseteq Names \cup Tracks \cup Shows
    /\ touches \in 0..MaxTouches
    /\ mine \subseteq Keys
    /\ import \in [state : {"no", "done", "refused"}, links : SUBSET (Shows \X Keys),
                   gig : Shows \cup {NoShow}]

\* A song in the library has its artist there.
BackupInit ==
    /\ lib \in {l \in Libraries :
                  /\ \A t \in l.tracks : NameOf(t) \in l.names
                  /\ l.gig # NoShow => l.gig \in l.shows}
    /\ export = [pc |-> "idle", left |-> {}, file |-> NoFile]
    /\ touched = {} /\ touches = 0
    /\ mine \in SUBSET Wanted
    /\ import = NotImported

-----------------------------------------------------------------------------
BeginExport ==
    /\ export.pc = "idle"
    /\ export' = [export EXCEPT !.pc = "read", !.left = Statements]
    /\ UNCHANGED <<lib, touched, touches, mine, import>>

\* One of the first statements.
Reads(file, what) ==
    CASE what = "artists" -> [file EXCEPT !.names = lib.names]
      [] what = "songs" -> [file EXCEPT !.tracks = lib.tracks]
      [] what = "setlists" -> [file EXCEPT !.shows = lib.shows]
      [] what = "gigs" ->
           [file EXCEPT !.gig = IF lib.gig \in lib.shows THEN lib.gig ELSE NoShow]

ReadSome(what) ==
    /\ export.pc = "read" /\ what \in export.left
    /\ export' = [export EXCEPT !.file = Reads(@, what), !.left = @ \ {what},
                                !.pc = IF export.left = {what} THEN "songs" ELSE "read"]
    /\ UNCHANGED <<lib, touched, touches, mine, import>>

LinksOfAll(l) == l.links

\* Only songs that are not in the trash.
LinksShown(l) == {e \in l.links : e[2] \in l.tracks}

\* Last, the songs of the setlists that were read.
ReadLinks ==
    /\ export.pc = "songs"
    /\ export' = [export EXCEPT !.pc = "done",
                    !.file.links = {e \in LinksShown(lib) : e[1] \in export.file.shows}]
    /\ UNCHANGED <<lib, touched, touches, mine, import>>

-----------------------------------------------------------------------------
\* The owner's edits; each is a transaction.
Edits(what, l) ==
    /\ export.pc \in {"read", "songs"} /\ touches < MaxTouches
    /\ lib' = l /\ lib # l
    /\ touched' = touched \cup what
    /\ touches' = touches + 1
    /\ UNCHANGED <<export, mine, import>>

SongsBy(n) == {t \in Tracks : NameOf(t) = n}

CreateName(n) == Edits({n}, [lib EXCEPT !.names = @ \cup {n}])
CreateTrack(t) ==
    NameOf(t) \in lib.names /\ Edits({t}, [lib EXCEPT !.tracks = @ \cup {t}])
TrashTrack(t) == Edits({t}, [lib EXCEPT !.tracks = @ \ {t}])
TrashName(n) ==
    Edits({n} \cup (SongsBy(n) \cap lib.tracks),
          [lib EXCEPT !.names = @ \ {n}, !.tracks = @ \ SongsBy(n)])
CreateShow(s) == Edits({s}, [lib EXCEPT !.shows = @ \cup {s}])
TrashShow(s) == Edits({s}, [lib EXCEPT !.shows = @ \ {s}])
Enlist(s, t) ==
    /\ s \in lib.shows /\ t \in lib.tracks
    /\ Edits({s}, [lib EXCEPT !.links = @ \cup {<<s, t>>}])
Delist(s, t) ==
    s \in lib.shows /\ Edits({s}, [lib EXCEPT !.links = @ \ {<<s, t>>}])

-----------------------------------------------------------------------------
\* The import: songs the account has are used again, setlists are new.

Resolves(file) ==
    /\ \A t \in file.tracks : NameOf(t) \in file.names
    /\ \A e \in file.links : e[2] \in file.tracks

KeyOfTitle(t) == CHOOSE k \in Keys : TRUE
MergeKey(t) == KeyOf(t)

Merged(file) == {MergeKey(t) : t \in file.tracks}

\* The limit is checked for every song as a new one first.
Fits(file) == Cardinality(mine) + Cardinality(file.tracks) <= KeyLimit

Import ==
    LET file == export.file
        accepted == Fits(file) /\ Resolves(file) IN
    /\ export.pc = "done" /\ import.state = "no"
    /\ IF accepted
       THEN /\ mine' = mine \cup Merged(file)
            /\ import' = [state |-> "done",
                          links |-> {<<e[1], MergeKey(e[2])>> : e \in file.links},
                          gig |-> IF file.gig \in file.shows THEN file.gig ELSE NoShow]
       ELSE /\ import' = [NotImported EXCEPT !.state = "refused"]
            /\ UNCHANGED mine
    /\ UNCHANGED <<lib, export, touched, touches>>

BackupNext ==
    \/ BeginExport \/ ReadLinks \/ Import
    \/ \E what \in Statements : ReadSome(what)
    \/ \E n \in Names : CreateName(n) \/ TrashName(n)
    \/ \E t \in Tracks : CreateTrack(t) \/ TrashTrack(t)
    \/ \E s \in Shows : CreateShow(s) \/ TrashShow(s)
    \/ \E s \in Shows, t \in Tracks : Enlist(s, t) \/ Delist(s, t)

-----------------------------------------------------------------------------
\* A file nobody edited under is imported if it fits; and of every file that
\* is, each setlist nobody edited comes back with the songs that are shown in
\* it and no others, as far as an import tells songs apart, and the gig with
\* its setlist (export, import).
UntouchedComesBack ==
    /\ touched = {} /\ import.state = "refused" => ~Fits(export.file)
    /\ import.state = "done" =>
         \A s \in Shows \ touched :
            LET shown == {e \in LinksShown(lib) : e[1] = s /\ s \in lib.shows} IN
            /\ {i \in import.links : i[1] = s} = {<<s, KeyOf(e[2])>> : e \in shown}
            /\ \A e \in shown : KeyOf(e[2]) \in mine
            /\ lib.gig = s /\ s \in lib.shows => import.gig = s

\* Refuted: songs, artists and the songs of setlists are read one after the
\* other, so a file may name what it does not hold, and is never imported.
SelfContained == export.pc = "done" => Resolves(export.file)
=============================================================================
