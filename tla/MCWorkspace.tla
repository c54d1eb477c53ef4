----------------------------- MODULE MCWorkspace -----------------------------
(* A small instance of every part of the workspace, for TLC. *)
EXTENDS Workspace, TLC

CONSTANTS host, guest, band, g1, d1, t1, l2, none

\* The suggested songs are the band's; the host's setlist gets a guest's song.
TunesOfBand == [t \in Tunes |-> BandOwned]
ListsOfHost == [l \in Lists |-> host]
PiecesOfGuest == [s \in Pieces |-> guest]

\* Two songs of an artist, told apart by their titles; the second is a version
\* of the first.
OneArtist == [s \in Songs |-> CHOOSE a \in Artists : TRUE]
OwnTitle == [s \in Songs |-> s]
VersionOfFirst == [s \in Originals |-> IF s = g1 THEN none ELSE g1]

\* A gig, a tour and a setlist of the band, and a setlist of the host.
KindOfThings ==
    [i \in Things |-> IF i = d1 THEN "gig" ELSE IF i = t1 THEN "tour" ELSE "setlist"]
HomeOfThings == [i \in Things |-> IF i = l2 THEN host ELSE band]

\* Of two setlists and two songs, one setlist is the host's, one song a guest's.
KindOfGoods == [i \in Goods |-> IF i \in Songs THEN "song" ELSE "setlist"]
HomeOfGoods == [i \in Goods |-> IF i = l2 THEN host ELSE IF i = g1 THEN guest ELSE band]

Itself(n) == n
TheArtist(n) == CHOOSE a \in Names : TRUE

\* Requests are alike; so are two of the people, and what comes in pairs.
Symmetry ==
    Permutations(Requests) \cup Permutations(Fans) \cup Permutations(Offers)
=============================================================================
