------------------------------ MODULE RunningOrder ------------------------------
(***************************************************************************)
(* The running order of a band's setlist and of the band's repertoire:     *)
(* songs and markers share one sequence of positions.                      *)
(*                                                                         *)
(* What is added goes to the end, under the lock of the setlist's row; a   *)
(* song goes to the end of the repertoire as well, in the same             *)
(* transaction.  Reordering writes the positions of the items it lists and *)
(* takes no such lock.  A song in the trash keeps its place.               *)
(***************************************************************************)
EXTENDS Integers, FiniteSets, Sequences

CONSTANTS
    Numbers, Marks,     \* songs of the band; blocks and breaks
    Hands,              \* requests under way
    ItemLimit,          \* QuotaLimits.setlist_items
    MarkLimit,          \* MAX_REPERTOIRE_MARKERS
    MaxPlace            \* bound: positions

VARIABLES
    place,      \* position of each item in each list, 0 if it is not there
    away,       \* songs in the trash
    hand,
    ordered,    \* ghost: items a reorder placed
    returned    \* ghost: songs of the setlist that came back from the trash

orderVars == <<place, away, hand, ordered, returned>>

Items == Numbers \cup Marks
TheLists == {"show", "repertoire"}
Spots == TheLists \X Items

NoHand == [pc |-> "idle", item |-> "none", list |-> "show", at |-> 0]
HandRecords ==
    [pc : {"idle", "locked", "appended"}, item : Items \cup {"none"},
     list : TheLists, at : 0..MaxPlace]

OnList(l) == {i \in Items : place[l][i] > 0}
\* count_sql(SetlistItems): live songs, and markers.
ItemsCounted == OnList("show") \ away

\* next_position: the trash counts, what is not committed does not.
NextPlace(l) ==
    1 + CHOOSE n \in 0..MaxPlace :
          /\ \A i \in Items : place[l][i] <= n
          /\ n = 0 \/ \E i \in Items : place[l][i] = n

\* Mutant of ListFree: the setlist's row is read without locking it.
ListFreeAlways(x, l) == TRUE

\* FOR UPDATE on the setlist's row.
ListFree(x, l) ==
    \A y \in Hands \ {x} : hand[y].pc \in {"locked", "appended"} => hand[y].list # l

SetHand(x, r) == hand' = [hand EXCEPT ![x] = r]

-----------------------------------------------------------------------------
(* Adding. *)

\* Mutant of Room: one more than the limit.
RoomForOne == Cardinality(ItemsCounted) <= ItemLimit

\* The repertoire's songs are bounded by the band's songs instead.
Room == Cardinality(ItemsCounted) < ItemLimit

\* add_song and create_marker: the setlist first, then the quota.  The song is
\* the band's and not in the setlist; it may be gone by the time it is added.
LockList(x, l, i) ==
    /\ hand[x].pc = "idle" /\ ListFree(x, l)
    /\ IF i \in Numbers THEN i \notin OnList(l) \cup away
       ELSE /\ \A m \in TheLists : i \notin OnList(m)
            /\ \A y \in Hands : hand[y].item # i
    /\ IF l = "show" THEN Room
       ELSE i \in Marks => Cardinality(OnList(l) \cap Marks) < MarkLimit
    /\ SetHand(x, [pc |-> "locked", item |-> i, list |-> l, at |-> 0])
    /\ UNCHANGED <<place, away, ordered, returned>>

\* The position at the end of its list.
AppendItem(x) ==
    LET h == hand[x] IN
    /\ h.pc = "locked" /\ NextPlace(h.list) <= MaxPlace
    /\ SetHand(x, [h EXCEPT !.at = NextPlace(h.list), !.pc = "appended"])
    /\ UNCHANGED <<place, away, ordered, returned>>

\* append_song: nothing if it is there already (ON CONFLICT DO NOTHING).
With(l, i, n) == IF place[l][i] > 0 THEN place[l] ELSE [place[l] EXCEPT ![i] = n]

\* A song also goes to the end of the repertoire, under its lock.
CommitAppend(x) ==
    LET h == hand[x]
        both == h.item \in Numbers /\ h.list = "show" IN
    /\ h.pc = "appended"
    /\ both => ListFree(x, "repertoire") /\ NextPlace("repertoire") <= MaxPlace
    /\ place' = [l \in TheLists |->
                   IF l = h.list THEN With(l, h.item, h.at)
                   ELSE IF both THEN With(l, h.item, NextPlace(l)) ELSE place[l]]
    /\ SetHand(x, NoHand)
    /\ UNCHANGED <<away, ordered, returned>>

AbortAppend(x) ==
    /\ hand[x].pc # "idle" /\ SetHand(x, NoHand)
    /\ UNCHANGED <<place, away, ordered, returned>>

-----------------------------------------------------------------------------
(* Reordering and removing. *)

\* ensure_distinct; reorder_items, reorder_songs (songs only).
Orders == {order \in Items \X Items : order[1] # order[2]} \cup {<<i>> : i \in Items}

Reorder(l, order) ==
    LET listed == {order[n] : n \in DOMAIN order} \cap OnList(l)
        at == [i \in listed |-> CHOOSE n \in DOMAIN order : order[n] = i] IN
    /\ listed # {}
    /\ place' = [place EXCEPT ![l] = [i \in Items |->
                                        IF i \in listed THEN at[i] ELSE place[l][i]]]
    /\ ordered' = ordered \cup {<<l, i>> : i \in listed}
    /\ UNCHANGED <<away, hand, returned>>

\* remove_song and delete_marker; from the repertoire a song goes to the trash.
RemoveItem(l, i) ==
    /\ i \in OnList(l) \cap (IF l = "show" THEN Items ELSE Marks)
    /\ place' = [place EXCEPT ![l][i] = 0] /\ ordered' = ordered \ {<<l, i>>}
    /\ returned' = IF l = "show" THEN returned \ {i} ELSE returned
    /\ UNCHANGED <<away, hand>>

TrashNumber(i) ==
    /\ i \in OnList("repertoire") \cap Numbers /\ i \notin away
    /\ away' = away \cup {i}
    /\ UNCHANGED <<place, hand, ordered, returned>>

RestoreNumber(i) ==
    /\ i \in away /\ away' = away \ {i}
    /\ returned' = IF i \in OnList("show") THEN returned \cup {i} ELSE returned
    /\ UNCHANGED <<place, hand, ordered>>

\* The links go with the song; an insert of one waits for it and fails.
PurgeNumber(i) ==
    /\ i \in away /\ \A x \in Hands : hand[x].pc = "appended" => hand[x].item # i
    /\ place' = [l \in TheLists |-> [place[l] EXCEPT ![i] = 0]]
    /\ away' = away \ {i} /\ ordered' = ordered \ {<<l, i>> : l \in TheLists}
    /\ returned' = returned \ {i}
    /\ hand' = [x \in Hands |-> IF hand[x].item = i THEN NoHand ELSE hand[x]]

-----------------------------------------------------------------------------
OrderInit ==
    /\ place = [l \in TheLists |-> [i \in Items |-> 0]] /\ away = {}
    /\ hand = [x \in Hands |-> NoHand]
    /\ ordered = {} /\ returned = {}

OrderNext ==
    \/ \E x \in Hands :
          \/ \E l \in TheLists, i \in Items : LockList(x, l, i)
          \/ AppendItem(x) \/ CommitAppend(x) \/ AbortAppend(x)
    \/ \E l \in TheLists : \/ \E order \in Orders : Reorder(l, order)
                           \/ \E i \in Items : RemoveItem(l, i)
    \/ \E i \in Numbers : TrashNumber(i) \/ RestoreNumber(i) \/ PurgeNumber(i)

OrderSpec == OrderInit /\ [][OrderNext]_orderVars

-----------------------------------------------------------------------------
(* What the running order promises. *)

\* Every variable keeps its type.
OrderTypeOK ==
    /\ place \in [TheLists -> [Items -> 0..MaxPlace]] /\ away \subseteq Numbers
    /\ hand \in [Hands -> HandRecords]
    /\ ordered \subseteq Spots /\ returned \subseteq Numbers

\* Items nobody reordered never share a position, however they were added
\* (add_song: "two songs added at once can't land on the same position").
AppendedApart ==
    \A l \in TheLists : \A i, j \in OnList(l) :
       i # j /\ place[l][i] = place[l][j] => <<l, i>> \in ordered \/ <<l, j>> \in ordered

\* A setlist holds no more than its limit, but for songs back from the trash.
ItemsWithinLimit == Cardinality(ItemsCounted \ returned) <= ItemLimit

\* Every song a band plays belongs to its repertoire.
InRepertoire == OnList("show") \cap Numbers \subseteq OnList("repertoire")

OrderSafety == AppendedApart /\ ItemsWithinLimit /\ InRepertoire

=============================================================================
