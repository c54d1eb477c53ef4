--------------------------------- MODULE Pins ---------------------------------
(***************************************************************************)
(* What an account pins to its home screen.                                *)
(*                                                                         *)
(* Accounts have nothing in common here, so this is one of them, with its  *)
(* requests.  Pinning and reordering take the account's lock, unpinning    *)
(* does not.  A pin outlives what it points to: one that resolves no more  *)
(* is left out of the list, and deleted when something else is pinned.     *)
(***************************************************************************)
EXTENDS Integers, FiniteSets, Sequences

CONSTANTS
    Targets,        \* songs, setlists, bands, tours and gigs
    Taps,           \* requests under way
    NoTarget,
    PinLimit,       \* MAX_PINS
    MaxSpot         \* bound: positions; room for PinLimit pins (WorkspaceBounds)

VARIABLES
    seen,       \* what resolves: it is live, and the account has access (Access)
    pin,        \* `user_pins.position`, 0 without a pin
    tap         \* the requests

pinVars == <<seen, pin, tap>>

Spots == [Targets -> 0..MaxSpot]
NoSpots == [i \in Targets |-> 0]
NoTap == [pc |-> "idle", item |-> NoTarget, live |-> {}, at |-> NoSpots]
TapRecords ==
    [pc : {"idle", "pin", "insert", "order"}, item : Targets \cup {NoTarget},
     live : SUBSET Targets, at : Spots]

Pinned == {i \in Targets : pin[i] > 0}

\* list: the pins that resolve.
ShownPins == Pinned \cap seen

\* pg_advisory_xact_lock: one pin change of the account at a time.
PinsFree == \A y \in Taps : tap[y].pc \in {"idle", "pin"}

SetTap(x, r) == tap' = [tap EXCEPT ![x] = r]

\* pin_item: of something the account can see.
AskPin(x, i) ==
    /\ tap[x].pc = "idle" /\ i \in seen
    /\ SetTap(x, [NoTap EXCEPT !.pc = "pin", !.item = i])
    /\ UNCHANGED <<seen, pin>>

\* pin, up to its deletion: AlreadyPinned, or the pins that resolve.
ReadPins(x) ==
    /\ tap[x].pc = "pin" /\ PinsFree
    /\ IF tap[x].item \in Pinned THEN SetTap(x, NoTap)
       ELSE SetTap(x, [tap[x] EXCEPT !.pc = "insert", !.live = ShownPins])
    /\ UNCHANGED <<seen, pin>>

\* Mutant of IsFull: one more.
IsFullLater(live) == Cardinality(live) > PinLimit

\* Full, which is rolled back with the deletion.
IsFull(live) == Cardinality(live) >= PinLimit

\* The others are deleted, and it goes to the end.
EndOf(pins) ==
    1 + CHOOSE n \in 0..MaxSpot :
          /\ \A i \in pins : pin[i] <= n
          /\ n = 0 \/ \E i \in pins : pin[i] = n

InsertPin(x) ==
    LET c == tap[x]
        kept == Pinned \cap c.live IN
    /\ c.pc = "insert"
    /\ IF IsFull(c.live) THEN UNCHANGED pin
       ELSE /\ EndOf(kept) <= MaxSpot
            /\ pin' = [i \in Targets |-> IF i = c.item THEN EndOf(kept)
                                         ELSE IF i \in kept THEN pin[i] ELSE 0]
    /\ SetTap(x, NoTap) /\ UNCHANGED seen

\* unpin, under no lock.
Unpin(i) ==
    /\ i \in Pinned /\ pin' = [pin EXCEPT ![i] = 0]
    /\ UNCHANGED <<seen, tap>>

\* What a request lists: the place of each in it, 0 for the others.
Listings ==
    {a \in [Targets -> 0..2] : \A i, j \in Targets : i # j /\ a[i] = a[j] => a[i] = 0}

\* What is listed comes first, in that order; the rest stays as it was.
Before(i, j, a) ==
    \/ a[i] > 0 /\ (a[j] = 0 \/ a[i] < a[j])
    \/ a[i] = 0 /\ a[j] = 0 /\ pin[i] < pin[j]

\* Mutant of NewOrders: the rest starts from 1 again.
NewOrdersOfParts(a) ==
    {f \in Spots : \A i \in Targets : f[i] =
        IF i \notin Pinned THEN 0
        ELSE 1 + Cardinality({j \in Pinned : Before(j, i, a) /\ (a[j] = 0 <=> a[i] = 0)})}

\* Positions 1 to the number of pins, in the new order.
NewOrders(a) ==
    {f \in Spots :
        /\ \A i \in Targets : IF i \in Pinned THEN f[i] \in 1..Cardinality(Pinned)
                              ELSE f[i] = 0
        /\ \A i, j \in Pinned : Before(i, j, a) => f[i] < f[j]}

\* reorder, up to its update: the pins there are, in their new order.
ReadOrder(x, a) ==
    /\ tap[x].pc = "idle" /\ PinsFree
    /\ \E f \in NewOrders(a) : SetTap(x, [NoTap EXCEPT !.pc = "order", !.at = f])
    /\ UNCHANGED <<seen, pin>>

\* Its update: of those that are still pinned.
WriteOrder(x) ==
    /\ tap[x].pc = "order"
    /\ pin' = [i \in Targets |-> IF i \in Pinned THEN tap[x].at[i] ELSE 0]
    /\ SetTap(x, NoTap) /\ UNCHANGED seen

AbortTap(x) ==
    /\ tap[x].pc # "idle" /\ SetTap(x, NoTap) /\ UNCHANGED <<seen, pin>>

\* Something goes to the trash or comes back, a band is left or joined.
SightChanges(i) ==
    /\ seen' = IF i \in seen THEN seen \ {i} ELSE seen \cup {i}
    /\ UNCHANGED <<pin, tap>>

PinsInit ==
    /\ seen = Targets /\ pin = NoSpots
    /\ tap = [x \in Taps |-> NoTap]

PinsNext ==
    \/ \E x \in Taps :
          \/ \E i \in Targets : AskPin(x, i)
          \/ \E a \in Listings : ReadOrder(x, a)
          \/ ReadPins(x) \/ InsertPin(x) \/ WriteOrder(x) \/ AbortTap(x)
    \/ \E i \in Targets : Unpin(i) \/ SightChanges(i)

PinsSpec == PinsInit /\ [][PinsNext]_pinVars

-----------------------------------------------------------------------------
\* Every variable keeps its type.
PinsTypeOK ==
    /\ seen \subseteq Targets /\ pin \in Spots
    /\ tap \in [Taps -> TapRecords]

\* However requests meet, and whatever is lost and found again: an account has
\* no more pins than the limit, counting those that do not show (pin: "so the
\* cap holds"), and no two of them in one place.
PinsSafety ==
    /\ Cardinality(Pinned) <= PinLimit
    /\ \A i, j \in Pinned : i # j => pin[i] # pin[j]
=============================================================================
