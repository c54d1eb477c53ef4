---------------------------- MODULE MirrorPromise ----------------------------
(***************************************************************************)
(* What the local record of a paid subscription promises, whatever becomes *)
(* of the events about it: it shows one subscription in some state the     *)
(* provider really had, it never goes back to an older state of the        *)
(* subscription it shows, and an event is marked as handled only when the  *)
(* state shown is at least as new as the event.                            *)
(***************************************************************************)
EXTENDS Integers

CONSTANTS Subs, NoSub

VARIABLES
    latest,  \* how often each subscription has changed at the provider
    shown,   \* the subscription shown, and which of its states
    handled  \* <<s, v>>: the event of the v-th change of s was handled

vars == <<latest, shown, handled>>

Init ==
    /\ latest = [s \in Subs |-> 0]
    /\ shown = [sub |-> NoSub, ver |-> 0]
    /\ handled = {}

Change(s) ==
    /\ latest' = [latest EXCEPT ![s] = @ + 1]
    /\ UNCHANGED <<shown, handled>>

Showing(s) == shown.sub = s /\ s # NoSub

\* Some state is shown, or none, and some events are marked as handled.
Follow ==
    /\ shown'.sub \in Subs => shown'.ver <= latest[shown'.sub]
    /\ Showing(shown'.sub) => shown'.ver >= shown.ver
    /\ handled \subseteq handled'
    /\ \A e \in handled' \ handled : e[2] <= latest[e[1]]
    /\ \A e \in handled' : e[1] = shown'.sub => e[2] <= shown'.ver
    /\ UNCHANGED latest

Next == (\E s \in Subs : Change(s)) \/ Follow

Spec == Init /\ [][Next]_vars
=============================================================================
