-------------------------------- MODULE Agenda --------------------------------
(***************************************************************************)
(* Gigs, the setlist each plays and the tour each is part of.              *)
(*                                                                         *)
(* A request checks that the setlist and the tour it names belong where    *)
(* the gig does, and writes them with a later statement.  Whoever opens a  *)
(* tour is shown its gigs, and with each its setlist, without being asked  *)
(* again: that they may see them rests on those checks.                    *)
(***************************************************************************)
EXTENDS Access

CONSTANTS
    Planners,       \* requests under way
    NoThing, Keep   \* no setlist or tour; what a request leaves alone

VARIABLES
    plays,      \* `gigs.setlist_id`
    partOf,     \* `gigs.tour_id`
    plan        \* the requests

agendaVars == <<row, member, allowed, guests, plays, partOf, plan>>
linkVars == <<plays, partOf>>

GigRows == OfKind("gig")
NoPlan == [pc |-> "idle", gig |-> NoThing, list |-> Keep, tour |-> Keep]
PlanRecords ==
    [pc : {"idle", "create", "update"}, gig : Things \cup {NoThing},
     list : Things \cup {NoThing, Keep}, tour : Things \cup {NoThing, Keep}]

\* Mutant of SetlistFits: any setlist the caller can open.
SetlistOpens(g, l, u) == l \in Things => FindSetlist(l, u)

\* validate_setlist_scope: one the caller can open, of the gig's band, or of
\* the person whose gig it is.
SetlistFits(g, l, u) == l \in Things => FindSetlist(l, u) /\ HomeOf[l] = HomeOf[g]

\* validate_tour_scope.
TourFits(g, t) == t \in Things => KindOf[t] = "tour" /\ Live(t) /\ HomeOf[t] = HomeOf[g]

SetPlan(x, r) == plan' = [plan EXCEPT ![x] = r]

\* create_gig, up to its insert: each row is created by one request.
AskCreateGig(x, u, g, l, t) ==
    /\ plan[x].pc = "idle" /\ KindOf[g] = "gig" /\ MayCreate(g, u)
    /\ \A y \in Planners : plan[y].gig # g
    /\ SetlistFits(g, l, u) /\ TourFits(g, t)
    /\ SetPlan(x, [pc |-> "create", gig |-> g, list |-> l, tour |-> t])
    /\ UNCHANGED <<accessVars, linkVars>>

\* update_gig, up to its update: another setlist, or another tour.
AskUpdateGig(x, u, g, l, t) ==
    /\ plan[x].pc = "idle" /\ ManagesGig(g, u) /\ (l = Keep) # (t = Keep)
    /\ SetlistFits(g, l, u) /\ TourFits(g, t)
    /\ SetPlan(x, [pc |-> "update", gig |-> g, list |-> l, tour |-> t])
    /\ UNCHANGED <<accessVars, linkVars>>

\* A row that is named must still be there (in the trash it is).
Named(i) == i \in Things => row[i] \in {"live", "trash"}

\* GigRepository::create.
InsertGig(x) ==
    LET c == plan[x] IN
    /\ c.pc = "create" /\ Named(c.list) /\ Named(c.tour)
    /\ row' = [row EXCEPT ![c.gig] = "live"]
    /\ plays' = [plays EXCEPT ![c.gig] = c.list]
    /\ partOf' = [partOf EXCEPT ![c.gig] = c.tour]
    /\ SetPlan(x, NoPlan)
    /\ UNCHANGED <<member, allowed, guests>>

\* GigRepository::update: in the trash as well; of no row if it is gone.
UpdateGig(x) ==
    LET c == plan[x] IN
    /\ c.pc = "update" /\ Named(c.list) /\ Named(c.tour)
    /\ plays' = IF c.list # Keep /\ row[c.gig] # "gone"
                THEN [plays EXCEPT ![c.gig] = c.list] ELSE plays
    /\ partOf' = IF c.tour # Keep /\ row[c.gig] # "gone"
                 THEN [partOf EXCEPT ![c.gig] = c.tour] ELSE partOf
    /\ SetPlan(x, NoPlan) /\ UNCHANGED accessVars

\* A row that is gone is named no more (ON DELETE SET NULL).
Forget(i, f) == [g \in GigRows |-> IF i \in {g, f[g]} THEN NoThing ELSE f[g]]

PurgeAgenda(i) ==
    /\ PurgeThing(i)
    /\ plays' = Forget(i, plays) /\ partOf' = Forget(i, partOf)
    /\ UNCHANGED plan

AbortPlan(x) ==
    /\ plan[x].pc # "idle" /\ SetPlan(x, NoPlan)
    /\ UNCHANGED <<accessVars, linkVars>>

AgendaInit ==
    /\ AccessInit
    /\ plays = [g \in GigRows |-> NoThing] /\ partOf = plays
    /\ plan = [x \in Planners |-> NoPlan]

AgendaNext ==
    \/ AccessMoves /\ UNCHANGED <<plays, partOf, plan>>
    \/ \E x \in Planners :
          \/ \E u \in Callers, g \in GigRows :
                \/ \E l \in OfKind("setlist") \cup {NoThing},
                      t \in OfKind("tour") \cup {NoThing} : AskCreateGig(x, u, g, l, t)
                \/ \E l \in OfKind("setlist") \cup {NoThing, Keep},
                      t \in OfKind("tour") \cup {NoThing, Keep} : AskUpdateGig(x, u, g, l, t)
          \/ InsertGig(x) \/ UpdateGig(x) \/ AbortPlan(x)
    \/ \E i \in Things : PurgeAgenda(i)

AgendaSpec == AgendaInit /\ [][AgendaNext]_agendaVars

-----------------------------------------------------------------------------
(* What a tour shows. *)

\* TourRepository::gigs: the tour's live gigs, whoever asks.
TourGigs(t) == {g \in GigRows : Live(g) /\ partOf[g] = t}

\* With each, its setlist if that is live.
TourSetlists(t) == {plays[g] : g \in {d \in TourGigs(t) : plays[d] \in Things /\ Live(plays[d])}}

\* find_tour_by_id.
TourShows(t) == TourGigs(t) \cup TourSetlists(t)

\* export_gig: the gig, and its setlist to who may take that out.
GigFile(g, u) == {g} \cup {l \in {plays[g]} \cap Things : SetlistFile(l, u)}

\* export_tour: all its gigs, with each what export_gig would.
TourFile(t, u) ==
    {t} \cup UNION {GigFile(g, u) : g \in {d \in TourGigs(t) : FindGig(d, u)}}

-----------------------------------------------------------------------------
\* Every variable keeps its type.
AgendaTypeOK ==
    /\ AccessTypeOK
    /\ plays \in [GigRows -> Things \cup {NoThing}]
    /\ partOf \in [GigRows -> Things \cup {NoThing}]
    /\ plan \in [Planners -> PlanRecords]

\* A gig's setlist and tour belong where the gig does, whatever changed between
\* the check and the write (validate_setlist_scope: "so the invariant can never
\* drift").
LinksInScope ==
    \A g \in GigRows : \A i \in {plays[g], partOf[g]} \cap Things : HomeOf[i] = HomeOf[g]

\* Nobody is shown by a tour what they could not open themselves
\* (find_tour_by_id, which asks only for the tour).
ToursShowOpen ==
    \A u \in Callers, t \in OfKind("tour") :
       FindTour(t, u) => \A i \in TourShows(t) : Opens(i, u)

\* The file of a gig or a tour has what its reader could open one by one, no
\* setlist of a band that forbids it, and of a tour every gig ("all of its
\* gigs and their setlists"); who takes a setlist out as a file also does as a
\* PDF (exportable_setlist, export_setlist_pdf).
FilesComplete ==
    \A u \in Callers :
       /\ \A l \in Things : SetlistFile(l, u) <=> SetlistPdf(l, u)
       /\ \A g \in GigRows : FindGig(g, u) => \A i \in GigFile(g, u) : Opens(i, u)
       /\ \A t \in OfKind("tour") : FindTour(t, u) =>
             /\ TourGigs(t) \subseteq TourFile(t, u)
             /\ \A i \in TourFile(t, u) : Opens(i, u)
             /\ (HomeOf[t] \in Bands => MayDo(HomeOf[t], u, "export_pdf"))
                   => TourSetlists(t) \subseteq TourFile(t, u)

AgendaSafety == FilesComplete /\ LinksInScope /\ ToursShowOpen /\ QueriesAgree /\ LinksForManagers
=============================================================================
