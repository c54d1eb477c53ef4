-------------------------------- MODULE Sharing --------------------------------
(***************************************************************************)
(* The public links of setlists and gigs, and the visitors who follow      *)
(* them.                                                                   *)
(*                                                                         *)
(* A link dies with its token.  Staff take a link down and lock it, the    *)
(* owner may lose the plan that includes sharing, and either may happen in *)
(* the middle of a request that shares, or between the reads of a visit.   *)
(* A gig's page also shows the setlist it plays, which has its own lock.   *)
(***************************************************************************)
EXTENDS Integers, FiniteSets

CONSTANTS
    Setlists, Gigs,     \* what is shared, all of it of one person or one band
    Sharers, Visits,    \* requests that share, and views, under way
    NoSetlist,
    MaxLinks,           \* bound: tokens ever generated
    MaxTakedowns        \* bound: times staff take something down

Shareable == Setlists \cup Gigs

VARIABLES
    link,       \* share_token of each row, 0 for none
    down,       \* rows with share_locked_at
    binned,     \* rows with deleted_at
    plays,      \* gigs.setlist_id
    ofBand,     \* the content is a band's
    pays,       \* whose plan includes sharing: the creator's, the band owner's
    sharer, visit,
    clearing,   \* revoke_shares_if_lost has found the plan without sharing
    links, takedowns

sharingVars == <<link, down, binned, plays, ofBand, pays, sharer, visit, clearing,
                 links, takedowns>>
rowVars == <<link, down, binned, plays>>
planVars == <<ofBand, pays>>
linkBounds == <<links, takedowns>>

Payers == {"creator", "owner"}
NoSharer == [pc |-> "idle", of |-> "none", token |-> 0]
SharerRecords ==
    [pc : {"idle", "allowed", "free", "written"}, of : Shareable \cup {"none"},
     token : 0..MaxLinks]
\* `unseen`: what could not be seen when the visit began, and cannot since.
NoVisit == [pc |-> "idle", of |-> "none", list |-> NoSetlist, shows |-> {},
            unseen |-> {}]
VisitRecords ==
    [pc : {"idle", "found", "owner", "visible", "gig", "done"},
     of : Shareable \cup {"none"}, list : Setlists \cup {NoSetlist},
     shows : SUBSET Shareable, unseen : SUBSET Shareable]

\* shared_content_visible: the creator's plan or, for a band, its owner's.
PlanShares == "creator" \in pays \/ (ofBand /\ "owner" \in pays)
\* What nobody may see.
Unseen == IF PlanShares THEN down \cup binned ELSE Shareable

\* What can be seen again is no longer held against the visits under way.
Seen(rows) ==
    visit' = [v \in Visits |-> [visit[v] EXCEPT !.unseen = @ \ rows]]

-----------------------------------------------------------------------------
(* Sharing. *)

\* enable_*_sharing: the permission, the verified address and the plan.
AskShare(x, i) ==
    /\ sharer[x].pc = "idle" /\ i \notin binned /\ "creator" \in pays
    /\ sharer' = [sharer EXCEPT ![x] = [pc |-> "allowed", of |-> i, token |-> 0]]
    /\ UNCHANGED <<rowVars, planVars, visit, clearing, linkBounds>>

\* enable_sharing reads the lock and makes a token.
ReadLock(x) ==
    LET i == sharer[x].of IN
    /\ sharer[x].pc = "allowed" /\ links < MaxLinks
    /\ IF i \in down \cup binned
       THEN sharer' = [sharer EXCEPT ![x] = NoSharer] /\ UNCHANGED links
       ELSE /\ sharer' = [sharer EXCEPT ![x].pc = "free", ![x].token = links + 1]
            /\ links' = links + 1
    /\ UNCHANGED <<rowVars, planVars, visit, clearing, takedowns>>

\* Mutant of Writable: the token is written without asking again.
WritableAnyway(i) == TRUE

\* UPDATE ... WHERE share_locked_at IS NULL.
Writable(i) == i \notin down

WriteToken(x) ==
    LET i == sharer[x].of IN
    /\ sharer[x].pc = "free"
    /\ link' = IF Writable(i) THEN [link EXCEPT ![i] = sharer[x].token] ELSE link
    /\ sharer' = [sharer EXCEPT ![x].pc = "written"]
    /\ UNCHANGED <<down, binned, plays, planVars, visit, clearing, linkBounds>>

\* The answer reads the row by its new token; 404 if it is gone by then.
AnswerShare(x) ==
    /\ sharer[x].pc = "written"
    /\ sharer' = [sharer EXCEPT ![x] = NoSharer]
    /\ UNCHANGED <<rowVars, planVars, visit, clearing, linkBounds>>

DisableSharing(i) ==
    /\ i \notin binned /\ link[i] # 0 /\ link' = [link EXCEPT ![i] = 0]
    /\ UNCHANGED <<down, binned, plays, planVars, sharer, visit, clearing, linkBounds>>

\* create_gig, update_gig: a setlist of the gig's scope that is not in the trash.
AttachSetlist(g, l) ==
    /\ g \notin binned /\ plays[g] # l /\ l \notin binned
    /\ plays' = [plays EXCEPT ![g] = l]
    /\ UNCHANGED <<link, down, binned, planVars, sharer, visit, clearing, linkBounds>>

\* To the trash, the token kept; and back.
Bin(i) ==
    /\ i \notin binned /\ binned' = binned \cup {i}
    /\ UNCHANGED <<link, down, plays, planVars, sharer, visit, clearing, linkBounds>>

Unbin(i) ==
    /\ i \in binned /\ binned' = binned \ {i} /\ Seen({i})
    /\ UNCHANGED <<link, down, plays, planVars, sharer, clearing, linkBounds>>

-----------------------------------------------------------------------------
(* Staff and plans. *)

\* lock_sharing: a setlist's takedown ends the links of its gigs as well.
TokensTaken(i) == {i} \cup {g \in Gigs : plays[g] = i}

TakeDown(i) ==
    /\ takedowns < MaxTakedowns /\ i \notin binned
    /\ down' = down \cup {i} /\ takedowns' = takedowns + 1
    /\ link' = [j \in Shareable |-> IF j \in TokensTaken(i) THEN 0 ELSE link[j]]
    /\ UNCHANGED <<binned, plays, planVars, sharer, visit, clearing, links>>

\* unlock_sharing: the link that was taken down does not come back.
UnlockSharing(i) ==
    /\ i \in down \ binned /\ down' = down \ {i} /\ Seen({i})
    /\ UNCHANGED <<link, binned, plays, planVars, sharer, clearing, linkBounds>>

LosePlan(u) ==
    /\ u \in pays /\ pays' = pays \ {u}
    /\ UNCHANGED <<rowVars, ofBand, sharer, visit, clearing, linkBounds>>

GainPlan(u) ==
    /\ u \notin pays /\ pays' = pays \cup {u}
    /\ IF u = "creator" \/ ofBand THEN Seen(Shareable) ELSE UNCHANGED visit
    /\ UNCHANGED <<rowVars, ofBand, sharer, clearing, linkBounds>>

\* revoke_shares_if_lost: the plan is read, then personal links are cleared.
FindPlanLost ==
    /\ ~clearing /\ "creator" \notin pays /\ clearing' = TRUE
    /\ UNCHANGED <<rowVars, planVars, sharer, visit, linkBounds>>

ClearLinks ==
    /\ clearing /\ clearing' = FALSE
    /\ link' = IF ofBand THEN link ELSE [i \in Shareable |-> 0]
    /\ UNCHANGED <<down, binned, plays, planVars, sharer, visit, linkBounds>>

-----------------------------------------------------------------------------
(* Visits. *)

\* Mutant of LinkLives: a link in the trash is followed.
LinkLivesBinned(i, t) == link[i] = t /\ i \notin down

\* find_by_share_token.
LinkLives(i, t) == link[i] = t /\ i \notin down \cup binned

\* A visitor has some link that was given out once.
Follow(v, i, t) ==
    /\ visit[v].pc = "idle" /\ t \in 1..links /\ LinkLives(i, t)
    /\ visit' = [visit EXCEPT ![v] = [NoVisit EXCEPT !.pc = "found", !.of = i,
                                        !.list = IF i \in Gigs THEN plays[i] ELSE i,
                                        !.unseen = Unseen]]
    /\ UNCHANGED <<rowVars, planVars, sharer, clearing, linkBounds>>

\* shared_content_visible reads the creator's plan, then the band owner's.
CheckPlan(v) ==
    /\ visit[v].pc \in {"found", "owner"}
    /\ LET u == IF visit[v].pc = "found" THEN "creator" ELSE "owner" IN
       visit' = [visit EXCEPT ![v] =
                   IF u \in pays THEN [@ EXCEPT !.pc = "visible"]
                   ELSE IF u = "creator" /\ ofBand THEN [@ EXCEPT !.pc = "owner"]
                   ELSE NoVisit]
    /\ UNCHANGED <<rowVars, planVars, sharer, clearing, linkBounds>>

\* Mutant of GigShows: the setlist's own lock is not looked at.
GigShowsLocked(l) == l \in Setlists \ binned

\* get_public_gig: the gig's setlist, unless in the trash or taken down.
GigShows(l) == l \in Setlists \ (binned \cup down)

ReadSetlist(v) ==
    LET r == visit[v] IN
    /\ r.pc = "visible"
    /\ visit' = [visit EXCEPT ![v].pc = "done", ![v].shows =
                   IF r.of \in Setlists THEN {r.of}
                   ELSE {r.of} \cup {l \in {r.list} : GigShows(l)}]
    /\ UNCHANGED <<rowVars, planVars, sharer, clearing, linkBounds>>

EndVisit(v) ==
    /\ visit[v].pc # "idle" /\ visit' = [visit EXCEPT ![v] = NoVisit]
    /\ UNCHANGED <<rowVars, planVars, sharer, clearing, linkBounds>>

-----------------------------------------------------------------------------
SharingInit ==
    /\ link = [i \in Shareable |-> 0] /\ down = {} /\ binned = {}
    /\ plays = [g \in Gigs |-> NoSetlist]
    /\ ofBand \in BOOLEAN /\ pays \in SUBSET Payers
    /\ sharer = [x \in Sharers |-> NoSharer] /\ visit = [v \in Visits |-> NoVisit]
    /\ clearing = FALSE /\ links = 0 /\ takedowns = 0

SharingNext ==
    \/ \E x \in Sharers :
          \/ \E i \in Shareable : AskShare(x, i)
          \/ ReadLock(x) \/ WriteToken(x) \/ AnswerShare(x)
    \/ \E i \in Shareable :
          \/ DisableSharing(i) \/ Bin(i) \/ Unbin(i) \/ TakeDown(i) \/ UnlockSharing(i)
          \/ \E v \in Visits, t \in 1..links : Follow(v, i, t)
    \/ \E g \in Gigs, l \in Setlists \cup {NoSetlist} : AttachSetlist(g, l)
    \/ \E u \in Payers : LosePlan(u) \/ GainPlan(u)
    \/ FindPlanLost \/ ClearLinks
    \/ \E v \in Visits : CheckPlan(v) \/ ReadSetlist(v) \/ EndVisit(v)

SharingSpec == SharingInit /\ [][SharingNext]_sharingVars

-----------------------------------------------------------------------------
(* What sharing promises. *)

\* Every variable keeps its type.
SharingTypeOK ==
    /\ link \in [Shareable -> 0..MaxLinks] /\ down \subseteq Shareable
    /\ binned \subseteq Shareable /\ plays \in [Gigs -> Setlists \cup {NoSetlist}]
    /\ ofBand \in BOOLEAN /\ pays \subseteq Payers
    /\ sharer \in [Sharers -> SharerRecords] /\ visit \in [Visits -> VisitRecords]
    /\ clearing \in BOOLEAN /\ links \in 0..MaxLinks /\ takedowns \in 0..MaxTakedowns

\* What staff took down has no link, whoever was sharing it at the time
\* (lock_sharing, enable_sharing).
NoLinkWhileDown == \A i \in down : link[i] = 0

\* A visit that begins while something is taken down, in the trash or not in
\* the plan does not show it, unless that ends meanwhile (get_public_setlist,
\* get_public_gig).
HiddenStaysHidden == \A v \in Visits : visit[v].shows \cap visit[v].unseen = {}

SharingSafety == NoLinkWhileDown /\ HiddenStaysHidden

\* What the background job's name promises: it revokes links of a plan that
\* lost sharing, and no others.
OnlyLostRevoked ==
    [][clearing /\ ~clearing' /\ link' # link => "creator" \notin pays]_sharingVars
=============================================================================
