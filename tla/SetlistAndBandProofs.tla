------------------------- MODULE SetlistAndBandProofs -------------------------
(***************************************************************************)
(* Proofs about setlists and bands, the parts of Workspace that a request  *)
(* changes while another one reads them: the share link, the running       *)
(* order, collaborators, copies made for a band, bands themselves, what    *)
(* requests about them answer; and what an account pins.                   *)
(* One section for each part, whose variables are p1, p2 and so on.        *)
(***************************************************************************)
EXTENDS Workspace, FiniteSetTheorems, WellFoundedInduction, TLAPS

-----------------------------------------------------------------------------
(* Public links: p1 is each row's token, p2 what staff took down, p3 the    *)
(* trash, p4 the setlist of each gig, p5 whether a band owns them, p6 who   *)
(* pays for sharing, p7 who shares, p8 who visits, p9 the clearing job, p10 *)
(* and p11 how many tokens and takedowns there were.                        *)

\* What a visit holds against itself is still hidden, unless nobody's plan
\* shows anything and it has not got past that.
VisitFits(v) ==
    /\ p8[v].pc = "owner" => p5 = TRUE
    /\ p8[v].pc # "done" => p8[v].shows = {}
    /\ p8[v].pc # "idle" => p8[v].of \in S!Shareable
    /\ p8[v].pc # "idle" =>
         \/ p8[v].unseen \subseteq p2 \cup p3 /\ p8[v].of \notin p8[v].unseen
         \/ p8[v].pc \in {"found", "owner"} /\ ~S!PlanShares
    /\ p8[v].shows \cap p8[v].unseen = {}

\* What was taken down has no link, and visits are fit.
LinkInv ==
    /\ S!SharingTypeOK /\ S!NoLinkWhileDown
    /\ \A v \in Visits : VisitFits(v)

\* The types, one by one.
LEMMA LinkTyped ==
    ASSUME LinkInv
    PROVE  /\ p1 \in [S!Shareable -> 0 .. MaxLinks] /\ p2 \subseteq S!Shareable
           /\ p3 \subseteq S!Shareable /\ p4 \in [Gigs -> Setlists \cup {NoSetlist}]
           /\ p5 \in BOOLEAN /\ p6 \subseteq S!Payers
           /\ p7 \in [Sharers -> S!SharerRecords] /\ p8 \in [Visits -> S!VisitRecords]
           /\ p9 \in BOOLEAN /\ p10 \in 0 .. MaxLinks /\ p11 \in 0 .. MaxTakedowns
           /\ \A x \in Sharers : p7[x] \in S!SharerRecords
           /\ \A v \in Visits : p8[v] \in S!VisitRecords
BY DEF LinkInv, S!SharingTypeOK

\* Records of nobody.
LEMMA NobodyShares ==
    /\ S!NoSharer \in S!SharerRecords
    /\ S!NoVisit \in S!VisitRecords /\ S!NoVisit.pc = "idle" /\ S!NoVisit.shows = {}
    /\ S!NoVisit.unseen = {}
BY WorkspaceBounds DEF S!NoSharer, S!SharerRecords, S!NoVisit, S!VisitRecords

\* Visits under way stay fit when rows are hidden,
LEMMA VisitsStay ==
    ASSUME LinkInv, p8' = p8, p5' = p5, p2 \cup p3 \subseteq p2' \cup p3',
           S!PlanShares' => S!PlanShares
    PROVE  p8' \in [Visits -> S!VisitRecords] /\ \A v \in Visits : VisitFits(v)'
<1>1. ASSUME NEW v \in Visits
      PROVE  VisitFits(v)'
  BY DEF LinkInv, VisitFits
<1>. QED  BY <1>1, LinkTyped

\* and when what can be seen again is no longer held against them.
LEMMA VisitsSee ==
    ASSUME LinkInv, NEW rows, S!Seen(rows), p5' = p5,
           (p2 \cup p3) \ rows \subseteq p2' \cup p3',
           (S!PlanShares' => S!PlanShares) \/ S!Shareable \subseteq rows
    PROVE  p8' \in [Visits -> S!VisitRecords] /\ \A v \in Visits : VisitFits(v)'
<1>1. p8' = [v \in Visits |-> [p8[v] EXCEPT !.unseen = p8[v].unseen \ rows]]
  BY DEF S!Seen
<1>2. ASSUME NEW v \in Visits
      PROVE  /\ p8'[v] \in S!VisitRecords /\ p8'[v].pc = p8[v].pc /\ p8'[v].of = p8[v].of
             /\ p8'[v].shows = p8[v].shows /\ p8'[v].unseen = p8[v].unseen \ rows
  BY <1>1, LinkTyped DEF S!VisitRecords
<1>3. ASSUME NEW v \in Visits
      PROVE  VisitFits(v)'
  <2>1. VisitFits(v) /\ p8[v] \in S!VisitRecords
    BY LinkTyped DEF LinkInv
  <2>2. p8[v].unseen \subseteq S!Shareable
    BY <2>1 DEF S!VisitRecords
  <2>3. p8'[v].shows \cap p8'[v].unseen = {}
    BY <1>2, <2>1 DEF VisitFits
  <2>4. /\ p8'[v].pc = "owner" => p5' = TRUE
        /\ p8'[v].pc # "done" => p8'[v].shows = {}
        /\ p8'[v].pc # "idle" => p8'[v].of \in S!Shareable
    BY <1>2, <2>1 DEF VisitFits
  <2>5. p8'[v].pc # "idle" =>
          \/ p8'[v].unseen \subseteq p2' \cup p3' /\ p8'[v].of \notin p8'[v].unseen
          \/ p8'[v].pc \in {"found", "owner"} /\ ~S!PlanShares'
    <3>1. CASE S!Shareable \subseteq rows
      <4>1. p8'[v].unseen = {}
        BY <1>2, <2>2, <3>1
      <4>. QED  BY <4>1
    <3>2. CASE S!PlanShares' => S!PlanShares
      BY <1>2, <2>1, <3>2 DEF VisitFits
    <3>. QED  BY <3>1, <3>2
  <2>. QED  BY <2>3, <2>4, <2>5 DEF VisitFits
<1>. QED  BY <1>1, <1>2, <1>3

\* Nobody shares yet.
LEMMA LinkStarts == S!SharingInit => LinkInv
<1>. SUFFICES ASSUME S!SharingInit
              PROVE  LinkInv
  OBVIOUS
<1>1. /\ p1 = [i \in S!Shareable |-> 0] /\ p2 = {} /\ p3 = {}
      /\ p4 = [g \in Gigs |-> NoSetlist] /\ p5 \in BOOLEAN /\ p6 \in SUBSET S!Payers
      /\ p7 = [x \in Sharers |-> S!NoSharer] /\ p8 = [v \in Visits |-> S!NoVisit]
      /\ p9 = FALSE /\ p10 = 0 /\ p11 = 0
  BY DEF S!SharingInit
<1>2. S!SharingTypeOK
  <2>1. 0 \in 0 .. MaxLinks /\ 0 \in 0 .. MaxTakedowns
    BY WorkspaceBounds
  <2>2. /\ p7 \in [Sharers -> S!SharerRecords] /\ p8 \in [Visits -> S!VisitRecords]
        /\ p1 \in [S!Shareable -> 0 .. MaxLinks] /\ p4 \in [Gigs -> Setlists \cup {NoSetlist}]
    BY <1>1, <2>1, NobodyShares
  <2>. QED  BY <1>1, <2>1, <2>2 DEF S!SharingTypeOK
<1>3. S!NoLinkWhileDown
  BY <1>1 DEF S!NoLinkWhileDown
<1>4. ASSUME NEW v \in Visits
      PROVE  VisitFits(v)
  BY <1>1, NobodyShares DEF VisitFits
<1>. QED  BY <1>2, <1>3, <1>4 DEF LinkInv

\* Someone shares, step by step; the token is not written where the row is
\* down by then.
LEMMA LinkShares ==
    ASSUME LinkInv, NEW x \in Sharers,
           \/ \E i \in S!Shareable : S!AskShare(x, i)
           \/ S!ReadLock(x) \/ S!WriteToken(x) \/ S!AnswerShare(x)
    PROVE  LinkInv'
<1>. DEFINE i == p7[x].of
<1>1. p7[x] \in S!SharerRecords /\ i \in S!Shareable \cup {"none"} /\ p7[x].token \in 0 .. MaxLinks
  BY LinkTyped DEF S!SharerRecords
<1>2. UNCHANGED <<p2, p3, p4, p5, p6, p8, p9, p11>>
  BY DEF S!AskShare, S!ReadLock, S!WriteToken, S!AnswerShare, S!rowVars, S!planVars,
     S!linkBounds
<1>3. p7' \in [Sharers -> S!SharerRecords]
  <2>1. ASSUME NEW k \in S!Shareable, S!AskShare(x, k)
        PROVE  p7' \in [Sharers -> S!SharerRecords]
    <3>1. [pc |-> "allowed", of |-> k, token |-> 0] \in S!SharerRecords
      BY WorkspaceBounds DEF S!SharerRecords
    <3>. QED  BY <2>1, <3>1, LinkTyped DEF S!AskShare
  <2>2. CASE S!ReadLock(x)
    <3>1. p10 + 1 \in 0 .. MaxLinks
      BY <2>2, LinkTyped, WorkspaceBounds DEF S!ReadLock
    <3>2. [p7[x] EXCEPT !.pc = "free", !.token = p10 + 1] \in S!SharerRecords
      BY <1>1, <3>1 DEF S!SharerRecords
    <3>3. \/ p7' = [p7 EXCEPT ![x] = S!NoSharer]
          \/ p7' = [p7 EXCEPT ![x] = [p7[x] EXCEPT !.pc = "free", !.token = p10 + 1]]
      BY <2>2, LinkTyped DEF S!ReadLock, S!SharerRecords
    <3>. QED  BY <3>2, <3>3, LinkTyped, NobodyShares
  <2>3. CASE S!WriteToken(x)
    <3>1. [p7[x] EXCEPT !.pc = "written"] \in S!SharerRecords
      BY <1>1 DEF S!SharerRecords
    <3>2. p7' = [p7 EXCEPT ![x] = [p7[x] EXCEPT !.pc = "written"]]
      BY <2>3, LinkTyped DEF S!WriteToken, S!SharerRecords
    <3>. QED  BY <3>1, <3>2, LinkTyped
  <2>4. CASE S!AnswerShare(x)
    BY <2>4, LinkTyped, NobodyShares DEF S!AnswerShare
  <2>. QED  BY <2>1, <2>2, <2>3, <2>4
<1>4. p10' \in 0 .. MaxLinks
  BY LinkTyped, WorkspaceBounds
     DEF S!AskShare, S!ReadLock, S!WriteToken, S!AnswerShare, S!linkBounds
<1>5. p1' \in [S!Shareable -> 0 .. MaxLinks] /\ S!NoLinkWhileDown'
  <2>1. CASE p1' = p1
    BY <1>2, <2>1, LinkTyped DEF LinkInv, S!NoLinkWhileDown
  <2>2. CASE p1' # p1
    <3>1. p1' = [p1 EXCEPT ![i] = p7[x].token] /\ i \notin p2
      BY <2>2 DEF S!AskShare, S!ReadLock, S!WriteToken, S!AnswerShare, S!rowVars, S!Writable
    <3>. QED  BY <1>1, <1>2, <3>1, LinkTyped DEF LinkInv, S!NoLinkWhileDown
  <2>. QED  BY <2>1, <2>2
<1>6. S!PlanShares' => S!PlanShares
  BY <1>2 DEF S!PlanShares
<1>7. p8' \in [Visits -> S!VisitRecords] /\ \A v \in Visits : VisitFits(v)'
  BY <1>2, <1>6, VisitsStay
<1>8. S!SharingTypeOK'
  BY <1>2, <1>3, <1>4, <1>5, <1>7, LinkTyped DEF S!SharingTypeOK
<1>. QED  BY <1>5, <1>7, <1>8 DEF LinkInv

\* Rows are hidden or unshared, gigs play other setlists, the job clears links:
\* there is only less to see.
LEMMA LinkHides ==
    ASSUME LinkInv, UNCHANGED <<p5, p7, p8, p10>>, p6' \subseteq p6, p9' \in BOOLEAN,
           p4' \in [Gigs -> Setlists \cup {NoSetlist}], p11' \in 0 .. MaxTakedowns,
           p2 \subseteq p2', p3 \subseteq p3', p2' \subseteq S!Shareable,
           p3' \subseteq S!Shareable, p1' \in [S!Shareable -> 0 .. MaxLinks],
           \A i \in S!Shareable : p1'[i] = 0 \/ (p1'[i] = p1[i] /\ i \notin p2' \ p2)
    PROVE  LinkInv'
<1>1. S!PlanShares' => S!PlanShares
  BY DEF S!PlanShares
<1>2. p8' \in [Visits -> S!VisitRecords] /\ \A v \in Visits : VisitFits(v)'
  BY <1>1, VisitsStay
<1>3. S!SharingTypeOK'
  BY <1>2, LinkTyped DEF S!SharingTypeOK
<1>4. S!NoLinkWhileDown'
  BY DEF LinkInv, S!NoLinkWhileDown
<1>. QED  BY <1>2, <1>3, <1>4 DEF LinkInv

\* What an owner, staff and the plans do to the rows.
LEMMA LinkRows ==
    ASSUME LinkInv,
           \/ \E i \in S!Shareable : S!DisableSharing(i) \/ S!Bin(i) \/ S!TakeDown(i)
           \/ \E g \in Gigs, l \in Setlists \cup {NoSetlist} : S!AttachSetlist(g, l)
           \/ \E u \in S!Payers : S!LosePlan(u)
           \/ S!FindPlanLost \/ S!ClearLinks
    PROVE  LinkInv'
<1>0. 0 \in 0 .. MaxLinks
  BY WorkspaceBounds
<1>1. ASSUME NEW i \in S!Shareable, S!DisableSharing(i)
      PROVE  LinkInv'
  <2>1. p1' = [p1 EXCEPT ![i] = 0] /\ UNCHANGED <<p2, p3, p4, p5, p6, p7, p8, p9, p10, p11>>
    BY <1>1 DEF S!DisableSharing, S!planVars, S!linkBounds
  <2>2. /\ p1' \in [S!Shareable -> 0 .. MaxLinks]
        /\ \A k \in S!Shareable : p1'[k] = 0 \/ p1'[k] = p1[k]
    BY <1>0, <2>1, LinkTyped
  <2>. QED  BY <2>1, <2>2, LinkTyped, LinkHides
<1>2. ASSUME NEW i \in S!Shareable, S!Bin(i)
      PROVE  LinkInv'
  <2>1. p3' = p3 \cup {i} /\ UNCHANGED <<p1, p2, p4, p5, p6, p7, p8, p9, p10, p11>>
    BY <1>2 DEF S!Bin, S!planVars, S!linkBounds
  <2>. QED  BY <2>1, LinkTyped, LinkHides
<1>3. ASSUME NEW i \in S!Shareable, S!TakeDown(i)
      PROVE  LinkInv'
  <2>1. /\ p2' = p2 \cup {i} /\ p11' = p11 + 1 /\ p11 < MaxTakedowns
        /\ p1' = [j \in S!Shareable |-> IF j \in S!TokensTaken(i) THEN 0 ELSE p1[j]]
        /\ UNCHANGED <<p3, p4, p5, p6, p7, p8, p9, p10>>
    BY <1>3 DEF S!TakeDown, S!planVars
  <2>2. i \in S!TokensTaken(i)
    BY DEF S!TokensTaken
  <2>3. /\ p1' \in [S!Shareable -> 0 .. MaxLinks]
        /\ \A k \in S!Shareable : p1'[k] = 0 \/ (p1'[k] = p1[k] /\ k \notin p2' \ p2)
    BY <1>0, <2>1, <2>2, LinkTyped
  <2>4. p11' \in 0 .. MaxTakedowns
    BY <2>1, LinkTyped, WorkspaceBounds
  <2>. QED  BY <2>1, <2>3, <2>4, LinkTyped, LinkHides
<1>4. ASSUME NEW g \in Gigs, NEW l \in Setlists \cup {NoSetlist}, S!AttachSetlist(g, l)
      PROVE  LinkInv'
  <2>1. p4' = [p4 EXCEPT ![g] = l] /\ UNCHANGED <<p1, p2, p3, p5, p6, p7, p8, p9, p10, p11>>
    BY <1>4 DEF S!AttachSetlist, S!planVars, S!linkBounds
  <2>2. p4' \in [Gigs -> Setlists \cup {NoSetlist}]
    BY <2>1, LinkTyped
  <2>. QED  BY <2>1, <2>2, LinkTyped, LinkHides
<1>5. ASSUME NEW u \in S!Payers, S!LosePlan(u)
      PROVE  LinkInv'
  <2>1. p6' = p6 \ {u} /\ UNCHANGED <<p1, p2, p3, p4, p5, p7, p8, p9, p10, p11>>
    BY <1>5 DEF S!LosePlan, S!rowVars, S!linkBounds
  <2>. QED  BY <2>1, LinkTyped, LinkHides
<1>6. CASE S!FindPlanLost
  <2>1. p9' = TRUE /\ UNCHANGED <<p1, p2, p3, p4, p5, p6, p7, p8, p10, p11>>
    BY <1>6 DEF S!FindPlanLost, S!rowVars, S!planVars, S!linkBounds
  <2>. QED  BY <2>1, LinkTyped, LinkHides
<1>7. CASE S!ClearLinks
  <2>1. /\ p9' = FALSE /\ (p1' = p1 \/ p1' = [i \in S!Shareable |-> 0])
        /\ UNCHANGED <<p2, p3, p4, p5, p6, p7, p8, p10, p11>>
    BY <1>7 DEF S!ClearLinks, S!planVars, S!linkBounds
  <2>2. /\ p1' \in [S!Shareable -> 0 .. MaxLinks]
        /\ \A k \in S!Shareable : p1'[k] = 0 \/ p1'[k] = p1[k]
    BY <1>0, <2>1, LinkTyped
  <2>. QED  BY <2>1, <2>2, LinkTyped, LinkHides
<1>. QED  BY <1>1, <1>2, <1>3, <1>4, <1>5, <1>6, <1>7

\* Rows come back, staff let them be shared again, someone pays again.
LEMMA LinkShows ==
    ASSUME LinkInv,
           \/ \E i \in S!Shareable : S!Unbin(i) \/ S!UnlockSharing(i)
           \/ \E u \in S!Payers : S!GainPlan(u)
    PROVE  LinkInv'
<1>1. ASSUME p2' \subseteq p2, p3' \subseteq p3, p6' \subseteq S!Payers,
             UNCHANGED <<p1, p4, p5, p7, p9, p10, p11>>,
             p8' \in [Visits -> S!VisitRecords] /\ \A v \in Visits : VisitFits(v)'
      PROVE  LinkInv'
  <2>1. S!SharingTypeOK'
    BY <1>1, LinkTyped DEF S!SharingTypeOK
  <2>2. S!NoLinkWhileDown'
    BY <1>1 DEF LinkInv, S!NoLinkWhileDown
  <2>. QED  BY <1>1, <2>1, <2>2 DEF LinkInv
<1>2. ASSUME NEW i \in S!Shareable, S!Unbin(i)
      PROVE  LinkInv'
  <2>1. S!Seen({i}) /\ p3' = p3 \ {i} /\ UNCHANGED <<p1, p2, p4, p5, p6, p7, p9, p10, p11>>
    BY <1>2 DEF S!Unbin, S!planVars, S!linkBounds
  <2>2. S!PlanShares' => S!PlanShares
    BY <2>1 DEF S!PlanShares
  <2>. QED  BY <1>1, <2>1, <2>2, VisitsSee, LinkTyped
<1>3. ASSUME NEW i \in S!Shareable, S!UnlockSharing(i)
      PROVE  LinkInv'
  <2>1. S!Seen({i}) /\ p2' = p2 \ {i} /\ UNCHANGED <<p1, p3, p4, p5, p6, p7, p9, p10, p11>>
    BY <1>3 DEF S!UnlockSharing, S!planVars, S!linkBounds
  <2>2. S!PlanShares' => S!PlanShares
    BY <2>1 DEF S!PlanShares
  <2>. QED  BY <1>1, <2>1, <2>2, VisitsSee, LinkTyped
<1>4. ASSUME NEW u \in S!Payers, S!GainPlan(u)
      PROVE  LinkInv'
  <2>1. /\ p6' = p6 \cup {u} /\ UNCHANGED <<p1, p2, p3, p4, p5, p7, p9, p10, p11>>
        /\ IF u = "creator" \/ p5 THEN S!Seen(S!Shareable) ELSE p8' = p8
    BY <1>4 DEF S!GainPlan, S!rowVars, S!linkBounds
  <2>2. CASE S!Seen(S!Shareable)
    BY <1>1, <2>1, <2>2, VisitsSee, LinkTyped
  <2>3. CASE u # "creator" /\ ~p5
    <3>1. S!PlanShares' => S!PlanShares
      BY <2>1, <2>3 DEF S!PlanShares
    <3>2. p8' = p8
      BY <2>1, <2>3
    <3>. QED  BY <1>1, <2>1, <3>1, <3>2, VisitsStay, LinkTyped
  <2>. QED  BY <2>1, <2>2, <2>3
<1>. QED  BY <1>2, <1>3, <1>4

\* A visit takes a step: so do all the others stay fit.
LEMMA VisitGoes ==
    ASSUME LinkInv, NEW v \in Visits, NEW r \in S!VisitRecords, p8' = [p8 EXCEPT ![v] = r],
           UNCHANGED <<p1, p2, p3, p4, p5, p6, p7, p9, p10, p11>>,
           r.pc = "owner" => p5 = TRUE, r.pc # "done" => r.shows = {},
           r.pc # "idle" => r.of \in S!Shareable,
           r.pc # "idle" =>
             \/ r.unseen \subseteq p2 \cup p3 /\ r.of \notin r.unseen
             \/ r.pc \in {"found", "owner"} /\ ~S!PlanShares,
           r.shows \cap r.unseen = {}
    PROVE  LinkInv'
<1>1. p8' \in [Visits -> S!VisitRecords] /\ p8'[v] = r /\ \A w \in Visits \ {v} : p8'[w] = p8[w]
  BY LinkTyped
<1>2. S!SharingTypeOK' /\ S!NoLinkWhileDown'
  BY <1>1, LinkTyped DEF LinkInv, S!SharingTypeOK, S!NoLinkWhileDown
<1>3. S!PlanShares' <=> S!PlanShares
  BY DEF S!PlanShares
<1>4. ASSUME NEW w \in Visits
      PROVE  VisitFits(w)'
  <2>1. CASE w = v
    BY <1>1, <1>3, <2>1 DEF VisitFits
  <2>2. CASE w # v
    BY <1>1, <1>3, <2>2 DEF LinkInv, VisitFits
  <2>. QED  BY <2>1, <2>2
<1>. QED  BY <1>2, <1>4 DEF LinkInv

\* A visitor finds a row by its link.
LEMMA LinkFollowed ==
    ASSUME LinkInv, NEW v \in Visits, NEW i \in S!Shareable, NEW t \in 1 .. p10,
           S!Follow(v, i, t)
    PROVE  LinkInv'
<1>. DEFINE r == [S!NoVisit EXCEPT !.pc = "found", !.of = i,
                    !.list = IF i \in Gigs THEN p4[i] ELSE i, !.unseen = S!Unseen]
<1>1. /\ p8' = [p8 EXCEPT ![v] = r] /\ i \notin p2 \cup p3
      /\ UNCHANGED <<p1, p2, p3, p4, p5, p6, p7, p9, p10, p11>>
  BY DEF S!Follow, S!LinkLives, S!rowVars, S!planVars, S!linkBounds
<1>2. S!Unseen \subseteq S!Shareable
  BY LinkTyped DEF S!Unseen
<1>3. (IF i \in Gigs THEN p4[i] ELSE i) \in Setlists \cup {NoSetlist}
  BY LinkTyped DEF S!Shareable
<1>4. /\ r \in S!VisitRecords /\ r.pc = "found" /\ r.of = i /\ r.unseen = S!Unseen
      /\ r.shows = {}
  BY <1>2, <1>3, NobodyShares DEF S!VisitRecords
<1>5. r.unseen \subseteq p2 \cup p3 \/ ~S!PlanShares
  BY <1>4 DEF S!Unseen
<1>. QED  BY <1>1, <1>4, <1>5, VisitGoes

\* The plans are read one after the other; who gets past them saw one that
\* shows what is not hidden.
LEMMA LinkVisited ==
    ASSUME LinkInv, NEW v \in Visits, S!CheckPlan(v) \/ S!ReadSetlist(v) \/ S!EndVisit(v)
    PROVE  LinkInv'
<1>. DEFINE o == p8[v]
<1>1. o \in S!VisitRecords /\ VisitFits(v)
  BY LinkTyped DEF LinkInv
<1>2. UNCHANGED <<p1, p2, p3, p4, p5, p6, p7, p9, p10, p11>>
  BY DEF S!CheckPlan, S!ReadSetlist, S!EndVisit, S!rowVars, S!planVars, S!linkBounds
<1>3. CASE p8' = [p8 EXCEPT ![v] = S!NoVisit]
  BY <1>2, <1>3, NobodyShares, VisitGoes
<1>4. CASE S!CheckPlan(v) /\ p8' # [p8 EXCEPT ![v] = S!NoVisit]
  <2>1. o.pc \in {"found", "owner"}
    BY <1>4 DEF S!CheckPlan
  <2>2. CASE p8' = [p8 EXCEPT ![v] = [o EXCEPT !.pc = "visible"]] /\ S!PlanShares
    <3>. DEFINE r == [o EXCEPT !.pc = "visible"]
    <3>1. /\ r \in S!VisitRecords /\ r.pc = "visible" /\ r.of = o.of /\ r.unseen = o.unseen
          /\ r.shows = o.shows
      BY <1>1 DEF S!VisitRecords
    <3>2. /\ o.shows = {} /\ o.unseen \subseteq p2 \cup p3 /\ o.of \notin o.unseen
          /\ o.of \in S!Shareable
      BY <1>1, <2>1, <2>2 DEF VisitFits
    <3>. QED  BY <1>2, <2>2, <3>1, <3>2, VisitGoes
  <2>3. CASE p8' = [p8 EXCEPT ![v] = [o EXCEPT !.pc = "owner"]] /\ p5
    <3>. DEFINE r == [o EXCEPT !.pc = "owner"]
    <3>1. /\ r \in S!VisitRecords /\ r.pc = "owner" /\ r.of = o.of /\ r.unseen = o.unseen
          /\ r.shows = o.shows
      BY <1>1 DEF S!VisitRecords
    <3>2. /\ o.shows = {} /\ o.of \in S!Shareable
          /\ \/ o.unseen \subseteq p2 \cup p3 /\ o.of \notin o.unseen
             \/ ~S!PlanShares
      BY <1>1, <2>1 DEF VisitFits
    <3>3. p5 = TRUE
      BY <2>3, LinkTyped
    <3>. QED  BY <1>2, <2>3, <3>1, <3>2, <3>3, VisitGoes
  <2>4. CASE o.pc = "found"
    <3>1. \/ "creator" \in p6 /\ p8' = [p8 EXCEPT ![v] = [p8[v] EXCEPT !.pc = "visible"]]
          \/ p5 /\ p8' = [p8 EXCEPT ![v] = [p8[v] EXCEPT !.pc = "owner"]]
      BY <1>4, <2>4 DEF S!CheckPlan
    <3>. QED  BY <2>2, <2>3, <3>1 DEF S!PlanShares
  <2>5. CASE o.pc = "owner"
    <3>1. "owner" \in p6 /\ p8' = [p8 EXCEPT ![v] = [p8[v] EXCEPT !.pc = "visible"]]
      BY <1>4, <2>5 DEF S!CheckPlan
    <3>2. p5
      BY <1>1, <2>5 DEF VisitFits
    <3>. QED  BY <2>2, <3>1, <3>2 DEF S!PlanShares
  <2>. QED  BY <2>1, <2>4, <2>5
<1>5. CASE S!ReadSetlist(v)
  <2>. DEFINE some == IF o.of \in Setlists THEN {o.of}
                      ELSE {o.of} \cup {l \in {o.list} : S!GigShows(l)}
              r == [o EXCEPT !.pc = "done", !.shows = some]
  <2>1. o.pc = "visible" /\ p8' = [p8 EXCEPT ![v] = r]
    BY <1>1, <1>5, LinkTyped DEF S!ReadSetlist, S!VisitRecords
  <2>2. o.unseen \subseteq p2 \cup p3 /\ o.of \notin o.unseen /\ o.of \in S!Shareable
    BY <1>1, <2>1 DEF VisitFits
  <2>3. some \cap o.unseen = {} /\ some \subseteq S!Shareable
    BY <2>2 DEF S!GigShows, S!Shareable
  <2>4. /\ r \in S!VisitRecords /\ r.pc = "done" /\ r.of = o.of /\ r.unseen = o.unseen
        /\ r.shows = some
    BY <1>1, <2>3 DEF S!VisitRecords
  <2>. QED  BY <1>2, <2>1, <2>2, <2>3, <2>4, VisitGoes
<1>. QED  BY <1>3, <1>4, <1>5 DEF S!EndVisit, S!CheckPlan, S!ReadSetlist

\* Whatever happens next, visits stay fit.
LEMMA LinkMoves == LinkInv /\ S!SharingNext => LinkInv'
BY LinkShares, LinkRows, LinkShows, LinkFollowed, LinkVisited DEF S!SharingNext

\* So what is hidden stays hidden.
LEMMA LinkSafe == LinkInv => S!SharingSafety
BY DEF LinkInv, VisitFits, S!SharingSafety, S!HiddenStaysHidden

-----------------------------------------------------------------------------
(* The running order: p1 is the position of each item in each list, p2 the  *)
(* trash, p3 who adds something, p4 what a reorder placed, p5 the songs     *)
(* that came back from the trash.                                           *)

\* Who holds the row of a setlist.
Busy(x) == p3[x].pc \in {"locked", "appended"}
Counted == R!ItemsCounted \ p5

\* Who adds to a setlist has room, and a place past what nobody reordered.
HandFits(x) ==
    /\ Busy(x) => /\ p3[x].item \in R!Items
                  /\ p3[x].list = "show" => Cardinality(Counted) + 1 <= ItemLimit
    /\ p3[x].pc = "appended" =>
         /\ p3[x].at > 0
         /\ \A i \in R!Items : <<p3[x].list, i>> \in p4 \/ p1[p3[x].list][i] < p3[x].at

\* One at a time adds to a list.
OrderInv ==
    /\ R!OrderTypeOK /\ R!OrderSafety
    /\ \A x \in Requests : HandFits(x)
    /\ \A x, y \in Requests : Busy(x) /\ Busy(y) /\ p3[x].list = p3[y].list => x = y

\* A part counts as this module does, and its lists are two.
LEMMA OrderCounts ==
    /\ \A X : R!Cardinality(X) = Cardinality(X)
    /\ R!TheLists = {"show", "repertoire"} /\ "show" # "repertoire"
BY DEF R!Cardinality, Cardinality, R!TheLists

\* There is a least among numbers.
LEMMA LeastNumber ==
    ASSUME NEW X \in SUBSET Nat, X # {}
    PROVE  \E m \in X : \A n \in X : m <= n
<1>. DEFINE less == OpToRel(<, Nat)
<1>1. IsWellFoundedOn(less, Nat)
  BY NatLessThanWellFounded, Zenon
<1>2. less = {q \in Nat \X Nat : q[1] < q[2]}
  BY Zenon DEF OpToRel
<1>. HIDE DEF less
<1>3. PICK m \in X : \A n \in X : ~(<<n, m>> \in less)
  BY <1>1, WFMin
<1>4. \A n \in X : ~(n < m)
  BY <1>2, <1>3
<1>. QED  BY <1>4

\* The types, one by one.
LEMMA OrderTyped ==
    ASSUME OrderInv
    PROVE  /\ p1 \in [R!TheLists -> [R!Items -> 0 .. MaxPlace]] /\ p2 \subseteq Numbers
           /\ p3 \in [Requests -> R!HandRecords] /\ p4 \subseteq R!Spots
           /\ p5 \subseteq Numbers
           /\ \A l \in R!TheLists : p1[l] \in [R!Items -> 0 .. MaxPlace]
           /\ \A l \in R!TheLists, i \in R!Items : p1[l][i] \in Nat
           /\ \A x \in Requests : /\ p3[x] \in R!HandRecords /\ p3[x].list \in R!TheLists
                                  /\ p3[x].at \in 0 .. MaxPlace
           /\ R!NoHand \in R!HandRecords /\ R!NoHand.pc = "idle"
           /\ IsFiniteSet(R!Items)
           /\ \A X : X \subseteq R!Items => IsFiniteSet(X) /\ Cardinality(X) \in Nat
<1>1. /\ p1 \in [R!TheLists -> [R!Items -> 0 .. MaxPlace]] /\ p2 \subseteq Numbers
      /\ p3 \in [Requests -> R!HandRecords] /\ p4 \subseteq R!Spots
      /\ p5 \subseteq Numbers
  BY DEF OrderInv, R!OrderTypeOK
<1>2. /\ \A l \in R!TheLists : p1[l] \in [R!Items -> 0 .. MaxPlace]
      /\ \A l \in R!TheLists, i \in R!Items : p1[l][i] \in Nat
  BY <1>1, WorkspaceBounds
<1>3. \A x \in Requests : /\ p3[x] \in R!HandRecords /\ p3[x].list \in R!TheLists
                          /\ p3[x].at \in 0 .. MaxPlace
  BY <1>1 DEF R!HandRecords
<1>4. R!NoHand \in R!HandRecords /\ R!NoHand.pc = "idle"
  BY OrderCounts, WorkspaceBounds DEF R!NoHand, R!HandRecords
<1>5. IsFiniteSet(R!Items)
  BY FS_Union, WorkspaceBounds DEF R!Items
<1>6. ASSUME NEW X, X \subseteq R!Items
      PROVE  IsFiniteSet(X) /\ Cardinality(X) \in Nat
  BY <1>5, <1>6, FS_Subset, FS_CardinalityType
<1>. QED  BY <1>1, <1>2, <1>3, <1>4, <1>5, <1>6

\* The next place is past every other.
LEMMA NextPlacePast ==
    ASSUME OrderInv, NEW l \in R!TheLists
    PROVE  /\ R!NextPlace(l) \in Nat /\ R!NextPlace(l) > 0
           /\ \A i \in R!Items : p1[l][i] < R!NextPlace(l)
<1>. DEFINE tops == {n \in 0 .. MaxPlace : \A i \in R!Items : p1[l][i] <= n}
            last(n) == /\ \A i \in R!Items : p1[l][i] <= n
                       /\ n = 0 \/ \E i \in R!Items : p1[l][i] = n
<1>1. tops \subseteq Nat /\ MaxPlace \in tops
  BY OrderTyped, WorkspaceBounds
<1>2. PICK m \in tops : \A n \in tops : m <= n
  BY <1>1, LeastNumber
<1>3. m \in 0 .. MaxPlace /\ last(m)
  <2>1. SUFFICES ASSUME m # 0, \A i \in R!Items : p1[l][i] # m
                 PROVE  FALSE
    BY <1>2
  <2>2. m \in Nat /\ m - 1 \in 0 .. MaxPlace
    BY <1>2, <2>1, WorkspaceBounds
  <2>3. \A i \in R!Items : p1[l][i] <= m - 1
    BY <1>2, <2>1, <2>2, OrderTyped
  <2>4. m - 1 \in tops
    BY <2>2, <2>3
  <2>. QED  BY <1>2, <2>2, <2>4
<1>. DEFINE c == CHOOSE n \in 0 .. MaxPlace : last(n)
<1>4. c \in 0 .. MaxPlace /\ last(c)
  BY <1>3
<1>5. R!NextPlace(l) = 1 + c
  BY DEF R!NextPlace
<1>. HIDE DEF c
<1>6. c \in Nat /\ \A i \in R!Items : p1[l][i] <= c
  BY <1>4, WorkspaceBounds
<1>. QED  BY <1>5, <1>6, OrderTyped

\* Nothing is listed yet.
LEMMA OrderStarts == R!OrderInit => OrderInv
<1>. SUFFICES ASSUME R!OrderInit
              PROVE  OrderInv
  OBVIOUS
<1>1. /\ p1 = [l \in R!TheLists |-> [i \in R!Items |-> 0]] /\ p2 = {}
      /\ p3 = [x \in Requests |-> R!NoHand] /\ p4 = {} /\ p5 = {}
  BY DEF R!OrderInit
<1>2. R!NoHand \in R!HandRecords /\ R!NoHand.pc = "idle"
  BY OrderCounts, WorkspaceBounds DEF R!NoHand, R!HandRecords
<1>3. \A l \in R!TheLists : R!OnList(l) = {}
  BY <1>1 DEF R!OnList
<1>4. R!ItemsCounted \ p5 = {}
  BY <1>3, OrderCounts DEF R!ItemsCounted
<1>5. Cardinality(R!ItemsCounted \ p5) <= ItemLimit
  <2>1. Cardinality(R!ItemsCounted \ p5) = Cardinality({})
    BY <1>4
  <2>2. Cardinality({}) = 0
    BY FS_EmptySet
  <2>3. ItemLimit \in Nat
    BY WorkspaceBounds
  <2>. QED  BY <2>1, <2>2, <2>3
<1>6. R!OrderSafety
  BY <1>3, <1>5, OrderCounts
     DEF R!OrderSafety, R!AppendedApart, R!ItemsWithinLimit, R!InRepertoire
<1>7. R!OrderTypeOK
  <2>1. p1 \in [R!TheLists -> [R!Items -> 0 .. MaxPlace]]
    BY <1>1, WorkspaceBounds
  <2>. QED  BY <1>1, <1>2, <2>1 DEF R!OrderTypeOK
<1>8. \A x \in Requests : HandFits(x) /\ ~Busy(x)
  BY <1>1, <1>2 DEF HandFits, Busy
<1>. QED  BY <1>6, <1>7, <1>8 DEF OrderInv

\* Who adds goes on, and the lists stay as they are.
LEMMA HandGoes ==
    ASSUME OrderInv, NEW x \in Requests, NEW h \in R!HandRecords, p3' = [p3 EXCEPT ![x] = h],
           UNCHANGED <<p1, p2, p4, p5>>, HandFits(x)',
           h.pc # "idle" => \A y \in Requests \ {x} : Busy(y) => p3[y].list # h.list
    PROVE  OrderInv'
<1>1. p3' \in [Requests -> R!HandRecords] /\ p3'[x] = h /\ \A y \in Requests \ {x} : p3'[y] = p3[y]
  BY OrderTyped
<1>2. \A l : R!OnList(l)' = R!OnList(l)
  BY DEF R!OnList
<1>3. Counted' = Counted
  BY <1>2 DEF Counted, R!ItemsCounted
<1>4. R!OrderTypeOK' /\ R!OrderSafety'
  BY <1>1, <1>2, <1>3, OrderTyped
     DEF OrderInv, R!OrderTypeOK, R!OrderSafety, R!AppendedApart, R!ItemsWithinLimit,
         R!InRepertoire, R!ItemsCounted
<1>5. ASSUME NEW y \in Requests
      PROVE  HandFits(y)'
  <2>1. CASE y # x
    BY <1>1, <1>3, <2>1 DEF OrderInv, HandFits, Busy
  <2>. QED  BY <2>1
<1>6. (\A y, z \in Requests : Busy(y) /\ Busy(z) /\ p3[y].list = p3[z].list => y = z)'
  BY <1>1 DEF OrderInv, Busy
<1>. QED  BY <1>4, <1>5, <1>6 DEF OrderInv

\* A list is locked, with room for one more.
LEMMA OrderLocks ==
    ASSUME OrderInv, NEW x \in Requests, NEW l \in R!TheLists, NEW i \in R!Items,
           R!LockList(x, l, i)
    PROVE  OrderInv'
<1>. DEFINE h == [pc |-> "locked", item |-> i, list |-> l, at |-> 0]
<1>1. /\ p3' = [p3 EXCEPT ![x] = h] /\ UNCHANGED <<p1, p2, p4, p5>>
      /\ R!ListFree(x, l) /\ (l = "show" => R!Room)
  BY DEF R!LockList, R!SetHand
<1>2. h \in R!HandRecords
  BY WorkspaceBounds DEF R!HandRecords
<1>3. p3'[x] = h
  BY <1>1, OrderTyped
<1>4. Counted' = Counted
  BY <1>1 DEF Counted, R!ItemsCounted, R!OnList
<1>5. l = "show" => Cardinality(Counted) + 1 <= ItemLimit
  <2>1. R!ItemsCounted \subseteq R!Items
    BY DEF R!ItemsCounted, R!OnList
  <2>2. Counted \subseteq R!ItemsCounted
    BY DEF Counted
  <2>3. Cardinality(Counted) <= Cardinality(R!ItemsCounted)
    BY <2>1, <2>2, OrderTyped, FS_Subset
  <2>4. Cardinality(Counted) \in Nat /\ Cardinality(R!ItemsCounted) \in Nat
    BY <2>1, <2>2, OrderTyped
  <2>5. l = "show" => Cardinality(R!ItemsCounted) < ItemLimit
    BY <1>1, OrderCounts DEF R!Room
  <2>6. ItemLimit \in Nat
    BY WorkspaceBounds
  <2>. QED  BY <2>3, <2>4, <2>5, <2>6
<1>6. HandFits(x)'
  BY <1>3, <1>4, <1>5 DEF HandFits, Busy
<1>7. \A y \in Requests \ {x} : Busy(y) => p3[y].list # l
  BY <1>1 DEF R!ListFree, Busy
<1>. QED  BY <1>1, <1>2, <1>6, <1>7, HandGoes

\* The place is past the others.
LEMMA OrderAppends ==
    ASSUME OrderInv, NEW x \in Requests, R!AppendItem(x)
    PROVE  OrderInv'
<1>. DEFINE o == p3[x]
            h == [o EXCEPT !.at = R!NextPlace(o.list), !.pc = "appended"]
<1>1. /\ o.pc = "locked" /\ R!NextPlace(o.list) <= MaxPlace /\ p3' = [p3 EXCEPT ![x] = h]
      /\ UNCHANGED <<p1, p2, p4, p5>>
  BY DEF R!AppendItem, R!SetHand
<1>2. o \in R!HandRecords /\ o.list \in R!TheLists /\ HandFits(x)
  BY OrderTyped DEF OrderInv
<1>3. /\ R!NextPlace(o.list) \in Nat /\ R!NextPlace(o.list) > 0
      /\ \A i \in R!Items : p1[o.list][i] < R!NextPlace(o.list)
  BY <1>2, NextPlacePast
<1>4. R!NextPlace(o.list) \in 0 .. MaxPlace
  BY <1>1, <1>3, WorkspaceBounds
<1>5. /\ h \in R!HandRecords /\ h.pc = "appended" /\ h.item = o.item /\ h.list = o.list
      /\ h.at = R!NextPlace(o.list)
  BY <1>2, <1>4 DEF R!HandRecords
<1>6. p3'[x] = h
  BY <1>1, OrderTyped
<1>7. Counted' = Counted
  BY <1>1 DEF Counted, R!ItemsCounted, R!OnList
<1>8. HandFits(x)'
  BY <1>1, <1>2, <1>3, <1>5, <1>6, <1>7 DEF HandFits, Busy
<1>9. \A y \in Requests \ {x} : Busy(y) => p3[y].list # o.list
  BY <1>1 DEF OrderInv, Busy
<1>. QED  BY <1>1, <1>5, <1>8, <1>9, HandGoes

\* Who adds gives up.
LEMMA OrderAborts ==
    ASSUME OrderInv, NEW x \in Requests, R!AbortAppend(x)
    PROVE  OrderInv'
<1>1. p3' = [p3 EXCEPT ![x] = R!NoHand] /\ UNCHANGED <<p1, p2, p4, p5>>
  BY DEF R!AbortAppend, R!SetHand
<1>2. p3'[x] = R!NoHand
  BY <1>1, OrderTyped
<1>3. HandFits(x)'
  BY <1>2, OrderTyped DEF HandFits, Busy
<1>. QED  BY <1>1, <1>3, OrderTyped, HandGoes

\* Lists change, but nothing is added: what is not reordered stays where it
\* is or goes.
LEMMA ListsChange ==
    ASSUME OrderInv, p1' \in [R!TheLists -> [R!Items -> 0 .. MaxPlace]], p2' \subseteq Numbers,
           p3' \in [Requests -> R!HandRecords],
           \A x \in Requests : p3'[x] = p3[x] \/ p3'[x].pc = "idle",
           p4' \subseteq R!Spots, p5' \subseteq Numbers,
           \A l \in R!TheLists, i \in R!Items :
              <<l, i>> \in p4' \/ p1'[l][i] = 0 \/ (p1'[l][i] = p1[l][i] /\ <<l, i>> \notin p4),
           R!InRepertoire', Counted' \subseteq Counted
    PROVE  OrderInv'
<1>1. R!AppendedApart'
  <2>. SUFFICES ASSUME NEW l \in R!TheLists, NEW i \in R!Items, NEW j \in R!Items, i # j,
                       p1'[l][i] > 0, p1'[l][j] > 0, p1'[l][i] = p1'[l][j],
                       <<l, i>> \notin p4', <<l, j>> \notin p4'
                PROVE  FALSE
    BY DEF R!AppendedApart, R!OnList
  <2>1. /\ p1'[l][i] = p1[l][i] /\ <<l, i>> \notin p4
        /\ p1'[l][j] = p1[l][j] /\ <<l, j>> \notin p4
    OBVIOUS
  <2>2. R!AppendedApart
    BY DEF OrderInv, R!OrderSafety
  <2>. QED  BY <2>1, <2>2 DEF R!AppendedApart, R!OnList
<1>2. Cardinality(Counted') <= Cardinality(Counted) /\ Cardinality(Counted) \in Nat
      /\ Cardinality(Counted') \in Nat
  <2>1. Counted \subseteq R!Items /\ Counted' \subseteq R!Items
    BY DEF Counted, R!ItemsCounted, R!OnList
  <2>. QED  BY <2>1, OrderTyped, FS_Subset
<1>3. R!ItemsWithinLimit'
  <2>1. Cardinality(Counted) <= ItemLimit
    BY OrderCounts DEF OrderInv, R!OrderSafety, R!ItemsWithinLimit, Counted
  <2>2. Cardinality(Counted') <= ItemLimit
    BY <1>2, <2>1, WorkspaceBounds
  <2>. QED  BY <2>2, OrderCounts DEF R!ItemsWithinLimit, Counted
<1>4. R!OrderTypeOK'
  BY DEF R!OrderTypeOK
<1>5. ASSUME NEW x \in Requests
      PROVE  HandFits(x)'
  <2>. DEFINE h == p3[x]
  <2>1. HandFits(x) /\ h \in R!HandRecords /\ h.list \in R!TheLists /\ h.at \in Nat
    BY OrderTyped, WorkspaceBounds DEF OrderInv
  <2>2. CASE p3'[x] = h
    <3>1. Busy(x) /\ h.list = "show" => Cardinality(Counted') + 1 <= ItemLimit
      <4>1. Busy(x) /\ h.list = "show" => Cardinality(Counted) + 1 <= ItemLimit
        BY <2>1 DEF HandFits
      <4>. QED  BY <1>2, <4>1, WorkspaceBounds
    <3>2. ASSUME h.pc = "appended", NEW i \in R!Items
          PROVE  <<h.list, i>> \in p4' \/ p1'[h.list][i] < h.at
      <4>1. h.at > 0 /\ (<<h.list, i>> \in p4 \/ p1[h.list][i] < h.at)
        BY <2>1, <3>2 DEF HandFits
      <4>. QED  BY <2>1, <4>1
    <3>. QED  BY <2>1, <2>2, <3>1, <3>2 DEF HandFits, Busy
  <2>3. CASE p3'[x].pc = "idle"
    BY <2>3 DEF HandFits, Busy
  <2>. QED  BY <2>2, <2>3
<1>6. (\A x, y \in Requests : Busy(x) /\ Busy(y) /\ p3[x].list = p3[y].list => x = y)'
  BY DEF OrderInv, Busy
<1>. QED  BY <1>1, <1>3, <1>4, <1>5, <1>6 DEF OrderInv, R!OrderSafety

\* A reorder gives what it lists the first places.
LEMMA OrderReorders ==
    ASSUME OrderInv, NEW l \in R!TheLists, NEW order \in R!Orders, R!Reorder(l, order)
    PROVE  OrderInv'
<1>. DEFINE listed == {order[n] : n \in DOMAIN order} \cap R!OnList(l)
            at == [i \in listed |-> CHOOSE n \in DOMAIN order : order[n] = i]
            row == [i \in R!Items |-> IF i \in listed THEN at[i] ELSE p1[l][i]]
<1>1. /\ p1' = [p1 EXCEPT ![l] = row] /\ p4' = p4 \cup {<<l, i>> : i \in listed}
      /\ UNCHANGED <<p2, p3, p5>>
  BY DEF R!Reorder
<1>2. DOMAIN order \subseteq 1 .. 2
  BY DEF R!Orders
<1>3. ASSUME NEW i \in listed
      PROVE  at[i] \in 1 .. 2
  <2>1. \E n \in DOMAIN order : order[n] = i
    OBVIOUS
  <2>2. at[i] \in DOMAIN order
    BY <2>1
  <2>. QED  BY <1>2, <2>2
<1>4. listed \subseteq R!OnList(l) /\ R!OnList(l) \subseteq R!Items
  BY DEF R!OnList
<1>. HIDE DEF at, listed
<1>5. 1 .. 2 \subseteq 0 .. MaxPlace
  BY WorkspaceBounds
<1>6. row \in [R!Items -> 0 .. MaxPlace]
  BY <1>3, <1>5, OrderTyped
<1>7. p1' \in [R!TheLists -> [R!Items -> 0 .. MaxPlace]]
  BY <1>1, <1>6, OrderTyped
<1>8. \A m \in R!TheLists, i \in R!Items :
         /\ ~(m = l /\ i \in listed) => p1'[m][i] = p1[m][i]
         /\ p1'[m][i] > 0 <=> p1[m][i] > 0
  <2>. SUFFICES ASSUME NEW m \in R!TheLists, NEW i \in R!Items
                PROVE  /\ ~(m = l /\ i \in listed) => p1'[m][i] = p1[m][i]
                       /\ p1'[m][i] > 0 <=> p1[m][i] > 0
    OBVIOUS
  <2>1. CASE m = l /\ i \in listed
    <3>1. p1'[m][i] = at[i] /\ p1[m][i] > 0
      BY <1>1, <1>4, <2>1, OrderTyped DEF R!OnList
    <3>. QED  BY <1>3, <2>1, <3>1
  <2>2. CASE ~(m = l /\ i \in listed)
    BY <1>1, <2>2, OrderTyped
  <2>. QED  BY <2>1, <2>2
<1>9. \A m \in R!TheLists : R!OnList(m)' = R!OnList(m)
  BY <1>8 DEF R!OnList
<1>10. R!InRepertoire' /\ Counted' = Counted
  BY <1>1, <1>9, OrderCounts
     DEF OrderInv, R!OrderSafety, R!InRepertoire, Counted, R!ItemsCounted
<1>11. p4' \subseteq R!Spots
  BY <1>1, <1>4, OrderTyped DEF R!Spots
<1>12. \A m \in R!TheLists, i \in R!Items :
          <<m, i>> \in p4' \/ p1'[m][i] = 0 \/ (p1'[m][i] = p1[m][i] /\ <<m, i>> \notin p4)
  BY <1>1, <1>8
<1>. QED  BY <1>1, <1>7, <1>10, <1>11, <1>12, OrderTyped, ListsChange

\* An item is taken out of a list.
LEMMA OrderRemoves ==
    ASSUME OrderInv, NEW l \in R!TheLists, NEW i \in R!Items, R!RemoveItem(l, i)
    PROVE  OrderInv'
<1>1. /\ p1' = [p1 EXCEPT ![l] = [p1[l] EXCEPT ![i] = 0]] /\ p4' = p4 \ {<<l, i>>}
      /\ p5' = IF l = "show" THEN p5 \ {i} ELSE p5
      /\ UNCHANGED <<p2, p3>> /\ (l # "show" => i \in Marks)
  BY OrderTyped DEF R!RemoveItem
<1>2. 0 \in 0 .. MaxPlace
  BY WorkspaceBounds
<1>3. p1' \in [R!TheLists -> [R!Items -> 0 .. MaxPlace]]
  BY <1>1, <1>2, OrderTyped
<1>4. \A m \in R!TheLists, j \in R!Items :
         p1'[m][j] = IF m = l /\ j = i THEN 0 ELSE p1[m][j]
  BY <1>1, OrderTyped
<1>5. \A m \in R!TheLists :
         R!OnList(m)' = IF m = l THEN R!OnList(m) \ {i} ELSE R!OnList(m)
  BY <1>4 DEF R!OnList
<1>6. R!InRepertoire'
  BY <1>1, <1>5, OrderCounts, WorkspaceBounds
     DEF OrderInv, R!OrderSafety, R!InRepertoire
<1>7. Counted' \subseteq Counted
  BY <1>1, <1>5, OrderCounts DEF Counted, R!ItemsCounted
<1>8. \A m \in R!TheLists, j \in R!Items :
         <<m, j>> \in p4' \/ p1'[m][j] = 0 \/ (p1'[m][j] = p1[m][j] /\ <<m, j>> \notin p4)
  BY <1>1, <1>4
<1>9. p4' \subseteq R!Spots /\ p5' \subseteq Numbers
  BY <1>1, OrderTyped
<1>. QED  BY <1>1, <1>3, <1>6, <1>7, <1>8, <1>9, OrderTyped, ListsChange

\* Songs go to the trash, come back, and go for good.
LEMMA OrderTrashes ==
    ASSUME OrderInv, NEW i \in Numbers,
           R!TrashNumber(i) \/ R!RestoreNumber(i) \/ R!PurgeNumber(i)
    PROVE  OrderInv'
<1>1. CASE R!TrashNumber(i) \/ R!RestoreNumber(i)
  <2>1. UNCHANGED <<p1, p3, p4>> /\ p2' \subseteq Numbers /\ p5' \subseteq Numbers
    BY <1>1, OrderTyped DEF R!TrashNumber, R!RestoreNumber
  <2>2. \A m : R!OnList(m)' = R!OnList(m)
    BY <2>1 DEF R!OnList
  <2>3. R!InRepertoire'
    BY <2>2 DEF OrderInv, R!OrderSafety, R!InRepertoire
  <2>4. Counted' \subseteq Counted
    <3>1. CASE R!TrashNumber(i)
      BY <2>2, <3>1 DEF R!TrashNumber, Counted, R!ItemsCounted
    <3>2. CASE R!RestoreNumber(i)
      BY <2>2, <3>2 DEF R!RestoreNumber, Counted, R!ItemsCounted
    <3>. QED  BY <1>1, <3>1, <3>2
  <2>. QED  BY <2>1, <2>3, <2>4, OrderTyped, ListsChange
<1>2. CASE R!PurgeNumber(i)
  <2>1. /\ p1' = [l \in R!TheLists |-> [p1[l] EXCEPT ![i] = 0]] /\ p2' = p2 \ {i}
        /\ p4' = p4 \ {<<l, i>> : l \in R!TheLists} /\ p5' = p5 \ {i}
        /\ p3' = [x \in Requests |-> IF p3[x].item = i THEN R!NoHand ELSE p3[x]]
    BY <1>2 DEF R!PurgeNumber
  <2>2. 0 \in 0 .. MaxPlace /\ i \in R!Items
    BY WorkspaceBounds DEF R!Items
  <2>3. p1' \in [R!TheLists -> [R!Items -> 0 .. MaxPlace]]
    BY <2>1, <2>2, OrderTyped
  <2>4. \A m \in R!TheLists, j \in R!Items : p1'[m][j] = IF j = i THEN 0 ELSE p1[m][j]
    BY <2>1, <2>2, OrderTyped
  <2>5. \A m \in R!TheLists : R!OnList(m)' = R!OnList(m) \ {i}
    BY <2>4 DEF R!OnList
  <2>6. R!InRepertoire'
    BY <2>5, OrderCounts DEF OrderInv, R!OrderSafety, R!InRepertoire
  <2>7. Counted' \subseteq Counted
    BY <2>1, <2>5, OrderCounts DEF Counted, R!ItemsCounted
  <2>8. \A m \in R!TheLists, j \in R!Items :
           <<m, j>> \in p4' \/ p1'[m][j] = 0 \/ (p1'[m][j] = p1[m][j] /\ <<m, j>> \notin p4)
    BY <2>1, <2>4
  <2>9. /\ p3' \in [Requests -> R!HandRecords]
        /\ \A x \in Requests : p3'[x] = p3[x] \/ p3'[x].pc = "idle"
    BY <2>1, OrderTyped
  <2>10. p2' \subseteq Numbers /\ p4' \subseteq R!Spots /\ p5' \subseteq Numbers
    BY <2>1, OrderTyped
  <2>. QED  BY <2>3, <2>6, <2>7, <2>8, <2>9, <2>10, ListsChange
<1>. QED  BY <1>1, <1>2

\* What is added goes past what nobody reordered, in its list and, for a song
\* of a setlist, in the repertoire.
LEMMA OrderCommits ==
    ASSUME OrderInv, NEW x \in Requests, R!CommitAppend(x)
    PROVE  OrderInv'
<1>. DEFINE h == p3[x]
            i == h.item
            both == h.item \in Numbers /\ h.list = "show"
            new(l) == IF l = h.list THEN h.at ELSE R!NextPlace(l)
            grows(l) == l = h.list \/ both
<1>1. /\ h.pc = "appended" /\ p3' = [p3 EXCEPT ![x] = R!NoHand] /\ UNCHANGED <<p2, p4, p5>>
      /\ both => R!ListFree(x, "repertoire") /\ R!NextPlace("repertoire") <= MaxPlace
      /\ p1' = [l \in R!TheLists |->
                   IF l = h.list THEN R!With(l, h.item, h.at)
                   ELSE IF both THEN R!With(l, h.item, R!NextPlace(l)) ELSE p1[l]]
  BY DEF R!CommitAppend, R!SetHand
<1>2. /\ h \in R!HandRecords /\ h.list \in R!TheLists /\ h.at \in 0 .. MaxPlace /\ HandFits(x)
      /\ i \in R!Items /\ Busy(x) /\ h.at > 0
      /\ \A j \in R!Items : <<h.list, j>> \in p4 \/ p1[h.list][j] < h.at
  BY <1>1, OrderTyped DEF OrderInv, HandFits, Busy
<1>3. ASSUME NEW l \in R!TheLists, grows(l)
      PROVE  /\ new(l) \in 0 .. MaxPlace /\ new(l) > 0
             /\ \A j \in R!Items : <<l, j>> \in p4 \/ p1[l][j] < new(l)
  <2>1. CASE l = h.list
    BY <1>2, <2>1
  <2>2. CASE l # h.list
    <3>1. both /\ l = "repertoire"
      BY <1>2, <1>3, <2>2, OrderCounts
    <3>2. /\ R!NextPlace(l) \in Nat /\ R!NextPlace(l) > 0 /\ R!NextPlace(l) <= MaxPlace
          /\ \A j \in R!Items : p1[l][j] < R!NextPlace(l)
      BY <1>1, <3>1, NextPlacePast
    <3>. QED  BY <2>2, <3>2, WorkspaceBounds
  <2>. QED  BY <2>1, <2>2
<1>4. ASSUME NEW l \in R!TheLists
      PROVE  p1'[l] = IF grows(l) /\ ~(p1[l][i] > 0) THEN [p1[l] EXCEPT ![i] = new(l)]
                      ELSE p1[l]
  BY <1>1 DEF R!With
<1>. HIDE DEF new
<1>5. p1' \in [R!TheLists -> [R!Items -> 0 .. MaxPlace]]
  <2>1. \A l \in R!TheLists : p1'[l] \in [R!Items -> 0 .. MaxPlace]
    BY <1>2, <1>3, <1>4, OrderTyped
  <2>2. p1' = [l \in R!TheLists |-> p1'[l]]
    BY <1>1
  <2>. QED  BY <2>1, <2>2
<1>6. ASSUME NEW l \in R!TheLists, NEW j \in R!Items
      PROVE  p1'[l][j] = IF j = i /\ grows(l) /\ ~(p1[l][i] > 0) THEN new(l) ELSE p1[l][j]
  BY <1>2, <1>4, OrderTyped
<1>7. ASSUME NEW l \in R!TheLists
      PROVE  R!OnList(l)' = IF grows(l) THEN R!OnList(l) \cup {i} ELSE R!OnList(l)
  BY <1>2, <1>3, <1>6 DEF R!OnList
<1>8. R!AppendedApart'
  <2>. SUFFICES ASSUME NEW l \in R!TheLists, NEW j \in R!Items, NEW k \in R!Items, j # k,
                       p1'[l][j] > 0, p1'[l][k] > 0, p1'[l][j] = p1'[l][k],
                       <<l, j>> \notin p4, <<l, k>> \notin p4
                PROVE  FALSE
    BY <1>1 DEF R!AppendedApart, R!OnList
  <2>1. CASE p1'[l][j] = p1[l][j] /\ p1'[l][k] = p1[l][k]
    BY <2>1 DEF OrderInv, R!OrderSafety, R!AppendedApart, R!OnList
  <2>2. CASE p1'[l][j] # p1[l][j]
    <3>1. j = i /\ grows(l) /\ p1'[l][j] = new(l) /\ p1'[l][k] = p1[l][k]
      BY <1>6, <2>2
    <3>. QED  BY <1>3, <3>1, OrderTyped, WorkspaceBounds
  <2>3. CASE p1'[l][k] # p1[l][k]
    <3>1. k = i /\ grows(l) /\ p1'[l][k] = new(l) /\ p1'[l][j] = p1[l][j]
      BY <1>6, <2>3
    <3>. QED  BY <1>3, <3>1, OrderTyped, WorkspaceBounds
  <2>. QED  BY <2>1, <2>2, <2>3
<1>9. R!InRepertoire'
  <2>1. R!OnList("show") \cap Numbers \subseteq R!OnList("repertoire")
    BY DEF OrderInv, R!OrderSafety, R!InRepertoire
  <2>2. R!OnList("repertoire") \subseteq R!OnList("repertoire")'
    BY <1>7, OrderCounts
  <2>3. \/ R!OnList("show")' = R!OnList("show")
        \/ h.list = "show" /\ R!OnList("show")' = R!OnList("show") \cup {i}
    BY <1>7, OrderCounts
  <2>4. h.list = "show" /\ i \in Numbers => i \in R!OnList("repertoire")'
    BY <1>7, OrderCounts
  <2>. QED  BY <2>1, <2>2, <2>3, <2>4 DEF R!InRepertoire
<1>10. /\ h.list # "show" => Counted' = Counted
       /\ h.list = "show" => Counted' \subseteq Counted \cup {i}
  BY <1>1, <1>7, OrderCounts DEF Counted, R!ItemsCounted
<1>11. Cardinality(Counted') <= ItemLimit
  <2>1. Cardinality(Counted) <= ItemLimit
    BY OrderCounts DEF OrderInv, R!OrderSafety, R!ItemsWithinLimit, Counted
  <2>2. CASE h.list = "show"
    <3>1. Counted \subseteq R!Items
      BY DEF Counted, R!ItemsCounted, R!OnList
    <3>2. /\ Cardinality(Counted \cup {i}) = Cardinality(Counted)
               \/ Cardinality(Counted \cup {i}) = Cardinality(Counted) + 1
          /\ IsFiniteSet(Counted \cup {i})
      BY <3>1, OrderTyped, FS_AddElement
    <3>3. Cardinality(Counted) + 1 <= ItemLimit
      BY <1>2, <2>2 DEF HandFits
    <3>4. Cardinality(Counted') <= Cardinality(Counted \cup {i})
      BY <1>10, <2>2, <3>2, FS_Subset
    <3>5. Cardinality(Counted') \in Nat /\ Cardinality(Counted) \in Nat
      BY <1>2, <1>10, <2>2, <3>1, OrderTyped
    <3>. QED  BY <2>1, <3>2, <3>3, <3>4, <3>5, WorkspaceBounds
  <2>. QED  BY <1>10, <2>1, <2>2
<1>12. R!OrderSafety'
  BY <1>8, <1>9, <1>11, OrderCounts DEF R!OrderSafety, R!ItemsWithinLimit, Counted
<1>13. p3' \in [Requests -> R!HandRecords] /\ p3'[x].pc = "idle"
       /\ \A y \in Requests \ {x} : p3'[y] = p3[y]
  BY <1>1, OrderTyped
<1>14. R!OrderTypeOK'
  BY <1>1, <1>5, <1>13, OrderTyped DEF R!OrderTypeOK
<1>15. ASSUME NEW y \in Requests \ {x}, Busy(y)
       PROVE  ~grows(p3[y].list)
  <2>1. p3[y].list # h.list
    BY <1>2, <1>15 DEF OrderInv
  <2>2. both => p3[y].list # "repertoire"
    BY <1>1, <1>15 DEF R!ListFree, Busy
  <2>3. p3[y].list \in R!TheLists
    BY OrderTyped
  <2>. QED  BY <2>1, <2>2, <2>3, OrderCounts
<1>16. ASSUME NEW y \in Requests
       PROVE  HandFits(y)'
  <2>1. CASE ~Busy(y) \/ y = x
    BY <1>13, <2>1 DEF HandFits, Busy
  <2>2. CASE Busy(y) /\ y # x
    <3>1. ~grows(p3[y].list) /\ p3'[y] = p3[y] /\ HandFits(y) /\ p3[y].list \in R!TheLists
      BY <1>13, <1>15, <2>2, OrderTyped DEF OrderInv
    <3>2. p1'[p3[y].list] = p1[p3[y].list]
      BY <1>4, <3>1
    <3>3. p3[y].list = "show" => Counted' = Counted
      BY <1>10, <3>1
    <3>. QED  BY <1>1, <2>2, <3>1, <3>2, <3>3 DEF HandFits, Busy
  <2>. QED  BY <2>1, <2>2
<1>17. (\A y, z \in Requests : Busy(y) /\ Busy(z) /\ p3[y].list = p3[z].list => y = z)'
  BY <1>13 DEF OrderInv, Busy
<1>. QED  BY <1>12, <1>14, <1>16, <1>17 DEF OrderInv

\* Whatever happens next, items are added one after the other.
LEMMA OrderMoves == OrderInv /\ R!OrderNext => OrderInv'
BY OrderLocks, OrderAppends, OrderCommits, OrderAborts, OrderReorders, OrderRemoves,
   OrderTrashes DEF R!OrderNext

-----------------------------------------------------------------------------
(* Shared setlists: p1 is the accounts, p2 the collaborators, p3 the songs, *)
(* p4 what setlists link, p5 what they hold, p6 the requests, p7 the        *)
(* contributions, p8 those a setlist is owed, p9 those that met a removal.  *)

\* Songs a request is about to move away, and what it does not find linked.
Removes(x) == p6[x].pc \in {"song", "artist", "account"}
Going(x, s) == IF p6[x].pc = "song" THEN s = p6[x].piece ELSE PieceOwner[s] = p6[x].who
Foreign(e) == ListOwner[e[1]] # PieceOwner[e[2]]

\* A removal has copied whatever it takes away that its setlist is owed.
TaskFits(x) ==
    /\ p6[x].pc \in {"add", "drop"} => p6[x].list \in Lists /\ p6[x].piece \in Pieces
    /\ p6[x].pc \in {"add", "song"} =>
         p6[x].piece \in Pieces /\ PieceOwner[p6[x].piece] = p6[x].who
    /\ ~Removes(x) => p6[x].moved = {}
    /\ p6[x].moved \subseteq p4
    /\ \A e \in p6[x].moved : PieceOwner[e[2]] = p6[x].who /\ Foreign(e)
    /\ Removes(x) =>
         \A e \in L!Entries :
            Going(x, e[2]) /\ Foreign(e) /\ e \notin p6[x].moved /\ L!LiveList(e[1])
               => p8[e] <= p5[e]

\* A setlist shows what it is owed, and holds no more than it was given; songs
\* of its owner are not contributions.
EntryFits(e) ==
    /\ L!LiveList(e[1]) => p8[e] <= L!Shown(e) /\ L!Copies(e) <= p7[e]
    /\ ~Foreign(e) => p8[e] = 0

\* No two requests move the same away.
SharedInv ==
    /\ L!SharedTypeOK
    /\ \A e \in L!Entries : EntryFits(e)
    /\ \A x \in Requests : TaskFits(x)
    /\ \A x, y \in Requests : x # y => p6[x].moved \cap p6[y].moved = {}

\* The types, one by one.
LEMMA SharedTyped ==
    ASSUME SharedInv
    PROVE  /\ p1 \subseteq Players
           /\ p2 \in [Lists -> [Players -> [role : 0 .. 3, accepted : BOOLEAN]]]
           /\ p3 \in [Pieces -> {"live", "trash", "gone"}]
           /\ p4 \subseteq L!Entries /\ p5 \in [L!Entries -> Nat]
           /\ p6 \in [Requests -> L!TaskRecords]
           /\ p7 \in [L!Entries -> Nat] /\ p8 \in [L!Entries -> Nat]
           /\ p9 \in [L!Entries -> Nat] /\ p10 \in Nat /\ p11 \in Nat
           /\ \A x \in Requests : p6[x] \in L!TaskRecords
           /\ \A e \in L!Entries : p5[e] \in Nat /\ p7[e] \in Nat /\ p8[e] \in Nat
BY DEF SharedInv, L!SharedTypeOK, L!Manager

\* An entry is of a setlist and a song.
LEMMA EntriesAre ==
    /\ \A e \in L!Entries : e[1] \in Lists /\ e[2] \in Pieces
    /\ \A l \in Lists, s \in Pieces : <<l, s>> \in L!Entries
    /\ \A e \in L!Entries : ListOwner[e[1]] \in Players /\ PieceOwner[e[2]] \in Players
BY WorkspaceBounds DEF L!Entries

\* No request.
LEMMA NoTaskFits ==
    /\ L!NoTask \in L!TaskRecords /\ L!NoTask.pc = "idle" /\ L!NoTask.moved = {}
BY DEF L!NoTask, L!TaskRecords, L!TaskPCs

\* Nobody shares yet.
LEMMA SharedStarts == L!SharedInit => SharedInv
<1>. SUFFICES ASSUME L!SharedInit
              PROVE  SharedInv
  OBVIOUS
<1>1. /\ p1 = Players /\ p3 = [s \in Pieces |-> "live"]
      /\ p2 = [l \in Lists |-> [u \in Players |-> L!Stranger]]
      /\ p4 = {} /\ p5 = [e \in L!Entries |-> 0] /\ p6 = [x \in Requests |-> L!NoTask]
      /\ p7 = [e \in L!Entries |-> 0] /\ p8 = [e \in L!Entries |-> 0]
      /\ p9 = [e \in L!Entries |-> 0] /\ p10 = 0 /\ p11 = 0
  BY DEF L!SharedInit
<1>2. L!SharedTypeOK
  <2>1. L!Stranger \in [role : 0 .. L!Manager, accepted : BOOLEAN]
    BY DEF L!Stranger, L!Manager
  <2>. QED  BY <1>1, <2>1, NoTaskFits DEF L!SharedTypeOK
<1>3. ASSUME NEW e \in L!Entries
      PROVE  EntryFits(e)
  BY <1>1 DEF EntryFits, L!Shown, L!Copies, L!Visible
<1>4. ASSUME NEW x \in Requests
      PROVE  TaskFits(x)
  BY <1>1, NoTaskFits DEF TaskFits, Removes
<1>. QED  BY <1>1, <1>2, <1>3, <1>4, NoTaskFits DEF SharedInv

\* Requests under way stay fit when what they move stays linked, and what they
\* left is owed no more than before; one of them may end.
LEMMA TasksStay ==
    ASSUME SharedInv,
           p6' = p6 \/ \E x \in Requests : p6' = [p6 EXCEPT ![x] = L!NoTask],
           p1' \subseteq p1,
           \A y \in Requests : p6'[y] = p6[y] => p6[y].moved \subseteq p4',
           \A e \in L!Entries :
              L!LiveList(e[1])' /\ Foreign(e) /\ p8[e] <= p5[e]
                 => \/ p8'[e] <= p5'[e]
                    \/ ~L!RemovalUnderWay(e[2]) /\ ~L!PieceLocked(e[2])
    PROVE  /\ p6' \in [Requests -> L!TaskRecords]
           /\ \A y \in Requests : TaskFits(y)'
           /\ \A x, y \in Requests : x # y => p6'[x].moved \cap p6'[y].moved = {}
<1>1. ASSUME NEW y \in Requests
      PROVE  p6'[y] = p6[y] \/ p6'[y] = L!NoTask
  BY SharedTyped
<1>2. p6' \in [Requests -> L!TaskRecords]
  BY SharedTyped, NoTaskFits
<1>3. ASSUME NEW y \in Requests
      PROVE  TaskFits(y)'
  <2>1. CASE p6'[y] = L!NoTask
    BY <2>1, NoTaskFits DEF TaskFits, Removes
  <2>2. CASE p6'[y] = p6[y]
    <3>1. TaskFits(y) /\ p6[y].moved \subseteq p4'
      BY <2>2 DEF SharedInv
    <3>2. ASSUME Removes(y), NEW e \in L!Entries, Going(y, e[2]), Foreign(e),
                 e \notin p6[y].moved, L!LiveList(e[1])'
          PROVE  p8'[e] <= p5'[e]
      <4>1. L!LiveList(e[1])
        BY <3>2 DEF L!LiveList
      <4>2. p8[e] <= p5[e]
        BY <3>1, <3>2, <4>1 DEF TaskFits
      <4>3. L!RemovalUnderWay(e[2]) \/ L!PieceLocked(e[2])
        BY <3>1, <3>2 DEF TaskFits, Going, Removes, L!RemovalUnderWay, L!PieceLocked
      <4>. QED  BY <3>2, <4>2, <4>3
    <3>3. (Removes(y)' <=> Removes(y)) /\ \A s : Going(y, s)' <=> Going(y, s)
      BY <2>2 DEF Removes, Going
    <3>. QED  BY <2>2, <3>1, <3>2, <3>3 DEF TaskFits, Foreign
  <2>. QED  BY <1>1, <2>1, <2>2
<1>4. ASSUME NEW x \in Requests, NEW y \in Requests, x # y
      PROVE  p6'[x].moved \cap p6'[y].moved = {}
  BY <1>1, <1>4, NoTaskFits DEF SharedInv
<1>. QED  BY <1>2, <1>3, <1>4

\* A request comes in, or is cut off.
LEMMA TaskChanges ==
    ASSUME SharedInv, NEW x \in Requests, NEW r \in L!TaskRecords,
           p6' = [p6 EXCEPT ![x] = r], TaskFits(x)',
           UNCHANGED <<p1, p2, p3, p4, p5, p7, p8, p9, p10, p11>>,
           \A y \in Requests \ {x} : r.moved \cap p6[y].moved = {}
    PROVE  SharedInv'
<1>1. /\ p6' \in [Requests -> L!TaskRecords] /\ p6'[x] = r
      /\ \A y \in Requests \ {x} : p6'[y] = p6[y]
  BY SharedTyped
<1>2. L!SharedTypeOK'
  BY <1>1 DEF SharedInv, L!SharedTypeOK
<1>3. ASSUME NEW e \in L!Entries
      PROVE  EntryFits(e)'
  BY DEF SharedInv, EntryFits, L!LiveList, L!Shown, L!Copies, L!Visible, L!Standing, Foreign
<1>4. ASSUME NEW y \in Requests
      PROVE  TaskFits(y)'
  <2>1. CASE y # x
    BY <1>1, <2>1 DEF SharedInv, TaskFits, Removes, Going, L!LiveList, Foreign
  <2>. QED  BY <2>1
<1>5. ASSUME NEW y \in Requests, NEW z \in Requests, y # z
      PROVE  p6'[y].moved \cap p6'[z].moved = {}
  BY <1>1, <1>5 DEF SharedInv
<1>. QED  BY <1>2, <1>3, <1>4, <1>5 DEF SharedInv

\* Collaborators change, and nobody who stood in a setlist stands out of it.
LEMMA CollabChanges ==
    ASSUME SharedInv, UNCHANGED <<p1, p3, p4, p5, p6, p7, p8, p9, p11>>, p10' \in Nat,
           p2' \in [Lists -> [Players -> [role : 0 .. 3, accepted : BOOLEAN]]],
           \A l \in Lists, u \in Players : L!Standing(l, u) > 0 => L!Standing(l, u)' > 0
    PROVE  SharedInv'
<1>1. L!SharedTypeOK'
  BY DEF SharedInv, L!SharedTypeOK, L!Manager
<1>2. ASSUME NEW e \in L!Entries
      PROVE  EntryFits(e)'
  <2>1. L!Visible(e) => L!Visible(e)'
    BY EntriesAre DEF L!Visible
  <2>2. EntryFits(e) /\ p8[e] \in Nat /\ p5[e] \in Nat
    BY SharedTyped DEF SharedInv
  <2>3. L!Shown(e) <= L!Shown(e)'
    BY <2>1, <2>2 DEF L!Shown
  <2>4. L!Shown(e) \in Nat /\ L!Shown(e)' \in Nat
    BY <2>2 DEF L!Shown
  <2>. QED  BY <2>2, <2>3, <2>4 DEF EntryFits, L!LiveList, L!Copies, Foreign
<1>3. ASSUME NEW y \in Requests
      PROVE  TaskFits(y)'
  BY DEF SharedInv, TaskFits, Removes, Going, L!LiveList, Foreign
<1>. QED  BY <1>1, <1>2, <1>3 DEF SharedInv

\* Invitations, their answers, and roles.
LEMMA SharedInvites ==
    ASSUME SharedInv, NEW l \in Lists, NEW u \in Players,
           \/ L!AcceptInvitation(l, u) \/ L!DeclineInvitation(l, u)
           \/ \E a \in Players, r \in L!Viewer .. L!Manager :
                 L!Invite(l, a, u, r) \/ L!ChangeCollabRole(l, a, u, r)
    PROVE  SharedInv'
<1>1. UNCHANGED <<p1, p3, p4, p5, p6, p7, p8, p9, p11>> /\ p10' \in Nat
  BY SharedTyped
     DEF L!AcceptInvitation, L!DeclineInvitation, L!Invite, L!ChangeCollabRole,
         L!libraryVars, L!ghostVars, L!boundVars
<1>2. PICK c \in [role : 0 .. 3, accepted : BOOLEAN] :
         /\ p2' = [p2 EXCEPT ![l] = [p2[l] EXCEPT ![u] = c]]
         /\ p2[l][u].accepted /\ p2[l][u].role > 0 => c.accepted /\ c.role > 0
  <2>1. p2[l][u] \in [role : 0 .. 3, accepted : BOOLEAN] /\ p2[l] \in [Players ->
          [role : 0 .. 3, accepted : BOOLEAN]]
    BY SharedTyped
  <2>2. L!Stranger \in [role : 0 .. 3, accepted : BOOLEAN]
    BY DEF L!Stranger
  <2>3. CASE L!AcceptInvitation(l, u)
    <3>. DEFINE c == [p2[l][u] EXCEPT !.accepted = TRUE]
    <3>1. c \in [role : 0 .. 3, accepted : BOOLEAN] /\ c.accepted /\ c.role = p2[l][u].role
      BY <2>1
    <3>2. p2' = [p2 EXCEPT ![l] = [p2[l] EXCEPT ![u] = c]]
      BY <2>1, <2>3, SharedTyped DEF L!AcceptInvitation
    <3>. QED  BY <3>1, <3>2
  <2>4. CASE L!DeclineInvitation(l, u)
    <3>1. p2' = [p2 EXCEPT ![l] = [p2[l] EXCEPT ![u] = L!Stranger]] /\ ~p2[l][u].accepted
      BY <2>1, <2>4, SharedTyped DEF L!DeclineInvitation
    <3>. QED  BY <2>2, <3>1
  <2>5. ASSUME NEW a \in Players, NEW r \in L!Viewer .. L!Manager, L!Invite(l, a, u, r)
        PROVE  \E c \in [role : 0 .. 3, accepted : BOOLEAN] :
                 /\ p2' = [p2 EXCEPT ![l] = [p2[l] EXCEPT ![u] = c]]
                 /\ p2[l][u].accepted /\ p2[l][u].role > 0 => c.accepted /\ c.role > 0
    <3>. DEFINE c == [role |-> r, accepted |-> FALSE]
    <3>1. c \in [role : 0 .. 3, accepted : BOOLEAN]
      BY DEF L!Viewer, L!Manager
    <3>2. p2' = [p2 EXCEPT ![l] = [p2[l] EXCEPT ![u] = c]] /\ ~p2[l][u].accepted
      BY <2>1, <2>5, SharedTyped DEF L!Invite, L!Stranger
    <3>. QED  BY <3>1, <3>2
  <2>6. ASSUME NEW a \in Players, NEW r \in L!Viewer .. L!Manager,
               L!ChangeCollabRole(l, a, u, r)
        PROVE  \E c \in [role : 0 .. 3, accepted : BOOLEAN] :
                 /\ p2' = [p2 EXCEPT ![l] = [p2[l] EXCEPT ![u] = c]]
                 /\ p2[l][u].accepted /\ p2[l][u].role > 0 => c.accepted /\ c.role > 0
    <3>. DEFINE c == [p2[l][u] EXCEPT !.role = r]
    <3>1. /\ c \in [role : 0 .. 3, accepted : BOOLEAN] /\ c.accepted = p2[l][u].accepted
          /\ c.role > 0
      BY <2>1 DEF L!Viewer, L!Manager
    <3>2. p2' = [p2 EXCEPT ![l] = [p2[l] EXCEPT ![u] = c]]
      BY <2>1, <2>6, SharedTyped DEF L!ChangeCollabRole
    <3>. QED  BY <3>1, <3>2
  <2>. QED  BY <2>3, <2>4, <2>5, <2>6
<1>3. p2' \in [Lists -> [Players -> [role : 0 .. 3, accepted : BOOLEAN]]]
  BY <1>2, SharedTyped
<1>4. ASSUME NEW m \in Lists, NEW v \in Players, L!Standing(m, v) > 0
      PROVE  L!Standing(m, v)' > 0
  <2>1. p2'[m][v] = p2[m][v] \/ (m = l /\ v = u /\ p2'[m][v] = c)
    BY <1>2, SharedTyped
  <2>. QED  BY <1>2, <1>4, <2>1 DEF L!Standing, L!Manager
<1>. QED  BY <1>1, <1>3, <1>4, CollabChanges

\* Somebody is removed or leaves: what they contributed is held from then on.
LEMMA SharedLeaves ==
    ASSUME SharedInv, NEW l \in Lists, NEW u \in Players, NEW a \in Players,
           L!RemoveCollab(l, a, u)
    PROVE  SharedInv'
<1>. DEFINE theirs == {e \in L!Contributed(u) : e[1] = l}
<1>1. /\ UNCHANGED <<p1, p3, p6, p7, p8, p9, p10, p11>>
      /\ p4' = p4 \ theirs
      /\ p5' = [e \in L!Entries |-> IF e \in theirs THEN p5[e] + 1 ELSE p5[e]]
      /\ p2' = [p2 EXCEPT ![l] = [p2[l] EXCEPT ![u] = L!Stranger]]
      /\ \A e \in theirs, y \in Requests : e \notin p6[y].moved
  BY DEF L!RemoveCollab, L!libraryVars, L!ghostVars, L!boundVars, L!Detached,
     L!EntriesFree, L!EntryFree
<1>2. p2' \in [Lists -> [Players -> [role : 0 .. 3, accepted : BOOLEAN]]]
  BY <1>1, SharedTyped DEF L!Stranger
<1>3. p5' \in [L!Entries -> Nat] /\ p4' \subseteq L!Entries
  BY <1>1, SharedTyped
<1>4. L!SharedTypeOK'
  BY <1>1, <1>2, <1>3, SharedTyped DEF L!SharedTypeOK, L!Manager
<1>5. ASSUME NEW e \in L!Entries
      PROVE  EntryFits(e)'
  <2>1. EntryFits(e) /\ p8[e] \in Nat /\ p5[e] \in Nat /\ p7[e] \in Nat
    BY SharedTyped DEF SharedInv
  <2>2. CASE e \in theirs
    <3>1. e \in p4 /\ e \notin p4' /\ p5'[e] = p5[e] + 1
      BY <1>1, <2>2 DEF L!Contributed
    <3>2. L!Shown(e) <= L!Shown(e)' /\ L!Copies(e)' = L!Copies(e) /\ L!Shown(e) \in Nat
          /\ L!Shown(e)' \in Nat
      BY <2>1, <3>1 DEF L!Shown, L!Copies, L!Visible
    <3>. QED  BY <1>1, <2>1, <3>2 DEF EntryFits, L!LiveList, Foreign
  <2>3. CASE e \notin theirs
    <3>1. (e \in p4' <=> e \in p4) /\ p5'[e] = p5[e]
      BY <1>1, <2>3
    <3>2. L!Visible(e) => L!Visible(e)'
      <4>1. e[1] \in Lists /\ e[2] \in Pieces /\ PieceOwner[e[2]] \in Players
        BY EntriesAre
      <4>2. CASE e[1] = l /\ PieceOwner[e[2]] = u /\ ListOwner[l] # u
        BY <2>3, <4>2 DEF L!Visible, L!Contributed
      <4>3. CASE ListOwner[e[1]] = PieceOwner[e[2]]
        BY <1>1, <3>1, <4>3 DEF L!Visible, L!Standing, L!Manager
      <4>4. CASE e[1] # l \/ PieceOwner[e[2]] # u
        <5>1. p2'[e[1]][PieceOwner[e[2]]] = p2[e[1]][PieceOwner[e[2]]]
          BY <1>1, <4>1, <4>4, SharedTyped
        <5>. QED  BY <1>1, <3>1, <5>1 DEF L!Visible, L!Standing
      <4>. QED  BY <4>2, <4>3, <4>4
    <3>3. L!Shown(e) <= L!Shown(e)' /\ L!Copies(e)' = L!Copies(e) /\ L!Shown(e) \in Nat
          /\ L!Shown(e)' \in Nat
      BY <2>1, <3>1, <3>2 DEF L!Shown, L!Copies
    <3>. QED  BY <1>1, <2>1, <3>3 DEF EntryFits, L!LiveList, Foreign
  <2>. QED  BY <2>2, <2>3
<1>6. /\ p6' \in [Requests -> L!TaskRecords] /\ \A y \in Requests : TaskFits(y)'
      /\ \A x, y \in Requests : x # y => p6'[x].moved \cap p6'[y].moved = {}
  <2>1. \A y \in Requests : p6[y].moved \subseteq p4'
    BY <1>1 DEF SharedInv, TaskFits
  <2>2. \A e \in L!Entries : p8[e] <= p5[e] => p8'[e] <= p5'[e]
    BY <1>1, SharedTyped
  <2>. QED  BY <1>1, <2>1, <2>2, TasksStay
<1>. QED  BY <1>4, <1>5, <1>6 DEF SharedInv

\* A request comes in or is cut off.
LEMMA SharedAsks ==
    ASSUME SharedInv, NEW x \in Requests,
           \/ \E l \in Lists, u \in Players, s \in Pieces :
                 L!AskAdd(x, l, u, s) \/ L!AskDrop(x, l, u, s)
           \/ \E s \in Pieces : L!BeginTrashSong(x, s)
           \/ \E u \in Players : L!BeginTrashArtist(x, u) \/ L!BeginDeleteAccount(x, u)
           \/ L!AbortTask(x)
    PROVE  SharedInv'
<1>1. UNCHANGED <<p1, p2, p3, p4, p5, p7, p8, p9, p10, p11>>
  BY DEF L!AskAdd, L!AskDrop, L!BeginTrashSong, L!BeginTrashArtist, L!BeginDeleteAccount,
     L!AbortTask, L!libraryVars, L!ghostVars, L!boundVars
<1>2. CASE L!AbortTask(x)
  <2>1. p6' = [p6 EXCEPT ![x] = L!NoTask]
    BY <1>2 DEF L!AbortTask, L!EndTask
  <2>2. p6'[x] = L!NoTask
    BY <2>1, SharedTyped
  <2>3. TaskFits(x)'
    BY <2>2, NoTaskFits DEF TaskFits, Removes
  <2>. QED  BY <1>1, <2>1, <2>3, NoTaskFits, TaskChanges
<1>3. ASSUME NEW l \in Lists, NEW u \in Players, NEW s \in Pieces,
             L!AskAdd(x, l, u, s) \/ L!AskDrop(x, l, u, s)
      PROVE  SharedInv'
  <2>1. PICK r : /\ p6' = [p6 EXCEPT ![x] = r]
                 /\ \/ r = [pc |-> "add", who |-> u, list |-> l, piece |-> s, moved |-> {}]
                       /\ PieceOwner[s] = u
                    \/ r = [pc |-> "drop", who |-> u, list |-> l, piece |-> s, moved |-> {}]
    BY <1>3 DEF L!AskAdd, L!AskDrop, L!StartTask
  <2>2. r \in L!TaskRecords /\ r.moved = {}
    BY <2>1 DEF L!TaskRecords, L!TaskPCs
  <2>3. p6'[x] = r
    BY <2>1, SharedTyped
  <2>4. TaskFits(x)'
    BY <2>1, <2>3 DEF TaskFits, Removes
  <2>. QED  BY <1>1, <2>1, <2>2, <2>4, TaskChanges
<1>4. ASSUME NEW pc \in {"song", "artist", "account"}, NEW u \in Players,
             NEW s \in Pieces \cup {"none"}, NEW theirs \in SUBSET L!Contributed(u),
             pc = "song" => s \in Pieces /\ PieceOwner[s] = u,
             \A e \in L!Contributed(u) :
                (IF pc = "song" THEN e[2] = s ELSE TRUE) => e \in theirs,
             L!EntriesFree(theirs), L!StartTask(x, pc, u, "none", s, theirs)
      PROVE  SharedInv'
  <2>. DEFINE r == [pc |-> pc, who |-> u, list |-> "none", piece |-> s, moved |-> theirs]
  <2>1. p6' = [p6 EXCEPT ![x] = r]
    BY <1>4 DEF L!StartTask
  <2>2. r \in L!TaskRecords
    BY <1>4, SharedTyped DEF L!TaskRecords, L!TaskPCs, L!Contributed
  <2>3. p6'[x] = r
    BY <2>1, SharedTyped
  <2>4. \A y \in Requests \ {x} : r.moved \cap p6[y].moved = {}
    BY <1>4 DEF L!EntriesFree, L!EntryFree
  <2>5. theirs \subseteq p4 /\ \A e \in theirs : PieceOwner[e[2]] = u /\ Foreign(e)
    BY <1>4 DEF L!Contributed, Foreign
  <2>6. ASSUME NEW e \in L!Entries, IF pc = "song" THEN e[2] = s ELSE PieceOwner[e[2]] = u,
               Foreign(e), e \notin theirs, L!LiveList(e[1])
        PROVE  p8[e] <= p5[e]
    <3>1. PieceOwner[e[2]] = u
      BY <1>4, <2>6
    <3>2. ~L!Visible(e)
      BY <1>4, <2>6, <3>1 DEF L!Visible, L!Contributed, Foreign
    <3>3. L!Shown(e) = p5[e]
      BY <3>2, SharedTyped DEF L!Shown
    <3>. QED  BY <2>6, <3>3 DEF SharedInv, EntryFits
  <2>7. TaskFits(x)'
    <3>1. r.pc = pc /\ r.who = u /\ r.piece = s /\ r.moved = theirs
      OBVIOUS
    <3>. HIDE DEF r
    <3>. QED  BY <1>1, <1>4, <2>3, <2>5, <2>6, <3>1
            DEF TaskFits, Removes, Going, L!LiveList, Foreign
  <2>. QED  BY <1>1, <2>1, <2>2, <2>4, <2>7, TaskChanges
<1>5. ASSUME NEW s \in Pieces, L!BeginTrashSong(x, s)
      PROVE  SharedInv'
  <2>. DEFINE theirs == {e \in L!Contributed(PieceOwner[s]) : e[2] = s}
  <2>1. L!StartTask(x, "song", PieceOwner[s], "none", s, theirs) /\ L!EntriesFree(theirs)
    BY <1>5 DEF L!BeginTrashSong
  <2>2. PieceOwner[s] \in Players /\ theirs \in SUBSET L!Contributed(PieceOwner[s])
    BY WorkspaceBounds
  <2>. QED  BY <1>4, <2>1, <2>2
<1>6. ASSUME NEW u \in Players, L!BeginTrashArtist(x, u) \/ L!BeginDeleteAccount(x, u)
      PROVE  SharedInv'
  <2>1. PICK pc \in {"artist", "account"} :
           L!StartTask(x, pc, u, "none", "none", L!Contributed(u))
    BY <1>6 DEF L!BeginTrashArtist, L!BeginDeleteAccount
  <2>2. L!EntriesFree(L!Contributed(u)) /\ L!Contributed(u) \in SUBSET L!Contributed(u)
    BY <1>6 DEF L!BeginTrashArtist, L!BeginDeleteAccount
  <2>. QED  BY <1>4, <2>1, <2>2
<1>. QED  BY <1>2, <1>3, <1>5, <1>6

\* A song is added: at once, so nobody who takes the song away misses it,
\* unless they have copied already what they found.
LEMMA SharedAdds ==
    ASSUME SharedInv, NEW x \in Requests, L!AddPiece(x)
    PROVE  SharedInv'
<1>. DEFINE f == <<p6[x].list, p6[x].piece>>
<1>1. /\ p6[x].list \in Lists /\ p6[x].piece \in Pieces /\ f \in L!Entries
      /\ PieceOwner[f[2]] = p6[x].who
  BY EntriesAre DEF L!AddPiece, SharedInv, TaskFits
<1>2. /\ p6' = [p6 EXCEPT ![x] = L!NoTask] /\ UNCHANGED <<p1, p2, p3, p5, p10>>
      /\ ~L!PieceLocked(f[2])
  BY DEF L!AddPiece, L!EndTask, L!libraryVars
<1>3. CASE UNCHANGED <<p4, p7, p8, p9, p11>>
  <2>1. p6'[x] = L!NoTask
    BY <1>2, SharedTyped
  <2>2. TaskFits(x)'
    BY <2>1, NoTaskFits DEF TaskFits, Removes
  <2>. QED  BY <1>2, <1>3, <2>2, NoTaskFits, TaskChanges
<1>4. CASE ~UNCHANGED <<p4, p7, p8, p9, p11>>
  <2>1. /\ f \notin p4 /\ p4' = p4 \cup {f} /\ p11' = p11 + 1
        /\ p7' = [p7 EXCEPT ![f] = p7[f] + 1]
        /\ \/ p8' = p8
           \/ /\ p8' = [p8 EXCEPT ![f] = p8[f] + 1]
              /\ L!Standing(f[1], p6[x].who) > 0 /\ p3[f[2]] = "live"
              /\ p6[x].who # ListOwner[f[1]] /\ ~L!RemovalUnderWay(f[2])
        /\ p9' \in {p9, [p9 EXCEPT ![f] = p9[f] + 1]}
    BY <1>4 DEF L!AddPiece, L!ghostVars
  <2>2. /\ p4' \subseteq L!Entries /\ p7' \in [L!Entries -> Nat] /\ p8' \in [L!Entries -> Nat]
        /\ p9' \in [L!Entries -> Nat] /\ p11' \in Nat
    <3>1. p7[f] + 1 \in Nat /\ p8[f] + 1 \in Nat /\ p9[f] + 1 \in Nat /\ p11' \in Nat
      BY <1>1, <2>1, SharedTyped
    <3>. HIDE DEF f
    <3>2. p7' \in [L!Entries -> Nat]
      BY <1>1, <2>1, <3>1, SharedTyped
    <3>3. p8' \in [L!Entries -> Nat]
      BY <1>1, <2>1, <3>1, SharedTyped
    <3>4. p9' \in [L!Entries -> Nat]
      BY <1>1, <2>1, <3>1, SharedTyped
    <3>5. p4' \subseteq L!Entries
      BY <1>1, <2>1, SharedTyped
    <3>. QED  BY <3>1, <3>2, <3>3, <3>4, <3>5
  <2>3. /\ p6' \in [Requests -> L!TaskRecords] /\ \A y \in Requests : TaskFits(y)'
        /\ \A y, z \in Requests : y # z => p6'[y].moved \cap p6'[z].moved = {}
    <3>1. \A y \in Requests : p6[y].moved \subseteq p4'
      BY <2>1 DEF SharedInv, TaskFits
    <3>2. ASSUME NEW e \in L!Entries, p8[e] <= p5[e]
          PROVE  \/ p8'[e] <= p5'[e]
                 \/ ~L!RemovalUnderWay(e[2]) /\ ~L!PieceLocked(e[2])
      BY <1>1, <1>2, <2>1, <3>2, SharedTyped
    <3>. QED  BY <1>2, <3>1, <3>2, TasksStay
  <2>4. ASSUME NEW e \in L!Entries
        PROVE  EntryFits(e)'
    <3>1. EntryFits(e) /\ p8[e] \in Nat /\ p5[e] \in Nat /\ p7[e] \in Nat
      BY SharedTyped DEF SharedInv
    <3>2. CASE e = f
      <4>1. L!Shown(e) = p5[e] /\ L!Copies(e) = p5[e] /\ L!Copies(e)' = p5[e] + 1
            /\ p7'[e] = p7[e] + 1
        BY <1>2, <2>1, <3>1, <3>2, SharedTyped, <1>1
           DEF L!Shown, L!Copies, L!Visible
      <4>2. CASE p8' = p8
        <5>1. p5[e] <= L!Shown(e)'
          BY <1>2, <3>1 DEF L!Shown
        <5>2. L!Shown(e)' \in Nat
          BY <1>2, <3>1 DEF L!Shown
        <5>. QED  BY <1>2, <3>1, <4>1, <4>2, <5>1, <5>2 DEF EntryFits, L!LiveList, Foreign
      <4>3. CASE p8' # p8
        <5>1. L!Visible(e)' /\ Foreign(e) /\ p8'[e] = p8[e] + 1
          BY <1>1, <1>2, <2>1, <3>2, <4>3, SharedTyped DEF L!Visible, L!Standing, Foreign
        <5>2. L!Shown(e)' = p5[e] + 1
          BY <1>2, <5>1 DEF L!Shown
        <5>. QED  BY <1>2, <3>1, <4>1, <5>1, <5>2 DEF EntryFits, L!LiveList, Foreign
      <4>. QED  BY <4>2, <4>3
    <3>3. CASE e # f
      <4>1. (e \in p4' <=> e \in p4) /\ p7'[e] = p7[e] /\ p8'[e] = p8[e]
        BY <1>1, <2>1, <3>3, SharedTyped
      <4>. QED  BY <1>2, <3>1, <4>1
              DEF EntryFits, L!LiveList, L!Shown, L!Copies, L!Visible, L!Standing, Foreign
    <3>. QED  BY <3>2, <3>3
  <2>. QED  BY <1>2, <2>2, <2>3, <2>4, SharedTyped DEF SharedInv, L!SharedTypeOK, L!Manager
<1>. QED  BY <1>3, <1>4

\* Someone takes a copy out, linked or held.
LEMMA SharedForgives ==
    ASSUME SharedInv, NEW f \in L!Entries, L!LiveList(f[1]), L!Forgiven(f),
           UNCHANGED <<p1, p2, p3, p10, p11>>,
           p6' = p6 \/ \E x \in Requests : p6' = [p6 EXCEPT ![x] = L!NoTask],
           \/ f \in p4 /\ p4' = p4 \ {f} /\ p5' = p5 /\ L!EntryFree(f)
           \/ p5[f] > 0 /\ p5' = [p5 EXCEPT ![f] = p5[f] - 1] /\ p4' = p4
    PROVE  SharedInv'
<1>1. /\ p7' = [p7 EXCEPT ![f] = p7[f] - 1] /\ p8' = [p8 EXCEPT ![f] = 0]
      /\ p9' = [p9 EXCEPT ![f] = 0]
  BY DEF L!Forgiven
<1>2. EntryFits(f) /\ p5[f] \in Nat /\ p7[f] \in Nat
  BY SharedTyped DEF SharedInv
<1>3. L!Copies(f) <= p7[f] /\ L!Copies(f) > 0 /\ L!Copies(f) \in Nat
  BY <1>2 DEF EntryFits, L!Copies
<1>4. p7[f] - 1 \in Nat /\ (p5[f] > 0 => p5[f] - 1 \in Nat)
  BY <1>2, <1>3
<1>5. /\ p4' \subseteq L!Entries /\ p5' \in [L!Entries -> Nat] /\ p7' \in [L!Entries -> Nat]
      /\ p8' \in [L!Entries -> Nat] /\ p9' \in [L!Entries -> Nat]
  BY <1>1, <1>4, SharedTyped
<1>6. /\ p6' \in [Requests -> L!TaskRecords] /\ \A y \in Requests : TaskFits(y)'
      /\ \A y, z \in Requests : y # z => p6'[y].moved \cap p6'[z].moved = {}
  <2>1. \A y \in Requests : p6[y].moved \subseteq p4'
    BY DEF SharedInv, TaskFits, L!EntryFree
  <2>2. ASSUME NEW e \in L!Entries, p8[e] <= p5[e]
        PROVE  p8'[e] <= p5'[e]
    BY <1>1, <1>2, <1>5, <2>2, SharedTyped
  <2>. QED  BY <2>1, <2>2, TasksStay
<1>7. ASSUME NEW e \in L!Entries
      PROVE  EntryFits(e)'
  <2>1. EntryFits(e) /\ p8[e] \in Nat /\ p5[e] \in Nat /\ p7[e] \in Nat
    BY SharedTyped DEF SharedInv
  <2>2. CASE e = f
    <3>1. p8'[e] = 0 /\ p7'[e] = p7[e] - 1 /\ p5'[e] \in Nat
      BY <1>1, <1>5, <2>2, SharedTyped
    <3>2. L!Copies(e)' = L!Copies(e) - 1
      BY <1>2, <2>2, SharedTyped DEF L!Copies
    <3>3. L!Shown(e)' \in Nat
      BY <3>1 DEF L!Shown
    <3>. QED  BY <1>3, <2>1, <2>2, <3>1, <3>2, <3>3 DEF EntryFits, Foreign
  <2>3. CASE e # f
    <3>1. /\ (e \in p4' <=> e \in p4) /\ p5'[e] = p5[e] /\ p7'[e] = p7[e]
          /\ p8'[e] = p8[e]
      BY <1>1, <2>3, SharedTyped
    <3>. QED  BY <2>1, <3>1
            DEF EntryFits, L!LiveList, L!Shown, L!Copies, L!Visible, L!Standing, Foreign
  <2>. QED  BY <2>2, <2>3
<1>. QED  BY <1>5, <1>6, <1>7, SharedTyped DEF SharedInv, L!SharedTypeOK, L!Manager

\* By name, or for a copy of their own.
LEMMA SharedDrops ==
    ASSUME SharedInv, (\E x \in Requests : L!DropPiece(x)) \/ (\E e \in L!Entries : L!AdoptHeld(e))
    PROVE  SharedInv'
<1>1. ASSUME NEW e \in L!Entries, L!AdoptHeld(e)
      PROVE  SharedInv'
  <2>1. /\ L!LiveList(e[1]) /\ L!Forgiven(e) /\ UNCHANGED <<p1, p2, p3, p4, p6, p10, p11>>
        /\ p5[e] > 0 /\ p5' = [p5 EXCEPT ![e] = p5[e] - 1]
    BY <1>1 DEF L!AdoptHeld, L!libraryVars, L!boundVars
  <2>. QED  BY <2>1, SharedForgives
<1>2. ASSUME NEW x \in Requests, L!DropPiece(x)
      PROVE  SharedInv'
  <2>. DEFINE f == <<p6[x].list, p6[x].piece>>
  <2>1. f \in L!Entries /\ p6' = [p6 EXCEPT ![x] = L!NoTask] /\ L!EntryFree(f)
        /\ UNCHANGED <<p1, p2, p3, p10, p11>>
    BY <1>2, EntriesAre
       DEF L!DropPiece, L!EndTask, SharedInv, TaskFits, L!libraryVars, L!boundVars
  <2>2. CASE UNCHANGED <<p4, p5, p7, p8, p9>>
    <3>1. p6'[x] = L!NoTask
      BY <2>1, SharedTyped
    <3>2. TaskFits(x)'
      BY <3>1, NoTaskFits DEF TaskFits, Removes
    <3>. QED  BY <2>1, <2>2, <3>2, NoTaskFits, TaskChanges
  <2>3. CASE ~UNCHANGED <<p4, p5, p7, p8, p9>>
    <3>1. L!LiveList(f[1]) /\ L!Forgiven(f)
          /\ \/ f \in p4 /\ p4' = p4 \ {f} /\ p5' = p5
             \/ p5[f] > 0 /\ p5' = [p5 EXCEPT ![f] = p5[f] - 1] /\ p4' = p4
      BY <1>2, <2>3 DEF L!DropPiece, L!ghostVars
    <3>. QED  BY <2>1, <3>1, SharedForgives
  <2>. QED  BY <2>2, <2>3
<1>. QED  BY <1>1, <1>2

\* A song or an artist goes to the trash, and what was detached is held.
LEMMA SharedTrashes ==
    ASSUME SharedInv, NEW x \in Requests, L!EndTrash(x)
    PROVE  SharedInv'
<1>. DEFINE m == p6[x].moved
<1>1. /\ UNCHANGED <<p1, p2, p7, p8, p9, p10, p11>> /\ p4' = p4 \ m
      /\ p5' = [e \in L!Entries |-> IF e \in m THEN p5[e] + 1 ELSE p5[e]]
      /\ p6' = [p6 EXCEPT ![x] = L!NoTask] /\ p6[x].pc \in {"song", "artist"}
      /\ p3' = [s \in Pieces |-> IF Going(x, s) /\ p3[s] = "live" THEN "trash" ELSE p3[s]]
  BY DEF L!EndTrash, L!ghostVars, L!boundVars, L!Detached, L!EndTask, Going
<1>2. p3' \in [Pieces -> {"live", "trash", "gone"}]
  BY <1>1, SharedTyped
<1>3. p5' \in [L!Entries -> Nat] /\ p4' \subseteq L!Entries
  BY <1>1, SharedTyped
<1>4. /\ p6' \in [Requests -> L!TaskRecords] /\ \A y \in Requests : TaskFits(y)'
      /\ \A y, z \in Requests : y # z => p6'[y].moved \cap p6'[z].moved = {}
  <2>1. ASSUME NEW y \in Requests, p6'[y] = p6[y]
        PROVE  p6[y].moved \subseteq p4'
    <3>1. y # x
      BY <1>1, <2>1, SharedTyped, NoTaskFits
    <3>. QED  BY <1>1, <3>1 DEF SharedInv, TaskFits
  <2>2. \A e \in L!Entries : p8[e] <= p5[e] => p8'[e] <= p5'[e]
    BY <1>1, SharedTyped
  <2>. QED  BY <1>1, <2>1, <2>2, TasksStay
<1>5. ASSUME NEW e \in L!Entries
      PROVE  EntryFits(e)'
  <2>1. EntryFits(e) /\ p8[e] \in Nat /\ p5[e] \in Nat /\ p7[e] \in Nat /\ TaskFits(x)
    BY SharedTyped DEF SharedInv
  <2>2. CASE e \in m
    <3>1. e \in p4 /\ e \notin p4' /\ p5'[e] = p5[e] + 1
      BY <1>1, <2>1, <2>2 DEF TaskFits
    <3>2. L!Shown(e) <= L!Shown(e)' /\ L!Copies(e)' = L!Copies(e) /\ L!Shown(e) \in Nat
          /\ L!Shown(e)' \in Nat
      BY <2>1, <3>1 DEF L!Shown, L!Copies, L!Visible
    <3>. QED  BY <1>1, <2>1, <3>2 DEF EntryFits, L!LiveList, Foreign
  <2>3. CASE e \notin m
    <3>1. (e \in p4' <=> e \in p4) /\ p5'[e] = p5[e]
      BY <1>1, <2>3
    <3>2. L!Copies(e)' = L!Copies(e)
      BY <3>1 DEF L!Copies
    <3>3. ASSUME L!LiveList(e[1])
          PROVE  p8[e] <= L!Shown(e)'
      <4>1. CASE Going(x, e[2])
        <5>1. p8[e] <= p5[e]
          BY <1>1, <2>1, <2>3, <3>3, <4>1 DEF TaskFits, EntryFits, Removes
        <5>. QED  BY <2>1, <3>1, <5>1 DEF L!Shown
      <4>2. CASE ~Going(x, e[2])
        <5>1. p3'[e[2]] = p3[e[2]]
          BY <1>1, <4>2, EntriesAre
        <5>2. L!Shown(e)' = L!Shown(e)
          BY <1>1, <3>1, <5>1 DEF L!Shown, L!Visible, L!Standing
        <5>. QED  BY <2>1, <3>3, <5>2 DEF EntryFits
      <4>. QED  BY <4>1, <4>2
    <3>. QED  BY <1>1, <2>1, <3>2, <3>3 DEF EntryFits, L!LiveList, Foreign
  <2>. QED  BY <2>2, <2>3
<1>. QED  BY <1>1, <1>2, <1>3, <1>4, <1>5, SharedTyped DEF SharedInv, L!SharedTypeOK, L!Manager

\* An account goes, with its library, its setlists and its collaborations.
LEMMA SharedDeletes ==
    ASSUME SharedInv, NEW x \in Requests, L!DeletePerson(x)
    PROVE  SharedInv'
<1>. DEFINE m == p6[x].moved
            u == p6[x].who
            theirs == {e \in L!Entries : u \in {PieceOwner[e[2]], ListOwner[e[1]]}}
<1>1. /\ UNCHANGED <<p7, p8, p9, p10, p11>> /\ p4' = p4 \ theirs /\ p1' = p1 \ {u}
      /\ p5' = [e \in L!Entries |-> IF ListOwner[e[1]] = u THEN 0
                                    ELSE IF e \in m THEN p5[e] + 1 ELSE p5[e]]
      /\ p6' = [p6 EXCEPT ![x] = L!NoTask] /\ p6[x].pc = "account"
      /\ p3' = [s \in Pieces |-> IF PieceOwner[s] = u THEN "gone" ELSE p3[s]]
      /\ p2' = [l \in Lists |-> IF ListOwner[l] = u THEN [v \in Players |-> L!Stranger]
                                ELSE [p2[l] EXCEPT ![u] = L!Stranger]]
      /\ \A y \in Requests \ {x} : p6[y].moved \cap theirs = {}
  BY DEF L!DeletePerson, L!ghostVars, L!boundVars, L!EndTask
<1>2. p3' \in [Pieces -> {"live", "trash", "gone"}]
  BY <1>1, SharedTyped
<1>3. p5' \in [L!Entries -> Nat] /\ p4' \subseteq L!Entries
  BY <1>1, SharedTyped
<1>4. p2' \in [Lists -> [Players -> [role : 0 .. 3, accepted : BOOLEAN]]]
  <2>1. L!Stranger \in [role : 0 .. 3, accepted : BOOLEAN]
    BY DEF L!Stranger
  <2>2. \A l \in Lists : p2[l] \in [Players -> [role : 0 .. 3, accepted : BOOLEAN]]
    BY SharedTyped
  <2>. QED  BY <1>1, <2>1, <2>2
<1>5. ASSUME NEW e \in L!Entries, L!LiveList(e[1])'
      PROVE  /\ L!LiveList(e[1]) /\ ListOwner[e[1]] # u
             /\ p5'[e] = IF e \in m THEN p5[e] + 1 ELSE p5[e]
  BY <1>1, <1>5 DEF L!LiveList
<1>6. /\ p6' \in [Requests -> L!TaskRecords] /\ \A y \in Requests : TaskFits(y)'
      /\ \A y, z \in Requests : y # z => p6'[y].moved \cap p6'[z].moved = {}
  <2>1. ASSUME NEW y \in Requests, p6'[y] = p6[y]
        PROVE  p6[y].moved \subseteq p4'
    <3>1. y # x
      BY <1>1, <2>1, SharedTyped, NoTaskFits
    <3>. QED  BY <1>1, <3>1 DEF SharedInv, TaskFits
  <2>2. \A e \in L!Entries : L!LiveList(e[1])' /\ p8[e] <= p5[e] => p8'[e] <= p5'[e]
    BY <1>1, <1>5, SharedTyped
  <2>. QED  BY <1>1, <2>1, <2>2, TasksStay
<1>7. ASSUME NEW e \in L!Entries
      PROVE  EntryFits(e)'
  <2>1. EntryFits(e) /\ p8[e] \in Nat /\ p5[e] \in Nat /\ p7[e] \in Nat /\ TaskFits(x)
    BY SharedTyped DEF SharedInv
  <2>2. ~Foreign(e)' => p8'[e] = 0
    BY <1>1, <2>1 DEF EntryFits, Foreign
  <2>3. ASSUME L!LiveList(e[1])'
        PROVE  p8[e] <= L!Shown(e)' /\ L!Copies(e)' <= p7[e]
    <3>1. /\ L!LiveList(e[1]) /\ ListOwner[e[1]] # u
          /\ p5'[e] = IF e \in m THEN p5[e] + 1 ELSE p5[e]
      BY <1>5, <2>3
    <3>2. CASE e \in m
      <4>1. e \in p4 /\ e \notin p4' /\ p5'[e] = p5[e] + 1
        BY <1>1, <2>1, <3>1, <3>2 DEF TaskFits
      <4>2. L!Shown(e) <= L!Shown(e)' /\ L!Copies(e)' = L!Copies(e) /\ L!Shown(e) \in Nat
            /\ L!Shown(e)' \in Nat
        BY <2>1, <4>1 DEF L!Shown, L!Copies, L!Visible
      <4>. QED  BY <2>1, <3>1, <4>2 DEF EntryFits
    <3>3. CASE e \notin m /\ PieceOwner[e[2]] = u
      <4>1. p8[e] <= p5[e] /\ p5'[e] = p5[e] /\ e \notin p4'
        BY <1>1, <2>1, <3>1, <3>3 DEF TaskFits, Removes, Going, Foreign
      <4>2. L!Shown(e)' = p5[e] /\ L!Copies(e)' = p5[e] /\ p5[e] <= L!Copies(e)
        BY <2>1, <4>1 DEF L!Shown, L!Copies, L!Visible
      <4>3. L!Copies(e) \in Nat
        BY <2>1 DEF L!Copies
      <4>. QED  BY <2>1, <3>1, <4>1, <4>2, <4>3 DEF EntryFits
    <3>4. CASE e \notin m /\ PieceOwner[e[2]] # u
      <4>1. /\ p5'[e] = p5[e] /\ (e \in p4' <=> e \in p4) /\ p3'[e[2]] = p3[e[2]]
            /\ p2'[e[1]][PieceOwner[e[2]]] = p2[e[1]][PieceOwner[e[2]]]
        BY <1>1, <3>1, <3>4, SharedTyped, EntriesAre
      <4>2. L!Shown(e)' = L!Shown(e) /\ L!Copies(e)' = L!Copies(e)
        BY <4>1 DEF L!Shown, L!Copies, L!Visible, L!Standing
      <4>. QED  BY <2>1, <3>1, <4>2 DEF EntryFits
    <3>. QED  BY <3>2, <3>3, <3>4
  <2>. QED  BY <1>1, <2>2, <2>3 DEF EntryFits
<1>. QED  BY <1>1, <1>2, <1>3, <1>4, <1>6, <1>7, SharedTyped
     DEF SharedInv, L!SharedTypeOK, L!Manager

\* What is in the trash shows nowhere: it comes back, or goes for good.
LEMMA SharedReturns ==
    ASSUME SharedInv, NEW s \in Pieces, L!RestorePiece(s) \/ L!PurgePiece(s)
    PROVE  SharedInv'
<1>1. /\ p3[s] = "trash" /\ UNCHANGED <<p1, p2, p5, p6, p7, p8, p9, p10, p11>>
      /\ \/ p3' = [p3 EXCEPT ![s] = "live"] /\ p4' = p4
         \/ /\ p3' = [p3 EXCEPT ![s] = "gone"] /\ p4' = {e \in p4 : e[2] # s}
            /\ \A e \in p4, y \in Requests : e[2] = s => e \notin p6[y].moved
  BY DEF L!RestorePiece, L!PurgePiece, L!ghostVars, L!boundVars, L!EntriesFree, L!EntryFree
<1>2. p3' \in [Pieces -> {"live", "trash", "gone"}] /\ p4' \subseteq L!Entries
  BY <1>1, SharedTyped
<1>3. /\ p6' \in [Requests -> L!TaskRecords] /\ \A y \in Requests : TaskFits(y)'
      /\ \A y, z \in Requests : y # z => p6'[y].moved \cap p6'[z].moved = {}
  <2>1. \A y \in Requests : p6[y].moved \subseteq p4'
    BY <1>1 DEF SharedInv, TaskFits
  <2>2. \A e \in L!Entries : p8[e] <= p5[e] => p8'[e] <= p5'[e]
    BY <1>1
  <2>. QED  BY <1>1, <2>1, <2>2, TasksStay
<1>4. ASSUME NEW e \in L!Entries
      PROVE  EntryFits(e)'
  <2>1. EntryFits(e) /\ p8[e] \in Nat /\ p5[e] \in Nat /\ p7[e] \in Nat
    BY SharedTyped DEF SharedInv
  <2>2. (L!Visible(e) => L!Visible(e)') /\ (e \in p4' => e \in p4)
    BY <1>1, SharedTyped, EntriesAre DEF L!Visible, L!Standing
  <2>3. L!Shown(e) <= L!Shown(e)' /\ L!Copies(e)' <= L!Copies(e)
    BY <1>1, <2>1, <2>2 DEF L!Shown, L!Copies
  <2>4. L!Shown(e) \in Nat /\ L!Shown(e)' \in Nat /\ L!Copies(e) \in Nat /\ L!Copies(e)' \in Nat
    BY <1>1, <2>1 DEF L!Shown, L!Copies
  <2>. QED  BY <1>1, <2>1, <2>3, <2>4 DEF EntryFits, L!LiveList, Foreign
<1>. QED  BY <1>1, <1>2, <1>3, <1>4, SharedTyped DEF SharedInv, L!SharedTypeOK, L!Manager

\* Whatever happens next, setlists show what they are owed.
LEMMA SharedMoves == SharedInv /\ L!SharedNext => SharedInv'
BY SharedInvites, SharedLeaves, SharedAsks, SharedAdds, SharedDrops, SharedTrashes,
   SharedDeletes, SharedReturns DEF L!SharedNext

\* So what was contributed stays.
LEMMA SharedSafe == SharedInv => L!ContributedStays
BY DEF SharedInv, EntryFits, L!ContributedStays

\* So it is when nothing happens.
LEMMA SharedIdles ==
    ASSUME SharedInv, UNCHANGED <<p1, p2, p3, p4, p5, p6, p7, p8, p9, p10, p11>>
    PROVE  SharedInv'
<1>1. ASSUME NEW l \in Lists, NEW u \in Players, L!Standing(l, u) > 0
      PROVE  L!Standing(l, u)' > 0
  BY <1>1 DEF L!Standing
<1>. QED  BY <1>1, SharedTyped, CollabChanges

-----------------------------------------------------------------------------
(* A band's copies: p1 is the limit, p2 how often each original changed, p3 *)
(* the rows, p4 the requests, p5 the copies that were in the trash or whose *)
(* original's was, p6 those inserted without the lock.                      *)

Live == C!LiveCopies
Counting == Live \ p6

\* Who inserts has the only copy of the song there will be; who holds the lock
\* has room, and knows of every copy the new one would join.
AdderFits(x) ==
    /\ p4[x].pc # "idle" => p4[x].song \in Originals
    /\ p4[x].pc \in {"inserted", "refresh", "sync"} => p4[x].row \in CopyRows
    /\ p4[x].locked => p4[x].pc \in {"insert", "inserted"} /\ Cardinality(Counting) < p1
    /\ p4[x].pc = "inserted" =>
         /\ p3[p4[x].row].at = "none" /\ p3[p4[x].row].from = p4[x].song
         /\ \A d \in Live : p3[d].from # p4[x].song
         /\ p4[x].locked /\ p3[p4[x].row].original = "none" /\ p4[x].row \notin p5 =>
              \A d \in Live : p3[d].from = OriginalOf[p4[x].song] => d \in p5 \cup p6

\* What is in the trash was; a copy of a version belongs to the live copy of
\* its original.
CopyFits(c) ==
    /\ p3[c].at # "none" => p3[c].from \in Originals
    /\ p3[c].at = "trash" => c \in p5
    /\ p3[c].original # "none" =>
         p3[c].original \in CopyRows /\ p3[p3[c].original].at # "none"
    /\ p3[c].original # "none" /\ c \notin p5 =>
         /\ p3[c].original \in Live
         /\ p3[p3[c].original].from = OriginalOf[p3[c].from]

\* Each inserts another song in another row, and one at a time is locked.
CopiesInv ==
    /\ C!CopiesTypeOK /\ C!VersionsJoined /\ Cardinality(Counting) <= p1
    /\ \A c, d \in Live : p3[c].from = p3[d].from => c = d
    /\ \A c \in CopyRows : CopyFits(c)
    /\ \A x \in Requests : AdderFits(x)
    /\ \A x, y \in Requests : p4[x].locked /\ p4[y].locked => x = y
    /\ \A x, y \in Requests : p4[x].pc = "inserted" /\ p4[y].pc = "inserted" /\ x # y
          => p4[x].song # p4[y].song /\ p4[x].row # p4[y].row

\* A part counts as this module does.
LEMMA CopyCounts == \A X : C!Cardinality(X) = Cardinality(X)
BY DEF C!Cardinality, Cardinality

\* The types, one by one.
LEMMA CopyTyped ==
    ASSUME CopiesInv
    PROVE  /\ p1 \in BandSongLimits /\ p1 \in Nat /\ p2 \in [Originals -> 0 .. MaxCopyEdits]
           /\ p3 \in [CopyRows -> C!CopyRecords] /\ p4 \in [Requests -> C!AdderRecords]
           /\ p5 \subseteq CopyRows /\ p6 \subseteq CopyRows
           /\ \A x \in Requests : p4[x] \in C!AdderRecords
           /\ \A c \in CopyRows : p3[c] \in C!CopyRecords
BY WorkspaceBounds DEF CopiesInv, C!CopiesTypeOK

\* Neither a copy nor a request.
LEMMA NoCopyYet ==
    /\ C!NoCopy \in C!CopyRecords /\ C!NoCopy.at = "none" /\ C!NoCopy.original = "none"
    /\ C!NoAdder \in C!AdderRecords /\ C!NoAdder.pc = "idle" /\ C!NoAdder.locked = FALSE
    /\ C!NoAdder.row = "none"
BY WorkspaceBounds
   DEF C!NoCopy, C!CopyRecords, C!NoAdder, C!AdderRecords, C!AdderPCs

\* Live copies are finitely many.
LEMMA LiveFinite ==
    ASSUME NEW X \in SUBSET CopyRows
    PROVE  /\ IsFiniteSet(X) /\ Cardinality(X) \in Nat
           /\ \A Z \in SUBSET X : IsFiniteSet(Z) /\ Cardinality(Z) \in Nat
                                  /\ Cardinality(Z) <= Cardinality(X)
<1>1. IsFiniteSet(X)
  BY WorkspaceBounds, FS_Subset
<1>. QED  BY <1>1, FS_Subset, FS_CardinalityType

\* There are no copies yet.
LEMMA CopiesStart == C!CopiesInit => CopiesInv
<1>. SUFFICES ASSUME C!CopiesInit
              PROVE  CopiesInv
  OBVIOUS
<1>1. /\ p1 \in BandSongLimits /\ p2 = [s \in Originals |-> 0]
      /\ p3 = [c \in CopyRows |-> C!NoCopy] /\ p4 = [x \in Requests |-> C!NoAdder]
      /\ p5 = {} /\ p6 = {}
  BY DEF C!CopiesInit
<1>2. 0 \in 0 .. MaxCopyEdits
  BY WorkspaceBounds
<1>3. C!CopiesTypeOK
  BY <1>1, <1>2, NoCopyYet DEF C!CopiesTypeOK
<1>4. Live = {}
  BY <1>1, NoCopyYet DEF Live, C!LiveCopies
<1>5. Cardinality(Counting) <= p1
  <2>1. Counting = {} /\ p1 \in Nat
    BY <1>1, <1>4, WorkspaceBounds DEF Counting
  <2>. QED  BY <2>1, FS_EmptySet
<1>6. C!VersionsJoined
  BY <1>4 DEF Live, C!VersionsJoined
<1>7. ASSUME NEW c \in CopyRows
      PROVE  CopyFits(c)
  BY <1>1, NoCopyYet DEF CopyFits
<1>8. ASSUME NEW x \in Requests
      PROVE  AdderFits(x) /\ p4[x].pc = "idle" /\ p4[x].locked = FALSE
  BY <1>1, NoCopyYet DEF AdderFits
<1>. QED  BY <1>3, <1>4, <1>5, <1>6, <1>7, <1>8 DEF CopiesInv

\* Rows keep where they are and what they are of; a request goes on, and only
\* takes the lock when it is free and there is room.
LEMMA CopiesGoOn ==
    ASSUME CopiesInv, p1' = p1, p5' = p5, p6' = p6, p2' \in [Originals -> 0 .. MaxCopyEdits],
           p3' \in [CopyRows -> C!CopyRecords],
           \A c \in CopyRows : /\ p3'[c].at = p3[c].at /\ p3'[c].from = p3[c].from
                               /\ p3'[c].original = p3[c].original,
           \/ p4' = p4
           \/ \E x \in Requests, r \in C!AdderRecords :
                 /\ p4' = [p4 EXCEPT ![x] = r] /\ r.pc # "inserted"
                 /\ r.pc # "idle" => r.song \in Originals
                 /\ r.pc \in {"refresh", "sync"} => r.row \in CopyRows
                 /\ r.locked => /\ r.pc = "insert" /\ Cardinality(Live) < p1
                                /\ \A y \in Requests : ~p4[y].locked
    PROVE  CopiesInv'
<1>1. p4' \in [Requests -> C!AdderRecords]
  BY CopyTyped
<1>2. C!CopiesTypeOK'
  BY <1>1, CopyTyped DEF C!CopiesTypeOK
<1>3. Live' = Live /\ Counting' = Counting
  BY DEF Live, Counting, C!LiveCopies
<1>4. C!VersionsJoined'
  <2>1. C!VersionsJoined /\ C!LiveCopies' = C!LiveCopies /\ C!LiveCopies \subseteq CopyRows
    BY <1>3 DEF CopiesInv, Live, C!LiveCopies
  <2>. QED  BY <2>1 DEF C!VersionsJoined
<1>5. Live \subseteq CopyRows /\ Counting \subseteq Live
  BY DEF Live, Counting, C!LiveCopies
<1>6. ASSUME NEW c \in CopyRows
      PROVE  CopyFits(c)'
  BY <1>3, <1>5 DEF CopiesInv, CopyFits
<1>7. ASSUME NEW y \in Requests, p4'[y] = p4[y]
      PROVE  AdderFits(y)'
  BY <1>3, <1>5, <1>7 DEF CopiesInv, AdderFits
<1>8. CASE p4' = p4
  BY <1>2, <1>3, <1>4, <1>5, <1>6, <1>7, <1>8 DEF CopiesInv
<1>9. ASSUME NEW x \in Requests, NEW r \in C!AdderRecords,
             p4' = [p4 EXCEPT ![x] = r], r.pc # "inserted",
             r.pc # "idle" => r.song \in Originals,
             r.pc \in {"refresh", "sync"} => r.row \in CopyRows,
             r.locked => /\ r.pc = "insert" /\ Cardinality(Live) < p1
                         /\ \A y \in Requests : ~p4[y].locked
      PROVE  CopiesInv'
  <2>1. p4'[x] = r /\ \A y \in Requests \ {x} : p4'[y] = p4[y]
    BY <1>9, CopyTyped
  <2>2. r.locked => Cardinality(Counting) < p1
    <3>1. Cardinality(Counting) <= Cardinality(Live) /\ Cardinality(Counting) \in Nat
          /\ Cardinality(Live) \in Nat
      BY <1>5, LiveFinite
    <3>2. p1 \in Nat
      BY CopyTyped
    <3>. QED  BY <1>9, <3>1, <3>2
  <2>3. AdderFits(x)'
    BY <1>3, <1>9, <2>1, <2>2 DEF AdderFits
  <2>4. \A y \in Requests : AdderFits(y)'
    BY <1>7, <2>1, <2>3
  <2>5. \A y, z \in Requests : p4'[y].locked /\ p4'[z].locked => y = z
    BY <1>9, <2>1 DEF CopiesInv
  <2>6. \A y, z \in Requests : p4'[y].pc = "inserted" /\ p4'[z].pc = "inserted" /\ y # z
          => p4'[y].song # p4'[z].song /\ p4'[y].row # p4'[z].row
    BY <1>9, <2>1 DEF CopiesInv
  <2>. QED  BY <1>2, <1>3, <1>4, <1>5, <1>6, <2>4, <2>5, <2>6 DEF CopiesInv
<1>. QED  BY <1>8, <1>9

\* Requests that read, and changes of what a row says.
LEMMA CopiesRead ==
    ASSUME CopiesInv, NEW x \in Requests,
           \/ \E s \in Originals : C!AskAddSong(x, s)
           \/ \E c \in CopyRows : C!AskSync(x, c)
           \/ C!FindFork(x) \/ C!BeginFork(x) \/ C!RefreshCopy(x)
           \/ C!InsertFork(x) /\ C!CopiesOf(p4[x].song) # {}
           \/ C!AbortAdder(x) /\ p4[x].pc # "inserted"
    PROVE  CopiesInv'
<1>. DEFINE a == p4[x]
<1>1. UNCHANGED <<p1, p2, p3, p5, p6>>
  BY DEF C!AskAddSong, C!AskSync, C!FindFork, C!BeginFork, C!RefreshCopy, C!InsertFork,
     C!AbortAdder, C!Conflicting
<1>2. /\ a \in C!AdderRecords /\ (a.pc # "idle" => a.song \in Originals)
      /\ (a.pc \in {"refresh", "sync"} => a.row \in CopyRows)
      /\ (a.pc \notin {"insert", "inserted"} => a.locked = FALSE)
  BY CopyTyped DEF CopiesInv, AdderFits, C!AdderRecords
<1>3. \A s \in Originals : p2[s] \in 0 .. MaxCopyEdits
  BY CopyTyped
<1>4. C!Cardinality(C!LiveCopies) = Cardinality(Live)
  BY CopyCounts DEF Live
<1>5. ASSUME NEW r \in C!AdderRecords, p4' = [p4 EXCEPT ![x] = r], r.pc # "inserted",
             r.pc # "idle" => r.song \in Originals,
             r.pc \in {"refresh", "sync"} => r.row \in CopyRows,
             r.locked => /\ r.pc = "insert" /\ Cardinality(Live) < p1
                         /\ \A y \in Requests : ~p4[y].locked
      PROVE  CopiesInv'
  BY <1>1, <1>5, CopyTyped, CopiesGoOn
<1>6. CASE p4' = [p4 EXCEPT ![x] = C!NoAdder]
  BY <1>5, <1>6, NoCopyYet
<1>7. ASSUME NEW s \in Originals, C!AskAddSong(x, s)
      PROVE  CopiesInv'
  <2>. DEFINE r == [C!NoAdder EXCEPT !.pc = "add", !.song = s, !.has = p2[s]]
  <2>1. r \in C!AdderRecords /\ r.pc = "add" /\ r.song = s /\ r.locked = FALSE
    BY <1>3, NoCopyYet DEF C!AdderRecords, C!AdderPCs
  <2>2. p4' = [p4 EXCEPT ![x] = r]
    BY <1>7 DEF C!AskAddSong, C!SetAdder
  <2>. QED  BY <1>5, <2>1, <2>2
<1>8. ASSUME NEW c \in CopyRows, C!AskSync(x, c)
      PROVE  CopiesInv'
  <2>. DEFINE s == p3[c].from
              r == [C!NoAdder EXCEPT !.pc = "sync", !.song = s, !.row = c, !.has = p2[s],
                                     !.asked = TRUE]
  <2>1. s \in Originals
    BY <1>8 DEF CopiesInv, CopyFits, C!AskSync
  <2>2. r \in C!AdderRecords /\ r.pc = "sync" /\ r.song = s /\ r.locked = FALSE /\ r.row = c
    BY <1>3, <2>1, NoCopyYet DEF C!AdderRecords, C!AdderPCs
  <2>3. p4' = [p4 EXCEPT ![x] = r]
    BY <1>8 DEF C!AskSync, C!SetAdder
  <2>. QED  BY <1>5, <2>1, <2>2, <2>3
<1>9. CASE C!FindFork(x)
  <2>1. a.pc = "add"
    BY <1>9 DEF C!FindFork
  <2>2. ASSUME NEW c \in C!CopiesOf(a.song), p4' = [p4 EXCEPT ![x] =
                 [a EXCEPT !.pc = "refresh", !.row = c]]
        PROVE  CopiesInv'
    <3>. DEFINE r == [a EXCEPT !.pc = "refresh", !.row = c]
    <3>1. c \in CopyRows
      BY DEF C!CopiesOf, C!LiveCopies
    <3>2. r \in C!AdderRecords /\ r.pc = "refresh" /\ r.song = a.song /\ r.row = c
          /\ r.locked = a.locked
      BY <1>2, <3>1 DEF C!AdderRecords, C!AdderPCs
    <3>. QED  BY <1>2, <1>5, <2>1, <2>2, <3>1, <3>2
  <2>3. CASE p4' = [p4 EXCEPT ![x] = [a EXCEPT !.pc = "fork"]]
    <3>. DEFINE r == [a EXCEPT !.pc = "fork"]
    <3>1. r \in C!AdderRecords /\ r.pc = "fork" /\ r.song = a.song /\ r.locked = a.locked
      BY <1>2 DEF C!AdderRecords, C!AdderPCs
    <3>. QED  BY <1>2, <1>5, <2>1, <2>3, <3>1
  <2>. QED  BY <1>6, <1>9, <2>2, <2>3 DEF C!FindFork, C!SetAdder
<1>10. CASE C!BeginFork(x)
  <2>. DEFINE r == [a EXCEPT !.pc = "insert", !.stamp = p2[a.song]]
              k == [r EXCEPT !.locked = TRUE]
  <2>1. a.pc = "fork" /\ a.song \in Originals /\ a.locked = FALSE
    BY <1>2, <1>10 DEF C!BeginFork
  <2>2. r \in C!AdderRecords /\ r.pc = "insert" /\ r.song = a.song /\ r.locked = FALSE
    BY <1>2, <1>3, <2>1 DEF C!AdderRecords, C!AdderPCs
  <2>3. k \in C!AdderRecords /\ k.pc = "insert" /\ k.song = a.song
    BY <2>2 DEF C!AdderRecords
  <2>4. \/ p4' = [p4 EXCEPT ![x] = r] \/ p4' = [p4 EXCEPT ![x] = C!NoAdder]
        \/ p4' = [p4 EXCEPT ![x] = k] /\ C!BandRoom /\ C!BandQuotaFree
    BY <1>10 DEF C!BeginFork, C!SetAdder
  <2>5. C!BandRoom => Cardinality(Live) < p1
    BY <1>4 DEF C!BandRoom
  <2>6. C!BandQuotaFree => \A y \in Requests : ~p4[y].locked
    BY DEF C!BandQuotaFree
  <2>. HIDE DEF r, k
  <2>7. CASE p4' = [p4 EXCEPT ![x] = r]
    BY <1>5, <2>1, <2>2, <2>7
  <2>8. CASE p4' = [p4 EXCEPT ![x] = k] /\ C!BandRoom /\ C!BandQuotaFree
    BY <1>5, <2>1, <2>3, <2>5, <2>6, <2>8
  <2>. QED  BY <1>6, <2>4, <2>7, <2>8
<1>11. CASE C!RefreshCopy(x)
  <2>. DEFINE r == [a EXCEPT !.pc = "sync"]
  <2>1. a.pc = "refresh"
    BY <1>11 DEF C!RefreshCopy
  <2>2. /\ r \in C!AdderRecords /\ r.pc = "sync" /\ r.song = a.song /\ r.row = a.row
        /\ r.locked = a.locked
    BY <1>2 DEF C!AdderRecords, C!AdderPCs
  <2>3. CASE p4' = [p4 EXCEPT ![x] = r]
    BY <1>2, <1>5, <2>1, <2>2, <2>3
  <2>. QED  BY <1>6, <1>11, <2>3 DEF C!RefreshCopy, C!SetAdder
<1>12. CASE C!AbortAdder(x)
  BY <1>6, <1>12 DEF C!AbortAdder, C!SetAdder
<1>13. CASE C!InsertFork(x) /\ C!CopiesOf(a.song) # {}
  BY <1>6, <1>13 DEF C!InsertFork, C!SetAdder, C!Conflicting
<1>. QED  BY <1>7, <1>8, <1>9, <1>10, <1>11, <1>12, <1>13

\* A song or its copy is edited, or brought up to date.
LEMMA CopiesEdited ==
    ASSUME CopiesInv,
           \/ \E s \in Originals : C!EditOriginal(s)
           \/ \E c \in CopyRows : C!EditCopy(c)
           \/ \E x \in Requests : C!SyncCopy(x)
    PROVE  CopiesInv'
<1>1. ASSUME NEW s \in Originals, C!EditOriginal(s)
      PROVE  CopiesInv'
  <2>1. /\ p2' = [p2 EXCEPT ![s] = p2[s] + 1] /\ p2[s] < MaxCopyEdits
        /\ UNCHANGED <<p1, p3, p4, p5, p6>>
    BY <1>1 DEF C!EditOriginal
  <2>2. p2[s] + 1 \in 0 .. MaxCopyEdits
    BY <2>1, CopyTyped, WorkspaceBounds
  <2>3. p2' \in [Originals -> 0 .. MaxCopyEdits]
    BY <2>1, <2>2, CopyTyped
  <2>. QED  BY <2>1, <2>3, CopyTyped, CopiesGoOn
<1>2. ASSUME NEW c \in CopyRows, C!EditCopy(c)
      PROVE  CopiesInv'
  <2>1. /\ p3' = [p3 EXCEPT ![c] = [p3[c] EXCEPT !.edited = TRUE]]
        /\ UNCHANGED <<p1, p2, p4, p5, p6>>
    BY <1>2, CopyTyped DEF C!EditCopy, C!CopyRecords
  <2>2. [p3[c] EXCEPT !.edited = TRUE] \in C!CopyRecords
    BY CopyTyped DEF C!CopyRecords
  <2>3. p3' \in [CopyRows -> C!CopyRecords]
    BY <2>1, <2>2, CopyTyped
  <2>4. \A d \in CopyRows : /\ p3'[d].at = p3[d].at /\ p3'[d].from = p3[d].from
                            /\ p3'[d].original = p3[d].original
    BY <2>1, CopyTyped DEF C!CopyRecords
  <2>. QED  BY <2>1, <2>3, <2>4, CopyTyped, CopiesGoOn
<1>3. ASSUME NEW x \in Requests, C!SyncCopy(x)
      PROVE  CopiesInv'
  <2>. DEFINE c == p4[x].row
              d == [p3[c] EXCEPT !.has = p4[x].has, !.edited = FALSE,
                                 !.stamp = p2[p4[x].song]]
  <2>1. /\ p4' = [p4 EXCEPT ![x] = C!NoAdder] /\ UNCHANGED <<p1, p2, p5, p6>>
        /\ c \in CopyRows /\ p4[x].song \in Originals
    BY <1>3 DEF C!SyncCopy, C!SetAdder, CopiesInv, AdderFits
  <2>2. /\ d \in C!CopyRecords /\ d.at = p3[c].at /\ d.from = p3[c].from
        /\ d.original = p3[c].original
    <3>1. p4[x].has \in 0 .. MaxCopyEdits /\ p2[p4[x].song] \in 0 .. MaxCopyEdits
      BY <2>1, CopyTyped DEF C!AdderRecords
    <3>2. p3[c] \in C!CopyRecords
      BY <2>1, CopyTyped
    <3>. QED  BY <3>1, <3>2 DEF C!CopyRecords
  <2>3. p3' = p3 \/ p3' = [p3 EXCEPT ![c] = d]
    BY <1>3, <2>1, CopyTyped DEF C!SyncCopy, C!CopyRecords
  <2>. HIDE DEF d
  <2>4. p3' \in [CopyRows -> C!CopyRecords]
    BY <2>1, <2>2, <2>3, CopyTyped
  <2>5. \A e \in CopyRows : /\ p3'[e].at = p3[e].at /\ p3'[e].from = p3[e].from
                            /\ p3'[e].original = p3[e].original
    BY <2>1, <2>2, <2>3, CopyTyped
  <2>. QED  BY <2>1, <2>4, <2>5, NoCopyYet, CopyTyped, CopiesGoOn
<1>. QED  BY <1>1, <1>2, <1>3

\* A row is inserted: of a song nobody else inserts or has, and it joins the
\* live copy of its original if there is one.
LEMMA CopiesInsert ==
    ASSUME CopiesInv, NEW x \in Requests, C!InsertFork(x), C!CopiesOf(p4[x].song) = {}
    PROVE  CopiesInv'
<1>. DEFINE s == p4[x].song
            family == C!CopiesOf(OriginalOf[s])
            o == IF family = {} THEN "none" ELSE CHOOSE d \in family : TRUE
<1>1. PICK c \in CopyRows :
         /\ p3[c] = C!NoCopy /\ \A y \in Requests : p4[y].row # c
         /\ p3' = [p3 EXCEPT ![c] = [C!NoCopy EXCEPT !.from = s, !.has = p4[x].has,
                                       !.stamp = p4[x].stamp, !.original = o]]
         /\ p4' = [p4 EXCEPT ![x] = [p4[x] EXCEPT !.pc = "inserted", !.row = c]]
  BY DEF C!InsertFork, C!Conflicting, C!SetAdder
<1>2. /\ UNCHANGED <<p1, p2, p5, p6>> /\ p4[x].pc = "insert" /\ s \in Originals
      /\ \A y \in Requests : p4[y].pc = "inserted" => p4[y].song # s
      /\ p4[x] \in C!AdderRecords
  BY CopyTyped DEF C!InsertFork, CopiesInv, AdderFits
<1>3. o \in CopyRows \cup {"none"} /\ (o # "none" => o \in Live /\ p3[o].from = OriginalOf[s])
      /\ (o = "none" => family = {})
  BY WorkspaceBounds DEF C!CopiesOf, C!LiveCopies, Live
<1>. DEFINE n == [C!NoCopy EXCEPT !.from = s, !.has = p4[x].has, !.stamp = p4[x].stamp,
                                  !.original = o]
            r == [p4[x] EXCEPT !.pc = "inserted", !.row = c]
<1>4. n \in C!CopyRecords /\ n.at = "none" /\ n.from = s /\ n.original = o
  BY <1>2, <1>3, NoCopyYet DEF C!CopyRecords, C!AdderRecords, C!NoCopy
<1>5. /\ r \in C!AdderRecords /\ r.pc = "inserted" /\ r.row = c /\ r.song = s
      /\ r.locked = p4[x].locked
  BY <1>2 DEF C!AdderRecords, C!AdderPCs
<1>6. p3' = [p3 EXCEPT ![c] = n] /\ p4' = [p4 EXCEPT ![x] = r]
  BY <1>1
<1>. HIDE DEF o, n, r
<1>7. /\ p3' \in [CopyRows -> C!CopyRecords] /\ p3'[c] = n
      /\ \A d \in CopyRows \ {c} : p3'[d] = p3[d]
  BY <1>4, <1>6, CopyTyped
<1>8. /\ p4' \in [Requests -> C!AdderRecords] /\ p4'[x] = r
      /\ \A y \in Requests \ {x} : p4'[y] = p4[y]
  BY <1>5, <1>6, CopyTyped
<1>9. C!CopiesTypeOK'
  BY <1>2, <1>7, <1>8, CopyTyped DEF C!CopiesTypeOK
<1>10. Live' = Live /\ Counting' = Counting /\ Live \subseteq CopyRows /\ c \notin Live
       /\ \A d \in Live : p3'[d] = p3[d]
  BY <1>1, <1>2, <1>4, <1>7, NoCopyYet DEF Live, Counting, C!LiveCopies
<1>11. C!VersionsJoined'
  BY <1>2, <1>10 DEF CopiesInv, Live, C!VersionsJoined
<1>12. ASSUME NEW d \in CopyRows
       PROVE  CopyFits(d)'
  <2>0. \A e \in Live : e \in CopyRows /\ p3[e].at = "live"
    BY DEF Live, C!LiveCopies
  <2>1. CASE d = c
    BY <1>3, <1>4, <1>7, <1>10, <2>0, <2>1 DEF CopyFits
  <2>2. CASE d # c
    <3>1. CopyFits(d) /\ p3'[d] = p3[d] /\ p3[c].at = "none"
      BY <1>1, <1>7, <2>2, NoCopyYet DEF CopiesInv
    <3>2. p3[d].original \in CopyRows /\ p3[d].original # c =>
            p3'[p3[d].original] = p3[p3[d].original]
      BY <1>7
    <3>3. p3[d].original # "none" => p3[d].original \in CopyRows /\ p3[d].original # c
      BY <3>1 DEF CopyFits
    <3>. QED  BY <1>2, <1>10, <3>1, <3>2, <3>3 DEF CopyFits
  <2>. QED  BY <2>1, <2>2
<1>13. ASSUME NEW y \in Requests
       PROVE  AdderFits(y)'
  <2>1. CASE y = x
    <3>1. \A d \in Live : p3[d].from # s
      BY DEF C!CopiesOf, Live
    <3>2. o = "none" => \A d \in Live : p3[d].from # OriginalOf[s]
      BY <1>3 DEF C!CopiesOf, Live
    <3>3. p4[x].locked => Cardinality(Counting) < p1
      BY DEF CopiesInv, AdderFits
    <3>. QED  BY <1>2, <1>4, <1>5, <1>7, <1>8, <1>10, <2>1, <3>1, <3>2, <3>3 DEF AdderFits
  <2>2. CASE y # x
    <3>1. p4'[y] = p4[y] /\ AdderFits(y) /\ p4[y].row # c
      BY <1>1, <1>8, <2>2 DEF CopiesInv
    <3>2. p4[y].row \in CopyRows => p3'[p4[y].row] = p3[p4[y].row]
      BY <1>7, <3>1
    <3>. QED  BY <1>2, <1>10, <3>1, <3>2 DEF AdderFits
  <2>. QED  BY <2>1, <2>2
<1>14. \A y, z \in Requests : p4'[y].locked /\ p4'[z].locked => y = z
  BY <1>5, <1>8 DEF CopiesInv
<1>15. \A y, z \in Requests : p4'[y].pc = "inserted" /\ p4'[z].pc = "inserted" /\ y # z
          => p4'[y].song # p4'[z].song /\ p4'[y].row # p4'[z].row
  BY <1>1, <1>2, <1>5, <1>8 DEF CopiesInv
<1>. QED  BY <1>2, <1>9, <1>10, <1>11, <1>12, <1>13, <1>14, <1>15 DEF CopiesInv

\* A row is committed: it is the only copy of its song, it and its version's
\* find each other, and there was room unless the lock was not taken.
LEMMA CopiesCommit ==
    ASSUME CopiesInv, NEW x \in Requests, C!CommitFork(x)
    PROVE  CopiesInv'
<1>. DEFINE c == p4[x].row
            s == p4[x].song
            joins == {d \in CopyRows : p3[d].at # "none" /\ p3[d].original = "none"
                                       /\ OriginalOf[p3[d].from] = s}
<1>1. /\ UNCHANGED <<p1, p2, p5>> /\ p4[x].pc = "inserted" /\ c \in CopyRows
      /\ s \in Originals /\ p3[c].at = "none" /\ p3[c].from = s /\ c \notin Live
      /\ \A d \in Live : p3[d].from # s
      /\ p6' = IF p4[x].locked THEN p6 ELSE p6 \cup {c}
      /\ p4' = [p4 EXCEPT ![x] = C!NoAdder]
  BY DEF C!CommitFork, CopiesInv, AdderFits, C!SetAdder, Live, C!LiveCopies
<1>2. p3' = [d \in CopyRows |-> IF d = c THEN [p3[d] EXCEPT !.at = "live"]
                                ELSE IF d \in joins THEN [p3[d] EXCEPT !.original = c]
                                ELSE p3[d]]
  BY DEF C!CommitFork
<1>3. ASSUME NEW d \in CopyRows
      PROVE  /\ p3'[d] \in C!CopyRecords /\ p3'[d].from = p3[d].from
             /\ p3'[d].at = IF d = c THEN "live" ELSE p3[d].at
             /\ p3'[d].original = IF d # c /\ d \in joins THEN c ELSE p3[d].original
  <2>1. p3[d] \in C!CopyRecords
    BY CopyTyped
  <2>2. CASE d = c
    BY <1>2, <2>1, <2>2 DEF C!CopyRecords
  <2>3. CASE d # c /\ d \in joins
    BY <1>1, <1>2, <2>1, <2>3 DEF C!CopyRecords
  <2>4. CASE d # c /\ d \notin joins
    BY <1>2, <2>1, <2>4
  <2>. QED  BY <2>2, <2>3, <2>4
<1>4. p3' \in [CopyRows -> C!CopyRecords]
  BY <1>2, <1>3
<1>5. /\ p4' \in [Requests -> C!AdderRecords] /\ p4'[x] = C!NoAdder
      /\ \A y \in Requests \ {x} : p4'[y] = p4[y]
  BY <1>1, CopyTyped, NoCopyYet
<1>6. C!CopiesTypeOK'
  BY <1>1, <1>4, <1>5, CopyTyped DEF C!CopiesTypeOK
<1>7. Live' = Live \cup {c} /\ Live \subseteq CopyRows
  BY <1>1, <1>3 DEF Live, C!LiveCopies
<1>8. /\ p4[x].locked => Cardinality(Counting) < p1 /\ Counting' \subseteq Counting \cup {c}
      /\ ~p4[x].locked => Counting' \subseteq Counting
      /\ Counting \subseteq CopyRows
  BY <1>1, <1>7 DEF Counting, CopiesInv, AdderFits
<1>9. Cardinality(Counting') <= p1 /\ Cardinality(Counting') \in Nat
      /\ (~p4[x].locked => Cardinality(Counting') <= Cardinality(Counting))
  <2>1. /\ Cardinality(Counting \cup {c}) <= Cardinality(Counting) + 1
        /\ Cardinality(Counting) \in Nat /\ Cardinality(Counting \cup {c}) \in Nat
    <3>1. IsFiniteSet(Counting) /\ Cardinality(Counting) \in Nat
      BY <1>8, LiveFinite
    <3>2. Cardinality(Counting \cup {c}) \in {Cardinality(Counting), Cardinality(Counting) + 1}
      BY <3>1, FS_AddElement
    <3>. QED  BY <3>1, <3>2
  <2>2. Counting \cup {c} \subseteq CopyRows
    BY <1>1, <1>8
  <2>3. /\ p4[x].locked => Cardinality(Counting') <= Cardinality(Counting \cup {c})
        /\ ~p4[x].locked => Cardinality(Counting') <= Cardinality(Counting)
        /\ Cardinality(Counting') \in Nat
    BY <1>8, <2>2, LiveFinite
  <2>4. p1 \in Nat /\ Cardinality(Counting) <= p1
    BY CopyTyped DEF CopiesInv
  <2>. QED  BY <1>8, <2>1, <2>3, <2>4
<1>10. \A d, e \in Live' : p3'[d].from = p3'[e].from => d = e
  BY <1>1, <1>3, <1>7 DEF CopiesInv
<1>11. ASSUME NEW d \in CopyRows
       PROVE  CopyFits(d)'
  <2>1. CopyFits(d) /\ p5 \subseteq CopyRows
    BY CopyTyped DEF CopiesInv
  <2>2. CASE d # c /\ d \in joins
    BY <1>1, <1>3, <1>7, <2>1, <2>2 DEF CopyFits
  <2>3. CASE d = c \/ d \notin joins
    <3>1. p3'[d].original = p3[d].original
      BY <1>3, <2>3
    <3>2. p3[d].original \in Live => p3'[p3[d].original].from = p3[p3[d].original].from
      BY <1>3, <1>7
    <3>. QED  BY <1>1, <1>3, <1>7, <2>1, <3>1, <3>2 DEF CopyFits
  <2>. QED  BY <2>2, <2>3
<1>12. C!VersionsJoined'
  <2>1. SUFFICES ASSUME NEW d \in Live' \ (p5 \cup p6'), NEW e \in Live' \ (p5 \cup p6'),
                        OriginalOf[p3'[e].from] = p3'[d].from
                 PROVE  p3'[e].original = d
    BY <1>1 DEF C!VersionsJoined, Live
  <2>2. d \in CopyRows /\ e \in CopyRows /\ OriginalOf[p3[e].from] = p3[d].from
    BY <1>1, <1>3, <1>7, <2>1
  <2>3. CASE d = c
    <3>1. e # c /\ p3[e].at = "live"
      <4>1. OriginalOf[s] # s
        BY <1>1, WorkspaceBounds
      <4>2. e # c
        BY <1>1, <2>2, <2>3, <4>1
      <4>. QED  BY <1>7, <4>2 DEF Live, C!LiveCopies
    <3>2. CASE p3[e].original = "none"
      <4>1. e \in joins
        BY <1>1, <2>2, <2>3, <3>1, <3>2
      <4>. QED  BY <1>3, <2>2, <2>3, <3>1, <4>1
    <3>3. CASE p3[e].original # "none"
      <4>1. p3[e].original \in Live /\ p3[p3[e].original].from = s
        BY <1>1, <2>1, <2>2, <2>3, <3>3 DEF CopiesInv, CopyFits
      <4>. QED  BY <1>1, <4>1
    <3>. QED  BY <3>2, <3>3
  <2>4. CASE d # c /\ e = c
    <3>1. d \in Live /\ d \notin p5 \cup p6 /\ p3[d].from = OriginalOf[s]
      BY <1>1, <1>7, <2>1, <2>2, <2>4
    <3>2. p4[x].locked /\ c \notin p5
      BY <1>1, <2>1, <2>4
    <3>3. p3[c].original # "none"
      BY <1>1, <3>1, <3>2 DEF CopiesInv, AdderFits
    <3>4. p3[c].original \in Live /\ p3[p3[c].original].from = OriginalOf[s]
      BY <1>1, <3>2, <3>3 DEF CopiesInv, CopyFits
    <3>5. p3[c].original = d
      BY <3>1, <3>4 DEF CopiesInv
    <3>. QED  BY <1>1, <1>3, <2>4, <3>5
  <2>5. CASE d # c /\ e # c
    <3>1. d \in Live \ (p5 \cup p6) /\ e \in Live \ (p5 \cup p6)
      BY <1>1, <1>7, <2>1, <2>5
    <3>2. p3[e].original = d
      BY <2>2, <3>1 DEF CopiesInv, C!VersionsJoined, Live
    <3>3. e \notin joins
      BY <1>1, <2>2, <3>1
    <3>. QED  BY <1>3, <2>2, <3>2, <3>3
  <2>. QED  BY <2>3, <2>4, <2>5
<1>13. ASSUME NEW y \in Requests
       PROVE  AdderFits(y)'
  <2>1. CASE y = x
    BY <1>5, <2>1, NoCopyYet DEF AdderFits
  <2>2. CASE y # x
    <3>1. /\ p4'[y] = p4[y] /\ AdderFits(y)
          /\ p4[y].pc = "inserted" => p4[y].song # s /\ p4[y].row # c
          /\ p4[y].locked => ~p4[x].locked
      BY <1>1, <1>5, <2>2 DEF CopiesInv
    <3>2. p4[y].locked => Cardinality(Counting') < p1
      <4>1. p1 \in Nat /\ Cardinality(Counting) \in Nat
        BY <1>8, CopyTyped, LiveFinite
      <4>. QED  BY <1>9, <3>1, <4>1 DEF AdderFits
    <3>3. p4[y].pc = "inserted" =>
            /\ p4[y].row \in CopyRows /\ p3'[p4[y].row].at = "none"
            /\ p3'[p4[y].row].from = p4[y].song
            /\ p3'[p4[y].row].original = p3[p4[y].row].original
      BY <1>3, <3>1 DEF AdderFits
    <3>4. p4[y].pc = "inserted" => \A d \in Live' : p3'[d].from # p4[y].song
      BY <1>1, <1>3, <1>7, <3>1 DEF AdderFits
    <3>5. p4[y].pc = "inserted" /\ p4[y].locked /\ p3'[p4[y].row].original = "none"
            /\ p4[y].row \notin p5' =>
              \A d \in Live' : p3'[d].from = OriginalOf[p4[y].song] => d \in p5' \cup p6'
      BY <1>1, <1>3, <1>7, <3>1, <3>3 DEF AdderFits
    <3>. QED  BY <1>1, <3>1, <3>2, <3>3, <3>4, <3>5 DEF AdderFits
  <2>. QED  BY <2>1, <2>2
<1>14. \A y, z \in Requests : p4'[y].locked /\ p4'[z].locked => y = z
  BY <1>5, NoCopyYet DEF CopiesInv
<1>15. \A y, z \in Requests : p4'[y].pc = "inserted" /\ p4'[z].pc = "inserted" /\ y # z
          => p4'[y].song # p4'[z].song /\ p4'[y].row # p4'[z].row
  BY <1>5, NoCopyYet DEF CopiesInv
<1>. QED  BY <1>1, <1>6, <1>9, <1>10, <1>11, <1>12, <1>13, <1>14, <1>15 DEF CopiesInv

\* A copy goes to the trash; the copies of its versions stay with it.
LEMMA CopiesTrash ==
    ASSUME CopiesInv, NEW c \in CopyRows, C!TrashCopy(c)
    PROVE  CopiesInv'
<1>1. /\ p3[c].at = "live" /\ UNCHANGED <<p1, p2, p4, p6>>
      /\ p3' = [p3 EXCEPT ![c] = [p3[c] EXCEPT !.at = "trash"]]
      /\ p5' = p5 \cup {c} \cup {d \in CopyRows : p3[d].original = c}
  BY CopyTyped DEF C!TrashCopy, C!CopyRecords
<1>2. ASSUME NEW d \in CopyRows
      PROVE  /\ p3'[d] \in C!CopyRecords /\ p3'[d].from = p3[d].from
             /\ p3'[d].original = p3[d].original
             /\ p3'[d].at = IF d = c THEN "trash" ELSE p3[d].at
  BY <1>1, CopyTyped DEF C!CopyRecords
<1>3. p3' \in [CopyRows -> C!CopyRecords] /\ p5' \subseteq CopyRows
  BY <1>1, <1>2, CopyTyped
<1>4. C!CopiesTypeOK'
  BY <1>1, <1>3, CopyTyped DEF C!CopiesTypeOK
<1>5. Live' = Live \ {c} /\ Live \subseteq CopyRows /\ Counting' \subseteq Counting
      /\ Counting \subseteq CopyRows
  BY <1>1, <1>2 DEF Live, Counting, C!LiveCopies
<1>6. /\ Cardinality(Counting') <= Cardinality(Counting) /\ Cardinality(Counting) \in Nat
      /\ Cardinality(Counting') \in Nat /\ p1 \in Nat
  BY <1>5, CopyTyped, LiveFinite
<1>7. C!VersionsJoined'
  <2>1. SUFFICES ASSUME NEW d \in Live' \ (p5' \cup p6), NEW e \in Live' \ (p5' \cup p6),
                        OriginalOf[p3'[e].from] = p3'[d].from
                 PROVE  p3'[e].original = d
    BY <1>1 DEF C!VersionsJoined, Live
  <2>2. d \in Live \ (p5 \cup p6) /\ e \in Live \ (p5 \cup p6)
    BY <1>1, <1>5
  <2>. QED  BY <1>2, <1>5, <2>1, <2>2 DEF CopiesInv, C!VersionsJoined, Live
<1>8. ASSUME NEW d \in CopyRows
      PROVE  CopyFits(d)'
  <2>1. CopyFits(d)
    BY DEF CopiesInv
  <2>2. p3[d].original # "none" /\ d \notin p5' =>
          /\ p3[d].original \in Live' /\ p3'[p3[d].original].from = OriginalOf[p3[d].from]
    BY <1>1, <1>2, <1>5, <2>1 DEF CopyFits
  <2>. QED  BY <1>1, <1>2, <2>1, <2>2 DEF CopyFits
<1>9. ASSUME NEW y \in Requests
      PROVE  AdderFits(y)'
  <2>1. AdderFits(y)
    BY DEF CopiesInv
  <2>2. p4[y].locked => Cardinality(Counting') < p1
    BY <1>6, <2>1 DEF AdderFits
  <2>3. p4[y].pc = "inserted" =>
          /\ p4[y].row \in CopyRows /\ p3'[p4[y].row].at = "none"
          /\ p3'[p4[y].row].from = p4[y].song
          /\ p3'[p4[y].row].original = p3[p4[y].row].original
    BY <1>1, <1>2, <2>1 DEF AdderFits
  <2>4. p4[y].pc = "inserted" => \A d \in Live' : p3'[d].from # p4[y].song
    BY <1>2, <1>5, <2>1 DEF AdderFits
  <2>5. p4[y].pc = "inserted" /\ p4[y].locked /\ p3'[p4[y].row].original = "none"
          /\ p4[y].row \notin p5' =>
            \A d \in Live' : p3'[d].from = OriginalOf[p4[y].song] => d \in p5' \cup p6'
    BY <1>1, <1>2, <1>5, <2>1, <2>3 DEF AdderFits
  <2>. QED  BY <1>1, <2>1, <2>2, <2>3, <2>4, <2>5 DEF AdderFits
<1>10. \A d, e \in Live' : p3'[d].from = p3'[e].from => d = e
  BY <1>2, <1>5 DEF CopiesInv
<1>. QED  BY <1>1, <1>4, <1>6, <1>7, <1>8, <1>9, <1>10 DEF CopiesInv

\* A copy comes back where nobody has or inserts another one, and nobody counts.
LEMMA CopiesRestore ==
    ASSUME CopiesInv, NEW c \in CopyRows, C!RestoreCopy(c)
    PROVE  CopiesInv'
<1>1. /\ p3[c].at = "trash" /\ UNCHANGED <<p1, p2, p4, p5, p6>>
      /\ p3' = [p3 EXCEPT ![c] = [p3[c] EXCEPT !.at = "live"]]
      /\ \A d \in Live : p3[d].from # p3[c].from
      /\ \A y \in Requests : /\ ~p4[y].locked
                             /\ p4[y].pc = "inserted" => p4[y].song # p3[c].from
      /\ Cardinality(Live) < p1
  BY CopyTyped, CopyCounts DEF C!RestoreCopy, C!CopyRecords, C!Conflicting, C!CopiesOf,
     C!BandQuotaFree, C!BandRoom, Live
<1>2. ASSUME NEW d \in CopyRows
      PROVE  /\ p3'[d] \in C!CopyRecords /\ p3'[d].from = p3[d].from
             /\ p3'[d].original = p3[d].original
             /\ p3'[d].at = IF d = c THEN "live" ELSE p3[d].at
  BY <1>1, CopyTyped DEF C!CopyRecords
<1>3. p3' \in [CopyRows -> C!CopyRecords]
  BY <1>1, <1>2, CopyTyped
<1>4. C!CopiesTypeOK'
  BY <1>1, <1>3, CopyTyped DEF C!CopiesTypeOK
<1>5. /\ Live' = Live \cup {c} /\ Live \subseteq CopyRows /\ c \in p5
      /\ Counting' \subseteq Live \cup {c}
  BY <1>1, <1>2 DEF Live, Counting, C!LiveCopies, CopiesInv, CopyFits
<1>6. Cardinality(Counting') <= p1
  <2>1. IsFiniteSet(Live) /\ Cardinality(Live) \in Nat
    BY <1>5, LiveFinite
  <2>2. Cardinality(Live \cup {c}) \in {Cardinality(Live), Cardinality(Live) + 1}
    BY <2>1, FS_AddElement
  <2>3. /\ Cardinality(Counting') <= Cardinality(Live \cup {c}) /\ Cardinality(Counting') \in Nat
        /\ Cardinality(Live \cup {c}) \in Nat
    BY <1>5, LiveFinite
  <2>4. p1 \in Nat
    BY CopyTyped
  <2>. QED  BY <1>1, <2>1, <2>2, <2>3, <2>4
<1>7. C!VersionsJoined'
  <2>1. SUFFICES ASSUME NEW d \in Live' \ (p5 \cup p6), NEW e \in Live' \ (p5 \cup p6),
                        OriginalOf[p3'[e].from] = p3'[d].from
                 PROVE  p3'[e].original = d
    BY <1>1 DEF C!VersionsJoined, Live
  <2>2. d \in Live \ (p5 \cup p6) /\ e \in Live \ (p5 \cup p6)
    BY <1>5
  <2>. QED  BY <1>2, <1>5, <2>1, <2>2 DEF CopiesInv, C!VersionsJoined, Live
<1>8. ASSUME NEW d \in CopyRows
      PROVE  CopyFits(d)'
  <2>1. CopyFits(d)
    BY DEF CopiesInv
  <2>2. p3[d].original # "none" /\ d \notin p5 =>
          /\ p3[d].original \in Live' /\ p3'[p3[d].original].from = OriginalOf[p3[d].from]
    BY <1>2, <1>5, <2>1 DEF CopyFits
  <2>. QED  BY <1>1, <1>2, <2>1, <2>2 DEF CopyFits
<1>9. ASSUME NEW y \in Requests
      PROVE  AdderFits(y)'
  <2>1. AdderFits(y)
    BY DEF CopiesInv
  <2>2. p4[y].pc = "inserted" =>
          /\ p4[y].row \in CopyRows /\ p3'[p4[y].row].at = "none"
          /\ p3'[p4[y].row].from = p4[y].song
    BY <1>1, <1>2, <2>1 DEF AdderFits
  <2>3. p4[y].pc = "inserted" => \A d \in Live' : p3'[d].from # p4[y].song
    BY <1>1, <1>2, <1>5, <2>1 DEF AdderFits
  <2>. QED  BY <1>1, <2>1, <2>2, <2>3 DEF AdderFits
<1>10. \A d, e \in Live' : p3'[d].from = p3'[e].from => d = e
  BY <1>1, <1>2, <1>5 DEF CopiesInv
<1>. QED  BY <1>1, <1>4, <1>6, <1>7, <1>8, <1>9, <1>10 DEF CopiesInv

\* A row that is not live goes, with whoever was at it: those of its versions
\* have no original then.
LEMMA CopiesGo ==
    ASSUME CopiesInv, NEW c \in CopyRows, c \notin Live,
           UNCHANGED <<p1, p2>>, p5' = p5 \ {c}, p6' \in {p6, p6 \ {c}},
           p3' = [d \in CopyRows |->
                    IF d = c THEN C!NoCopy
                    ELSE IF p3[d].original = c THEN [p3[d] EXCEPT !.original = "none"]
                    ELSE p3[d]],
           \A y \in Requests : \/ p4'[y] = p4[y] /\ (p4[y].pc = "inserted" => p4[y].row # c)
                               \/ p4'[y] = C!NoAdder,
           p4' \in [Requests -> C!AdderRecords]
    PROVE  CopiesInv'
<1>1. ASSUME NEW d \in CopyRows, d # c
      PROVE  /\ p3'[d] \in C!CopyRecords /\ p3'[d].from = p3[d].from /\ p3'[d].at = p3[d].at
             /\ p3'[d].original = IF p3[d].original = c THEN "none" ELSE p3[d].original
  <2>1. p3[d] \in C!CopyRecords
    BY CopyTyped
  <2>. QED  BY <1>1, <2>1 DEF C!CopyRecords
<1>2. p3'[c] = C!NoCopy
  OBVIOUS
<1>3. p3' \in [CopyRows -> C!CopyRecords] /\ p5' \subseteq CopyRows /\ p6' \subseteq CopyRows
  BY <1>1, NoCopyYet, CopyTyped
<1>4. C!CopiesTypeOK'
  BY <1>3, CopyTyped DEF C!CopiesTypeOK
<1>5. Live' = Live /\ Counting' = Counting /\ Live \subseteq CopyRows
  <2>1. Live \subseteq CopyRows
    BY DEF Live, C!LiveCopies
  <2>2. Live' = Live
    BY <1>1, <1>2, NoCopyYet DEF Live, C!LiveCopies
  <2>. QED  BY <2>1, <2>2 DEF Counting
<1>6. C!VersionsJoined'
  <2>1. SUFFICES ASSUME NEW d \in Live \ (p5' \cup p6'), NEW e \in Live \ (p5' \cup p6'),
                        OriginalOf[p3'[e].from] = p3'[d].from
                 PROVE  p3'[e].original = d
    BY <1>5 DEF C!VersionsJoined, Live
  <2>2. d # c /\ e # c /\ d \in Live \ (p5 \cup p6) /\ e \in Live \ (p5 \cup p6)
    OBVIOUS
  <2>3. p3[e].original = d
    BY <1>1, <1>5, <2>1, <2>2 DEF CopiesInv, C!VersionsJoined, Live
  <2>. QED  BY <1>1, <1>5, <2>2, <2>3
<1>7. ASSUME NEW d \in CopyRows
      PROVE  CopyFits(d)'
  <2>1. CASE d = c
    BY <1>2, <2>1, NoCopyYet DEF CopyFits
  <2>2. CASE d # c
    <3>1. CopyFits(d) /\ (d \in p5' <=> d \in p5)
      BY <2>2 DEF CopiesInv
    <3>2. p3'[d].original # "none" => p3'[d].original = p3[d].original /\ p3[d].original # c
      BY <1>1, <2>2
    <3>3. p3[d].original \in Live /\ p3[d].original # c =>
            p3'[p3[d].original].from = p3[p3[d].original].from
      BY <1>1, <1>5
    <3>. QED  BY <1>1, <1>5, <2>2, <3>1, <3>2, <3>3 DEF CopyFits
  <2>. QED  BY <2>1, <2>2
<1>8. ASSUME NEW y \in Requests
      PROVE  AdderFits(y)'
  <2>1. CASE p4'[y] = C!NoAdder
    BY <2>1, NoCopyYet DEF AdderFits
  <2>2. CASE p4'[y] = p4[y] /\ (p4[y].pc = "inserted" => p4[y].row # c)
    <3>1. AdderFits(y)
      BY DEF CopiesInv
    <3>2. p4[y].pc = "inserted" =>
            /\ p4[y].row \in CopyRows /\ p3'[p4[y].row].at = "none"
            /\ p3'[p4[y].row].from = p4[y].song
      BY <1>1, <2>2, <3>1 DEF AdderFits
    <3>3. p4[y].pc = "inserted" => \A d \in Live : p3'[d].from # p4[y].song
      BY <1>1, <1>5, <3>1 DEF AdderFits
    <3>4. ASSUME p4[y].pc = "inserted", p4[y].locked, p3'[p4[y].row].original = "none",
                 p4[y].row \notin p5', NEW d \in Live,
                 p3'[d].from = OriginalOf[p4[y].song]
          PROVE  d \in p5' \cup p6'
      <4>1. p4[y].row \in CopyRows /\ p4[y].row # c /\ p4[y].row \notin p5
        BY <2>2, <3>2, <3>4
      <4>2. p3[p4[y].row].original = "none"
        BY <1>1, <3>4, <4>1 DEF CopiesInv, CopyFits
      <4>3. d # c /\ p3[d].from = OriginalOf[p4[y].song]
        BY <1>1, <1>5, <3>4
      <4>4. d \in p5 \cup p6
        BY <3>1, <3>4, <4>1, <4>2, <4>3 DEF AdderFits
      <4>. QED  BY <4>3, <4>4
    <3>. QED  BY <1>5, <2>2, <3>1, <3>2, <3>3, <3>4 DEF AdderFits
  <2>. QED  BY <2>1, <2>2
<1>9. /\ \A d, e \in Live : p3'[d].from = p3'[e].from => d = e
      /\ \A y, z \in Requests : p4'[y].locked /\ p4'[z].locked => y = z
      /\ \A y, z \in Requests : p4'[y].pc = "inserted" /\ p4'[z].pc = "inserted" /\ y # z
            => p4'[y].song # p4'[z].song /\ p4'[y].row # p4'[z].row
  BY <1>1, <1>5, NoCopyYet DEF CopiesInv
<1>. QED  BY <1>4, <1>5, <1>6, <1>7, <1>8, <1>9 DEF CopiesInv

\* For good, or because its transaction failed.
LEMMA CopiesPurged ==
    ASSUME CopiesInv,
           \/ \E c \in CopyRows : C!PurgeCopy(c)
           \/ \E x \in Requests : C!AbortAdder(x) /\ p4[x].pc = "inserted"
    PROVE  CopiesInv'
<1>1. ASSUME NEW c \in CopyRows, C!PurgeCopy(c)
      PROVE  CopiesInv'
  <2>1. /\ p3[c].at = "trash" /\ UNCHANGED <<p1, p2>> /\ p5' = p5 \ {c} /\ p6' = p6 \ {c}
        /\ p3' = [d \in CopyRows |->
                    IF d = c THEN C!NoCopy
                    ELSE IF p3[d].original = c THEN [p3[d] EXCEPT !.original = "none"]
                    ELSE p3[d]]
        /\ p4' = [x \in Requests |-> IF p4[x].row = c THEN C!NoAdder ELSE p4[x]]
    BY <1>1 DEF C!PurgeCopy
  <2>2. c \notin Live
    BY <2>1 DEF Live, C!LiveCopies
  <2>3. /\ p4' \in [Requests -> C!AdderRecords]
        /\ \A y \in Requests : \/ p4'[y] = p4[y] /\ (p4[y].pc = "inserted" => p4[y].row # c)
                               \/ p4'[y] = C!NoAdder
    BY <2>1, CopyTyped, NoCopyYet
  <2>. QED  BY <2>1, <2>2, <2>3, CopiesGo
<1>2. ASSUME NEW x \in Requests, C!AbortAdder(x), p4[x].pc = "inserted"
      PROVE  CopiesInv'
  <2>. DEFINE c == p4[x].row
  <2>1. /\ UNCHANGED <<p1, p2, p6>> /\ p5' = p5 \ {c} /\ c \in CopyRows
        /\ p3' = [p3 EXCEPT ![c] = C!NoCopy] /\ p4' = [p4 EXCEPT ![x] = C!NoAdder]
        /\ p3[c].at = "none"
    BY <1>2 DEF C!AbortAdder, C!SetAdder, CopiesInv, AdderFits
  <2>2. c \notin Live
    BY <2>1 DEF Live, C!LiveCopies
  <2>3. ASSUME NEW d \in CopyRows
        PROVE  p3[d].original # c
    BY <2>1, WorkspaceBounds DEF CopiesInv, CopyFits
  <2>4. p3' = [d \in CopyRows |->
                 IF d = c THEN C!NoCopy
                 ELSE IF p3[d].original = c THEN [p3[d] EXCEPT !.original = "none"]
                 ELSE p3[d]]
    BY <2>1, <2>3, CopyTyped
  <2>5. /\ p4' \in [Requests -> C!AdderRecords]
        /\ \A y \in Requests : \/ p4'[y] = p4[y] /\ (p4[y].pc = "inserted" => p4[y].row # c)
                               \/ p4'[y] = C!NoAdder
    BY <1>2, <2>1, CopyTyped, NoCopyYet DEF CopiesInv
  <2>. QED  BY <2>1, <2>2, <2>4, <2>5, CopiesGo
<1>. QED  BY <1>1, <1>2

\* Whatever happens next, copies stay apart and together.
LEMMA CopiesMove == CopiesInv /\ C!CopiesNext => CopiesInv'
BY CopiesRead, CopiesEdited, CopiesInsert, CopiesCommit, CopiesTrash, CopiesRestore,
   CopiesPurged DEF C!CopiesNext

\* So a band has one copy of a song, and no more songs than its limit.
LEMMA CopiesSafe == CopiesInv => C!CopySafety
<1>. SUFFICES ASSUME CopiesInv
              PROVE  C!CopySafety
  OBVIOUS
<1>1. ASSUME NEW s \in Originals
      PROVE  Cardinality(C!CopiesOf(s)) <= 1
  <2>1. CASE C!CopiesOf(s) = {}
    BY <2>1, FS_EmptySet
  <2>2. ASSUME NEW c \in C!CopiesOf(s)
        PROVE  Cardinality(C!CopiesOf(s)) <= 1
    <3>1. C!CopiesOf(s) = {c}
      BY DEF C!CopiesOf, CopiesInv, Live
    <3>2. Cardinality({c}) = 1
      BY FS_Singleton
    <3>. QED  BY <3>1, <3>2
  <2>. QED  BY <2>1, <2>2
<1>2. C!OneCopyPerSong
  BY <1>1, CopyCounts DEF C!OneCopyPerSong
<1>3. C!CopiesWithinLimit
  BY CopyCounts DEF CopiesInv, C!CopiesWithinLimit, Counting, Live
<1>. QED  BY <1>2, <1>3 DEF CopiesInv, C!CopySafety

\* So it is when nothing happens.
LEMMA CopiesIdle ==
    ASSUME CopiesInv, UNCHANGED <<p1, p2, p3, p4, p5, p6>>
    PROVE  CopiesInv'
BY CopyTyped, CopiesGoOn

-----------------------------------------------------------------------------
(* Bands: p1 is the accounts, p2 the bands, p3 the roles, p4 the invites,   *)
(* p5 the transactions, p6 how many staff added, p7 how often they acted.   *)

Joined(b) == B!MembersOf(b)

\* Who creates a band is alone to; who redeems an invite holds it, and has
\* room; whom a deletion promoted is still there.
TxFits(x) ==
    /\ p5[x].pc # "idle" => p5[x].who \in Members
    /\ p5[x].pc \in {"create", "redeem", "transfer", "deleteBand", "promote"} =>
         p5[x].band \in Bands
    /\ p5[x].pc \in {"transfer", "promote"} => p5[x].other \in Members
    /\ p5[x].pc = "transfer" => p5[x].other # p5[x].who
    /\ p5[x].pc = "create" => p5[x].band \notin p2
    /\ p5[x].pc = "redeem" =>
         /\ p5[x].invite \in Invites /\ p4[p5[x].invite].is = "usable"
         /\ p4[p5[x].invite].band = p5[x].band /\ p4[p5[x].invite].uses < InviteUses
         /\ p5[x].band \in p2
    /\ \A b \in Bands : p5[x].pc = "redeem" /\ p5[x].band = b =>
          Cardinality(Joined(b)) < MemberLimit
    /\ \A h \in p5[x].heirs : p3[h[1]][h[2]] # 0

\* An invite is of a band there is, and gives less than its maker could.
InviteFits(i) ==
    /\ p4[i].is = "usable" => /\ p4[i].band \in p2 /\ p4[i].by \in Members
                              /\ p4[i].role < 3
    /\ B!Usable(i) => /\ p3[p4[i].band][p4[i].by] >= 2
                      /\ p4[i].role < p3[p4[i].band][p4[i].by]

\* A band has at most one owner, and one as long as no account was deleted;
\* no more members than it may; none when it is gone.
BandFits(b) ==
    /\ \A u, v \in Members : p3[b][u] = 3 /\ p3[b][v] = 3 => u = v
    /\ Cardinality(Joined(b)) <= B!Seats + p6[b]
    /\ b \notin p2 => \A u \in Members : p3[b][u] = 0
    /\ p1 = Members /\ b \in p2 => \E u \in Members : p3[b][u] = 3

BandTypes ==
    /\ p1 \subseteq Members /\ p2 \subseteq Bands
    /\ p3 \in [Bands -> [Members -> 0 .. 3]]
    /\ p4 \in [Invites -> B!InviteRecords] /\ p5 \in [Requests -> B!BandTxRecords]
    /\ p6 \in [Bands -> Nat] /\ p7 \in Nat

BandInv ==
    /\ BandTypes
    /\ \A b \in Bands : BandFits(b)
    /\ \A i \in Invites : InviteFits(i)
    /\ \A x \in Requests : TxFits(x)
    /\ \A x, y \in Requests :
          p5[x].pc = p5[y].pc /\ p5[x].pc \in {"create", "redeem"} /\ p5[x].band = p5[y].band
             => x = y

\* A part counts as this module does; roles are numbers.
LEMMA BandCounts ==
    /\ \A X : B!Cardinality(X) = Cardinality(X)
    /\ B!None = 0 /\ B!Member = 1 /\ B!Admin = 2 /\ B!Owner = 3 /\ B!Roles = 0 .. 3
BY DEF B!Cardinality, Cardinality, B!None, B!Member, B!Admin, B!Owner, B!Roles

\* A band seats its owner at least.
LEMMA BandSeats == MemberLimit \in Nat /\ B!Seats \in Nat \ {0} /\ MemberLimit <= B!Seats
<1>1. MemberLimit \in Nat
  BY WorkspaceBounds
<1>. QED  BY <1>1 DEF B!Seats

\* The types, one by one.
LEMMA BandTyped ==
    ASSUME BandInv
    PROVE  /\ p1 \subseteq Members /\ p2 \subseteq Bands
           /\ p3 \in [Bands -> [Members -> 0 .. 3]]
           /\ p4 \in [Invites -> B!InviteRecords] /\ p5 \in [Requests -> B!BandTxRecords]
           /\ p6 \in [Bands -> Nat] /\ p7 \in Nat
           /\ \A b \in Bands : p3[b] \in [Members -> 0 .. 3] /\ p6[b] \in Nat
           /\ \A b \in Bands, u \in Members : p3[b][u] \in 0 .. 3
           /\ \A i \in Invites : p4[i] \in B!InviteRecords
           /\ \A x \in Requests : p5[x] \in B!BandTxRecords
BY DEF BandInv, BandTypes

\* Members are finitely many.
LEMMA JoinedFinite ==
    \A X \in SUBSET Members :
       /\ IsFiniteSet(X) /\ Cardinality(X) \in Nat
       /\ \A Z \in SUBSET X : Cardinality(Z) \in Nat /\ Cardinality(Z) <= Cardinality(X)
<1>. SUFFICES ASSUME NEW X \in SUBSET Members
              PROVE  /\ IsFiniteSet(X) /\ Cardinality(X) \in Nat
                     /\ \A Z \in SUBSET X : Cardinality(Z) \in Nat
                                            /\ Cardinality(Z) <= Cardinality(X)
  OBVIOUS
<1>1. IsFiniteSet(X)
  BY WorkspaceBounds, FS_Subset
<1>. QED  BY <1>1, FS_Subset, FS_CardinalityType

\* Neither a transaction nor an invite.
LEMMA NoTxYet ==
    /\ B!NoTx \in B!BandTxRecords /\ B!NoTx.pc = "idle" /\ B!NoTx.heirs = {}
    /\ B!NoInvite.is = "none" /\ B!NoInvite \in B!InviteRecords
BY WorkspaceBounds, BandCounts
   DEF B!NoTx, B!BandTxRecords, B!BandPCs, B!NoInvite, B!InviteRecords

\* There are no bands yet.
LEMMA BandStarts == B!BandInit => BandInv
<1>. SUFFICES ASSUME B!BandInit
              PROVE  BandInv
  OBVIOUS
<1>1. /\ p1 = Members /\ p2 = {} /\ p3 = [b \in Bands |-> [u \in Members |-> 0]]
      /\ p4 = [i \in Invites |-> B!NoInvite] /\ p5 = [x \in Requests |-> B!NoTx]
      /\ p6 = [b \in Bands |-> 0] /\ p7 = 0
  BY BandCounts DEF B!BandInit
<1>2. BandTypes
  BY <1>1, NoTxYet DEF BandTypes
<1>3. ASSUME NEW b \in Bands
      PROVE  BandFits(b)
  <2>1. Joined(b) = {}
    BY <1>1, BandCounts DEF Joined, B!MembersOf
  <2>2. Cardinality(Joined(b)) = 0 /\ B!Seats \in Nat /\ p6[b] = 0
    BY <1>1, <2>1, FS_EmptySet, BandSeats
  <2>3. Cardinality(Joined(b)) <= B!Seats + p6[b]
    BY <2>2
  <2>. QED  BY <1>1, <2>3 DEF BandFits
<1>4. ASSUME NEW i \in Invites
      PROVE  InviteFits(i)
  BY <1>1, NoTxYet DEF InviteFits, B!Usable
<1>5. ASSUME NEW x \in Requests
      PROVE  TxFits(x) /\ p5[x].pc = "idle"
  BY <1>1, NoTxYet DEF TxFits
<1>. QED  BY <1>2, <1>3, <1>4, <1>5 DEF BandInv

\* Transactions that go on stay fit; one of them may end.
LEMMA TxsStay ==
    ASSUME BandInv,
           p5' = p5 \/ \E x \in Requests : p5' = [p5 EXCEPT ![x] = B!NoTx],
           \A y \in Requests : p5'[y] = p5[y] =>
              /\ p5[y].pc = "create" => p5[y].band \notin p2'
              /\ p5[y].pc = "redeem" =>
                   /\ p4'[p5[y].invite] = p4[p5[y].invite] /\ p5[y].band \in p2'
                   /\ \A b \in Bands : p5[y].band = b => Joined(b)' \subseteq Joined(b)
              /\ \A h \in p5[y].heirs : p3'[h[1]][h[2]] # 0
    PROVE  /\ p5' \in [Requests -> B!BandTxRecords]
           /\ \A y \in Requests : TxFits(y)'
           /\ \A x, y \in Requests :
                 p5'[x].pc = p5'[y].pc /\ p5'[x].pc \in {"create", "redeem"}
                    /\ p5'[x].band = p5'[y].band => x = y
<1>1. ASSUME NEW y \in Requests
      PROVE  p5'[y] = p5[y] \/ p5'[y] = B!NoTx
  BY BandTyped
<1>2. p5' \in [Requests -> B!BandTxRecords]
  BY BandTyped, NoTxYet
<1>3. ASSUME NEW y \in Requests
      PROVE  TxFits(y)'
  <2>1. CASE p5'[y] = B!NoTx
    BY <2>1, NoTxYet DEF TxFits
  <2>2. CASE p5'[y] = p5[y]
    <3>1. TxFits(y)
      BY DEF BandInv
    <3>2. ASSUME NEW b \in Bands, p5[y].pc = "redeem", p5[y].band = b
          PROVE  Cardinality(Joined(b)') < MemberLimit
      <4>1. Joined(b) \subseteq Members /\ Joined(b)' \subseteq Joined(b)
        BY <2>2, <3>2 DEF Joined, B!MembersOf
      <4>2. /\ Cardinality(Joined(b)') <= Cardinality(Joined(b))
            /\ Cardinality(Joined(b)') \in Nat /\ Cardinality(Joined(b)) \in Nat
        BY <4>1, JoinedFinite
      <4>3. Cardinality(Joined(b)) < MemberLimit /\ MemberLimit \in Nat
        BY <3>1, <3>2, WorkspaceBounds DEF TxFits
      <4>. QED  BY <4>2, <4>3
    <3>. QED  BY <2>2, <3>1, <3>2 DEF TxFits
  <2>. QED  BY <1>1, <2>1, <2>2
<1>4. ASSUME NEW x \in Requests, NEW y \in Requests,
             p5'[x].pc = p5'[y].pc, p5'[x].pc \in {"create", "redeem"},
             p5'[x].band = p5'[y].band
      PROVE  x = y
  BY <1>1, <1>4, NoTxYet DEF BandInv
<1>. QED  BY <1>2, <1>3, <1>4

\* A transaction goes on, and nothing else changes.
LEMMA TxOnly ==
    ASSUME BandInv, NEW x \in Requests, NEW t \in B!BandTxRecords,
           p5' = [p5 EXCEPT ![x] = t], TxFits(x)',
           UNCHANGED <<p1, p2, p3, p4, p6, p7>>,
           t.pc \in {"create", "redeem"} =>
              \A y \in Requests \ {x} : ~(p5[y].pc = t.pc /\ p5[y].band = t.band)
    PROVE  BandInv'
<1>1. /\ p5' \in [Requests -> B!BandTxRecords] /\ p5'[x] = t
      /\ \A y \in Requests \ {x} : p5'[y] = p5[y]
  BY BandTyped
<1>2. BandTypes'
  BY <1>1 DEF BandInv, BandTypes
<1>3. ASSUME NEW b \in Bands
      PROVE  BandFits(b)'
  BY DEF BandInv, BandFits, Joined, B!MembersOf
<1>4. ASSUME NEW i \in Invites
      PROVE  InviteFits(i)'
  BY DEF BandInv, InviteFits, B!Usable
<1>5. ASSUME NEW y \in Requests
      PROVE  TxFits(y)'
  <2>1. CASE y # x
    <3>1. TxFits(y)
      BY DEF BandInv
    <3>. QED  BY <1>1, <2>1, <3>1 DEF TxFits, Joined, B!MembersOf
  <2>. QED  BY <2>1
<1>6. ASSUME NEW y \in Requests, NEW z \in Requests,
             p5'[y].pc = p5'[z].pc, p5'[y].pc \in {"create", "redeem"},
             p5'[y].band = p5'[z].band
      PROVE  y = z
  BY <1>1, <1>6 DEF BandInv
<1>. QED  BY <1>2, <1>3, <1>4, <1>5, <1>6 DEF BandInv

\* What does not happen changes nothing.
LEMMA TxEnds ==
    ASSUME BandInv, NEW x \in Requests, B!EndTx(x),
           UNCHANGED <<p1, p2, p3, p4, p6, p7>>
    PROVE  BandInv'
<1>1. p5' = [p5 EXCEPT ![x] = B!NoTx] /\ p5'[x] = B!NoTx
  BY BandTyped DEF B!EndTx
<1>2. TxFits(x)'
  BY <1>1, NoTxYet DEF TxFits
<1>. QED  BY <1>1, <1>2, NoTxYet, TxOnly

\* What a transaction begins with.
LEMMA TxBegins ==
    ASSUME BandInv, NEW x \in Requests, NEW pc \in B!BandPCs, NEW u \in Members,
           NEW b \in Bands, NEW v \in Members \cup {"none"},
           NEW i \in Invites \cup {"none"}, B!Begin(x, pc, u, b, v, i)
    PROVE  \E t \in B!BandTxRecords :
              /\ p5' = [p5 EXCEPT ![x] = t] /\ p5'[x] = t
              /\ t.pc = pc /\ t.who = u /\ t.band = b /\ t.other = v /\ t.invite = i
              /\ t.heirs = {}
<1>. DEFINE t == [B!NoTx EXCEPT !.pc = pc, !.who = u, !.band = b, !.other = v, !.invite = i]
<1>1. /\ t \in B!BandTxRecords
      /\ t.pc = pc /\ t.who = u /\ t.band = b /\ t.other = v /\ t.invite = i /\ t.heirs = {}
  BY DEF B!BandTxRecords, B!NoTx
<1>2. p5' = [p5 EXCEPT ![x] = t] /\ p5'[x] = t
  BY BandTyped DEF B!Begin
<1>. QED  BY <1>1, <1>2

\* A person begins to create a band.
LEMMA BandBegins ==
    ASSUME BandInv, NEW x \in Requests, NEW u \in Members, NEW b \in Bands,
           B!BeginCreate(x, u, b)
    PROVE  BandInv'
<1>0. "create" \in B!BandPCs
  BY DEF B!BandPCs
<1>1. PICK t \in B!BandTxRecords :
         /\ p5' = [p5 EXCEPT ![x] = t] /\ p5'[x] = t
         /\ t.pc = "create" /\ t.who = u /\ t.band = b /\ t.heirs = {}
  BY <1>0, TxBegins DEF B!BeginCreate
<1>2. TxFits(x)'
  BY <1>1 DEF TxFits, B!BeginCreate
<1>. QED  BY <1>1, <1>2, TxOnly DEF B!BeginCreate

\* An owner asks to hand a band over, or to delete it.
LEMMA BandAsks ==
    ASSUME BandInv, NEW x \in Requests, NEW u \in Members, NEW b \in Bands,
           B!AskDeleteBand(x, b, u) \/ \E v \in Members : B!AskTransfer(x, b, u, v)
    PROVE  BandInv'
<1>0. {"deleteBand", "transfer"} \subseteq B!BandPCs
  BY DEF B!BandPCs
<1>1. CASE B!AskDeleteBand(x, b, u)
  <2>1. PICK t \in B!BandTxRecords :
           /\ p5' = [p5 EXCEPT ![x] = t] /\ p5'[x] = t
           /\ t.pc = "deleteBand" /\ t.who = u /\ t.band = b /\ t.heirs = {}
    BY <1>0, <1>1, TxBegins DEF B!AskDeleteBand
  <2>2. TxFits(x)'
    BY <2>1 DEF TxFits
  <2>. QED  BY <1>1, <2>1, <2>2, TxOnly DEF B!AskDeleteBand
<1>2. ASSUME NEW v \in Members, B!AskTransfer(x, b, u, v)
      PROVE  BandInv'
  <2>1. PICK t \in B!BandTxRecords :
           /\ p5' = [p5 EXCEPT ![x] = t] /\ p5'[x] = t
           /\ t.pc = "transfer" /\ t.who = u /\ t.band = b /\ t.other = v /\ t.heirs = {}
    BY <1>0, <1>2, TxBegins DEF B!AskTransfer
  <2>2. TxFits(x)'
    BY <1>2, <2>1 DEF TxFits, B!AskTransfer
  <2>. QED  BY <1>2, <2>1, <2>2, TxOnly DEF B!AskTransfer
<1>. QED  BY <1>1, <1>2

\* Somebody begins to redeem an invite: the band has room for one.
LEMMA BandRedeems ==
    ASSUME BandInv, NEW x \in Requests, NEW u \in Members, NEW i \in Invites,
           B!BeginRedeem(x, i, u)
    PROVE  BandInv'
<1>. DEFINE b == p4[i].band
<1>0. "redeem" \in B!BandPCs
  BY DEF B!BandPCs
<1>1. /\ B!Usable(i) /\ B!MayBegin(b, u) /\ B!Begin(x, "redeem", u, b, "none", i)
      /\ B!Cardinality(B!MembersOf(b)) + 1 <= MemberLimit
      /\ UNCHANGED <<p1, p2, p3, p4, p6, p7>>
  BY DEF B!BeginRedeem
<1>2. p4[i].is = "usable" /\ p4[i].uses < InviteUses
  BY <1>1 DEF B!Usable
<1>3. b \in p2 /\ b \in Bands
  BY <1>2, BandTyped DEF BandInv, InviteFits
<1>4. Cardinality(Joined(b)) < MemberLimit
  <2>1. Cardinality(Joined(b)) \in Nat
    BY JoinedFinite DEF Joined, B!MembersOf
  <2>2. MemberLimit \in Nat
    BY WorkspaceBounds
  <2>3. Cardinality(Joined(b)) + 1 <= MemberLimit
    BY <1>1, BandCounts DEF Joined
  <2>. QED  BY <2>1, <2>2, <2>3
<1>5. PICK t \in B!BandTxRecords :
         /\ p5' = [p5 EXCEPT ![x] = t] /\ p5'[x] = t
         /\ t.pc = "redeem" /\ t.who = u /\ t.band = b /\ t.invite = i /\ t.heirs = {}
  BY <1>0, <1>1, <1>3, TxBegins
<1>. HIDE DEF b
<1>6. Cardinality(Joined(b))' < MemberLimit
  BY <1>1, <1>4 DEF Joined, B!MembersOf, b
<1>7. TxFits(x)'
  <2>1. /\ p5'[x].pc = "redeem" /\ p5'[x].who = u /\ p5'[x].band = b /\ p5'[x].invite = i
        /\ p5'[x].heirs = {} /\ p4' = p4 /\ p2' = p2 /\ b = p4[i].band
    BY <1>1, <1>5 DEF b
  <2>2. ASSUME NEW d \in Bands, p5'[x].band = d
        PROVE  Cardinality(Joined(d))' < MemberLimit
    BY <1>1, <1>4, <2>1, <2>2 DEF Joined, B!MembersOf
  <2>. QED  BY <1>2, <1>3, <2>1, <2>2 DEF TxFits
<1>8. \A y \in Requests \ {x} : ~(p5[y].pc = t.pc /\ p5[y].band = t.band)
  BY <1>1, <1>5 DEF B!MayBegin, B!BandLocked
<1>. QED  BY <1>1, <1>5, <1>7, <1>8, TxOnly

\* An account's deletion lists the bands it owns.
LEMMA BandLists ==
    ASSUME BandInv, NEW x \in Requests, NEW u \in Members, B!ListOwned(x, u)
    PROVE  BandInv'
<1>. DEFINE owned == {b \in p2 : p3[b][u] = B!Owner}
            t == [B!NoTx EXCEPT !.pc = "pick", !.who = u, !.todo = owned]
<1>1. /\ t \in B!BandTxRecords /\ t.pc = "pick" /\ t.who = u /\ t.heirs = {}
  BY BandTyped DEF B!BandTxRecords, B!NoTx, B!BandPCs
<1>2. p5' = [p5 EXCEPT ![x] = t] /\ p5'[x] = t
  BY BandTyped DEF B!ListOwned
<1>. HIDE DEF t
<1>3. TxFits(x)'
  BY <1>1, <1>2 DEF TxFits
<1>. QED  BY <1>1, <1>2, <1>3, TxOnly DEF B!ListOwned

\* It picks the heir of one, if somebody is left.
LEMMA BandPicks ==
    ASSUME BandInv, NEW x \in Requests, NEW b \in Bands, B!PickHeir(x, b)
    PROVE  BandInv'
<1>1. /\ p5[x] \in B!BandTxRecords /\ p5[x].pc = "pick" /\ b \in p5[x].todo
      /\ UNCHANGED <<p1, p2, p3, p4, p6, p7>> /\ TxFits(x)
  BY BandTyped DEF B!PickHeir, BandInv
<1>2. ASSUME p5' = [p5 EXCEPT ![x].todo = @ \ {b}, ![x].ending = @ \cup {b}]
      PROVE  BandInv'
  <2>. DEFINE t == [p5[x] EXCEPT !.todo = @ \ {b}, !.ending = @ \cup {b}]
  <2>1. /\ t \in B!BandTxRecords /\ t.pc = "pick" /\ t.who = p5[x].who
        /\ t.heirs = p5[x].heirs
    BY <1>1 DEF B!BandTxRecords
  <2>2. p5' = [p5 EXCEPT ![x] = t] /\ p5'[x] = t
    BY <1>2, BandTyped
  <2>. HIDE DEF t
  <2>3. TxFits(x)'
    BY <1>1, <2>1, <2>2 DEF TxFits
  <2>. QED  BY <1>1, <2>1, <2>2, <2>3, TxOnly
<1>3. ASSUME NEW u \in Members,
             p5' = [p5 EXCEPT ![x].todo = @ \ {b}, ![x].band = b, ![x].other = u,
                              ![x].pc = "promote"]
      PROVE  BandInv'
  <2>. DEFINE t == [p5[x] EXCEPT !.todo = @ \ {b}, !.band = b, !.other = u,
                                 !.pc = "promote"]
  <2>1. /\ t \in B!BandTxRecords /\ t.pc = "promote" /\ t.who = p5[x].who
        /\ t.heirs = p5[x].heirs /\ t.band = b /\ t.other = u
    BY <1>1 DEF B!BandTxRecords, B!BandPCs
  <2>2. p5' = [p5 EXCEPT ![x] = t] /\ p5'[x] = t
    BY <1>3, BandTyped
  <2>. HIDE DEF t
  <2>3. TxFits(x)'
    BY <1>1, <2>1, <2>2 DEF TxFits
  <2>. QED  BY <1>1, <2>1, <2>2, <2>3, TxOnly
<1>. QED  BY <1>2, <1>3 DEF B!PickHeir, B!MembersOf

\* It promotes them, if they are still there.
LEMMA BandPromotes ==
    ASSUME BandInv, NEW x \in Requests, B!PromoteHeir(x)
    PROVE  BandInv'
<1>. DEFINE b == p5[x].band
            u == p5[x].other
            heirs == IF p3[b][u] # B!None THEN p5[x].heirs \cup {<<b, u>>} ELSE p5[x].heirs
            t == [p5[x] EXCEPT !.pc = "pick", !.heirs = heirs]
<1>1. /\ p5[x] \in B!BandTxRecords /\ p5[x].pc = "promote" /\ b \in Bands /\ u \in Members
      /\ UNCHANGED <<p1, p2, p3, p4, p6, p7>> /\ TxFits(x) /\ p5[x].who \in Members
  BY BandTyped DEF B!PromoteHeir, BandInv, TxFits
<1>2. /\ heirs \in SUBSET (Bands \X Members)
      /\ \A h \in heirs : p3[h[1]][h[2]] # 0
  <2>1. p5[x].heirs \in SUBSET (Bands \X Members) /\ \A h \in p5[x].heirs : p3[h[1]][h[2]] # 0
    BY <1>1 DEF B!BandTxRecords, TxFits
  <2>. QED  BY <1>1, <2>1, BandCounts
<1>3. p5' = [p5 EXCEPT ![x] = t] /\ p5'[x] = t
  <2>1. p5' = [p5 EXCEPT ![x].pc = "pick", ![x].heirs = heirs]
    BY DEF B!PromoteHeir
  <2>. HIDE DEF heirs
  <2>. QED  BY <2>1, BandTyped
<1>. HIDE DEF heirs
<1>4. /\ t \in B!BandTxRecords /\ t.pc = "pick" /\ t.who = p5[x].who /\ t.heirs = heirs
  BY <1>1, <1>2 DEF B!BandTxRecords, B!BandPCs
<1>. HIDE DEF t
<1>5. TxFits(x)'
  BY <1>1, <1>2, <1>3, <1>4 DEF TxFits
<1>. QED  BY <1>1, <1>3, <1>4, <1>5, TxOnly

\* An invite is made, by somebody who may give what it gives.
LEMMA BandInvites ==
    ASSUME BandInv, NEW i \in Invites, NEW b \in Bands, NEW u \in Members,
           NEW r \in B!Roles, B!CreateInvite(i, b, u, r)
    PROVE  BandInv'
<1>. DEFINE n == [is |-> "usable", band |-> b, by |-> u, role |-> r, uses |-> 0]
<1>1. /\ p4[i].is = "none" /\ b \in p2 /\ p3[b][u] >= 2 /\ r < p3[b][u] /\ r \in 0 .. 3
      /\ p4' = [p4 EXCEPT ![i] = n] /\ UNCHANGED <<p1, p2, p3, p5, p6, p7>>
  BY BandCounts DEF B!CreateInvite
<1>2. InviteUses \in Nat
  BY WorkspaceBounds
<1>3. n \in B!InviteRecords
  BY <1>1, <1>2, BandCounts DEF B!InviteRecords
<1>4. /\ p4' \in [Invites -> B!InviteRecords] /\ p4'[i] = n
      /\ \A j \in Invites \ {i} : p4'[j] = p4[j]
  BY <1>1, <1>3, BandTyped
<1>5. BandTypes'
  BY <1>1, <1>4 DEF BandInv, BandTypes
<1>6. ASSUME NEW d \in Bands
      PROVE  BandFits(d)'
  BY <1>1 DEF BandInv, BandFits, Joined, B!MembersOf
<1>7. ASSUME NEW j \in Invites
      PROVE  InviteFits(j)'
  <2>1. CASE j = i
    <3>1. p3[b][u] \in 0 .. 3
      BY BandTyped
    <3>2. r < 3
      BY <1>1, <3>1
    <3>. QED  BY <1>1, <1>4, <2>1, <3>2 DEF InviteFits
  <2>2. CASE j # i
    <3>1. InviteFits(j)
      BY DEF BandInv
    <3>. QED  BY <1>1, <1>4, <2>2, <3>1 DEF InviteFits, B!Usable
  <2>. QED  BY <2>1, <2>2
<1>8. \A y \in Requests : p5[y].pc = "redeem" => p5[y].invite # i
  BY <1>1 DEF BandInv, TxFits
<1>9. \A y \in Requests : TxFits(y)'
  <2>1. ASSUME NEW y \in Requests
        PROVE  TxFits(y)'
    <3>1. TxFits(y)
      BY DEF BandInv
    <3>. QED  BY <1>1, <1>4, <1>8, <3>1 DEF TxFits, Joined, B!MembersOf
  <2>. QED  BY <2>1
<1>. QED  BY <1>1, <1>5, <1>6, <1>7, <1>9 DEF BandInv

\* One is revoked, once nobody redeems it.
LEMMA BandRevokes ==
    ASSUME BandInv, NEW i \in Invites, NEW u \in Members, B!RevokeInvite(i, u)
    PROVE  BandInv'
<1>. DEFINE n == [p4[i] EXCEPT !.is = "revoked"]
<1>1. /\ p4[i] \in B!InviteRecords /\ p4' = [p4 EXCEPT ![i] = n]
      /\ UNCHANGED <<p1, p2, p3, p5, p6, p7>>
  BY BandTyped DEF B!RevokeInvite
<1>2. n \in B!InviteRecords /\ n.is = "revoked"
  BY <1>1 DEF B!InviteRecords
<1>. HIDE DEF n
<1>3. /\ p4' \in [Invites -> B!InviteRecords] /\ p4'[i] = n
      /\ \A j \in Invites \ {i} : p4'[j] = p4[j]
  BY <1>1, <1>2, BandTyped
<1>4. BandTypes'
  BY <1>1, <1>3 DEF BandInv, BandTypes
<1>5. ASSUME NEW d \in Bands
      PROVE  BandFits(d)'
  BY <1>1 DEF BandInv, BandFits, Joined, B!MembersOf
<1>6. ASSUME NEW j \in Invites
      PROVE  InviteFits(j)'
  <2>1. InviteFits(j)
    BY DEF BandInv
  <2>. QED  BY <1>1, <1>2, <1>3, <2>1 DEF InviteFits, B!Usable
<1>7. \A y \in Requests : p5[y].pc = "redeem" => p5[y].invite # i
  BY DEF B!RevokeInvite, B!InviteFree
<1>8. ASSUME NEW y \in Requests
      PROVE  TxFits(y)'
  <2>1. TxFits(y)
    BY DEF BandInv
  <2>. QED  BY <1>1, <1>3, <1>7, <2>1 DEF TxFits, Joined, B!MembersOf
<1>. QED  BY <1>1, <1>4, <1>5, <1>6, <1>8 DEF BandInv

\* What is revoked can not be used, and the rest stays as it was.
LEMMA RevokedAre ==
    ASSUME BandInv, NEW b \in Bands, NEW u \in Members, p4' = B!RevokedOf(b, u)
    PROVE  /\ p4' \in [Invites -> B!InviteRecords]
           /\ \A j \in Invites :
                 /\ p4[j].band # b => p4'[j] = p4[j]
                 /\ p4'[j].is = "usable" => /\ p4'[j] = p4[j]
                                            /\ ~(p4[j].band = b /\ p4[j].by = u)
<1>1. ASSUME NEW j \in Invites
      PROVE  /\ p4'[j] \in B!InviteRecords
             /\ p4[j].band # b => p4'[j] = p4[j]
             /\ p4'[j].is = "usable" => /\ p4'[j] = p4[j]
                                        /\ ~(p4[j].band = b /\ p4[j].by = u)
  <2>. DEFINE n == [p4[j] EXCEPT !.is = "revoked"]
  <2>1. p4'[j] = IF p4[j].band = b /\ p4[j].by = u THEN n ELSE p4[j]
    BY DEF B!RevokedOf
  <2>2. p4[j] \in B!InviteRecords /\ n \in B!InviteRecords /\ n.is = "revoked"
    BY BandTyped DEF B!InviteRecords
  <2>. HIDE DEF n
  <2>. QED  BY <2>1, <2>2
<1>2. DOMAIN p4' = Invites /\ p4' = [j \in Invites |-> p4'[j]]
  BY DEF B!RevokedOf
<1>. QED  BY <1>1, <1>2

\* A band that waits for nobody's lock is not joined meanwhile.
LEMMA NobodyJoins ==
    ASSUME BandInv, NEW b \in Bands, ~B!BandLocked(b),
           \A j \in Invites : p4[j].band # b => p4'[j] = p4[j],
           \A d \in Bands \ {b} : p3'[d] = p3[d],
           b \in p2, p2' = p2 \/ p2' = p2 \ {b}
    PROVE  \A y \in Requests :
              /\ p5[y].pc = "create" => p5[y].band \notin p2'
              /\ p5[y].pc = "redeem" =>
                   /\ p4'[p5[y].invite] = p4[p5[y].invite] /\ p5[y].band \in p2'
                   /\ \A d \in Bands : p5[y].band = d => Joined(d)' \subseteq Joined(d)
<1>. SUFFICES ASSUME NEW y \in Requests
              PROVE  /\ p5[y].pc = "create" => p5[y].band \notin p2'
                     /\ p5[y].pc = "redeem" =>
                          /\ p4'[p5[y].invite] = p4[p5[y].invite] /\ p5[y].band \in p2'
                          /\ \A d \in Bands : p5[y].band = d => Joined(d)' \subseteq Joined(d)
  OBVIOUS
<1>1. TxFits(y)
  BY DEF BandInv
<1>2. p5[y].pc = "redeem" => p5[y].band # b
  BY DEF B!BandLocked
<1>3. \A d \in Bands : d # b => Joined(d)' = Joined(d)
  BY DEF Joined, B!MembersOf
<1>. QED  BY <1>1, <1>2, <1>3 DEF TxFits

\* One row is written, of a band that is not locked: an owner is neither
\* removed nor added to another, invites go with the authority behind them,
\* and only the staff add somebody.
LEMMA RowWritten ==
    ASSUME BandInv, NEW b \in Bands, NEW u \in Members, NEW r \in 0 .. 3,
           B!Writes(b, u, r), p3[b][u] # 3,
           r = 3 => \A v \in Members : p3[b][v] # 3,
           p4' = B!RevokedOf(b, u) \/ (p4' = p4 /\ p3[b][u] <= r),
           p6' \in [Bands -> Nat], \A d \in Bands : p6[d] <= p6'[d],
           p3[b][u] = 0 /\ r # 0 => p6[b] + 1 <= p6'[b],
           p7' \in Nat, UNCHANGED <<p1, p2, p5>>
    PROVE  BandInv'
<1>1. /\ b \in p2 /\ ~B!BandLocked(b) /\ B!RowFree(b, u) /\ p3' = [p3 EXCEPT ![b][u] = r]
  BY DEF B!Writes
<1>2. /\ p3' \in [Bands -> [Members -> 0 .. 3]] /\ p3'[b][u] = r
      /\ \A v \in Members : v # u => p3'[b][v] = p3[b][v]
      /\ \A d \in Bands \ {b} : p3'[d] = p3[d]
  BY <1>1, BandTyped
<1>3. /\ p4' \in [Invites -> B!InviteRecords]
      /\ \A j \in Invites :
            /\ p4[j].band # b => p4'[j] = p4[j]
            /\ p4'[j].is = "usable" => /\ p4'[j] = p4[j]
                                       /\ p3[b][u] <= r \/ ~(p4[j].band = b /\ p4[j].by = u)
  <2>1. CASE p4' = B!RevokedOf(b, u)
    BY <2>1, RevokedAre
  <2>2. CASE p4' = p4 /\ p3[b][u] <= r
    BY <2>2, BandTyped
  <2>. QED  BY <2>1, <2>2
<1>4. BandTypes'
  BY <1>2, <1>3 DEF BandInv, BandTypes
<1>5. ASSUME NEW d \in Bands
      PROVE  BandFits(d)'
  <2>1. BandFits(d)
    BY DEF BandInv
  <2>2. Cardinality(Joined(d))' <= B!Seats + p6'[d]
    <3>1. /\ Joined(d) \in SUBSET Members /\ IsFiniteSet(Joined(d))
          /\ Cardinality(Joined(d)) \in Nat
      BY JoinedFinite DEF Joined, B!MembersOf
    <3>2. /\ B!Seats \in Nat
          /\ p6[d] \in Nat /\ p6'[d] \in Nat /\ p6[d] <= p6'[d]
      BY BandSeats, BandTyped
    <3>3. CASE d = b /\ p3[b][u] = 0 /\ r # 0
      <4>1. Joined(d)' = Joined(d) \cup {u}
        BY <1>2, <3>3, BandCounts DEF Joined, B!MembersOf
      <4>2. u \notin Joined(d)
        BY <3>3, BandCounts DEF Joined, B!MembersOf
      <4>3. Cardinality(Joined(d) \cup {u}) = Cardinality(Joined(d)) + 1
        BY <3>1, <4>2, FS_AddElement
      <4>. QED  BY <2>1, <3>1, <3>2, <3>3, <4>1, <4>3 DEF BandFits
    <3>4. CASE ~(d = b /\ p3[b][u] = 0 /\ r # 0)
      <4>1. Joined(d)' \subseteq Joined(d)
        BY <1>2, <3>4, BandCounts DEF Joined, B!MembersOf
      <4>2. /\ Cardinality(Joined(d)') <= Cardinality(Joined(d))
            /\ Cardinality(Joined(d)') \in Nat
        BY <3>1, <4>1, JoinedFinite
      <4>. QED  BY <2>1, <3>1, <3>2, <4>2 DEF BandFits
    <3>. QED  BY <3>3, <3>4
  <2>3. \A v, w \in Members : p3'[d][v] = 3 /\ p3'[d][w] = 3 => v = w
    BY <1>2, <2>1 DEF BandFits
  <2>4. d \notin p2' => \A v \in Members : p3'[d][v] = 0
    BY <1>1, <1>2, <2>1 DEF BandFits
  <2>5. p1' = Members /\ d \in p2' => \E v \in Members : p3'[d][v] = 3
    BY <1>2, <2>1 DEF BandFits
  <2>. QED  BY <2>2, <2>3, <2>4, <2>5 DEF BandFits
<1>6. ASSUME NEW j \in Invites
      PROVE  InviteFits(j)'
  <2>1. InviteFits(j)
    BY DEF BandInv
  <2>2. CASE p4'[j].is # "usable"
    BY <2>2 DEF InviteFits, B!Usable
  <2>3. CASE p4'[j].is = "usable"
    <3>1. /\ p4'[j] = p4[j] /\ p4[j].is = "usable"
          /\ p3[b][u] <= r \/ ~(p4[j].band = b /\ p4[j].by = u)
      BY <1>3, <2>3
    <3>2. p4[j].band \in p2 /\ p4[j].by \in Members /\ p4[j].role < 3 /\ p4[j].band \in Bands
      BY <2>1, <3>1, BandTyped DEF InviteFits
    <3>3. p3'[p4[j].band][p4[j].by] >= p3[p4[j].band][p4[j].by]
      <4>1. CASE p4[j].band = b /\ p4[j].by = u
        BY <1>2, <3>1, <4>1, BandTyped
      <4>2. CASE ~(p4[j].band = b /\ p4[j].by = u)
        <5>1. p3'[p4[j].band][p4[j].by] = p3[p4[j].band][p4[j].by]
          BY <1>2, <3>2, <4>2
        <5>2. p3[p4[j].band][p4[j].by] \in 0 .. 3
          BY <3>2, BandTyped
        <5>. QED  BY <5>1, <5>2
      <4>. QED  BY <4>1, <4>2
    <3>4. /\ p3'[p4[j].band][p4[j].by] \in Int /\ p3[p4[j].band][p4[j].by] \in Int
          /\ p4[j].role \in Int
      BY <1>2, <3>2, BandTyped, BandCounts DEF B!InviteRecords
    <3>5. B!Usable(j)' => B!Usable(j)
      BY <3>1 DEF B!Usable
    <3>6. B!Usable(j)' => /\ p3'[p4[j].band][p4[j].by] >= 2
                          /\ p4[j].role < p3'[p4[j].band][p4[j].by]
      BY <2>1, <3>3, <3>4, <3>5 DEF InviteFits
    <3>. QED  BY <3>1, <3>2, <3>6 DEF InviteFits
  <2>. QED  BY <2>2, <2>3
<1>7. ASSUME NEW y \in Requests, NEW h \in p5[y].heirs
      PROVE  p3'[h[1]][h[2]] # 0
  <2>1. h \in Bands \X Members /\ h # <<b, u>> /\ p3[h[1]][h[2]] # 0
    BY <1>1, BandTyped DEF BandInv, TxFits, B!RowFree, B!BandTxRecords
  <2>. QED  BY <1>2, <2>1
<1>8. /\ p5' \in [Requests -> B!BandTxRecords] /\ \A y \in Requests : TxFits(y)'
      /\ \A x, y \in Requests :
            p5'[x].pc = p5'[y].pc /\ p5'[x].pc \in {"create", "redeem"}
               /\ p5'[x].band = p5'[y].band => x = y
  BY <1>1, <1>2, <1>3, <1>7, NobodyJoins, TxsStay
<1>. QED  BY <1>4, <1>5, <1>6, <1>8 DEF BandInv

\* Members change each other's roles, remove each other, and leave.
LEMMA BandChanges ==
    ASSUME BandInv, NEW b \in Bands, NEW a \in Members, NEW u \in Members,
           B!RemoveMember(b, a, u) \/ \E r \in B!Roles : B!ChangeRole(b, a, u, r)
    PROVE  BandInv'
<1>0. /\ p3[b][u] \in 0 .. 3 /\ p3[b][a] \in 0 .. 3 /\ p6 \in [Bands -> Nat] /\ p7 \in Nat
      /\ \A d \in Bands : p6[d] \in Nat
  BY BandTyped
<1>1. CASE B!RemoveMember(b, a, u)
  <2>1. /\ B!Writes(b, u, 0) /\ B!Demotes(b, u, 0) /\ UNCHANGED <<p1, p2, p5, p6, p7>>
        /\ p3[b][u] # 3
    BY <1>0, <1>1, BandCounts DEF B!RemoveMember, B!MayGo
  <2>2. p4' = B!RevokedOf(b, u) \/ (p4' = p4 /\ p3[b][u] <= 0)
    BY <1>0, <2>1 DEF B!Demotes
  <2>3. \A d \in Bands : p6[d] <= p6'[d]
    BY <1>0, <2>1
  <2>. QED  BY <1>0, <2>1, <2>2, <2>3, RowWritten
<1>2. ASSUME NEW r \in B!Roles, B!ChangeRole(b, a, u, r)
      PROVE  BandInv'
  <2>1. /\ B!Writes(b, u, r) /\ B!Demotes(b, u, r) /\ UNCHANGED <<p1, p2, p5, p6, p7>>
        /\ p3[b][u] # 3 /\ p3[b][u] # 0 /\ r \in 0 .. 3 /\ r # 3
    BY <1>0, <1>2, BandCounts DEF B!ChangeRole
  <2>2. p4' = B!RevokedOf(b, u) \/ (p4' = p4 /\ p3[b][u] <= r)
    BY <1>0, <2>1 DEF B!Demotes
  <2>3. \A d \in Bands : p6[d] <= p6'[d]
    BY <1>0, <2>1
  <2>. QED  BY <1>0, <2>1, <2>2, <2>3, RowWritten
<1>. QED  BY <1>1, <1>2

\* So do the platform's staff, who may pass every limit and give away a band
\* nobody owns.
LEMMA BandStaffed ==
    ASSUME BandInv, NEW b \in Bands, NEW u \in Members,
           B!StaffGivesBand(b, u) \/ \E r \in B!Roles : B!StaffChanges(b, u, r)
    PROVE  BandInv'
<1>0. /\ p3[b][u] \in 0 .. 3 /\ p6 \in [Bands -> Nat] /\ p7 \in Nat
      /\ \A d \in Bands : p6[d] \in Nat
  BY BandTyped
<1>1. CASE B!StaffGivesBand(b, u)
  <2>1. /\ B!Writes(b, u, 3) /\ UNCHANGED <<p1, p2, p4, p5, p6>> /\ p7' = p7 + 1
        /\ p3[b][u] # 0 /\ B!OwnersOf(b) = {}
    BY <1>1, BandCounts DEF B!StaffGivesBand
  <2>2. \A v \in Members : p3[b][v] # 3
    BY <2>1, BandCounts DEF B!OwnersOf
  <2>3. p4' = p4 /\ p3[b][u] <= 3 /\ p7' \in Nat /\ 3 \in 0 .. 3 /\ p3[b][u] # 3
    BY <1>0, <2>1, <2>2
  <2>4. \A d \in Bands : p6[d] <= p6'[d]
    BY <1>0, <2>1
  <2>. QED  BY <1>0, <2>1, <2>2, <2>3, <2>4, RowWritten
<1>2. ASSUME NEW r \in B!Roles, B!StaffChanges(b, u, r)
      PROVE  BandInv'
  <2>1. /\ B!Writes(b, u, r) /\ B!Demotes(b, u, r) /\ UNCHANGED <<p1, p2, p5>>
        /\ p3[b][u] # 3 /\ r \in 0 .. 2 /\ p7' = p7 + 1
        /\ p6' = IF p3[b][u] = 0 THEN [p6 EXCEPT ![b] = @ + 1] ELSE p6
    BY <1>2, BandCounts DEF B!StaffChanges
  <2>2. p4' = B!RevokedOf(b, u) \/ (p4' = p4 /\ p3[b][u] <= r)
    BY <1>0, <2>1 DEF B!Demotes
  <2>3. /\ p6' \in [Bands -> Nat] /\ \A d \in Bands : p6[d] <= p6'[d]
        /\ p3[b][u] = 0 /\ r # 0 => p6[b] + 1 <= p6'[b]
    BY <1>0, <2>1
  <2>4. r \in 0 .. 3 /\ r # 3 /\ p7' \in Nat
    BY <1>0, <2>1
  <2>. QED  BY <1>0, <2>1, <2>2, <2>3, <2>4, RowWritten
<1>. QED  BY <1>1, <1>2

\* A band is created, with its owner.
LEMMA BandFounded ==
    ASSUME BandInv, NEW x \in Requests, B!InsertBand(x)
    PROVE  BandInv'
<1>. DEFINE u == p5[x].who
            b == p5[x].band
<1>1. /\ p5[x].pc = "create" /\ B!EndTx(x) /\ UNCHANGED <<p1, p4, p6, p7>>
      /\ u \in Members /\ b \in Bands /\ b \notin p2 /\ TxFits(x)
  BY DEF B!InsertBand, BandInv, TxFits
<1>2. CASE u \notin p1
  BY <1>1, <1>2, TxEnds DEF B!InsertBand
<1>3. CASE u \in p1
  <2>1. p2' = p2 \cup {b} /\ p3' = [p3 EXCEPT ![b][u] = 3]
    BY <1>3, BandCounts DEF B!InsertBand
  <2>2. /\ p3' \in [Bands -> [Members -> 0 .. 3]] /\ p3'[b][u] = 3
        /\ \A v \in Members : v # u => p3'[b][v] = p3[b][v]
        /\ \A d \in Bands \ {b} : p3'[d] = p3[d]
    BY <1>1, <2>1, BandTyped
  <2>3. \A v \in Members : p3[b][v] = 0
    BY <1>1 DEF BandInv, BandFits
  <2>4. /\ \A y \in Requests \ {x} : p5'[y] = p5[y]
        /\ p5'[x] = B!NoTx /\ p5' = [p5 EXCEPT ![x] = B!NoTx]
    BY <1>1, BandTyped DEF B!EndTx
  <2>5. ASSUME NEW y \in Requests, p5'[y] = p5[y]
        PROVE  /\ p5[y].pc = "create" => p5[y].band \notin p2'
               /\ p5[y].pc = "redeem" =>
                    /\ p4'[p5[y].invite] = p4[p5[y].invite] /\ p5[y].band \in p2'
                    /\ \A d \in Bands : p5[y].band = d => Joined(d)' \subseteq Joined(d)
               /\ \A h \in p5[y].heirs : p3'[h[1]][h[2]] # 0
    <3>1. y # x /\ TxFits(y)
      BY <1>1, <2>4, <2>5, NoTxYet DEF BandInv
    <3>2. p5[y].pc = "create" => p5[y].band \notin p2'
      BY <1>1, <2>1, <3>1 DEF BandInv, TxFits
    <3>3. p5[y].pc = "redeem" =>
            /\ p4'[p5[y].invite] = p4[p5[y].invite] /\ p5[y].band \in p2' /\ p5[y].band # b
      BY <1>1, <2>1, <3>1 DEF TxFits
    <3>4. \A d \in Bands : d # b => Joined(d)' = Joined(d)
      BY <2>2 DEF Joined, B!MembersOf
    <3>5. ASSUME NEW h \in p5[y].heirs
          PROVE  p3'[h[1]][h[2]] # 0
      <4>1. h \in Bands \X Members /\ p3[h[1]][h[2]] # 0
        BY <3>1, BandTyped DEF TxFits, B!BandTxRecords
      <4>. QED  BY <2>2, <4>1
    <3>. QED  BY <3>2, <3>3, <3>4, <3>5
  <2>6. /\ p5' \in [Requests -> B!BandTxRecords] /\ \A y \in Requests : TxFits(y)'
        /\ \A y, z \in Requests :
              p5'[y].pc = p5'[z].pc /\ p5'[y].pc \in {"create", "redeem"}
                 /\ p5'[y].band = p5'[z].band => y = z
    BY <2>4, <2>5, TxsStay
  <2>7. BandTypes'
    BY <1>1, <2>1, <2>2, <2>6 DEF BandInv, BandTypes
  <2>8. ASSUME NEW d \in Bands
        PROVE  BandFits(d)'
    <3>1. BandFits(d)
      BY DEF BandInv
    <3>2. CASE d # b
      BY <1>1, <2>1, <2>2, <3>1, <3>2 DEF BandFits, Joined, B!MembersOf
    <3>3. CASE d = b
      <4>0. \A v \in Members : p3'[b][v] = IF v = u THEN 3 ELSE 0
        BY <2>2, <2>3
      <4>1. Joined(d)' = {u}
        <5>1. Joined(d)' = {v \in Members : p3'[d][v] # 0}
          BY BandCounts DEF Joined, B!MembersOf
        <5>. QED  BY <1>1, <3>3, <4>0, <5>1
      <4>2. Cardinality(Joined(d)') = 1
        BY <4>1, FS_Singleton
      <4>3. B!Seats \in Nat \ {0} /\ p6'[b] \in Nat
        BY <1>1, BandSeats, BandTyped
      <4>4. Cardinality(Joined(d)') <= B!Seats + p6'[d]
        BY <3>3, <4>2, <4>3
      <4>5. b \in p2'
        BY <2>1
      <4>. QED  BY <1>1, <3>3, <4>0, <4>4, <4>5 DEF BandFits
    <3>. QED  BY <3>2, <3>3
  <2>9. ASSUME NEW j \in Invites
        PROVE  InviteFits(j)'
    <3>1. InviteFits(j)
      BY DEF BandInv
    <3>2. p4[j].is = "usable" => p4[j].band # b /\ p4[j].band \in Bands
      BY <1>1, <3>1, BandTyped DEF InviteFits
    <3>. QED  BY <1>1, <2>1, <2>2, <3>1, <3>2 DEF InviteFits, B!Usable
  <2>. QED  BY <2>6, <2>7, <2>8, <2>9 DEF BandInv
<1>. QED  BY <1>2, <1>3

\* Who redeems an invite joins; the band had room for one.
LEMMA BandJoined ==
    ASSUME BandInv, NEW x \in Requests, B!Redeem(x)
    PROVE  BandInv'
<1>. DEFINE u == p5[x].who
            b == p5[x].band
            i == p5[x].invite
            r == p4[i].role
            n == [p4[i] EXCEPT !.uses = @ + 1]
<1>1. /\ p5[x].pc = "redeem" /\ B!EndTx(x) /\ UNCHANGED <<p1, p2, p6, p7>>
      /\ u \in Members /\ b \in Bands /\ b \in p2 /\ TxFits(x) /\ i \in Invites
      /\ p4[i].is = "usable" /\ p4[i].band = b /\ p4[i].uses < InviteUses
      /\ Cardinality(Joined(b)) < MemberLimit
  BY DEF B!Redeem, BandInv, TxFits
<1>2. CASE ~(u \in p1 /\ p3[b][u] = 0)
  BY <1>1, <1>2, TxEnds, BandCounts DEF B!Redeem
<1>3. CASE u \in p1 /\ p3[b][u] = 0
  <2>1. p3' = [p3 EXCEPT ![b][u] = r] /\ p4' = [p4 EXCEPT ![i] = n]
    BY <1>3, BandCounts, BandTyped DEF B!Redeem
  <2>2. p4[i] \in B!InviteRecords /\ r \in 0 .. 3 /\ r < 3 /\ InviteUses \in Nat
    BY <1>1, BandTyped, BandCounts, WorkspaceBounds DEF B!InviteRecords, BandInv, InviteFits
  <2>3. n \in B!InviteRecords /\ n.is = "usable" /\ n.band = b /\ n.by = p4[i].by
        /\ n.role = r /\ n.uses = p4[i].uses + 1
    BY <1>1, <2>2 DEF B!InviteRecords
  <2>. HIDE DEF n, r
  <2>4. /\ p3' \in [Bands -> [Members -> 0 .. 3]] /\ p3'[b][u] = r
        /\ \A v \in Members : v # u => p3'[b][v] = p3[b][v]
        /\ \A d \in Bands \ {b} : p3'[d] = p3[d]
    BY <1>1, <2>1, <2>2, BandTyped
  <2>5. /\ p4' \in [Invites -> B!InviteRecords] /\ p4'[i] = n
        /\ \A j \in Invites \ {i} : p4'[j] = p4[j]
    BY <1>1, <2>1, <2>3, BandTyped
  <2>6. /\ \A y \in Requests \ {x} : p5'[y] = p5[y]
        /\ p5'[x] = B!NoTx /\ p5' = [p5 EXCEPT ![x] = B!NoTx]
    BY <1>1, BandTyped DEF B!EndTx
  <2>7. \A d \in Bands : d # b => Joined(d)' = Joined(d)
    BY <2>4 DEF Joined, B!MembersOf
  <2>8. ASSUME NEW y \in Requests, p5'[y] = p5[y]
        PROVE  /\ p5[y].pc = "create" => p5[y].band \notin p2'
               /\ p5[y].pc = "redeem" =>
                    /\ p4'[p5[y].invite] = p4[p5[y].invite] /\ p5[y].band \in p2'
                    /\ \A d \in Bands : p5[y].band = d => Joined(d)' \subseteq Joined(d)
               /\ \A h \in p5[y].heirs : p3'[h[1]][h[2]] # 0
    <3>1. y # x /\ TxFits(y)
      BY <1>1, <2>6, <2>8, NoTxYet DEF BandInv
    <3>2. p5[y].pc = "create" => p5[y].band \notin p2'
      BY <1>1, <3>1 DEF TxFits
    <3>3. p5[y].pc = "redeem" => p5[y].band # b
      BY <1>1, <3>1 DEF BandInv
    <3>4. p5[y].pc = "redeem" =>
            p4'[p5[y].invite] = p4[p5[y].invite] /\ p5[y].band \in p2'
      BY <1>1, <2>5, <3>1, <3>3 DEF TxFits
    <3>5. ASSUME NEW h \in p5[y].heirs
          PROVE  p3'[h[1]][h[2]] # 0
      <4>1. h \in Bands \X Members /\ p3[h[1]][h[2]] # 0
        BY <3>1, BandTyped DEF TxFits, B!BandTxRecords
      <4>2. h[1] # b \/ h[2] # u
        BY <1>3, <4>1
      <4>. QED  BY <2>4, <4>1, <4>2
    <3>. QED  BY <2>7, <3>2, <3>3, <3>4, <3>5
  <2>9. /\ p5' \in [Requests -> B!BandTxRecords] /\ \A y \in Requests : TxFits(y)'
        /\ \A y, z \in Requests :
              p5'[y].pc = p5'[z].pc /\ p5'[y].pc \in {"create", "redeem"}
                 /\ p5'[y].band = p5'[z].band => y = z
    BY <2>6, <2>8, TxsStay
  <2>10. BandTypes'
    BY <1>1, <2>4, <2>5, <2>9 DEF BandInv, BandTypes
  <2>11. ASSUME NEW d \in Bands
         PROVE  BandFits(d)'
    <3>1. BandFits(d)
      BY DEF BandInv
    <3>2. CASE d # b
      <4>1. p3'[d] = p3[d] /\ Joined(d)' = Joined(d)
        BY <2>4, <2>7, <3>2
      <4>. QED  BY <1>1, <3>1, <4>1 DEF BandFits
    <3>3. CASE d = b
      <4>1. Joined(d)' \subseteq Joined(d) \cup {u}
        BY <1>1, <2>4, <3>3 DEF Joined, B!MembersOf
      <4>2. /\ Joined(d) \in SUBSET Members /\ IsFiniteSet(Joined(d))
            /\ Cardinality(Joined(d)) \in Nat /\ u \notin Joined(d)
        BY <1>3, <3>3, JoinedFinite, BandCounts DEF Joined, B!MembersOf
      <4>3. Cardinality(Joined(d) \cup {u}) = Cardinality(Joined(d)) + 1
        BY <4>2, FS_AddElement
      <4>4. /\ Cardinality(Joined(d)') \in Nat
            /\ Cardinality(Joined(d)') <= Cardinality(Joined(d) \cup {u})
        <5>1. Joined(d) \cup {u} \in SUBSET Members
          BY <1>1, <4>2
        <5>. QED  BY <4>1, <5>1, JoinedFinite
      <4>5. /\ B!Seats \in Nat /\ MemberLimit \in Nat /\ MemberLimit <= B!Seats
            /\ p6'[d] \in Nat
        BY <1>1, BandSeats, BandTyped
      <4>6. Cardinality(Joined(d)') <= B!Seats + p6'[d]
        BY <1>1, <3>3, <4>2, <4>3, <4>4, <4>5
      <4>7. \A v \in Members : p3'[d][v] = 3 <=> p3[d][v] = 3
        BY <1>3, <2>2, <2>4, <3>3
      <4>8. d \in p2' /\ p1' = p1 /\ p2' = p2
        BY <1>1, <3>3
      <4>. QED  BY <3>1, <4>6, <4>7, <4>8 DEF BandFits
    <3>. QED  BY <3>2, <3>3
  <2>12. ASSUME NEW j \in Invites
         PROVE  InviteFits(j)'
    <3>1. InviteFits(j)
      BY DEF BandInv
    <3>2. /\ p4'[j].is = p4[j].is /\ p4'[j].band = p4[j].band /\ p4'[j].by = p4[j].by
          /\ p4'[j].role = p4[j].role
      BY <1>1, <2>3, <2>5 DEF r
    <3>3. B!Usable(j)' => B!Usable(j)
      <4>1. CASE j = i
        BY <1>1, <4>1 DEF B!Usable
      <4>2. CASE j # i
        BY <2>5, <4>2 DEF B!Usable
      <4>. QED  BY <4>1, <4>2
    <3>4. ASSUME B!Usable(j)
          PROVE  p3'[p4[j].band][p4[j].by] = p3[p4[j].band][p4[j].by]
      <4>1. /\ p4[j].band \in Bands /\ p4[j].by \in Members
            /\ p3[p4[j].band][p4[j].by] >= 2
        BY <3>1, <3>4, BandTyped DEF InviteFits, B!Usable
      <4>2. p4[j].band # b \/ p4[j].by # u
        BY <1>3, <4>1
      <4>. QED  BY <2>4, <4>1, <4>2
    <3>5. B!Usable(j)' => /\ p3'[p4'[j].band][p4'[j].by] >= 2
                          /\ p4'[j].role < p3'[p4'[j].band][p4'[j].by]
      BY <3>1, <3>2, <3>3, <3>4 DEF InviteFits
    <3>6. p4'[j].is = "usable" => /\ p4'[j].band \in p2' /\ p4'[j].by \in Members
                                  /\ p4'[j].role < 3
      BY <1>1, <3>1, <3>2 DEF InviteFits
    <3>. QED  BY <3>5, <3>6 DEF InviteFits
  <2>. QED  BY <2>9, <2>10, <2>11, <2>12 DEF BandInv
<1>. QED  BY <1>2, <1>3

\* A band is handed over: it has one owner after as before, and the invites
\* of the one who was are revoked.
LEMMA BandHanded ==
    ASSUME BandInv, NEW x \in Requests, B!Transfer(x)
    PROVE  BandInv'
<1>. DEFINE u == p5[x].who
            b == p5[x].band
            v == p5[x].other
<1>1. /\ p5[x].pc = "transfer" /\ B!EndTx(x) /\ UNCHANGED <<p1, p2, p6, p7>>
      /\ ~B!BandLocked(b) /\ u \in Members /\ v \in Members /\ u # v /\ b \in Bands
  BY DEF B!Transfer, BandInv, TxFits
<1>2. CASE ~(p3[b][v] \in {1, 2} /\ p3[b][u] = 3)
  BY <1>1, <1>2, TxEnds, BandCounts DEF B!Transfer
<1>3. CASE p3[b][v] \in {1, 2} /\ p3[b][u] = 3
  <2>1. p3' = [p3 EXCEPT ![b][u] = 2, ![b][v] = 3] /\ p4' = B!RevokedOf(b, u)
    BY <1>3, BandCounts DEF B!Transfer
  <2>2. /\ p3' \in [Bands -> [Members -> 0 .. 3]] /\ p3'[b][u] = 2 /\ p3'[b][v] = 3
        /\ \A w \in Members : w # u /\ w # v => p3'[b][w] = p3[b][w]
        /\ \A d \in Bands \ {b} : p3'[d] = p3[d]
    <3>. DEFINE q == [p3 EXCEPT ![b][u] = 2]
    <3>1. /\ q \in [Bands -> [Members -> 0 .. 3]] /\ q[b][u] = 2
          /\ \A w \in Members : w # u => q[b][w] = p3[b][w]
          /\ \A d \in Bands \ {b} : q[d] = p3[d]
      BY <1>1, BandTyped
    <3>2. p3' = [q EXCEPT ![b][v] = 3]
      BY <2>1
    <3>. HIDE DEF q
    <3>3. /\ p3' \in [Bands -> [Members -> 0 .. 3]] /\ p3'[b][v] = 3
          /\ \A w \in Members : w # v => p3'[b][w] = q[b][w]
          /\ \A d \in Bands \ {b} : p3'[d] = q[d]
      BY <1>1, <3>1, <3>2
    <3>. QED  BY <1>1, <3>1, <3>3
  <2>3. /\ p4' \in [Invites -> B!InviteRecords]
        /\ \A j \in Invites :
              /\ p4[j].band # b => p4'[j] = p4[j]
              /\ p4'[j].is = "usable" => /\ p4'[j] = p4[j]
                                         /\ ~(p4[j].band = b /\ p4[j].by = u)
    BY <1>1, <2>1, RevokedAre
  <2>4. b \in p2
    BY <1>1, <1>3 DEF BandInv, BandFits
  <2>5. p5' = [p5 EXCEPT ![x] = B!NoTx]
    BY <1>1 DEF B!EndTx
  <2>6. ASSUME NEW y \in Requests, NEW h \in p5[y].heirs
        PROVE  p3'[h[1]][h[2]] # 0
    <3>1. h \in Bands \X Members /\ p3[h[1]][h[2]] # 0
      BY BandTyped DEF BandInv, TxFits, B!BandTxRecords
    <3>. QED  BY <2>2, <3>1
  <2>7. /\ p5' \in [Requests -> B!BandTxRecords] /\ \A y \in Requests : TxFits(y)'
        /\ \A y, z \in Requests :
              p5'[y].pc = p5'[z].pc /\ p5'[y].pc \in {"create", "redeem"}
                 /\ p5'[y].band = p5'[z].band => y = z
    BY <1>1, <2>2, <2>3, <2>4, <2>5, <2>6, NobodyJoins, TxsStay
  <2>8. BandTypes'
    BY <1>1, <2>2, <2>3, <2>7 DEF BandInv, BandTypes
  <2>9. ASSUME NEW d \in Bands
        PROVE  BandFits(d)'
    <3>1. BandFits(d)
      BY DEF BandInv
    <3>2. CASE d # b
      <4>1. p3'[d] = p3[d] /\ p1' = p1 /\ p2' = p2 /\ p6' = p6
        BY <1>1, <2>2, <3>2
      <4>. QED  BY <3>1, <4>1 DEF BandFits, Joined, B!MembersOf
    <3>3. CASE d = b
      <4>1. \A w \in Members : p3'[d][w] # 0 <=> p3[d][w] # 0
        BY <1>3, <2>2, <3>3
      <4>2. Joined(d)' = Joined(d)
        BY <4>1, BandCounts DEF Joined, B!MembersOf
      <4>3. Cardinality(Joined(d)') <= B!Seats + p6'[d]
        BY <1>1, <3>1, <4>2 DEF BandFits
      <4>4. \A w \in Members : p3[d][w] = 3 => w = u
        BY <1>1, <1>3, <3>1, <3>3 DEF BandFits
      <4>5. \A w \in Members : p3'[d][w] = 3 <=> w = v
        BY <1>1, <2>2, <3>3, <4>4
      <4>6. d \in p2'
        BY <1>1, <2>4, <3>3
      <4>. QED  BY <1>1, <4>3, <4>5, <4>6 DEF BandFits
    <3>. QED  BY <3>2, <3>3
  <2>10. ASSUME NEW j \in Invites
         PROVE  InviteFits(j)'
    <3>1. InviteFits(j)
      BY DEF BandInv
    <3>2. CASE p4'[j].is # "usable"
      BY <3>2 DEF InviteFits, B!Usable
    <3>3. CASE p4'[j].is = "usable"
      <4>1. /\ p4'[j] = p4[j] /\ p4[j].is = "usable" /\ ~(p4[j].band = b /\ p4[j].by = u)
            /\ p4[j].band \in Bands /\ p4[j].by \in Members /\ p4[j].role < 3
            /\ p4[j].band \in p2
        BY <2>3, <3>1, <3>3, BandTyped DEF InviteFits
      <4>2. p3'[p4[j].band][p4[j].by] = p3[p4[j].band][p4[j].by]
            \/ p3'[p4[j].band][p4[j].by] = 3
        BY <2>2, <4>1
      <4>3. B!Usable(j)' => B!Usable(j)
        BY <4>1 DEF B!Usable
      <4>4. B!Usable(j)' => /\ p3'[p4[j].band][p4[j].by] >= 2
                            /\ p4[j].role < p3'[p4[j].band][p4[j].by]
        BY <3>1, <4>1, <4>2, <4>3 DEF InviteFits
      <4>. QED  BY <1>1, <4>1, <4>4 DEF InviteFits
    <3>. QED  BY <3>2, <3>3
  <2>. QED  BY <2>7, <2>8, <2>9, <2>10 DEF BandInv
<1>. QED  BY <1>2, <1>3

\* A band is deleted, with its members and invites.
LEMMA BandDeleted ==
    ASSUME BandInv, NEW x \in Requests, B!DeleteBand(x)
    PROVE  BandInv'
<1>. DEFINE b == p5[x].band
<1>1. /\ p5[x].pc = "deleteBand" /\ B!EndTx(x) /\ UNCHANGED <<p1, p6, p7>>
      /\ ~B!BandLocked(b) /\ b \in Bands /\ \A u \in Members : B!RowFree(b, u)
      /\ p2' = p2 \ {b}
      /\ p4' = [i \in Invites |-> IF p4[i].band \in {b} THEN B!NoInvite ELSE p4[i]]
      /\ p3' = [p3 EXCEPT ![b] = [u \in Members |-> 0]]
  BY BandCounts DEF B!DeleteBand, B!Gone, BandInv, TxFits
<1>2. /\ p3' \in [Bands -> [Members -> 0 .. 3]] /\ \A u \in Members : p3'[b][u] = 0
      /\ \A d \in Bands \ {b} : p3'[d] = p3[d]
  BY <1>1, BandTyped
<1>3. /\ p4' \in [Invites -> B!InviteRecords]
      /\ \A j \in Invites : /\ p4[j].band # b => p4'[j] = p4[j]
                            /\ p4[j].band = b => p4'[j] = B!NoInvite
  BY <1>1, BandTyped, NoTxYet
<1>4. p5' = [p5 EXCEPT ![x] = B!NoTx]
  BY <1>1 DEF B!EndTx
<1>5. ASSUME NEW y \in Requests, NEW h \in p5[y].heirs
      PROVE  p3'[h[1]][h[2]] # 0
  <2>1. h \in Bands \X Members /\ p3[h[1]][h[2]] # 0
    BY BandTyped DEF BandInv, TxFits, B!BandTxRecords
  <2>2. h[1] # b
    BY <1>1, <2>1 DEF B!RowFree
  <2>. QED  BY <1>2, <2>1, <2>2
<1>6. ASSUME NEW y \in Requests
      PROVE  /\ p5[y].pc = "create" => p5[y].band \notin p2'
             /\ p5[y].pc = "redeem" =>
                  /\ p4'[p5[y].invite] = p4[p5[y].invite] /\ p5[y].band \in p2'
                  /\ \A d \in Bands : p5[y].band = d => Joined(d)' \subseteq Joined(d)
  <2>1. TxFits(y)
    BY DEF BandInv
  <2>2. p5[y].pc = "redeem" => p5[y].band # b
    BY <1>1 DEF B!BandLocked
  <2>3. \A d \in Bands : d # b => Joined(d)' = Joined(d)
    BY <1>2 DEF Joined, B!MembersOf
  <2>. QED  BY <1>1, <1>3, <2>1, <2>2, <2>3 DEF TxFits
<1>7. /\ p5' \in [Requests -> B!BandTxRecords] /\ \A y \in Requests : TxFits(y)'
      /\ \A y, z \in Requests :
            p5'[y].pc = p5'[z].pc /\ p5'[y].pc \in {"create", "redeem"}
               /\ p5'[y].band = p5'[z].band => y = z
  BY <1>4, <1>5, <1>6, TxsStay
<1>8. BandTypes'
  BY <1>1, <1>2, <1>3, <1>7 DEF BandInv, BandTypes
<1>9. ASSUME NEW d \in Bands
      PROVE  BandFits(d)'
  <2>1. BandFits(d)
    BY DEF BandInv
  <2>2. CASE d # b
    BY <1>1, <1>2, <2>1, <2>2 DEF BandFits, Joined, B!MembersOf
  <2>3. CASE d = b
    <3>1. Joined(d)' = {}
      BY <1>2, <2>3, BandCounts DEF Joined, B!MembersOf
    <3>2. Cardinality(Joined(d)') = 0
      BY <3>1, FS_EmptySet
    <3>3. B!Seats \in Nat /\ p6'[d] \in Nat
      BY <1>1, BandSeats, BandTyped
    <3>4. Cardinality(Joined(d)') <= B!Seats + p6'[d]
      BY <3>2, <3>3
    <3>. QED  BY <1>1, <1>2, <2>3, <3>4 DEF BandFits
  <2>. QED  BY <2>2, <2>3
<1>10. ASSUME NEW j \in Invites
       PROVE  InviteFits(j)'
  <2>1. InviteFits(j)
    BY DEF BandInv
  <2>2. CASE p4[j].band = b
    BY <1>3, <2>2, NoTxYet DEF InviteFits, B!Usable
  <2>3. CASE p4[j].band # b
    <3>1. p4'[j] = p4[j] /\ (p4[j].is = "usable" => p4[j].band \in Bands \ {b})
      BY <1>3, <2>1, <2>3, BandTyped DEF InviteFits
    <3>. QED  BY <1>1, <1>2, <2>1, <2>3, <3>1 DEF InviteFits, B!Usable
  <2>. QED  BY <2>2, <2>3
<1>. QED  BY <1>7, <1>8, <1>9, <1>10 DEF BandInv

\* At most one of a few is one.
LEMMA AtMostOne ==
    ASSUME NEW X \in SUBSET Members, ~(B!Cardinality(X) > 1), NEW u \in X, NEW v \in X
    PROVE  u = v
<1>1. IsFiniteSet(X) /\ Cardinality(X) \in Nat /\ Cardinality(X) <= 1
  BY JoinedFinite, BandCounts
<1>2. ASSUME u # v
      PROVE  FALSE
  <2>1. {u, v} \in SUBSET X
    OBVIOUS
  <2>2. IsFiniteSet({u}) /\ Cardinality({u}) = 1
    BY FS_Singleton
  <2>3. {u} \cup {v} = {u, v} /\ v \notin {u}
    BY <1>2
  <2>4. Cardinality({u} \cup {v}) = Cardinality({u}) + 1
    BY <2>2, <2>3, FS_AddElement
  <2>5. Cardinality({u, v}) = 2
    BY <2>2, <2>3, <2>4
  <2>6. Cardinality({u, v}) <= Cardinality(X)
    BY <2>1, JoinedFinite
  <2>. QED  BY <1>1, <2>5, <2>6
<1>. QED  BY <1>2

\* An account goes, with its memberships and invites; the bands it owned have
\* an heir, or end; and unless all is undone, no band has two owners.
LEMMA BandOrphaned ==
    ASSUME BandInv, NEW x \in Requests, B!DeleteAccount(x)
    PROVE  BandInv'
<1>. DEFINE u == p5[x].who
            ending == p5[x].ending
            heirs == p5[x].heirs
            after == [b \in Bands |-> [v \in Members |->
                        IF v = u \/ b \in ending THEN B!None
                        ELSE IF <<b, v>> \in heirs THEN B!Owner ELSE p3[b][v]]]
<1>1. /\ p5[x].pc = "pick" /\ B!EndTx(x) /\ UNCHANGED <<p6, p7>>
      /\ u \in Members /\ ending \subseteq Bands /\ TxFits(x)
      /\ \A b \in B!BandsOf(u) : B!RowFree(b, u)
      /\ \A b \in ending : ~B!BandLocked(b) /\ \A v \in Members : B!RowFree(b, v)
      /\ \A i \in Invites : p4[i].by = u => B!InviteFree(i)
  BY BandTyped DEF B!DeleteAccount, BandInv, TxFits, B!BandTxRecords
<1>2. CASE \E b \in p2 : B!Cardinality({v \in Members : after[b][v] = B!Owner}) > 1
  BY <1>1, <1>2, TxEnds DEF B!DeleteAccount
<1>3. CASE ~ \E b \in p2 : B!Cardinality({v \in Members : after[b][v] = B!Owner}) > 1
  <2>1. /\ p1' = p1 \ {u} /\ p3' = after /\ p2' = p2 \ ending
        /\ p4' = [i \in Invites |-> IF p4[i].by = u \/ p4[i].band \in ending
                                    THEN B!NoInvite ELSE p4[i]]
    BY <1>3 DEF B!DeleteAccount
  <2>2. ASSUME NEW b \in Bands, NEW v \in Members
        PROVE  /\ v = u \/ b \in ending => after[b][v] = 0
               /\ ~(v = u \/ b \in ending) /\ <<b, v>> \in heirs => after[b][v] = 3
               /\ ~(v = u \/ b \in ending) /\ <<b, v>> \notin heirs => after[b][v] = p3[b][v]
               /\ after[b][v] \in 0 .. 3
    BY BandTyped, BandCounts
  <2>3. after \in [Bands -> [Members -> 0 .. 3]]
    BY <2>2
  <2>. HIDE DEF after
  <2>4. ASSUME NEW b \in Bands, NEW v \in Members, p3[b][v] = 0
        PROVE  after[b][v] = 0
    <3>1. <<b, v>> \notin heirs
      BY <1>1, <2>4 DEF TxFits
    <3>. QED  BY <2>2, <2>4, <3>1
  <2>5. /\ p4' \in [Invites -> B!InviteRecords]
        /\ \A j \in Invites :
              /\ p4[j].by = u \/ p4[j].band \in ending => p4'[j] = B!NoInvite
              /\ ~(p4[j].by = u \/ p4[j].band \in ending) => p4'[j] = p4[j]
    BY <2>1, BandTyped, NoTxYet
  <2>6. p5' = [p5 EXCEPT ![x] = B!NoTx]
    BY <1>1 DEF B!EndTx
  <2>7. \A b \in Bands : Joined(b)' \subseteq Joined(b)
    BY <2>1, <2>4, BandCounts DEF Joined, B!MembersOf
  <2>8. ASSUME NEW y \in Requests, NEW h \in p5[y].heirs
        PROVE  p3'[h[1]][h[2]] # 0
    <3>1. h \in Bands \X Members /\ p3[h[1]][h[2]] # 0 /\ h = <<h[1], h[2]>>
      BY BandTyped DEF BandInv, TxFits, B!BandTxRecords
    <3>2. h[1] \notin ending
      BY <1>1, <3>1 DEF B!RowFree
    <3>3. h[2] # u
      BY <1>1, <3>1, BandCounts DEF B!RowFree, B!BandsOf
    <3>. QED  BY <2>1, <2>2, <3>1, <3>2, <3>3
  <2>9. ASSUME NEW y \in Requests
        PROVE  /\ p5[y].pc = "create" => p5[y].band \notin p2'
               /\ p5[y].pc = "redeem" =>
                    p4'[p5[y].invite] = p4[p5[y].invite] /\ p5[y].band \in p2'
    <3>1. TxFits(y)
      BY DEF BandInv
    <3>2. p5[y].pc = "redeem" => p5[y].band \notin ending
      BY <1>1 DEF B!BandLocked
    <3>3. p5[y].pc = "redeem" => p4[p5[y].invite].by # u
      BY <1>1, <3>1 DEF B!InviteFree, TxFits
    <3>. QED  BY <2>1, <2>5, <3>1, <3>2, <3>3 DEF TxFits
  <2>10. /\ p5' \in [Requests -> B!BandTxRecords] /\ \A y \in Requests : TxFits(y)'
         /\ \A y, z \in Requests :
               p5'[y].pc = p5'[z].pc /\ p5'[y].pc \in {"create", "redeem"}
                  /\ p5'[y].band = p5'[z].band => y = z
    BY <2>6, <2>7, <2>8, <2>9, TxsStay
  <2>11. BandTypes'
    BY <1>1, <2>1, <2>3, <2>5, <2>10 DEF BandInv, BandTypes
  <2>12. ASSUME NEW d \in Bands
         PROVE  BandFits(d)'
    <3>1. BandFits(d)
      BY DEF BandInv
    <3>2. Cardinality(Joined(d)') <= B!Seats + p6'[d]
      <4>1. /\ Cardinality(Joined(d)') \in Nat /\ Cardinality(Joined(d)) \in Nat
            /\ Cardinality(Joined(d)') <= Cardinality(Joined(d))
        BY <2>7, JoinedFinite DEF Joined, B!MembersOf
      <4>2. B!Seats \in Nat /\ p6[d] \in Nat /\ p6' = p6
        BY <1>1, BandSeats, BandTyped
      <4>. QED  BY <3>1, <4>1, <4>2 DEF BandFits
    <3>3. \A v, w \in Members : p3'[d][v] = 3 /\ p3'[d][w] = 3 => v = w
      <4>. SUFFICES ASSUME NEW v \in Members, NEW w \in Members,
                           after[d][v] = 3, after[d][w] = 3
                    PROVE  v = w
        BY <2>1
      <4>1. p3[d][v] # 0
        BY <2>4
      <4>2. d \in p2
        BY <3>1, <4>1 DEF BandFits
      <4>. DEFINE owners == {z \in Members : after[d][z] = B!Owner}
      <4>3. ~(B!Cardinality(owners) > 1)
        BY <1>3, <4>2
      <4>4. v \in owners /\ w \in owners /\ owners \in SUBSET Members
        BY BandCounts
      <4>. HIDE DEF owners
      <4>. QED  BY <4>3, <4>4, AtMostOne
    <3>4. d \notin p2' => \A v \in Members : p3'[d][v] = 0
      <4>. SUFFICES ASSUME d \notin p2', NEW v \in Members
                    PROVE  after[d][v] = 0
        BY <2>1
      <4>1. CASE d \in ending
        BY <2>2, <4>1
      <4>2. CASE d \notin ending
        BY <2>1, <2>4, <3>1, <4>2 DEF BandFits
      <4>. QED  BY <4>1, <4>2
    <3>5. p1' # Members
      BY <1>1, <2>1
    <3>. QED  BY <3>2, <3>3, <3>4, <3>5 DEF BandFits
  <2>13. ASSUME NEW j \in Invites
         PROVE  InviteFits(j)'
    <3>1. InviteFits(j)
      BY DEF BandInv
    <3>2. CASE p4[j].by = u \/ p4[j].band \in ending
      BY <2>5, <3>2, NoTxYet DEF InviteFits, B!Usable
    <3>3. CASE ~(p4[j].by = u \/ p4[j].band \in ending)
      <4>1. p4'[j] = p4[j]
        BY <2>5, <3>3
      <4>2. ASSUME p4[j].is = "usable"
            PROVE  /\ p4[j].band \in p2' /\ p4[j].by \in Members /\ p4[j].role < 3
                   /\ p4[j].band \in Bands
                   /\ \/ p3'[p4[j].band][p4[j].by] = p3[p4[j].band][p4[j].by]
                      \/ p3'[p4[j].band][p4[j].by] = 3
        <5>1. /\ p4[j].band \in p2 /\ p4[j].by \in Members /\ p4[j].role < 3
              /\ p4[j].band \in Bands
          BY <3>1, <4>2, BandTyped DEF InviteFits
        <5>2. \/ after[p4[j].band][p4[j].by] = p3[p4[j].band][p4[j].by]
              \/ after[p4[j].band][p4[j].by] = 3
          BY <2>2, <3>3, <5>1
        <5>. QED  BY <2>1, <3>3, <5>1, <5>2
      <4>3. B!Usable(j)' => B!Usable(j) /\ p4[j].is = "usable"
        BY <4>1 DEF B!Usable
      <4>4. B!Usable(j)' => /\ p3'[p4[j].band][p4[j].by] >= 2
                            /\ p4[j].role < p3'[p4[j].band][p4[j].by]
        BY <3>1, <4>2, <4>3 DEF InviteFits
      <4>. QED  BY <4>1, <4>2, <4>4 DEF InviteFits
    <3>. QED  BY <3>2, <3>3
  <2>. QED  BY <2>10, <2>11, <2>12, <2>13 DEF BandInv
<1>. QED  BY <1>2, <1>3

\* Whatever happens next, bands stay as they should be.
LEMMA BandMoves == BandInv /\ B!BandNext => BandInv'
<1>. SUFFICES ASSUME BandInv, B!BandNext
              PROVE  BandInv'
  OBVIOUS
<1>1. ASSUME NEW x \in Requests, B!BandTxStep(x)
      PROVE  BandInv'
  <2>1. ASSUME NEW u \in Members, NEW b \in Bands,
               B!BeginCreate(x, u, b) \/ B!AskDeleteBand(x, b, u)
               \/ \E v \in Members : B!AskTransfer(x, b, u, v)
        PROVE  BandInv'
    BY <2>1, BandBegins, BandAsks
  <2>2. CASE B!AbortTx(x)
    BY <2>2, TxEnds DEF B!AbortTx
  <2>. QED  BY <1>1, <2>1, <2>2, BandRedeems, BandLists, BandPicks, BandFounded, BandJoined,
                BandHanded, BandDeleted, BandPromotes, BandOrphaned DEF B!BandTxStep
<1>. QED  BY <1>1, BandInvites, BandRevokes, BandChanges, BandStaffed DEF B!BandNext

\* So types, limits, invites and owners are as promised.
LEMMA BandSafe == BandInv => B!BandTypeOK /\ B!BandSafety
<1>. SUFFICES ASSUME BandInv
              PROVE  B!BandTypeOK /\ B!BandSafety
  OBVIOUS
<1>1. ASSUME NEW b \in Bands
      PROVE  B!Cardinality(B!OwnersOf(b)) <= 1
  <2>. DEFINE X == B!OwnersOf(b)
  <2>1. \A u, v \in X : u = v
    BY BandCounts DEF BandInv, BandFits, B!OwnersOf
  <2>2. X \in SUBSET Members
    BY DEF B!OwnersOf
  <2>. HIDE DEF X
  <2>3. CASE X = {}
    BY <2>3, FS_EmptySet, BandCounts DEF X
  <2>4. CASE X # {}
    <3>1. PICK u \in X : X = {u}
      BY <2>1, <2>4
    <3>2. Cardinality(X) = 1
      BY <3>1, FS_Singleton
    <3>. QED  BY <3>2, BandCounts DEF X
  <2>. QED  BY <2>3, <2>4
<1>2. B!BandTypeOK
  BY <1>1, BandTyped, BandCounts DEF B!BandTypeOK
<1>3. B!InviteAuthority
  <2>1. ASSUME NEW i \in Invites, B!Usable(i)
        PROVE  p3[p4[i].band][p4[i].by] >= 2 /\ p4[i].role < p3[p4[i].band][p4[i].by]
    BY <2>1 DEF BandInv, InviteFits
  <2>. QED  BY <2>1, BandCounts DEF B!InviteAuthority
<1>4. B!MembersWithinLimit
  BY BandCounts DEF BandInv, BandFits, B!MembersWithinLimit, Joined
<1>5. B!BandHasOwner
  <2>1. ASSUME p1 = Members, NEW b \in p2
        PROVE  B!OwnersOf(b) # {}
    BY <2>1, BandTyped, BandCounts DEF BandInv, BandFits, B!OwnersOf
  <2>. QED  BY <2>1 DEF B!BandHasOwner
<1>. QED  BY <1>2, <1>3, <1>4, <1>5 DEF B!BandSafety

\* And when nothing happens.
LEMMA BandIdles ==
    ASSUME BandInv, UNCHANGED <<p1, p2, p3, p4, p5, p6, p7>>
    PROVE  BandInv'
<1>1. BandTypes'
  BY DEF BandInv, BandTypes
<1>2. ASSUME NEW b \in Bands
      PROVE  BandFits(b)'
  BY DEF BandInv, BandFits, Joined, B!MembersOf
<1>3. ASSUME NEW i \in Invites
      PROVE  InviteFits(i)'
  BY DEF BandInv, InviteFits, B!Usable
<1>4. ASSUME NEW x \in Requests
      PROVE  TxFits(x)'
  <2>1. TxFits(x)
    BY DEF BandInv
  <2>. QED  BY <2>1 DEF TxFits, Joined, B!MembersOf
<1>5. \A x, y \in Requests :
         p5'[x].pc = p5'[y].pc /\ p5'[x].pc \in {"create", "redeem"} /\ p5'[x].band = p5'[y].band
            => x = y
  BY DEF BandInv
<1>. QED  BY <1>1, <1>2, <1>3, <1>4, <1>5 DEF BandInv

-----------------------------------------------------------------------------
(* Rights: p1 are the rows, p2 roles in bands, p3 what plain members may do, *)
(* p4 who accepted an invitation, p5 the roles given, p6 by whom, p7 the     *)
(* songs of each setlist.                                                    *)

\* The kinds and homes of what requests are about.
LEMMA GoodsAre ==
    /\ Players \cap Bands = {}
    /\ \A i \in Goods : /\ KindOfGood[i] \in {"song", "setlist"}
                        /\ HomeOfGood[i] \in Players \/ HomeOfGood[i] \in Bands
                        /\ ~(HomeOfGood[i] \in Players /\ HomeOfGood[i] \in Bands)
    /\ \A i \in Repertoires : i \in Q!SetlistRows /\ HomeOfGood[i] \in Bands
    /\ Joining \subseteq Players
    /\ Q!SetlistRows \subseteq Goods /\ Q!SongRows \subseteq Goods
    /\ Q!SetlistRows \cap Q!SongRows = {}
BY WorkspaceBounds DEF Q!SetlistRows, Q!SongRows, Q!OfKind

\* A song in a setlist is of its home, or of a collaborator's, and live.
InScope(i, s) ==
    HomeOfGood[s] = HomeOfGood[i] \/ (HomeOfGood[s] \in p4[i] /\ p1[s] = "live")

\* A repertoire has what its band plays.
Plays ==
    \A r \in Repertoires, i \in Q!SetlistRows :
       HomeOfGood[i] = HomeOfGood[r] => p7[i] \subseteq p7[r]

\* Only people's setlists are shared, by invitation; managers are the owner's.
RightsInv ==
    /\ Q!RightsTypeOK
    /\ \A i \in Repertoires : p1[i] = "live"
    /\ \A i \in Q!SetlistRows : \A u \in Players :
          /\ p5[i][u] # 0 => HomeOfGood[i] \in Players /\ HomeOfGood[i] # u
          /\ u \in p4[i] => p5[i][u] # 0
          /\ p5[i][u] = 3 => p6[i][u] = HomeOfGood[i]
    /\ \A i \in Q!SetlistRows : \A s \in p7[i] : InScope(i, s)
    /\ Plays

\* The types, one by one.
LEMMA RightsTyped ==
    ASSUME RightsInv
    PROVE  /\ p1 \in [Goods -> {"none", "live", "trash", "gone"}]
           /\ p2 \in [Bands -> [Players -> 0 .. 2]]
           /\ p3 \in [Bands -> SUBSET Q!Permissions]
           /\ p4 \in [Goods -> SUBSET Players]
           /\ p5 \in [Q!SetlistRows -> [Players -> 0 .. 3]]
           /\ p6 \in [Q!SetlistRows -> [Players -> Players \cup Bands]]
           /\ p7 \in [Q!SetlistRows -> SUBSET Q!SongRows]
BY DEF RightsInv, Q!RightsTypeOK, Q!AccessTypeOK, Q!Outside, Q!Leading, Q!None, Q!Manager

\* At first everything is there and nobody is invited.
LEMMA RightsStart == Q!RightsInit => RightsInv
<1>. SUFFICES ASSUME Q!RightsInit
              PROVE  RightsInv
  OBVIOUS
<1>1. /\ p1 = [i \in Goods |-> "live"]
      /\ p2 = [b \in Bands |-> [u \in Players |-> 1]]
      /\ p3 = [b \in Bands |-> {}] /\ p4 = [i \in Goods |-> {}]
      /\ p5 = [i \in Q!SetlistRows |-> [u \in Players |-> 0]]
      /\ p6 = [i \in Q!SetlistRows |-> [u \in Players |-> HomeOfGood[i]]]
      /\ p7 = [i \in Q!SetlistRows |-> {}]
  BY DEF Q!RightsInit, Q!Plain, Q!None
<1>2. Q!RightsTypeOK
  BY <1>1, GoodsAre DEF Q!RightsTypeOK, Q!AccessTypeOK, Q!Outside, Q!Leading, Q!None, Q!Manager
<1>. QED  BY <1>1, <1>2, GoodsAre DEF RightsInv, Plays

-----------------------------------------------------------------------------
(* What the answers mean. *)

\* Who may edit, manage or export is told so if they find the setlist.
LEMMA CheckTells ==
    ASSUME RightsInv, NEW i \in Q!SetlistRows, NEW u \in Players,
           NEW a \in {"Manage", "EditItems", "EditDetails", "ExportPdf"}
    PROVE  /\ Q!Check(i, u, a) # "not_found" <=> Q!FindSetlist(i, u)
           /\ Q!Check(i, u, a) = "ok" <=>
                 /\ p1[i] = "live"
                 /\ IF HomeOfGood[i] \in Players
                    THEN HomeOfGood[i] = u
                         \/ (u \in p4[i] /\ p5[i][u] >= Q!Minimum(a))
                    ELSE Q!MayDo(HomeOfGood[i], u, Q!BandPermission(a))
<1>1. Q!Minimum(a) \in 1 .. 4
  BY DEF Q!Minimum, Q!Owner, Q!Editor, Q!Manager, Q!Viewer
<1>2. /\ i \in Goods /\ KindOfGood[i] = "setlist" /\ p5[i][u] \in 0 .. 3
      /\ (HomeOfGood[i] \in Players \/ HomeOfGood[i] \in Bands)
      /\ ~(HomeOfGood[i] \in Players /\ HomeOfGood[i] \in Bands)
      /\ (u \in p4[i] => p5[i][u] # 0)
  BY GoodsAre, RightsTyped DEF RightsInv, Q!SetlistRows, Q!OfKind
<1>. QED
  BY <1>1, <1>2 DEF Q!Check, Q!Knows, Q!Personal, Q!Live, Q!Mine, Q!Accepted, Q!None, Q!MayDo, Q!FindSetlist,
     Q!InItsBand

\* Who does not find a setlist is told so at once.
LEMMA AnswersHide ==
    ASSUME RightsInv, NEW i \in Q!SetlistRows, NEW u \in Players, ~Q!FindSetlist(i, u)
    PROVE  \A d \in Q!SetlistAnswers(i, u) : d = "not_found"
<1>1. /\ Q!Find(i, u) = "not_found" /\ Q!Exists(i, u) = "not_found"
      /\ \A n : Q!Then(Q!Find(i, u), n) = "not_found"
  BY DEF Q!Find, Q!Exists, Q!SetlistExists, Q!FindSetlist, Q!FoundIf, Q!Then
<1>2. /\ Q!CanManageSetlist(i, u) = "not_found" /\ Q!CanEditItems(i, u) = "not_found"
      /\ Q!CanEditDetails(i, u) = "not_found" /\ Q!CanExportPdf(i, u) = "not_found"
      /\ \A a \in {"Manage", "EditItems", "EditDetails", "ExportPdf"} :
            Q!Check(i, u, a) = "not_found"
  BY CheckTells DEF Q!CanManageSetlist, Q!CanEditItems, Q!CanEditDetails, Q!CanExportPdf
<1>3. Q!Standing(i, u) = "not_found"
  <2>1. KindOfGood[i] = "setlist" /\ i \in Goods /\ (HomeOfGood[i] \in Players \/ HomeOfGood[i] \in Bands)
    BY GoodsAre DEF Q!SetlistRows, Q!OfKind
  <2>. QED
    BY <2>1 DEF Q!Standing, Q!Personal, Q!Live, Q!Mine, Q!Accepted, Q!None,
       Q!FindSetlist, Q!InItsBand, Q!FoundIf
<1>4. \A n : /\ Q!Then(Q!CanManageSetlist(i, u), n) = "not_found"
             /\ Q!Then(Q!CanEditItems(i, u), n) = "not_found"
             /\ Q!Then(Q!CanEditDetails(i, u), n) = "not_found"
             /\ Q!Then(Q!Standing(i, u), n) = "not_found"
  BY <1>2, <1>3 DEF Q!Then
<1>5. /\ Q!DuplicateAnswer(i, u) = "not_found" /\ Q!DeleteAnswer(i, u) = "not_found"
      /\ Q!RenameAnswer(i, u) = "not_found" /\ Q!SongPageAnswer(i, u) = "not_found"
      /\ Q!ItemPageAnswer(i, u) = "not_found" /\ Q!FavoriteAnswer(i, u) = "not_found"
      /\ Q!ReorderSongsAnswer(i, u) = "not_found" /\ Q!ReorderItemsAnswer(i, u) = "not_found"
      /\ Q!BlocksAnswer(i, u) = "not_found" /\ Q!BreaksAnswer(i, u) = "not_found"
      /\ Q!DropMarkerAnswer(i, u) = "not_found" /\ Q!CollaboratorsAnswer(i, u) = "not_found"
      /\ Q!LookupAnswer(i, u) = "not_found"
  BY <1>1, <1>2, <1>4 DEF Q!DuplicateAnswer, Q!DeleteAnswer, Q!RenameAnswer, Q!SongPageAnswer,
     Q!ItemPageAnswer, Q!FavoriteAnswer, Q!ReorderSongsAnswer, Q!ReorderItemsAnswer,
     Q!BlocksAnswer, Q!BreaksAnswer, Q!DropMarkerAnswer, Q!CollaboratorsAnswer, Q!LookupAnswer
<1>6. \A s \in Q!SongRows :
         /\ Q!AddSongAnswer(i, s, u) = "not_found" /\ Q!TransposeAnswer(i, s, u) = "not_found"
         /\ Q!RemoveSongAnswer(i, s, u) = "not_found" /\ Q!CopySongAnswer(i, s, u) = "not_found"
  BY <1>1, <1>4 DEF Q!AddSongAnswer, Q!TransposeAnswer, Q!RemoveSongAnswer, Q!CopySongAnswer
<1>7. \A v \in Players \ {u}, r \in 1 .. 3 :
         /\ Q!InviteAnswer(i, u, v, r) = "not_found" /\ Q!ChangeRoleAnswer(i, u, v, r) = "not_found"
         /\ Q!RemoveAnswer(i, u, v) = "not_found"
  BY <1>1, <1>4 DEF Q!InviteAnswer, Q!ChangeRoleAnswer, Q!RemoveAnswer
<1>. SUFFICES ASSUME NEW d \in Q!SetlistAnswers(i, u)
              PROVE  d = "not_found"
  OBVIOUS
<1>8. \/ d \in {Q!Check(i, u, a) : a \in {"Manage", "EditItems", "EditDetails", "ExportPdf"}}
      \/ d \in {Q!DuplicateAnswer(i, u), Q!DeleteAnswer(i, u), Q!RenameAnswer(i, u),
          Q!SongPageAnswer(i, u), Q!ItemPageAnswer(i, u), Q!FavoriteAnswer(i, u),
          Q!ReorderSongsAnswer(i, u), Q!ReorderItemsAnswer(i, u), Q!BlocksAnswer(i, u),
          Q!BreaksAnswer(i, u), Q!DropMarkerAnswer(i, u),
          Q!CollaboratorsAnswer(i, u), Q!LookupAnswer(i, u)}
      \/ \E s \in Q!SongRows :
            d \in {Q!AddSongAnswer(i, s, u), Q!TransposeAnswer(i, s, u),
                   Q!RemoveSongAnswer(i, s, u), Q!CopySongAnswer(i, s, u)}
      \/ \E v \in Players \ {u}, r \in 1 .. 3 :
            d \in {Q!InviteAnswer(i, u, v, r), Q!ChangeRoleAnswer(i, u, v, r),
                   Q!RemoveAnswer(i, u, v)}
  <2>. DEFINE Own == {Q!Check(i, u, a) : a \in {"Manage", "EditItems", "EditDetails", "ExportPdf"}}
              Plain == {Q!DuplicateAnswer(i, u), Q!DeleteAnswer(i, u), Q!RenameAnswer(i, u),
                        Q!SongPageAnswer(i, u), Q!ItemPageAnswer(i, u), Q!FavoriteAnswer(i, u),
                        Q!ReorderSongsAnswer(i, u), Q!ReorderItemsAnswer(i, u),
                        Q!BlocksAnswer(i, u), Q!BreaksAnswer(i, u), Q!DropMarkerAnswer(i, u),
                        Q!CollaboratorsAnswer(i, u), Q!LookupAnswer(i, u)}
              OfSong == UNION {{Q!AddSongAnswer(i, s, u), Q!TransposeAnswer(i, s, u),
                                Q!RemoveSongAnswer(i, s, u), Q!CopySongAnswer(i, s, u)} :
                               s \in Q!SongRows}
              OfOther == UNION {{Q!InviteAnswer(i, u, v, r), Q!ChangeRoleAnswer(i, u, v, r),
                                 Q!RemoveAnswer(i, u, v)} :
                                v \in Players \ {u}, r \in Q!Viewer .. Q!Manager}
  <2>1. Q!SetlistAnswers(i, u) = Own \cup Plain \cup OfSong \cup OfOther
    BY DEF Q!SetlistAnswers
  <2>2. d \in Own \/ d \in Plain \/ d \in OfSong \/ d \in OfOther
    <3>. HIDE DEF Own, Plain, OfSong, OfOther
    <3>. QED  BY <2>1
  <2>3. CASE d \in OfSong
    <3>1. \E s \in Q!SongRows :
            d \in {Q!AddSongAnswer(i, s, u), Q!TransposeAnswer(i, s, u),
                   Q!RemoveSongAnswer(i, s, u), Q!CopySongAnswer(i, s, u)}
      BY <2>3
    <3>. QED  BY <3>1, Zenon
  <2>4. CASE d \in OfOther
    <3>1. \E v \in Players \ {u}, r \in Q!Viewer .. Q!Manager :
            d \in {Q!InviteAnswer(i, u, v, r), Q!ChangeRoleAnswer(i, u, v, r),
                   Q!RemoveAnswer(i, u, v)}
      BY <2>4
    <3>2. Q!Viewer .. Q!Manager = 1 .. 3
      BY DEF Q!Viewer, Q!Manager
    <3>. QED  BY <3>1, <3>2, Zenon
  <2>5. CASE d \in Own
    BY <2>5, Zenon
  <2>6. CASE d \in Plain
    BY <2>6, Zenon
  <2>. QED  BY <2>2, <2>3, <2>4, <2>5, <2>6
<1>. QED  BY <1>2, <1>5, <1>6, <1>7, <1>8

\* Nobody is told of what they could not open.
LEMMA RightsHide ==
    ASSUME RightsInv
    PROVE  Q!NothingRevealed
<1>1. ASSUME NEW u \in Players, NEW s \in Q!SongRows, ~Q!FindSong(s, u)
      PROVE  \A d \in Q!SongAnswers(s, u) : d = "not_found"
  <2>1. Q!FindTune(s, u) = "not_found"
    BY <1>1 DEF Q!FindTune, Q!FoundIf
  <2>2. Q!CanManageSong(s, u) = "not_found"
    BY <1>1, GoodsAre DEF Q!CanManageSong, Q!FindSong, Q!SongRows, Q!Live, Q!Personal, Q!Mine, Q!InItsBand,
       Q!Requires, Q!FoundIf
  <2>. QED
    BY <2>1, <2>2 DEF Q!SongAnswers, Q!SongAnswer, Q!SongSetlistsAnswer, Q!VersionsAnswer,
       Q!BandCopiesAnswer, Q!AnalysisAnswer, Q!SaveAnalysisAnswer, Q!DeleteAnalysisAnswer,
       Q!SongFileAnswer, Q!SongPdfAnswer, Q!ExportableSong, Q!Then
<1>. QED  BY <1>1, AnswersHide, CheckTells DEF Q!NothingRevealed

\* The queries of one request agree with each other.
LEMMA RightsAgree ==
    ASSUME RightsInv
    PROVE  Q!ChecksAgree
<1>. SUFFICES ASSUME NEW u \in Players, NEW i \in Q!SetlistRows
              PROVE  /\ Q!CanManageSetlist(i, u) = "ok" <=> Q!ManagesSetlist(i, u)
                     /\ Q!CanManageSetlist(i, u) = "ok" => Q!CanEditDetails(i, u) = "ok"
                     /\ Q!CanEditDetails(i, u) = "ok" => Q!CanEditItems(i, u) = "ok"
                     /\ Q!CanExportPdf(i, u) = "ok" <=> Q!ExportsSetlist(i, u)
                     /\ Q!Personal(i) => (Q!Standing(i, u) = "ok" <=> Q!CanExportPdf(i, u) = "ok")
                     /\ Q!FindSetlist(i, u) <=> Q!Standing(i, u) # "not_found"
  BY DEF Q!ChecksAgree
<1>1. /\ i \in Goods /\ KindOfGood[i] = "setlist" /\ p5[i][u] \in 0 .. 3
      /\ (HomeOfGood[i] \in Players \/ HomeOfGood[i] \in Bands)
      /\ ~(HomeOfGood[i] \in Players /\ HomeOfGood[i] \in Bands)
      /\ (u \in p4[i] => p5[i][u] # 0)
  BY GoodsAre, RightsTyped DEF RightsInv, Q!SetlistRows, Q!OfKind
<1>. DEFINE Allowed(a, n) ==
              /\ p1[i] = "live"
              /\ IF HomeOfGood[i] \in Players THEN HomeOfGood[i] = u \/ (u \in p4[i] /\ p5[i][u] >= n)
                 ELSE Q!MayDo(HomeOfGood[i], u, a)
<1>2. /\ Q!CanManageSetlist(i, u) = "ok" <=> Allowed("manage_setlists", 4)
      /\ Q!CanEditItems(i, u) = "ok" <=> Allowed("manage_setlists", 2)
      /\ Q!CanEditDetails(i, u) = "ok" <=> Allowed("manage_setlists", 3)
      /\ Q!CanExportPdf(i, u) = "ok" <=> Allowed("export_pdf", 1)
  BY CheckTells DEF Q!CanManageSetlist, Q!CanEditItems, Q!CanEditDetails, Q!CanExportPdf,
     Q!Minimum, Q!BandPermission, Q!Owner, Q!Manager, Q!Editor, Q!Viewer
<1>3. /\ Q!CanManageSetlist(i, u) = "ok" <=> Q!ManagesSetlist(i, u)
      /\ Q!CanManageSetlist(i, u) = "ok" => Q!CanEditDetails(i, u) = "ok"
      /\ Q!CanEditDetails(i, u) = "ok" => Q!CanEditItems(i, u) = "ok"
      /\ Q!CanExportPdf(i, u) = "ok" <=> Q!ExportsSetlist(i, u)
  BY <1>1, <1>2 DEF Q!ManagesSetlist, Q!ExportsSetlist, Q!Live, Q!Mine
<1>4. /\ Q!Personal(i) => (Q!Standing(i, u) = "ok" <=> Q!CanExportPdf(i, u) = "ok")
      /\ Q!FindSetlist(i, u) <=> Q!Standing(i, u) # "not_found"
  BY <1>1, <1>2 DEF Q!Standing, Q!SetlistRows, Q!Personal, Q!Live, Q!Mine, Q!Accepted, Q!None,
     Q!FindSetlist, Q!InItsBand, Q!FoundIf
<1>. QED  BY <1>3, <1>4

\* Invitations give what their giver could, once accepted.
LEMMA InvitesAgree ==
    ASSUME RightsInv
    PROVE  Q!InvitationsAgree
<1>. SUFFICES ASSUME NEW i \in Q!SetlistRows, NEW u \in Players
              PROVE  /\ p5[i][u] # Q!None => Q!Personal(i) /\ ~Q!Mine(i, u)
                     /\ u \in p4[i] => p5[i][u] # Q!None
                     /\ Q!Pending(i, u) => ~Q!FindSetlist(i, u)
                     /\ p5[i][u] = Q!Manager => p6[i][u] = HomeOfGood[i]
                     /\ Q!AcceptAnswer(i, u) = "ok" <=> i \in Q!Invitations(u)
                     /\ Q!AcceptAnswer(i, u) = "ok" => Q!DeclineAnswer(i, u) = "ok"
                     /\ Q!LookupAnswer(i, u) = "ok" =>
                          \A v \in Players \ {u} :
                             Q!Status(i, v) = "available"
                             <=> Q!InviteAnswer(i, u, v, Q!Viewer) = "ok"
  BY DEF Q!InvitationsAgree
<1>1. /\ i \in Goods /\ KindOfGood[i] = "setlist" /\ p5[i][u] \in 0 .. 3
      /\ (HomeOfGood[i] \in Players \/ HomeOfGood[i] \in Bands)
      /\ ~(HomeOfGood[i] \in Players /\ HomeOfGood[i] \in Bands)
      /\ p5[i][u] # 0 => HomeOfGood[i] \in Players /\ HomeOfGood[i] # u
      /\ u \in p4[i] => p5[i][u] # 0
      /\ p5[i][u] = 3 => p6[i][u] = HomeOfGood[i]
  BY GoodsAre, RightsTyped DEF RightsInv, Q!SetlistRows, Q!OfKind
<1>2. /\ p5[i][u] # Q!None => Q!Personal(i) /\ ~Q!Mine(i, u)
      /\ u \in p4[i] => p5[i][u] # Q!None
      /\ Q!Pending(i, u) => ~Q!FindSetlist(i, u)
      /\ p5[i][u] = Q!Manager => p6[i][u] = HomeOfGood[i]
  <2>1. Q!Pending(i, u) => ~Q!FindSetlist(i, u)
    BY <1>1 DEF Q!None, Q!Mine, Q!Pending, Q!FindSetlist, Q!InItsBand
  <2>. QED  BY <1>1, <2>1 DEF Q!None, Q!Manager, Q!Personal, Q!Mine
<1>3. /\ Q!AcceptAnswer(i, u) = "ok" <=> i \in Q!Invitations(u)
      /\ Q!AcceptAnswer(i, u) = "ok" => Q!DeclineAnswer(i, u) = "ok"
  BY DEF Q!AcceptAnswer, Q!Invitations, Q!DeclineAnswer, Q!FoundIf
<1>4. ASSUME Q!LookupAnswer(i, u) = "ok", NEW v \in Players \ {u}
      PROVE  Q!Status(i, v) = "available" <=> Q!InviteAnswer(i, u, v, Q!Viewer) = "ok"
  <2>1. v \in p4[i] => p5[i][v] # 0
    BY DEF RightsInv
  <2>2. /\ Q!Find(i, u) = "ok" /\ Q!Standing(i, u) = "ok" /\ Q!MayGive(i, u, Q!Viewer) = "ok"
    BY <1>4 DEF Q!LookupAnswer, Q!Then
  <2>. QED  BY <2>1, <2>2 DEF Q!Status, Q!InviteAnswer, Q!Then, Q!Mine, Q!None
<1>. QED  BY <1>2, <1>3, <1>4

\* What a setlist holds, shows and counts is the same.
LEMMA TunesAgree ==
    ASSUME RightsInv
    PROVE  Q!SongsAgree
<1>1. ASSUME NEW i \in Q!SetlistRows
      PROVE  /\ \A s \in p7[i] :
                   HomeOfGood[s] = HomeOfGood[i] \/ (HomeOfGood[s] \in p4[i] /\ Q!Live(s))
             /\ Q!SongCount(i) = Q!Cardinality(Q!SongsIn(i))
  <2>1. \A s \in p7[i] :
           HomeOfGood[s] = HomeOfGood[i] \/ (HomeOfGood[s] \in p4[i] /\ Q!Live(s))
    BY <1>1 DEF RightsInv, InScope, Q!Live
  <2>2. Q!SongsIn(i) = {s \in p7[i] :
                          /\ Q!Live(s)
                          /\ \/ Q!Personal(i) /\ Q!Personal(s)
                                /\ (HomeOfGood[s] = HomeOfGood[i] \/ HomeOfGood[s] \in p4[i])
                             \/ HomeOfGood[s] = HomeOfGood[i]}
    BY <1>1, RightsTyped DEF Q!SongsIn, Q!Scoped, Q!Personal
  <2>. QED  BY <2>1, <2>2 DEF Q!SongCount
<1>2. ASSUME NEW s \in Q!SongRows, NEW u \in Players
      PROVE  Q!SetlistsOfSong(s, u) =
               {i \in Q!SetlistRows : Q!FindSetlist(i, u) /\ s \in Q!SongsIn(i)}
  BY <1>2 DEF Q!SetlistsOfSong, Q!FindSetlist, Q!SongsIn, Q!SetlistRows, Q!OfKind,
     Q!Personal
<1>3. ASSUME NEW r \in Repertoires
      PROVE  /\ Q!Live(r)
             /\ \A i \in Q!SetlistRows : HomeOfGood[i] = HomeOfGood[r] =>
                   p7[i] \subseteq p7[r] /\ Q!SongsIn(i) \subseteq Q!RepertoireSongs(HomeOfGood[r])
  <2>1. Q!Live(r) /\ r \in Q!SetlistRows /\ HomeOfGood[r] \in Bands
    BY GoodsAre DEF RightsInv, Q!Live
  <2>2. ASSUME NEW i \in Q!SetlistRows, HomeOfGood[i] = HomeOfGood[r]
        PROVE  p7[i] \subseteq p7[r] /\ Q!SongsIn(i) \subseteq Q!RepertoireSongs(HomeOfGood[r])
    <3>1. p7[i] \subseteq p7[r]
      BY <2>2 DEF RightsInv, Plays
    <3>2. HomeOfGood[i] \notin Players /\ HomeOfGood[r] \notin Players
      BY <2>1, <2>2, GoodsAre
    <3>. QED  BY <2>1, <2>2, <3>1, <3>2 DEF Q!SongsIn, Q!Scoped, Q!Personal, Q!RepertoireSongs
  <2>. QED  BY <2>1, <2>2
<1>. QED  BY <1>1, <1>2, <1>3 DEF Q!SongsAgree

\* So all of it holds.
LEMMA RightsSafe ==
    ASSUME RightsInv
    PROVE  Q!RightsSafety /\ Q!RightsTypeOK
BY RightsHide, RightsAgree, InvitesAgree, TunesAgree DEF Q!RightsSafety, RightsInv

-----------------------------------------------------------------------------
(* Steps. *)

\* Who was given what, by whom: only people's setlists, managers by the owner.
Invited(i, u) ==
    /\ p5[i][u] # 0 => HomeOfGood[i] \in Players /\ HomeOfGood[i] # u
    /\ u \in p4[i] => p5[i][u] # 0
    /\ p5[i][u] = 3 => p6[i][u] = HomeOfGood[i]

\* The invariant, row by row.
LEMMA RightsRows ==
    ASSUME RightsInv, NEW i \in Q!SetlistRows
    PROVE  /\ \A u \in Players : Invited(i, u)
           /\ \A s \in p7[i] : InScope(i, s)
           /\ \A r \in Repertoires : HomeOfGood[i] = HomeOfGood[r] => p7[i] \subseteq p7[r]
BY DEF RightsInv, Invited, Plays

\* What keeps the invariant.
LEMMA RightsStay ==
    ASSUME RightsInv,
           p1' \in [Goods -> {"none", "live", "trash", "gone"}],
           p2' \in [Bands -> [Players -> 0 .. 2]],
           p3' \in [Bands -> SUBSET Q!Permissions],
           p4' \in [Goods -> SUBSET Players],
           p5' \in [Q!SetlistRows -> [Players -> 0 .. 3]],
           p6' \in [Q!SetlistRows -> [Players -> Players \cup Bands]],
           p7' \in [Q!SetlistRows -> SUBSET Q!SongRows],
           \A i \in Repertoires : p1'[i] = "live",
           \A i \in Q!SetlistRows, u \in Players : Invited(i, u)',
           \A i \in Q!SetlistRows : \A s \in p7'[i] : InScope(i, s)',
           Plays'
    PROVE  RightsInv'
<1>1. Q!RightsTypeOK'
  BY DEF Q!RightsTypeOK, Q!AccessTypeOK, Q!Outside, Q!Leading, Q!None, Q!Manager
<1>2. (\A i \in Q!SetlistRows : \A s \in p7[i] : InScope(i, s))'
  OBVIOUS
<1>. QED  BY <1>1, <1>2 DEF RightsInv, Invited, Plays

\* A role is given to whom the giver may give it.
LEMMA RolesGiven ==
    ASSUME RightsInv, NEW i \in Q!SetlistRows, NEW u \in Players, NEW v \in Players,
           NEW r \in 1 .. 3,
           Q!InviteDeputy(i, u, v, r) \/ Q!ChangeDeputy(i, u, v, r)
    PROVE  RightsInv'
<1>1. /\ p5' = [p5 EXCEPT ![i][v] = r] /\ p6' = [p6 EXCEPT ![i][v] = u]
      /\ p1' = p1 /\ p2' = p2 /\ p3' = p3 /\ p4' = p4 /\ p7' = p7
  BY DEF Q!InviteDeputy, Q!ChangeDeputy, Q!SetDeputy, Q!accessVars
<1>2. Q!Standing(i, u) = "ok" /\ Q!MayGive(i, u, r) = "ok"
      /\ (HomeOfGood[i] # v \/ p5[i][v] # 0)
  <2>1. CASE Q!InviteAnswer(i, u, v, r) = "ok"
    BY <2>1 DEF Q!InviteAnswer, Q!Then, Q!Mine
  <2>2. CASE Q!ChangeRoleAnswer(i, u, v, r) = "ok"
    <3>1. /\ Q!Standing(i, u) = "ok"
          /\ Q!Then(Q!FoundIf(p5[i][v] # 0),
                    Q!Then(Q!MayGive(i, u, p5[i][v]), Q!MayGive(i, u, r))) = "ok"
      BY <2>2 DEF Q!ChangeRoleAnswer, Q!Then, Q!None
    <3>. QED  BY <3>1 DEF Q!Then, Q!FoundIf
  <2>. QED  BY <2>1, <2>2 DEF Q!InviteDeputy, Q!ChangeDeputy
<1>3. HomeOfGood[i] \in Players
  BY <1>2 DEF Q!Standing, Q!Personal
<1>4. HomeOfGood[i] # v
  BY <1>2, RightsRows DEF Invited
<1>5. r = 3 => u = HomeOfGood[i]
  BY <1>2 DEF Q!MayGive, Q!GivesRole, Q!Mine, Q!Manager
<1>6. \A d \in Q!SetlistRows, w \in Players : Invited(d, w)'
  <2>. SUFFICES ASSUME NEW d \in Q!SetlistRows, NEW w \in Players
                PROVE  Invited(d, w)'
    OBVIOUS
  <2>1. Invited(d, w)
    BY RightsRows
  <2>2. CASE d = i /\ w = v
    BY <1>1, <1>3, <1>4, <1>5, <2>1, <2>2, RightsTyped DEF Invited
  <2>3. CASE ~(d = i /\ w = v)
    <3>1. p5'[d][w] = p5[d][w] /\ p6'[d][w] = p6[d][w] /\ p4'[d] = p4[d]
      BY <1>1, <2>3, RightsTyped
    <3>. QED  BY <2>1, <3>1 DEF Invited
  <2>. QED  BY <2>2, <2>3
<1>7. \A d \in Q!SetlistRows : \A s \in p7'[d] : InScope(d, s)'
  BY <1>1, RightsRows DEF InScope
<1>8. /\ p5' \in [Q!SetlistRows -> [Players -> 0 .. 3]]
      /\ p6' \in [Q!SetlistRows -> [Players -> Players \cup Bands]]
  <2>1. r \in 0 .. 3
    OBVIOUS
  <2>. QED  BY <1>1, <2>1, RightsTyped
<1>9. \A d \in Repertoires : p1'[d] = "live"
  BY <1>1 DEF RightsInv
<1>. QED  BY <1>1, <1>6, <1>7, <1>8, <1>9, RightsTyped, RightsRows, RightsStay DEF Plays

\* An invitation is answered.
LEMMA InvitesAnswered ==
    ASSUME RightsInv, NEW i \in Q!SetlistRows, NEW u \in Players,
           Q!Accept(i, u) \/ Q!Decline(i, u)
    PROVE  RightsInv'
<1>1. i \in Goods
  BY GoodsAre
<1>2. p5[i][u] # 0 /\ u \notin p4[i]
  BY DEF Q!Accept, Q!Decline, Q!AcceptAnswer, Q!DeclineAnswer, Q!FoundIf, Q!Pending, Q!None
<1>3. CASE Q!Accept(i, u)
  <2>1. /\ p4' = [p4 EXCEPT ![i] = @ \cup {u}]
        /\ p1' = p1 /\ p2' = p2 /\ p3' = p3 /\ p5' = p5 /\ p6' = p6 /\ p7' = p7
    BY <1>3 DEF Q!Accept
  <2>2. \A d \in Q!SetlistRows, w \in Players : Invited(d, w)'
    BY <1>1, <1>2, <2>1, GoodsAre, RightsRows, RightsTyped DEF Invited
  <2>3. \A d \in Q!SetlistRows : \A s \in p7'[d] : InScope(d, s)'
    BY <1>1, <2>1, GoodsAre, RightsRows, RightsTyped DEF InScope
  <2>4. /\ p4' \in [Goods -> SUBSET Players]
        /\ \A d \in Repertoires : p1'[d] = "live"
    BY <1>1, <2>1, RightsTyped DEF RightsInv
  <2>. QED  BY <2>1, <2>2, <2>3, <2>4, RightsTyped, RightsRows, RightsStay DEF Plays
<1>4. CASE Q!Decline(i, u)
  <2>1. /\ p5' = [p5 EXCEPT ![i][u] = 0] /\ p6' = [p6 EXCEPT ![i][u] = HomeOfGood[i]]
        /\ p1' = p1 /\ p2' = p2 /\ p3' = p3 /\ p4' = p4 /\ p7' = p7
    BY <1>4 DEF Q!Decline, Q!SetDeputy, Q!accessVars, Q!None
  <2>2. \A d \in Q!SetlistRows, w \in Players : Invited(d, w)'
    BY <1>2, <2>1, RightsRows, RightsTyped DEF Invited
  <2>3. \A d \in Q!SetlistRows : \A s \in p7'[d] : InScope(d, s)'
    BY <2>1, RightsRows DEF InScope
  <2>4. /\ p5' \in [Q!SetlistRows -> [Players -> 0 .. 3]]
        /\ p6' \in [Q!SetlistRows -> [Players -> Players \cup Bands]]
        /\ \A d \in Repertoires : p1'[d] = "live"
    BY <1>1, <2>1, GoodsAre, RightsTyped DEF RightsInv
  <2>. QED  BY <2>1, <2>2, <2>3, <2>4, RightsTyped, RightsRows, RightsStay DEF Plays
<1>. QED  BY <1>3, <1>4

\* Whoever leaves takes their songs along.
LEMMA DeputiesLeave ==
    ASSUME RightsInv, NEW i \in Q!SetlistRows, NEW u \in Players, NEW v \in Players,
           Q!RemoveDeputy(i, u, v)
    PROVE  RightsInv'
<1>1. /\ p5' = [p5 EXCEPT ![i][v] = 0] /\ p6' = [p6 EXCEPT ![i][v] = HomeOfGood[i]]
      /\ p4' = [p4 EXCEPT ![i] = @ \ {v}]
      /\ p7' = [p7 EXCEPT ![i] = {s \in @ : ~(p1[s] = "live" /\ HomeOfGood[s] = v)}]
      /\ p1' = p1 /\ p2' = p2 /\ p3' = p3 /\ i \in Goods
  BY GoodsAre DEF Q!RemoveDeputy, Q!SetDeputy, Q!None, Q!Live, Q!Mine
<1>2. \A d \in Q!SetlistRows, w \in Players : Invited(d, w)'
  <2>. SUFFICES ASSUME NEW d \in Q!SetlistRows, NEW w \in Players
                PROVE  Invited(d, w)'
    OBVIOUS
  <2>1. Invited(d, w) /\ d \in Goods
    BY RightsRows, GoodsAre
  <2>2. CASE d = i /\ w = v
    <3>1. p5'[d][w] = 0 /\ w \notin p4'[d]
      BY <1>1, <2>2, RightsTyped
    <3>. QED  BY <3>1 DEF Invited
  <2>3. CASE ~(d = i /\ w = v)
    <3>1. p5'[d][w] = p5[d][w] /\ p6'[d][w] = p6[d][w] /\ (w \in p4'[d] => w \in p4[d])
      BY <1>1, <2>1, <2>3, RightsTyped
    <3>. QED  BY <2>1, <3>1 DEF Invited
  <2>. QED  BY <2>2, <2>3
<1>3. \A d \in Q!SetlistRows : \A s \in p7'[d] : InScope(d, s)'
  <2>. SUFFICES ASSUME NEW d \in Q!SetlistRows, NEW s \in p7'[d]
                PROVE  InScope(d, s)'
    OBVIOUS
  <2>1. /\ s \in p7[d] /\ d \in Goods
        /\ d = i => ~(p1[s] = "live" /\ HomeOfGood[s] = v)
    BY <1>1, RightsTyped, GoodsAre
  <2>2. InScope(d, s)
    BY <2>1, RightsRows
  <2>. QED  BY <1>1, <2>1, <2>2, RightsTyped DEF InScope
<1>4. /\ p4' \in [Goods -> SUBSET Players]
      /\ p7' \in [Q!SetlistRows -> SUBSET Q!SongRows]
      /\ \A d \in Repertoires : p1'[d] = "live"
  BY <1>1, RightsTyped DEF RightsInv
<1>5. /\ p5' \in [Q!SetlistRows -> [Players -> 0 .. 3]]
      /\ p6' \in [Q!SetlistRows -> [Players -> Players \cup Bands]]
  BY <1>1, GoodsAre, RightsTyped
<1>6. Plays'
  <2>1. p5[i][v] # 0
    BY RightsRows DEF Q!RemoveDeputy, Q!LeaveAnswer, Q!RemoveAnswer, Q!Then, Q!FoundIf, Q!None,
       Invited
  <2>2. HomeOfGood[i] \in Players
    BY <2>1, RightsRows DEF Invited
  <2>. SUFFICES ASSUME NEW r \in Repertoires, NEW d \in Q!SetlistRows,
                       HomeOfGood[d] = HomeOfGood[r]
                PROVE  p7'[d] \subseteq p7'[r]
    BY DEF Plays
  <2>3. r \in Q!SetlistRows /\ d # i /\ r # i
    BY <2>2, GoodsAre
  <2>. QED  BY <1>1, <2>3, RightsRows, RightsTyped
<1>. QED  BY <1>1, <1>2, <1>3, <1>4, <1>5, <1>6, RightsTyped, RightsStay

\* A song joins a setlist of its scope.
LEMMA TunesJoin ==
    ASSUME RightsInv, NEW i \in Q!SetlistRows, NEW s \in Q!SongRows, NEW u \in Players,
           Q!AddTune(i, s, u)
    PROVE  RightsInv'
<1>1. /\ p7' = [j \in Q!SetlistRows |->
                  IF j = i \/ (j \in Repertoires /\ HomeOfGood[j] = HomeOfGood[i])
                  THEN p7[j] \cup {s} ELSE p7[j]]
      /\ p1' = p1 /\ p2' = p2 /\ p3' = p3 /\ p4' = p4 /\ p5' = p5 /\ p6' = p6
  BY DEF Q!AddTune, Q!accessVars
<1>2. InScope(i, s)
  <2>1. CASE HomeOfGood[i] \in Players
    <3>1. /\ Q!CanEditItems(i, u) = "ok" /\ Q!FindSong(s, u) /\ HomeOfGood[s] \in Players
      BY <2>1 DEF Q!AddTune, Q!AddSongAnswer, Q!Then, Q!FindTune, Q!FoundIf, Q!Personal
    <3>2. HomeOfGood[s] = u /\ p1[s] = "live"
      BY <3>1, GoodsAre DEF Q!FindSong, Q!Live, Q!Mine, Q!InItsBand
    <3>3. HomeOfGood[i] = u \/ u \in p4[i]
      BY <2>1, <3>1, CheckTells DEF Q!CanEditItems
    <3>. QED  BY <3>2, <3>3 DEF InScope
  <2>2. CASE HomeOfGood[i] \notin Players
    BY <2>2 DEF Q!AddTune, Q!Personal, InScope
  <2>. QED  BY <2>1, <2>2
<1>3. \A d \in Q!SetlistRows, w \in Players : Invited(d, w)'
  BY <1>1, RightsRows DEF Invited
<1>4. \A d \in Q!SetlistRows : \A t \in p7'[d] : InScope(d, t)'
  <2>. SUFFICES ASSUME NEW d \in Q!SetlistRows, NEW t \in p7'[d]
                PROVE  InScope(d, t)'
    OBVIOUS
  <2>1. \/ t \in p7[d] \/ (d = i /\ t = s)
        \/ d \in Repertoires /\ HomeOfGood[d] = HomeOfGood[i] /\ t = s
    BY <1>1, RightsTyped
  <2>2. CASE d \in Repertoires /\ HomeOfGood[d] = HomeOfGood[i] /\ t = s
    <3>1. HomeOfGood[d] \in Bands /\ HomeOfGood[i] \notin Players
      BY <2>2, GoodsAre
    <3>2. HomeOfGood[s] = HomeOfGood[i]
      BY <3>1 DEF Q!AddTune, Q!Personal
    <3>. QED  BY <1>1, <2>2, <3>2 DEF InScope
  <2>3. CASE t \in p7[d] \/ (d = i /\ t = s)
    <3>1. InScope(d, t)
      BY <1>2, <2>3, RightsRows
    <3>. QED  BY <1>1, <3>1 DEF InScope
  <2>. QED  BY <2>1, <2>2, <2>3
<1>5. /\ p7' \in [Q!SetlistRows -> SUBSET Q!SongRows]
      /\ \A d \in Repertoires : p1'[d] = "live"
  BY <1>1, RightsTyped DEF RightsInv
<1>6. Plays'
  <2>. SUFFICES ASSUME NEW r \in Repertoires, NEW d \in Q!SetlistRows,
                       HomeOfGood[d] = HomeOfGood[r]
                PROVE  p7'[d] \subseteq p7'[r]
    BY DEF Plays
  <2>1. r \in Q!SetlistRows /\ p7[d] \subseteq p7[r]
    BY GoodsAre, RightsRows
  <2>. QED  BY <1>1, <2>1
<1>. QED  BY <1>1, <1>3, <1>4, <1>5, <1>6, RightsTyped, RightsStay

\* A song leaves a setlist, or its repertoire for the trash.
LEMMA TunesLeave ==
    ASSUME RightsInv, NEW i \in Q!SetlistRows, NEW s \in Q!SongRows, NEW u \in Players,
           Q!RemoveTune(i, s, u)
    PROVE  RightsInv'
<1>1. /\ p2' = p2 /\ p3' = p3 /\ p4' = p4 /\ p5' = p5 /\ p6' = p6
  BY DEF Q!RemoveTune
<1>2. \A d \in Q!SetlistRows, w \in Players : Invited(d, w)'
  BY <1>1, RightsRows DEF Invited
<1>3. CASE i \in Repertoires
  <2>1. /\ p1' = [p1 EXCEPT ![s] = "trash"] /\ p7' = p7 /\ s \in p7[i]
    BY <1>3 DEF Q!RemoveTune, Q!RemoveSongAnswer, Q!Then, Q!FoundIf, Q!HasSong
  <2>2. HomeOfGood[s] \in Bands
    BY <1>3, <2>1, GoodsAre, RightsRows, RightsTyped DEF InScope, Invited
  <2>3. \A d \in Q!SetlistRows : \A t \in p7'[d] : InScope(d, t)'
    <3>. SUFFICES ASSUME NEW d \in Q!SetlistRows, NEW t \in p7[d]
                  PROVE  InScope(d, t)'
      BY <2>1
    <3>1. InScope(d, t) /\ t \in Goods /\ d \in Goods
      BY RightsRows, RightsTyped, GoodsAre
    <3>2. HomeOfGood[s] \notin p4[d]
      BY <2>2, <3>1, RightsTyped, GoodsAre
    <3>. QED  BY <1>1, <2>1, <3>1, <3>2, RightsTyped DEF InScope
  <2>4. /\ p1' \in [Goods -> {"none", "live", "trash", "gone"}]
        /\ \A d \in Repertoires : p1'[d] = "live"
    BY <2>1, RightsTyped, GoodsAre DEF RightsInv
  <2>. QED  BY <1>1, <1>2, <2>1, <2>3, <2>4, RightsTyped, RightsRows, RightsStay DEF Plays
<1>4. CASE i \notin Repertoires
  <2>1. /\ p7' = [p7 EXCEPT ![i] = @ \ {s}] /\ p1' = p1
    BY <1>4 DEF Q!RemoveTune
  <2>2. \A d \in Q!SetlistRows : \A t \in p7'[d] : InScope(d, t)'
    <3>. SUFFICES ASSUME NEW d \in Q!SetlistRows, NEW t \in p7'[d]
                  PROVE  InScope(d, t)'
      OBVIOUS
    <3>1. t \in p7[d]
      BY <2>1, RightsTyped
    <3>. QED  BY <1>1, <2>1, <3>1, RightsRows DEF InScope
  <2>3. /\ p7' \in [Q!SetlistRows -> SUBSET Q!SongRows]
        /\ \A d \in Repertoires : p1'[d] = "live"
    BY <2>1, RightsTyped DEF RightsInv
  <2>4. Plays'
    <3>. SUFFICES ASSUME NEW r \in Repertoires, NEW d \in Q!SetlistRows,
                         HomeOfGood[d] = HomeOfGood[r]
                  PROVE  p7'[d] \subseteq p7'[r]
      BY DEF Plays
    <3>1. r \in Q!SetlistRows /\ p7[d] \subseteq p7[r] /\ r # i
      BY <1>4, GoodsAre, RightsRows
    <3>2. p7'[r] = p7[r] /\ p7'[d] \subseteq p7[d]
      BY <2>1, <3>1, RightsTyped
    <3>. QED  BY <3>1, <3>2
  <2>. QED  BY <1>1, <1>2, <2>1, <2>2, <2>3, <2>4, RightsTyped, RightsStay
<1>. QED  BY <1>3, <1>4

\* A song goes to the trash, and out of other people's setlists.
LEMMA TunesTrashed ==
    ASSUME RightsInv, NEW s \in Q!SongRows, NEW u \in Players, Q!TrashTune(s, u)
    PROVE  RightsInv'
<1>1. /\ p1' = [p1 EXCEPT ![s] = "trash"]
      /\ p2' = p2 /\ p3' = p3 /\ p4' = p4 /\ p5' = p5 /\ p6' = p6
      /\ p7' = [i \in Q!SetlistRows |->
                  IF HomeOfGood[i] \in Players /\ HomeOfGood[i] # HomeOfGood[s]
                  THEN p7[i] \ {s} ELSE p7[i]]
      /\ s \in Goods
  BY GoodsAre DEF Q!TrashTune, Q!MoveToTrash, Q!Personal, Q!Mine
<1>2. \A d \in Q!SetlistRows, w \in Players : Invited(d, w)'
  BY <1>1, RightsRows DEF Invited
<1>3. \A d \in Q!SetlistRows : \A t \in p7'[d] : InScope(d, t)'
  <2>. SUFFICES ASSUME NEW d \in Q!SetlistRows, NEW t \in p7'[d]
                PROVE  InScope(d, t)'
    OBVIOUS
  <2>1. t \in p7[d] /\ (t = s => HomeOfGood[d] \notin Players \/ HomeOfGood[d] = HomeOfGood[s])
    BY <1>1, RightsTyped
  <2>2. InScope(d, t) /\ t \in Goods /\ d \in Goods
    BY <2>1, RightsRows, RightsTyped, GoodsAre
  <2>3. HomeOfGood[s] \in p4[d] => HomeOfGood[d] \in Players
    BY <2>2, RightsRows, RightsTyped DEF Invited
  <2>. QED  BY <1>1, <2>1, <2>2, <2>3, RightsTyped DEF InScope
<1>4. /\ p1' \in [Goods -> {"none", "live", "trash", "gone"}]
      /\ p7' \in [Q!SetlistRows -> SUBSET Q!SongRows]
      /\ \A d \in Repertoires : p1'[d] = "live"
  BY <1>1, RightsTyped, GoodsAre DEF RightsInv
<1>5. Plays'
  <2>. SUFFICES ASSUME NEW r \in Repertoires, NEW d \in Q!SetlistRows,
                       HomeOfGood[d] = HomeOfGood[r]
                PROVE  p7'[d] \subseteq p7'[r]
    BY DEF Plays
  <2>1. r \in Q!SetlistRows /\ HomeOfGood[r] \notin Players
    BY GoodsAre
  <2>2. p7'[r] = p7[r] /\ p7'[d] = p7[d]
    BY <1>1, <2>1
  <2>. QED  BY <2>1, <2>2, RightsRows
<1>. QED  BY <1>1, <1>2, <1>3, <1>4, <1>5, RightsTyped, RightsStay

\* A setlist goes to the trash; anything comes back from there.
LEMMA GoodsComeAndGo ==
    ASSUME RightsInv, NEW i \in Goods, NEW u \in Players,
           \/ i \in Q!SetlistRows /\ Q!DeleteList(i, u)
           \/ Q!RestoreThing(i, u) /\ UNCHANGED <<p5, p6, p7>>
    PROVE  RightsInv'
<1>1. /\ p2' = p2 /\ p3' = p3 /\ p4' = p4 /\ p5' = p5 /\ p6' = p6 /\ p7' = p7
  BY DEF Q!DeleteList, Q!RestoreThing
<1>2. PICK r \in {"live", "trash"} :
         /\ p1' = [p1 EXCEPT ![i] = r]
         /\ r = "trash" => i \in Q!SetlistRows /\ i \notin Repertoires
  BY DEF Q!DeleteList, Q!DeleteAnswer, Q!Then, Q!RestoreThing
<1>3. \A d \in Q!SetlistRows, w \in Players : Invited(d, w)'
  BY <1>1, RightsRows DEF Invited
<1>4. \A d \in Q!SetlistRows : \A t \in p7'[d] : InScope(d, t)'
  <2>. SUFFICES ASSUME NEW d \in Q!SetlistRows, NEW t \in p7[d]
                PROVE  InScope(d, t)'
    BY <1>1
  <2>1. InScope(d, t) /\ t \in Goods /\ t \notin Q!SetlistRows
    BY RightsRows, RightsTyped, GoodsAre
  <2>. QED  BY <1>1, <1>2, <2>1, RightsTyped DEF InScope
<1>5. /\ p1' \in [Goods -> {"none", "live", "trash", "gone"}]
      /\ \A d \in Repertoires : p1'[d] = "live"
  BY <1>2, RightsTyped, GoodsAre DEF RightsInv
<1>. QED  BY <1>1, <1>3, <1>4, <1>5, RightsTyped, RightsRows, RightsStay DEF Plays

\* People change roles in a band, and roles their rights.
LEMMA BandRightsChange ==
    ASSUME RightsInv, UNCHANGED <<p5, p6, p7>>, NEW b \in Bands,
           \/ \E u \in Joining, r \in 0 .. 2 : Q!SetRole(b, u, r)
           \/ \E q \in Q!Permissions, may \in BOOLEAN : Q!SetPermission(b, q, may)
    PROVE  RightsInv'
<1>1. p1' = p1 /\ p4' = p4 /\ p5' = p5 /\ p6' = p6 /\ p7' = p7
  BY DEF Q!SetRole, Q!SetPermission
<1>2. /\ p2' \in [Bands -> [Players -> 0 .. 2]]
      /\ p3' \in [Bands -> SUBSET Q!Permissions]
  <2>1. ASSUME NEW u \in Joining, NEW r \in 0 .. 2, Q!SetRole(b, u, r)
        PROVE  /\ p2' \in [Bands -> [Players -> 0 .. 2]]
               /\ p3' \in [Bands -> SUBSET Q!Permissions]
    BY <2>1, RightsTyped, GoodsAre DEF Q!SetRole
  <2>2. ASSUME NEW q \in Q!Permissions, NEW may \in BOOLEAN, Q!SetPermission(b, q, may)
        PROVE  /\ p2' \in [Bands -> [Players -> 0 .. 2]]
               /\ p3' \in [Bands -> SUBSET Q!Permissions]
    <3>1. /\ p2' = p2
          /\ p3' = [p3 EXCEPT ![b] = IF may THEN p3[b] \cup {q} ELSE p3[b] \ {q}]
      BY <2>2 DEF Q!SetPermission
    <3>2. (IF may THEN p3[b] \cup {q} ELSE p3[b] \ {q}) \in SUBSET Q!Permissions
      BY RightsTyped
    <3>. QED  BY <3>1, <3>2, RightsTyped
  <2>. QED  BY <2>1, <2>2
<1>3. \A d \in Q!SetlistRows, w \in Players : Invited(d, w)'
  BY <1>1, RightsRows DEF Invited
<1>4. \A d \in Q!SetlistRows : \A t \in p7'[d] : InScope(d, t)'
  BY <1>1, RightsRows DEF InScope
<1>5. \A d \in Repertoires : p1'[d] = "live"
  BY <1>1 DEF RightsInv
<1>. QED  BY <1>1, <1>2, <1>3, <1>4, <1>5, RightsTyped, RightsRows, RightsStay DEF Plays

\* Every step keeps the scope of songs and the givers of roles.
LEMMA RightsMove == RightsInv /\ Q!RightsNext => RightsInv'
<1>. SUFFICES ASSUME RightsInv, Q!RightsNext
              PROVE  RightsInv'
  OBVIOUS
<1>1. ASSUME NEW i \in Q!SetlistRows, NEW u \in Players,
             \/ Q!Accept(i, u) \/ Q!Decline(i, u) \/ Q!DeleteList(i, u)
             \/ \E v \in Players :
                   \/ Q!RemoveDeputy(i, u, v)
                   \/ \E r \in 1 .. 3 : Q!InviteDeputy(i, u, v, r) \/ Q!ChangeDeputy(i, u, v, r)
             \/ \E s \in Q!SongRows : Q!AddTune(i, s, u) \/ Q!RemoveTune(i, s, u)
      PROVE  RightsInv'
  BY <1>1, GoodsAre, InvitesAnswered, GoodsComeAndGo, DeputiesLeave, RolesGiven, TunesJoin, TunesLeave
<1>2. ASSUME NEW s \in Q!SongRows, NEW u \in Players, Q!TrashTune(s, u)
      PROVE  RightsInv'
  BY <1>2, TunesTrashed
<1>3. ASSUME NEW i \in Goods, NEW u \in Players, Q!RestoreThing(i, u), UNCHANGED <<p5, p6, p7>>
      PROVE  RightsInv'
  BY <1>3, GoodsComeAndGo
<1>4. ASSUME NEW b \in Bands, UNCHANGED <<p5, p6, p7>>,
             \/ \E u \in Joining, r \in 0 .. 2 : Q!SetRole(b, u, r)
             \/ \E q \in Q!Permissions, may \in BOOLEAN : Q!SetPermission(b, q, may)
      PROVE  RightsInv'
  BY <1>4, BandRightsChange
<1>. QED
  BY <1>1, <1>2, <1>3, <1>4 DEF Q!RightsNext, Q!Viewer, Q!Manager, Q!Outside, Q!Leading

\* Nothing happens to it meanwhile.
LEMMA RightsIdle ==
    ASSUME RightsInv, UNCHANGED <<p1, p2, p3, p4, p5, p6, p7>>
    PROVE  RightsInv'
BY DEF RightsInv, Q!RightsTypeOK, Q!AccessTypeOK, InScope, Plays

-----------------------------------------------------------------------------
(* A band from within: p1 are ranks, p2 powers, p3 reminders, p4 requests.   *)

\* A part counts as this module does.
LEMMA DeskCounts == \A X : M!Cardinality(X) = Cardinality(X)
BY DEF M!Cardinality, Cardinality

\* Who inserts a reminder found room for it, under the lock.
DeskFits(r) ==
    /\ r.pc \in {"create", "insert"} => r.who \in Players
    /\ r.pc = "insert" => Cardinality(M!Written) < MaxNotes
    /\ r.pc = "drop" => r.note \in NoteRows

\* One owner; reminders within their limit, and one inserted at a time.
DeskInv ==
    /\ M!DeskTypeOK
    /\ \E o \in Players : \A v \in Players : p1[v] = 4 <=> v = o
    /\ Cardinality(M!Written) <= MaxNotes
    /\ \A x \in Requests : DeskFits(p4[x])
    /\ \A x, y \in Requests : p4[x].pc = "insert" /\ p4[y].pc = "insert" => x = y

\* The types, one by one.
LEMMA DeskTyped ==
    ASSUME DeskInv
    PROVE  /\ p1 \in [Players -> 0 .. 4]
           /\ p2 \in [1 .. 2 -> SUBSET Powers]
           /\ p3 \in [NoteRows -> Players \cup {NoShow}]
           /\ p4 \in [Requests -> M!DeskRecords]
           /\ NoShow \notin Players /\ NoShow \notin NoteRows
           /\ M!Written = {n \in NoteRows : p3[n] # NoShow}
<1>1. M!Configurable = 1 .. 2
  BY DEF M!Configurable, M!Member, M!Moderator
<1>. QED  BY <1>1, WorkspaceBounds DEF DeskInv, M!DeskTypeOK, M!Outside, M!Owner, M!Written

\* Reminders can be counted.
LEMMA NotesFinite ==
    /\ \A X \in SUBSET NoteRows : IsFiniteSet(X) /\ Cardinality(X) \in Nat
    /\ \A X \in SUBSET NoteRows, n \in NoteRows :
          /\ n \notin X => Cardinality(X \cup {n}) = Cardinality(X) + 1
          /\ Cardinality(X \ {n}) <= Cardinality(X)
    /\ MaxNotes \in Nat /\ Cardinality({}) = 0
<1>1. IsFiniteSet(NoteRows) /\ MaxNotes \in Nat
  BY WorkspaceBounds
<1>2. ASSUME NEW X \in SUBSET NoteRows
      PROVE  IsFiniteSet(X) /\ Cardinality(X) \in Nat
  BY <1>1, FS_Subset, FS_CardinalityType
<1>3. ASSUME NEW X \in SUBSET NoteRows, NEW n \in NoteRows
      PROVE  /\ n \notin X => Cardinality(X \cup {n}) = Cardinality(X) + 1
             /\ Cardinality(X \ {n}) <= Cardinality(X)
  <2>1. IsFiniteSet(X)
    BY <1>2
  <2>2. n \notin X => Cardinality(X \cup {n}) = Cardinality(X) + 1
    BY <2>1, FS_AddElement
  <2>3. Cardinality(X \ {n}) <= Cardinality(X)
    BY <2>1, FS_Subset
  <2>. QED  BY <2>2, <2>3
<1>. QED  BY <1>1, <1>2, <1>3, FS_EmptySet

\* A request without business.
LEMMA NoDeskIs ==
    /\ M!NoRequest \in M!DeskRecords /\ M!NoRequest.pc = "idle"
BY DEF M!NoRequest, M!DeskRecords

\* At first the founder is alone.
LEMMA DeskStarts == M!DeskInit => DeskInv
<1>. SUFFICES ASSUME M!DeskInit
              PROVE  DeskInv
  OBVIOUS
<1>1. /\ p1 = [u \in Players |-> IF u = Founder THEN 4 ELSE 0]
      /\ p2 = [r \in M!Configurable |-> IF r = 2 THEN Powers ELSE Powers \cap {"export_pdf"}]
      /\ p3 = [n \in NoteRows |-> NoShow]
      /\ p4 = [x \in Requests |-> M!NoRequest]
  BY DEF M!DeskInit, M!Owner, M!Outside, M!Moderator
<1>2. M!DeskTypeOK
  <2>1. /\ p1 \in [Players -> 0 .. 4] /\ p3 \in [NoteRows -> Players \cup {NoShow}]
        /\ p4 \in [Requests -> M!DeskRecords]
    BY <1>1, NoDeskIs
  <2>2. p2 \in [M!Configurable -> SUBSET Powers]
    BY <1>1
  <2>. QED  BY <2>1, <2>2 DEF M!DeskTypeOK, M!Outside, M!Owner
<1>3. \E o \in Players : \A v \in Players : p1[v] = 4 <=> v = o
  BY <1>1, WorkspaceBounds
<1>4. M!Written = {}
  BY <1>1 DEF M!Written
<1>5. \A x \in Requests : DeskFits(p4[x]) /\ p4[x].pc # "insert"
  BY <1>1, NoDeskIs DEF DeskFits
<1>. QED  BY <1>2, <1>3, <1>4, <1>5, NotesFinite DEF DeskInv

-----------------------------------------------------------------------------
(* What the rules say. *)

\* What pages say is what requests are allowed.
LEMMA FlagsSame ==
    ASSUME DeskInv
    PROVE  M!FlagsAgree
<1>. SUFFICES ASSUME NEW u \in Players
              PROVE  /\ M!PageFlags(u) = M!ListFlags(u)
                     /\ M!PageFlags(u) = {q \in Powers : M!RequirePower(u, q) = "ok"}
                     /\ M!ListsBand(u) <=> M!PageAnswer(u) = "ok"
                     /\ M!PageAnswer(u) = "not_found" <=> M!RosterAnswer(u) = "not_found"
  BY DEF M!FlagsAgree
<1>1. p1[u] \in 0 .. 4
  BY DeskTyped
<1>2. M!PageFlags(u) = M!ListFlags(u)
  BY DEF M!PageFlags, M!ListFlags
<1>3. \A q \in Powers : q \in M!PageFlags(u) <=> M!RequirePower(u, q) = "ok"
  BY <1>1 DEF M!PageFlags, M!RequirePower, M!HasPower, M!Configurable, M!Member, M!Moderator,
     M!Admin, M!Owner, M!Outside
<1>4. M!PageFlags(u) \subseteq Powers
  BY DEF M!PageFlags
<1>5. /\ M!ListsBand(u) <=> M!PageAnswer(u) = "ok"
      /\ M!PageAnswer(u) = "not_found" <=> M!RosterAnswer(u) = "not_found"
  BY DEF M!ListsBand, M!PageAnswer, M!RosterAnswer, M!RequireRole
<1>. QED  BY <1>2, <1>3, <1>4, <1>5

\* The hierarchy is one.
LEMMA RanksSame ==
    ASSUME DeskInv
    PROVE  M!RanksAgree
<1>1. \E u \in Players : p1[u] = 4 /\ \A v \in Players \ {u} : p1[v] # 4
  BY DEF DeskInv
<1>2. ASSUME NEW a \in Players, NEW u \in Players, a # u
      PROVE  /\ M!TitleAnswer(a, u) = "ok" <=> M!RemoveAnswer(a, u) = "ok"
             /\ M!RemoveAnswer(a, u) = "ok" => p1[u] < p1[a]
             /\ \A r \in 1 .. 4 :
                   /\ M!RoleAnswer(a, u, r) \in {"ok", "not_modified"} <=>
                         M!RemoveAnswer(a, u) = "ok" /\ M!InviteAnswer(a, r) = "ok"
                   /\ M!RoleAnswer(a, u, r) = "ok" /\ r = 3 => p1[a] = 4
  <2>1. p1[a] \in 0 .. 4 /\ p1[u] \in 0 .. 4
    BY DeskTyped
  <2>. USE DEF M!RequireRole, M!Outside, M!Member, M!Moderator, M!Admin, M!Owner
  <2>2. /\ M!TitleAnswer(a, u) = "ok" <=> M!RemoveAnswer(a, u) = "ok"
        /\ M!RemoveAnswer(a, u) = "ok" => p1[u] < p1[a]
    BY <1>2, <2>1 DEF M!TitleAnswer, M!RemoveAnswer
  <2>3. ASSUME NEW r \in 1 .. 4
        PROVE  /\ M!RoleAnswer(a, u, r) \in {"ok", "not_modified"} <=>
                     M!RemoveAnswer(a, u) = "ok" /\ M!InviteAnswer(a, r) = "ok"
               /\ M!RoleAnswer(a, u, r) = "ok" /\ r = 3 => p1[a] = 4
    BY <1>2, <2>1 DEF M!RoleAnswer, M!RemoveAnswer, M!InviteAnswer
  <2>. QED  BY <2>2, <2>3
<1>. QED  BY <1>1, <1>2 DEF M!RanksAgree, M!Member, M!Admin, M!Owner

\* Who may edit which reminder.
LEMMA NotesSame ==
    ASSUME DeskInv
    PROVE  M!NotesKept
<1>1. M!Cardinality(M!Written) <= MaxNotes
  BY DeskCounts DEF DeskInv
<1>2. ASSUME NEW u \in Players, p1[u] # 0
      PROVE  /\ M!Editable(u) = {n \in NoteRows : M!DeleteNoteAnswer(u, n) = "ok"}
             /\ M!Editable(u) = {n \in NoteRows : M!UpdateNoteAnswer(u, n, FALSE) = "ok"}
             /\ \A n \in M!Editable(u) : p3[n] = u \/ p1[p3[n]] < p1[u]
  <2>1. p1[u] \in 1 .. 4 /\ M!RequireRole(u, 1) = "ok"
    BY <1>2, DeskTyped DEF M!RequireRole, M!Outside
  <2>2. \A n \in NoteRows :
           /\ n \in M!Editable(u) <=> M!DeleteNoteAnswer(u, n) = "ok"
           /\ n \in M!Editable(u) <=> M!UpdateNoteAnswer(u, n, FALSE) = "ok"
    BY <2>1 DEF M!Editable, M!DeleteNoteAnswer, M!UpdateNoteAnswer, M!Member
  <2>3. M!Editable(u) \subseteq NoteRows
    BY DEF M!Editable, M!Written
  <2>4. ASSUME NEW n \in M!Editable(u)
        PROVE  p3[n] = u \/ p1[p3[n]] < p1[u]
    <3>1. p3[n] \in Players /\ M!CanEdit(u, n)
      BY <2>4, DeskTyped DEF M!Editable
    <3>2. p1[p3[n]] \in 0 .. 4
      BY <3>1, DeskTyped
    <3>3. p1[u] = 4 /\ p1[p3[n]] = 4 => p3[n] = u
      BY <3>1 DEF DeskInv
    <3>. QED  BY <2>1, <3>1, <3>2, <3>3 DEF M!CanEdit, M!Moderator, M!Owner, M!Outside
  <2>. QED  BY <2>2, <2>3, <2>4
<1>. QED  BY <1>1, <1>2 DEF M!NotesKept, M!Outside

\* So all of it holds.
LEMMA DeskSafe ==
    ASSUME DeskInv
    PROVE  M!DeskSafety /\ M!DeskTypeOK
BY FlagsSame, RanksSame, NotesSame DEF M!DeskSafety, DeskInv

-----------------------------------------------------------------------------
(* Steps. *)

\* Ranks change while nobody inserts a reminder.
LEMMA RanksChange ==
    ASSUME DeskInv, p1' \in [Players -> 0 .. 4], p3' = p3, p4' = p4,
           p2' \in [1 .. 2 -> SUBSET Powers],
           \E o \in Players : \A v \in Players : p1'[v] = 4 <=> v = o
    PROVE  DeskInv'
<1>1. M!Configurable = 1 .. 2
  BY DEF M!Configurable, M!Member, M!Moderator
<1>2. M!DeskTypeOK'
  BY <1>1 DEF DeskInv, M!DeskTypeOK, M!Outside, M!Owner
<1>3. M!Written' = M!Written
  BY DEF M!Written
<1>. QED  BY <1>2, <1>3 DEF DeskInv, DeskFits

\* Someone is given a rank that is not the owner's, and is not the owner.
LEMMA RankGiven ==
    ASSUME DeskInv, NEW u \in Players, NEW r \in 0 .. 3, M!SetRank(u, r), p1[u] # 4
    PROVE  DeskInv'
<1>1. p1' = [p1 EXCEPT ![u] = r] /\ p2' = p2 /\ p3' = p3 /\ p4' = p4
  BY DEF M!SetRank
<1>2. r \in 0 .. 4 /\ r # 4
  OBVIOUS
<1>3. p1' \in [Players -> 0 .. 4]
  BY <1>1, <1>2, DeskTyped
<1>4. \E o \in Players : \A v \in Players : p1'[v] = 4 <=> v = o
  <2>1. PICK o \in Players : \A v \in Players : p1[v] = 4 <=> v = o
    BY DEF DeskInv
  <2>. QED  BY <1>1, <1>2, <2>1, DeskTyped
<1>. QED  BY <1>1, <1>3, <1>4, DeskTyped, RanksChange

\* People come, go, and change ranks and powers.
LEMMA DeskRanks ==
    ASSUME DeskInv, NEW a \in Players, NEW u \in Players,
           \/ M!RemoveMember(a, u) \/ M!HandOver(a, u)
           \/ \E r \in 1 .. 4 : M!ChangeRank(a, u, r)
           \/ \E r \in 1 .. 3 : M!Join(u, r)
           \/ \E r \in M!Configurable, q \in Powers, may \in BOOLEAN : M!SetMatrix(u, r, q, may)
    PROVE  DeskInv'
<1>. USE DEF M!Outside, M!Member, M!Admin, M!Owner
<1>1. p1[a] \in 0 .. 4 /\ p1[u] \in 0 .. 4
  BY DeskTyped
<1>2. CASE M!RemoveMember(a, u)
  <2>1. M!RemoveAnswer(a, u) = "ok" /\ M!SetRank(u, 0)
    BY <1>2 DEF M!RemoveMember
  <2>2. p1[u] # 4
    BY <1>1, <2>1 DEF M!RemoveAnswer
  <2>. QED  BY <2>1, <2>2, RankGiven
<1>3. ASSUME NEW r \in 1 .. 4, M!ChangeRank(a, u, r)
      PROVE  DeskInv'
  <2>1. M!RoleAnswer(a, u, r) = "ok" /\ M!SetRank(u, r)
    BY <1>3 DEF M!ChangeRank
  <2>2. p1[u] # 4 /\ r # 4
    BY <1>1, <2>1 DEF M!RoleAnswer
  <2>3. r \in 0 .. 3
    BY <2>2
  <2>. QED  BY <2>1, <2>2, <2>3, RankGiven
<1>4. ASSUME NEW r \in 1 .. 3, M!Join(u, r)
      PROVE  DeskInv'
  <2>1. p1[u] = 0 /\ M!SetRank(u, r) /\ r \in 0 .. 3
    BY <1>4 DEF M!Join
  <2>. QED  BY <2>1, RankGiven
<1>5. CASE M!HandOver(a, u)
  <2>1. /\ p1[a] = 4 /\ p1[u] # 4 /\ p1' = [p1 EXCEPT ![a] = 3, ![u] = 4]
        /\ p2' = p2 /\ p3' = p3 /\ p4' = p4
    BY <1>5 DEF M!HandOver
  <2>2. p1' \in [Players -> 0 .. 4]
    BY <2>1, DeskTyped
  <2>3. \A v \in Players : p1[v] = 4 <=> v = a
    BY <2>1 DEF DeskInv
  <2>4. \A v \in Players : p1'[v] = 4 <=> v = u
    BY <2>1, <2>3, DeskTyped
  <2>. QED  BY <2>1, <2>2, <2>4, DeskTyped, RanksChange
<1>6. ASSUME NEW r \in M!Configurable, NEW q \in Powers, NEW may \in BOOLEAN,
             M!SetMatrix(u, r, q, may)
      PROVE  DeskInv'
  <2>1. /\ p1' = p1 /\ p3' = p3 /\ p4' = p4
        /\ p2' = [p2 EXCEPT ![r] = IF may THEN p2[r] \cup {q} ELSE p2[r] \ {q}]
    BY <1>6 DEF M!SetMatrix
  <2>2. r \in 1 .. 2
    BY DEF M!Configurable, M!Moderator
  <2>3. (IF may THEN p2[r] \cup {q} ELSE p2[r] \ {q}) \in SUBSET Powers
    BY <2>2, DeskTyped
  <2>4. p2' \in [1 .. 2 -> SUBSET Powers]
    BY <2>1, <2>2, <2>3, DeskTyped
  <2>5. \E o \in Players : \A v \in Players : p1'[v] = 4 <=> v = o
    BY <2>1 DEF DeskInv
  <2>. QED  BY <2>1, <2>4, <2>5, DeskTyped, RanksChange
<1>. QED  BY <1>2, <1>3, <1>4, <1>5, <1>6

\* Reminders change, and one request.
LEMMA DeskKept ==
    ASSUME DeskInv, NEW x \in Requests, NEW r \in M!DeskRecords, M!SetDesk(x, r),
           p1' = p1, p2' = p2, p3' \in [NoteRows -> Players \cup {NoShow}],
           Cardinality(M!Written') <= MaxNotes,
           r.pc \in {"create", "insert"} => r.who \in Players,
           r.pc = "drop" => r.note \in NoteRows,
           r.pc = "insert" => /\ Cardinality(M!Written') < MaxNotes
                              /\ \A y \in Requests : p4[y].pc # "insert",
           \/ M!Written' = M!Written
           \/ Cardinality(M!Written') <= Cardinality(M!Written)
           \/ p4[x].pc = "insert" /\ r.pc = "idle"
    PROVE  DeskInv'
<1>1. p4' = [p4 EXCEPT ![x] = r] /\ p4' \in [Requests -> M!DeskRecords]
  BY DeskTyped DEF M!SetDesk
<1>2. M!DeskTypeOK'
  BY <1>1 DEF DeskInv, M!DeskTypeOK
<1>3. M!Written' \in SUBSET NoteRows /\ M!Written \in SUBSET NoteRows
  BY DEF M!Written
<1>4. /\ Cardinality(M!Written') \in Nat /\ Cardinality(M!Written) \in Nat /\ MaxNotes \in Nat
  BY <1>3, NotesFinite
<1>5. ASSUME NEW y \in Requests
      PROVE  DeskFits(p4[y])'
  <2>1. CASE y = x
    BY <1>1, <2>1, DeskTyped DEF DeskFits
  <2>2. CASE y # x
    <3>1. p4'[y] = p4[y] /\ DeskFits(p4[y])
      BY <1>1, <2>2, DeskTyped DEF DeskInv
    <3>2. p4[x].pc = "insert" => p4[y].pc # "insert"
      BY <2>2 DEF DeskInv
    <3>. QED  BY <1>4, <3>1, <3>2 DEF DeskFits
  <2>. QED  BY <2>1, <2>2
<1>6. \A y, z \in Requests : p4'[y].pc = "insert" /\ p4'[z].pc = "insert" => y = z
  BY <1>1, DeskTyped DEF DeskInv
<1>7. \E o \in Players : \A v \in Players : p1'[v] = 4 <=> v = o
  BY DEF DeskInv
<1>. QED  BY <1>2, <1>5, <1>6, <1>7 DEF DeskInv

\* Requests about reminders.
LEMMA DeskNotes ==
    ASSUME DeskInv, NEW x \in Requests,
           \/ \E u \in Players : M!AskNote(x, u) \/ \E n \in NoteRows : M!AskDrop(x, u, n)
           \/ \E n \in NoteRows : M!InsertNote(x, n)
           \/ M!CountNotes(x) \/ M!DropNote(x) \/ M!AbortDesk(x)
    PROVE  DeskInv'
<1>1. /\ p4[x] \in M!DeskRecords /\ DeskFits(p4[x])
      /\ M!Written \in SUBSET NoteRows /\ Cardinality(M!Written) <= MaxNotes
      /\ Cardinality(M!Written) \in Nat /\ MaxNotes \in Nat
  BY DeskTyped, NotesFinite DEF DeskInv, M!Written
<1>2. ASSUME NEW r \in M!DeskRecords, M!SetDesk(x, r), p1' = p1, p2' = p2, p3' = p3,
             r.pc \in {"create", "insert"} => r.who \in Players,
             r.pc = "drop" => r.note \in NoteRows,
             r.pc = "insert" => /\ Cardinality(M!Written) < MaxNotes
                                /\ \A y \in Requests : p4[y].pc # "insert"
      PROVE  DeskInv'
  <2>1. M!Written' = M!Written
    BY <1>2 DEF M!Written
  <2>. QED  BY <1>1, <1>2, <2>1, DeskTyped, DeskKept
<1>3. ASSUME NEW u \in Players, M!AskNote(x, u)
      PROVE  DeskInv'
  <2>1. PICK r \in M!DeskRecords : r = [M!NoRequest EXCEPT !.pc = "create", !.who = u]
    BY DEF M!NoRequest, M!DeskRecords
  <2>2. r.pc = "create" /\ r.who = u
    BY <2>1 DEF M!NoRequest
  <2>. QED  BY <1>2, <1>3, <2>1, <2>2 DEF M!AskNote
<1>4. ASSUME NEW u \in Players, NEW n \in NoteRows, M!AskDrop(x, u, n)
      PROVE  DeskInv'
  <2>1. PICK r \in M!DeskRecords : r = [M!NoRequest EXCEPT !.pc = "drop", !.note = n]
    BY DEF M!NoRequest, M!DeskRecords
  <2>2. r.pc = "drop" /\ r.note = n
    BY <2>1 DEF M!NoRequest
  <2>. QED  BY <1>2, <1>4, <2>1, <2>2 DEF M!AskDrop
<1>5. CASE M!CountNotes(x)
  <2>1. /\ p4[x].pc = "create" /\ \A y \in Requests : p4[y].pc # "insert"
        /\ p1' = p1 /\ p2' = p2 /\ p3' = p3
        /\ M!SetDesk(x, IF M!Cardinality(M!Written) >= MaxNotes THEN M!NoRequest
                        ELSE [p4[x] EXCEPT !.pc = "insert"])
    BY <1>5 DEF M!CountNotes, M!BandFree
  <2>2. CASE M!Cardinality(M!Written) >= MaxNotes
    BY <1>2, <2>1, <2>2, NoDeskIs
  <2>3. CASE ~(M!Cardinality(M!Written) >= MaxNotes)
    <3>1. PICK r \in M!DeskRecords : r = [p4[x] EXCEPT !.pc = "insert"]
      BY <1>1 DEF M!DeskRecords
    <3>2. r.pc = "insert" /\ r.who = p4[x].who
      BY <1>1, <3>1 DEF M!DeskRecords
    <3>3. Cardinality(M!Written) < MaxNotes
      BY <1>1, <2>3, DeskCounts
    <3>4. r.who \in Players
      BY <1>1, <2>1, <3>2 DEF DeskFits
    <3>. QED  BY <1>2, <2>1, <2>3, <3>1, <3>2, <3>3, <3>4
  <2>. QED  BY <2>2, <2>3
<1>6. ASSUME NEW n \in NoteRows, M!InsertNote(x, n)
      PROVE  DeskInv'
  <2>1. /\ p4[x].pc = "insert" /\ n \notin M!Written /\ p1' = p1 /\ p2' = p2
        /\ p3' = [p3 EXCEPT ![n] = p4[x].who] /\ M!SetDesk(x, M!NoRequest)
    BY <1>6 DEF M!InsertNote
  <2>2. p4[x].who \in Players /\ Cardinality(M!Written) < MaxNotes
    BY <1>1, <2>1 DEF DeskFits
  <2>3. M!Written' = M!Written \cup {n}
    BY <2>1, <2>2, DeskTyped DEF M!Written
  <2>4. Cardinality(M!Written') <= MaxNotes
    BY <1>1, <2>1, <2>2, <2>3, NotesFinite
  <2>5. p3' \in [NoteRows -> Players \cup {NoShow}]
    BY <2>1, <2>2, DeskTyped
  <2>. QED  BY <2>1, <2>4, <2>5, NoDeskIs, DeskKept
<1>7. CASE M!DropNote(x)
  <2>1. /\ p4[x].pc = "drop" /\ p1' = p1 /\ p2' = p2
        /\ p3' = [p3 EXCEPT ![p4[x].note] = NoShow] /\ M!SetDesk(x, M!NoRequest)
    BY <1>7 DEF M!DropNote
  <2>2. p4[x].note \in NoteRows
    BY <1>1, <2>1 DEF DeskFits
  <2>3. M!Written' = M!Written \ {p4[x].note}
    BY <2>1, <2>2, DeskTyped DEF M!Written
  <2>4. Cardinality(M!Written') <= Cardinality(M!Written)
    BY <1>1, <2>2, <2>3, NotesFinite
  <2>5. Cardinality(M!Written') \in Nat
    BY <1>1, <2>3, NotesFinite
  <2>6. p3' \in [NoteRows -> Players \cup {NoShow}]
    BY <2>1, DeskTyped
  <2>. QED  BY <1>1, <2>1, <2>4, <2>5, <2>6, NoDeskIs, DeskKept
<1>8. CASE M!AbortDesk(x)
  BY <1>2, <1>8, NoDeskIs DEF M!AbortDesk
<1>. QED  BY <1>3, <1>4, <1>5, <1>6, <1>7, <1>8

\* Every step keeps one owner, and room for reminders.
LEMMA DeskMoves == DeskInv /\ M!DeskNext => DeskInv'
<1>. SUFFICES ASSUME DeskInv, M!DeskNext
              PROVE  DeskInv'
  OBVIOUS
<1>1. CASE \E x \in Requests :
              \/ \E u \in Players : M!AskNote(x, u) \/ \E n \in NoteRows : M!AskDrop(x, u, n)
              \/ \E n \in NoteRows : M!InsertNote(x, n)
              \/ M!CountNotes(x) \/ M!DropNote(x) \/ M!AbortDesk(x)
  BY <1>1, DeskNotes
<1>2. CASE \E a, u \in Players :
              \/ M!RemoveMember(a, u) \/ M!HandOver(a, u)
              \/ \E r \in 1 .. 4 : M!ChangeRank(a, u, r)
  BY <1>2, DeskRanks
<1>3. CASE \E u \in Players, r \in 1 .. 3 : M!Join(u, r)
  BY <1>3, DeskRanks
<1>4. CASE \E u \in Players, r \in M!Configurable, q \in Powers, may \in BOOLEAN :
              M!SetMatrix(u, r, q, may)
  BY <1>4, DeskRanks
<1>. QED  BY <1>1, <1>2, <1>3, <1>4 DEF M!DeskNext, M!Member, M!Admin, M!Owner

\* Nothing happens to it meanwhile.
LEMMA DeskIdles ==
    ASSUME DeskInv, UNCHANGED <<p1, p2, p3, p4>>
    PROVE  DeskInv'
BY DEF DeskInv, M!DeskTypeOK, DeskFits, M!Written

-----------------------------------------------------------------------------
(* Pins: p1 is what resolves, p2 the position of each pin, p3 the requests. *)

\* Who holds the account's lock.
Locking(c) == c.pc \in {"insert", "order"}

\* An insert found room and its item without a pin; an order has a place for
\* every pin.
PinFits(c) ==
    /\ c.pc = "insert" => c.item \in Targets /\ p2[c.item] = 0
    /\ c.pc = "order" =>
         /\ \A i \in P!Pinned : c.at[i] > 0
         /\ \A i, j \in P!Pinned : i # j => c.at[i] # c.at[j]
    /\ c.pc = "pin" => c.item \in Targets

\* Pins are few and apart, and one request changes them at a time.
PinInv ==
    /\ P!PinsTypeOK /\ P!PinsSafety
    /\ \A x \in Requests : PinFits(p3[x])
    /\ \A x, y \in Requests : Locking(p3[x]) /\ Locking(p3[y]) => x = y

\* The part counts as this module does.
LEMMA PinCounts == \A X : P!Cardinality(X) = Cardinality(X)
BY DEF P!Cardinality, Cardinality

\* The types, one by one.
LEMMA PinTyped ==
    ASSUME PinInv
    PROVE  /\ p1 \subseteq Targets /\ p2 \in P!Spots /\ p3 \in [Requests -> P!TapRecords]
           /\ P!Spots = [Targets -> 0 .. MaxSpot] /\ MaxSpot \in Nat /\ PinLimit \in Nat
           /\ \A i \in Targets : p2[i] \in Nat
           /\ P!Pinned \subseteq Targets /\ IsFiniteSet(P!Pinned) /\ IsFiniteSet(Targets)
           /\ Cardinality(P!Pinned) \in Nat /\ Cardinality(P!Pinned) <= PinLimit
           /\ \A i, j \in P!Pinned : i # j => p2[i] # p2[j]
<1>1. /\ p1 \subseteq Targets /\ p2 \in P!Spots /\ p3 \in [Requests -> P!TapRecords]
      /\ P!Spots = [Targets -> 0 .. MaxSpot] /\ MaxSpot \in Nat /\ PinLimit \in Nat
      /\ P!Pinned \subseteq Targets /\ IsFiniteSet(Targets)
  BY WorkspaceBounds DEF PinInv, P!PinsTypeOK, P!Spots, P!Pinned
<1>2. \A i \in Targets : p2[i] \in Nat
  BY <1>1
<1>3. IsFiniteSet(P!Pinned) /\ Cardinality(P!Pinned) \in Nat
  BY <1>1, FS_Subset, FS_CardinalityType
<1>. QED  BY <1>1, <1>2, <1>3, PinCounts DEF PinInv, P!PinsSafety

\* A request without business.
LEMMA NoTapIs ==
    /\ P!NoTap \in P!TapRecords /\ P!NoTap.pc = "idle"
BY WorkspaceBounds DEF P!NoTap, P!TapRecords, P!NoSpots, P!Spots

\* At first nothing is pinned.
LEMMA PinsStart == P!PinsInit => PinInv
<1>. SUFFICES ASSUME P!PinsInit
              PROVE  PinInv
  OBVIOUS
<1>1. /\ p1 = Targets /\ p2 = [i \in Targets |-> 0] /\ p3 = [x \in Requests |-> P!NoTap]
      /\ MaxSpot \in Nat /\ PinLimit \in Nat
  BY WorkspaceBounds DEF P!PinsInit, P!NoSpots
<1>2. P!Pinned = {}
  BY <1>1 DEF P!Pinned
<1>3. P!PinsSafety
  BY <1>1, <1>2, FS_EmptySet, PinCounts DEF P!PinsSafety
<1>4. P!PinsTypeOK
  BY <1>1, NoTapIs DEF P!PinsTypeOK, P!Spots
<1>. QED  BY <1>1, <1>3, <1>4, NoTapIs DEF PinInv, PinFits, Locking

\* Requests stay apart when one of them takes the lock with nobody holding it,
\* or holds it no more.
LEMMA TapsStay ==
    ASSUME PinInv, NEW x \in Requests, NEW r \in P!TapRecords, P!SetTap(x, r),
           Locking(r) => Locking(p3[x]) \/ P!PinsFree
    PROVE  /\ p3' \in [Requests -> P!TapRecords] /\ p3'[x] = r
           /\ \A y \in Requests \ {x} : p3'[y] = p3[y]
           /\ \A y, z \in Requests : Locking(p3'[y]) /\ Locking(p3'[z]) => y = z
<1>1. p3' = [p3 EXCEPT ![x] = r]
  BY DEF P!SetTap
<1>2. P!PinsFree => \A y \in Requests : ~Locking(p3[y])
  BY DEF P!PinsFree, Locking
<1>3. \A y, z \in Requests : Locking(p3[y]) /\ Locking(p3[z]) => y = z
  BY DEF PinInv
<1>. QED  BY <1>1, <1>2, <1>3, PinTyped

\* With the pins as they were, a request that fits goes on.
LEMMA PinsAsBefore ==
    ASSUME PinInv, NEW x \in Requests, NEW r \in P!TapRecords, P!SetTap(x, r),
           p1' \subseteq Targets, p2' = p2, PinFits(r),
           Locking(r) => Locking(p3[x]) \/ P!PinsFree
    PROVE  PinInv'
<1>1. /\ p3' \in [Requests -> P!TapRecords] /\ p3'[x] = r
      /\ \A y \in Requests \ {x} : p3'[y] = p3[y]
      /\ \A y, z \in Requests : Locking(p3'[y]) /\ Locking(p3'[z]) => y = z
  BY TapsStay
<1>2. P!Pinned' = P!Pinned
  BY DEF P!Pinned
<1>3. P!PinsSafety'
  BY <1>2, PinCounts, PinTyped DEF P!PinsSafety
<1>4. P!PinsTypeOK'
  BY <1>1, PinTyped DEF P!PinsTypeOK
<1>5. \A y \in Requests : PinFits(p3[y])'
  BY <1>1, <1>2 DEF PinFits, PinInv
<1>6. \A y, z \in Requests : Locking(p3[y])' /\ Locking(p3[z])' => y = z
  BY <1>1 DEF Locking
<1>. QED  BY <1>3, <1>4, <1>5, <1>6 DEF PinInv

\* Fewer pins, in places that are apart, by whoever holds the lock or needs
\* none.
LEMMA PinsFewer ==
    ASSUME PinInv, p1' = p1, p2' \in P!Spots, p3' = p3,
           \A i \in Targets : p2'[i] = 0 \/ p2'[i] = p2[i]
    PROVE  PinInv'
<1>1. P!Pinned' \subseteq P!Pinned /\ \A i \in P!Pinned' : p2'[i] = p2[i]
  BY PinTyped DEF P!Pinned
<1>2. Cardinality(P!Pinned') \in Nat /\ Cardinality(P!Pinned') <= Cardinality(P!Pinned)
  BY <1>1, PinTyped, FS_Subset, FS_CardinalityType
<1>3. P!PinsSafety'
  BY <1>1, <1>2, PinCounts, PinTyped DEF P!PinsSafety
<1>4. P!PinsTypeOK'
  BY PinTyped DEF P!PinsTypeOK
<1>5. \A y \in Requests : PinFits(p3[y])'
  BY <1>1, PinTyped DEF PinFits, PinInv
<1>6. \A y, z \in Requests : Locking(p3[y])' /\ Locking(p3[z])' => y = z
  BY DEF Locking, PinInv
<1>. QED  BY <1>3, <1>4, <1>5, <1>6 DEF PinInv

\* Asking and reading change no pin.
LEMMA PinsAsk ==
    ASSUME PinInv, NEW x \in Requests,
           (\E i \in Targets : P!AskPin(x, i)) \/ P!ReadPins(x) \/ P!AbortTap(x)
    PROVE  PinInv'
<1>1. CASE \E i \in Targets : P!AskPin(x, i)
  <2>1. PICK i \in Targets : P!AskPin(x, i)
    BY <1>1
  <2>2. /\ p1' = p1 /\ p2' = p2
        /\ P!SetTap(x, [P!NoTap EXCEPT !.pc = "pin", !.item = i])
    BY <2>1 DEF P!AskPin
  <2>3. [P!NoTap EXCEPT !.pc = "pin", !.item = i] \in P!TapRecords
    BY NoTapIs DEF P!TapRecords
  <2>4. [P!NoTap EXCEPT !.pc = "pin", !.item = i].pc = "pin"
        /\ [P!NoTap EXCEPT !.pc = "pin", !.item = i].item = i
    BY DEF P!NoTap
  <2>. QED  BY <2>2, <2>3, <2>4, PinTyped, PinsAsBefore DEF PinFits, Locking
<1>2. CASE P!ReadPins(x)
  <2>1. p3[x] \in P!TapRecords /\ p3[x].pc = "pin" /\ P!PinsFree /\ p1' = p1 /\ p2' = p2
    BY <1>2, PinTyped DEF P!ReadPins
  <2>2. CASE p3[x].item \in P!Pinned
    <3>1. P!SetTap(x, P!NoTap)
      BY <1>2, <2>2 DEF P!ReadPins
    <3>. QED  BY <2>1, <3>1, NoTapIs, PinTyped, PinsAsBefore DEF PinFits, Locking
  <2>3. CASE p3[x].item \notin P!Pinned
    <3>. DEFINE r == [p3[x] EXCEPT !.pc = "insert", !.live = P!ShownPins]
    <3>1. P!SetTap(x, r)
      BY <1>2, <2>3 DEF P!ReadPins
    <3>2. r \in P!TapRecords
      BY <2>1, PinTyped DEF P!TapRecords, P!ShownPins
    <3>3. r.pc = "insert" /\ r.item = p3[x].item
      BY <2>1 DEF P!TapRecords
    <3>4. p3[x].item \in Targets
      BY <2>1 DEF PinInv, PinFits
    <3>5. p2[p3[x].item] = 0
      BY <2>3, <3>4, PinTyped DEF P!Pinned
    <3>6. PinFits(r)
      BY <3>3, <3>4, <3>5 DEF PinFits
    <3>. HIDE DEF r
    <3>. QED  BY <2>1, <3>1, <3>2, <3>6, PinTyped, PinsAsBefore
  <2>. QED  BY <2>2, <2>3
<1>3. CASE P!AbortTap(x)
  <2>1. p1' = p1 /\ p2' = p2 /\ P!SetTap(x, P!NoTap)
    BY <1>3 DEF P!AbortTap
  <2>. QED  BY <2>1, NoTapIs, PinTyped, PinsAsBefore DEF PinFits, Locking
<1>. QED  BY <1>1, <1>2, <1>3

\* The end of the list is behind all pins that are kept.
LEMMA EndIs ==
    ASSUME PinInv, NEW K2 \in SUBSET P!Pinned
    PROVE  P!EndOf(K2) \in Nat \ {0} /\ \A i \in K2 : p2[i] < P!EndOf(K2)
<1>. DEFINE Good(n) == /\ \A i \in K2 : p2[i] <= n
                       /\ n = 0 \/ \E i \in K2 : p2[i] = n
<1>1. \E n \in 0 .. MaxSpot : Good(n)
  <2>. DEFINE X == {n \in 0 .. MaxSpot : \A i \in K2 : p2[i] <= n}
  <2>1. X \in SUBSET Nat /\ MaxSpot \in X
    BY PinTyped
  <2>2. PICK m \in X : \A n \in X : m <= n
    BY <2>1, LeastNumber
  <2>3. CASE m = 0
    BY <2>2, <2>3
  <2>4. CASE m # 0
    <3>1. m \in 0 .. MaxSpot /\ m - 1 \in 0 .. MaxSpot /\ m - 1 \notin X
      BY <2>1, <2>2, <2>4, PinTyped
    <3>2. PICK i \in K2 : ~(p2[i] <= m - 1)
      BY <3>1
    <3>3. p2[i] \in Nat /\ p2[i] <= m
      BY <2>2, PinTyped
    <3>. QED  BY <2>2, <3>1, <3>2, <3>3
  <2>. QED  BY <2>3, <2>4
<1>2. P!EndOf(K2) = 1 + CHOOSE n \in 0 .. MaxSpot : Good(n)
  BY DEF P!EndOf
<1>3. PICK n \in 0 .. MaxSpot : n = (CHOOSE m \in 0 .. MaxSpot : Good(m)) /\ Good(n)
  BY <1>1
<1>. QED  BY <1>2, <1>3, PinTyped

\* A pin is inserted when there is room.
LEMMA PinInserts ==
    ASSUME PinInv, NEW x \in Requests, P!InsertPin(x)
    PROVE  PinInv'
<1>1. p3[x] \in P!TapRecords /\ p3[x].pc = "insert" /\ p1' = p1 /\ P!SetTap(x, P!NoTap)
  BY PinTyped DEF P!InsertPin
<1>2. CASE P!IsFull(p3[x].live)
  <2>1. p2' = p2
    BY <1>2 DEF P!InsertPin
  <2>. QED  BY <1>1, <2>1, NoTapIs, PinTyped, PinsAsBefore DEF PinFits, Locking
<1>3. CASE ~P!IsFull(p3[x].live)
  <2>. DEFINE i0 == p3[x].item
              K0 == P!Pinned \cap p3[x].live
              e == P!EndOf(K0)
  <2>1. /\ e <= MaxSpot
        /\ p2' = [i \in Targets |-> IF i = i0 THEN e ELSE IF i \in K0 THEN p2[i] ELSE 0]
    BY <1>3 DEF P!InsertPin
  <2>2. i0 \in Targets /\ i0 \notin P!Pinned
    BY <1>1, PinTyped DEF PinInv, PinFits, P!Pinned
  <2>3. e \in Nat \ {0} /\ \A i \in K0 : p2[i] < e
    BY EndIs
  <2>4. K0 \subseteq P!Pinned /\ K0 \subseteq p3[x].live /\ IsFiniteSet(p3[x].live)
        /\ IsFiniteSet(K0)
    <3>1. p3[x].live \subseteq Targets
      BY <1>1 DEF P!TapRecords
    <3>. QED  BY <3>1, PinTyped, FS_Subset
  <2>5. Cardinality(K0) < PinLimit /\ Cardinality(K0) \in Nat
    BY <1>3, <2>4, PinCounts, PinTyped, FS_Subset, FS_CardinalityType DEF P!IsFull
  <2>. HIDE DEF i0, K0, e
  <2>6. P!Pinned' = K0 \cup {i0}
    BY <2>1, <2>2, <2>3, <2>4, PinTyped DEF P!Pinned
  <2>7. Cardinality(P!Pinned') <= PinLimit
    <3>1. i0 \notin K0 /\ Cardinality(K0 \cup {i0}) = Cardinality(K0) + 1
      BY <2>2, <2>4, FS_AddElement
    <3>2. PinLimit \in Nat
      BY WorkspaceBounds
    <3>. QED  BY <2>5, <2>6, <3>1, <3>2
  <2>8. ASSUME NEW i \in P!Pinned', NEW j \in P!Pinned', i # j
        PROVE  p2'[i] # p2'[j]
    BY <2>1, <2>2, <2>3, <2>4, <2>6, <2>8, PinTyped
  <2>9. P!PinsSafety'
    BY <2>7, <2>8, PinCounts DEF P!PinsSafety
  <2>10. p2' \in P!Spots
    BY <2>1, <2>3, PinTyped
  <2>11. /\ p3' \in [Requests -> P!TapRecords] /\ p3'[x] = P!NoTap
         /\ \A y \in Requests \ {x} : p3'[y] = p3[y]
         /\ \A y, z \in Requests : Locking(p3'[y]) /\ Locking(p3'[z]) => y = z
    BY <1>1, NoTapIs, TapsStay DEF Locking
  <2>12. P!PinsTypeOK'
    BY <1>1, <2>10, <2>11, PinTyped DEF P!PinsTypeOK
  <2>13. \A y \in Requests \ {x} : ~Locking(p3[y])
    BY <1>1 DEF PinInv, Locking
  <2>14. \A y \in Requests : PinFits(p3[y])'
    BY <2>11, <2>13, NoTapIs DEF PinFits, Locking, PinInv
  <2>15. \A y, z \in Requests : Locking(p3[y])' /\ Locking(p3[z])' => y = z
    BY <2>11 DEF Locking
  <2>. QED  BY <2>9, <2>12, <2>14, <2>15 DEF PinInv
<1>. QED  BY <1>2, <1>3

\* A new order has a place for every pin, and no place for two.
LEMMA OrdersApart ==
    ASSUME PinInv, NEW a \in P!Listings, NEW f \in P!NewOrders(a)
    PROVE  /\ f \in P!Spots /\ \A i \in P!Pinned : f[i] > 0
           /\ \A i, j \in P!Pinned : i # j => f[i] # f[j]
<1>1. /\ f \in P!Spots
      /\ \A i \in Targets : i \in P!Pinned => f[i] \in 1 .. P!Cardinality(P!Pinned)
      /\ \A i, j \in P!Pinned : P!Before(i, j, a) => f[i] < f[j]
  BY DEF P!NewOrders
<1>2. /\ a \in [Targets -> 0 .. 2]
      /\ \A i, j \in Targets : i # j /\ a[i] = a[j] => a[i] = 0
  BY DEF P!Listings
<1>3. ASSUME NEW i \in P!Pinned, NEW j \in P!Pinned, i # j
      PROVE  P!Before(i, j, a) \/ P!Before(j, i, a)
  <2>1. i \in Targets /\ j \in Targets /\ p2[i] # p2[j] /\ p2[i] \in Nat /\ p2[j] \in Nat
    BY <1>3, PinTyped
  <2>2. a[i] \in 0 .. 2 /\ a[j] \in 0 .. 2 /\ (a[i] = a[j] => a[i] = 0)
    BY <1>2, <1>3, <2>1
  <2>. QED  BY <2>1, <2>2 DEF P!Before
<1>4. ASSUME NEW i \in P!Pinned
      PROVE  f[i] \in Nat /\ f[i] > 0
  BY <1>1, PinTyped, PinCounts
<1>. QED  BY <1>1, <1>3, <1>4

\* A reordering reads the pins and writes them in their new order.
LEMMA PinsReorder ==
    ASSUME PinInv, NEW x \in Requests,
           (\E a \in P!Listings : P!ReadOrder(x, a)) \/ P!WriteOrder(x)
    PROVE  PinInv'
<1>1. CASE \E a \in P!Listings : P!ReadOrder(x, a)
  <2>0. PICK a \in P!Listings : P!ReadOrder(x, a)
    BY <1>1
  <2>1. PICK f \in P!NewOrders(a) :
          /\ P!PinsFree /\ p1' = p1 /\ p2' = p2
          /\ P!SetTap(x, [P!NoTap EXCEPT !.pc = "order", !.at = f])
    BY <2>0 DEF P!ReadOrder
  <2>. DEFINE r == [P!NoTap EXCEPT !.pc = "order", !.at = f]
  <2>2. f \in P!Spots /\ (\A i \in P!Pinned : f[i] > 0)
        /\ \A i, j \in P!Pinned : i # j => f[i] # f[j]
    BY OrdersApart
  <2>3. r \in P!TapRecords
    BY <2>2, NoTapIs DEF P!TapRecords
  <2>4. r.pc = "order" /\ r.at = f
    BY DEF P!NoTap
  <2>5. PinFits(r)
    BY <2>2, <2>4 DEF PinFits
  <2>. HIDE DEF r
  <2>6. P!SetTap(x, r)
    BY <2>1 DEF r
  <2>. QED  BY <2>1, <2>3, <2>5, <2>6, PinTyped, PinsAsBefore
<1>2. CASE P!WriteOrder(x)
  <2>1. /\ p3[x] \in P!TapRecords /\ p3[x].pc = "order" /\ p1' = p1 /\ P!SetTap(x, P!NoTap)
        /\ p2' = [i \in Targets |-> IF i \in P!Pinned THEN p3[x].at[i] ELSE 0]
    BY <1>2, PinTyped DEF P!WriteOrder
  <2>2. p3[x].at \in P!Spots
    BY <2>1 DEF P!TapRecords
  <2>3. /\ \A i \in P!Pinned : p3[x].at[i] > 0
        /\ \A i, j \in P!Pinned : i # j => p3[x].at[i] # p3[x].at[j]
    BY <2>1 DEF PinInv, PinFits
  <2>4. P!Pinned' = P!Pinned
    BY <2>1, <2>3, PinTyped DEF P!Pinned
  <2>5. P!PinsSafety'
    BY <2>1, <2>3, <2>4, PinCounts, PinTyped DEF P!PinsSafety
  <2>6. p2' \in P!Spots
    BY <2>1, <2>2, PinTyped
  <2>7. /\ p3' \in [Requests -> P!TapRecords] /\ p3'[x] = P!NoTap
        /\ \A y \in Requests \ {x} : p3'[y] = p3[y]
        /\ \A y, z \in Requests : Locking(p3'[y]) /\ Locking(p3'[z]) => y = z
    BY <2>1, NoTapIs, TapsStay DEF Locking
  <2>8. P!PinsTypeOK'
    BY <2>1, <2>6, <2>7, PinTyped DEF P!PinsTypeOK
  <2>9. \A y \in Requests \ {x} : ~Locking(p3[y])
    BY <2>1 DEF PinInv, Locking
  <2>10. \A y \in Requests : PinFits(p3[y])'
    BY <2>7, <2>9, NoTapIs DEF PinFits, Locking, PinInv
  <2>11. \A y, z \in Requests : Locking(p3[y])' /\ Locking(p3[z])' => y = z
    BY <2>7 DEF Locking
  <2>. QED  BY <2>5, <2>8, <2>10, <2>11 DEF PinInv
<1>. QED  BY <1>1, <1>2

\* Every step leaves pins few and apart.
LEMMA PinsMove == PinInv /\ P!PinsNext => PinInv'
<1>. SUFFICES ASSUME PinInv, P!PinsNext
              PROVE  PinInv'
  OBVIOUS
<1>1. ASSUME NEW i \in Targets, P!Unpin(i)
      PROVE  PinInv'
  <2>1. p1' = p1 /\ p3' = p3 /\ p2' = [p2 EXCEPT ![i] = 0]
    BY <1>1 DEF P!Unpin
  <2>2. p2' \in [Targets -> 0 .. MaxSpot] /\ \A j \in Targets : p2'[j] = 0 \/ p2'[j] = p2[j]
    <3>1. p2 \in [Targets -> 0 .. MaxSpot] /\ 0 \in 0 .. MaxSpot
      BY PinTyped
    <3>. QED  BY <2>1, <3>1
  <2>. QED  BY <2>1, <2>2, PinsFewer DEF P!Spots
<1>2. ASSUME NEW i \in Targets, P!SightChanges(i)
      PROVE  PinInv'
  <2>1. p1' \subseteq Targets /\ p2' = p2 /\ p3' = p3
    BY <1>2, PinTyped DEF P!SightChanges
  <2>2. P!Pinned' = P!Pinned
    BY <2>1 DEF P!Pinned
  <2>3. P!PinsSafety' /\ P!PinsTypeOK'
    BY <2>1, <2>2, PinCounts, PinTyped DEF P!PinsSafety, P!PinsTypeOK
  <2>. QED  BY <2>1, <2>2, <2>3 DEF PinInv, PinFits, Locking
<1>. QED  BY <1>1, <1>2, PinsAsk, PinInserts, PinsReorder DEF P!PinsNext
=============================================================================
