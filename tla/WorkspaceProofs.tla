--------------------------- MODULE WorkspaceProofs ---------------------------
(***************************************************************************)
(* Proofs about what people keep and share, for any numbers of people,     *)
(* songs and requests: one section for each part of Workspace that         *)
(* SetlistAndBandProofs leaves (news, support requests, suggestions, the   *)
(* trash, the library, backups and the agenda), whose variables are p1, p2 *)
(* and so on, and the parts together at the end.                           *)
(***************************************************************************)
EXTENDS SetlistAndBandProofs

-----------------------------------------------------------------------------
(* Announcements: p1 is the announcement, p2 what staff do, p3 how often    *)
(* each user was told, p4 their receipts, p5 the clock, p6 the edits.       *)

\* What a request of staff may count on.
ClerkFits(c) ==
    /\ c.pc = "write" => (c.draft.email => c.draft.writer = "admin")
    /\ c.pc = "tell" => N!Claimable(p1)

\* What is delivered is due until then, by one delivery, and nobody was told
\* before.
NewsInv ==
    /\ N!NewsTypeOK /\ N!AnnouncementSafety
    /\ \A r \in Requests : ClerkFits(p2[r])
    /\ \A q, r \in Requests : p2[q].pc = "tell" /\ p2[r].pc = "tell" => q = r
    /\ \A u \in Readers : p3[u] # 0 => p1.delivered

\* A part counts as this module does.
LEMMA NewsCounts == \A X : N!Cardinality(X) = Cardinality(X)
BY DEF N!Cardinality, Cardinality

\* The types, one by one.
LEMMA NewsTyped ==
    ASSUME NewsInv
    PROVE  /\ p1 \in N!Newsletters /\ p1.draft \in N!Drafts
           /\ p1.exists \in BOOLEAN /\ p1.published \in BOOLEAN
           /\ p1.archived \in BOOLEAN /\ p1.delivered \in BOOLEAN
           /\ p2 \in [Requests -> N!ClerkRecords]
           /\ \A r \in Requests : p2[r] \in N!ClerkRecords
           /\ p3 \in [Readers -> 0 .. Cardinality(Requests)]
           /\ p4 \in [Readers -> N!Receipts]
           /\ p5 \in 0 .. MaxNewsTime /\ p6 \in 0 .. MaxNewsEdits
           /\ N!NoClerk \in N!ClerkRecords /\ N!NoClerk.pc = "idle"
           /\ \A pc \in {"claim", "tell"} : [pc |-> pc] \in N!ClerkRecords
<1>1. /\ p1 \in N!Newsletters /\ p2 \in [Requests -> N!ClerkRecords]
      /\ p3 \in [Readers -> 0 .. Cardinality(Requests)]
      /\ p4 \in [Readers -> N!Receipts]
      /\ p5 \in 0 .. MaxNewsTime /\ p6 \in 0 .. MaxNewsEdits
  BY NewsCounts DEF NewsInv, N!NewsTypeOK
<1>2. /\ p1.draft \in N!Drafts /\ p1.exists \in BOOLEAN /\ p1.published \in BOOLEAN
      /\ p1.archived \in BOOLEAN /\ p1.delivered \in BOOLEAN
  BY <1>1 DEF N!Newsletters
<1>3. N!NoClerk \in N!ClerkRecords /\ N!NoClerk.pc = "idle"
  BY DEF N!ClerkRecords, N!NoClerk
<1>4. \A pc \in {"claim", "tell"} : [pc |-> pc] \in N!ClerkRecords
  BY DEF N!ClerkRecords
<1>. QED  BY <1>1, <1>2, <1>3, <1>4

\* A request goes on, and the announcement is not written.
LEMMA ClerkGoes ==
    ASSUME NewsInv, NEW r \in Requests, NEW c \in N!ClerkRecords,
           p2' = [p2 EXCEPT ![r] = c], UNCHANGED <<p1, p3, p4, p5>>,
           p6' \in 0 .. MaxNewsEdits, ClerkFits(c), c.pc = "tell" => N!RowUnlocked
    PROVE  NewsInv'
<1>1. /\ p2' \in [Requests -> N!ClerkRecords] /\ p2'[r] = c
      /\ \A q \in Requests : q # r => p2'[q] = p2[q]
  BY NewsTyped
<1>2. N!NewsTypeOK' /\ N!AnnouncementSafety'
  BY <1>1 DEF NewsInv, N!NewsTypeOK, N!AnnouncementSafety, N!EmailedByAdmins, N!ToldOnce
<1>3. ASSUME NEW q \in Requests
      PROVE  ClerkFits(p2[q])'
  BY <1>1 DEF NewsInv, ClerkFits, N!Claimable, N!Due
<1>4. (\A q, s \in Requests : p2[q].pc = "tell" /\ p2[s].pc = "tell" => q = s)'
  BY <1>1 DEF NewsInv, N!RowUnlocked
<1>. QED  BY <1>2, <1>3, <1>4 DEF NewsInv

\* A request writes, which waits for a delivery, and is done or delivers next.
LEMMA ClerkWrites ==
    ASSUME NewsInv, NEW r \in Requests, NEW c \in N!ClerkRecords, NEW n \in N!Newsletters,
           N!RowUnlocked, p2' = [p2 EXCEPT ![r] = c], p1' = n,
           c.pc \in {"idle", "claim"}, n.delivered = p1.delivered,
           n.exists /\ n.draft.email => n.draft.writer = "admin",
           p4' \in [Readers -> N!Receipts], UNCHANGED <<p3, p5, p6>>
    PROVE  NewsInv'
<1>1. /\ p2' \in [Requests -> N!ClerkRecords] /\ p2'[r] = c
      /\ \A q \in Requests : q # r => p2'[q] = p2[q]
  BY NewsTyped
<1>2. N!NewsTypeOK' /\ N!AnnouncementSafety'
  BY <1>1 DEF NewsInv, N!NewsTypeOK, N!AnnouncementSafety, N!EmailedByAdmins, N!ToldOnce
<1>3. \A q \in Requests : p2'[q].pc # "tell"
  BY <1>1 DEF N!RowUnlocked
<1>4. ASSUME NEW q \in Requests
      PROVE  ClerkFits(p2[q])'
  BY <1>1, <1>3 DEF NewsInv, ClerkFits
<1>. QED  BY <1>2, <1>3, <1>4 DEF NewsInv

\* A notification that is sent is the first, and its delivery the only one.
LEMMA NewsTold ==
    ASSUME NewsInv, NEW r \in Requests, N!Tell(r)
    PROVE  NewsInv' /\ N!KeepsSilence
<1>1. Cardinality(Requests) \in Nat /\ 1 <= Cardinality(Requests)
  <2>1. IsFiniteSet(Requests)
    BY WorkspaceBounds
  <2>2. Cardinality(Requests) \in Nat /\ Cardinality(Requests) # 0
    BY <2>1, FS_CardinalityType, FS_EmptySet
  <2>. QED  BY <2>2
<1>2. /\ p2' \in [Requests -> N!ClerkRecords] /\ p2'[r] = N!NoClerk
      /\ \A q \in Requests : q # r => p2'[q] = p2[q] /\ p2[q].pc # "tell"
  BY NewsTyped DEF N!Tell, NewsInv
<1>3. /\ p1' = [p1 EXCEPT !.delivered = TRUE] /\ p1' \in N!Newsletters /\ p1'.delivered
      /\ p1'.exists = p1.exists /\ p1'.draft = p1.draft
  BY NewsTyped DEF N!Tell, N!Newsletters
<1>4. N!Due(p1) /\ ~p1.delivered /\ ~p1.archived
  BY DEF N!Tell, NewsInv, ClerkFits, N!Claimable, N!Due
<1>5. \A u \in Readers : p3[u] = 0
  BY <1>4 DEF NewsInv
<1>6. /\ p3' \in [Readers -> 0 .. Cardinality(Requests)]
      /\ \A u \in Readers : p3'[u] <= 1
  <2>1. CASE p3' = p3
    BY <2>1, <1>5, NewsTyped
  <2>2. CASE p3' = [u \in Readers |-> p3[u] + 1]
    BY <2>2, <1>5, <1>1
  <2>. QED  BY <2>1, <2>2 DEF N!Tell
<1>7. N!NewsTypeOK'
  BY <1>2, <1>3, <1>6, NewsTyped, NewsCounts DEF N!NewsTypeOK, N!Tell
<1>8. N!AnnouncementSafety'
  BY <1>3, <1>6 DEF NewsInv, N!AnnouncementSafety, N!EmailedByAdmins, N!ToldOnce
<1>9. \A q \in Requests : ClerkFits(p2[q])' /\ p2'[q].pc # "tell"
  BY <1>2, NewsTyped DEF NewsInv, ClerkFits
<1>10. NewsInv'
  BY <1>3, <1>7, <1>8, <1>9 DEF NewsInv
<1>. QED  BY <1>10, <1>4 DEF N!KeepsSilence, N!Tell

\* Users look at an announcement and mark it.
LEMMA NewsRead ==
    ASSUME NewsInv, NEW u \in Readers, N!LookAt(u) \/ N!MarkReceipt(u)
    PROVE  NewsInv' /\ N!KeepsSilence
<1>1. \A q \in Readers : p4[q] \in N!Receipts
  BY NewsTyped
<1>2. PICK c \in N!Receipts :
         /\ p4' = [p4 EXCEPT ![u] = c]
         /\ p4[u].acknowledged /\ p1.exists => c.acknowledged
  <2>1. CASE N!LookAt(u)
    <3>. DEFINE c == [p4[u] EXCEPT !.looking = TRUE]
    <3>1. c \in N!Receipts /\ c.acknowledged = p4[u].acknowledged
      BY <1>1 DEF N!Receipts
    <3>. QED  BY <2>1, <3>1 DEF N!LookAt
  <2>2. CASE N!MarkReceipt(u)
    <3>1. PICK dismissed, acknowledged \in BOOLEAN :
             p4' = [p4 EXCEPT ![u] = IF p1.exists
              THEN [looking |-> FALSE, dismissed |-> p4[u].dismissed \/ dismissed,
                    acknowledged |-> p4[u].acknowledged \/ acknowledged]
              ELSE N!NoReceipt]
      BY <2>2 DEF N!MarkReceipt, N!Marked
    <3>. DEFINE c == IF p1.exists
              THEN [looking |-> FALSE, dismissed |-> p4[u].dismissed \/ dismissed,
                    acknowledged |-> p4[u].acknowledged \/ acknowledged]
              ELSE N!NoReceipt
    <3>2. c \in N!Receipts /\ (p4[u].acknowledged /\ p1.exists => c.acknowledged)
      BY <1>1 DEF N!Receipts, N!NoReceipt
    <3>. QED  BY <3>1, <3>2
  <2>. QED  BY <2>1, <2>2
<1>3. UNCHANGED <<p1, p2, p3, p5, p6>>
  BY DEF N!LookAt, N!MarkReceipt
<1>4. p4' \in [Readers -> N!Receipts]
  BY <1>2, NewsTyped
<1>5. NewsInv'
  BY <1>3, <1>4 DEF NewsInv, N!NewsTypeOK, N!AnnouncementSafety, N!EmailedByAdmins,
                    N!ToldOnce, ClerkFits, N!Claimable, N!Due
<1>6. \A q \in Readers : p4[q].acknowledged /\ p1'.exists => p4'[q].acknowledged
  BY <1>2, <1>3, NewsTyped
<1>. QED  BY <1>3, <1>5, <1>6 DEF N!KeepsSilence

\* The clock goes on, and a draft's time comes.
LEMMA NewsTicks ==
    ASSUME NewsInv, N!NewsTick
    PROVE  NewsInv' /\ N!KeepsSilence
<1>1. /\ p5' = p5 + 1 /\ p5' \in 0 .. MaxNewsTime /\ p5 \in Nat
      /\ UNCHANGED <<p1, p2, p3, p4, p6>>
  BY NewsTyped, WorkspaceBounds DEF N!NewsTick
<1>2. N!Due(p1) => N!Due(p1)'
  <2>1. p1.draft.starts \in Nat
    BY NewsTyped, WorkspaceBounds DEF N!Drafts, N!Starts
  <2>. QED  BY <1>1, <2>1 DEF N!Due
<1>3. NewsInv'
  BY <1>1, <1>2 DEF NewsInv, N!NewsTypeOK, N!AnnouncementSafety, N!EmailedByAdmins,
                    N!ToldOnce, ClerkFits, N!Claimable
<1>. QED  BY <1>1, <1>3 DEF N!KeepsSilence

\* At the start nothing is announced.
LEMMA NewsStarts ==
    ASSUME N!NewsInit
    PROVE  NewsInv
<1>. IsFiniteSet(Requests) /\ MaxNewsTime \in Nat /\ MaxNewsEdits \in Nat
  BY WorkspaceBounds
<1>1. PICK d \in N!Drafts :
         /\ d.email => d.writer = "admin"
         /\ p1 = [exists |-> TRUE, published |-> FALSE, archived |-> FALSE,
                  delivered |-> FALSE, draft |-> d]
  BY DEF N!NewsInit
<1>2. p1 \in N!Newsletters /\ p1.draft = d /\ p1.exists
  BY <1>1 DEF N!Newsletters
<1>3. /\ p2 \in [Requests -> N!ClerkRecords]
      /\ \A r \in Requests : p2[r] = N!NoClerk /\ p2[r].pc = "idle"
  BY DEF N!NewsInit, N!ClerkRecords, N!NoClerk
<1>4. /\ p3 \in [Readers -> 0 .. Cardinality(Requests)]
      /\ \A u \in Readers : p3[u] = 0
  BY FS_CardinalityType DEF N!NewsInit
<1>5. p4 \in [Readers -> N!Receipts]
  BY DEF N!NewsInit, N!Receipts, N!NoReceipt
<1>6. N!NewsTypeOK
  BY <1>2, <1>3, <1>4, <1>5, NewsCounts DEF N!NewsTypeOK, N!NewsInit
<1>7. N!AnnouncementSafety
  BY <1>1, <1>2, <1>4 DEF N!AnnouncementSafety, N!EmailedByAdmins, N!ToldOnce
<1>. QED  BY <1>3, <1>4, <1>6, <1>7 DEF NewsInv, ClerkFits

\* A step of staff, of the job, of a user or of the clock.
LEMMA NewsMoves ==
    ASSUME NewsInv, N!NewsNext
    PROVE  NewsInv' /\ N!KeepsSilence
<1>. USE DEF N!Goes, N!Moves, N!RowUnlocked
<1>1. ASSUME NEW r \in Requests, N!AskEdit(r)
      PROVE  NewsInv' /\ N!KeepsSilence
  <2>1. PICK rank \in N!Ranks, d \in N!Drafts :
           /\ d.writer = rank /\ N!MayMail(rank, d) /\ p6 < MaxNewsEdits
           /\ N!Goes(r, [pc |-> "write", draft |-> d, rank |-> rank])
           /\ p6' = p6 + 1
    BY <1>1 DEF N!AskEdit
  <2>. DEFINE c == [pc |-> "write", draft |-> d, rank |-> rank]
  <2>2. c \in N!ClerkRecords /\ c.pc = "write" /\ ClerkFits(c)
    BY <2>1 DEF N!ClerkRecords, ClerkFits, N!MayMail
  <2>3. p6' \in 0 .. MaxNewsEdits
    BY <2>1, NewsTyped, WorkspaceBounds
  <2>. HIDE DEF c
  <2>4. NewsInv'
    BY <2>1, <2>2, <2>3, ClerkGoes DEF c
  <2>. QED  BY <2>1, <2>4 DEF N!KeepsSilence
<1>2. ASSUME NEW r \in Requests, NEW c \in N!ClerkRecords, N!Moves(r, c),
             c.pc \notin {"write", "tell"}
      PROVE  NewsInv' /\ N!KeepsSilence
  <2>1. ClerkFits(c) /\ p6' \in 0 .. MaxNewsEdits
    BY <1>2, NewsTyped DEF ClerkFits
  <2>2. NewsInv'
    BY <1>2, <2>1, ClerkGoes
  <2>. QED  BY <1>2, <2>2 DEF N!KeepsSilence
<1>3. ASSUME NEW r \in Requests, N!AskPublish(r)
      PROVE  NewsInv' /\ N!KeepsSilence
  <2>1. [pc |-> "publish", rank |-> "admin"] \in N!ClerkRecords
    BY DEF N!ClerkRecords, N!Ranks
  <2>. QED  BY <1>2, <1>3, <2>1 DEF N!AskPublish
<1>4. ASSUME NEW r \in Requests, N!AskDelete(r)
      PROVE  NewsInv' /\ N!KeepsSilence
  <2>1. PICK rank \in N!Ranks, pc \in {"archive", "delete"} :
           N!Moves(r, [pc |-> pc, rank |-> rank])
    BY <1>4 DEF N!AskDelete
  <2>. DEFINE c == [pc |-> pc, rank |-> rank]
  <2>2. c \in N!ClerkRecords /\ c.pc \notin {"write", "tell"}
    BY <2>1 DEF N!ClerkRecords
  <2>. QED  BY <1>2, <2>1, <2>2
<1>5. ASSUME NEW r \in Requests, NEW c \in N!ClerkRecords, NEW n \in N!Newsletters,
             N!RowUnlocked, p2' = [p2 EXCEPT ![r] = c], p1' = n,
             c.pc \in {"idle", "claim"}, n.delivered = p1.delivered,
             n.exists /\ n.draft.email => n.draft.writer = "admin",
             UNCHANGED <<p3, p5, p6>>,
             p4' = p4 \/ (~n.exists /\ p4' = [u \in Readers |-> N!NoReceipt])
      PROVE  NewsInv' /\ N!KeepsSilence
  <2>1. p4' \in [Readers -> N!Receipts]
    <3>1. N!NoReceipt \in N!Receipts
      BY DEF N!Receipts, N!NoReceipt
    <3>. QED  BY <1>5, <3>1, NewsTyped
  <2>2. NewsInv'
    BY <1>5, <2>1, ClerkWrites
  <2>. QED  BY <1>5, <2>2 DEF N!KeepsSilence
<1>6. p1.exists /\ p1.draft.email => p1.draft.writer = "admin"
  BY DEF NewsInv, N!AnnouncementSafety, N!EmailedByAdmins
<1>7. ASSUME NEW r \in Requests, N!Edit(r)
      PROVE  NewsInv' /\ N!KeepsSilence
  <2>1. p2[r].pc = "write" /\ p2[r].draft \in N!Drafts
    BY <1>7, NewsTyped DEF N!Edit, N!Writes, N!ClerkRecords, N!NoClerk
  <2>2. p2[r].draft.email => p2[r].draft.writer = "admin"
    BY <2>1 DEF NewsInv, ClerkFits
  <2>3. PICK n : n = IF p1.exists THEN [p1 EXCEPT !.draft = p2[r].draft] ELSE p1
    OBVIOUS
  <2>4. n \in N!Newsletters /\ n.delivered = p1.delivered
    BY <2>1, <2>3, NewsTyped DEF N!Newsletters
  <2>5. n.exists /\ n.draft.email => n.draft.writer = "admin"
    BY <1>6, <2>2, <2>3, NewsTyped DEF N!Newsletters
  <2>. QED  BY <1>5, <1>7, <2>3, <2>4, <2>5, NewsTyped DEF N!Edit, N!Writes, N!Done
<1>8. ASSUME NEW r \in Requests, N!Publish(r)
      PROVE  NewsInv' /\ N!KeepsSilence
  <2>1. PICK n : n = IF p1.exists THEN [p1 EXCEPT !.published = TRUE] ELSE p1
    OBVIOUS
  <2>2. /\ n \in N!Newsletters /\ n.delivered = p1.delivered
        /\ n.exists = p1.exists /\ n.draft = p1.draft
    BY <2>1, NewsTyped DEF N!Newsletters
  <2>3. PICK c : c = IF p1.exists /\ p1.draft.starts <= p5
                     THEN [pc |-> "claim"] ELSE N!NoClerk
    OBVIOUS
  <2>4. c \in N!ClerkRecords /\ c.pc \in {"idle", "claim"}
    BY <2>3, NewsTyped
  <2>. QED  BY <1>5, <1>6, <1>8, <2>1, <2>2, <2>3, <2>4 DEF N!Publish, N!Writes
<1>9. ASSUME NEW r \in Requests, N!Archive(r)
      PROVE  NewsInv' /\ N!KeepsSilence
  <2>1. PICK n : n = IF p1.exists THEN [p1 EXCEPT !.archived = TRUE] ELSE p1
    OBVIOUS
  <2>2. /\ n \in N!Newsletters /\ n.delivered = p1.delivered
        /\ n.exists = p1.exists /\ n.draft = p1.draft
    BY <2>1, NewsTyped DEF N!Newsletters
  <2>. QED  BY <1>5, <1>6, <1>9, <2>1, <2>2, NewsTyped DEF N!Archive, N!Writes, N!Done
<1>10. ASSUME NEW r \in Requests, N!Delete(r)
       PROVE  NewsInv' /\ N!KeepsSilence
  <2>1. PICK n : n = IF p1.exists THEN [p1 EXCEPT !.exists = FALSE] ELSE p1
    OBVIOUS
  <2>2. n \in N!Newsletters /\ n.delivered = p1.delivered /\ ~n.exists
    BY <2>1, NewsTyped DEF N!Newsletters
  <2>. QED  BY <1>5, <1>10, <2>1, <2>2, NewsTyped DEF N!Delete, N!Writes, N!Done
<1>11. ASSUME NEW r \in Requests, N!FindDue(r) \/ N!FailDelivery(r)
       PROVE  NewsInv' /\ N!KeepsSilence
  BY <1>2, <1>11, NewsTyped DEF N!FindDue, N!FailDelivery
<1>12. ASSUME NEW r \in Requests, N!ClaimDelivery(r)
       PROVE  NewsInv' /\ N!KeepsSilence
  <2>1. CASE ~N!Claimable(p1)
    BY <1>2, <1>12, <2>1, NewsTyped DEF N!ClaimDelivery
  <2>2. CASE N!Claimable(p1)
    <3>1. PICK c : c = [pc |-> "tell"]
      OBVIOUS
    <3>2. c \in N!ClerkRecords /\ c.pc = "tell" /\ ClerkFits(c)
      BY <2>2, <3>1, NewsTyped DEF ClerkFits
    <3>3. NewsInv'
      BY <1>12, <2>2, <3>1, <3>2, NewsTyped, ClerkGoes DEF N!ClaimDelivery
    <3>. QED  BY <1>12, <3>3 DEF N!KeepsSilence, N!ClaimDelivery
  <2>. QED  BY <2>1, <2>2
<1>. QED
  BY <1>1, <1>3, <1>4, <1>7, <1>8, <1>9, <1>10, <1>11, <1>12, NewsTold, NewsRead,
     NewsTicks DEF N!NewsNext

-----------------------------------------------------------------------------
(* Support requests: p1 is the row of each ticket, p2 what the user and     *)
(* staff do, p3 the tickets whose reply was never shown, p4 those excused,  *)
(* p5 when each was last turned, p6 the clock.                              *)

\* What is done is about a ticket there is, and what is added to it was found
\* open under its lock.
HelperFits(h) ==
    /\ h.pc \in {"lock", "add", "assign", "mark", "show"} => H!Exists(h.on)
    /\ h.pc = "add" => h.msg.internal \/ p1[h.on].status # "closed"

\* A resolved ticket knows since when, and when it was last turned.
TicketFits(t) ==
    p1[t].status = "resolved" =>
       p1[t].resolved # H!Never /\ p5[t] <= H!Latest(p1[t])

\* A ticket is locked by who adds to it.
HelpInv ==
    /\ H!SupportTypeOK /\ H!UnseenIsUnread
    /\ \A t \in Tickets : TicketFits(t) /\ (t \in p3 => H!Exists(t))
    /\ \A r \in Requests : HelperFits(p2[r])
    /\ \A q, r \in Requests :
          p2[q].pc = "add" /\ p2[r].pc = "add" /\ p2[q].on = p2[r].on => q = r

\* The types, one by one.
LEMMA HelpTyped ==
    ASSUME H!SupportTypeOK
    PROVE  /\ p1 \in [Tickets -> H!TicketRows] /\ p2 \in [Requests -> H!HelperRecords]
           /\ \A t \in Tickets : p1[t] \in H!TicketRows
           /\ \A r \in Requests : p2[r] \in H!HelperRecords
           /\ p3 \subseteq Tickets /\ p4 \subseteq Tickets
           /\ p5 \in [Tickets -> H!SupportTimes]
           /\ p6 \in 0 .. MaxSupportTime /\ p6 \in H!SupportTimes /\ p6 # H!Never
           /\ H!NoHelp \in H!HelperRecords /\ H!NoHelp.pc = "idle"
<1>1. /\ p1 \in [Tickets -> H!TicketRows] /\ p2 \in [Requests -> H!HelperRecords]
      /\ p3 \subseteq Tickets /\ p4 \subseteq Tickets
      /\ p5 \in [Tickets -> H!SupportTimes] /\ p6 \in 0 .. MaxSupportTime
  BY DEF H!SupportTypeOK
<1>2. p6 \in H!SupportTimes /\ p6 # H!Never
  BY <1>1, WorkspaceBounds DEF H!SupportTimes, H!Never
<1>3. H!NoHelp \in H!HelperRecords /\ H!NoHelp.pc = "idle"
  BY DEF H!NoHelp, H!HelperRecords
<1>. QED  BY <1>1, <1>2, <1>3

\* The fields of a row and of a request.
LEMMA RowFields ==
    ASSUME NEW row \in H!TicketRows
    PROVE  /\ row.status \in H!Statuses \cup {"none"} /\ row.unread \in BOOLEAN
           /\ row.assignee \in Staff \cup {Nobody}
           /\ row.resolved \in H!SupportTimes /\ row.last \in H!SupportTimes
           /\ row.messages \in 0 .. MaxMessages
BY DEF H!TicketRows

\* What a request of staff or of a user holds.
LEMMA HelperFields ==
    ASSUME NEW h \in H!HelperRecords
    PROVE  /\ h.pc \in {"lock", "add", "assign", "mark", "show"} => h.on \in Tickets
           /\ h.pc \in {"lock", "add"} => h.msg \in H!Messages
           /\ h.pc = "assign" => h.to \in Staff
BY DEF H!HelperRecords

\* A ticket moved to a status keeps the rest, but for when it was resolved.
LEMMA MovedRow ==
    ASSUME H!SupportTypeOK, NEW row \in H!TicketRows,
           NEW status \in H!Statuses \cup {"kept"},
           row.status = "resolved" => row.resolved # H!Never
    PROVE  /\ H!Moved(row, status) \in H!TicketRows
           /\ H!Moved(row, status).unread = row.unread
           /\ H!Moved(row, status).last = row.last
           /\ H!Moved(row, status).messages = row.messages
           /\ H!Moved(row, status).status = IF status = "kept" THEN row.status ELSE status
           /\ H!Moved(row, status).status = "resolved" =>
                 IF row.status = "resolved"
                 THEN H!Moved(row, status).resolved = row.resolved
                 ELSE H!Moved(row, status).resolved = p6
<1>1. CASE status = "kept"
  BY <1>1 DEF H!Moved
<1>2. CASE status # "kept"
  <2>1. PICK n : n = H!Resolved(row, status)
    OBVIOUS
  <2>2. /\ n \in H!SupportTimes
        /\ status = "resolved" =>
              IF row.status = "resolved" THEN n = row.resolved ELSE n = p6
    <3>1. n \in {row.resolved, p6, H!Never}
      BY <1>2, <2>1, RowFields DEF H!Resolved, H!Statuses, H!Active
    <3>2. H!Never \in H!SupportTimes
      BY DEF H!SupportTimes
    <3>3. status = "resolved" =>
              IF row.status = "resolved" THEN n = row.resolved ELSE n = p6
      <4>1. CASE status = "resolved" /\ row.status = "resolved"
        BY <2>1, <4>1 DEF H!Resolved
      <4>2. CASE status = "resolved" /\ row.status # "resolved"
        BY <2>1, <4>2 DEF H!Resolved
      <4>. QED  BY <4>1, <4>2
    <3>. QED  BY <3>1, <3>2, <3>3, RowFields, HelpTyped
  <2>3. H!Moved(row, status) = [row EXCEPT !.resolved = n, !.status = status]
    BY <1>2, <2>1 DEF H!Moved
  <2>. QED  BY <1>2, <2>2, <2>3 DEF H!TicketRows
<1>. QED  BY <1>1, <1>2

\* What the job closes was resolved, and turned, long enough ago.
LEMMA ClosesLate ==
    ASSUME HelpInv
    PROVE  \A t \in Tickets : H!CloseStale(t) => p5[t] < p6 - CloseAfter
<1>1. SUFFICES ASSUME NEW t \in Tickets, H!CloseStale(t)
               PROVE  p5[t] < p6 - CloseAfter
  OBVIOUS
<1>2. p5[t] <= H!Latest(p1[t]) /\ H!Latest(p1[t]) < p6 - CloseAfter
  BY <1>1 DEF HelpInv, TicketFits, H!CloseStale
<1>3. p5[t] \in Int /\ H!Latest(p1[t]) \in Int /\ p6 \in Int /\ CloseAfter \in Int
  <2>1. H!SupportTimes \subseteq Int
    BY WorkspaceBounds DEF H!SupportTimes, H!Never
  <2>2. p1[t].resolved \in Int /\ p1[t].last \in Int
    BY <2>1, HelpTyped, RowFields DEF HelpInv
  <2>3. p5[t] \in Int /\ p6 \in Int /\ CloseAfter \in Int
    <3>1. H!SupportTypeOK
      BY DEF HelpInv
    <3>2. p5[t] \in H!SupportTimes /\ p6 \in H!SupportTimes
      BY <3>1, HelpTyped
    <3>3. CloseAfter \in Int
      BY WorkspaceBounds
    <3>. QED  BY <2>1, <3>2, <3>3
  <2>. QED  BY <2>2, <2>3 DEF H!Latest
<1>. QED  BY <1>2, <1>3

\* A request goes on, and no ticket is written.
LEMMA HelpGoes ==
    ASSUME HelpInv, NEW r \in Requests, NEW h \in H!HelperRecords, H!Goes(r, h),
           HelperFits(h), p2[r].pc # "show",
           h.pc = "add" => H!Unlocked(h.on)
    PROVE  HelpInv' /\ H!KeepsTickets
<1>1. /\ p2' \in [Requests -> H!HelperRecords] /\ p2'[r] = h
      /\ \A q \in Requests : q # r => p2'[q] = p2[q]
      /\ UNCHANGED <<p1, p3, p4, p5, p6>>
  BY HelpTyped DEF HelpInv, H!Goes
<1>2. H!SupportTypeOK'
  BY <1>1 DEF HelpInv, H!SupportTypeOK
<1>3. H!UnseenIsUnread'
  BY <1>1, HelpTyped DEF HelpInv, H!UnseenIsUnread
<1>4. \A t \in Tickets : TicketFits(t)' /\ (t \in p3' => H!Exists(t)')
  BY <1>1 DEF HelpInv, TicketFits, H!Latest, H!Exists
<1>5. ASSUME NEW q \in Requests
      PROVE  HelperFits(p2[q])'
  BY <1>1 DEF HelpInv, HelperFits, H!Exists
<1>6. (\A q, s \in Requests :
          p2[q].pc = "add" /\ p2[s].pc = "add" /\ p2[q].on = p2[s].on => q = s)'
  BY <1>1 DEF HelpInv, H!Unlocked
<1>7. HelpInv'
  BY <1>2, <1>3, <1>4, <1>5, <1>6 DEF HelpInv
<1>. QED  BY <1>1, <1>7, ClosesLate DEF H!KeepsTickets

\* A statement writes the row of a ticket nobody adds to, whose unread mark and
\* public messages stay.
LEMMA HelpWrites ==
    ASSUME HelpInv, NEW t \in Tickets, NEW row \in H!TicketRows,
           H!Exists(t), H!Unlocked(t), p1' = [p1 EXCEPT ![t] = row],
           row.status # "none", row.messages = p1[t].messages,
           \/ row.unread = p1[t].unread
           \/ \E r \in Requests : p2'[r].pc = "show" /\ p2'[r].on = t,
           p5' \in [Tickets -> H!SupportTimes], \A s \in Tickets \ {t} : p5'[s] = p5[s],
           row.status = "resolved" =>
              row.resolved # H!Never /\ p5'[t] <= H!Latest(row),
           \/ p2' = p2
           \/ \E r \in Requests, h \in H!HelperRecords :
                 /\ p2' = [p2 EXCEPT ![r] = h] /\ h.pc \in {"idle", "show"}
                 /\ h.pc = "show" => h.on = t
                 /\ p2[r].pc # "show",
           UNCHANGED <<p3, p4, p6>>
    PROVE  HelpInv' /\ \A s \in Tickets : p1'[s].messages = p1[s].messages
<1>1. /\ p1' \in [Tickets -> H!TicketRows] /\ p1'[t] = row
      /\ \A s \in Tickets : s # t => p1'[s] = p1[s]
  BY HelpTyped DEF HelpInv
<1>2. /\ p2' \in [Requests -> H!HelperRecords]
      /\ \A r \in Requests :
            \/ p2'[r] = p2[r]
            \/ p2[r].pc # "show" /\ p2'[r].pc \in {"idle", "show"}
               /\ (p2'[r].pc = "show" => p2'[r].on = t)
  BY HelpTyped DEF HelpInv
<1>3. H!SupportTypeOK'
  BY <1>1, <1>2 DEF HelpInv, H!SupportTypeOK
<1>4. H!UnseenIsUnread'
  <2>1. SUFFICES ASSUME NEW s \in p3 \ p4
                 PROVE  \/ p1'[s].unread
                        \/ \E r \in Requests : p2'[r].pc = "show" /\ p2'[r].on = s
    BY DEF H!UnseenIsUnread
  <2>2. s \in Tickets
    BY <2>1, HelpTyped DEF HelpInv
  <2>3. CASE \E r \in Requests : p2[r].pc = "show" /\ p2[r].on = s
    BY <1>2, <2>3
  <2>4. CASE p1[s].unread
    BY <1>1, <2>2, <2>4
  <2>. QED  BY <2>1, <2>3, <2>4 DEF HelpInv, H!UnseenIsUnread
<1>5. \A s \in Tickets : H!Exists(s) => H!Exists(s)'
  BY <1>1 DEF H!Exists
<1>6. ASSUME NEW s \in Tickets
      PROVE  TicketFits(s)' /\ (s \in p3' => H!Exists(s)')
  BY <1>1, <1>5 DEF HelpInv, TicketFits, H!Latest
<1>7. ASSUME NEW q \in Requests
      PROVE  HelperFits(p2[q])'
  <2>1. CASE p2'[q] = p2[q] /\ p2[q].pc = "add"
    BY <1>1, <1>5, <2>1, HelperFields, HelpTyped DEF HelpInv, HelperFits, H!Unlocked
  <2>2. CASE p2'[q] = p2[q] /\ p2[q].pc # "add"
    BY <1>5, <2>2, HelperFields, HelpTyped DEF HelpInv, HelperFits
  <2>3. CASE p2'[q].pc \in {"idle", "show"} /\ (p2'[q].pc = "show" => p2'[q].on = t)
    BY <1>5, <2>3 DEF HelperFits
  <2>. QED  BY <1>2, <2>1, <2>2, <2>3
<1>8. (\A q, s \in Requests :
          p2[q].pc = "add" /\ p2[s].pc = "add" /\ p2[q].on = p2[s].on => q = s)'
  BY <1>2 DEF HelpInv
<1>9. HelpInv'
  BY <1>3, <1>4, <1>6, <1>7, <1>8 DEF HelpInv
<1>. QED  BY <1>1, <1>9

\* When a ticket that is moved was last turned.
LEMMA TurnedMoved ==
    ASSUME HelpInv, NEW t \in Tickets, NEW status \in H!Statuses \cup {"kept"},
           NEW row, row = H!Moved(p1[t], status)
    PROVE  /\ H!Turns(t, status) \in [Tickets -> H!SupportTimes]
           /\ \A s \in Tickets \ {t} : H!Turns(t, status)[s] = p5[s]
           /\ row.status = "resolved" =>
                 row.resolved # H!Never /\ H!Turns(t, status)[t] <= H!Latest(row)
<1>1. H!SupportTypeOK /\ p1[t] \in H!TicketRows /\ TicketFits(t)
  BY HelpTyped DEF HelpInv
<1>2. p1[t].status = "resolved" =>
         p1[t].resolved # H!Never /\ p5[t] <= H!Latest(p1[t])
  BY <1>1 DEF TicketFits
<1>3. H!Turns(t, status) = p5 \/ H!Turns(t, status) = [p5 EXCEPT ![t] = p6]
  BY DEF H!Turns
<1>4. /\ H!Turns(t, status) \in [Tickets -> H!SupportTimes]
      /\ \A s \in Tickets \ {t} : H!Turns(t, status)[s] = p5[s]
  BY <1>1, <1>3, HelpTyped
<1>5. ASSUME row.status = "resolved"
      PROVE  row.resolved # H!Never /\ H!Turns(t, status)[t] <= H!Latest(row)
  <2>1. /\ row.last = p1[t].last /\ row.last \in Int /\ row.resolved \in Int
        /\ p6 \in Int /\ p6 # H!Never
    <3>1. row \in H!TicketRows /\ row.last = p1[t].last
      BY <1>1, <1>2, MovedRow
    <3>2. H!SupportTimes \subseteq Int
      BY WorkspaceBounds DEF H!SupportTimes, H!Never
    <3>. QED  BY <1>1, <3>1, <3>2, RowFields, HelpTyped
  <2>2. CASE p1[t].status = "resolved"
    <3>1. row.resolved = p1[t].resolved
      BY <1>1, <1>2, <1>5, <2>2, MovedRow
    <3>2. H!Turns(t, status) = p5
      BY <2>2 DEF H!Turns
    <3>. QED  BY <1>2, <2>1, <2>2, <3>1, <3>2 DEF H!Latest
  <2>3. CASE p1[t].status # "resolved"
    <3>1. row.resolved = p6 /\ status = "resolved"
      BY <1>1, <1>2, <1>5, <2>3, MovedRow
    <3>2. H!Turns(t, status)[t] = p6
      BY <1>1, <2>3, <3>1, HelpTyped DEF H!Turns
    <3>. QED  BY <2>1, <3>1, <3>2 DEF H!Latest
  <2>. QED  BY <2>2, <2>3
<1>. QED  BY <1>4, <1>5

\* At the start there are no tickets.
LEMMA HelpStarts ==
    ASSUME H!SupportInit
    PROVE  HelpInv
<1>. MaxSupportTime \in Nat /\ MaxMessages \in Nat \ {0}
  BY WorkspaceBounds
<1>1. H!NoTicket \in H!TicketRows /\ H!NoTicket.status = "none"
  BY DEF H!NoTicket, H!TicketRows, H!SupportTimes
<1>2. H!NoHelp \in H!HelperRecords /\ H!NoHelp.pc = "idle"
  BY DEF H!NoHelp, H!HelperRecords
<1>3. p5 \in [Tickets -> H!SupportTimes]
  BY DEF H!SupportInit, H!SupportTimes
<1>4. H!SupportTypeOK
  BY <1>1, <1>2, <1>3 DEF H!SupportInit, H!SupportTypeOK
<1>. QED
  BY <1>1, <1>2, <1>4 DEF H!SupportInit, HelpInv, H!UnseenIsUnread, TicketFits, HelperFits

\* A request is opened.
LEMMA HelpOpens ==
    ASSUME HelpInv, NEW r \in Requests, NEW t \in Tickets, H!CreateTicket(r, t)
    PROVE  HelpInv' /\ H!KeepsTickets
<1>1. PICK row : row = [H!NoTicket EXCEPT !.status = "open", !.last = p6, !.messages = 1]
  OBVIOUS
<1>2. /\ row \in H!TicketRows /\ row.status = "open" /\ ~H!Exists(t)
  <2>1. H!NoTicket \in H!TicketRows
    BY WorkspaceBounds DEF H!NoTicket, H!TicketRows, H!SupportTimes
  <2>2. 1 \in 0 .. MaxMessages
    BY WorkspaceBounds
  <2>. QED  BY <1>1, <2>1, <2>2, HelpTyped
            DEF HelpInv, H!TicketRows, H!CreateTicket, H!Statuses, H!Active
<1>3. /\ p1' \in [Tickets -> H!TicketRows] /\ p1'[t] = row
      /\ \A s \in Tickets : s # t => p1'[s] = p1[s]
  BY <1>1, <1>2, HelpTyped DEF HelpInv, H!CreateTicket
<1>4. /\ p2' \in [Requests -> H!HelperRecords] /\ p2'[r].pc = "idle"
      /\ \A q \in Requests : q # r => p2'[q] = p2[q]
  BY HelpTyped DEF HelpInv, H!CreateTicket
<1>5. /\ p5' \in [Tickets -> H!SupportTimes]
      /\ \A s \in Tickets : s # t => p5'[s] = p5[s]
      /\ UNCHANGED <<p3, p4, p6>> /\ p2[r].pc = "create"
  BY HelpTyped DEF HelpInv, H!CreateTicket
<1>6. H!SupportTypeOK'
  BY <1>3, <1>4, <1>5 DEF HelpInv, H!SupportTypeOK
<1>7. t \notin p3
  BY <1>2 DEF HelpInv
<1>8. H!UnseenIsUnread'
  BY <1>3, <1>4, <1>5, <1>7, HelpTyped DEF HelpInv, H!UnseenIsUnread
<1>9. \A s \in Tickets : H!Exists(s) => H!Exists(s)' /\ p1'[s] = p1[s]
  BY <1>2, <1>3 DEF H!Exists
<1>10. ASSUME NEW s \in Tickets
       PROVE  TicketFits(s)' /\ (s \in p3' => H!Exists(s)')
  BY <1>2, <1>3, <1>5, <1>9 DEF HelpInv, TicketFits, H!Latest
<1>11. ASSUME NEW q \in Requests
       PROVE  HelperFits(p2[q])'
  BY <1>4, <1>9, HelperFields, HelpTyped DEF HelpInv, HelperFits
<1>12. (\A q, s \in Requests :
           p2[q].pc = "add" /\ p2[s].pc = "add" /\ p2[q].on = p2[s].on => q = s)'
  BY <1>4 DEF HelpInv
<1>13. HelpInv'
  BY <1>6, <1>8, <1>10, <1>11, <1>12 DEF HelpInv
<1>14. \A s \in Tickets : p1[s].status = "closed" => p1'[s] = p1[s]
  BY <1>2, <1>9 DEF H!Exists
<1>. QED  BY <1>13, <1>14, ClosesLate DEF H!KeepsTickets

\* A message is added.
LEMMA HelpAdds ==
    ASSUME HelpInv, NEW r \in Requests, H!AddMessage(r)
    PROVE  HelpInv' /\ H!KeepsTickets
<1>1. PICK h \in H!HelperRecords : h = p2[r]
  BY HelpTyped DEF HelpInv
<1>2. PICK t \in Tickets : t = h.on
  BY <1>1, HelperFields DEF H!AddMessage
<1>3. PICK m \in H!Messages : m = h.msg
  BY <1>1, HelperFields DEF H!AddMessage
<1>4. PICK public \in BOOLEAN : public = (~m.internal /\ p1[t].messages < MaxMessages)
  BY Zenon
<1>5. PICK byStaff \in BOOLEAN : byStaff = (m.from # Nobody)
  BY Zenon
<1>6. PICK row :
         /\ row = IF public
                  THEN [p1[t] EXCEPT !.messages = @ + 1, !.last = p6, !.unread = byStaff]
                  ELSE p1[t]
  OBVIOUS
<1>0. p2[r].pc = "add" /\ h.pc = "add" /\ p6' = p6
  BY <1>1 DEF H!AddMessage
<1>7. /\ m.internal \/ public
      /\ p1' = [p1 EXCEPT ![t] = H!Moved(row, m.status)]
      /\ p5' = IF public THEN [p5 EXCEPT ![t] = p6] ELSE H!Turns(t, m.status)
      /\ p3' = IF public /\ byStaff THEN p3 \cup {t} ELSE p3
      /\ p4' = CASE public /\ byStaff -> p4 \ {t}
                 [] public /\ ~byStaff /\ t \in p3 -> p4 \cup {t}
                 [] OTHER -> p4
      /\ p2' = [p2 EXCEPT ![r] = IF public /\ byStaff /\ m.free
                  THEN [pc |-> "assign", on |-> t, to |-> m.from] ELSE H!NoHelp]
  BY <1>1, <1>2, <1>3, <1>4, <1>5, <1>6 DEF H!AddMessage
<1>8. H!SupportTypeOK /\ p1[t] \in H!TicketRows /\ p1[t].status # "none"
      /\ (~m.internal => p1[t].status # "closed")
      /\ (p1[t].status = "resolved" => p1[t].resolved # H!Never)
      /\ m.status \in H!Statuses \cup {"kept"} /\ m.from \in Staff \cup {Nobody}
  <2>1. HelperFits(h) /\ TicketFits(t)
    BY <1>1 DEF HelpInv
  <2>2. m.status \in H!Statuses \cup {"kept"} /\ m.from \in Staff \cup {Nobody}
    BY DEF H!Messages
  <2>3. p1[t].status # "none" /\ (~m.internal => p1[t].status # "closed")
    BY <1>0, <1>2, <1>3, <2>1 DEF HelperFits, H!Exists
  <2>4. p1[t].status = "resolved" => p1[t].resolved # H!Never
    BY <2>1 DEF TicketFits
  <2>. QED  BY <2>2, <2>3, <2>4, HelpTyped DEF HelpInv
<1>9. /\ row \in H!TicketRows /\ row.status = p1[t].status
      /\ row.resolved = p1[t].resolved
      /\ public => row.unread = byStaff /\ row.last = p6
      /\ ~public => row = p1[t]
  <2>1. p1[t].messages \in 0 .. MaxMessages
    BY <1>8, RowFields
  <2>2. public => p1[t].messages + 1 \in 0 .. MaxMessages
    <3>1. ASSUME p1[t].messages < MaxMessages
          PROVE  p1[t].messages + 1 \in 0 .. MaxMessages
      BY <2>1, <3>1, WorkspaceBounds
    <3>. QED  BY <1>4, <3>1
  <2>. QED  BY <1>6, <1>8, <2>2, HelpTyped DEF H!TicketRows
<1>10. PICK new \in H!TicketRows :
          /\ new = H!Moved(row, m.status) /\ new.unread = row.unread
          /\ new.last = row.last /\ new.messages = row.messages /\ new.status # "none"
          /\ new.status = "resolved" => new.resolved \in {p1[t].resolved, p6}
                                        /\ new.resolved # H!Never
  <2>1. H!Moved(row, m.status).status # "none"
    BY <1>8, <1>9, MovedRow DEF H!Statuses, H!Active
  <2>2. row.status = "resolved" => row.resolved # H!Never
    BY <1>8, <1>9
  <2>3. H!Moved(row, m.status).status = "resolved" =>
           H!Moved(row, m.status).resolved \in {p1[t].resolved, p6}
           /\ H!Moved(row, m.status).resolved # H!Never
    BY <1>8, <1>9, <2>2, MovedRow, HelpTyped
  <2>. QED  BY <1>8, <1>9, <2>1, <2>2, <2>3, MovedRow
<1>11. /\ p1' \in [Tickets -> H!TicketRows] /\ p1'[t] = new
       /\ \A s \in Tickets : s # t => p1'[s] = p1[s]
  BY <1>7, <1>8, <1>10, HelpTyped
<1>12. /\ p2' \in [Requests -> H!HelperRecords]
       /\ p2'[r].pc \in {"assign", "idle"} /\ (p2'[r].pc = "assign" => p2'[r].on = t)
       /\ \A q \in Requests : q # r => p2'[q] = p2[q]
  <2>1. PICK g : g = IF public /\ byStaff /\ m.free
                     THEN [pc |-> "assign", on |-> t, to |-> m.from] ELSE H!NoHelp
    OBVIOUS
  <2>2. g \in H!HelperRecords /\ g.pc \in {"assign", "idle"}
        /\ (g.pc = "assign" => g.on = t)
    <3>1. byStaff => m.from \in Staff
      BY <1>5, <1>8
    <3>. QED  BY <2>1, <3>1, <1>8, HelpTyped DEF H!HelperRecords
  <2>. QED  BY <1>7, <1>8, <2>1, <2>2, HelpTyped
<1>13. /\ p5' \in [Tickets -> H!SupportTimes]
       /\ \A s \in Tickets : s # t => p5'[s] = p5[s]
       /\ public => p5'[t] = p6
       /\ ~public => p5' = H!Turns(t, m.status)
  BY <1>7, <1>8, HelpTyped, TurnedMoved
<1>14. p3' \subseteq Tickets /\ p4' \subseteq Tickets
       /\ (public /\ byStaff => p3' = p3 \cup {t} /\ p4' = p4 \ {t})
       /\ (public /\ ~byStaff => p3' = p3 /\ p4 \subseteq p4' /\ (t \in p3 => t \in p4'))
       /\ (~public => p3' = p3 /\ p4' = p4)
  BY <1>7, <1>8, HelpTyped
<1>15. H!SupportTypeOK'
  BY <1>0, <1>8, <1>11, <1>12, <1>13, <1>14 DEF H!SupportTypeOK
<1>16. H!UnseenIsUnread'
  <2>1. SUFFICES ASSUME NEW s \in p3' \ p4'
                 PROVE  \/ p1'[s].unread
                        \/ \E q \in Requests : p2'[q].pc = "show" /\ p2'[q].on = s
    BY DEF H!UnseenIsUnread
  <2>2. s \in Tickets
    BY <1>14
  <2>3. ASSUME s \in p3 \ p4, p1'[s].unread = p1[s].unread
        PROVE  \/ p1'[s].unread
               \/ \E q \in Requests : p2'[q].pc = "show" /\ p2'[q].on = s
    <3>1. CASE p1[s].unread
      BY <2>3, <3>1
    <3>2. CASE \E q \in Requests : p2[q].pc = "show" /\ p2[q].on = s
      BY <1>0, <1>12, <3>2
    <3>. QED  BY <2>3, <3>1, <3>2 DEF HelpInv, H!UnseenIsUnread
  <2>4. CASE s # t
    BY <1>11, <1>14, <2>1, <2>2, <2>3, <2>4
  <2>5. CASE s = t /\ ~public
    BY <1>9, <1>10, <1>11, <1>14, <2>1, <2>3, <2>5
  <2>6. CASE s = t /\ public
    BY <1>9, <1>10, <1>11, <1>14, <2>1, <2>6
  <2>. QED  BY <2>4, <2>5, <2>6
<1>17. \A s \in Tickets : (H!Exists(s)' /\ s = t) \/ (p1'[s] = p1[s] /\ s # t)
  BY <1>10, <1>11 DEF H!Exists
<1>18. ASSUME NEW s \in Tickets
       PROVE  TicketFits(s)' /\ (s \in p3' => H!Exists(s)')
  <2>1. CASE s # t
    BY <1>11, <1>13, <1>14, <2>1 DEF HelpInv, TicketFits, H!Latest, H!Exists
  <2>2. CASE s = t /\ public
    <3>1. new.last = p6 /\ new.resolved \in Int /\ p6 \in Int
      <4>1. H!SupportTimes \subseteq Int
        BY WorkspaceBounds DEF H!SupportTimes, H!Never
      <4>. QED  BY <1>8, <1>9, <1>10, <2>2, <4>1, RowFields, HelpTyped
    <3>2. p6 <= H!Latest(new)
      BY <3>1 DEF H!Latest
    <3>. QED  BY <1>10, <1>11, <1>13, <1>17, <2>2, <3>2 DEF TicketFits, H!Latest
  <2>3. CASE s = t /\ ~public
    <3>1. new = H!Moved(p1[t], m.status)
      BY <1>9, <1>10, <2>3
    <3>2. new.status = "resolved" =>
             new.resolved # H!Never /\ H!Turns(t, m.status)[t] <= H!Latest(new)
      BY <1>8, <3>1, TurnedMoved
    <3>. QED  BY <1>11, <1>13, <1>17, <2>3, <3>2 DEF TicketFits, H!Latest
  <2>. QED  BY <2>1, <2>2, <2>3
<1>19. \A q \in Requests : q # r => ~(p2[q].pc = "add" /\ p2[q].on = t)
  BY <1>0, <1>1, <1>2 DEF HelpInv
<1>20. ASSUME NEW q \in Requests
       PROVE  HelperFits(p2[q])'
  <2>1. CASE q = r
    BY <1>12, <1>17, <2>1 DEF HelperFits
  <2>2. CASE q # r
    <3>1. p2'[q] = p2[q] /\ p2[q] \in H!HelperRecords /\ HelperFits(p2[q])
      BY <1>8, <1>12, <2>2, HelpTyped DEF HelpInv
    <3>2. \A s \in Tickets : H!Exists(s) => H!Exists(s)'
      BY <1>17 DEF H!Exists
    <3>. QED  BY <1>17, <1>19, <2>2, <3>1, <3>2, HelperFields DEF HelperFits
  <2>. QED  BY <2>1, <2>2
<1>21. (\A q, s \in Requests :
           p2[q].pc = "add" /\ p2[s].pc = "add" /\ p2[q].on = p2[s].on => q = s)'
  BY <1>12 DEF HelpInv
<1>22. HelpInv'
  BY <1>15, <1>16, <1>18, <1>20, <1>21 DEF HelpInv
<1>23. ASSUME NEW s \in Tickets, p1[s].status = "closed"
       PROVE  p1'[s].messages = p1[s].messages
  BY <1>4, <1>8, <1>9, <1>10, <1>11, <1>23
<1>. QED  BY <1>22, <1>23, ClosesLate DEF H!KeepsTickets

\* Tickets are as they were: a page is shown or lost, or time passes.
LEMMA HelpShows ==
    ASSUME HelpInv,
           \/ H!SupportTick
           \/ \E r \in Requests : H!ShowMessages(r) \/ H!LosePage(r)
    PROVE  HelpInv' /\ H!KeepsTickets
<1>1. UNCHANGED <<p1, p5>>
  BY DEF H!SupportTick, H!ShowMessages, H!LosePage
<1>. DEFINE Shown ==
              /\ p2' \in [Requests -> H!HelperRecords]
              /\ \A r \in Requests : p2'[r] = p2[r] \/ p2'[r].pc = "idle"
              /\ p3' \subseteq p3 /\ p4' \subseteq Tickets
              /\ \A t \in p3' \ p4' : t \notin p4
              /\ \A r \in Requests : p2[r].pc = "show" /\ p2[r].on \in p3' \ p4'
                    => p2'[r] = p2[r]
              /\ p6' \in 0 .. MaxSupportTime
<1>2. Shown
  <2>1. CASE H!SupportTick
    BY <2>1, HelpTyped, WorkspaceBounds DEF HelpInv, H!SupportTick
  <2>2. ASSUME NEW r \in Requests, H!ShowMessages(r) \/ H!LosePage(r)
        PROVE  Shown
    <3>1. p2[r].pc = "show" /\ p2[r].on \in Tickets
      BY <2>2, HelperFields, HelpTyped DEF HelpInv, H!ShowMessages, H!LosePage
    <3>2. p2' = [p2 EXCEPT ![r] = H!NoHelp]
      BY <2>2, <3>1 DEF H!ShowMessages, H!LosePage, H!Step, H!Loading
    <3>3. /\ p2' \in [Requests -> H!HelperRecords] /\ p2'[r].pc = "idle"
          /\ \A q \in Requests : q # r => p2'[q] = p2[q]
      BY <3>2, HelpTyped DEF HelpInv
    <3>4. /\ p3' \subseteq p3 /\ p4' \subseteq Tickets /\ p6' = p6
          /\ \A t \in p3' \ p4' : t \notin p4 \/ t = p2[r].on
          /\ p2[r].on \notin p3' \ p4'
      BY <2>2, <3>1, HelpTyped DEF HelpInv, H!ShowMessages, H!LosePage
    <3>. QED  BY <3>3, <3>4, HelpTyped DEF HelpInv
  <2>. QED  BY <2>1, <2>2
<1>3. H!SupportTypeOK'
  BY <1>1, <1>2, HelpTyped DEF HelpInv, H!SupportTypeOK
<1>4. H!UnseenIsUnread'
  BY <1>1, <1>2 DEF HelpInv, H!UnseenIsUnread
<1>5. \A t \in Tickets : TicketFits(t)' /\ (t \in p3' => H!Exists(t)')
  BY <1>1, <1>2 DEF HelpInv, TicketFits, H!Latest, H!Exists
<1>6. ASSUME NEW q \in Requests
      PROVE  HelperFits(p2[q])'
  BY <1>1, <1>2 DEF HelpInv, HelperFits, H!Exists
<1>7. (\A q, s \in Requests :
          p2[q].pc = "add" /\ p2[s].pc = "add" /\ p2[q].on = p2[s].on => q = s)'
  BY <1>2 DEF HelpInv
<1>8. HelpInv'
  BY <1>3, <1>4, <1>5, <1>6, <1>7 DEF HelpInv
<1>. QED  BY <1>1, <1>8, ClosesLate DEF H!KeepsTickets

\* A step of the user, of staff, of the daily job or of the clock.
LEMMA HelpMoves ==
    ASSUME HelpInv, H!SupportNext
    PROVE  HelpInv' /\ H!KeepsTickets
<1>0. H!SupportTypeOK
  BY DEF HelpInv
<1>1. ASSUME NEW r \in Requests, H!AskTicket(r) \/ H!FailMessage(r)
      PROVE  HelpInv' /\ H!KeepsTickets
  <2>1. PICK h \in H!HelperRecords : h.pc \in {"idle", "create"} /\ H!Goes(r, h)
    BY <1>0, <1>1, HelpTyped DEF H!AskTicket, H!FailMessage, H!HelperRecords
  <2>2. HelperFits(h) /\ p2[r].pc # "show"
    BY <1>1, <2>1 DEF HelperFits, H!AskTicket, H!FailMessage, H!Free
  <2>. QED  BY <2>1, <2>2, HelpGoes
<1>2. ASSUME NEW r \in Requests, NEW t \in Tickets, H!AskMessage(r, t)
      PROVE  HelpInv' /\ H!KeepsTickets
  <2>1. PICK m \in H!Messages : H!Goes(r, [pc |-> "lock", on |-> t, msg |-> m])
    BY <1>2 DEF H!AskMessage
  <2>. DEFINE h == [pc |-> "lock", on |-> t, msg |-> m]
  <2>2. h \in H!HelperRecords /\ HelperFits(h) /\ p2[r].pc # "show" /\ h.pc # "add"
    BY <1>2 DEF HelperFits, H!HelperRecords, H!AskMessage, H!Free
  <2>. HIDE DEF h
  <2>. QED  BY <2>1, <2>2, HelpGoes DEF h
<1>3. ASSUME NEW r \in Requests, NEW t \in Tickets, H!LoadTicket(r, t)
      PROVE  HelpInv' /\ H!KeepsTickets
  <2>1. PICK pc \in {"mark", "show"} : H!Goes(r, [pc |-> pc, on |-> t])
    BY <1>3 DEF H!LoadTicket, H!Loading
  <2>. DEFINE h == [pc |-> pc, on |-> t]
  <2>2. h \in H!HelperRecords /\ HelperFits(h) /\ p2[r].pc # "show" /\ h.pc # "add"
    BY <1>3 DEF HelperFits, H!HelperRecords, H!LoadTicket, H!Free
  <2>. HIDE DEF h
  <2>. QED  BY <2>1, <2>2, HelpGoes DEF h
<1>4. ASSUME NEW r \in Requests, H!LockTicket(r)
      PROVE  HelpInv' /\ H!KeepsTickets
  <2>1. PICK g \in H!HelperRecords : g = p2[r] /\ g.pc = "lock" /\ H!Unlocked(g.on)
                                     /\ HelperFits(g)
    BY <1>0, <1>4, HelpTyped DEF H!LockTicket, HelpInv
  <2>2. PICK h : h = IF H!Takes(g.on, g.msg) THEN [g EXCEPT !.pc = "add"] ELSE H!NoHelp
    OBVIOUS
  <2>3. H!Goes(r, h)
    BY <1>4, <2>1, <2>2 DEF H!LockTicket
  <2>4. CASE H!Takes(g.on, g.msg)
    <3>1. h \in H!HelperRecords /\ h.pc = "add" /\ h.on = g.on /\ h.msg = g.msg
      BY <2>1, <2>2, <2>4 DEF H!HelperRecords
    <3>2. HelperFits(h)
      BY <2>1, <2>4, <3>1 DEF HelperFits, H!Takes
    <3>. QED  BY <2>1, <2>3, <3>1, <3>2, HelpGoes
  <2>5. CASE ~H!Takes(g.on, g.msg)
    <3>1. h \in H!HelperRecords /\ h.pc = "idle" /\ HelperFits(h)
      BY <1>0, <2>2, <2>5, HelpTyped DEF HelperFits
    <3>. QED  BY <2>1, <2>3, <3>1, HelpGoes
  <2>. QED  BY <2>4, <2>5
<1>5. ASSUME NEW r \in Requests, H!AssignSelf(r) \/ H!MarkRead(r)
      PROVE  HelpInv' /\ H!KeepsTickets
  <2>1. PICK t \in Tickets : t = p2[r].on /\ H!Exists(t) /\ H!Unlocked(t)
                             /\ p1[t] \in H!TicketRows /\ TicketFits(t)
    BY <1>0, <1>5, HelpTyped, HelperFields
    DEF HelpInv, HelperFits, H!AssignSelf, H!MarkRead
  <2>2. PICK row \in H!TicketRows :
           /\ p1' = [p1 EXCEPT ![t] = row] /\ row.status = p1[t].status
           /\ row.messages = p1[t].messages /\ row.resolved = p1[t].resolved
           /\ row.last = p1[t].last
           /\ H!AssignSelf(r) => row.unread = p1[t].unread
    <3>1. CASE H!AssignSelf(r)
      <4>1. PICK to \in Staff : p1' = [p1 EXCEPT ![t].assignee = to]
        BY <1>0, <2>1, <3>1, HelpTyped, HelperFields DEF H!AssignSelf
      <4>2. PICK row : row = [p1[t] EXCEPT !.assignee = to]
        OBVIOUS
      <4>3. /\ row \in H!TicketRows /\ row.status = p1[t].status
            /\ row.messages = p1[t].messages /\ row.resolved = p1[t].resolved
            /\ row.last = p1[t].last /\ row.unread = p1[t].unread
        BY <2>1, <4>2 DEF H!TicketRows
      <4>. QED  BY <4>1, <4>2, <4>3
    <3>2. CASE H!MarkRead(r)
      <4>1. p1' = [p1 EXCEPT ![t] = [p1[t] EXCEPT !.unread = FALSE]]
        BY <2>1, <3>2 DEF H!MarkRead
      <4>2. p2[r].pc = "mark"
        BY <3>2 DEF H!MarkRead
      <4>3. ~H!AssignSelf(r)
        BY <4>2 DEF H!AssignSelf
      <4>. QED  BY <2>1, <4>1, <4>3 DEF H!TicketRows
    <3>. QED  BY <1>5, <3>1, <3>2
  <2>3. PICK h \in H!HelperRecords :
           /\ p2' = [p2 EXCEPT ![r] = h] /\ h.pc \in {"idle", "show"}
           /\ h.pc = "show" => h.on = t
           /\ p2[r].pc # "show"
           /\ H!MarkRead(r) => h.pc = "show"
    <3>1. CASE H!AssignSelf(r)
      <4>1. p2[r].pc = "assign" /\ p2' = [p2 EXCEPT ![r] = H!NoHelp]
        BY <3>1 DEF H!AssignSelf
      <4>2. ~H!MarkRead(r)
        BY <4>1 DEF H!MarkRead
      <4>. QED  BY <1>0, <4>1, <4>2, HelpTyped
    <3>2. CASE H!MarkRead(r)
      <4>1. p2[r].pc = "mark" /\ p2' = [p2 EXCEPT ![r] = [pc |-> "show", on |-> t]]
        BY <2>1, <3>2 DEF H!MarkRead, H!Step, H!Loading
      <4>2. PICK h : h = [pc |-> "show", on |-> t]
        OBVIOUS
      <4>3. h \in H!HelperRecords /\ h.pc = "show" /\ h.on = t
        BY <4>2 DEF H!HelperRecords
      <4>. QED  BY <4>1, <4>2, <4>3
    <3>. QED  BY <1>5, <3>1, <3>2
  <2>4. \/ row.unread = p1[t].unread
        \/ \E q \in Requests : p2'[q].pc = "show" /\ p2'[q].on = t
    BY <1>0, <1>5, <2>2, <2>3, HelpTyped
  <2>5. row.status = "resolved" => row.resolved # H!Never /\ p5[t] <= H!Latest(row)
    BY <2>1, <2>2 DEF TicketFits, H!Latest
  <2>6. UNCHANGED <<p3, p4, p5, p6>>
    BY <1>5 DEF H!AssignSelf, H!MarkRead
  <2>7. HelpInv' /\ \A s \in Tickets : p1'[s].messages = p1[s].messages
    BY <1>0, <2>1, <2>2, <2>3, <2>4, <2>5, <2>6, HelpTyped, HelpWrites DEF H!Exists
  <2>. QED  BY <2>7, ClosesLate DEF H!KeepsTickets
<1>6. ASSUME NEW t \in Tickets, H!CloseTicket(t) \/ H!UpdateTicket(t)
      PROVE  HelpInv' /\ H!KeepsTickets
  <2>1. PICK status \in H!Statuses \cup {"kept"} :
           /\ H!SetStatus(t, status)
           /\ \/ p1' = [p1 EXCEPT ![t] = H!Moved(p1[t], status)]
              \/ \E to \in Staff \cup {Nobody} :
                    p1' = [p1 EXCEPT ![t] = [H!Moved(p1[t], status) EXCEPT !.assignee = to]]
    <3>1. CASE H!CloseTicket(t)
      <4>1. "closed" \in H!Statuses \cup {"kept"}
        BY DEF H!Statuses
      <4>. QED  BY <3>1, <4>1 DEF H!CloseTicket
    <3>2. CASE H!UpdateTicket(t)
      BY <3>2 DEF H!UpdateTicket
    <3>. QED  BY <1>6, <3>1, <3>2
  <2>2. p1[t] \in H!TicketRows /\ p1[t].status # "none" /\ TicketFits(t)
    BY <1>0, <2>1, HelpTyped DEF HelpInv, H!SetStatus, H!Exists
  <2>3. PICK moved \in H!TicketRows :
           /\ moved = H!Moved(p1[t], status) /\ moved.status # "none"
           /\ moved.unread = p1[t].unread /\ moved.messages = p1[t].messages
    <3>1. H!Moved(p1[t], status).status # "none"
      BY <1>0, <2>2, MovedRow DEF TicketFits, H!Statuses, H!Active
    <3>. QED  BY <1>0, <2>2, <3>1, MovedRow DEF TicketFits
  <2>4. PICK row \in H!TicketRows :
           /\ p1' = [p1 EXCEPT ![t] = row] /\ row.status = moved.status
           /\ row.unread = moved.unread /\ row.messages = moved.messages
           /\ row.resolved = moved.resolved /\ row.last = moved.last
    <3>1. CASE p1' = [p1 EXCEPT ![t] = moved]
      BY <3>1
    <3>2. CASE \E to \in Staff \cup {Nobody} :
                  p1' = [p1 EXCEPT ![t] = [moved EXCEPT !.assignee = to]]
      <4>1. PICK to \in Staff \cup {Nobody} :
                    p1' = [p1 EXCEPT ![t] = [moved EXCEPT !.assignee = to]]
        BY <3>2
      <4>2. PICK row : row = [moved EXCEPT !.assignee = to]
        OBVIOUS
      <4>3. /\ row \in H!TicketRows /\ row.status = moved.status
            /\ row.unread = moved.unread /\ row.messages = moved.messages
            /\ row.resolved = moved.resolved /\ row.last = moved.last
        BY <4>2 DEF H!TicketRows
      <4>. QED  BY <4>1, <4>2, <4>3
    <3>. QED  BY <2>1, <2>3, <3>1, <3>2
  <2>5. /\ p5' = H!Turns(t, status) /\ H!Exists(t) /\ H!Unlocked(t)
        /\ UNCHANGED <<p2, p3, p4, p6>>
    BY <2>1 DEF H!SetStatus
  <2>6. row.status = "resolved" => row.resolved # H!Never /\ p5'[t] <= H!Latest(row)
    <3>1. moved.status = "resolved" =>
             moved.resolved # H!Never /\ p5'[t] <= H!Latest(moved)
      BY <2>3, <2>5, TurnedMoved
    <3>. QED  BY <2>4, <3>1 DEF H!Latest
  <2>7. HelpInv' /\ \A s \in Tickets : p1'[s].messages = p1[s].messages
    BY <2>3, <2>4, <2>5, <2>6, TurnedMoved, HelpWrites
  <2>. QED  BY <2>7, ClosesLate DEF H!KeepsTickets
<1>7. ASSUME NEW t \in Tickets, H!CloseStale(t)
      PROVE  HelpInv' /\ H!KeepsTickets
  <2>1. /\ p1[t].status = "resolved" /\ H!Unlocked(t) /\ H!Exists(t)
        /\ p1' = [p1 EXCEPT ![t].status = "closed"] /\ UNCHANGED <<p2, p3, p4, p5, p6>>
    BY <1>7 DEF H!CloseStale, H!Exists
  <2>2. PICK row \in H!TicketRows :
           /\ p1' = [p1 EXCEPT ![t] = row] /\ row.status = "closed"
           /\ row.unread = p1[t].unread /\ row.messages = p1[t].messages
    <3>1. PICK row : row = [p1[t] EXCEPT !.status = "closed"]
      OBVIOUS
    <3>2. row \in H!TicketRows /\ row.status = "closed"
          /\ row.unread = p1[t].unread /\ row.messages = p1[t].messages
      BY <1>0, <3>1, HelpTyped DEF H!TicketRows, H!Statuses
    <3>. QED  BY <2>1, <3>1, <3>2
  <2>3. HelpInv' /\ \A s \in Tickets : p1'[s].messages = p1[s].messages
    BY <1>0, <2>1, <2>2, HelpTyped, HelpWrites
  <2>. QED  BY <2>3, ClosesLate DEF H!KeepsTickets
<1>. QED
  BY <1>1, <1>2, <1>3, <1>4, <1>5, <1>6, <1>7, HelpOpens, HelpAdds, HelpShows
  DEF H!SupportNext

-----------------------------------------------------------------------------
(* Suggestions: p1 is who is in the band, p2 the offers, p3 the votes, p4   *)
(* the setlist's songs, p5 what requests do, p6 the offers whose song was   *)
(* added, p7 those left behind, p8 and p9 the mishaps.                      *)

InHandOf(j) == j.pc \in {"add", "reopen"}

\* A request names whom and what it is about; an offer in hand was accepted,
\* and its song is not added yet.
SugFits(j) ==
    /\ j.pc # "idle" => j.who \in Fans
    /\ j.pc \notin {"idle", "create"} => j.offer \in Offers
    /\ j.pc = "create" => j.tune \in Tunes
    /\ InHandOf(j) => p2[j.offer].status = "accepted" /\ j.offer \notin p6

\* An offer is in hand once, and what was added says accepted.
SugInv ==
    /\ G!SugTypeOK /\ G!AcceptedIsAdded
    /\ \A r \in Requests : SugFits(p5[r])
    /\ \A q, r \in Requests :
          InHandOf(p5[q]) /\ InHandOf(p5[r]) /\ p5[q].offer = p5[r].offer => q = r
    /\ \A o \in Offers :
          /\ p2[o].status # "none" => p2[o].tune \in Tunes
          /\ o \in p6 => p2[o].status = "accepted"

\* The types, one by one.
LEMMA SugTyped ==
    ASSUME G!SugTypeOK
    PROVE  /\ p1 \subseteq Fans /\ p4 \subseteq Tunes
           /\ p2 \in [Offers -> G!OfferRecords] /\ p5 \in [Requests -> G!SugJobs]
           /\ p3 \in [Offers -> [Fans -> {-1, 0, 1}]]
           /\ p6 \subseteq Offers /\ p7 \subseteq Offers /\ p8 \in Nat /\ p9 \in Nat
           /\ \A r \in Requests : p5[r] \in G!SugJobs
           /\ \A o \in Offers : p2[o] \in G!OfferRecords
           /\ G!NoSugJob \in G!SugJobs /\ G!NoSugJob.pc = "idle"
<1>1. G!NoSugJob \in G!SugJobs /\ G!NoSugJob.pc = "idle"
  BY DEF G!NoSugJob, G!SugJobs, G!SugPCs
<1>. QED  BY <1>1 DEF G!SugTypeOK

\* A request goes on, with the offer it has in hand if it has one.
LEMMA SugGoes ==
    ASSUME SugInv, NEW r \in Requests, NEW j \in G!SugJobs, p5' = [p5 EXCEPT ![r] = j],
           SugFits(j), UNCHANGED <<p1, p2, p4, p6, p7, p9>>,
           (InHandOf(j) <=> InHandOf(p5[r])), InHandOf(j) => j.offer = p5[r].offer,
           p3' \in [Offers -> [Fans -> {-1, 0, 1}]], p8' \in Nat
    PROVE  SugInv' /\ G!KeepsOutcome
<1>1. /\ p5' \in [Requests -> G!SugJobs] /\ p5'[r] = j
      /\ \A q \in Requests : q # r => p5'[q] = p5[q]
  BY SugTyped DEF SugInv
<1>2. G!SugTypeOK'
  BY <1>1 DEF SugInv, G!SugTypeOK
<1>3. ASSUME NEW q \in Requests
      PROVE  /\ InHandOf(p5'[q]) <=> InHandOf(p5[q])
             /\ InHandOf(p5[q]) => p5'[q].offer = p5[q].offer
  BY <1>1
<1>4. \A o \in Offers : G!InHand(o) => G!InHand(o)'
  BY <1>3 DEF G!InHand, InHandOf
<1>5. G!AcceptedIsAdded'
  BY <1>4 DEF SugInv, G!AcceptedIsAdded
<1>6. ASSUME NEW q \in Requests
      PROVE  SugFits(p5[q])'
  BY <1>1 DEF SugInv, SugFits, InHandOf
<1>7. (\A q, s \in Requests :
          InHandOf(p5[q]) /\ InHandOf(p5[s]) /\ p5[q].offer = p5[s].offer => q = s)'
  BY <1>3 DEF SugInv, InHandOf
<1>8. SugInv'
  BY <1>2, <1>5, <1>6, <1>7 DEF SugInv
<1>9. \A o \in Offers : o \in p6' => p2[o].status = "accepted"
  BY DEF SugInv
<1>. QED  BY <1>8, <1>9 DEF G!KeepsOutcome

\* A request writes an offer that is open or not made yet, or the one it has in
\* hand.
LEMMA SugDecides ==
    ASSUME SugInv, NEW r \in Requests, NEW o \in Offers,
           NEW n \in G!OfferRecords, p2' = [p2 EXCEPT ![o] = n],
           NEW j \in G!SugJobs, p5' = [p5 EXCEPT ![r] = j],
           \/ InHandOf(p5[r]) /\ p5[r].offer = o
           \/ ~InHandOf(p5[r]) /\ p2[o].status \in {"none", "open"},
           n.status # "none" => n.tune \in Tunes,
           \/ j.pc = "idle"
           \/ /\ j.pc = "add" /\ j.who \in Fans /\ j.offer = o
              /\ n.status = "accepted" /\ o \notin p6',
           p6' = p6 \/ p6' = p6 \cup {o}, p7' = p7 \/ p7' = p7 \cup {o},
           o \in p6' => n.status = "accepted",
           n.status = "accepted" => j.pc = "add" \/ o \in p6' \cup p7',
           p4' \subseteq Tunes, UNCHANGED <<p1, p3, p8, p9>>
    PROVE  SugInv' /\ G!KeepsOutcome
<1>. G!SugTypeOK
  BY DEF SugInv
<1>1. /\ p5' \in [Requests -> G!SugJobs] /\ p5'[r] = j
      /\ \A q \in Requests : q # r => p5'[q] = p5[q]
      /\ p2' \in [Offers -> G!OfferRecords] /\ p2'[o] = n
      /\ \A q \in Offers : q # o => p2'[q] = p2[q] /\ (q \in p6' <=> q \in p6)
  BY SugTyped
<1>2. o \notin p6 /\ \A q \in Requests : q # r /\ InHandOf(p5[q]) => p5[q].offer # o
  <2>1. CASE InHandOf(p5[r]) /\ p5[r].offer = o
    BY <2>1 DEF SugInv, SugFits
  <2>2. CASE p2[o].status \in {"none", "open"}
    BY <2>2 DEF SugInv, SugFits
  <2>. QED  BY <2>1, <2>2
<1>3. G!SugTypeOK'
  BY <1>1, SugTyped DEF G!SugTypeOK
<1>4. ASSUME NEW q \in Requests, q # r
      PROVE  SugFits(p5[q])'
  <2>1. SugFits(p5[q]) /\ p5'[q] = p5[q]
    BY <1>1, <1>4 DEF SugInv
  <2>2. InHandOf(p5[q]) => p5[q].offer \in Offers \ {o}
    BY <1>2, <1>4, <2>1 DEF SugFits, InHandOf
  <2>. QED  BY <1>1, <2>1, <2>2 DEF SugFits, InHandOf
<1>5. SugFits(p5[r])'
  BY <1>1 DEF SugFits, InHandOf
<1>6. ASSUME NEW q \in Requests, NEW s \in Requests,
             InHandOf(p5'[q]), InHandOf(p5'[s]), p5'[q].offer = p5'[s].offer
      PROVE  q = s
  <2>1. InHandOf(j) => j.offer = o
    BY DEF InHandOf
  <2>2. CASE q # r /\ s # r
    BY <1>1, <1>6, <2>2 DEF SugInv
  <2>3. CASE q = r \/ s = r
    BY <1>1, <1>2, <1>6, <2>1, <2>3
  <2>. QED  BY <2>2, <2>3
<1>7. ASSUME NEW q \in Offers
      PROVE  /\ p2'[q].status # "none" => p2'[q].tune \in Tunes
             /\ q \in p6' => p2'[q].status = "accepted"
  BY <1>1 DEF SugInv
<1>8. G!AcceptedIsAdded'
  <2>1. SUFFICES ASSUME NEW q \in Offers, p2'[q].status = "accepted"
                 PROVE  G!InHand(q)' \/ q \in p6' \cup p7'
    BY DEF G!AcceptedIsAdded
  <2>2. CASE q = o
    BY <1>1, <2>1, <2>2 DEF G!InHand
  <2>3. CASE q # o
    <3>1. G!InHand(q) \/ q \in p6 \cup p7
      BY <1>1, <2>1, <2>3 DEF SugInv, G!AcceptedIsAdded
    <3>2. G!InHand(q) => G!InHand(q)'
      <4>1. SUFFICES ASSUME NEW s \in Requests, p5[s].offer = q, InHandOf(p5[s])
                     PROVE  G!InHand(q)'
        BY DEF G!InHand, InHandOf
      <4>2. s # r
        BY <2>3, <4>1
      <4>. QED  BY <1>1, <4>1, <4>2 DEF G!InHand, InHandOf
    <3>. QED  BY <3>1, <3>2
  <2>. QED  BY <2>2, <2>3
<1>9. SugInv'
  BY <1>3, <1>4, <1>5, <1>6, <1>7, <1>8 DEF SugInv, InHandOf
<1>10. p2[o].status \notin {"rejected", "withdrawn"}
  BY DEF SugInv, SugFits
<1>11. \A q \in Offers : q \in p6' => p2'[q].status = "accepted"
  BY <1>7
<1>. QED  BY <1>1, <1>2, <1>9, <1>10, <1>11 DEF G!KeepsOutcome

\* At the start nothing is suggested.
LEMMA SugStarts ==
    ASSUME G!SugInit
    PROVE  SugInv
<1>1. G!NoOffer \in G!OfferRecords /\ G!NoOffer.status = "none"
  BY DEF G!NoOffer, G!OfferRecords
<1>2. G!NoSugJob \in G!SugJobs /\ G!NoSugJob.pc = "idle"
  BY DEF G!NoSugJob, G!SugJobs, G!SugPCs
<1>3. G!SugTypeOK
  BY <1>1, <1>2 DEF G!SugInit, G!SugTypeOK
<1>. QED
  BY <1>1, <1>2, <1>3 DEF G!SugInit, SugInv, G!AcceptedIsAdded, SugFits, InHandOf

\* A member leaves: only what is open changes.
LEMMA SugLeft ==
    ASSUME SugInv, NEW u \in Fans, G!LeaveBand(u)
    PROVE  SugInv' /\ G!KeepsOutcome
<1>. G!SugTypeOK
  BY DEF SugInv
<1>1. ASSUME NEW o \in Offers
      PROVE  /\ p2'[o] \in G!OfferRecords
             /\ p2'[o].tune = p2[o].tune /\ (p2'[o].status # "none" => p2[o].status # "none")
             /\ p2[o].status # "open" => p2'[o].status = p2[o].status
             /\ p2'[o].status = "accepted" => p2[o].status = "accepted"
  <2>1. \/ p2'[o] = p2[o]
        \/ p2[o].status = "open" /\ p2'[o] = [p2[o] EXCEPT !.status = "withdrawn"]
    BY Zenon DEF G!LeaveBand, G!IsOpen
  <2>. QED  BY <2>1, SugTyped DEF G!OfferRecords
<1>2. p2' \in [Offers -> G!OfferRecords]
  BY <1>1 DEF G!LeaveBand
<1>3. p3' \in [Offers -> [Fans -> {-1, 0, 1}]]
  BY SugTyped DEF G!LeaveBand
<1>4. UNCHANGED <<p4, p5, p6, p7, p8, p9>> /\ p1' \subseteq Fans
  BY SugTyped DEF G!LeaveBand
<1>5. G!SugTypeOK'
  BY <1>2, <1>3, <1>4, SugTyped DEF G!SugTypeOK
<1>6. G!AcceptedIsAdded'
  BY <1>1, <1>4 DEF SugInv, G!AcceptedIsAdded, G!InHand
<1>7. ASSUME NEW r \in Requests
      PROVE  SugFits(p5[r])'
  BY <1>1, <1>4 DEF SugInv, SugFits, InHandOf
<1>8. SugInv'
  BY <1>1, <1>4, <1>5, <1>6, <1>7 DEF SugInv, InHandOf
<1>. QED  BY <1>1, <1>4, <1>8 DEF SugInv, G!KeepsOutcome

\* The program stops: what was in hand is left behind.
LEMMA SugCrashes ==
    ASSUME SugInv, G!SugCrash
    PROVE  SugInv' /\ G!KeepsOutcome
<1>. G!SugTypeOK
  BY DEF SugInv
<1>1. /\ p5' = [r \in Requests |-> G!NoSugJob] /\ p9' = p9 + 1
      /\ UNCHANGED <<p1, p2, p3, p4, p6, p8>>
      /\ p7' = p7 \cup {p5[r].offer : r \in {q \in Requests : InHandOf(p5[q])}}
  BY DEF G!SugCrash, InHandOf
<1>2. p7' \subseteq Offers
  BY <1>1, SugTyped DEF SugInv, SugFits, InHandOf
<1>3. \A r \in Requests : p5'[r].pc = "idle" /\ p5'[r] \in G!SugJobs
  BY <1>1, SugTyped
<1>4. G!SugTypeOK'
  BY <1>1, <1>2, <1>3, SugTyped DEF G!SugTypeOK
<1>5. G!AcceptedIsAdded'
  <2>1. SUFFICES ASSUME NEW o \in Offers, p2[o].status = "accepted"
                 PROVE  o \in p6 \cup p7'
    BY <1>1 DEF G!AcceptedIsAdded
  <2>2. G!InHand(o) \/ o \in p6 \cup p7
    BY <2>1 DEF SugInv, G!AcceptedIsAdded
  <2>. QED  BY <1>1, <2>2 DEF G!InHand, InHandOf
<1>6. SugInv'
  BY <1>1, <1>3, <1>4, <1>5 DEF SugInv, SugFits, InHandOf
<1>. QED  BY <1>1, <1>6 DEF SugInv, G!KeepsOutcome

\* A step of a request, of a member or of the program.
LEMMA SugMoves ==
    ASSUME SugInv, G!SugNext
    PROVE  SugInv' /\ G!KeepsOutcome
<1>. DEFINE Idle == G!NoSugJob
<1>. G!SugTypeOK
  BY DEF SugInv
<1>1. /\ Idle \in G!SugJobs /\ Idle.pc = "idle" /\ ~InHandOf(Idle) /\ SugFits(Idle)
      /\ p3 \in [Offers -> [Fans -> {-1, 0, 1}]] /\ p8 \in Nat
      /\ \A o \in Offers : p2[o] \in G!OfferRecords
  BY SugTyped DEF SugFits, InHandOf
<1>. HIDE DEF Idle
<1>2. ASSUME NEW r \in Requests, NEW pc \in {"create", "vote", "accept", "reject", "withdraw"},
             NEW u \in Fans, NEW o \in Offers \cup {"none"}, NEW t \in Tunes \cup {"none"},
             pc = "create" => t \in Tunes, pc # "create" => o \in Offers,
             G!BeginSug(r, pc, u, o, t),
             UNCHANGED <<p1, p2, p3, p4, p6, p7, p8, p9>>
      PROVE  SugInv' /\ G!KeepsOutcome
  <2>1. PICK j : j = [pc |-> pc, who |-> u, offer |-> o, tune |-> t]
    OBVIOUS
  <2>2. j \in G!SugJobs /\ SugFits(j) /\ ~InHandOf(j)
    BY <1>2, <2>1 DEF G!SugJobs, G!SugPCs, SugFits, InHandOf
  <2>3. p5' = [p5 EXCEPT ![r] = j] /\ ~InHandOf(p5[r])
    BY <1>2, <2>1 DEF G!BeginSug, InHandOf
  <2>. QED  BY <1>1, <1>2, <2>2, <2>3, SugGoes
<1>3. ASSUME NEW r \in Requests, NEW u \in Fans, NEW t \in Tunes, G!AskCreate(r, u, t)
      PROVE  SugInv' /\ G!KeepsOutcome
  BY <1>2, <1>3 DEF G!AskCreate
<1>4. ASSUME NEW r \in Requests, NEW u \in Fans, NEW o \in Offers,
             \/ G!AskVote(r, u, o)
             \/ \E how \in {"accept", "reject", "withdraw"} : G!AskClose(r, u, o, how)
      PROVE  SugInv' /\ G!KeepsOutcome
  BY <1>2, <1>4 DEF G!AskVote, G!AskClose
\* A request that goes on without a write to an offer.
<1>6. ASSUME NEW r \in Requests, G!EndSug(r), ~InHandOf(p5[r]),
             UNCHANGED <<p1, p2, p4, p6, p7, p8, p9>>,
             p3' \in [Offers -> [Fans -> {-1, 0, 1}]]
      PROVE  SugInv' /\ G!KeepsOutcome
  BY <1>1, <1>6, SugGoes DEF G!EndSug, Idle
<1>7. ASSUME NEW r \in Requests, NEW o \in Offers, G!CreateOffer(r, o)
      PROVE  SugInv' /\ G!KeepsOutcome
  <2>1. p5[r].pc = "create" /\ p2[o].status = "none" /\ G!EndSug(r)
        /\ UNCHANGED <<p1, p3, p4, p6, p7, p8, p9>>
    BY <1>7 DEF G!CreateOffer
  <2>2. CASE UNCHANGED p2
    BY <1>1, <1>6, <2>1, <2>2 DEF InHandOf
  <2>3. CASE p2' = [p2 EXCEPT ![o] = [status |-> "open", by |-> p5[r].who,
                                      tune |-> p5[r].tune]]
    <3>1. p5[r].who \in Fans /\ p5[r].tune \in Tunes
      BY <2>1 DEF SugInv, SugFits
    <3>2. PICK n : n = [status |-> "open", by |-> p5[r].who, tune |-> p5[r].tune]
      OBVIOUS
    <3>3. n \in G!OfferRecords /\ n.tune \in Tunes /\ n.status = "open"
      BY <3>1, <3>2 DEF G!OfferRecords
    <3>4. o \notin p6
      BY <2>1 DEF SugInv
    <3>5. p5' = [p5 EXCEPT ![r] = Idle] /\ p4' \subseteq Tunes
      BY <2>1, SugTyped DEF G!EndSug, Idle
    <3>. QED  BY <1>1, <2>1, <2>3, <3>2, <3>3, <3>4, <3>5, SugDecides DEF InHandOf
  <2>. QED  BY <1>7, <2>2, <2>3 DEF G!CreateOffer
<1>8. ASSUME NEW r \in Requests, NEW o, o = p5[r].offer, p5[r].pc = "vote",
             UNCHANGED <<p1, p2, p4, p6, p7, p8, p9>>,
             p3' \in [Offers -> [Fans -> {-1, 0, 1}]],
             G!EndSug(r) \/ G!SugTo(r, "accept")
      PROVE  SugInv' /\ G!KeepsOutcome
  <2>1. CASE G!EndSug(r)
    BY <1>6, <1>8, <2>1 DEF InHandOf
  <2>2. CASE G!SugTo(r, "accept")
    <3>1. PICK j : j = [p5[r] EXCEPT !.pc = "accept"]
      OBVIOUS
    <3>2. /\ j \in G!SugJobs /\ j.pc = "accept" /\ j.who = p5[r].who
          /\ j.offer = p5[r].offer
      BY <3>1, SugTyped DEF G!SugJobs, G!SugPCs
    <3>3. SugFits(j) /\ ~InHandOf(j) /\ ~InHandOf(p5[r])
      BY <1>8, <3>2 DEF SugInv, SugFits, InHandOf
    <3>4. p5' = [p5 EXCEPT ![r] = j]
      BY <2>2, <3>1 DEF G!SugTo
    <3>. QED  BY <1>1, <1>8, <3>2, <3>3, <3>4, SugGoes
  <2>. QED  BY <1>8, <2>1, <2>2
<1>9. ASSUME NEW r \in Requests, NEW v \in {-1, 1}, G!CastVote(r, v) \/ G!RemoveVote(r)
      PROVE  SugInv' /\ G!KeepsOutcome
  <2>1. p5[r].pc = "vote" /\ UNCHANGED <<p1, p2, p4, p6, p7, p8, p9>>
    BY <1>9 DEF G!CastVote, G!RemoveVote
  <2>2. PICK o \in Offers, u \in Fans : o = p5[r].offer /\ u = p5[r].who
    BY <2>1 DEF SugInv, SugFits
  <2>3. \E c \in {-1, 0, 1} : p3' = p3 \/ p3' = [p3 EXCEPT ![o] = [p3[o] EXCEPT ![u] = c]]
    <3>1. CASE G!CastVote(r, v)
      BY <2>2, <3>1 DEF G!CastVote
    <3>2. CASE G!RemoveVote(r)
      BY <2>2, <3>2 DEF G!RemoveVote
    <3>. QED  BY <1>9, <3>1, <3>2
  <2>4. p3' \in [Offers -> [Fans -> {-1, 0, 1}]]
    BY <2>3, SugTyped
  <2>5. G!EndSug(r) \/ G!SugTo(r, "accept")
    BY <1>9 DEF G!CastVote, G!RemoveVote
  <2>. QED  BY <1>8, <2>1, <2>4, <2>5
<1>10. ASSUME NEW r \in Requests, G!AddFails(r)
       PROVE  SugInv' /\ G!KeepsOutcome
  <2>1. PICK j : j = [p5[r] EXCEPT !.pc = "reopen"]
    OBVIOUS
  <2>2. /\ j \in G!SugJobs /\ j.pc = "reopen" /\ j.who = p5[r].who
        /\ j.offer = p5[r].offer
    BY <2>1, SugTyped DEF G!SugJobs, G!SugPCs
  <2>3. p5[r].pc = "add" /\ p8' = p8 + 1 /\ p5' = [p5 EXCEPT ![r] = j]
        /\ UNCHANGED <<p1, p2, p3, p4, p6, p7, p9>>
    BY <1>10, <2>1 DEF G!AddFails, G!SugTo
  <2>4. SugFits(j) /\ InHandOf(j) /\ InHandOf(p5[r])
    BY <2>2, <2>3 DEF SugInv, SugFits, InHandOf
  <2>5. p8' \in Nat /\ (InHandOf(j) <=> InHandOf(p5[r]))
    BY <1>1, <2>3, <2>4
  <2>. QED  BY <1>1, <2>2, <2>3, <2>4, <2>5, SugGoes
\* A request that closes an offer, which only happens to an open one.
<1>11. ASSUME NEW r \in Requests,
              \/ G!ClaimOffer(r) \/ G!RejectOffer(r) \/ G!WithdrawOffer(r)
       PROVE  SugInv' /\ G!KeepsOutcome
  <2>1. /\ p5[r].pc \in {"accept", "reject", "withdraw"} /\ ~InHandOf(p5[r])
        /\ UNCHANGED <<p1, p3, p4, p6, p7, p8, p9>>
    BY <1>11 DEF G!ClaimOffer, G!RejectOffer, G!WithdrawOffer, InHandOf
  <2>2. PICK o \in Offers : o = p5[r].offer /\ p5[r].who \in Fans
    BY <2>1 DEF SugInv, SugFits
  <2>3. CASE ~G!IsOpen(o)
    <3>1. G!EndSug(r) /\ p2' = p2
      BY <1>11, <2>2, <2>3
      DEF G!ClaimOffer, G!RejectOffer, G!WithdrawOffer, G!Closed, G!Closable
    <3>. QED  BY <1>1, <1>6, <2>1, <3>1
  <2>4. CASE G!IsOpen(o)
    <3>1. PICK status \in {"accepted", "rejected", "withdrawn"} :
             /\ p2' = [p2 EXCEPT ![o].status = status]
             /\ \/ status = "accepted" /\ G!SugTo(r, "add")
                \/ status # "accepted" /\ G!EndSug(r)
      BY <1>11, <2>2, <2>4
      DEF G!ClaimOffer, G!RejectOffer, G!WithdrawOffer, G!Closed, G!Closable
    <3>2. PICK n : n = [p2[o] EXCEPT !.status = status]
      OBVIOUS
    <3>3. n \in G!OfferRecords /\ n.tune \in Tunes /\ n.status = status
      BY <1>1, <2>4, <3>2 DEF SugInv, G!OfferRecords, G!IsOpen
    <3>4. o \notin p6 /\ p2[o].status = "open"
      BY <2>4 DEF SugInv, G!IsOpen
    <3>5. PICK j : j = IF status = "accepted" THEN [p5[r] EXCEPT !.pc = "add"] ELSE Idle
      OBVIOUS
    <3>6. /\ j \in G!SugJobs /\ p5' = [p5 EXCEPT ![r] = j]
          /\ \/ j.pc = "idle" /\ status # "accepted"
             \/ /\ j.pc = "add" /\ j.who \in Fans /\ j.offer = o
                /\ status = "accepted"
      <4>1. CASE status = "accepted"
        BY <2>2, <3>1, <3>5, <4>1, SugTyped DEF G!SugTo, G!SugJobs, G!SugPCs
      <4>2. CASE status # "accepted"
        BY <1>1, <3>1, <3>5, <4>2 DEF G!EndSug, Idle
      <4>. QED  BY <4>1, <4>2
    <3>7. p2' = [p2 EXCEPT ![o] = n] /\ p4' \subseteq Tunes
      BY <2>1, <3>1, <3>2, SugTyped
    <3>. QED  BY <2>1, <3>3, <3>4, <3>6, <3>7, SugDecides
  <2>. QED  BY <2>3, <2>4
<1>12. ASSUME NEW r \in Requests, G!AddTune(r) \/ G!ReopenOffer(r)
       PROVE  SugInv' /\ G!KeepsOutcome
  <2>1. InHandOf(p5[r]) /\ p5[r].pc \in {"add", "reopen"}
        /\ p5' = [p5 EXCEPT ![r] = Idle] /\ UNCHANGED <<p1, p3, p8, p9>>
    BY <1>12 DEF G!AddTune, G!ReopenOffer, InHandOf, G!EndSug, Idle
  <2>2. PICK o \in Offers : o = p5[r].offer
    BY <2>1 DEF SugInv, SugFits
  <2>3. o \notin p6 /\ p2[o].status = "accepted" /\ p2[o].tune \in Tunes
    BY <2>1, <2>2 DEF SugInv, SugFits
  <2>4. CASE G!AddTune(r)
    <3>1. p2' = [p2 EXCEPT ![o] = p2[o]] /\ p6' = p6 \cup {o} /\ p7' = p7
          /\ p4' \subseteq Tunes
      BY <2>2, <2>3, <2>4, SugTyped DEF G!AddTune
    <3>. QED  BY <1>1, <2>1, <2>2, <2>3, <3>1, SugDecides
  <2>5. CASE G!ReopenOffer(r)
    <3>1. PICK n : n = IF G!OpenTwice(p2[o].tune) THEN p2[o]
                       ELSE [p2[o] EXCEPT !.status = "open"]
      OBVIOUS
    <3>2. /\ p2' = [p2 EXCEPT ![o] = n] /\ p6' = p6 /\ p4' \subseteq Tunes
          /\ p7' = IF G!OpenTwice(p2[o].tune) THEN p7 \cup {o} ELSE p7
      BY <2>2, <2>3, <2>5, <3>1, SugTyped DEF G!ReopenOffer, G!Reopened
    <3>3. /\ n \in G!OfferRecords /\ n.tune \in Tunes
          /\ ~G!OpenTwice(p2[o].tune) => n.status = "open"
      BY <1>1, <2>3, <3>1 DEF G!OfferRecords
    <3>4. o \notin p6' /\ (n.status = "accepted" => o \in p7')
      BY <2>3, <3>2, <3>3
    <3>5. p7' = p7 \/ p7' = p7 \cup {o}
      BY <3>2
    <3>. QED  BY <1>1, <2>1, <2>2, <2>3, <3>2, <3>3, <3>4, <3>5, SugDecides
  <2>. QED  BY <1>12, <2>4, <2>5
<1>. QED
  BY <1>3, <1>4, <1>7, <1>9, <1>10, <1>11, <1>12, SugLeft, SugCrashes DEF G!SugNext

-----------------------------------------------------------------------------
(* The trash: p1 is the row of each artist, p2 that of each song, p3 what   *)
(* transactions and jobs do, p4 the songs somebody trashed by themselves.   *)

\* A part counts as this module does.
LEMMA TrashCounts == \A X : T!Cardinality(X) = Cardinality(X)
BY DEF T!Cardinality, Cardinality

\* In the trash with the others of a batch, or not at all.
RowFits(row) == row = T!GoneRow \/ row = T!LiveRow \/ (row.at \in T!InTrash /\ row.batch # 0)

\* What is created is not there yet, and nobody else's.
Creates(x) ==
    /\ p3[x].locked = {}
    /\ \E s \in Songs : p3[x].songs = {s} /\ p2[s] = T!GoneRow
    /\ \A y \in Requests \ {x} : p3[y].songs \cap p3[x].songs = {}

\* A song that is restored waits in the trash, and is not one that went with
\* its artist unless the artist comes too.
RestoresSong(x) ==
    \E s \in Songs :
       /\ p3[x].songs = {s} /\ p3[x].locked = {s} /\ p2[s].at \in T!InTrash
       /\ \/ p3[x].artists = {ArtistOf[s]}
          \/ /\ p3[x].artists = {}
             /\ p1[ArtistOf[s]].at \in T!InTrash => p1[ArtistOf[s]].batch # p2[s].batch

\* So does an artist, with songs that are gone or still in its batch.
RestoresArtist(x) ==
    \E a \in Artists :
       /\ p3[x].artists = {a} /\ p3[x].locked = {a} /\ p1[a].at \in T!InTrash
       /\ \A s \in p3[x].songs :
             \/ p2[s] = T!GoneRow
             \/ p2[s].at \in T!InTrash /\ p2[s].batch = p1[a].batch

\* Songs to be deleted are locked in the trash, or were old.
Deletes(x) ==
    \/ p3[x].songs = {} /\ p3[x].locked = {}
    \/ /\ p3[x].kind = "empty" /\ p3[x].locked = p3[x].songs
       /\ \A s \in p3[x].songs : p2[s].at \in T!InTrash

OpFits(x) ==
    /\ p3[x].pc = "idle" => p3[x].locked = {}
    /\ p3[x].pc \in {"create", "inserted"} => Creates(x)
    /\ p3[x].pc = "inserted" => Cardinality(T!LiveSongs) + 1 <= SongLimit
    /\ p3[x].pc = "trashing" => \E a \in Artists : p3[x].artists = {a} /\ p3[x].locked = {a}
    /\ p3[x].pc = "restoring" => RestoresSong(x) \/ RestoresArtist(x)
    /\ p3[x].pc = "purge" => p3[x].locked = {} /\ p3[x].songs \cap p3[x].live = {}
    /\ p3[x].pc \in {"emptied", "purged", "sweep"} => Deletes(x)
    /\ p3[x].pc = "sweep" =>
          /\ p3[x].songs \cap p3[x].live = {}
          /\ \A a \in p3[x].artists : T!SongsOf(a) \cap p3[x].live = {}

\* A song of an artist's batch is the artist's, and was not trashed by itself;
\* rows are locked, and a song inserted, by one transaction.
TrashInv ==
    /\ T!TrashTypeOK /\ T!TrashSafety
    /\ \A a \in Artists : RowFits(p1[a])
    /\ \A s \in Songs : RowFits(p2[s])
    /\ \A s \in Songs, a \in Artists :
          p2[s].at \in T!InTrash /\ p1[a].at \in T!InTrash /\ p2[s].batch = p1[a].batch
             => ArtistOf[s] = a /\ s \notin p4
    /\ \A x \in Requests : OpFits(x)
    /\ \A x, y \in Requests : x # y => p3[x].locked \cap p3[y].locked = {}
    /\ \A x, y \in Requests : p3[x].pc = "inserted" /\ p3[y].pc = "inserted" => x = y

\* The types, one by one.
LEMMA TrashTyped ==
    ASSUME T!TrashTypeOK
    PROVE  /\ p1 \in [Artists -> T!Rows] /\ p2 \in [Songs -> T!Rows]
           /\ p3 \in [Requests -> T!OpRecords] /\ p4 \subseteq Songs
           /\ \A a \in Artists : p1[a] \in T!Rows
           /\ \A s \in Songs : p2[s] \in T!Rows
           /\ \A x \in Requests : p3[x] \in T!OpRecords
           /\ T!NoOp \in T!OpRecords /\ T!GoneRow \in T!Rows /\ T!LiveRow \in T!Rows
<1>1. 0 \in T!Batches
  BY TrashCounts, WorkspaceBounds, FS_CardinalityType DEF T!Batches
<1>2. T!GoneRow \in T!Rows /\ T!LiveRow \in T!Rows
  BY <1>1 DEF T!Rows, T!GoneRow, T!LiveRow, T!Places
<1>3. T!NoOp \in T!OpRecords
  BY DEF T!NoOp, T!OpRecords, T!OpPCs
<1>. QED  BY <1>2, <1>3 DEF T!TrashTypeOK

\* A row is its place and its batch.
LEMMA RowOf ==
    ASSUME NEW row \in T!Rows
    PROVE  row.at \in T!Places /\ row.batch \in T!Batches
BY DEF T!Rows

\* What a transaction holds.
LEMMA OpFields ==
    ASSUME NEW r \in T!OpRecords
    PROVE  /\ r.pc \in T!OpPCs /\ r.artists \subseteq Artists /\ r.songs \subseteq Songs
           /\ r.locked \subseteq Artists \cup Songs /\ r.live \subseteq Songs
           /\ r.kind \in {"none", "empty", "purge"}
BY DEF T!OpRecords

\* The places of the three kinds of row.
LEMMA RowKinds ==
    /\ T!GoneRow.at = "none" /\ T!GoneRow.batch = 0
    /\ T!LiveRow.at = "live" /\ T!LiveRow.batch = 0
    /\ T!InTrash = {"trash", "old"} /\ T!NoOp.pc = "idle" /\ T!NoOp.songs = {}
    /\ T!NoOp.locked = {}
BY DEF T!GoneRow, T!LiveRow, T!InTrash, T!NoOp

\* There are more batches than rows, so one is free.
LEMMA BatchUnused ==
    ASSUME T!TrashTypeOK
    PROVE  /\ T!UnusedBatch \in T!Batches \ {0}
           /\ \A a \in Artists : p1[a].batch # T!UnusedBatch
           /\ \A s \in Songs : p2[s].batch # T!UnusedBatch
<1>. DEFINE ofArtists == {p1[a].batch : a \in Artists}
            ofSongs == {p2[s].batch : s \in Songs}
            n == Cardinality(Artists) + Cardinality(Songs)
<1>1. /\ IsFiniteSet(ofArtists) /\ Cardinality(ofArtists) <= Cardinality(Artists)
      /\ Cardinality(ofArtists) \in Nat /\ Cardinality(Artists) \in Nat
  <2>. DEFINE f == [a \in Artists |-> p1[a].batch]
  <2>1. f \in Surjection(Artists, ofArtists)
    BY DEF Surjection
  <2>. HIDE DEF f
  <2>. QED  BY <2>1, FS_Surjection, FS_CardinalityType, WorkspaceBounds
<1>2. /\ IsFiniteSet(ofSongs) /\ Cardinality(ofSongs) <= Cardinality(Songs)
      /\ Cardinality(ofSongs) \in Nat /\ Cardinality(Songs) \in Nat
  <2>. DEFINE f == [s \in Songs |-> p2[s].batch]
  <2>1. f \in Surjection(Songs, ofSongs)
    BY DEF Surjection
  <2>. HIDE DEF f
  <2>. QED  BY <2>1, FS_Surjection, FS_CardinalityType, WorkspaceBounds
<1>3. n \in Nat
  BY <1>1, <1>2
<1>4. \E m \in 1 .. n + 1 : m \notin ofArtists \cup ofSongs
  <2>1. SUFFICES ASSUME 1 .. n + 1 \subseteq ofArtists \cup ofSongs
                 PROVE  FALSE
    OBVIOUS
  <2>. HIDE DEF ofArtists, ofSongs
  <2>2. /\ IsFiniteSet(ofArtists \cup ofSongs)
        /\ Cardinality(ofArtists \cup ofSongs) <= Cardinality(ofArtists) + Cardinality(ofSongs)
    <3>1. Cardinality(ofArtists \cap ofSongs) \in Nat
      BY <1>1, <1>2, FS_Intersection, FS_CardinalityType
    <3>2. /\ IsFiniteSet(ofArtists \cup ofSongs)
          /\ Cardinality(ofArtists \cup ofSongs) =
                Cardinality(ofArtists) + Cardinality(ofSongs)
                  - Cardinality(ofArtists \cap ofSongs)
      BY <1>1, <1>2, FS_Union
    <3>. QED  BY <1>1, <1>2, <3>1, <3>2
  <2>3. Cardinality(1 .. n + 1) = n + 1
    <3>1. PICK k \in Nat : k = n + 1
      BY <1>3
    <3>2. Cardinality(1 .. k) = IF 1 > k THEN 0 ELSE k - 1 + 1
      BY FS_Interval
    <3>. QED  BY <1>3, <3>1, <3>2
  <2>4. Cardinality(1 .. n + 1) <= Cardinality(ofArtists \cup ofSongs)
    BY <2>1, <2>2, FS_Subset
  <2>5. Cardinality(ofArtists \cup ofSongs) \in Nat
    BY <2>2, FS_CardinalityType
  <2>. QED  BY <1>1, <1>2, <1>3, <2>2, <2>3, <2>4, <2>5
<1>5. T!Batches \ {0} = 1 .. n + 1
  BY <1>3, TrashCounts DEF T!Batches
<1>. QED  BY <1>4, <1>5 DEF T!UnusedBatch

\* One transaction or job goes on, and no row changes.
LEMMA TrashGoes ==
    ASSUME TrashInv, NEW x \in Requests, NEW r \in T!OpRecords,
           p3' = [p3 EXCEPT ![x] = r], UNCHANGED <<p1, p2, p4>>, OpFits(x)',
           \A y \in Requests \ {x} :
              /\ p3[y].locked \cap r.locked = {}
              /\ p3[y].pc \in {"create", "inserted"} => p3[y].songs \cap r.songs = {}
              /\ ~(p3[y].pc = "inserted" /\ r.pc = "inserted")
    PROVE  TrashInv' /\ T!SparesLiveSongs
<1>1. /\ p3' \in [Requests -> T!OpRecords] /\ p3'[x] = r
      /\ \A y \in Requests : y # x => p3'[y] = p3[y]
  BY TrashTyped DEF TrashInv
<1>2. T!TrashTypeOK'
  BY <1>1 DEF TrashInv, T!TrashTypeOK
<1>3. T!TrashSafety'
  BY DEF TrashInv, T!TrashSafety, T!SongsWithinLimit, T!StaysInTrash, T!LiveSongs
<1>4. ASSUME NEW y \in Requests, y # x
      PROVE  OpFits(y)'
  <2>1. OpFits(y) /\ p3'[y] = p3[y]
    BY <1>1, <1>4 DEF TrashInv
  <2>2. p3[y].pc \in {"create", "inserted"} => Creates(y)'
    BY <1>1, <1>4, <2>1 DEF OpFits, Creates
  <2>3. RestoresSong(y) \/ RestoresArtist(y) => RestoresSong(y)' \/ RestoresArtist(y)'
    BY <2>1 DEF RestoresSong, RestoresArtist
  <2>4. Deletes(y) => Deletes(y)'
    BY <2>1 DEF Deletes
  <2>5. Cardinality(T!LiveSongs)' = Cardinality(T!LiveSongs)
    BY DEF T!LiveSongs
  <2>. QED  BY <2>1, <2>2, <2>3, <2>4, <2>5 DEF OpFits, T!SongsOf
<1>5. (\A y, z \in Requests : y # z => p3[y].locked \cap p3[z].locked = {})'
  BY <1>1 DEF TrashInv
<1>6. (\A y, z \in Requests : p3[y].pc = "inserted" /\ p3[z].pc = "inserted" => y = z)'
  BY <1>1 DEF TrashInv
<1>7. TrashInv'
  BY <1>2, <1>3, <1>4, <1>5, <1>6 DEF TrashInv, RowFits
<1>. QED  BY <1>7 DEF T!SparesLiveSongs

\* What a step may do to a song when others than those in X hold their locks,
\* create and restore.
SongMoves(X, s) ==
    \/ p2'[s] = p2[s] /\ (s \in p4' => s \in p4)
    \/ /\ p2[s].at \in T!InTrash /\ p2'[s].at \in T!InTrash
       /\ p2'[s].batch = p2[s].batch /\ (s \in p4' => s \in p4)
    \/ /\ p2'[s] = T!GoneRow /\ s \notin p4'
       /\ \A y \in Requests \ X : s \notin p3[y].locked
    \/ /\ p2[s].at = "live" /\ p2'[s].at \in T!InTrash
       /\ p2'[s].batch = T!UnusedBatch
       /\ s \in p4' => s \in p4 \/ p1' = p1
       /\ \A a \in Artists : p1'[a] = p1[a] \/ (ArtistOf[s] = a /\ p4' = p4)
    \/ /\ p2'[s] = T!LiveRow /\ s \notin p4'
       /\ \A y \in Requests \ X :
             /\ s \notin p3[y].locked /\ p3[y].pc # "inserted"
             /\ p3[y].pc = "create" => s \notin p3[y].songs
             /\ p3[y].pc = "restoring" => ~(RestoresArtist(y) /\ s \in p3[y].songs)

\* And to an artist.
ArtistMoves(X, a) ==
    \/ p1'[a] = p1[a]
    \/ /\ p1[a].at \in T!InTrash /\ p1'[a].at \in T!InTrash
       /\ p1'[a].batch = p1[a].batch
    \/ /\ p1'[a] = T!GoneRow \/ p1'[a] = T!LiveRow
       /\ \A y \in Requests \ X : a \in p3[y].locked => p1[a].at \notin T!InTrash
    \/ /\ p1'[a].at \in T!InTrash /\ p1'[a].batch = T!UnusedBatch
       /\ \A y \in Requests \ X : a \notin p3[y].locked

\* Such steps keep what the others count on.
LEMMA TrashRows ==
    ASSUME TrashInv, NEW X \in SUBSET Requests, T!TrashTypeOK',
           \A s \in Songs : SongMoves(X, s), \A a \in Artists : ArtistMoves(X, a),
           Cardinality(T!LiveSongs)' <= SongLimit,
           \A x \in X : /\ p3'[x].songs = {} /\ p3'[x].locked = {}
                        /\ p3'[x].pc \in {"idle", "purged"},
           \A y \in Requests \ X : p3'[y] = p3[y]
    PROVE  TrashInv'
<1>. T!TrashTypeOK
  BY DEF TrashInv
<1>1. /\ T!UnusedBatch # 0
      /\ \A a \in Artists : p1[a].batch # T!UnusedBatch
      /\ \A s \in Songs : p2[s].batch # T!UnusedBatch
  BY BatchUnused
<1>2. ASSUME NEW a \in Artists
      PROVE  RowFits(p1[a])'
  BY <1>1, RowKinds DEF TrashInv, ArtistMoves, RowFits
<1>3. ASSUME NEW s \in Songs
      PROVE  RowFits(p2[s])'
  BY <1>1, RowKinds DEF TrashInv, SongMoves, RowFits
<1>4. T!StaysInTrash'
  <2>1. SUFFICES ASSUME NEW s \in p4', s \in Songs
                 PROVE  p2'[s].at \in T!InTrash
    BY DEF T!TrashTypeOK, T!StaysInTrash
  <2>. QED  BY <2>1 DEF TrashInv, T!TrashSafety, T!StaysInTrash, SongMoves
<1>5. T!TrashSafety'
  BY <1>4, TrashCounts DEF T!TrashSafety, T!SongsWithinLimit
<1>6. ASSUME NEW s \in Songs, NEW a \in Artists,
             p2'[s].at \in T!InTrash, p1'[a].at \in T!InTrash, p2'[s].batch = p1'[a].batch
      PROVE  ArtistOf[s] = a /\ s \notin p4'
  <2>1. \/ /\ p1[a].at \in T!InTrash /\ p1'[a].batch = p1[a].batch
        \/ p1'[a].batch = T!UnusedBatch
    BY <1>6, RowKinds DEF ArtistMoves
  <2>2. CASE /\ p2[s].at \in T!InTrash /\ p2'[s].batch = p2[s].batch
             /\ s \in p4' => s \in p4
    BY <1>1, <1>6, <2>1, <2>2 DEF TrashInv
  <2>3. CASE /\ p2[s].at = "live" /\ p2'[s].batch = T!UnusedBatch
             /\ s \in p4' => s \in p4 \/ p1' = p1
             /\ \A b \in Artists : p1'[b] = p1[b] \/ (ArtistOf[s] = b /\ p4' = p4)
    <3>1. p1'[a] # p1[a]
      BY <1>1, <1>6, <2>3
    <3>2. s \notin p4
      BY <2>3, RowKinds DEF TrashInv, T!TrashSafety, T!StaysInTrash
    <3>. QED  BY <2>3, <3>1, <3>2
  <2>4. SongMoves(X, s)
    OBVIOUS
  <2>. QED  BY <1>6, <2>2, <2>3, <2>4, RowKinds DEF SongMoves
<1>7. ASSUME NEW y \in Requests \ X
      PROVE  OpFits(y)'
  <2>1. OpFits(y) /\ p3'[y] = p3[y] /\ p3[y] \in T!OpRecords /\ p3[y].songs \subseteq Songs
    BY TrashTyped, OpFields DEF TrashInv
  <2>2. ASSUME NEW s \in Songs, s \in p3[y].locked, p2[s].at \in T!InTrash
        PROVE  p2'[s].at \in T!InTrash /\ p2'[s].batch = p2[s].batch
    BY <2>2, RowKinds DEF SongMoves
  <2>3. ASSUME Creates(y), p3[y].pc \in {"create", "inserted"}
        PROVE  Creates(y)'
    <3>1. PICK s \in Songs : p3[y].songs = {s} /\ p2[s] = T!GoneRow
      BY <2>3 DEF Creates
    <3>2. p2'[s] = T!GoneRow
      BY <2>3, <3>1, RowKinds DEF SongMoves
    <3>3. \A z \in Requests \ {y} : p3'[z].songs \cap p3[y].songs = {}
      BY <2>3 DEF Creates
    <3>. QED  BY <2>1, <2>3, <3>1, <3>2, <3>3 DEF Creates
  <2>4. ASSUME p3[y].pc = "inserted", Cardinality(T!LiveSongs) + 1 <= SongLimit
        PROVE  (Cardinality(T!LiveSongs) + 1 <= SongLimit)'
    <3>1. T!LiveSongs' \subseteq T!LiveSongs
      <4>1. SUFFICES ASSUME NEW s \in Songs, p2'[s].at = "live"
                     PROVE  p2[s].at = "live"
        BY DEF T!LiveSongs
      <4>. QED  BY <2>4, <4>1, RowKinds DEF SongMoves
    <3>2. IsFiniteSet(T!LiveSongs)
      BY FS_Subset, WorkspaceBounds DEF T!LiveSongs
    <3>3. Cardinality(T!LiveSongs') <= Cardinality(T!LiveSongs)
          /\ Cardinality(T!LiveSongs') \in Nat /\ Cardinality(T!LiveSongs) \in Nat
      BY <3>1, <3>2, FS_Subset, FS_CardinalityType
    <3>. QED  BY <2>4, <3>3, WorkspaceBounds
  <2>5. ASSUME RestoresSong(y)
        PROVE  RestoresSong(y)'
    <3>1. PICK s \in Songs :
             /\ p3[y].songs = {s} /\ p3[y].locked = {s} /\ p2[s].at \in T!InTrash
             /\ \/ p3[y].artists = {ArtistOf[s]}
                \/ /\ p3[y].artists = {}
                   /\ p1[ArtistOf[s]].at \in T!InTrash =>
                         p1[ArtistOf[s]].batch # p2[s].batch
      BY <2>5 DEF RestoresSong
    <3>2. p2'[s].at \in T!InTrash /\ p2'[s].batch = p2[s].batch
      BY <2>2, <3>1
    <3>3. ArtistOf[s] \in Artists
      BY WorkspaceBounds
    <3>4. ASSUME p1'[ArtistOf[s]].at \in T!InTrash, p3[y].artists = {},
                 ArtistOf[s] \in Artists
          PROVE  p1'[ArtistOf[s]].batch # p2[s].batch
      <4>1. ArtistMoves(X, ArtistOf[s])
        BY <3>3
      <4>2. p3[y].artists # {ArtistOf[s]}
        BY <3>4
      <4>. QED  BY <1>1, <3>1, <3>4, <4>1, <4>2, RowKinds DEF ArtistMoves
    <3>. QED  BY <2>1, <3>1, <3>2, <3>3, <3>4 DEF RestoresSong
  <2>6. ASSUME RestoresArtist(y), p3[y].pc = "restoring"
        PROVE  RestoresArtist(y)'
    <3>1. PICK a \in Artists :
             /\ p3[y].artists = {a} /\ p3[y].locked = {a} /\ p1[a].at \in T!InTrash
             /\ \A s \in p3[y].songs :
                   \/ p2[s] = T!GoneRow
                   \/ p2[s].at \in T!InTrash /\ p2[s].batch = p1[a].batch
      BY <2>6 DEF RestoresArtist
    <3>2. p1'[a].at \in T!InTrash /\ p1'[a].batch = p1[a].batch
      BY <3>1, RowKinds DEF ArtistMoves
    <3>3. ASSUME NEW s \in p3[y].songs
          PROVE  \/ p2'[s] = T!GoneRow
                 \/ p2'[s].at \in T!InTrash /\ p2'[s].batch = p1[a].batch
      <4>1. s \in Songs /\ SongMoves(X, s)
        BY <2>1
      <4>2. p2[s].at # "live" /\ p2'[s] # T!LiveRow
        BY <2>6, <3>1, <4>1, RowKinds DEF SongMoves
      <4>. QED  BY <3>1, <4>1, <4>2, RowKinds DEF SongMoves
    <3>. QED  BY <2>1, <3>1, <3>2, <3>3 DEF RestoresArtist
  <2>7. ASSUME Deletes(y)
        PROVE  Deletes(y)'
    BY <2>1, <2>2, <2>7 DEF Deletes
  <2>. QED  BY <2>1, <2>3, <2>4, <2>5, <2>6, <2>7 DEF OpFits, T!SongsOf
<1>8. ASSUME NEW x \in X
      PROVE  OpFits(x)'
  BY <1>8 DEF OpFits, Deletes
<1>9. (\A y, z \in Requests : y # z => p3[y].locked \cap p3[z].locked = {})'
  BY DEF TrashInv
<1>10. (\A y, z \in Requests : p3[y].pc = "inserted" /\ p3[z].pc = "inserted" => y = z)'
  BY DEF TrashInv
<1>. QED  BY <1>2, <1>3, <1>5, <1>6, <1>7, <1>8, <1>9, <1>10 DEF TrashInv

\* No more songs than before are within the limit.
LEMMA FewerLive ==
    ASSUME TrashInv, T!LiveSongs' \subseteq T!LiveSongs
    PROVE  Cardinality(T!LiveSongs)' <= SongLimit
<1>1. IsFiniteSet(T!LiveSongs)
  BY FS_Subset, WorkspaceBounds DEF T!LiveSongs
<1>2. Cardinality(T!LiveSongs') <= Cardinality(T!LiveSongs)
      /\ Cardinality(T!LiveSongs') \in Nat /\ Cardinality(T!LiveSongs) \in Nat
  BY <1>1, FS_Subset, FS_CardinalityType
<1>3. Cardinality(T!LiveSongs) <= SongLimit
  BY TrashCounts DEF TrashInv, T!TrashSafety, T!SongsWithinLimit
<1>. QED  BY <1>2, <1>3, WorkspaceBounds

\* Rows are deleted that nobody else has locked.
LEMMA TrashDeletes ==
    ASSUME TrashInv, NEW X \in SUBSET Requests, NEW as \in SUBSET Artists,
           NEW ss \in SUBSET Songs, T!Deleted(as, ss),
           p3' \in [Requests -> T!OpRecords],
           \A y \in Requests \ X :
              /\ p3[y].locked \cap as = {}
              /\ \A s \in Songs : s \in ss \/ ArtistOf[s] \in as => s \notin p3[y].locked,
           \A x \in X : /\ p3'[x].songs = {} /\ p3'[x].locked = {}
                        /\ p3'[x].pc \in {"idle", "purged"},
           \A y \in Requests \ X : p3'[y] = p3[y]
    PROVE  TrashInv'
<1>. T!TrashTypeOK
  BY DEF TrashInv
<1>1. T!TrashTypeOK'
  <2>1. p1' \in [Artists -> T!Rows] /\ p2' \in [Songs -> T!Rows] /\ p4' \subseteq Songs
    BY TrashTyped DEF T!Deleted
  <2>. QED  BY <2>1 DEF T!TrashTypeOK
<1>2. ASSUME NEW s \in Songs
      PROVE  SongMoves(X, s)
  BY DEF T!Deleted, SongMoves
<1>3. ASSUME NEW a \in Artists
      PROVE  ArtistMoves(X, a)
  BY DEF T!Deleted, ArtistMoves
<1>4. T!LiveSongs' \subseteq T!LiveSongs
  BY RowKinds DEF T!LiveSongs, T!Deleted
<1>5. Cardinality(T!LiveSongs)' <= SongLimit
  BY <1>4, FewerLive
<1>. QED  BY <1>1, <1>2, <1>3, <1>5, TrashRows

\* At the start every artist is live and there are no songs.
LEMMA TrashStarts ==
    ASSUME T!TrashInit
    PROVE  TrashInv
<1>1. 0 \in T!Batches
  BY TrashCounts, WorkspaceBounds, FS_CardinalityType DEF T!Batches
<1>2. T!GoneRow \in T!Rows /\ T!LiveRow \in T!Rows
  BY <1>1 DEF T!Rows, T!GoneRow, T!LiveRow, T!Places
<1>3. T!NoOp \in T!OpRecords
  BY DEF T!NoOp, T!OpRecords, T!OpPCs
<1>4. T!TrashTypeOK
  BY <1>2, <1>3 DEF T!TrashInit, T!TrashTypeOK
<1>5. T!LiveSongs = {}
  BY RowKinds DEF T!TrashInit, T!LiveSongs
<1>6. T!TrashSafety
  <2>1. Cardinality(T!LiveSongs) <= SongLimit
    BY <1>5, FS_EmptySet, WorkspaceBounds
  <2>. QED  BY <2>1, TrashCounts
            DEF T!TrashInit, T!TrashSafety, T!SongsWithinLimit, T!StaysInTrash
<1>. QED  BY <1>4, <1>6, RowKinds DEF T!TrashInit, TrashInv, RowFits, OpFits

\* Rows nobody has locked are trashed or deleted, and time passes.
LEMMA TrashAlone ==
    ASSUME TrashInv, \/ \E s \in Songs : T!TrashSong(s) \/ T!DeleteSong(s)
                     \/ \E a \in Artists : T!CreateArtist(a) \/ T!DeleteArtist(a)
                     \/ T!Age
    PROVE  TrashInv' /\ T!SparesLiveSongs
<1>. T!TrashTypeOK
  BY DEF TrashInv
<1>0. p3' = p3 /\ p3' \in [Requests -> T!OpRecords]
  BY TrashTyped DEF T!TrashSong, T!DeleteSong, T!CreateArtist, T!DeleteArtist, T!Age
<1>1. PICK X \in SUBSET Requests : X = {}
  OBVIOUS
<1>2. ASSUME NEW s \in Songs, T!TrashSong(s)
      PROVE  TrashInv'
  <2>1. PICK gone : gone = [at |-> "trash", batch |-> T!UnusedBatch]
    OBVIOUS
  <2>2. gone \in T!Rows /\ gone.at \in T!InTrash /\ gone.batch = T!UnusedBatch
    BY <2>1, BatchUnused, RowKinds DEF T!Rows, T!Places
  <2>3. /\ p2' = [p2 EXCEPT ![s] = gone] /\ p1' = p1 /\ p2[s].at = "live"
        /\ p4' = p4 \cup {s}
    BY <1>2, <2>1 DEF T!TrashSong
  <2>4. T!TrashTypeOK'
    BY <1>0, <2>2, <2>3, TrashTyped DEF T!TrashTypeOK
  <2>5. ASSUME NEW t \in Songs
        PROVE  SongMoves(X, t)
    BY <2>2, <2>3, TrashTyped DEF SongMoves
  <2>6. \A a \in Artists : ArtistMoves(X, a)
    BY <2>3 DEF ArtistMoves
  <2>7. T!LiveSongs' \subseteq T!LiveSongs
    BY <2>2, <2>3, TrashTyped, RowKinds DEF T!LiveSongs
  <2>. QED  BY <1>0, <1>1, <2>4, <2>5, <2>6, <2>7, FewerLive, TrashRows
<1>3. ASSUME NEW s \in Songs, T!DeleteSong(s)
      PROVE  TrashInv'
  BY <1>0, <1>1, <1>3, TrashDeletes DEF T!DeleteSong, T!Free
<1>4. ASSUME NEW a \in Artists, T!DeleteArtist(a)
      PROVE  TrashInv'
  <2>1. PICK with \in SUBSET Songs :
           /\ with = {s \in Songs : p2[s].at \in T!InTrash /\ p2[s].batch = p1[a].batch}
           /\ T!Deleted({a}, with) /\ p1[a].at \in T!InTrash
           /\ T!Free({a} \cup T!SongsOf(a))
    BY <1>4 DEF T!DeleteArtist
  <2>2. with \subseteq T!SongsOf(a)
    BY <2>1 DEF TrashInv, T!SongsOf
  <2>3. \A y \in Requests : p3[y].locked \cap ({a} \cup T!SongsOf(a)) = {}
    BY <2>1 DEF T!Free
  <2>4. \A y \in Requests \ X :
              /\ p3[y].locked \cap {a} = {}
              /\ \A s \in Songs : s \in with \/ ArtistOf[s] \in {a} => s \notin p3[y].locked
    BY <2>2, <2>3 DEF T!SongsOf
  <2>5. {a} \in SUBSET Artists
    OBVIOUS
  <2>. QED  BY <1>0, <1>1, <2>1, <2>4, <2>5, TrashDeletes
<1>5. ASSUME NEW a \in Artists, T!CreateArtist(a)
      PROVE  TrashInv'
  <2>1. p1' = [p1 EXCEPT ![a] = T!LiveRow] /\ p1[a] = T!GoneRow /\ p2' = p2 /\ p4' = p4
    BY <1>5 DEF T!CreateArtist
  <2>2. T!TrashTypeOK'
    BY <1>0, <2>1, TrashTyped DEF T!TrashTypeOK
  <2>3. \A s \in Songs : SongMoves(X, s)
    BY <2>1 DEF SongMoves
  <2>4. ASSUME NEW b \in Artists
        PROVE  ArtistMoves(X, b)
    BY <2>1, TrashTyped, RowKinds DEF ArtistMoves
  <2>5. T!LiveSongs' \subseteq T!LiveSongs
    BY <2>1 DEF T!LiveSongs
  <2>. QED  BY <1>0, <1>1, <2>2, <2>3, <2>4, <2>5, FewerLive, TrashRows
<1>6. ASSUME T!Age
      PROVE  TrashInv'
  <2>1. ASSUME NEW row \in T!Rows, NEW n, n = [row EXCEPT !.at = "old"]
        PROVE  n \in T!Rows /\ n.at = "old" /\ n.batch = row.batch
    BY <2>1 DEF T!Rows, T!Places
  <2>2. ASSUME NEW s \in Songs
        PROVE  /\ p2'[s] \in T!Rows /\ SongMoves(X, s)
               /\ p2'[s].at = "live" => p2[s].at = "live"
    BY <1>6, <2>1, TrashTyped, RowKinds DEF T!Age, SongMoves
  <2>3. ASSUME NEW a \in Artists
        PROVE  p1'[a] \in T!Rows /\ ArtistMoves(X, a)
    BY <1>6, <2>1, TrashTyped, RowKinds DEF T!Age, ArtistMoves
  <2>4. T!TrashTypeOK'
    BY <1>0, <1>6, <2>2, <2>3, TrashTyped DEF T!TrashTypeOK, T!Age
  <2>5. T!LiveSongs' \subseteq T!LiveSongs
    BY <2>2 DEF T!LiveSongs
  <2>. QED  BY <1>0, <1>1, <2>2, <2>3, <2>4, <2>5, FewerLive, TrashRows
<1>. QED  BY <1>0, <1>2, <1>3, <1>4, <1>5, <1>6 DEF T!SparesLiveSongs

\* A song is created.
LEMMA TrashCreates ==
    ASSUME TrashInv, NEW x \in Requests,
           (\E s \in Songs : T!AskCreateSong(x, s)) \/ T!InsertSong(x) \/ T!CommitSong(x)
    PROVE  TrashInv' /\ T!SparesLiveSongs
<1>. T!TrashTypeOK
  BY DEF TrashInv
<1>1. ASSUME NEW s \in Songs, T!AskCreateSong(x, s)
      PROVE  TrashInv' /\ T!SparesLiveSongs
  <2>1. PICK r : r = [T!NoOp EXCEPT !.pc = "create", !.songs = {s}]
    OBVIOUS
  <2>2. /\ r \in T!OpRecords /\ r.pc = "create" /\ r.songs = {s} /\ r.locked = {}
    BY <2>1 DEF T!NoOp, T!OpRecords, T!OpPCs
  <2>3. /\ p3' = [p3 EXCEPT ![x] = r] /\ UNCHANGED <<p1, p2, p4>>
        /\ p2[s] = T!GoneRow /\ \A y \in Requests : s \notin p3[y].songs
    BY <1>1, <2>1 DEF T!AskCreateSong, T!BeginOp
  <2>4. p3'[x] = r /\ \A y \in Requests : y # x => p3'[y] = p3[y]
    BY <2>3, TrashTyped
  <2>5. Creates(x)'
    BY <2>2, <2>3, <2>4 DEF Creates
  <2>6. OpFits(x)'
    BY <2>2, <2>4, <2>5 DEF OpFits
  <2>. QED  BY <2>2, <2>3, <2>6, TrashGoes
<1>2. ASSUME T!InsertSong(x)
      PROVE  TrashInv' /\ T!SparesLiveSongs
  <2>1. p3[x].pc = "create" /\ Creates(x) /\ UNCHANGED <<p1, p2, p4>>
        /\ \A y \in Requests : p3[y].pc # "inserted"
    BY <1>2 DEF T!InsertSong, TrashInv, OpFits, T!SongQuotaFree
  <2>2. CASE p3' = [p3 EXCEPT ![x] = T!NoOp]
    <3>1. p3'[x] = T!NoOp
      BY <2>2, TrashTyped
    <3>2. OpFits(x)'
      BY <3>1, RowKinds DEF OpFits
    <3>. QED  BY <2>1, <2>2, <3>2, RowKinds, TrashTyped, TrashGoes
  <2>3. CASE p3' = [p3 EXCEPT ![x].pc = "inserted"] /\ T!QuotaHolds(1)
    <3>1. PICK r : r = [p3[x] EXCEPT !.pc = "inserted"]
      OBVIOUS
    <3>2. r \in T!OpRecords /\ r.pc = "inserted" /\ r.songs = p3[x].songs
          /\ r.locked = p3[x].locked
      BY <3>1, TrashTyped DEF T!OpRecords, T!OpPCs
    <3>3. p3' = [p3 EXCEPT ![x] = r] /\ p3'[x] = r
          /\ \A y \in Requests : y # x => p3'[y] = p3[y]
      BY <2>3, <3>1, TrashTyped
    <3>4. Creates(x)'
      BY <2>1, <3>2, <3>3 DEF Creates
    <3>5. (Cardinality(T!LiveSongs) + 1 <= SongLimit)'
      BY <2>1, <2>3, TrashCounts DEF T!QuotaHolds, T!LiveSongs
    <3>6. OpFits(x)'
      BY <3>2, <3>3, <3>4, <3>5 DEF OpFits
    <3>7. \A y \in Requests \ {x} :
              /\ p3[y].locked \cap r.locked = {}
              /\ p3[y].songs \cap r.songs = {}
      BY <2>1, <3>2 DEF Creates
    <3>. QED  BY <2>1, <3>2, <3>3, <3>6, <3>7, TrashGoes
  <2>. QED  BY <1>2, <2>2, <2>3 DEF T!InsertSong, T!EndOp
<1>3. ASSUME T!CommitSong(x)
      PROVE  TrashInv'
  <2>1. PICK X \in SUBSET Requests : X = {x}
    OBVIOUS
  <2>2. p3[x].pc = "inserted" /\ Creates(x) /\ Cardinality(T!LiveSongs) + 1 <= SongLimit
    BY <1>3 DEF T!CommitSong, TrashInv, OpFits
  <2>3. PICK s \in Songs : p3[x].songs = {s} /\ p2[s] = T!GoneRow
    BY <2>2 DEF Creates
  <2>4. /\ p2' = [t \in Songs |-> IF t \in {s} THEN T!LiveRow ELSE p2[t]]
        /\ p3' = [p3 EXCEPT ![x] = T!NoOp] /\ UNCHANGED <<p1, p4>>
    BY <1>3, <2>3 DEF T!CommitSong, T!EndOp
  <2>5. /\ p3' \in [Requests -> T!OpRecords] /\ p3'[x] = T!NoOp
        /\ \A y \in Requests : y # x => p3'[y] = p3[y]
    BY <2>4, TrashTyped
  <2>6. T!TrashTypeOK'
    BY <2>4, <2>5, TrashTyped DEF T!TrashTypeOK
  <2>7. ASSUME NEW y \in Requests \ X
        PROVE  /\ p3[y].pc # "inserted" /\ s \notin p3[y].songs /\ s \notin p3[y].locked
    <3>1. p3[y].pc # "inserted" /\ s \notin p3[y].songs
      BY <2>1, <2>2, <2>3 DEF TrashInv, Creates
    <3>2. p3[y] \in T!OpRecords /\ OpFits(y)
      BY TrashTyped DEF TrashInv
    <3>3. ASSUME s \in p3[y].locked
          PROVE  FALSE
      <4>1. s \notin Artists
        BY WorkspaceBounds
      <4>2. p3[y].pc \notin {"idle", "create", "inserted", "purge", "trashing"}
        BY <3>2, <3>3, <4>1 DEF OpFits, Creates
      <4>3. p3[y].pc # "restoring"
        BY <3>1, <3>2, <3>3, <4>1 DEF OpFits, RestoresSong, RestoresArtist
      <4>4. p3[y].pc \notin {"emptied", "purged", "sweep"}
        BY <3>1, <3>2, <3>3 DEF OpFits, Deletes
      <4>. QED  BY <3>2, <4>2, <4>3, <4>4, OpFields DEF T!OpPCs
    <3>. QED  BY <3>1, <3>3
  <2>8. s \notin p4
    BY <2>3, RowKinds DEF TrashInv, T!TrashSafety, T!StaysInTrash
  <2>9. ASSUME NEW t \in Songs
        PROVE  SongMoves(X, t)
    <3>1. CASE t = s
      BY <2>4, <2>7, <2>8, <3>1 DEF SongMoves
    <3>2. CASE t # s
      BY <2>4, <3>2 DEF SongMoves
    <3>. QED  BY <3>1, <3>2
  <2>10. \A a \in Artists : ArtistMoves(X, a)
    BY <2>4 DEF ArtistMoves
  <2>11. Cardinality(T!LiveSongs)' <= SongLimit
    <3>1. T!LiveSongs' = T!LiveSongs \cup {s} /\ s \notin T!LiveSongs
      BY <2>3, <2>4, RowKinds DEF T!LiveSongs
    <3>2. IsFiniteSet(T!LiveSongs)
      BY FS_Subset, WorkspaceBounds DEF T!LiveSongs
    <3>. QED  BY <2>2, <3>1, <3>2, FS_AddElement
  <2>. QED  BY <2>1, <2>5, <2>6, <2>9, <2>10, <2>11, RowKinds, TrashRows
<1>4. T!CommitSong(x) => T!SparesLiveSongs
  BY TrashTyped, RowKinds DEF T!CommitSong, T!SparesLiveSongs
<1>. QED  BY <1>1, <1>2, <1>3, <1>4

\* A transaction ends without a write, or an artist is trashed with its songs.
LEMMA TrashTakes ==
    ASSUME TrashInv, NEW x \in Requests,
           \/ T!AbortOp(x) \/ T!TrashArtist(x)
           \/ \E a \in Artists : T!BeginArtistTrash(x, a)
    PROVE  TrashInv' /\ T!SparesLiveSongs
<1>. T!TrashTypeOK
  BY DEF TrashInv
<1>1. ASSUME T!AbortOp(x)
      PROVE  TrashInv' /\ T!SparesLiveSongs
  <2>1. p3' = [p3 EXCEPT ![x] = T!NoOp] /\ UNCHANGED <<p1, p2, p4>>
    BY <1>1 DEF T!AbortOp, T!EndOp
  <2>2. p3'[x] = T!NoOp
    BY <2>1, TrashTyped
  <2>3. OpFits(x)'
    BY <2>2, RowKinds DEF OpFits
  <2>. QED  BY <2>1, <2>3, RowKinds, TrashTyped, TrashGoes
<1>2. ASSUME NEW a \in Artists, T!BeginArtistTrash(x, a)
      PROVE  TrashInv' /\ T!SparesLiveSongs
  <2>1. PICK r : r = [T!NoOp EXCEPT !.pc = "trashing", !.artists = {a}, !.locked = {a}]
    OBVIOUS
  <2>2. /\ r \in T!OpRecords /\ r.pc = "trashing" /\ r.songs = {} /\ r.locked = {a}
        /\ r.artists = {a}
    BY <2>1 DEF T!NoOp, T!OpRecords, T!OpPCs
  <2>3. /\ p3' = [p3 EXCEPT ![x] = r] /\ UNCHANGED <<p1, p2, p4>>
        /\ \A y \in Requests : p3[y].locked \cap {a} = {}
    BY <1>2, <2>1 DEF T!BeginArtistTrash, T!BeginOp, T!Free
  <2>4. p3'[x] = r
    BY <2>3, TrashTyped
  <2>5. OpFits(x)'
    BY <2>2, <2>4 DEF OpFits
  <2>. QED  BY <2>2, <2>3, <2>5, TrashGoes
<1>3. ASSUME T!TrashArtist(x)
      PROVE  TrashInv' /\ T!SparesLiveSongs
  <2>1. PICK X \in SUBSET Requests : X = {x}
    OBVIOUS
  <2>2. PICK a \in Artists : p3[x].artists = {a} /\ p3[x].locked = {a}
    BY <1>3 DEF T!TrashArtist, TrashInv, OpFits
  <2>3. PICK gone : gone = [at |-> "trash", batch |-> T!UnusedBatch]
    OBVIOUS
  <2>4. gone \in T!Rows /\ gone.at \in T!InTrash /\ gone.batch = T!UnusedBatch
    BY <2>3, BatchUnused, RowKinds DEF T!Rows, T!Places
  <2>5. (CHOOSE b \in p3[x].artists : TRUE) = a
    BY <2>2
  <2>6. /\ p1' = [p1 EXCEPT ![a] = gone]
        /\ p2' = [s \in Songs |-> IF s \in T!TakenAlong(a) THEN gone ELSE p2[s]]
        /\ p3' = [p3 EXCEPT ![x] = T!NoOp] /\ p4' = p4
    BY <1>3, <2>3, <2>5 DEF T!TrashArtist, T!EndOp
  <2>7. /\ p3' \in [Requests -> T!OpRecords] /\ p3'[x] = T!NoOp
        /\ \A y \in Requests : y # x => p3'[y] = p3[y]
    BY <2>6, TrashTyped
  <2>8. T!TrashTypeOK'
    BY <2>4, <2>6, <2>7, TrashTyped DEF T!TrashTypeOK
  <2>9. ASSUME NEW s \in Songs
        PROVE  SongMoves(X, s)
    <3>1. CASE s \in T!TakenAlong(a)
      <4>1. p2[s].at = "live" /\ ArtistOf[s] = a /\ p2'[s] = gone
        BY <2>6, <3>1 DEF T!TakenAlong, T!SongsOf, T!LiveSongs
      <4>2. \A b \in Artists : p1'[b] = p1[b] \/ (ArtistOf[s] = b /\ p4' = p4)
        BY <2>6, <4>1, TrashTyped
      <4>. QED  BY <2>4, <2>6, <4>1, <4>2 DEF SongMoves
    <3>2. CASE s \notin T!TakenAlong(a)
      BY <2>6, <3>2 DEF SongMoves
    <3>. QED  BY <3>1, <3>2
  <2>10. ASSUME NEW b \in Artists
         PROVE  ArtistMoves(X, b)
    <3>1. \A y \in Requests \ X : a \notin p3[y].locked
      BY <2>1, <2>2 DEF TrashInv
    <3>. QED  BY <2>4, <2>6, <3>1, TrashTyped DEF ArtistMoves
  <2>11. T!LiveSongs' \subseteq T!LiveSongs
    BY <2>4, <2>6, RowKinds DEF T!LiveSongs
  <2>12. TrashInv'
    BY <2>1, <2>7, <2>8, <2>9, <2>10, <2>11, RowKinds, FewerLive, TrashRows
  <2>13. T!SparesLiveSongs
    BY <2>4, <2>6, RowKinds DEF T!SparesLiveSongs
  <2>. QED  BY <2>12, <2>13
<1>. QED  BY <1>1, <1>2, <1>3

\* A song or an artist is to be restored.
LEMMA TrashAsksRestore ==
    ASSUME TrashInv, NEW x \in Requests,
           \/ \E s \in Songs : T!BeginRestoreSong(x, s)
           \/ \E a \in Artists : T!BeginRestoreArtist(x, a)
    PROVE  TrashInv' /\ T!SparesLiveSongs
<1>. T!TrashTypeOK
  BY DEF TrashInv
\* What is in the trash is not what somebody creates.
<1>1. ASSUME NEW y \in Requests, p3[y].pc \in {"create", "inserted"},
             NEW s \in Songs, p2[s].at \in T!InTrash
      PROVE  s \notin p3[y].songs
  BY <1>1, RowKinds DEF TrashInv, OpFits, Creates
<1>2. ASSUME NEW s \in Songs, T!BeginRestoreSong(x, s)
      PROVE  TrashInv' /\ T!SparesLiveSongs
  <2>1. PICK with : with = IF p1[ArtistOf[s]].at \in T!InTrash THEN {ArtistOf[s]} ELSE {}
    OBVIOUS
  <2>2. with \subseteq Artists
    BY <2>1, WorkspaceBounds
  <2>3. PICK r : r = [T!NoOp EXCEPT !.pc = "restoring", !.songs = {s}, !.artists = with,
                             !.locked = {s}]
    OBVIOUS
  <2>4. /\ r \in T!OpRecords /\ r.pc = "restoring" /\ r.songs = {s} /\ r.locked = {s}
        /\ r.artists = with
    BY <2>2, <2>3 DEF T!NoOp, T!OpRecords, T!OpPCs
  <2>5. /\ p3' = [p3 EXCEPT ![x] = r] /\ UNCHANGED <<p1, p2, p4>>
        /\ p2[s].at \in T!InTrash /\ T!Free({s})
    BY <1>2, <2>1, <2>3 DEF T!BeginRestoreSong, T!BeginOp
  <2>6. p3'[x] = r
    BY <2>5, TrashTyped
  <2>7. RestoresSong(x)'
    BY <2>1, <2>4, <2>5, <2>6 DEF RestoresSong
  <2>8. OpFits(x)'
    BY <2>4, <2>6, <2>7 DEF OpFits
  <2>9. \A y \in Requests \ {x} :
              /\ p3[y].locked \cap r.locked = {}
              /\ p3[y].pc \in {"create", "inserted"} => p3[y].songs \cap r.songs = {}
    BY <1>1, <2>4, <2>5 DEF T!Free
  <2>. QED  BY <2>4, <2>5, <2>8, <2>9, TrashGoes
<1>3. ASSUME NEW a \in Artists, T!BeginRestoreArtist(x, a)
      PROVE  TrashInv' /\ T!SparesLiveSongs
  <2>1. PICK with \in SUBSET Songs :
           with = {s \in Songs : p2[s].at \in T!InTrash /\ p2[s].batch = p1[a].batch}
    OBVIOUS
  <2>2. PICK r : r = [T!NoOp EXCEPT !.pc = "restoring", !.songs = with, !.artists = {a},
                             !.locked = {a}]
    OBVIOUS
  <2>3. /\ r \in T!OpRecords /\ r.pc = "restoring" /\ r.songs = with /\ r.locked = {a}
        /\ r.artists = {a}
    BY <2>2 DEF T!NoOp, T!OpRecords, T!OpPCs
  <2>4. /\ p3' = [p3 EXCEPT ![x] = r] /\ UNCHANGED <<p1, p2, p4>>
        /\ p1[a].at \in T!InTrash /\ T!Free({a})
    BY <1>3, <2>1, <2>2 DEF T!BeginRestoreArtist, T!BeginOp
  <2>5. p3'[x] = r
    BY <2>4, TrashTyped
  <2>6. RestoresArtist(x)'
    BY <2>1, <2>3, <2>4, <2>5 DEF RestoresArtist
  <2>7. OpFits(x)'
    BY <2>3, <2>5, <2>6 DEF OpFits
  <2>8. \A y \in Requests \ {x} :
              /\ p3[y].locked \cap r.locked = {}
              /\ p3[y].pc \in {"create", "inserted"} => p3[y].songs \cap r.songs = {}
    BY <1>1, <2>1, <2>3, <2>4 DEF T!Free
  <2>. QED  BY <2>3, <2>4, <2>7, <2>8, TrashGoes
<1>. QED  BY <1>2, <1>3

\* The trash is to be emptied or purged.
LEMMA TrashAsksDelete ==
    ASSUME TrashInv, NEW x \in Requests,
           T!BeginEmpty(x) \/ T!BeginPurge(x) \/ T!ChooseArtists(x)
    PROVE  TrashInv' /\ T!SparesLiveSongs
<1>. T!TrashTypeOK
  BY DEF TrashInv
<1>1. ASSUME NEW y \in Requests, p3[y].pc \in {"create", "inserted"},
             NEW s \in Songs, p2[s].at \in T!InTrash
      PROVE  s \notin p3[y].songs
  BY <1>1, RowKinds DEF TrashInv, OpFits, Creates
<1>2. ASSUME T!BeginEmpty(x)
      PROVE  TrashInv' /\ T!SparesLiveSongs
  <2>1. PICK ss \in SUBSET Songs : ss = {s \in Songs : p2[s].at \in T!InTrash}
    OBVIOUS
  <2>2. PICK r : r = [T!NoOp EXCEPT !.pc = "emptied", !.kind = "empty", !.songs = ss,
                             !.locked = ss]
    OBVIOUS
  <2>3. /\ r \in T!OpRecords /\ r.pc = "emptied" /\ r.songs = ss /\ r.locked = ss
        /\ r.kind = "empty"
    BY <2>2 DEF T!NoOp, T!OpRecords, T!OpPCs
  <2>4. /\ p3' = [p3 EXCEPT ![x] = r] /\ UNCHANGED <<p1, p2, p4>> /\ T!Free(ss)
    BY <1>2, <2>1, <2>2 DEF T!BeginEmpty, T!BeginOp
  <2>5. p3'[x] = r
    BY <2>4, TrashTyped
  <2>6. Deletes(x)'
    BY <2>1, <2>3, <2>4, <2>5 DEF Deletes
  <2>7. OpFits(x)'
    BY <2>3, <2>5, <2>6 DEF OpFits
  <2>8. \A y \in Requests \ {x} :
              /\ p3[y].locked \cap r.locked = {}
              /\ p3[y].pc \in {"create", "inserted"} => p3[y].songs \cap r.songs = {}
    BY <1>1, <2>1, <2>3, <2>4 DEF T!Free
  <2>. QED  BY <2>3, <2>4, <2>7, <2>8, TrashGoes
<1>3. ASSUME T!BeginPurge(x)
      PROVE  TrashInv' /\ T!SparesLiveSongs
  <2>1. PICK ss \in SUBSET Songs : ss = {s \in Songs : p2[s].at = "old"}
    OBVIOUS
  <2>2. PICK r : r = [T!NoOp EXCEPT !.pc = "purge", !.kind = "purge", !.live = T!LiveSongs,
                             !.songs = ss]
    OBVIOUS
  <2>3. /\ r \in T!OpRecords /\ r.pc = "purge" /\ r.songs = ss /\ r.locked = {}
        /\ r.live = T!LiveSongs
    BY <2>2 DEF T!NoOp, T!OpRecords, T!OpPCs, T!LiveSongs
  <2>4. /\ p3' = [p3 EXCEPT ![x] = r] /\ UNCHANGED <<p1, p2, p4>>
    BY <1>3, <2>1, <2>2 DEF T!BeginPurge, T!BeginOp
  <2>5. p3'[x] = r
    BY <2>4, TrashTyped
  <2>6. r.songs \cap r.live = {}
    BY <2>1, <2>3 DEF T!LiveSongs
  <2>7. OpFits(x)'
    BY <2>3, <2>5, <2>6 DEF OpFits
  <2>8. \A y \in Requests \ {x} :
              p3[y].pc \in {"create", "inserted"} => p3[y].songs \cap r.songs = {}
    BY <1>1, <2>1, <2>3, RowKinds
  <2>. QED  BY <2>3, <2>4, <2>7, <2>8, TrashGoes
<1>4. ASSUME T!ChooseArtists(x)
      PROVE  TrashInv' /\ T!SparesLiveSongs
  <2>1. p3[x] \in T!OpRecords /\ Deletes(x) /\ UNCHANGED <<p1, p2, p4>>
    BY <1>4, TrashTyped DEF T!ChooseArtists, TrashInv, OpFits
  <2>2. PICK as \in SUBSET Artists :
           /\ \A a \in as : T!Lonely(a)
           /\ p3' = [p3 EXCEPT ![x] = [p3[x] EXCEPT !.pc = "sweep", !.live = T!LiveSongs,
                                                    !.artists = as]]
    <3>. DEFINE old == IF p3[x].kind = "purge" THEN {"old"} ELSE T!InTrash
                as == {a \in Artists : p1[a].at \in old /\ T!Lonely(a)}
    <3>1. as \in SUBSET Artists /\ \A a \in as : T!Lonely(a)
      OBVIOUS
    <3>2. p3' = [p3 EXCEPT ![x] = [p3[x] EXCEPT !.pc = "sweep", !.live = T!LiveSongs,
                                                !.artists = as]]
      BY <1>4, TrashTyped DEF T!ChooseArtists
    <3>. QED  BY <3>1, <3>2
  <2>3. PICK r : r = [p3[x] EXCEPT !.pc = "sweep", !.live = T!LiveSongs, !.artists = as]
    OBVIOUS
  <2>4. /\ r \in T!OpRecords /\ r.pc = "sweep" /\ r.songs = p3[x].songs
        /\ r.locked = p3[x].locked /\ r.kind = p3[x].kind
        /\ r.live = T!LiveSongs /\ r.artists = as
    BY <2>1, <2>3 DEF T!OpRecords, T!OpPCs, T!LiveSongs
  <2>5. p3' = [p3 EXCEPT ![x] = r] /\ p3'[x] = r
    BY <2>2, <2>3, TrashTyped
  <2>6. Deletes(x)'
    BY <2>1, <2>4, <2>5 DEF Deletes
  <2>7. r.songs \cap r.live = {} /\ \A a \in r.artists : T!SongsOf(a) \cap r.live = {}
    BY <2>1, <2>2, <2>4, RowKinds DEF Deletes, T!Lonely, T!LiveSongs
  <2>8. OpFits(x)'
    BY <2>4, <2>5, <2>6, <2>7 DEF OpFits, T!SongsOf
  <2>9. \A y \in Requests \ {x} :
              /\ p3[y].locked \cap r.locked = {}
              /\ p3[y].pc \in {"create", "inserted"} => p3[y].songs \cap r.songs = {}
    BY <1>1, <2>1, <2>4, OpFields DEF TrashInv, Deletes
  <2>. QED  BY <2>1, <2>4, <2>5, <2>8, <2>9, TrashGoes
<1>. QED  BY <1>2, <1>3, <1>4

\* What was to be restored is live again, unless it is gone.
LEMMA TrashRestores ==
    ASSUME TrashInv, NEW x \in Requests, T!Restore(x)
    PROVE  TrashInv' /\ T!SparesLiveSongs
<1>. T!TrashTypeOK
  BY DEF TrashInv
<1>1. PICK X \in SUBSET Requests : X = {x}
  OBVIOUS
<1>2. PICK back \in SUBSET Songs, as \in SUBSET Artists :
         back = p3[x].songs /\ as = p3[x].artists
  BY TrashTyped, OpFields
<1>3. /\ p3[x].pc = "restoring" /\ p3' = [p3 EXCEPT ![x] = T!NoOp]
      /\ back # {} => \A y \in Requests : p3[y].pc # "inserted"
      /\ \A y \in Requests \ X : p3[y].locked \cap (back \cup as) = {}
  BY <1>1, <1>2 DEF T!Restore, T!EndOp, T!SongQuotaFree
<1>4. /\ p3' \in [Requests -> T!OpRecords] /\ p3'[x] = T!NoOp
      /\ \A y \in Requests : y # x => p3'[y] = p3[y]
  BY <1>3, TrashTyped
<1>5. CASE UNCHANGED <<p1, p2, p4>>
  <2>1. OpFits(x)'
    BY <1>4, RowKinds DEF OpFits
  <2>. QED  BY <1>3, <1>5, <2>1, RowKinds, TrashTyped, TrashGoes
<1>6. CASE /\ back = {} \/ T!QuotaHolds(Cardinality(back))
           /\ p1' = [a \in Artists |-> IF a \in as /\ p1[a] # T!GoneRow
                                       THEN T!LiveRow ELSE p1[a]]
           /\ p2' = [s \in Songs |-> IF s \in back /\ p2[s] # T!GoneRow
                                     THEN T!LiveRow ELSE p2[s]]
           /\ p4' = IF p3[x].locked = back THEN p4 \ back ELSE p4
  <2>1. T!TrashTypeOK'
    BY <1>4, <1>6, TrashTyped DEF T!TrashTypeOK
  <2>2. p4' \subseteq p4
    BY <1>6
  <2>3. ASSUME NEW s \in back, p2[s] # T!GoneRow
        PROVE  /\ s \notin p4' /\ p2[s].at \in T!InTrash
               /\ \/ ArtistOf[s] \in as
                  \/ p1[ArtistOf[s]].at \in T!InTrash =>
                        p1[ArtistOf[s]].batch # p2[s].batch
    <3>1. CASE RestoresSong(x)
      BY <1>2, <1>6, <2>3, <3>1 DEF RestoresSong
    <3>2. CASE RestoresArtist(x)
      <4>1. PICK a \in Artists :
               /\ as = {a} /\ p1[a].at \in T!InTrash
               /\ p2[s].at \in T!InTrash /\ p2[s].batch = p1[a].batch
        BY <1>2, <2>3, <3>2 DEF RestoresArtist
      <4>2. ArtistOf[s] = a /\ s \notin p4
        BY <4>1 DEF TrashInv
      <4>. QED  BY <2>2, <4>1, <4>2
    <3>. QED  BY <1>3, <3>1, <3>2 DEF TrashInv, OpFits
  <2>4. ASSUME NEW s \in back, p2[s] # T!GoneRow, NEW y \in Requests \ X
        PROVE  /\ s \notin p3[y].locked /\ p3[y].pc # "inserted"
               /\ p3[y].pc = "create" => s \notin p3[y].songs
               /\ ~(RestoresArtist(y) /\ s \in p3[y].songs)
    <3>1. s \notin p3[y].locked /\ p3[y].pc # "inserted"
      BY <1>3, <2>4
    <3>2. p3[y].pc = "create" => s \notin p3[y].songs
      BY <1>1, <1>2, <2>4 DEF TrashInv, OpFits, Creates
    <3>3. ASSUME RestoresArtist(y), s \in p3[y].songs
          PROVE  FALSE
      <4>1. PICK a \in Artists :
               /\ p3[y].locked = {a} /\ p1[a].at \in T!InTrash
               /\ p2[s].at \in T!InTrash /\ p2[s].batch = p1[a].batch
        BY <2>4, <3>3 DEF RestoresArtist
      <4>2. ArtistOf[s] = a
        BY <4>1 DEF TrashInv
      <4>3. a \notin as
        BY <1>3, <4>1
      <4>. QED  BY <2>3, <2>4, <4>1, <4>2, <4>3
    <3>. QED  BY <3>1, <3>2, <3>3
  <2>5. ASSUME NEW s \in Songs
        PROVE  SongMoves(X, s)
    <3>1. CASE s \in back /\ p2[s] # T!GoneRow
      BY <1>6, <2>3, <2>4, <3>1 DEF SongMoves
    <3>2. CASE ~(s \in back /\ p2[s] # T!GoneRow)
      BY <1>6, <2>2, <3>2 DEF SongMoves
    <3>. QED  BY <3>1, <3>2
  <2>6. ASSUME NEW a \in Artists
        PROVE  ArtistMoves(X, a)
    BY <1>3, <1>6 DEF ArtistMoves
  <2>7. Cardinality(T!LiveSongs)' <= SongLimit
    <3>1. CASE back = {}
      <4>1. T!LiveSongs' \subseteq T!LiveSongs
        BY <1>6, <3>1 DEF T!LiveSongs
      <4>. QED  BY <4>1, FewerLive
    <3>2. CASE T!QuotaHolds(Cardinality(back))
      <4>1. T!LiveSongs' \subseteq T!LiveSongs \cup back
        BY <1>6 DEF T!LiveSongs
      <4>2. /\ IsFiniteSet(T!LiveSongs) /\ IsFiniteSet(back)
            /\ IsFiniteSet(T!LiveSongs \cap back)
        BY FS_Subset, WorkspaceBounds DEF T!LiveSongs
      <4>3. /\ Cardinality(T!LiveSongs) \in Nat /\ Cardinality(back) \in Nat
            /\ Cardinality(T!LiveSongs \cap back) \in Nat
        BY <4>2, FS_CardinalityType
      <4>4. /\ IsFiniteSet(T!LiveSongs \cup back)
            /\ Cardinality(T!LiveSongs \cup back) =
                  Cardinality(T!LiveSongs) + Cardinality(back)
                    - Cardinality(T!LiveSongs \cap back)
        BY <4>2, FS_Union
      <4>5. /\ Cardinality(T!LiveSongs') <= Cardinality(T!LiveSongs \cup back)
            /\ Cardinality(T!LiveSongs') \in Nat
        BY <4>1, <4>4, FS_Subset, FS_CardinalityType
      <4>6. Cardinality(T!LiveSongs) + Cardinality(back) <= SongLimit
        BY <3>2, TrashCounts DEF T!QuotaHolds
      <4>. QED  BY <4>3, <4>4, <4>5, <4>6, WorkspaceBounds
    <3>. QED  BY <1>6, <3>1, <3>2
  <2>8. TrashInv'
    BY <1>1, <1>4, <2>1, <2>5, <2>6, <2>7, RowKinds, TrashRows
  <2>9. T!SparesLiveSongs
    BY <1>6, RowKinds DEF T!SparesLiveSongs
  <2>. QED  BY <2>8, <2>9
<1>. QED  BY <1>2, <1>5, <1>6, TrashCounts DEF T!Restore

\* What was chosen is deleted.
LEMMA TrashSweeps ==
    ASSUME TrashInv, NEW x \in Requests, T!PurgeSongs(x) \/ T!Sweep(x)
    PROVE  TrashInv' /\ T!SparesLiveSongs
<1>. T!TrashTypeOK
  BY DEF TrashInv
<1>1. PICK X \in SUBSET Requests : X = {x}
  OBVIOUS
<1>2. p3[x] \in T!OpRecords /\ p3[x].songs \in SUBSET Songs /\ OpFits(x)
      /\ p3[x].artists \in SUBSET Artists
  BY TrashTyped, OpFields DEF TrashInv
<1>3. ASSUME T!PurgeSongs(x)
      PROVE  TrashInv' /\ T!SparesLiveSongs
  <2>1. PICK r : r = [p3[x] EXCEPT !.pc = "purged", !.songs = {}]
    OBVIOUS
  <2>2. /\ r \in T!OpRecords /\ r.pc = "purged" /\ r.songs = {}
        /\ r.locked = p3[x].locked
    BY <1>2, <2>1 DEF T!OpRecords, T!OpPCs
  <2>3. p3[x].pc = "purge" /\ T!Free(p3[x].songs) /\ T!Deleted({}, p3[x].songs)
        /\ p3' = [p3 EXCEPT ![x] = r]
    BY <1>3, <2>1, TrashTyped DEF T!PurgeSongs
  <2>4. p3[x].locked = {} /\ p3[x].songs \cap p3[x].live = {}
    BY <1>2, <2>3 DEF OpFits
  <2>5. /\ p3' \in [Requests -> T!OpRecords] /\ p3'[x] = r
        /\ \A y \in Requests : y # x => p3'[y] = p3[y]
    BY <2>2, <2>3, TrashTyped
  <2>6. {} \in SUBSET Artists
    OBVIOUS
  <2>7. TrashInv'
    BY <1>1, <1>2, <2>2, <2>3, <2>4, <2>5, <2>6, TrashDeletes DEF T!Free
  <2>8. T!SparesLiveSongs
    BY <2>3, <2>4, <2>5 DEF T!SparesLiveSongs, T!Deleted
  <2>. QED  BY <2>7, <2>8
<1>4. ASSUME T!Sweep(x)
      PROVE  TrashInv' /\ T!SparesLiveSongs
  <2>1. PICK as \in SUBSET Artists :
           /\ as \subseteq p3[x].artists /\ T!Deleted(as, p3[x].songs)
           /\ \A y \in Requests \ {x} :
                 p3[y].locked \cap (as \cup UNION {T!SongsOf(a) : a \in as}) = {}
    <3>. DEFINE as == {a \in p3[x].artists :
                         p3[x].kind = "purge" \/ p1[a].at \in T!InTrash}
    <3>1. as \in SUBSET Artists /\ as \subseteq p3[x].artists
      BY <1>2
    <3>2. /\ T!Deleted(as, p3[x].songs)
          /\ \A y \in Requests \ {x} :
                p3[y].locked \cap (as \cup UNION {T!SongsOf(a) : a \in as}) = {}
      BY <1>4 DEF T!Sweep
    <3>. QED  BY <3>1, <3>2
  <2>2. /\ p3[x].pc = "sweep" /\ p3' = [p3 EXCEPT ![x] = T!NoOp]
    BY <1>4 DEF T!Sweep, T!EndOp
  <2>3. /\ p3' \in [Requests -> T!OpRecords] /\ p3'[x] = T!NoOp
        /\ \A y \in Requests : y # x => p3'[y] = p3[y]
    BY <2>2, TrashTyped
  <2>4. ASSUME NEW y \in Requests \ X
        PROVE  /\ p3[y].locked \cap as = {}
               /\ \A s \in Songs : s \in p3[x].songs \/ ArtistOf[s] \in as
                     => s \notin p3[y].locked
    <3>1. p3[x].songs \cap p3[y].locked = {}
      BY <1>1, <1>2, <2>2 DEF TrashInv, OpFits, Deletes
    <3>2. ASSUME NEW s \in Songs, ArtistOf[s] \in as
          PROVE  s \notin p3[y].locked
      <4>1. s \in T!SongsOf(ArtistOf[s])
        BY DEF T!SongsOf
      <4>2. s \in UNION {T!SongsOf(a) : a \in as}
        BY <3>2, <4>1
      <4>. QED  BY <1>1, <2>1, <4>2
    <3>. QED  BY <1>1, <2>1, <3>1, <3>2
  <2>5. TrashInv'
    <3>1. PICK ss \in SUBSET Songs : ss = p3[x].songs
      BY <1>2
    <3>2. /\ \A z \in X : /\ p3'[z].songs = {} /\ p3'[z].locked = {}
                         /\ p3'[z].pc \in {"idle", "purged"}
          /\ \A y \in Requests \ X : p3'[y] = p3[y]
      BY <1>1, <2>3 DEF T!NoOp
    <3>3. T!Deleted(as, ss)
      BY <2>1, <3>1
    <3>4. \A y \in Requests \ X :
             /\ p3[y].locked \cap as = {}
             /\ \A s \in Songs : s \in ss \/ ArtistOf[s] \in as => s \notin p3[y].locked
      BY <2>4, <3>1
    <3>. QED  BY <2>3, <3>2, <3>3, <3>4, TrashDeletes
  <2>6. \A s \in Songs : s \in p3[x].songs \/ ArtistOf[s] \in as => s \notin p3[x].live
    BY <1>2, <2>1, <2>2 DEF OpFits, T!SongsOf
  <2>7. T!SparesLiveSongs
    BY <2>1, <2>3, <2>6 DEF T!SparesLiveSongs, T!Deleted
  <2>. QED  BY <2>5, <2>7
<1>. QED  BY <1>3, <1>4

\* A step of a transaction, of a job or of time.
LEMMA TrashSteps ==
    ASSUME TrashInv, T!TrashNext
    PROVE  TrashInv' /\ T!SparesLiveSongs
BY TrashAlone, TrashCreates, TrashTakes, TrashAsksRestore, TrashAsksDelete, TrashRestores,
   TrashSweeps DEF T!TrashNext

-----------------------------------------------------------------------------
(* The library's limits: p1 is its songs, p2 its artists, p3 how many       *)
(* setlists it has, p4 who holds each quota's lock, p5 what requests do.    *)

\* What is left to be locked, and what each kind of request locks in all.
Rests == {<<>>, <<"songs">>, <<"artists">>, <<"setlists">>, <<"songs", "artists">>,
          <<"artists", "setlists">>, <<"songs", "artists", "setlists">>,
          <<"setlists", "songs", "artists">>}
Among(q) == {q[i] : i \in DOMAIN q}
NeedsSongs(kind) == kind \in {"song", "copy", "duplicate", "import"}
NeedsArtists(kind) == kind \in {"artist", "copy", "duplicate", "import"}
NeedsSetlists(kind) == kind \in {"setlist", "duplicate", "import"}
Needs(kind) == {r \in Y!Resources : \/ r = "songs" /\ NeedsSongs(kind)
                                    \/ r = "artists" /\ NeedsArtists(kind)
                                    \/ r = "setlists" /\ NeedsSetlists(kind)}
Works == [kind : Y!Kinds, about : SUBSET Titles, pc : {"idle", "checked", "in", "counted"},
          todo : Rests, used : 0 .. SongRoom]

\* A request holds what it needs but for what it has still to lock; what it
\* counted is an upper bound as long as it holds the lock.
WorkFits(j) ==
    LET w == p5[j] IN
    /\ w.pc # "idle" /\ w.kind \in {"song", "artist"} => \E k \in Titles : w.about = {k}
    /\ w.pc = "in" => \A r \in Needs(w.kind) : r \in Among(w.todo) \/ p4[r] = j
    /\ w.pc = "counted" =>
          /\ \A r \in Needs(w.kind) : p4[r] = j
          /\ w.kind = "song" => Cardinality(p1) + 1 <= SongRoom
          /\ w.kind = "artist" => Cardinality(p2) + 1 <= ArtistRoom
          /\ w.kind \in {"setlist", "duplicate"} => p3 + 1 <= ListRoom
          /\ NeedsSongs(w.kind) => Cardinality(p1) <= w.used

\* The limits hold, and requests stand by what they counted.
LibInv ==
    /\ p1 \subseteq Titles /\ p2 \subseteq Y!AllArtists /\ p3 \in 0 .. ListRoom
    /\ p4 \in [Y!Resources -> Requests \cup {NoJob}]
    /\ p5 \in [Requests -> Works]
    /\ Cardinality(p1) <= SongRoom /\ Cardinality(p2) <= ArtistRoom
    /\ \A j \in Requests : WorkFits(j)

\* A part counts as this module does, and its resources are three.
LEMMA LibraryCounts ==
    /\ \A X : Y!Cardinality(X) = Cardinality(X)
    /\ Y!Resources = {"songs", "artists", "setlists"}
    /\ "songs" # "artists" /\ "songs" # "setlists" /\ "artists" # "setlists"
BY DEF Y!Cardinality, Cardinality, Y!Resources

\* The first of what is left, and the rest.
LEMMA RestGoesOn ==
    ASSUME NEW q \in Rests, q # <<>>
    PROVE  /\ Y!Head(q) \in Y!Resources /\ Y!Tail(q) \in Rests
           /\ \A r : r \in Among(q) => r = Y!Head(q) \/ r \in Among(Y!Tail(q))
<1>1. CASE q = <<"songs">>
  BY <1>1 DEF Rests, Among, Y!Resources
<1>2. CASE q = <<"artists">>
  BY <1>2 DEF Rests, Among, Y!Resources
<1>3. CASE q = <<"setlists">>
  BY <1>3 DEF Rests, Among, Y!Resources
<1>4. CASE q = <<"songs", "artists">>
  BY <1>4 DEF Rests, Among, Y!Resources
<1>5. CASE q = <<"artists", "setlists">>
  BY <1>5 DEF Rests, Among, Y!Resources
<1>6. CASE q = <<"songs", "artists", "setlists">>
  BY <1>6 DEF Rests, Among, Y!Resources
<1>7. CASE q = <<"setlists", "songs", "artists">>
  BY <1>7 DEF Rests, Among, Y!Resources
<1>. QED  BY <1>1, <1>2, <1>3, <1>4, <1>5, <1>6, <1>7 DEF Rests

\* What a request locks is what it needs.
LEMMA LocksAreNeeds ==
    ASSUME NEW kind \in Y!Kinds
    PROVE  Y!LocksOf(kind) \in Rests /\ Needs(kind) \subseteq Among(Y!LocksOf(kind))
<1>1. CASE kind \in {"song", "artist", "setlist"}
  BY <1>1 DEF Y!LocksOf, Rests, Needs, NeedsSongs, NeedsArtists, NeedsSetlists, Among
<1>2. CASE kind = "copy"
  BY <1>2 DEF Y!LocksOf, Rests, Needs, NeedsSongs, NeedsArtists, NeedsSetlists, Among
<1>3. CASE kind = "duplicate"
  BY <1>3 DEF Y!LocksOf, Rests, Needs, NeedsSongs, NeedsArtists, NeedsSetlists, Among
<1>4. CASE kind = "import"
  BY <1>4, LibraryCounts
     DEF Y!LocksOf, Rests, Needs, NeedsSongs, NeedsArtists, NeedsSetlists, Among
<1>. QED  BY <1>1, <1>2, <1>3, <1>4 DEF Y!Kinds

\* A library is finite, and so is what is added to it.
LEMMA LibraryFinite ==
    /\ IsFiniteSet(Titles) /\ IsFiniteSet(Y!AllArtists)
    /\ \A X : X \subseteq Titles \/ X \subseteq Y!AllArtists
                => IsFiniteSet(X) /\ Cardinality(X) \in Nat
    /\ \A X : X \subseteq Titles => Y!PlayersOf(X) \subseteq Y!AllArtists
<1>1. IsFiniteSet(Titles)
  BY WorkspaceBounds
<1>2. IsFiniteSet(Y!AllArtists)
  <2>. DEFINE f == [k \in Titles |-> PlayedBy(k)]
  <2>1. f \in Surjection(Titles, Y!AllArtists)
    BY DEF Surjection, Y!AllArtists, Y!PlayersOf
  <2>. QED  BY <1>1, <2>1, FS_Surjection
<1>3. ASSUME NEW X, X \subseteq Titles \/ X \subseteq Y!AllArtists
      PROVE  IsFiniteSet(X) /\ Cardinality(X) \in Nat
  BY <1>1, <1>2, <1>3, FS_Subset, FS_CardinalityType
<1>4. ASSUME NEW X, X \subseteq Titles
      PROVE  Y!PlayersOf(X) \subseteq Y!AllArtists
  BY <1>4 DEF Y!AllArtists, Y!PlayersOf
<1>. QED  BY <1>1, <1>2, <1>3, <1>4

\* What fits above a number fits above a smaller one.
LEMMA LessFits ==
    \A a, b, c \in Nat : a <= b /\ b + 1 <= c => a + 1 <= c
OBVIOUS

\* Requests outside of Gone keep what they hold, and what they counted stays a
\* bound, unless who adds holds the lock.
LEMMA LibStays ==
    ASSUME LibInv, NEW Gone \in SUBSET Requests,
           p1' \subseteq Titles, p2' \subseteq Y!AllArtists, p3' \in 0 .. ListRoom,
           p4' \in [Y!Resources -> Requests \cup {NoJob}], p5' \in [Requests -> Works],
           Cardinality(p1') <= SongRoom, Cardinality(p2') <= ArtistRoom,
           p1' \subseteq p1 \/ p4["songs"] \in Gone,
           p2' \subseteq p2 \/ p4["artists"] \in Gone,
           p3' <= p3 \/ p4["setlists"] \in Gone,
           \A i \in Requests \ Gone : p5'[i] = p5[i],
           \A i \in Requests \ Gone, r \in Y!Resources : p4[r] = i => p4'[r] = i,
           \A j \in Gone : WorkFits(j)'
    PROVE  LibInv'
<1>1. ASSUME NEW i \in Requests \ Gone
      PROVE  WorkFits(i)'
  <2>. DEFINE w == p5[i]
  <2>1. w \in Works /\ p5'[i] = w /\ WorkFits(i)
    BY DEF LibInv
  <2>2. \A r \in Needs(w.kind) : r \in Y!Resources /\ (p4[r] = i => p4'[r] = i)
    BY DEF Needs
  <2>3. ASSUME w.pc = "counted"
        PROVE  /\ w.kind = "song" => Cardinality(p1') + 1 <= SongRoom
               /\ NeedsSongs(w.kind) => Cardinality(p1') <= w.used
    <3>1. SUFFICES ASSUME NeedsSongs(w.kind)
                   PROVE  Cardinality(p1') <= Cardinality(p1)
      <4>1. Cardinality(p1) \in Nat /\ Cardinality(p1') \in Nat
        BY LibraryFinite DEF LibInv
      <4>2. w.used \in Nat
        BY <2>1, WorkspaceBounds DEF Works
      <4>. QED  BY <2>1, <2>3, <3>1, <4>1, <4>2, WorkspaceBounds DEF WorkFits, NeedsSongs
    <3>2. "songs" \in Needs(w.kind)
      BY <3>1, LibraryCounts DEF Needs
    <3>3. p1' \subseteq p1
      BY <2>1, <2>3, <3>2 DEF WorkFits
    <3>. QED  BY <3>3, FS_Subset, LibraryFinite DEF LibInv
  <2>4. ASSUME w.pc = "counted", w.kind = "artist"
        PROVE  Cardinality(p2') + 1 <= ArtistRoom
    <3>1. "artists" \in Needs(w.kind)
      BY <2>4, LibraryCounts DEF Needs, NeedsArtists
    <3>2. p2' \subseteq p2
      BY <2>1, <2>4, <3>1 DEF WorkFits
    <3>3. Cardinality(p2') <= Cardinality(p2)
      BY <3>2, FS_Subset, LibraryFinite DEF LibInv
    <3>4. Cardinality(p2) \in Nat /\ Cardinality(p2') \in Nat
      BY LibraryFinite DEF LibInv
    <3>. QED  BY <2>1, <2>4, <3>3, <3>4, WorkspaceBounds DEF WorkFits
  <2>5. ASSUME w.pc = "counted", w.kind \in {"setlist", "duplicate"}
        PROVE  p3' + 1 <= ListRoom
    <3>1. "setlists" \in Needs(w.kind)
      BY <2>5, LibraryCounts DEF Needs, NeedsSetlists
    <3>2. p3' <= p3
      BY <2>1, <2>5, <3>1 DEF WorkFits
    <3>3. p3 + 1 <= ListRoom
      BY <2>1, <2>5 DEF WorkFits
    <3>4. p3 \in Nat /\ p3' \in Nat /\ ListRoom \in Nat
      BY WorkspaceBounds DEF LibInv
    <3>. QED  BY <3>2, <3>3, <3>4, LessFits
  <2>. QED  BY <2>1, <2>2, <2>3, <2>4, <2>5 DEF WorkFits
<1>. QED  BY <1>1 DEF LibInv

\* The library starts within its limits, and nobody at work.
LEMMA LibStarts == Y!LibraryInit => LibInv
<1>. SUFFICES ASSUME Y!LibraryInit
              PROVE  LibInv
  OBVIOUS
<1>1. /\ p1 = {} /\ p2 \subseteq Y!AllArtists /\ Cardinality(p2) <= ArtistRoom /\ p3 = 0
      /\ p4 = [r \in Y!Resources |-> NoJob] /\ p5 = [j \in Requests |-> Y!Idle]
  BY LibraryCounts DEF Y!LibraryInit
<1>2. Y!Idle \in Works /\ Y!Idle.pc = "idle"
  BY WorkspaceBounds DEF Y!Idle, Works, Y!Kinds, Rests
<1>3. Cardinality(p1) <= SongRoom
  BY <1>1, FS_EmptySet, WorkspaceBounds
<1>4. ASSUME NEW j \in Requests
      PROVE  WorkFits(j)
  BY <1>1, <1>2 DEF WorkFits
<1>. QED  BY <1>1, <1>2, <1>3, <1>4, WorkspaceBounds DEF LibInv

\* A request goes on without adding anything; it may take or let go of locks.
LEMMA WorkGoes ==
    ASSUME LibInv, NEW j \in Requests, NEW w \in Works,
           p5' = [p5 EXCEPT ![j] = w], UNCHANGED <<p1, p2, p3>>,
           p4' \in [Y!Resources -> Requests \cup {NoJob}],
           \A i \in Requests \ {j}, r \in Y!Resources : p4[r] = i => p4'[r] = i,
           WorkFits(j)'
    PROVE  LibInv'
<1>1. p5' \in [Requests -> Works] /\ \A i \in Requests \ {j} : p5'[i] = p5[i]
  BY DEF LibInv
<1>2. p3 \in Nat
  BY WorkspaceBounds DEF LibInv
<1>3. /\ p1' \subseteq Titles /\ p2' \subseteq Y!AllArtists /\ p3' \in 0 .. ListRoom
      /\ Cardinality(p1') <= SongRoom /\ Cardinality(p2') <= ArtistRoom
      /\ p1' \subseteq p1 /\ p2' \subseteq p2 /\ p3' <= p3
  BY <1>2 DEF LibInv
<1>4. /\ {j} \in SUBSET Requests /\ \A i \in {j} : WorkFits(i)'
      /\ Requests \ {j} = {i \in Requests : i # j}
  OBVIOUS
<1>. QED  BY <1>1, <1>3, <1>4, LibStays

\* What is let go of is what its holder held.
LEMMA LocksLetGo ==
    ASSUME LibInv, NEW j \in Requests
    PROVE  /\ Y!Released(j) \in [Y!Resources -> Requests \cup {NoJob}]
           /\ \A i \in Requests \ {j}, r \in Y!Resources : p4[r] = i => Y!Released(j)[r] = i
           /\ Y!Idle \in Works /\ Y!Idle.pc = "idle"
BY WorkspaceBounds DEF LibInv, Y!Released, Y!Idle, Works, Y!Kinds, Rests

\* A request starts: what it is about is of its kind.
LEMMA LibAsks ==
    ASSUME LibInv, NEW j \in Requests, NEW kind \in Y!Kinds, NEW about \in Y!AboutOf(kind),
           Y!Ask(j, kind, about)
    PROVE  LibInv'
<1>. DEFINE w == [Y!Idle EXCEPT !.kind = kind, !.about = about, !.pc = "checked"]
<1>1. about \subseteq Titles
  <2>1. CASE kind = "setlist"
    BY <2>1 DEF Y!AboutOf
  <2>2. CASE kind \in {"song", "artist", "copy"}
    BY <2>2 DEF Y!AboutOf
  <2>3. CASE kind \in {"duplicate", "import"}
    BY <2>3 DEF Y!AboutOf
  <2>. QED  BY <2>1, <2>2, <2>3 DEF Y!Kinds
<1>2. kind \in {"song", "artist"} => \E k \in Titles : about = {k}
  BY DEF Y!AboutOf
<1>3. w \in Works /\ w.kind = kind /\ w.about = about /\ w.pc = "checked"
  BY <1>1, LocksLetGo DEF Works
<1>4. p5' = [p5 EXCEPT ![j] = w] /\ UNCHANGED <<p1, p2, p3, p4>>
  BY DEF Y!Ask
<1>5. p5'[j] = w
  BY <1>4 DEF LibInv
<1>6. WorkFits(j)'
  BY <1>2, <1>3, <1>5 DEF WorkFits
<1>7. /\ p4' \in [Y!Resources -> Requests \cup {NoJob}]
      /\ \A i \in Requests \ {j}, r \in Y!Resources : p4[r] = i => p4'[r] = i
  BY <1>4 DEF LibInv
<1>. QED  BY <1>3, <1>4, <1>6, <1>7, WorkGoes

\* A request that ends without adding anything.
LEMMA LibGivesUp ==
    ASSUME LibInv, NEW j \in Requests, Y!GiveUp(j)
    PROVE  LibInv'
<1>1. p5' = [p5 EXCEPT ![j] = Y!Idle] /\ p4' = Y!Released(j) /\ UNCHANGED <<p1, p2, p3>>
  BY DEF Y!GiveUp
<1>2. p5'[j] = Y!Idle
  BY <1>1 DEF LibInv
<1>3. WorkFits(j)'
  BY <1>2, LocksLetGo DEF WorkFits
<1>. QED  BY <1>1, <1>3, LocksLetGo, WorkGoes

\* A transaction begins with all of its locks still to take.
LEMMA LibBegins ==
    ASSUME LibInv, NEW j \in Requests, Y!BeginWork(j)
    PROVE  LibInv'
<1>. DEFINE v == p5[j]
            w == [v EXCEPT !.pc = "in", !.todo = Y!LocksOf(v.kind)]
<1>1. v \in Works /\ v.pc = "checked" /\ WorkFits(j) /\ v.kind \in Y!Kinds
  BY DEF LibInv, Y!BeginWork, Works
<1>2. /\ p4' \in [Y!Resources -> Requests \cup {NoJob}] /\ UNCHANGED <<p1, p2, p3, p4>>
      /\ \A i \in Requests \ {j}, r \in Y!Resources : p4[r] = i => p4'[r] = i
  BY DEF LibInv, Y!BeginWork
<1>3. CASE p5' = [p5 EXCEPT ![j] = Y!Idle]
  <2>1. p5'[j] = Y!Idle
    BY <1>3 DEF LibInv
  <2>2. WorkFits(j)'
    BY <2>1, LocksLetGo DEF WorkFits
  <2>. QED  BY <1>2, <1>3, <2>2, LocksLetGo, WorkGoes
<1>4. CASE p5' = [p5 EXCEPT ![j] = w]
  <2>1. /\ w \in Works /\ w.pc = "in" /\ w.kind = v.kind /\ w.about = v.about
        /\ w.todo = Y!LocksOf(v.kind)
    BY <1>1, LocksAreNeeds DEF Works
  <2>2. p5'[j] = w
    BY <1>4 DEF LibInv
  <2>3. w.kind \in {"song", "artist"} => \E k \in Titles : w.about = {k}
    BY <1>1, <2>1 DEF WorkFits
  <2>4. \A r \in Needs(w.kind) : r \in Among(w.todo)
    BY <1>1, <2>1, LocksAreNeeds
  <2>5. WorkFits(j)'
    BY <2>1, <2>2, <2>3, <2>4 DEF WorkFits
  <2>. QED  BY <1>2, <1>4, <2>1, <2>5, WorkGoes
<1>. QED  BY <1>3, <1>4 DEF Y!BeginWork

\* A lock that nobody holds is taken, the first of those left.
LEMMA LibLocks ==
    ASSUME LibInv, NEW j \in Requests, Y!Locks(j)
    PROVE  LibInv'
<1>. DEFINE v == p5[j]
            first == Y!Head(v.todo)
            w == [v EXCEPT !.todo = Y!Tail(v.todo)]
<1>1. v \in Works /\ v.pc = "in" /\ WorkFits(j) /\ v.todo \in Rests /\ v.todo # <<>>
  BY DEF LibInv, Y!Locks, Works
<1>2. /\ first \in Y!Resources /\ Y!Tail(v.todo) \in Rests
      /\ \A r : r \in Among(v.todo) => r = first \/ r \in Among(Y!Tail(v.todo))
  BY <1>1, RestGoesOn
<1>3. /\ p5' = [p5 EXCEPT ![j] = w] /\ p4' = [p4 EXCEPT ![first] = j] /\ p4[first] = NoJob
      /\ UNCHANGED <<p1, p2, p3>>
  BY DEF Y!Locks, LibInv
<1>4. /\ w \in Works /\ w.pc = "in" /\ w.kind = v.kind /\ w.about = v.about
      /\ w.todo = Y!Tail(v.todo)
  BY <1>1, <1>2 DEF Works
<1>5. /\ p4' \in [Y!Resources -> Requests \cup {NoJob}] /\ p4'[first] = j
      /\ \A r \in Y!Resources : r # first => p4'[r] = p4[r]
  BY <1>2, <1>3 DEF LibInv
<1>6. \A i \in Requests \ {j}, r \in Y!Resources : p4[r] = i => p4'[r] = i
  BY <1>3, <1>5, WorkspaceBounds
<1>7. p5'[j] = w
  BY <1>3 DEF LibInv
<1>8. w.kind \in {"song", "artist"} => \E k \in Titles : w.about = {k}
  BY <1>1, <1>4 DEF WorkFits
<1>9. ASSUME NEW r \in Needs(w.kind)
      PROVE  r \in Among(w.todo) \/ p4'[r] = j
  <2>1. r \in Y!Resources /\ (r \in Among(v.todo) \/ p4[r] = j)
    BY <1>1, <1>4 DEF WorkFits, Needs
  <2>. QED  BY <1>2, <1>4, <1>5, <2>1
<1>10. WorkFits(j)'
  BY <1>4, <1>7, <1>8, <1>9 DEF WorkFits
<1>. QED  BY <1>3, <1>4, <1>5, <1>6, <1>10, WorkGoes

\* What is used of a quota, and its limit.
LEMMA RoomIs ==
    /\ Y!RoomOf("songs") = SongRoom /\ Y!UsedOf("songs") = Cardinality(p1)
    /\ Y!RoomOf("artists") = ArtistRoom /\ Y!UsedOf("artists") = Cardinality(p2)
    /\ Y!RoomOf("setlists") = ListRoom /\ Y!UsedOf("setlists") = p3
BY LibraryCounts DEF Y!RoomOf, Y!UsedOf

\* A request counts, with all of its locks, and goes on only if there is room.
LEMMA LibCounts ==
    ASSUME LibInv, NEW j \in Requests, Y!Counts(j)
    PROVE  LibInv'
<1>. DEFINE v == p5[j]
            adds == CASE v.kind = "song" -> {"songs"} [] v.kind = "artist" -> {"artists"}
                      [] v.kind \in {"setlist", "duplicate"} -> {"setlists"}
                      [] OTHER -> {}
            w == [v EXCEPT !.pc = "counted", !.used = Y!Cardinality(p1)]
<1>1. CASE Y!GiveUp(j)
  BY <1>1, LibGivesUp
<1>2. CASE ~Y!GiveUp(j)
  <2>1. v \in Works /\ v.pc = "in" /\ v.todo = <<>> /\ WorkFits(j)
    BY DEF LibInv, Y!Counts
  <2>2. /\ \A r \in adds : Y!HasRoom(r, 1)
        /\ p5' = [p5 EXCEPT ![j].pc = "counted", ![j].used = Y!Cardinality(p1)]
        /\ UNCHANGED <<p1, p2, p3, p4>>
    BY <1>2 DEF Y!Counts
  <2>3. p5' = [p5 EXCEPT ![j] = w]
    BY <2>1, <2>2 DEF LibInv, Works
  <2>4. Cardinality(p1) \in 0 .. SongRoom
    BY LibraryFinite, WorkspaceBounds DEF LibInv
  <2>5. /\ w \in Works /\ w.pc = "counted" /\ w.kind = v.kind /\ w.about = v.about
        /\ w.used = Cardinality(p1)
    BY <2>1, <2>4, LibraryCounts DEF Works
  <2>6. p5'[j] = w
    BY <2>3 DEF LibInv
  <2>7. \A r \in Needs(w.kind) : p4'[r] = j
    BY <2>1, <2>2, <2>5 DEF WorkFits, Among
  <2>8. w.kind = "song" => Cardinality(p1') + 1 <= SongRoom
    <3>1. w.kind = "song" => "songs" \in adds
      BY <2>5
    <3>. QED  BY <2>2, <3>1, RoomIs DEF Y!HasRoom
  <2>9. w.kind = "artist" => Cardinality(p2') + 1 <= ArtistRoom
    <3>1. w.kind = "artist" => "artists" \in adds
      BY <2>5
    <3>. QED  BY <2>2, <3>1, RoomIs DEF Y!HasRoom
  <2>10. w.kind \in {"setlist", "duplicate"} => p3' + 1 <= ListRoom
    <3>1. w.kind \in {"setlist", "duplicate"} => "setlists" \in adds
      BY <2>5
    <3>. QED  BY <2>2, <3>1, RoomIs DEF Y!HasRoom
  <2>11. w.kind \in {"song", "artist"} => \E k \in Titles : w.about = {k}
    BY <2>1, <2>5 DEF WorkFits
  <2>12. Cardinality(p1') <= w.used
    BY <2>2, <2>4, <2>5
  <2>13. WorkFits(j)'
    BY <2>5, <2>6, <2>7, <2>8, <2>9, <2>10, <2>11, <2>12 DEF WorkFits
  <2>14. /\ p4' \in [Y!Resources -> Requests \cup {NoJob}]
         /\ \A i \in Requests \ {j}, r \in Y!Resources : p4[r] = i => p4'[r] = i
    BY <2>2 DEF LibInv
  <2>. QED  BY <2>2, <2>3, <2>5, <2>13, <2>14, WorkGoes
<1>. QED  BY <1>1, <1>2

\* What a request adds under its own locks, within the limits, when it commits.
LEMMA LibAdds ==
    ASSUME LibInv, NEW j \in Requests, p5[j].pc = "counted", Y!Done(j),
           p1' \subseteq Titles, p2' \subseteq Y!AllArtists, p3' \in 0 .. ListRoom,
           Cardinality(p1') <= SongRoom, Cardinality(p2') <= ArtistRoom,
           p1' \subseteq p1 \/ NeedsSongs(p5[j].kind),
           p2' \subseteq p2 \/ NeedsArtists(p5[j].kind),
           p3' <= p3 \/ NeedsSetlists(p5[j].kind)
    PROVE  LibInv'
<1>1. p5' = [p5 EXCEPT ![j] = Y!Idle] /\ p4' = Y!Released(j)
  BY DEF Y!Done
<1>2. p5' \in [Requests -> Works] /\ p5'[j] = Y!Idle /\ \A i \in Requests \ {j} : p5'[i] = p5[i]
  BY <1>1, LocksLetGo DEF LibInv
<1>3. WorkFits(j)'
  BY <1>2, LocksLetGo DEF WorkFits
<1>4. \A r \in Needs(p5[j].kind) : p4[r] = j
  BY DEF LibInv, WorkFits
<1>5. /\ p1' \subseteq p1 \/ p4["songs"] \in {j}
      /\ p2' \subseteq p2 \/ p4["artists"] \in {j}
      /\ p3' <= p3 \/ p4["setlists"] \in {j}
  BY <1>4, LibraryCounts DEF Needs
<1>6. {j} \in SUBSET Requests /\ \A i \in {j} : WorkFits(i)'
  BY <1>3
<1>7. /\ p4' \in [Y!Resources -> Requests \cup {NoJob}]
      /\ \A i \in Requests \ {j}, r \in Y!Resources : p4[r] = i => p4'[r] = i
  BY <1>1, LocksLetGo
<1>. QED  BY <1>2, <1>5, <1>6, <1>7, LibStays

\* Copies made in the room that was counted fit.
LEMMA CopiesFit ==
    ASSUME LibInv, NEW j \in Requests, p5[j].pc = "counted", NeedsSongs(p5[j].kind),
           NEW made \in Y!CopiesInRoom(p5[j].used, p5[j].about)
    PROVE  /\ p1 \cup made \subseteq Titles /\ Cardinality(p1 \cup made) <= SongRoom
           /\ p2 \cup Y!PlayersOf(made) \subseteq Y!AllArtists
           /\ Cardinality(p2 \cup Y!PlayersOf(made)) <= ArtistRoom
<1>1. p5[j] \in Works /\ p5[j].about \subseteq Titles /\ p5[j].used \in Nat /\ WorkFits(j)
  BY WorkspaceBounds DEF LibInv, Works
<1>2. /\ made \subseteq p5[j].about
      /\ p5[j].used + Cardinality(made) <= SongRoom
      /\ \/ Y!PlayersOf(made) \subseteq p2
         \/ Cardinality(p2 \cup Y!PlayersOf(made)) <= ArtistRoom
  BY LibraryCounts DEF Y!CopiesInRoom
<1>3. made \subseteq Titles /\ p1 \subseteq Titles /\ p2 \subseteq Y!AllArtists
  BY <1>1, <1>2 DEF LibInv
<1>4. Cardinality(p1) <= p5[j].used
  BY <1>1 DEF WorkFits
<1>5. Cardinality(p1 \cup made) <= SongRoom
  <2>1. Cardinality(p1 \cup made) = Cardinality(p1) + Cardinality(made) - Cardinality(p1 \cap made)
    BY <1>3, LibraryFinite, FS_Union
  <2>2. /\ Cardinality(p1) \in Nat /\ Cardinality(made) \in Nat
        /\ Cardinality(p1 \cap made) \in Nat
    BY <1>3, LibraryFinite
  <2>. QED  BY <1>1, <1>2, <1>4, <2>1, <2>2, WorkspaceBounds
<1>6. Cardinality(p2 \cup Y!PlayersOf(made)) <= ArtistRoom
  <2>1. CASE Y!PlayersOf(made) \subseteq p2
    <3>1. p2 \cup Y!PlayersOf(made) = p2
      BY <2>1
    <3>. QED  BY <3>1 DEF LibInv
  <2>. QED  BY <1>2, <2>1
<1>7. p2 \cup Y!PlayersOf(made) \subseteq Y!AllArtists
  BY <1>3, LibraryFinite
<1>. QED  BY <1>3, <1>5, <1>6, <1>7

\* A new song, which had room when it was counted.
LEMMA LibAddsSong ==
    ASSUME LibInv, NEW j \in Requests, p5[j].pc = "counted", Y!AddSong(j)
    PROVE  LibInv'
<1>1. CASE Y!GiveUp(j)
  BY <1>1, LibGivesUp
<1>2. CASE ~Y!GiveUp(j)
  <2>1. p5[j].kind = "song" /\ p1' = p1 \cup p5[j].about /\ Y!Done(j) /\ UNCHANGED <<p2, p3>>
    BY <1>2 DEF Y!AddSong
  <2>2. WorkFits(j)
    BY DEF LibInv
  <2>3. PICK k \in Titles : p5[j].about = {k}
    BY <2>1, <2>2 DEF WorkFits
  <2>4. Cardinality(p1) + 1 <= SongRoom
    BY <2>1, <2>2 DEF WorkFits
  <2>5. IsFiniteSet(p1) /\ Cardinality(p1) \in Nat
    BY LibraryFinite DEF LibInv
  <2>6. Cardinality(p1 \cup {k}) <= SongRoom
    <3>1. Cardinality(p1 \cup {k}) = Cardinality(p1)
             \/ Cardinality(p1 \cup {k}) = Cardinality(p1) + 1
      BY <2>5, FS_AddElement
    <3>2. Cardinality(p1) <= SongRoom
      BY DEF LibInv
    <3>. QED  BY <2>4, <3>1, <3>2
  <2>7. p1' = p1 \cup {k} /\ p1' \subseteq Titles
    BY <2>1, <2>3 DEF LibInv
  <2>8. p2' \subseteq p2 /\ p3' <= p3 /\ p3' \in 0 .. ListRoom
    BY <2>1, WorkspaceBounds DEF LibInv
  <2>9. p2' \subseteq Y!AllArtists /\ Cardinality(p2') <= ArtistRoom
    BY <2>1 DEF LibInv
  <2>. QED  BY <2>1, <2>6, <2>7, <2>8, <2>9, LibAdds DEF NeedsSongs
<1>. QED  BY <1>1, <1>2

\* A new artist, likewise.
LEMMA LibAddsArtist ==
    ASSUME LibInv, NEW j \in Requests, p5[j].pc = "counted", Y!AddArtist(j)
    PROVE  LibInv'
<1>1. CASE Y!GiveUp(j)
  BY <1>1, LibGivesUp
<1>2. CASE ~Y!GiveUp(j)
  <2>1. /\ p5[j].kind = "artist" /\ p2' = p2 \cup Y!PlayersOf(p5[j].about) /\ Y!Done(j)
        /\ UNCHANGED <<p1, p3>>
    BY <1>2 DEF Y!AddArtist
  <2>2. WorkFits(j)
    BY DEF LibInv
  <2>3. PICK k \in Titles : p5[j].about = {k}
    BY <2>1, <2>2 DEF WorkFits
  <2>4. Cardinality(p2) + 1 <= ArtistRoom
    BY <2>1, <2>2 DEF WorkFits
  <2>5. IsFiniteSet(p2) /\ Cardinality(p2) \in Nat
    BY LibraryFinite DEF LibInv
  <2>6. Cardinality(p2 \cup {PlayedBy(k)}) <= ArtistRoom
    <3>1. Cardinality(p2 \cup {PlayedBy(k)}) = Cardinality(p2)
             \/ Cardinality(p2 \cup {PlayedBy(k)}) = Cardinality(p2) + 1
      BY <2>5, FS_AddElement
    <3>2. Cardinality(p2) <= ArtistRoom
      BY DEF LibInv
    <3>. QED  BY <2>4, <3>1, <3>2
  <2>7. p2' = p2 \cup {PlayedBy(k)} /\ p2' \subseteq Y!AllArtists
    BY <2>1, <2>3 DEF LibInv, Y!PlayersOf, Y!AllArtists
  <2>8. p1' \subseteq p1 /\ p3' <= p3 /\ p3' \in 0 .. ListRoom
    BY <2>1, WorkspaceBounds DEF LibInv
  <2>9. p1' \subseteq Titles /\ Cardinality(p1') <= SongRoom
    BY <2>1 DEF LibInv
  <2>. QED  BY <2>1, <2>6, <2>7, <2>8, <2>9, LibAdds DEF NeedsArtists
<1>. QED  BY <1>1, <1>2

\* A new setlist, likewise.
LEMMA LibAddsSetlist ==
    ASSUME LibInv, NEW j \in Requests, p5[j].pc = "counted", Y!AddSetlist(j)
    PROVE  LibInv'
<1>1. p5[j].kind = "setlist" /\ p3' = p3 + 1 /\ Y!Done(j) /\ UNCHANGED <<p1, p2>>
  BY DEF Y!AddSetlist
<1>2. p3 + 1 <= ListRoom
  BY <1>1 DEF LibInv, WorkFits
<1>3. p3 \in Nat
  BY WorkspaceBounds DEF LibInv
<1>4. p3' \in 0 .. ListRoom
  BY <1>1, <1>2, <1>3, WorkspaceBounds
<1>5. /\ p1' \subseteq Titles /\ Cardinality(p1') <= SongRoom /\ p1' \subseteq p1
      /\ p2' \subseteq Y!AllArtists /\ Cardinality(p2') <= ArtistRoom /\ p2' \subseteq p2
  BY <1>1 DEF LibInv
<1>. QED  BY <1>1, <1>4, <1>5, LibAdds DEF NeedsSetlists

\* A song is copied, or nothing is done.
LEMMA LibCopies ==
    ASSUME LibInv, NEW j \in Requests, p5[j].pc = "counted", Y!CopySong(j)
    PROVE  LibInv'
<1>1. CASE Y!GiveUp(j)
  BY <1>1, LibGivesUp
<1>2. CASE ~Y!GiveUp(j)
  <2>1. p5[j].kind = "copy" /\ Y!Done(j) /\ UNCHANGED p3
    BY <1>2 DEF Y!CopySong
  <2>2. PICK made \in Y!CopiesInRoom(p5[j].used, p5[j].about) :
          p1' = p1 \cup made /\ p2' = p2 \cup Y!PlayersOf(made)
    BY <1>2 DEF Y!CopySong
  <2>3. /\ p1' \subseteq Titles /\ Cardinality(p1') <= SongRoom
        /\ p2' \subseteq Y!AllArtists /\ Cardinality(p2') <= ArtistRoom
    BY <2>1, <2>2, CopiesFit DEF NeedsSongs
  <2>4. p3' <= p3 /\ p3' \in 0 .. ListRoom
    BY <2>1, WorkspaceBounds DEF LibInv
  <2>. QED  BY <2>1, <2>3, <2>4, LibAdds DEF NeedsSongs, NeedsArtists
<1>. QED  BY <1>1, <1>2

\* A setlist is duplicated with as many of its songs as there is room for.
LEMMA LibDuplicates ==
    ASSUME LibInv, NEW j \in Requests, p5[j].pc = "counted", Y!Duplicate(j)
    PROVE  LibInv'
<1>1. p5[j].kind = "duplicate" /\ p3' = p3 + 1 /\ Y!Done(j)
  BY DEF Y!Duplicate
<1>2. PICK made \in Y!CopiesInRoom(p5[j].used, p5[j].about) :
        p1' = p1 \cup made /\ p2' = p2 \cup Y!PlayersOf(made)
  BY DEF Y!Duplicate
<1>3. /\ p1' \subseteq Titles /\ Cardinality(p1') <= SongRoom
      /\ p2' \subseteq Y!AllArtists /\ Cardinality(p2') <= ArtistRoom
  BY <1>1, <1>2, CopiesFit DEF NeedsSongs
<1>4. p3 + 1 <= ListRoom
  BY <1>1 DEF LibInv, WorkFits
<1>5. p3 \in Nat
  BY WorkspaceBounds DEF LibInv
<1>6. p3' \in 0 .. ListRoom
  BY <1>1, <1>4, <1>5, WorkspaceBounds
<1>. QED  BY <1>1, <1>3, <1>6, LibAdds DEF NeedsSongs, NeedsArtists, NeedsSetlists

\* An import checks its totals under all three locks.
LEMMA LibImports ==
    ASSUME LibInv, NEW j \in Requests, p5[j].pc = "counted", Y!ImportAll(j)
    PROVE  LibInv'
<1>1. CASE Y!GiveUp(j)
  BY <1>1, LibGivesUp
<1>2. CASE ~Y!GiveUp(j)
  <2>. DEFINE keys == p5[j].about
  <2>1. /\ p5[j].kind = "import" /\ Y!Done(j) /\ p3' = p3 + 1
        /\ p1' = p1 \cup keys /\ p2' = p2 \cup Y!PlayersOf(keys)
        /\ Cardinality(p1 \cup keys) <= SongRoom
        /\ Cardinality(p2 \cup Y!PlayersOf(keys)) <= ArtistRoom
        /\ Y!HasRoom("setlists", 1)
    BY <1>2, LibraryCounts DEF Y!ImportAll
  <2>2. keys \subseteq Titles
    BY DEF LibInv, Works
  <2>3. p1' \subseteq Titles /\ p2' \subseteq Y!AllArtists
    BY <2>1, <2>2, LibraryFinite DEF LibInv
  <2>4. p3 + 1 <= ListRoom
    BY <2>1, RoomIs DEF Y!HasRoom
  <2>5. p3 \in Nat
    BY WorkspaceBounds DEF LibInv
  <2>6. p3' \in 0 .. ListRoom
    BY <2>1, <2>4, <2>5, WorkspaceBounds
  <2>. QED  BY <2>1, <2>3, <2>6, LibAdds DEF NeedsSongs, NeedsArtists, NeedsSetlists
<1>. QED  BY <1>1, <1>2

\* What goes to the trash goes without a lock: there is only more room.
LEMMA LibTrashes ==
    ASSUME LibInv, p1' \subseteq p1, p2' \subseteq p2, p3' \in Nat, p3' <= p3,
           UNCHANGED <<p4, p5>>
    PROVE  LibInv'
<1>1. p3 \in Nat /\ p3 <= ListRoom /\ p3' \in 0 .. ListRoom
  BY WorkspaceBounds DEF LibInv
<1>2. p1 \subseteq Titles /\ p2 \subseteq Y!AllArtists
  BY DEF LibInv
<1>3. Cardinality(p1') <= Cardinality(p1) /\ Cardinality(p2') <= Cardinality(p2)
  BY <1>2, FS_Subset, LibraryFinite
<1>4. /\ Cardinality(p1) \in Nat /\ Cardinality(p1') \in Nat
      /\ Cardinality(p2) \in Nat /\ Cardinality(p2') \in Nat
  BY <1>2, LibraryFinite
<1>5. Cardinality(p1) <= SongRoom /\ Cardinality(p2) <= ArtistRoom
  BY DEF LibInv
<1>6. Cardinality(p1') <= SongRoom /\ Cardinality(p2') <= ArtistRoom
  BY <1>3, <1>4, <1>5, WorkspaceBounds
<1>7. /\ p4' \in [Y!Resources -> Requests \cup {NoJob}] /\ p5' \in [Requests -> Works]
      /\ \A i \in Requests : p5'[i] = p5[i]
      /\ \A i \in Requests, r \in Y!Resources : p4[r] = i => p4'[r] = i
  BY DEF LibInv
<1>8. {} \in SUBSET Requests /\ \A i \in {} : WorkFits(i)'
  OBVIOUS
<1>. QED  BY <1>1, <1>2, <1>6, <1>7, <1>8, LibStays

\* Whatever happens next, requests stand by what they counted.
LEMMA LibMoves == LibInv /\ Y!LibraryNext => LibInv'
<1>. SUFFICES ASSUME LibInv, Y!LibraryNext
              PROVE  LibInv'
  OBVIOUS
<1>1. ASSUME NEW j \in Requests, NEW kind \in Y!Kinds, NEW about \in Y!AboutOf(kind),
             Y!Ask(j, kind, about)
      PROVE  LibInv'
  BY <1>1, LibAsks
<1>2. ASSUME NEW j \in Requests, Y!BeginWork(j) \/ Y!Locks(j) \/ Y!Counts(j) \/ Y!BrokenOff(j)
      PROVE  LibInv'
  BY <1>2, LibBegins, LibLocks, LibCounts, LibGivesUp DEF Y!BrokenOff
<1>3. ASSUME NEW j \in Requests, Y!Commit(j)
      PROVE  LibInv'
  <2>1. p5[j].pc = "counted"
    BY <1>3 DEF Y!Commit
  <2>. QED  BY <1>3, <2>1, LibAddsSong, LibAddsArtist, LibAddsSetlist, LibCopies,
               LibDuplicates, LibImports DEF Y!Commit
<1>4. p3 \in Nat
  BY WorkspaceBounds DEF LibInv
<1>5. ASSUME NEW k \in Titles, Y!TrashSong(k)
      PROVE  LibInv'
  BY <1>4, <1>5, LibTrashes DEF Y!TrashSong
<1>6. ASSUME NEW n \in Y!AllArtists, Y!TrashArtist(n)
      PROVE  LibInv'
  BY <1>4, <1>6, LibTrashes DEF Y!TrashArtist
<1>7. ASSUME Y!TrashSetlist
      PROVE  LibInv'
  BY <1>4, <1>7, LibTrashes DEF Y!TrashSetlist
<1>. QED  BY <1>1, <1>2, <1>3, <1>5, <1>6, <1>7 DEF Y!LibraryNext

\* The limits hold where requests stand by what they counted.
LEMMA LibSafe == LibInv => Y!LimitsHold
BY LibraryCounts, RoomIs, WorkspaceBounds DEF LibInv, Y!LimitsHold

-----------------------------------------------------------------------------
(* Backups: p1 is the library, p2 the export, p3 what was edited since it   *)
(* began, p4 how often, p5 the importing account's songs, p6 the import.    *)

Exports == [pc : {"idle", "read", "songs", "done"}, left : SUBSET K!Statements,
            file : K!Libraries]

\* What was read is as it is, except for what was edited.
ReadSoFar ==
    /\ "artists" \notin p2.left =>
         \A n \in Names \ p3 : n \in p2.file.names <=> n \in p1.names
    /\ "songs" \notin p2.left =>
         \A t \in Tracks \ p3 : t \in p2.file.tracks <=> t \in p1.tracks
    /\ "setlists" \notin p2.left =>
         \A s \in Shows \ p3 : s \in p2.file.shows <=> s \in p1.shows
    /\ "gigs" \notin p2.left =>
         \A s \in Shows \ p3 : p1.gig = s /\ s \in p1.shows => p2.file.gig = s

\* What an import of the file does, or why it does nothing.
ImportFits ==
    /\ p6.state = "done" =>
         /\ K!Resolves(p2.file) /\ K!Merged(p2.file) \subseteq p5
         /\ p6.links = {<<e[1], K!MergeKey(e[2])>> : e \in p2.file.links}
         /\ p6.gig = IF p2.file.gig \in p2.file.shows THEN p2.file.gig ELSE NoShow
    /\ p6.state = "refused" => ~(K!Fits(p2.file) /\ K!Resolves(p2.file))

\* Songs have their artists, edits are told of, and a finished file holds what
\* was shown last.
BackInv ==
    /\ p1 \in K!Libraries /\ p2 \in Exports
    /\ \A t \in p1.tracks : NameOf(t) \in p1.names
    /\ p2.pc = "idle" => p3 = {}
    /\ p2.pc \in {"songs", "done"} => p2.left = {}
    /\ p2.pc # "idle" => ReadSoFar
    /\ p2.pc = "done" => p2.file.links = {e \in K!LinksShown(p1) : e[1] \in p2.file.shows}
    /\ p6.state # "no" => p2.pc = "done"
    /\ ImportFits

\* The types, one by one.
LEMMA BackTyped ==
    ASSUME BackInv
    PROVE  /\ p1 \in K!Libraries /\ p1.names \subseteq Names /\ p1.tracks \subseteq Tracks
           /\ p1.shows \subseteq Shows /\ p1.links \subseteq Shows \X Tracks
           /\ p1.gig \in Shows \cup {NoShow}
           /\ p2 \in Exports /\ p2.file \in K!Libraries /\ p2.left \subseteq K!Statements
           /\ p2.pc \in {"idle", "read", "songs", "done"}
           /\ p2.file.names \subseteq Names /\ p2.file.tracks \subseteq Tracks
           /\ p2.file.shows \subseteq Shows /\ p2.file.links \subseteq Shows \X Tracks
           /\ p2.file.gig \in Shows \cup {NoShow}
<1>1. p1 \in K!Libraries /\ p2 \in Exports
  BY DEF BackInv
<1>2. p2.file \in K!Libraries /\ p2.left \subseteq K!Statements
      /\ p2.pc \in {"idle", "read", "songs", "done"}
  BY <1>1 DEF Exports
<1>3. \A l \in K!Libraries :
        /\ l.names \subseteq Names /\ l.tracks \subseteq Tracks /\ l.shows \subseteq Shows
        /\ l.links \subseteq Shows \X Tracks /\ l.gig \in Shows \cup {NoShow}
  BY DEF K!Libraries
<1>. QED  BY <1>1, <1>2, <1>3

\* Nothing is read yet, and nothing edited.
LEMMA BackStarts == K!BackupInit => BackInv
<1>. SUFFICES ASSUME K!BackupInit
              PROVE  BackInv
  OBVIOUS
<1>1. /\ p1 \in K!Libraries /\ \A t \in p1.tracks : NameOf(t) \in p1.names
      /\ p3 = {} /\ p6 = K!NotImported
      /\ p2 = [pc |-> "idle", left |-> {}, file |-> K!NoFile]
  BY DEF K!BackupInit
<1>2. K!NoFile \in K!Libraries
  BY DEF K!NoFile, K!Libraries
<1>3. p2 \in Exports /\ p2.pc = "idle"
  BY <1>1, <1>2 DEF Exports
<1>4. p6.state = "no"
  BY <1>1 DEF K!NotImported
<1>. QED  BY <1>1, <1>3, <1>4 DEF BackInv, ImportFits

\* The export begins.
LEMMA BackBegins ==
    ASSUME BackInv, K!BeginExport
    PROVE  BackInv'
<1>1. /\ p2' = [p2 EXCEPT !.pc = "read", !.left = K!Statements] /\ p2.pc = "idle"
      /\ UNCHANGED <<p1, p3, p4, p5, p6>>
  BY DEF K!BeginExport
<1>2. p2' \in Exports /\ p2'.pc = "read" /\ p2'.left = K!Statements /\ p2'.file = p2.file
  BY <1>1, BackTyped DEF Exports
<1>3. ReadSoFar'
  BY <1>2 DEF ReadSoFar, K!Statements
<1>4. p6.state = "no"
  BY <1>1, BackTyped DEF BackInv
<1>. QED  BY <1>1, <1>2, <1>3, <1>4 DEF BackInv, ImportFits

\* One of the first statements reads what it is about, and nothing else.
LEMMA ReadsOne ==
    ASSUME BackInv, NEW what \in K!Statements
    PROVE  LET f == K!Reads(p2.file, what) IN
           /\ f \in K!Libraries
           /\ f.names = IF what = "artists" THEN p1.names ELSE p2.file.names
           /\ f.tracks = IF what = "songs" THEN p1.tracks ELSE p2.file.tracks
           /\ f.shows = IF what = "setlists" THEN p1.shows ELSE p2.file.shows
           /\ f.gig = IF what = "gigs"
                      THEN IF p1.gig \in p1.shows THEN p1.gig ELSE NoShow
                      ELSE p2.file.gig
<1>. DEFINE f == K!Reads(p2.file, what)
<1>1. CASE what = "artists"
  <2>1. f = [p2.file EXCEPT !.names = p1.names]
    BY <1>1 DEF K!Reads
  <2>. QED  BY <1>1, <2>1, BackTyped DEF K!Libraries
<1>2. CASE what = "songs"
  <2>1. f = [p2.file EXCEPT !.tracks = p1.tracks]
    BY <1>2 DEF K!Reads
  <2>. QED  BY <1>2, <2>1, BackTyped DEF K!Libraries
<1>3. CASE what = "setlists"
  <2>1. f = [p2.file EXCEPT !.shows = p1.shows]
    BY <1>3 DEF K!Reads
  <2>. QED  BY <1>3, <2>1, BackTyped DEF K!Libraries
<1>4. CASE what = "gigs"
  <2>1. f = [p2.file EXCEPT !.gig = IF p1.gig \in p1.shows THEN p1.gig ELSE NoShow]
    BY <1>4 DEF K!Reads
  <2>. QED  BY <1>4, <2>1, BackTyped DEF K!Libraries
<1>. QED  BY <1>1, <1>2, <1>3, <1>4 DEF K!Statements

\* What is read is as it is now.
LEMMA BackReads ==
    ASSUME BackInv, NEW what \in K!Statements, K!ReadSome(what)
    PROVE  BackInv'
<1>. DEFINE f == K!Reads(p2.file, what)
<1>1. /\ p2.pc = "read" /\ what \in p2.left /\ UNCHANGED <<p1, p3, p4, p5, p6>>
      /\ p2' = [p2 EXCEPT !.file = f, !.left = p2.left \ {what},
                          !.pc = IF p2.left = {what} THEN "songs" ELSE "read"]
  BY BackTyped DEF K!ReadSome, Exports
<1>2. f \in K!Libraries
  BY ReadsOne
<1>3. /\ p2' \in Exports /\ p2'.file = f /\ p2'.left = p2.left \ {what}
      /\ p2'.pc \in {"songs", "read"} /\ (p2'.pc = "songs" => p2.left = {what})
  BY <1>1, <1>2, BackTyped DEF Exports
<1>4. ReadSoFar
  BY <1>1 DEF BackInv
<1>5. ReadSoFar'
  <2>1. "artists" \notin p2'.left =>
          \A n \in Names \ p3 : n \in p2'.file.names <=> n \in p1.names
    BY <1>3, <1>4, ReadsOne DEF ReadSoFar
  <2>2. "songs" \notin p2'.left =>
          \A t \in Tracks \ p3 : t \in p2'.file.tracks <=> t \in p1.tracks
    BY <1>3, <1>4, ReadsOne DEF ReadSoFar
  <2>3. "setlists" \notin p2'.left =>
          \A s \in Shows \ p3 : s \in p2'.file.shows <=> s \in p1.shows
    BY <1>3, <1>4, ReadsOne DEF ReadSoFar
  <2>4. "gigs" \notin p2'.left =>
          \A s \in Shows \ p3 : p1.gig = s /\ s \in p1.shows => p2'.file.gig = s
    BY <1>3, <1>4, ReadsOne DEF ReadSoFar
  <2>. QED  BY <1>1, <2>1, <2>2, <2>3, <2>4 DEF ReadSoFar
<1>6. p6.state = "no"
  BY <1>1, BackTyped DEF BackInv
<1>. QED  BY <1>1, <1>3, <1>5, <1>6 DEF BackInv, ImportFits

\* The songs of the setlists are read last.
LEMMA BackReadsLinks ==
    ASSUME BackInv, K!ReadLinks
    PROVE  BackInv'
<1>. DEFINE some == {e \in K!LinksShown(p1) : e[1] \in p2.file.shows}
            f == [p2.file EXCEPT !.links = some]
<1>1. /\ p2.pc = "songs" /\ UNCHANGED <<p1, p3, p4, p5, p6>>
      /\ p2' = [p2 EXCEPT !.pc = "done", !.file.links = some]
  BY DEF K!ReadLinks
<1>2. some \subseteq Shows \X Tracks
  BY BackTyped DEF K!LinksShown
<1>3. /\ f \in K!Libraries /\ f.links = some /\ f.names = p2.file.names
      /\ f.tracks = p2.file.tracks /\ f.shows = p2.file.shows /\ f.gig = p2.file.gig
  BY <1>2, BackTyped DEF K!Libraries
<1>4. p2' = [p2 EXCEPT !.pc = "done", !.file = f]
  BY <1>1, BackTyped DEF Exports
<1>5. p2' \in Exports /\ p2'.pc = "done" /\ p2'.file = f /\ p2'.left = p2.left
  BY <1>3, <1>4, BackTyped DEF Exports
<1>6. ReadSoFar'
  BY <1>1, <1>3, <1>5 DEF BackInv, ReadSoFar
<1>7. p6.state = "no"
  BY <1>1, BackTyped DEF BackInv
<1>8. p2'.file.links = {e \in K!LinksShown(p1') : e[1] \in p2'.file.shows}
  BY <1>1, <1>3, <1>5
<1>. QED  BY <1>1, <1>5, <1>6, <1>7, <1>8 DEF BackInv, ImportFits

\* An edit leaves alone what it does not tell of, and songs their artists.
LEMMA BackEdits ==
    ASSUME BackInv, NEW what, NEW l \in K!Libraries, K!Edits(what, l),
           l.gig = p1.gig, \A t \in l.tracks : NameOf(t) \in l.names,
           \A n \in Names \ what : n \in l.names <=> n \in p1.names,
           \A t \in Tracks \ what : t \in l.tracks <=> t \in p1.tracks,
           \A s \in Shows \ what : s \in l.shows <=> s \in p1.shows
    PROVE  BackInv'
<1>1. /\ p2.pc \in {"read", "songs"} /\ p1' = l /\ p3' = p3 \cup what
      /\ UNCHANGED <<p2, p5, p6>>
  BY DEF K!Edits
<1>2. ReadSoFar
  BY <1>1 DEF BackInv
<1>3. ReadSoFar'
  BY <1>1, <1>2 DEF ReadSoFar
<1>4. p6.state = "no"
  BY <1>1, BackTyped DEF BackInv
<1>. QED  BY <1>1, <1>3, <1>4 DEF BackInv, ImportFits

\* Artists come and go, the latter with their songs.
LEMMA BackEditsNames ==
    ASSUME BackInv, NEW n \in Names, K!CreateName(n) \/ K!TrashName(n)
    PROVE  BackInv'
<1>1. CASE K!CreateName(n)
  <2>. DEFINE l == [p1 EXCEPT !.names = p1.names \cup {n}]
  <2>1. K!Edits({n}, l)
    BY <1>1, BackTyped DEF K!CreateName, K!Libraries
  <2>2. /\ l \in K!Libraries /\ l.gig = p1.gig /\ l.tracks = p1.tracks
        /\ l.shows = p1.shows /\ l.names = p1.names \cup {n}
    BY BackTyped DEF K!Libraries
  <2>3. \A t \in l.tracks : NameOf(t) \in l.names
    BY <2>2 DEF BackInv
  <2>. QED  BY <2>1, <2>2, <2>3, BackEdits
<1>2. CASE K!TrashName(n)
  <2>. DEFINE l == [p1 EXCEPT !.names = p1.names \ {n}, !.tracks = p1.tracks \ K!SongsBy(n)]
              what == {n} \cup (K!SongsBy(n) \cap p1.tracks)
  <2>1. K!Edits(what, l)
    BY <1>2, BackTyped DEF K!TrashName, K!Libraries
  <2>2. /\ l \in K!Libraries /\ l.gig = p1.gig /\ l.tracks = p1.tracks \ K!SongsBy(n)
        /\ l.shows = p1.shows /\ l.names = p1.names \ {n}
    BY BackTyped DEF K!Libraries
  <2>3. \A t \in l.tracks : NameOf(t) \in l.names
    BY <2>2, BackTyped DEF BackInv, K!SongsBy
  <2>4. /\ \A o \in Names \ what : o \in l.names <=> o \in p1.names
        /\ \A t \in Tracks \ what : t \in l.tracks <=> t \in p1.tracks
        /\ \A s \in Shows \ what : s \in l.shows <=> s \in p1.shows
    BY <2>2
  <2>5. l \in K!Libraries /\ l.gig = p1.gig
    BY <2>2
  <2>. HIDE DEF l, what
  <2>. QED  BY <2>1, <2>3, <2>4, <2>5, BackEdits
<1>. QED  BY <1>1, <1>2

\* Songs come, by artists in the library, and go.
LEMMA BackEditsTracks ==
    ASSUME BackInv, NEW t \in Tracks, K!CreateTrack(t) \/ K!TrashTrack(t)
    PROVE  BackInv'
<1>1. CASE K!CreateTrack(t)
  <2>. DEFINE l == [p1 EXCEPT !.tracks = p1.tracks \cup {t}]
  <2>1. K!Edits({t}, l) /\ NameOf(t) \in p1.names
    BY <1>1, BackTyped DEF K!CreateTrack, K!Libraries
  <2>2. /\ l \in K!Libraries /\ l.gig = p1.gig /\ l.tracks = p1.tracks \cup {t}
        /\ l.shows = p1.shows /\ l.names = p1.names
    BY BackTyped DEF K!Libraries
  <2>3. \A u \in l.tracks : NameOf(u) \in l.names
    BY <2>1, <2>2 DEF BackInv
  <2>. QED  BY <2>1, <2>2, <2>3, BackEdits
<1>2. CASE K!TrashTrack(t)
  <2>. DEFINE l == [p1 EXCEPT !.tracks = p1.tracks \ {t}]
  <2>1. K!Edits({t}, l)
    BY <1>2, BackTyped DEF K!TrashTrack, K!Libraries
  <2>2. /\ l \in K!Libraries /\ l.gig = p1.gig /\ l.tracks = p1.tracks \ {t}
        /\ l.shows = p1.shows /\ l.names = p1.names
    BY BackTyped DEF K!Libraries
  <2>3. \A u \in l.tracks : NameOf(u) \in l.names
    BY <2>2 DEF BackInv
  <2>. QED  BY <2>1, <2>2, <2>3, BackEdits
<1>. QED  BY <1>1, <1>2

\* Setlists come and go, and songs come into them and leave them.
LEMMA BackEditsShows ==
    ASSUME BackInv, NEW s \in Shows,
           \/ K!CreateShow(s) \/ K!TrashShow(s)
           \/ \E t \in Tracks : K!Enlist(s, t) \/ K!Delist(s, t)
    PROVE  BackInv'
<1>1. PICK l \in K!Libraries :
        /\ K!Edits({s}, l) /\ l.gig = p1.gig /\ l.tracks = p1.tracks /\ l.names = p1.names
        /\ \A o \in Shows \ {s} : o \in l.shows <=> o \in p1.shows
  <2>1. CASE K!CreateShow(s)
    <3>. DEFINE l == [p1 EXCEPT !.shows = p1.shows \cup {s}]
    <3>1. K!Edits({s}, l)
      BY <2>1, BackTyped DEF K!CreateShow, K!Libraries
    <3>2. /\ l \in K!Libraries /\ l.gig = p1.gig /\ l.tracks = p1.tracks
          /\ l.names = p1.names /\ l.shows = p1.shows \cup {s}
      BY BackTyped DEF K!Libraries
    <3>. QED  BY <3>1, <3>2
  <2>2. CASE K!TrashShow(s)
    <3>. DEFINE l == [p1 EXCEPT !.shows = p1.shows \ {s}]
    <3>1. K!Edits({s}, l)
      BY <2>2, BackTyped DEF K!TrashShow, K!Libraries
    <3>2. /\ l \in K!Libraries /\ l.gig = p1.gig /\ l.tracks = p1.tracks
          /\ l.names = p1.names /\ l.shows = p1.shows \ {s}
      BY BackTyped DEF K!Libraries
    <3>. QED  BY <3>1, <3>2
  <2>3. ASSUME NEW t \in Tracks, K!Enlist(s, t)
        PROVE  \E l \in K!Libraries :
                 /\ K!Edits({s}, l) /\ l.gig = p1.gig /\ l.tracks = p1.tracks
                 /\ l.names = p1.names /\ l.shows = p1.shows
    <3>. DEFINE l == [p1 EXCEPT !.links = p1.links \cup {<<s, t>>}]
    <3>1. K!Edits({s}, l)
      BY <2>3, BackTyped DEF K!Enlist, K!Libraries
    <3>2. /\ l \in K!Libraries /\ l.gig = p1.gig /\ l.tracks = p1.tracks
          /\ l.names = p1.names /\ l.shows = p1.shows
      BY BackTyped DEF K!Libraries
    <3>. QED  BY <3>1, <3>2
  <2>4. ASSUME NEW t \in Tracks, K!Delist(s, t)
        PROVE  \E l \in K!Libraries :
                 /\ K!Edits({s}, l) /\ l.gig = p1.gig /\ l.tracks = p1.tracks
                 /\ l.names = p1.names /\ l.shows = p1.shows
    <3>. DEFINE l == [p1 EXCEPT !.links = p1.links \ {<<s, t>>}]
    <3>1. K!Edits({s}, l)
      BY <2>4, BackTyped DEF K!Delist, K!Libraries
    <3>2. /\ l \in K!Libraries /\ l.gig = p1.gig /\ l.tracks = p1.tracks
          /\ l.names = p1.names /\ l.shows = p1.shows
      BY BackTyped DEF K!Libraries
    <3>. QED  BY <3>1, <3>2
  <2>. QED  BY <2>1, <2>2, <2>3, <2>4
<1>2. \A t \in l.tracks : NameOf(t) \in l.names
  BY <1>1 DEF BackInv
<1>. QED  BY <1>1, <1>2, BackEdits

\* The import, which does all or nothing.
LEMMA BackImports ==
    ASSUME BackInv, K!Import
    PROVE  BackInv'
<1>1. p2.pc = "done" /\ UNCHANGED <<p1, p2, p3>>
  BY DEF K!Import
<1>2. ImportFits'
  <2>1. CASE K!Fits(p2.file) /\ K!Resolves(p2.file)
    <3>1. /\ p5' = p5 \cup K!Merged(p2.file)
          /\ p6' = [state |-> "done",
                    links |-> {<<e[1], K!MergeKey(e[2])>> : e \in p2.file.links},
                    gig |-> IF p2.file.gig \in p2.file.shows THEN p2.file.gig ELSE NoShow]
      BY <2>1 DEF K!Import
    <3>2. /\ p6'.state = "done"
          /\ p6'.links = {<<e[1], K!MergeKey(e[2])>> : e \in p2.file.links}
          /\ p6'.gig = IF p2.file.gig \in p2.file.shows THEN p2.file.gig ELSE NoShow
      BY <3>1
    <3>3. K!Resolves(p2'.file) /\ K!Merged(p2'.file) \subseteq p5'
      BY <1>1, <2>1, <3>1 DEF K!Merged
    <3>. QED  BY <1>1, <3>2, <3>3 DEF ImportFits
  <2>2. CASE ~(K!Fits(p2.file) /\ K!Resolves(p2.file))
    <3>1. p5' = p5 /\ p6' = [K!NotImported EXCEPT !.state = "refused"]
      BY <2>2 DEF K!Import
    <3>2. p6'.state = "refused"
      BY <3>1 DEF K!NotImported
    <3>3. ~(K!Fits(p2.file) /\ K!Resolves(p2.file))'
      BY <1>1, <2>2, <3>1 DEF K!Fits, K!Resolves
    <3>. QED  BY <3>2, <3>3 DEF ImportFits
  <2>. QED  BY <2>1, <2>2
<1>3. ReadSoFar'
  BY <1>1 DEF BackInv, ReadSoFar
<1>. QED  BY <1>1, <1>2, <1>3 DEF BackInv, K!LinksShown

\* Whatever happens next, the file is about the library.
LEMMA BackMoves == BackInv /\ K!BackupNext => BackInv'
BY BackBegins, BackReadsLinks, BackImports, BackReads, BackEditsNames, BackEditsTracks,
   BackEditsShows DEF K!BackupNext

\* So what nobody edited comes back.
LEMMA BackSafe == BackInv => K!UntouchedComesBack
<1>. SUFFICES ASSUME BackInv
              PROVE  K!UntouchedComesBack
  OBVIOUS
<1>1. ASSUME p6.state # "no"
      PROVE  /\ p2.file.links = {e \in K!LinksShown(p1) : e[1] \in p2.file.shows}
             /\ \A n \in Names \ p3 : n \in p2.file.names <=> n \in p1.names
             /\ \A t \in Tracks \ p3 : t \in p2.file.tracks <=> t \in p1.tracks
             /\ \A s \in Shows \ p3 : s \in p2.file.shows <=> s \in p1.shows
             /\ \A s \in Shows \ p3 : p1.gig = s /\ s \in p1.shows => p2.file.gig = s
  BY <1>1 DEF BackInv, ReadSoFar
<1>2. ASSUME p3 = {}, p6.state = "refused"
      PROVE  ~K!Fits(p2.file)
  <2>1. /\ p2.file.names = p1.names /\ p2.file.tracks = p1.tracks
        /\ p2.file.links = {e \in K!LinksShown(p1) : e[1] \in p2.file.shows}
    BY <1>1, <1>2, BackTyped
  <2>2. \A t \in p1.tracks : NameOf(t) \in p1.names
    BY DEF BackInv
  <2>3. K!Resolves(p2.file)
    BY <2>1, <2>2 DEF K!Resolves, K!LinksShown
  <2>. QED  BY <1>2, <2>3 DEF BackInv, ImportFits
<1>3. ASSUME p6.state = "done", NEW s \in Shows \ p3
      PROVE  LET shown == {e \in K!LinksShown(p1) : e[1] = s /\ s \in p1.shows} IN
             /\ {i \in p6.links : i[1] = s} = {<<s, KeyOf(e[2])>> : e \in shown}
             /\ \A e \in shown : KeyOf(e[2]) \in p5
             /\ p1.gig = s /\ s \in p1.shows => p6.gig = s
  <2>. DEFINE shown == {e \in K!LinksShown(p1) : e[1] = s /\ s \in p1.shows}
              kept == p2.file.links
  <2>1. shown = {e \in kept : e[1] = s}
    BY <1>1, <1>3
  <2>2. /\ p6.links = {<<e[1], KeyOf(e[2])>> : e \in kept}
        /\ p6.gig = IF p2.file.gig \in p2.file.shows THEN p2.file.gig ELSE NoShow
        /\ \A e \in kept : e[2] \in p2.file.tracks
        /\ \A t \in p2.file.tracks : KeyOf(t) \in p5
    BY <1>3 DEF BackInv, ImportFits, K!Resolves, K!Merged, K!MergeKey
  <2>3. {i \in p6.links : i[1] = s} = {<<s, KeyOf(e[2])>> : e \in shown}
    <3>1. \A i : i \in p6.links /\ i[1] = s <=> \E e \in kept : i = <<e[1], KeyOf(e[2])>> /\ i[1] = s
      BY <2>2
    <3>2. \A i : i \in {<<s, KeyOf(e[2])>> : e \in shown}
                   <=> \E e \in kept : e[1] = s /\ i = <<s, KeyOf(e[2])>>
      BY <2>1
    <3>3. \A i, e : i = <<e[1], KeyOf(e[2])>> => i[1] = e[1]
      OBVIOUS
    <3>4. \A i : i \in p6.links /\ i[1] = s <=> i \in {<<s, KeyOf(e[2])>> : e \in shown}
      BY <3>1, <3>2, <3>3
    <3>. QED  BY <3>4
  <2>4. \A e \in shown : KeyOf(e[2]) \in p5
    BY <2>1, <2>2
  <2>5. p1.gig = s /\ s \in p1.shows => p6.gig = s
    BY <1>1, <1>3, <2>2
  <2>. QED  BY <2>3, <2>4, <2>5
<1>. QED  BY <1>2, <1>3 DEF K!UntouchedComesBack

\* What else keeps its type while a backup is made and imported.
BackTypes ==
    /\ p3 \subseteq Names \cup Tracks \cup Shows /\ p4 \in 0 .. MaxTouches /\ p5 \subseteq Keys
    /\ p6 \in [state : {"no", "done", "refused"}, links : SUBSET (Shows \X Keys),
               gig : Shows \cup {NoShow}]

\* At the start it has it.
LEMMA BackTypesStart == K!BackupInit => BackTypes
<1>1. MaxTouches \in Nat /\ Wanted \subseteq Keys
  BY WorkspaceBounds
<1>2. K!NotImported \in [state : {"no", "done", "refused"}, links : SUBSET (Shows \X Keys),
                         gig : Shows \cup {NoShow}]
  BY DEF K!NotImported
<1>. QED  BY <1>1, <1>2 DEF K!BackupInit, BackTypes

\* An edit touches what there is.
LEMMA BackTypesEdit ==
    ASSUME BackTypes, NEW what \in SUBSET (Names \cup Tracks \cup Shows), NEW l,
           K!Edits(what, l)
    PROVE  BackTypes'
<1>1. MaxTouches \in Nat
  BY WorkspaceBounds
<1>2. /\ p4 < MaxTouches /\ p3' = p3 \cup what /\ p4' = p4 + 1 /\ p5' = p5 /\ p6' = p6
  BY DEF K!Edits
<1>3. p4' \in 0 .. MaxTouches
  BY <1>1, <1>2 DEF BackTypes
<1>. QED  BY <1>2, <1>3 DEF BackTypes

\* Whatever happens next, it keeps it.
LEMMA BackTypesMove ==
    ASSUME BackInv, BackTypes, K!BackupNext
    PROVE  BackTypes'
<1>1. CASE K!BeginExport \/ K!ReadLinks \/ \E what \in K!Statements : K!ReadSome(what)
  BY <1>1 DEF BackTypes, K!BeginExport, K!ReadLinks, K!ReadSome
<1>2. CASE K!Import
  <2>. DEFINE links == {<<e[1], K!MergeKey(e[2])>> : e \in p2.file.links}
              gig == IF p2.file.gig \in p2.file.shows THEN p2.file.gig ELSE NoShow
  <2>1. \A t \in Tracks : K!MergeKey(t) \in Keys
    BY WorkspaceBounds DEF K!MergeKey
  <2>2. links \in SUBSET (Shows \X Keys) /\ gig \in Shows \cup {NoShow}
        /\ K!Merged(p2.file) \subseteq Keys
    BY <2>1, BackTyped DEF K!Merged
  <2>3. /\ UNCHANGED <<p3, p4>>
        /\ \/ p5' = p5 \cup K!Merged(p2.file)
              /\ p6' = [state |-> "done", links |-> links, gig |-> gig]
           \/ p5' = p5 /\ p6' = [K!NotImported EXCEPT !.state = "refused"]
    BY <1>2 DEF K!Import
  <2>. HIDE DEF links, gig
  <2>4. [K!NotImported EXCEPT !.state = "refused"] = [state |-> "refused", links |-> {}, gig |-> NoShow]
    BY DEF K!NotImported
  <2>. QED  BY <2>2, <2>3, <2>4 DEF BackTypes
<1>3. ASSUME NEW n \in Names, K!CreateName(n) \/ K!TrashName(n)
      PROVE  BackTypes'
  <2>1. {n} \in SUBSET (Names \cup Tracks \cup Shows)
        /\ {n} \cup (K!SongsBy(n) \cap p1.tracks) \in SUBSET (Names \cup Tracks \cup Shows)
    BY DEF K!SongsBy
  <2>. QED  BY <1>3, <2>1, BackTypesEdit DEF K!CreateName, K!TrashName
<1>4. ASSUME NEW t \in Tracks, K!CreateTrack(t) \/ K!TrashTrack(t)
      PROVE  BackTypes'
  <2>1. {t} \in SUBSET (Names \cup Tracks \cup Shows)
    OBVIOUS
  <2>. QED  BY <1>4, <2>1, BackTypesEdit DEF K!CreateTrack, K!TrashTrack
<1>5. ASSUME NEW s \in Shows,
             \/ K!CreateShow(s) \/ K!TrashShow(s)
             \/ \E t \in Tracks : K!Enlist(s, t) \/ K!Delist(s, t)
      PROVE  BackTypes'
  <2>1. {s} \in SUBSET (Names \cup Tracks \cup Shows)
    OBVIOUS
  <2>. QED  BY <1>5, <2>1, BackTypesEdit
            DEF K!CreateShow, K!TrashShow, K!Enlist, K!Delist
<1>. QED  BY <1>1, <1>2, <1>3, <1>4, <1>5 DEF K!BackupNext

\* Both have their types.
LEMMA BackTypesSafe == BackInv /\ BackTypes => K!BackupTypeOK
BY DEF BackInv, BackTypes, Exports, K!BackupTypeOK

\* A library and the requests about it have theirs.
LEMMA LibTypesSafe == LibInv => Y!LibraryTypeOK
<1>. SUFFICES ASSUME LibInv
              PROVE  Y!LibraryTypeOK
  OBVIOUS
<1>1. ASSUME NEW q \in Rests
      PROVE  Y!ToSet(q) \subseteq Y!Resources
  BY DEF Rests, Y!ToSet, Y!Resources
<1>2. ASSUME NEW j \in Requests
      PROVE  /\ p5[j].kind \in Y!Kinds /\ p5[j].about \subseteq Titles
             /\ p5[j].pc \in {"idle", "checked", "in", "counted"}
             /\ Y!ToSet(p5[j].todo) \subseteq Y!Resources /\ p5[j].used \in 0 .. SongRoom
  <2>1. p5[j] \in Works
    BY DEF LibInv
  <2>2. p5[j].todo \in Rests
    BY <2>1 DEF Works
  <2>3. Y!ToSet(p5[j].todo) \subseteq Y!Resources
    BY <1>1, <2>2
  <2>. QED  BY <2>1, <2>3 DEF Works
<1>. QED  BY <1>2 DEF LibInv, Y!LibraryTypeOK

-----------------------------------------------------------------------------
(* Gigs, setlists and tours: p1 is the rows, p2 who is in which band, p3    *)
(* what plain members may do, p4 collaborators, p5 the setlist and p6 the   *)
(* tour of each gig, p7 the requests.                                       *)

\* The kinds and homes of things.
LEMMA ThingsAre ==
    /\ Callers \cap Bands = {} /\ NoShow \notin Things /\ Keep \notin Things
    /\ \A i \in Things : /\ KindOf[i] \in {"song", "artist", "setlist", "gig", "tour"}
                         /\ HomeOf[i] \in Callers \/ HomeOf[i] \in Bands
                         /\ ~(HomeOf[i] \in Callers /\ HomeOf[i] \in Bands)
BY WorkspaceBounds

\* A setlist l and a tour t that may be those of gig g.
Belong(g, l, t) ==
    /\ l \in Things => KindOf[l] = "setlist" /\ HomeOf[l] = HomeOf[g]
    /\ t \in Things => KindOf[t] = "tour" /\ HomeOf[t] = HomeOf[g]

\* Links and requests have the scope of their gig.
AgendaInv ==
    /\ D!AgendaTypeOK
    /\ \A g \in D!GigRows : Belong(g, p5[g], p6[g])
    /\ \A x \in Planners :
          /\ p7[x].pc # "idle" => p7[x].gig \in D!GigRows /\ Belong(p7[x].gig, p7[x].list, p7[x].tour)
          /\ p7[x].pc = "create" => p7[x].list # Keep /\ p7[x].tour # Keep

\* The types, one by one.
LEMMA AgendaTyped ==
    ASSUME AgendaInv
    PROVE  /\ p1 \in [Things -> {"none", "live", "trash", "gone"}]
           /\ p2 \in [Bands -> [Callers -> 0 .. 2]]
           /\ p3 \in [Bands -> SUBSET D!Permissions]
           /\ p4 \in [Things -> SUBSET Callers]
           /\ p5 \in [D!GigRows -> Things \cup {NoShow}]
           /\ p6 \in [D!GigRows -> Things \cup {NoShow}]
           /\ p7 \in [Planners -> D!PlanRecords]
           /\ D!GigRows \subseteq Things
BY DEF AgendaInv, D!AgendaTypeOK, D!AccessTypeOK, D!Outside, D!Leading, D!GigRows, D!OfKind

\* A request without business.
LEMMA NoPlanIs ==
    /\ D!NoPlan \in D!PlanRecords /\ D!NoPlan.pc = "idle"
BY DEF D!NoPlan, D!PlanRecords

\* At first nothing names anything.
LEMMA AgendaStarts == D!AgendaInit => AgendaInv
<1>. SUFFICES ASSUME D!AgendaInit
              PROVE  AgendaInv
  OBVIOUS
<1>1. /\ p1 = [i \in Things |-> "none"]
      /\ p2 = [b \in Bands |-> [u \in Callers |-> 1]]
      /\ p3 = [b \in Bands |-> {}] /\ p4 = [i \in Things |-> {}]
      /\ p5 = [g \in D!GigRows |-> NoShow] /\ p6 = [g \in D!GigRows |-> NoShow]
      /\ p7 = [x \in Planners |-> D!NoPlan]
  BY DEF D!AgendaInit, D!AccessInit, D!Plain
<1>2. D!AgendaTypeOK
  BY <1>1, NoPlanIs DEF D!AgendaTypeOK, D!AccessTypeOK, D!Outside, D!Leading
<1>3. \A g \in D!GigRows : Belong(g, p5[g], p6[g])
  BY <1>1, ThingsAre DEF Belong
<1>. QED  BY <1>1, <1>2, <1>3, NoPlanIs DEF AgendaInv

\* What happens around requests leaves the links alone.
LEMMA AccessGoesOn ==
    ASSUME AgendaInv, D!AccessMoves, p5' = p5, p6' = p6, p7' = p7
    PROVE  AgendaInv'
<1>1. D!AccessTypeOK'
  <2>. USE AgendaTyped DEF D!AccessTypeOK, D!Outside, D!Leading
  <2>1. ASSUME NEW i \in Things, NEW u \in Callers,
               \/ D!Create(i, u) \/ D!MoveToTrash(i, u) \/ D!RestoreThing(i, u)
        PROVE  D!AccessTypeOK'
    BY <2>1 DEF D!Create, D!MoveToTrash, D!RestoreThing
  <2>2. ASSUME NEW i \in Things, NEW u \in Callers,
               D!Collaborate(i, u) \/ D!StopCollaborating(i, u)
        PROVE  D!AccessTypeOK'
    BY <2>2 DEF D!Collaborate, D!StopCollaborating
  <2>3. ASSUME NEW b \in Bands, NEW u \in Joining, NEW r \in 0 .. 2, D!SetRole(b, u, r)
        PROVE  D!AccessTypeOK'
    BY <2>3 DEF D!SetRole
  <2>4. ASSUME NEW b \in Bands, NEW q \in D!Permissions, NEW m \in BOOLEAN,
               D!SetPermission(b, q, m)
        PROVE  D!AccessTypeOK'
    BY <2>4 DEF D!SetPermission
  <2>. QED  BY <2>1, <2>2, <2>3, <2>4 DEF D!AccessMoves
<1>. QED  BY <1>1 DEF AgendaInv, D!AgendaTypeOK, Belong

\* A request keeps within the scope of its gig.
LEMMA PlanAsked ==
    ASSUME AgendaInv, NEW x \in Planners, NEW r \in D!PlanRecords, D!SetPlan(x, r),
           /\ r.pc # "idle" => r.gig \in D!GigRows /\ Belong(r.gig, r.list, r.tour)
           /\ r.pc = "create" => r.list # Keep /\ r.tour # Keep
    PROVE  /\ p7' \in [Planners -> D!PlanRecords]
           /\ \A y \in Planners :
                /\ p7'[y].pc # "idle" => p7'[y].gig \in D!GigRows
                                         /\ Belong(p7'[y].gig, p7'[y].list, p7'[y].tour)
                /\ p7'[y].pc = "create" => p7'[y].list # Keep /\ p7'[y].tour # Keep
BY AgendaTyped DEF AgendaInv, D!SetPlan

\* Links that fit, with requests that do.
LEMMA AgendaKept ==
    ASSUME AgendaInv,
           p1' \in [Things -> {"none", "live", "trash", "gone"}], p2' = p2, p3' = p3,
           p4' \in [Things -> SUBSET Callers],
           p5' \in [D!GigRows -> Things \cup {NoShow}],
           p6' \in [D!GigRows -> Things \cup {NoShow}],
           p7' \in [Planners -> D!PlanRecords],
           \A y \in Planners :
                /\ p7'[y].pc # "idle" => p7'[y].gig \in D!GigRows
                                         /\ Belong(p7'[y].gig, p7'[y].list, p7'[y].tour)
                /\ p7'[y].pc = "create" => p7'[y].list # Keep /\ p7'[y].tour # Keep,
           \A g \in D!GigRows : Belong(g, p5'[g], p6'[g])
    PROVE  AgendaInv'
<1>1. D!AgendaTypeOK'
  BY AgendaTyped DEF D!AgendaTypeOK, D!AccessTypeOK, D!Outside, D!Leading
<1>2. \A g \in D!GigRows : Belong(g, p5[g], p6[g])'
  BY DEF Belong
<1>. QED  BY <1>1, <1>2 DEF AgendaInv, Belong

\* A request checks what it names.
LEMMA AgendaAsks ==
    ASSUME AgendaInv, NEW x \in Planners, NEW u \in Callers, NEW g \in D!GigRows,
           NEW l \in D!OfKind("setlist") \cup {NoShow, Keep},
           NEW t \in D!OfKind("tour") \cup {NoShow, Keep},
           \/ D!AskCreateGig(x, u, g, l, t) /\ l # Keep /\ t # Keep
           \/ D!AskUpdateGig(x, u, g, l, t)
    PROVE  AgendaInv'
<1>1. /\ p1' = p1 /\ p2' = p2 /\ p3' = p3 /\ p4' = p4 /\ p5' = p5 /\ p6' = p6
      /\ D!SetlistFits(g, l, u) /\ D!TourFits(g, t)
  BY DEF D!AskCreateGig, D!AskUpdateGig, D!accessVars, D!linkVars
<1>2. Belong(g, l, t)
  BY <1>1 DEF Belong, D!SetlistFits, D!TourFits, D!FindSetlist, D!OfKind
<1>3. l \in Things \cup {NoShow, Keep} /\ t \in Things \cup {NoShow, Keep} /\ g \in Things
  BY DEF D!OfKind, D!GigRows
<1>4. PICK pc \in {"create", "update"} :
        /\ D!SetPlan(x, [pc |-> pc, gig |-> g, list |-> l, tour |-> t])
        /\ pc = "create" => l # Keep /\ t # Keep
  BY DEF D!AskCreateGig, D!AskUpdateGig
<1>5. [pc |-> pc, gig |-> g, list |-> l, tour |-> t] \in D!PlanRecords
  BY <1>3 DEF D!PlanRecords
<1>. HIDE DEF D!SetPlan
<1>6. /\ p7' \in [Planners -> D!PlanRecords]
      /\ \A y \in Planners :
           /\ p7'[y].pc # "idle" => p7'[y].gig \in D!GigRows
                                    /\ Belong(p7'[y].gig, p7'[y].list, p7'[y].tour)
           /\ p7'[y].pc = "create" => p7'[y].list # Keep /\ p7'[y].tour # Keep
  BY <1>2, <1>4, <1>5, PlanAsked
<1>7. \A d \in D!GigRows : Belong(d, p5'[d], p6'[d])
  BY <1>1 DEF AgendaInv
<1>. QED  BY <1>1, <1>6, <1>7, AgendaTyped, AgendaKept

\* A gig is written with what was checked.
LEMMA AgendaWrites ==
    ASSUME AgendaInv, NEW x \in Planners,
           D!InsertGig(x) \/ D!UpdateGig(x) \/ D!AbortPlan(x)
    PROVE  AgendaInv'
<1>1. D!SetPlan(x, D!NoPlan)
  BY DEF D!InsertGig, D!UpdateGig, D!AbortPlan
<1>2. /\ p7' \in [Planners -> D!PlanRecords]
      /\ \A y \in Planners :
           /\ p7'[y].pc # "idle" => p7'[y].gig \in D!GigRows
                                    /\ Belong(p7'[y].gig, p7'[y].list, p7'[y].tour)
           /\ p7'[y].pc = "create" => p7'[y].list # Keep /\ p7'[y].tour # Keep
  BY <1>1, NoPlanIs, PlanAsked
<1>3. p7[x] \in D!PlanRecords
  BY AgendaTyped
<1>4. p7[x].list \in Things \cup {NoShow, Keep} /\ p7[x].tour \in Things \cup {NoShow, Keep}
  BY <1>3 DEF D!PlanRecords
<1>5. CASE D!InsertGig(x)
  <2>1. /\ p7[x].pc = "create" /\ p2' = p2 /\ p3' = p3 /\ p4' = p4
        /\ p1' = [p1 EXCEPT ![p7[x].gig] = "live"]
        /\ p5' = [p5 EXCEPT ![p7[x].gig] = p7[x].list]
        /\ p6' = [p6 EXCEPT ![p7[x].gig] = p7[x].tour]
    BY <1>5 DEF D!InsertGig
  <2>2. /\ p7[x].gig \in D!GigRows /\ Belong(p7[x].gig, p7[x].list, p7[x].tour)
        /\ p7[x].list # Keep /\ p7[x].tour # Keep
    BY <2>1 DEF AgendaInv
  <2>3. \A d \in D!GigRows : Belong(d, p5'[d], p6'[d])
    BY <2>1, <2>2, AgendaTyped DEF AgendaInv
  <2>. QED  BY <1>2, <1>4, <2>1, <2>2, <2>3, AgendaTyped, AgendaKept
<1>6. CASE D!UpdateGig(x)
  <2>1. /\ p7[x].pc = "update" /\ p1' = p1 /\ p2' = p2 /\ p3' = p3 /\ p4' = p4
        /\ p5' = IF p7[x].list # Keep /\ p1[p7[x].gig] # "gone"
                 THEN [p5 EXCEPT ![p7[x].gig] = p7[x].list] ELSE p5
        /\ p6' = IF p7[x].tour # Keep /\ p1[p7[x].gig] # "gone"
                 THEN [p6 EXCEPT ![p7[x].gig] = p7[x].tour] ELSE p6
    BY <1>6 DEF D!UpdateGig, D!accessVars
  <2>2. p7[x].gig \in D!GigRows /\ Belong(p7[x].gig, p7[x].list, p7[x].tour)
    BY <2>1 DEF AgendaInv
  <2>3. \A d \in D!GigRows : Belong(d, p5'[d], p6'[d])
    BY <2>1, <2>2, AgendaTyped DEF AgendaInv, Belong
  <2>4. /\ p5' \in [D!GigRows -> Things \cup {NoShow}]
        /\ p6' \in [D!GigRows -> Things \cup {NoShow}]
    BY <1>4, <2>1, <2>2, AgendaTyped
  <2>. QED  BY <1>2, <2>1, <2>3, <2>4, AgendaTyped, AgendaKept
<1>7. CASE D!AbortPlan(x)
  <2>1. p1' = p1 /\ p2' = p2 /\ p3' = p3 /\ p4' = p4 /\ p5' = p5 /\ p6' = p6
    BY <1>7 DEF D!AbortPlan, D!accessVars, D!linkVars
  <2>2. \A d \in D!GigRows : Belong(d, p5'[d], p6'[d])
    BY <2>1 DEF AgendaInv
  <2>. QED  BY <1>2, <2>1, <2>2, AgendaTyped, AgendaKept
<1>. QED  BY <1>5, <1>6, <1>7

\* What is purged is named no more.
LEMMA AgendaPurges ==
    ASSUME AgendaInv, NEW i \in Things, D!PurgeAgenda(i)
    PROVE  AgendaInv'
<1>1. /\ p1' = [p1 EXCEPT ![i] = "gone"] /\ p4' = [p4 EXCEPT ![i] = {}]
      /\ p2' = p2 /\ p3' = p3 /\ p7' = p7
      /\ p5' = [g \in D!GigRows |-> IF i \in {g, p5[g]} THEN NoShow ELSE p5[g]]
      /\ p6' = [g \in D!GigRows |-> IF i \in {g, p6[g]} THEN NoShow ELSE p6[g]]
  BY DEF D!PurgeAgenda, D!PurgeThing, D!Forget
<1>2. \A d \in D!GigRows : Belong(d, p5'[d], p6'[d])
  BY <1>1, ThingsAre DEF AgendaInv, Belong
<1>3. \A y \in Planners :
        /\ p7'[y].pc # "idle" => p7'[y].gig \in D!GigRows
                                 /\ Belong(p7'[y].gig, p7'[y].list, p7'[y].tour)
        /\ p7'[y].pc = "create" => p7'[y].list # Keep /\ p7'[y].tour # Keep
  BY <1>1 DEF AgendaInv
<1>. QED  BY <1>1, <1>2, <1>3, AgendaTyped, AgendaKept

\* Every step leaves links and requests in scope.
LEMMA AgendaMoves == AgendaInv /\ D!AgendaNext => AgendaInv'
<1>. SUFFICES ASSUME AgendaInv, D!AgendaNext
              PROVE  AgendaInv'
  OBVIOUS
<1>1. CASE D!AccessMoves /\ UNCHANGED <<p5, p6, p7>>
  BY <1>1, AccessGoesOn
<1>2. CASE \E x \in Planners, u \in Callers, g \in D!GigRows :
              \/ \E l \in D!OfKind("setlist") \cup {NoShow},
                    t \in D!OfKind("tour") \cup {NoShow} : D!AskCreateGig(x, u, g, l, t)
              \/ \E l \in D!OfKind("setlist") \cup {NoShow, Keep},
                    t \in D!OfKind("tour") \cup {NoShow, Keep} : D!AskUpdateGig(x, u, g, l, t)
  <2>1. PICK x \in Planners, u \in Callers, g \in D!GigRows :
              \/ \E l \in D!OfKind("setlist") \cup {NoShow},
                    t \in D!OfKind("tour") \cup {NoShow} : D!AskCreateGig(x, u, g, l, t)
              \/ \E l \in D!OfKind("setlist") \cup {NoShow, Keep},
                    t \in D!OfKind("tour") \cup {NoShow, Keep} : D!AskUpdateGig(x, u, g, l, t)
    BY <1>2
  <2>2. Keep # NoShow /\ Keep \notin D!OfKind("setlist") /\ Keep \notin D!OfKind("tour")
    BY WorkspaceBounds, ThingsAre DEF D!OfKind
  <2>. QED  BY <2>1, <2>2, AgendaAsks
<1>3. CASE \E x \in Planners : D!InsertGig(x) \/ D!UpdateGig(x) \/ D!AbortPlan(x)
  BY <1>3, AgendaWrites
<1>4. CASE \E i \in Things : D!PurgeAgenda(i)
  BY <1>4, AgendaPurges
<1>. QED  BY <1>1, <1>2, <1>3, <1>4 DEF D!AgendaNext
\* Whoever is in a band opens what it has, and who owns something opens it.
LEMMA HomeOpens ==
    ASSUME NEW i \in Things, NEW u \in Callers, D!Live(i), D!Mine(i, u) \/ D!InItsBand(i, u)
    PROVE  D!Opens(i, u)
BY ThingsAre DEF D!Opens, D!FindSong, D!FindArtist, D!FindSetlist, D!FindGig, D!FindTour,
   D!OfKind

\* What somebody opens, in one formula.
LEMMA OpensIs ==
    ASSUME NEW i \in Things, NEW u \in Callers
    PROVE  D!Opens(i, u) <=>
             /\ D!Live(i)
             /\ \/ D!Mine(i, u) \/ D!InItsBand(i, u)
                \/ KindOf[i] = "setlist" /\ HomeOf[i] \in Callers /\ u \in p4[i]
BY ThingsAre DEF D!Opens, D!FindSong, D!FindArtist, D!FindSetlist, D!FindGig, D!FindTour,
   D!OfKind

\* The lists show what somebody opens.
LEMMA ListsAgree ==
    ASSUME NEW u \in Callers
    PROVE  {i \in Things : D!HasList(i) /\ D!Opens(i, u)} = D!Listed(u)
<1>1. ASSUME NEW i \in Things
      PROVE  i \in D!Listed(u) <=> D!HasList(i) /\ D!Opens(i, u)
  <2>1. i \in UNION {D!BandSetlistPage(b, u) \cup D!BandGigPage(b, u) \cup D!BandTourPage(b, u) :
                       b \in D!BandsOf(u)}
        <=> /\ D!Live(i) /\ D!InItsBand(i, u) /\ KindOf[i] \in {"setlist", "gig", "tour"}
    BY DEF D!BandSetlistPage, D!BandGigPage, D!BandTourPage, D!BandSetlists, D!BandGigs,
       D!BandTours, D!BandsOf, D!OfKind, D!InItsBand
  <2>2. i \in D!SongsOf(u) \cup D!ArtistsOf(u) \cup D!SetlistsOf(u) \cup D!GigsOf(u) \cup D!ToursOf(u)
        <=> D!Live(i) /\ D!Mine(i, u)
    BY ThingsAre DEF D!SongsOf, D!ArtistsOf, D!SetlistsOf, D!GigsOf, D!ToursOf, D!OfKind
  <2>3. i \in D!SharedWith(u)
        <=> D!Live(i) /\ KindOf[i] = "setlist" /\ HomeOf[i] \in Callers /\ u \in p4[i]
    BY DEF D!SharedWith, D!OfKind
  <2>4. i \in D!Listed(u) <=>
          /\ D!Live(i)
          /\ \/ D!Mine(i, u)
             \/ D!InItsBand(i, u) /\ KindOf[i] \in {"setlist", "gig", "tour"}
             \/ KindOf[i] = "setlist" /\ HomeOf[i] \in Callers /\ u \in p4[i]
    BY <2>1, <2>2, <2>3 DEF D!Listed
  <2>5. /\ D!Mine(i, u) => D!HasList(i)
        /\ D!InItsBand(i, u) => HomeOf[i] \notin Callers
    BY ThingsAre DEF D!Mine, D!HasList, D!InItsBand
  <2>. QED  BY <2>4, <2>5, OpensIs DEF D!HasList
<1>2. D!Listed(u) \subseteq Things
  BY DEF D!Listed, D!SongsOf, D!ArtistsOf, D!SetlistsOf, D!GigsOf, D!ToursOf, D!OfKind,
     D!SharedWith, D!BandSetlistPage, D!BandGigPage, D!BandTourPage, D!BandSetlists,
     D!BandGigs, D!BandTours
<1>. QED  BY <1>1, <1>2

\* The trash shows what its reader may restore.
LEMMA TrashAgrees ==
    ASSUME NEW u \in Callers
    PROVE  {i \in Things : D!MayRestore(i, u)} =
             D!TrashOf(u) \cup UNION {D!BandTrash(b, u) : b \in D!BandsOf(u)}
<1>1. ASSUME NEW i \in Things
      PROVE  D!MayRestore(i, u) <=>
               i \in D!TrashOf(u) \cup UNION {D!BandTrash(b, u) : b \in D!BandsOf(u)}
  <2>1. i \in UNION {D!BandTrash(b, u) : b \in D!BandsOf(u)}
        <=> p1[i] = "trash" /\ HomeOf[i] \in Bands /\ KindOf[i] \in D!TrashKinds(HomeOf[i], u)
    BY DEF D!BandTrash, D!BandsOf, D!TrashKinds, D!MayDo
  <2>2. D!Mine(i, u) => HomeOf[i] \notin Bands
    BY ThingsAre DEF D!Mine
  <2>. QED  BY <2>1, <2>2 DEF D!MayRestore, D!TrashOf
<1>2. D!TrashOf(u) \cup UNION {D!BandTrash(b, u) : b \in D!BandsOf(u)} \subseteq Things
  BY DEF D!TrashOf, D!BandTrash
<1>. QED  BY <1>1, <1>2

\* All queries agree.
LEMMA QueriesDo == D!QueriesAgree
<1>. SUFFICES ASSUME NEW u \in Callers
              PROVE  /\ {i \in Things : D!HasList(i) /\ D!Opens(i, u)} = D!Listed(u)
                     /\ \A i \in Things :
                           /\ KindOf[i] \in {"gig", "setlist"} =>
                                 (D!Opens(i, u) <=> D!GigExists(i, u) \/ D!SetlistExists(i, u))
                           /\ D!SongExists(i, u) \/ D!ArtistExists(i, u) => D!Opens(i, u)
                           /\ KindOf[i] # "artist" => (D!Opens(i, u) <=> D!PinShows(i, u))
                           /\ D!IsAccessible(i, u) <=> D!PinShows(i, u)
                     /\ {i \in Things : D!MayRestore(i, u)} =
                           D!TrashOf(u) \cup UNION {D!BandTrash(b, u) : b \in D!BandsOf(u)}
  BY DEF D!QueriesAgree
<1>1. ASSUME NEW i \in Things
      PROVE  /\ KindOf[i] \in {"gig", "setlist"} =>
                   (D!Opens(i, u) <=> D!GigExists(i, u) \/ D!SetlistExists(i, u))
             /\ D!SongExists(i, u) \/ D!ArtistExists(i, u) => D!Opens(i, u)
             /\ KindOf[i] # "artist" => (D!Opens(i, u) <=> D!PinShows(i, u))
             /\ D!IsAccessible(i, u) <=> D!PinShows(i, u)
  BY OpensIs, ThingsAre DEF D!GigExists, D!SetlistExists, D!SongExists, D!ArtistExists,
     D!PinShows, D!IsAccessible, D!OfKind
<1>. QED  BY <1>1, ListsAgree, TrashAgrees

\* Who manages something is where it is.
LEMMA ManagersOpen ==
    ASSUME NEW i \in Things, NEW u \in Callers, D!Manages(i, u) \/ D!ExportsSetlist(i, u)
    PROVE  D!Opens(i, u)
BY OpensIs, ThingsAre DEF D!Manages, D!ManagesSong, D!ManagesArtist, D!ManagesSetlist,
   D!ManagesGig, D!ManagesTour, D!ExportsSetlist, D!OfKind, D!MayDo, D!InItsBand

\* Links are shown to who manages what they are of.
LEMMA TokensAreManagers ==
    ASSUME NEW u \in Callers, NEW i \in D!Tokens(u)
    PROVE  D!Manages(i, u)
<1>1. /\ i \in D!SetlistTokens(u) => D!ManagesSetlist(i, u)
      /\ i \in D!OwnSetlistTokens(u) => D!ManagesSetlist(i, u)
      /\ i \notin D!SharedTokens(u)
      /\ \A b \in Bands : i \in D!BandSetlistTokens(b, u) => D!ManagesSetlist(i, u)
  BY ThingsAre DEF D!SetlistTokens, D!OwnSetlistTokens, D!SharedTokens, D!BandSetlistTokens,
     D!ShowsToken, D!FindSetlist, D!SetlistsOf, D!BandSetlistPage, D!BandSetlists,
     D!ManagesSetlist, D!OfKind, D!Mine
<1>2. /\ i \in D!GigTokens(u) => D!ManagesGig(i, u)
      /\ i \in D!OwnGigTokens(u) => D!ManagesGig(i, u)
      /\ \A b \in Bands : i \in D!BandGigTokens(b, u) => D!ManagesGig(i, u)
  BY ThingsAre DEF D!GigTokens, D!OwnGigTokens, D!BandGigTokens, D!FindGig, D!GigsOf,
     D!BandGigPage, D!BandGigs, D!ManagesGig, D!OfKind, D!Mine, D!InItsBand
<1>. QED  BY <1>1, <1>2 DEF D!Tokens, D!Manages

\* Links and changes are for managers.
LEMMA LinksAreForManagers == D!LinksForManagers
<1>1. ASSUME NEW u \in Callers, NEW i \in D!LibraryFile(u)
      PROVE  D!SongFile(i, u)
  BY ThingsAre DEF D!LibraryFile, D!SongFile, D!FindSong, D!OfKind, D!Mine
<1>. QED  BY <1>1, ManagersOpen, TokensAreManagers DEF D!LinksForManagers

\* A tour shows what is where it is, and its file has all of it.
LEMMA ToursShow ==
    ASSUME AgendaInv, NEW u \in Callers, NEW t \in D!OfKind("tour"), D!FindTour(t, u)
    PROVE  /\ \A i \in D!TourShows(t) : D!Opens(i, u)
           /\ D!TourGigs(t) \subseteq D!TourFile(t, u)
           /\ \A i \in D!TourFile(t, u) : D!Opens(i, u)
           /\ (HomeOf[t] \in Bands => D!MayDo(HomeOf[t], u, "export_pdf"))
                 => D!TourSetlists(t) \subseteq D!TourFile(t, u)
<1>1. t \in Things /\ D!Live(t) /\ (D!Mine(t, u) \/ D!InItsBand(t, u))
  BY DEF D!FindTour, D!OfKind
<1>2. ASSUME NEW g \in D!TourGigs(t)
      PROVE  /\ g \in D!GigRows /\ g \in Things /\ D!Live(g) /\ HomeOf[g] = HomeOf[t]
             /\ D!FindGig(g, u) /\ D!Opens(g, u)
  <2>1. g \in D!GigRows /\ g \in Things /\ D!Live(g) /\ p6[g] = t
    BY AgendaTyped DEF D!TourGigs
  <2>2. HomeOf[g] = HomeOf[t]
    BY <1>1, <2>1 DEF AgendaInv, Belong
  <2>3. D!Mine(g, u) \/ D!InItsBand(g, u)
    BY <1>1, <2>2 DEF D!Mine, D!InItsBand
  <2>. QED  BY <2>1, <2>2, <2>3, HomeOpens DEF D!FindGig, D!GigRows, D!OfKind
<1>3. ASSUME NEW l \in D!TourSetlists(t)
      PROVE  /\ l \in Things /\ D!FindSetlist(l, u) /\ D!Opens(l, u) /\ HomeOf[l] = HomeOf[t]
             /\ \E g \in D!TourGigs(t) : p5[g] = l
  <2>1. PICK g \in D!TourGigs(t) : p5[g] = l /\ l \in Things /\ D!Live(l)
    BY DEF D!TourSetlists
  <2>2. KindOf[l] = "setlist" /\ HomeOf[l] = HomeOf[t]
    BY <1>2, <2>1 DEF AgendaInv, Belong
  <2>3. D!Mine(l, u) \/ D!InItsBand(l, u)
    BY <1>1, <2>2 DEF D!Mine, D!InItsBand
  <2>. QED  BY <2>1, <2>2, <2>3, HomeOpens DEF D!FindSetlist, D!OfKind
<1>4. D!Opens(t, u)
  BY <1>1, HomeOpens
<1>5. ASSUME NEW i \in D!TourFile(t, u)
      PROVE  D!Opens(i, u)
  <2>1. CASE i = t
    BY <2>1, <1>4
  <2>2. CASE \E g \in D!TourGigs(t) : i = g
    BY <2>2, <1>2
  <2>3. CASE i \in Things /\ D!SetlistFile(i, u)
    BY <2>3, ManagersOpen DEF D!SetlistFile
  <2>. QED  BY <2>1, <2>2, <2>3 DEF D!TourFile, D!GigFile
<1>6. D!TourGigs(t) \subseteq D!TourFile(t, u)
  BY <1>2 DEF D!TourFile, D!GigFile
<1>7. ASSUME HomeOf[t] \in Bands => D!MayDo(HomeOf[t], u, "export_pdf"),
             NEW l \in D!TourSetlists(t)
      PROVE  l \in D!TourFile(t, u)
  <2>1. PICK g \in D!TourGigs(t) : p5[g] = l
    BY <1>3
  <2>2. D!SetlistFile(l, u)
    <3>1. KindOf[l] = "setlist" /\ D!Live(l)
      BY <1>3 DEF D!FindSetlist
    <3>2. HomeOf[l] \in Callers => D!Mine(l, u)
      BY <1>1, <1>3, ThingsAre DEF D!Mine, D!InItsBand
    <3>3. HomeOf[l] \notin Callers => D!MayDo(HomeOf[l], u, "export_pdf")
      BY <1>3, <1>7, ThingsAre
    <3>. QED  BY <1>3, <3>1, <3>2, <3>3 DEF D!SetlistFile, D!ExportsSetlist
  <2>. QED  BY <1>2, <1>3, <2>1, <2>2 DEF D!TourFile, D!GigFile
<1>. QED  BY <1>2, <1>3, <1>5, <1>6, <1>7 DEF D!TourShows

\* All that is promised of them holds.
LEMMA AgendaSafe == AgendaInv => D!AgendaSafety
<1>. SUFFICES ASSUME AgendaInv
              PROVE  D!AgendaSafety
  OBVIOUS
<1>1. D!LinksInScope
  BY ThingsAre DEF D!LinksInScope, AgendaInv, Belong
<1>2. D!ToursShowOpen
  BY ToursShow DEF D!ToursShowOpen
<1>3. ASSUME NEW u \in Callers, NEW g \in D!GigRows, D!FindGig(g, u)
      PROVE  \A i \in D!GigFile(g, u) : D!Opens(i, u)
  BY <1>3, ManagersOpen DEF D!GigFile, D!SetlistFile, D!Opens
<1>4. \A u \in Callers, l \in Things : D!SetlistFile(l, u) <=> D!SetlistPdf(l, u)
  BY DEF D!SetlistFile, D!SetlistPdf
<1>5. D!FilesComplete
  BY <1>3, <1>4, ToursShow DEF D!FilesComplete
<1>. QED  BY <1>1, <1>2, <1>5, QueriesDo, LinksAreForManagers DEF D!AgendaSafety

-----------------------------------------------------------------------------
(* All parts together. *)

\* Each part is as its invariant says.
PartsSafe ==
    /\ part = "bands" => BandInv
    /\ part = "suggestions" => SugInv
    /\ part = "setlists" => SharedInv
    /\ part = "trash" => TrashInv
    /\ part = "order" => OrderInv
    /\ part = "links" => LinkInv
    /\ part = "copies" => CopiesInv
    /\ part = "news" => NewsInv
    /\ part = "support" => HelpInv
    /\ part = "backup" => BackInv /\ BackTypes
    /\ part = "library" => LibInv
    /\ part = "agenda" => AgendaInv
    /\ part = "pins" => PinInv
    /\ part = "rights" => RightsInv
    /\ part = "desk" => DeskInv
    /\ part \in {"bands", "suggestions", "setlists", "trash", "order", "links", "copies",
                 "news", "support", "backup", "library", "agenda", "pins", "rights", "desk"}

\* At the start each part is.
LEMMA PartsStart ==
    ASSUME Init
    PROVE  PartsSafe
<1>1. \/ part = "bands" /\ BandInv
      \/ part = "suggestions" /\ SugInv
      \/ part = "setlists" /\ SharedInv
      \/ part = "trash" /\ TrashInv
      \/ part = "order" /\ OrderInv
      \/ part = "links" /\ LinkInv
      \/ part = "copies" /\ CopiesInv
      \/ part = "news" /\ NewsInv
      \/ part = "support" /\ HelpInv
      \/ part = "backup" /\ BackInv /\ BackTypes
      \/ part = "library" /\ LibInv
      \/ part = "agenda" /\ AgendaInv
      \/ part = "pins" /\ PinInv
      \/ part = "rights" /\ RightsInv
      \/ part = "desk" /\ DeskInv
  BY BandStarts, SugStarts, SharedStarts, TrashStarts, OrderStarts, LinkStarts, CopiesStart,
     NewsStarts, HelpStarts, BackStarts, BackTypesStart, LibStarts, AgendaStarts,
     PinsStart, RightsStart, DeskStarts DEF Init
<1>. QED  BY <1>1 DEF PartsSafe

\* One part moves.
LEMMA OnePartMoves ==
    ASSUME Next
    PROVE  /\ part' = part
           /\ part = "bands" => B!BandNext
           /\ part = "suggestions" => G!SugNext
           /\ part = "setlists" => L!SharedNext
           /\ part = "trash" => T!TrashNext
           /\ part = "order" => R!OrderNext
           /\ part = "links" => S!SharingNext
           /\ part = "copies" => C!CopiesNext
           /\ part = "news" => N!NewsNext
           /\ part = "support" => H!SupportNext
           /\ part = "backup" => K!BackupNext
           /\ part = "library" => Y!LibraryNext
           /\ part = "agenda" => D!AgendaNext
           /\ part = "pins" => P!PinsNext
           /\ part = "rights" => Q!RightsNext
           /\ part = "desk" => M!DeskNext
BY DEF Next

\* The part that moves stays as it should be and keeps what it should keep.
LEMMA PartsMove ==
    ASSUME PartsSafe, Next
    PROVE  /\ PartsSafe'
           /\ part = "news" => N!KeepsSilence
           /\ part = "support" => H!KeepsTickets
           /\ part = "suggestions" => G!KeepsOutcome
           /\ part = "trash" => T!SparesLiveSongs
<1>1. /\ part = "bands" => BandInv'
      /\ part = "suggestions" => SugInv' /\ G!KeepsOutcome
      /\ part = "setlists" => SharedInv'
      /\ part = "trash" => TrashInv' /\ T!SparesLiveSongs
      /\ part = "order" => OrderInv'
      /\ part = "links" => LinkInv'
  BY OnePartMoves, BandMoves, SugMoves, SharedMoves, TrashSteps, OrderMoves, LinkMoves
     DEF PartsSafe
<1>2. /\ part = "copies" => CopiesInv'
      /\ part = "news" => NewsInv' /\ N!KeepsSilence
      /\ part = "support" => HelpInv' /\ H!KeepsTickets
      /\ part = "backup" => BackInv' /\ BackTypes'
      /\ part = "library" => LibInv'
      /\ part = "agenda" => AgendaInv'
      /\ part = "pins" => PinInv'
      /\ part = "rights" => RightsInv'
      /\ part = "desk" => DeskInv'
  BY OnePartMoves, CopiesMove, NewsMoves, HelpMoves, BackMoves, BackTypesMove, LibMoves,
     AgendaMoves, PinsMove, RightsMove, DeskMoves DEF PartsSafe
<1>. QED  BY <1>1, <1>2, OnePartMoves DEF PartsSafe

\* So it does when nothing happens.
LEMMA PartsStep ==
    ASSUME PartsSafe, [Next]_allVars
    PROVE  PartsSafe'
<1>1. CASE Next
  BY <1>1, PartsMove
<1>2. CASE UNCHANGED allVars
  <2>1. /\ part' = part /\ p1' = p1 /\ p2' = p2 /\ p3' = p3 /\ p4' = p4 /\ p5' = p5
        /\ p6' = p6 /\ p7' = p7 /\ p8' = p8 /\ p9' = p9 /\ p10' = p10 /\ p11' = p11
    BY <1>2 DEF allVars
  <2>2. NewsInv => NewsInv'
    BY <2>1 DEF NewsInv, N!NewsTypeOK, N!AnnouncementSafety, N!EmailedByAdmins,
       N!ToldOnce, ClerkFits, N!Claimable, N!Due
  <2>3. HelpInv => HelpInv'
    BY <2>1 DEF HelpInv, H!SupportTypeOK, H!UnseenIsUnread, H!Exists, TicketFits,
       HelperFits
  <2>4. SugInv => SugInv'
    BY <2>1 DEF SugInv, G!SugTypeOK, G!AcceptedIsAdded, G!InHand, SugFits
  <2>5. TrashInv => TrashInv'
    <3>1. T!LiveSongs' = T!LiveSongs
      BY <2>1 DEF T!LiveSongs
    <3>2. ASSUME NEW x \in Requests
          PROVE  OpFits(x) => OpFits(x)'
      BY <2>1, <3>1 DEF OpFits, Creates, RestoresSong, RestoresArtist, Deletes, T!SongsOf
    <3>3. T!TrashTypeOK /\ T!TrashSafety => T!TrashTypeOK' /\ T!TrashSafety'
      BY <2>1, <3>1, TrashCounts DEF T!TrashTypeOK, T!TrashSafety, T!SongsWithinLimit,
         T!StaysInTrash
    <3>. QED  BY <2>1, <3>2, <3>3 DEF TrashInv, RowFits
  <2>6. LibInv => LibInv'
    BY <2>1, LibTrashes, WorkspaceBounds DEF LibInv
  <2>7. BackInv /\ BackTypes => BackInv' /\ BackTypes'
    BY <2>1 DEF BackInv, ReadSoFar, ImportFits, K!LinksShown, K!Resolves, K!Merged, K!Fits,
       BackTypes
  <2>8. LinkInv => LinkInv'
    <3>. SUFFICES ASSUME LinkInv
                  PROVE  LinkInv'
      OBVIOUS
    <3>1. \A i \in S!Shareable : p1'[i] = 0 \/ (p1'[i] = p1[i] /\ i \notin p2' \ p2)
      BY <2>1
    <3>. QED  BY <2>1, <3>1, LinkTyped, LinkHides
  <2>9. OrderInv => OrderInv'
    <3>. SUFFICES ASSUME OrderInv
                  PROVE  OrderInv'
      OBVIOUS
    <3>1. \A l \in R!TheLists, i \in R!Items :
             <<l, i>> \in p4' \/ p1'[l][i] = 0 \/ (p1'[l][i] = p1[l][i] /\ <<l, i>> \notin p4)
      BY <2>1
    <3>2. R!InRepertoire'
      <4>1. R!InRepertoire
        BY DEF OrderInv, R!OrderSafety
      <4>. QED  BY <2>1, <4>1 DEF R!InRepertoire, R!OnList
    <3>3. Counted' = Counted
      BY <2>1 DEF Counted, R!ItemsCounted, R!OnList
    <3>. QED  BY <2>1, <3>1, <3>2, <3>3, OrderTyped, ListsChange
  <2>10. AgendaInv => AgendaInv'
    BY <2>1 DEF AgendaInv, D!AgendaTypeOK, D!AccessTypeOK, Belong
  <2>11. PinInv => PinInv'
    BY <2>1 DEF PinInv, P!PinsTypeOK, P!PinsSafety, P!Pinned, PinFits, Locking
  <2>. QED  BY <2>1, <2>2, <2>3, <2>4, <2>5, <2>6, <2>7, <2>8, <2>9, <2>10, <2>11,
                BandIdles, SharedIdles, CopiesIdle, RightsIdle, DeskIdles DEF PartsSafe
<1>. QED  BY <1>1, <1>2

\* Every variable of the part that moves keeps its type.
THEOREM TypesKept == Spec => []TypesOK
<1>1. PartsSafe => TypesOK
  <2>. SUFFICES ASSUME PartsSafe
                PROVE  TypesOK
    OBVIOUS
  <2>1. /\ part = "bands" => B!BandTypeOK
        /\ part = "suggestions" => G!SugTypeOK
        /\ part = "setlists" => L!SharedTypeOK
        /\ part = "trash" => T!TrashTypeOK
        /\ part = "order" => R!OrderTypeOK
        /\ part = "links" => S!SharingTypeOK
    BY BandSafe DEF PartsSafe, SugInv, SharedInv, TrashInv, OrderInv, LinkInv
  <2>2. /\ part = "copies" => C!CopiesTypeOK
        /\ part = "news" => N!NewsTypeOK
        /\ part = "support" => H!SupportTypeOK
        /\ part = "backup" => K!BackupTypeOK
        /\ part = "library" => Y!LibraryTypeOK
        /\ part = "agenda" => D!AgendaTypeOK
        /\ part = "pins" => P!PinsTypeOK
        /\ part = "rights" => Q!RightsTypeOK
        /\ part = "desk" => M!DeskTypeOK
    BY BackTypesSafe, LibTypesSafe, RightsSafe, DeskSafe DEF PartsSafe, CopiesInv, NewsInv, HelpInv, AgendaInv,
       PinInv
  <2>3. CASE part \in {"bands", "suggestions", "setlists", "trash", "order", "links"}
    BY <2>1, <2>3 DEF TypesOK
  <2>4. CASE part \in {"copies", "news", "support", "backup", "library", "agenda", "pins",
                    "rights", "desk"}
    BY <2>2, <2>4 DEF TypesOK
  <2>. QED  BY <2>3, <2>4 DEF PartsSafe
<1>. QED  BY PartsStart, PartsStep, <1>1, PTL DEF Spec

\* However people join, leave, are promoted and removed at once, an invite
\* gives no more than its maker could, a band keeps within its limit of members
\* and has its owner until an account is deleted; an accepted suggestion had its
\* song added; a band has one copy of a song; and what pages and handlers say of
\* ranks, powers and reminders is one rule (redeem, revoke_invites_of, band.rs,
\* transfer_ownership_within, SuggestionRepository::accept, create_band_copy).
THEOREM BandsKept == Spec => []BandSafety
<1>1. PartsSafe => BandSafety
  BY BandSafe, CopiesSafe, DeskSafe DEF PartsSafe, BandSafety, SugInv
<1>. QED  BY PartsStart, PartsStep, <1>1, PTL DEF Spec

\* Whoever leaves, is removed or deletes their account, a setlist keeps what it
\* should; appended items are apart and within the limit; what was taken down
\* has no link and is not shown; whoever opens a tour may open its gigs and
\* their setlists, and lists, files, links and the trash show what their reader
\* may see; pins are apart and within their limit; and no request about a setlist
\* or song tells anybody of one they could not open (SetlistRepository, share.rs,
\* gig.rs, tour.rs, PinRepository, check_permission).
THEOREM SetlistsKept == Spec => []SetlistSafety
<1>1. PartsSafe => SetlistSafety
  BY SharedSafe, LinkSafe, AgendaSafe, RightsSafe DEF PartsSafe, SetlistSafety, OrderInv, PinInv
<1>. QED  BY PartsStart, PartsStep, <1>1, PTL DEF Spec

\* An admin stands behind what is mailed to everybody, nobody is told of an
\* announcement twice, and a reply nobody was shown stays unread
\* (announcement.rs, support.rs).
THEOREM MessagesKept == Spec => []MessageSafety
<1>1. PartsSafe => MessageSafety
  BY DEF PartsSafe, MessageSafety, NewsInv, HelpInv
<1>. QED  BY PartsStart, PartsStep, <1>1, PTL DEF Spec

\* However requests meet, an account has no more songs, artists and setlists
\* than its limits; a song trashed by itself stays in the trash; and what
\* nobody edited while it was backed up comes back (QuotaGuard::enforce,
\* trash_batch, export, import).
THEOREM LibraryKept == Spec => []LibrarySafety
<1>1. PartsSafe => LibrarySafety
  BY LibSafe, BackSafe DEF PartsSafe, LibrarySafety, TrashInv
<1>. QED  BY PartsStart, PartsStep, <1>1, PTL DEF Spec

\* Of all who decide on a suggestion one wins, a deletion spares songs that
\* were live when it began, nobody is told of an archived announcement, and a
\* closed ticket stays closed.
THEOREM WorkspaceIsKept == Spec => WorkspaceSteps
<1>1. ASSUME PartsSafe, [Next]_allVars
      PROVE  [ /\ part = "suggestions" => G!KeepsOutcome
               /\ part = "trash" => T!SparesLiveSongs
               /\ part = "news" => N!KeepsSilence
               /\ part = "support" => H!KeepsTickets ]_allVars
  BY <1>1, PartsMove
<1>. QED  BY PartsStart, PartsStep, <1>1, PTL DEF Spec, WorkspaceSteps
=============================================================================
