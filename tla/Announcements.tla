---------------------------- MODULE Announcements ----------------------------
(***************************************************************************)
(* An announcement from draft to archive: staff edit it from what they     *)
(* read before, an admin publishes it, whoever finds it due first delivers *)
(* it, and the users it is meant for see, dismiss or acknowledge it        *)
(* (controllers/announcement.rs, announcement_repository.rs,               *)
(* jobs/announcements.rs).                                                 *)
(*                                                                         *)
(* Every request loads the announcement, checks it, and writes in a        *)
(* statement of its own.  A delivery is one transaction: it claims the row *)
(* and keeps it locked until notifications and e-mails are queued.         *)
(***************************************************************************)
EXTENDS Integers, FiniteSets

CONSTANTS
    Readers,      \* the users
    Clerks,       \* requests of staff, and runs of the delivery job
    MaxNewsTime,  \* bound: the clock
    MaxEdits      \* bound: edits staff make

VARIABLES
    news,     \* the announcement
    clerk,    \* what each request is doing
    told,     \* how often each user was notified
    receipt,  \* what each user did about it
    newsTime, \* the clock
    edits     \* the edits asked for

newsVars == <<news, clerk, told, receipt, newsTime, edits>>

Ranks == {"moderator", "admin"}
Starts == 0..MaxNewsTime
Ends == 1..(MaxNewsTime + 1)   \* the last: no end within the bound

\* What staff write; the text is who wrote it.
Drafts ==
    {d \in [writer : Ranks, email : BOOLEAN, starts : Starts, ends : Ends] :
       d.starts < d.ends}

Newsletters ==
    [exists : BOOLEAN, published : BOOLEAN, archived : BOOLEAN,
     delivered : BOOLEAN, draft : Drafts]

NoReceipt == [looking |-> FALSE, dismissed |-> FALSE, acknowledged |-> FALSE]
Receipts == [looking : BOOLEAN, dismissed : BOOLEAN, acknowledged : BOOLEAN]

NoClerk == [pc |-> "idle"]
ClerkRecords ==
    {NoClerk}
      \cup [pc : {"write"}, draft : Drafts, rank : Ranks]
      \cup [pc : {"publish", "archive", "delete"}, rank : Ranks]
      \cup [pc : {"claim", "tell"}]

NewsTypeOK ==
    /\ news \in Newsletters
    /\ clerk \in [Clerks -> ClerkRecords]
    /\ told \in [Readers -> 0..Cardinality(Clerks)]
    /\ receipt \in [Readers -> Receipts]
    /\ newsTime \in 0..MaxNewsTime
    /\ edits \in 0..MaxEdits

Status ==
    IF news.archived THEN "archived"
    ELSE IF ~news.published THEN "draft"
    ELSE IF news.draft.starts > newsTime THEN "scheduled"
    ELSE IF news.draft.ends <= newsTime THEN "ended" ELSE "active"

\* What an edit may not touch while the announcement is active.
Terms(d) == [email |-> d.email, starts |-> d.starts]

\* Staff start from a moderator's or an admin's draft.
NewsInit ==
    /\ \E d \in Drafts :
         /\ d.email => d.writer = "admin"
         /\ news = [exists |-> TRUE, published |-> FALSE, archived |-> FALSE,
                    delivered |-> FALSE, draft |-> d]
    /\ edits = 0
    /\ clerk = [r \in Clerks |-> NoClerk]
    /\ told = [u \in Readers |-> 0]
    /\ receipt = [u \in Readers |-> NoReceipt]
    /\ newsTime = 0

-----------------------------------------------------------------------------
\* Requests load the announcement and check it.

Idle(r) == clerk[r].pc = "idle" /\ news.exists
Goes(r, c) ==
    clerk' = [clerk EXCEPT ![r] = c] /\ UNCHANGED <<news, told, receipt, newsTime>>
Moves(r, c) == Goes(r, c) /\ UNCHANGED edits

\* A delivery under way holds the row: other writes wait for it.
RowUnlocked == \A q \in Clerks : clerk[q].pc # "tell"

MayTouch(rank) == news.published => rank = "admin"

MayMailIfAsked(rank, d) == d.email /\ ~news.draft.email => rank = "admin"

\* The draft that is written is checked, not only what the edit changes.
MayMail(rank, d) == d.email => rank = "admin"

AskEdit(r) ==
    \E rank \in Ranks, d \in Drafts :
       /\ Idle(r) /\ edits < MaxEdits
       /\ d.writer = rank /\ MayTouch(rank) /\ MayMail(rank, d)
       /\ \/ Status \in {"draft", "scheduled"}
          \/ Status = "active" /\ Terms(d) = Terms(news.draft)
       /\ Goes(r, [pc |-> "write", draft |-> d, rank |-> rank])
       /\ edits' = edits + 1

AskPublish(r) ==
    /\ Idle(r) /\ ~news.archived
    /\ Moves(r, [pc |-> "publish", rank |-> "admin"])

\* A deletion archives what is published already.
AskDelete(r) ==
    \E rank \in Ranks :
       /\ Idle(r) /\ MayTouch(rank)
       /\ \E pc \in {"archive"} \cup (IF news.published THEN {} ELSE {"delete"}) :
             Moves(r, [pc |-> pc, rank |-> rank])

-----------------------------------------------------------------------------
\* And write, whatever happened to the announcement in between.

Writes(r, pc) == clerk[r].pc = pc /\ RowUnlocked
Done(r, n) ==
    /\ news' = IF news.exists THEN n ELSE news
    /\ clerk' = [clerk EXCEPT ![r] = NoClerk]

Edit(r) ==
    /\ Writes(r, "write")
    /\ Done(r, [news EXCEPT !.draft = clerk[r].draft])
    /\ UNCHANGED <<told, receipt, newsTime, edits>>

\* Once published, it is delivered at once if it has started.
Publish(r) ==
    /\ Writes(r, "publish")
    /\ news' = IF news.exists THEN [news EXCEPT !.published = TRUE] ELSE news
    /\ clerk' = [clerk EXCEPT ![r] =
                   IF news.exists /\ news.draft.starts <= newsTime
                   THEN [pc |-> "claim"] ELSE NoClerk]
    /\ UNCHANGED <<told, receipt, newsTime, edits>>

Archive(r) ==
    /\ Writes(r, "archive")
    /\ Done(r, [news EXCEPT !.archived = TRUE])
    /\ UNCHANGED <<told, receipt, newsTime, edits>>

\* The receipts go with the row.
Delete(r) ==
    /\ Writes(r, "delete")
    /\ Done(r, [news EXCEPT !.exists = FALSE])
    /\ receipt' = [u \in Readers |-> NoReceipt]
    /\ UNCHANGED <<told, newsTime, edits>>

-----------------------------------------------------------------------------
\* Delivery.

Due(n) ==
    /\ n.exists /\ n.published /\ ~n.archived /\ ~n.delivered
    /\ n.draft.starts <= newsTime

\* The job lists what is due and delivers it one by one.
FindDue(r) == Idle(r) /\ Due(news) /\ Moves(r, [pc |-> "claim"])

ClaimableAgain(n) == n.exists /\ n.published /\ ~n.archived
ClaimableArchived(n) == n.exists /\ n.published /\ ~n.delivered

\* The row is looked at again when it is claimed.
Claimable(n) == Due(n)

ClaimDelivery(r) ==
    /\ clerk[r].pc = "claim" /\ RowUnlocked
    /\ Moves(r, IF Claimable(news) THEN [pc |-> "tell"] ELSE NoClerk)

\* Everybody it is meant for is told, unless it has ended.
Tell(r) ==
    /\ clerk[r].pc = "tell"
    /\ news' = [news EXCEPT !.delivered = TRUE]
    /\ told' = IF news.draft.ends <= newsTime THEN told
               ELSE [u \in Readers |-> told[u] + 1]
    /\ clerk' = [clerk EXCEPT ![r] = NoClerk]
    /\ UNCHANGED <<receipt, newsTime, edits>>

\* The transaction fails: nothing is delivered, and the job tries again.
FailDelivery(r) == clerk[r].pc = "tell" /\ Moves(r, NoClerk)

-----------------------------------------------------------------------------
\* Users.

Visible ==
    /\ news.exists /\ news.published /\ ~news.archived
    /\ news.draft.starts <= newsTime

\* A user looks at the announcement, and then dismisses or acknowledges it.
LookAt(u) ==
    /\ Visible /\ ~receipt[u].looking
    /\ receipt' = [receipt EXCEPT ![u].looking = TRUE]
    /\ UNCHANGED <<news, clerk, told, newsTime, edits>>

MarkedAnew(old, new) == new

Marked(old, new) == old \/ new

\* There is no receipt of an announcement that is gone.
MarkReceipt(u) ==
    /\ receipt[u].looking
    /\ \E dismissed, acknowledged \in BOOLEAN :
         /\ dismissed # acknowledged
         /\ receipt' = [receipt EXCEPT ![u] = IF news.exists
              THEN [looking |-> FALSE, dismissed |-> Marked(@.dismissed, dismissed),
                    acknowledged |-> Marked(@.acknowledged, acknowledged)]
              ELSE NoReceipt]
    /\ UNCHANGED <<news, clerk, told, newsTime, edits>>

NewsTick ==
    /\ newsTime < MaxNewsTime
    /\ newsTime' = newsTime + 1
    /\ UNCHANGED <<news, clerk, told, receipt, edits>>

NewsNext ==
    \/ \E r \in Clerks :
         \/ AskEdit(r) \/ AskPublish(r) \/ AskDelete(r)
         \/ Edit(r) \/ Publish(r) \/ Archive(r) \/ Delete(r)
         \/ FindDue(r) \/ ClaimDelivery(r) \/ Tell(r) \/ FailDelivery(r)
    \/ \E u \in Readers : LookAt(u) \/ MarkReceipt(u)
    \/ NewsTick

-----------------------------------------------------------------------------
\* What goes out by e-mail was last written by an admin, although a moderator
\* may save an edit made when it was not to be mailed (require_admin_to_email).
EmailedByAdmins == news.exists /\ news.draft.email => news.draft.writer = "admin"

\* Nobody is told twice, by the job and by who publishes, or after a delivery
\* that failed (fan_out).
ToldOnce == \A u \in Readers : told[u] <= 1

AnnouncementSafety == EmailedByAdmins /\ ToldOnce

\* Nobody is told of what has been archived since the job found it due, and
\* what a user acknowledged stays so as long as the announcement does
\* (fan_out, mark_receipt).
KeepsSilence ==
    /\ news.archived => told' = told
    /\ \A u \in Readers :
         receipt[u].acknowledged /\ news'.exists => receipt'[u].acknowledged

\* Refuted: an edit checked before the announcement was published or started
\* is saved after it, and a deletion of a draft deletes what was published.
OnlyAdminsTouchPublished ==
    [][news.published /\ news' # news =>
         \A r \in Clerks : clerk[r].pc \in {"write", "archive", "delete"}
             /\ clerk'[r].pc = "idle" => clerk[r].rank = "admin"]_newsVars
LiveKeepsTerms ==
    [][Status = "active" /\ news.exists /\ news'.exists =>
         Terms(news'.draft) = Terms(news.draft)]_newsVars
==============================================================================
