--------------------------- MODULE SupportTickets ---------------------------
(***************************************************************************)
(* Support requests: a user opens, reads, replies to, closes and rates     *)
(* them; staff reply, note, assign and move them; a daily job closes those *)
(* resolved long ago (controllers/support.rs, support_repository.rs).      *)
(*                                                                         *)
(* Handlers load the ticket first.  A message is added in a transaction    *)
(* that locks the ticket and looks at its status again.                    *)
(***************************************************************************)
EXTENDS Integers, FiniteSets

CONSTANTS
    Tickets,        \* the user's support requests
    Helpers,        \* requests of the user and of staff
    Staff,          \* the staff
    Nobody,         \* no assignee
    MaxActive,      \* MAX_ACTIVE_TICKETS
    CloseAfter,     \* RESOLVED_TICKET_CLOSE_DAYS
    MaxSupportTime, \* bound: the clock
    MaxMessages     \* bound: public messages

VARIABLES
    ticket,      \* the row of each ticket
    helper,      \* what each request is doing
    unseen,      \* tickets with a reply of staff the user was never shown
    excused,     \* of these, those the user replied to, or failed to load
    turned,      \* when each was last resolved or publicly written to
    supportTime  \* the clock

supportVars == <<ticket, helper, unseen, excused, turned, supportTime>>

Active == {"open", "pending"}
Statuses == Active \cup {"resolved", "closed"}
Never == 0 - 1
SupportTimes == {Never} \cup 0..MaxSupportTime

TicketRows ==
    [status : Statuses \cup {"none"}, unread : BOOLEAN,
     assignee : Staff \cup {Nobody}, resolved : SupportTimes,
     last : SupportTimes, messages : 0..MaxMessages]
NoTicket ==
    [status |-> "none", unread |-> FALSE, assignee |-> Nobody, resolved |-> Never,
     last |-> Never, messages |-> 0]

\* A message: who writes it, whether staff alone see it, and the status
\* after it.  `free` says that nobody had the ticket when it was loaded.
Messages ==
    [from : Staff \cup {Nobody}, internal : BOOLEAN,
     status : Statuses \cup {"kept"}, free : BOOLEAN]

HelperRecords ==
    [pc : {"idle", "create"}]
      \cup [pc : {"lock", "add"}, on : Tickets, msg : Messages]
      \cup [pc : {"assign"}, on : Tickets, to : Staff]
      \cup [pc : {"mark", "show"}, on : Tickets]

SupportTypeOK ==
    /\ ticket \in [Tickets -> TicketRows]
    /\ helper \in [Helpers -> HelperRecords]
    /\ unseen \subseteq Tickets /\ excused \subseteq Tickets
    /\ turned \in [Tickets -> SupportTimes]
    /\ supportTime \in 0..MaxSupportTime

NoHelp == [pc |-> "idle"]

SupportInit ==
    /\ ticket = [t \in Tickets |-> NoTicket]
    /\ helper = [r \in Helpers |-> NoHelp]
    /\ unseen = {} /\ excused = {}
    /\ turned = [t \in Tickets |-> Never]
    /\ supportTime = 0

-----------------------------------------------------------------------------
Free(r) == helper[r].pc = "idle"
Goes(r, h) ==
    helper' = [helper EXCEPT ![r] = h]
      /\ UNCHANGED <<ticket, unseen, excused, turned, supportTime>>

Exists(t) == ticket[t].status # "none"
Unlocked(t) == \A r \in Helpers : helper[r].pc = "add" => helper[r].on # t

\* The time of being resolved starts again whenever the ticket is.
ResolvedKept(row, status) ==
    IF status = "resolved" /\ row.resolved = Never THEN supportTime
    ELSE row.resolved
Resolved(row, status) ==
    IF status = "resolved"
    THEN IF row.status = "resolved" /\ row.resolved # Never THEN row.resolved
         ELSE supportTime
    ELSE IF status \in Active THEN Never ELSE row.resolved

\* status_assignments.
Moved(row, status) ==
    IF status = "kept" THEN row
    ELSE [row EXCEPT !.resolved = Resolved(row, status), !.status = status]

Turns(t, status) ==
    IF status = "resolved" /\ ticket[t].status # "resolved"
    THEN [turned EXCEPT ![t] = supportTime] ELSE turned

-----------------------------------------------------------------------------
\* A user opens a request when fewer than the limit are active.
AskTicket(r) ==
    /\ Free(r)
    /\ Cardinality({t \in Tickets : ticket[t].status \in Active}) < MaxActive
    /\ Goes(r, [pc |-> "create"])

CreateTicket(r, t) ==
    /\ helper[r].pc = "create" /\ ~Exists(t)
    /\ ticket' = [ticket EXCEPT ![t] = [NoTicket EXCEPT
                    !.status = "open", !.last = supportTime, !.messages = 1]]
    /\ turned' = [turned EXCEPT ![t] = supportTime]
    /\ helper' = [helper EXCEPT ![r] = NoHelp]
    /\ UNCHANGED <<unseen, excused, supportTime>>

\* A user's reply opens the ticket again; a public one of staff waits for the
\* user, or gives a status.
AskMessage(r, t) ==
    /\ Free(r) /\ Exists(t) /\ ticket[t].messages < MaxMessages
    /\ \E m \in Messages :
          /\ m.from = Nobody => ~m.internal /\ m.status = "open"
          /\ m.from # Nobody /\ ~m.internal => m.status # "kept"
          /\ m.free = (ticket[t].assignee = Nobody)
          /\ ~m.internal => ticket[t].status # "closed"
          /\ Goes(r, [pc |-> "lock", on |-> t, msg |-> m])

TakesAny(t, m) == TRUE

\* The status is looked at again under the lock.
Takes(t, m) == m.internal \/ ticket[t].status # "closed"

LockTicket(r) ==
    LET h == helper[r] IN
    /\ h.pc = "lock" /\ Unlocked(h.on)
    /\ Goes(r, IF Takes(h.on, h.msg) THEN [h EXCEPT !.pc = "add"] ELSE NoHelp)

\* The message is added, and its writer given the ticket if it was free.
AddMessage(r) ==
    LET h == helper[r]
        m == h.msg
        public == ~m.internal /\ ticket[h.on].messages < MaxMessages
        byStaff == m.from # Nobody
        row == IF public
               THEN [ticket[h.on] EXCEPT !.messages = @ + 1, !.last = supportTime,
                                         !.unread = byStaff]
               ELSE ticket[h.on]
    IN
    /\ h.pc = "add"
    /\ m.internal \/ public
    /\ ticket' = [ticket EXCEPT ![h.on] = Moved(row, m.status)]
    /\ turned' = IF public THEN [turned EXCEPT ![h.on] = supportTime]
                 ELSE Turns(h.on, m.status)
    /\ unseen' = IF public /\ byStaff THEN unseen \cup {h.on} ELSE unseen
    /\ excused' = CASE public /\ byStaff -> excused \ {h.on}
                    [] public /\ ~byStaff /\ h.on \in unseen -> excused \cup {h.on}
                    [] OTHER -> excused
    /\ helper' = [helper EXCEPT ![r] =
                    IF public /\ byStaff /\ m.free
                    THEN [pc |-> "assign", on |-> h.on, to |-> m.from] ELSE NoHelp]
    /\ UNCHANGED supportTime

AssignSelf(r) ==
    LET h == helper[r] IN
    /\ h.pc = "assign" /\ Unlocked(h.on)
    /\ ticket' = [ticket EXCEPT ![h.on].assignee = h.to]
    /\ helper' = [helper EXCEPT ![r] = NoHelp]
    /\ UNCHANGED <<unseen, excused, turned, supportTime>>

\* The transaction fails.
FailMessage(r) == helper[r].pc = "add" /\ Goes(r, NoHelp)

-----------------------------------------------------------------------------
\* Statements of their own: the user closes, staff move and assign.
SetStatus(t, status) ==
    /\ Exists(t) /\ Unlocked(t)
    /\ turned' = Turns(t, status)
    /\ UNCHANGED <<helper, unseen, excused, supportTime>>

CloseTicket(t) ==
    /\ SetStatus(t, "closed")
    /\ ticket' = [ticket EXCEPT ![t] = Moved(@, "closed")]

UpdateTicket(t) ==
    \E status \in Statuses \cup {"kept"}, to \in Staff \cup {Nobody} :
       /\ SetStatus(t, status)
       /\ ticket' = [ticket EXCEPT ![t] = [Moved(@, status) EXCEPT !.assignee = to]]

Latest(row) == IF row.resolved > row.last THEN row.resolved ELSE row.last

\* The daily job closes what was resolved and left alone for long enough.
CloseStale(t) ==
    /\ ticket[t].status = "resolved" /\ Unlocked(t)
    /\ Latest(ticket[t]) < supportTime - CloseAfter
    /\ ticket' = [ticket EXCEPT ![t].status = "closed"]
    /\ UNCHANGED <<helper, unseen, excused, turned, supportTime>>

-----------------------------------------------------------------------------
\* The user loads a ticket: it is marked as read, then its messages are read.
LoadingSwapped == <<"show", "mark">>
Loading == <<"mark", "show">>

LoadTicket(r, t) ==
    /\ Free(r) /\ Exists(t)
    /\ Goes(r, [pc |-> IF ticket[t].unread THEN Loading[1] ELSE "show", on |-> t])

Step(r) ==
    helper' = [helper EXCEPT ![r] =
                 IF helper[r].pc = Loading[1]
                 THEN [pc |-> Loading[2], on |-> helper[r].on] ELSE NoHelp]

MarkRead(r) ==
    /\ helper[r].pc = "mark" /\ Unlocked(helper[r].on)
    /\ ticket' = [ticket EXCEPT ![helper[r].on].unread = FALSE]
    /\ Step(r)
    /\ UNCHANGED <<unseen, excused, turned, supportTime>>

ShowMessages(r) ==
    /\ helper[r].pc = "show"
    /\ unseen' = unseen \ {helper[r].on}
    /\ excused' = excused \ {helper[r].on}
    /\ Step(r)
    /\ UNCHANGED <<ticket, turned, supportTime>>

\* The answer is lost after the ticket was marked.
LosePage(r) ==
    /\ helper[r].pc = "show"
    /\ excused' = excused \cup (unseen \cap {helper[r].on})
    /\ helper' = [helper EXCEPT ![r] = NoHelp]
    /\ UNCHANGED <<ticket, unseen, turned, supportTime>>

SupportTick ==
    /\ supportTime < MaxSupportTime
    /\ supportTime' = supportTime + 1
    /\ UNCHANGED <<ticket, helper, unseen, excused, turned>>

SupportNext ==
    \/ \E r \in Helpers :
         \/ AskTicket(r) \/ LockTicket(r) \/ AddMessage(r) \/ AssignSelf(r)
         \/ FailMessage(r) \/ MarkRead(r) \/ ShowMessages(r) \/ LosePage(r)
         \/ \E t \in Tickets : CreateTicket(r, t) \/ AskMessage(r, t)
                               \/ LoadTicket(r, t)
    \/ \E t \in Tickets :
         CloseTicket(t) \/ UpdateTicket(t) \/ CloseStale(t)
    \/ SupportTick

-----------------------------------------------------------------------------
\* A reply of staff the user has not been shown keeps the ticket unread, while
\* the user reads and staff reply at once; but for a user who replied to it
\* unseen and an answer that was lost (get_my_ticket, add_message).
UnseenIsUnread ==
    \A t \in unseen \ excused :
       \/ ticket[t].unread
       \/ \E r \in Helpers : helper[r].pc = "show" /\ helper[r].on = t

\* Nothing public is added to a closed ticket, although it was open when the
\* reply was asked for; and the job closes only tickets that were resolved,
\* and publicly silent, for long enough, however often they were reopened
\* (add_message, status_assignments, close_stale_resolved).
KeepsTickets ==
    \A t \in Tickets :
       /\ ticket[t].status = "closed" => ticket'[t].messages = ticket[t].messages
       /\ CloseStale(t) => turned[t] < supportTime - CloseAfter

\* Refuted: tickets are counted before they are opened, or reopened by a
\* reply; a reply of the user clears what the user was not shown; and staff
\* who answer take a ticket somebody was given meanwhile.
ActiveWithinLimit ==
    Cardinality({t \in Tickets : ticket[t].status \in Active}) <= MaxActive
UnreadUntilOpened ==
    \A t \in unseen :
       \/ ticket[t].unread
       \/ \E r \in Helpers : helper[r].pc = "show" /\ helper[r].on = t
AnsweringTakesFree ==
    [][\A r \in Helpers : helper[r].pc = "assign" /\ helper'[r].pc = "idle" =>
         ticket[helper[r].on].assignee \in {Nobody, helper[r].to}]_supportVars
=============================================================================
