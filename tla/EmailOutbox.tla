----------------------------- MODULE EmailOutbox -----------------------------
(***************************************************************************)
(* The e-mail outbox: messages are rows of `email_outbox`, and the workers *)
(* of several API instances claim them in batches, send them over SMTP and *)
(* record what became of each.  Three statements start a batch (the sweep  *)
(* of stale locks, the count for the hourly cap, the claim); after them    *)
(* each claimed message is sent and recorded on its own.  Staff cancel and *)
(* retry messages, recipients opt out of bulk mail, a job deletes old rows *)
(* and the deletion of the account takes its rows along, except a goodbye  *)
(* message that belongs to no account.                                     *)
(*                                                                         *)
(* Time is kept as ages instead of a clock: how long until a message is    *)
(* due, how long its lock has been held, how long ago it was sent.         *)
(***************************************************************************)
EXTENDS Integers, FiniteSetsExt

CONSTANTS
    Codes,        \* messages with a one-time code, for the account's owner
    Bulk,         \* messages that can be unsubscribed from; priority above 0
    Goodbye,      \* the goodbye of the deleted account
    Unknown,      \* messages of a template the running release lacks
    Workers,
    Batch,        \* BATCH_SIZE
    Cap,          \* email_hourly_cap
    MaxAttempts,  \* MAX_ATTEMPTS
    MaxBackoff,   \* MAX_BACKOFF_SECS
    Stale,        \* STALE_LOCK_MINUTES
    Hour,
    BatchLimit,   \* assumption: a batch is over, or its worker dead, by then
    MaxFailures,  \* bound: crashes, lost outcomes and ambiguous sends
    MaxRequeues   \* bound: retries asked for by staff

Emails == Codes \cup Bulk \cup {Goodbye}

ASSUME Kinds == Goodbye \notin Codes \cup Bulk /\ Codes \cap Bulk = {}
ASSUME Limits ==
    /\ Batch \in Nat \ {0} /\ Cap \in Nat \ {0} /\ MaxAttempts \in Nat \ {0}
    /\ MaxBackoff \in Nat \ {0} /\ Hour \in Nat \ {0}
    /\ MaxFailures \in Nat /\ MaxRequeues \in Nat
ASSUME Finite == IsFiniteSet(Emails) /\ IsFiniteSet(Workers)
\* Seven rounds of four sends of a minute each are shorter than the lock.
ASSUME Punctual == Stale \in Nat /\ BatchLimit \in Nat /\ BatchLimit < Stale

VARIABLES
    box,       \* the rows of `email_outbox`
    worker,    \* the batch each worker is in
    wanted,    \* the recipient takes bulk mail
    account,   \* the recipient's account: "active", "leaving", "deleted", "kept"
    received,  \* how often each message reached its mailbox
    excused,   \* how often each may have been received more than was recorded
    failures,
    requeues   \* how often staff retried each

vars == <<box, worker, wanted, account, received, excused, failures, requeues>>

-----------------------------------------------------------------------------
(* Rows and batches. *)

\* A message is not written yet ("none"), a row, or deleted ("gone").
Status == {"none", "pending", "sending", "sent", "failed", "skipped", "gone"}
Settled == {"sent", "failed", "skipped"}

\* `payload` says whether the template variables are still there.
Rows == [status : Status, attempts : Nat, wait : 0..MaxBackoff,
         held : 0..Stale, age : 0..Hour, payload : BOOLEAN]
NoRow == [status |-> "none", attempts |-> 0, wait |-> 0, held |-> 0,
          age |-> 0, payload |-> FALSE]
Gone == [NoRow EXCEPT !.status = "gone"]
NewRow == [NoRow EXCEPT !.status = "pending", !.payload = TRUE]

HasRow(m) == box[m].status \notin {"none", "gone"}

Sensitive(m) == m \in Codes
Priority(m) == IF m \in Bulk THEN 1 ELSE 0

\* A claimed message: what the worker read of it, and how far it came.
Flights == [at : {"no", "claimed", "accepted", "refused", "rejected"},
            attempts : Nat, payload : BOOLEAN]
NoFlight == [at |-> "no", attempts |-> 0, payload |-> FALSE]

Batches == [pc : {"idle", "count", "claim", "deliver"}, age : Nat,
            capped : BOOLEAN, flight : [Emails -> Flights]]
NoBatch == [pc |-> "idle", age |-> 0, capped |-> FALSE,
            flight |-> [m \in Emails |-> NoFlight]]

InFlight(w, m) == worker[w].flight[m].at # "no"

\* Mutant of Backoff: the delay doubles for ever.
BackoffUncapped(attempts) == 2 ^ (attempts - 1)

\* In ticks where the code starts with half a minute: 1, 2, 4, ... up to the
\* limit.
Backoff(attempts) ==
    LET delay == 2 ^ (attempts - 1) IN
    IF delay < MaxBackoff THEN delay ELSE MaxBackoff

-----------------------------------------------------------------------------
(* Messages come in, and time passes. *)

Enqueue(m) ==
    /\ m # Goodbye /\ account # "deleted" /\ box[m].status = "none"
    /\ box' = [box EXCEPT ![m] = NewRow]
    /\ UNCHANGED <<worker, wanted, account, received, excused, failures,
                   requeues>>

\* A batch is over, or its worker dead, within its limit.
Busy(w) == worker[w].pc # "idle"
Older(n, limit) == IF n < limit THEN n + 1 ELSE n
Tick ==
    /\ \A w \in Workers : Busy(w) => worker[w].age < BatchLimit
    /\ box' = [m \in Emails |->
                 [box[m] EXCEPT !.wait = IF @ > 0 THEN @ - 1 ELSE 0,
                    !.held = IF box[m].status = "sending"
                             THEN Older(@, Stale) ELSE 0,
                    !.age = IF box[m].status \in Settled
                            THEN Older(@, Hour) ELSE 0]]
    /\ worker' = [w \in Workers |->
                    [worker[w] EXCEPT !.age = IF Busy(w) THEN @ + 1 ELSE 0]]
    /\ UNCHANGED <<wanted, account, received, excused, failures, requeues>>

-----------------------------------------------------------------------------
(* process_batch. *)

\* Mutant of Unlocked: every lock is taken for a dead worker's.
UnlockedAtOnce(row) ==
    IF row.status = "sending"
    THEN [row EXCEPT !.status = "pending", !.held = 0] ELSE row

\* Mutant of Unlocked: nothing is ever taken over from a dead worker.
NeverUnlocked(row) == row

Unlocked(row) ==
    IF row.status = "sending" /\ row.held >= Stale
    THEN [row EXCEPT !.status = "pending", !.held = 0] ELSE row

\* The sweep of the messages a dead worker left in `sending`.
Sweep(w) ==
    /\ worker[w].pc = "idle"
    /\ box' = [m \in Emails |-> Unlocked(box[m])]
    /\ worker' = [worker EXCEPT ![w].pc = "count"]
    /\ UNCHANGED <<wanted, account, received, excused, failures, requeues>>

SentLastHour == {m \in Bulk : box[m].status = "sent" /\ box[m].age < Hour}

\* Mutant of CapReached: what was sent is not counted.
CapIgnored == FALSE

CapReached == Cardinality(SentLastHour) >= Cap

Count(w) ==
    /\ worker[w].pc = "count"
    /\ worker' = [worker EXCEPT ![w].pc = "claim", ![w].capped = CapReached]
    /\ UNCHANGED <<box, wanted, account, received, excused, failures, requeues>>

Due(w) == {m \in Emails :
              /\ box[m].status = "pending" /\ box[m].wait = 0
              /\ worker[w].capped => Priority(m) = 0}

\* FOR UPDATE SKIP LOCKED, the most urgent first; every message claimed
\* counts as an attempt, even one that is never sent.  The lock dates from
\* the start of the batch.  (So does the time messages are due at: one that
\* fell due since is claimed here, and by the next batch in the code.)
Claim(w) ==
    /\ worker[w].pc = "claim"
    /\ \E S \in SUBSET Due(w) :
          /\ Cardinality(S) = IF Cardinality(Due(w)) < Batch
                              THEN Cardinality(Due(w)) ELSE Batch
          /\ \A m \in S, n \in Due(w) \ S : Priority(m) <= Priority(n)
          /\ box' = [m \in Emails |->
                       IF m \in S THEN [box[m] EXCEPT !.status = "sending",
                                          !.attempts = @ + 1,
                                          !.held = worker[w].age]
                                  ELSE box[m]]
          /\ worker' = [worker EXCEPT ![w] =
                [@ EXCEPT !.pc = "deliver",
                   !.flight = [m \in Emails |->
                      IF m \in S THEN [at |-> "claimed",
                                       attempts |-> box[m].attempts + 1,
                                       payload |-> box[m].payload]
                                 ELSE NoFlight]]]
    /\ UNCHANGED <<wanted, account, received, excused, failures, requeues>>

-----------------------------------------------------------------------------
(* deliver and finish, of one message of the batch. *)

Landed(w, m) ==
    worker' = [worker EXCEPT ![w].flight[m] = NoFlight]

\* Mutant of Recorded: the variables of a code are kept.
RecordedKeeping(row, status, clear) ==
    [row EXCEPT !.status = status, !.held = 0, !.age = 0]

Recorded(row, status, clear) ==
    [row EXCEPT !.status = status, !.held = 0, !.age = 0,
                !.payload = @ /\ ~clear]

\* finish: UPDATE ... WHERE id, whatever became of the row meanwhile.
Finish(w, m, status, clear) ==
    /\ box' = IF HasRow(m)
              THEN [box EXCEPT ![m] = Recorded(@, status, clear)] ELSE box
    /\ Landed(w, m)
    /\ UNCHANGED <<wanted, account, received, excused, failures, requeues>>

\* The template is unknown to this instance's release, or lost its
\* variables: whatever was there is cleared.
Malformed(w, m) ==
    /\ worker[w].flight[m].at = "claimed"
    /\ m \in Unknown \/ ~worker[w].flight[m].payload
    /\ Finish(w, m, "failed", TRUE)

\* still_wanted; once the account is gone, the default of the message's
\* category decides, which is on for some and off for others.
Unwanted(m) == m \in Bulk /\ (~wanted \/ account = "deleted")
StillWanted(m) == m \in Bulk => wanted \/ account = "deleted"

Readable(w, m) ==
    /\ worker[w].flight[m].at = "claimed" /\ worker[w].flight[m].payload
    /\ m \notin Unknown

Skip(w, m) ==
    /\ Readable(w, m) /\ Unwanted(m)
    /\ Finish(w, m, "skipped", Sensitive(m))

\* The server accepts the message, refuses it for now or for good, or the
\* answer is lost although it was accepted (SEND_TIMEOUT).
Send(w, m) ==
    /\ Readable(w, m) /\ StillWanted(m)
    /\ \/ /\ worker' = [worker EXCEPT ![w].flight[m].at = "accepted"]
          /\ received' = [received EXCEPT ![m] = @ + 1]
          /\ UNCHANGED <<excused, failures>>
       \/ /\ \E at \in {"refused", "rejected"} :
                worker' = [worker EXCEPT ![w].flight[m].at = at]
          /\ UNCHANGED <<received, excused, failures>>
       \/ /\ failures < MaxFailures /\ failures' = failures + 1
          /\ worker' = [worker EXCEPT ![w].flight[m].at = "refused"]
          /\ received' = [received EXCEPT ![m] = @ + 1]
          /\ excused' = [excused EXCEPT ![m] = @ + 1]
    /\ UNCHANGED <<box, wanted, account, requeues>>

Sent(w, m) ==
    /\ worker[w].flight[m].at = "accepted"
    /\ Finish(w, m, "sent", Sensitive(m))

Hopeless(f) ==
    f.at = "rejected" \/ (f.at = "refused" /\ f.attempts >= MaxAttempts)

GiveUp(w, m) ==
    /\ Hopeless(worker[w].flight[m])
    /\ Finish(w, m, "failed", Sensitive(m))

Retry(w, m) ==
    LET f == worker[w].flight[m] IN
    /\ f.at = "refused" /\ ~Hopeless(f)
    /\ box' = IF HasRow(m)
              THEN [box EXCEPT ![m] = [@ EXCEPT !.status = "pending",
                                 !.held = 0, !.wait = Backoff(f.attempts)]]
              ELSE box
    /\ Landed(w, m)
    /\ UNCHANGED <<wanted, account, received, excused, failures, requeues>>

\* The database does not take the outcome, three times over: the row stays
\* in `sending` until the sweep finds it.
LoseOutcome(w, m) ==
    /\ InFlight(w, m) /\ failures < MaxFailures
    /\ failures' = failures + 1
    /\ excused' = [excused EXCEPT ![m] =
                     IF worker[w].flight[m].at = "accepted" THEN @ + 1 ELSE @]
    /\ Landed(w, m)
    /\ UNCHANGED <<box, wanted, account, received, requeues>>

EndBatch(w) ==
    /\ worker[w].pc = "deliver" /\ \A m \in Emails : ~InFlight(w, m)
    /\ worker' = [worker EXCEPT ![w] = NoBatch]
    /\ UNCHANGED <<box, wanted, account, received, excused, failures, requeues>>

\* The instance dies, or the run is abandoned after MAX_RUN.
Crash(w) ==
    /\ Busy(w) /\ failures < MaxFailures
    /\ failures' = failures + 1
    /\ excused' = [m \in Emails |->
                     IF worker[w].flight[m].at = "accepted"
                     THEN excused[m] + 1 ELSE excused[m]]
    /\ worker' = [worker EXCEPT ![w] = NoBatch]
    /\ UNCHANGED <<box, wanted, account, received, requeues>>

-----------------------------------------------------------------------------
(* Staff, the recipient, and the clean-up job. *)

\* Mutant of Wiped: a canceled code keeps its variables.
NotWiped(m, row) == row

Wiped(m, row) == [row EXCEPT !.payload = @ /\ ~Sensitive(m)]

StaffCancel(m) ==
    /\ box[m].status = "pending"
    /\ box' = [box EXCEPT ![m] =
                 [Wiped(m, @) EXCEPT !.status = "skipped", !.age = 0]]
    /\ UNCHANGED <<worker, wanted, account, received, excused, failures,
                   requeues>>

Requeued == MapThenSumSet(LAMBDA n : requeues[n], Emails)

StaffRetry(m) ==
    /\ Requeued < MaxRequeues
    /\ requeues' = [requeues EXCEPT ![m] = @ + 1]
    /\ box[m].status \in {"failed", "skipped"} /\ box[m].payload
    /\ ~Sensitive(m)
    /\ box' = [box EXCEPT ![m] = [@ EXCEPT !.status = "pending",
                 !.attempts = 0, !.wait = 0, !.held = 0]]
    /\ UNCHANGED <<worker, wanted, account, received, excused, failures>>

\* The recipient switches bulk mail on or off; a link in a message only off.
SetCommunication ==
    /\ account # "deleted" /\ wanted' = ~wanted
    /\ UNCHANGED <<box, worker, account, received, excused, failures, requeues>>

\* cleanup_outbox, thirty days after the message was written: that is later
\* than the hour counted above, unless staff retried an old message.
Cleanup(m) ==
    /\ box[m].status \in Settled
    /\ box[m].age >= Hour \/ requeues[m] > 0
    /\ box' = [box EXCEPT ![m] = Gone]
    /\ UNCHANGED <<worker, wanted, account, received, excused, failures,
                   requeues>>

-----------------------------------------------------------------------------
(* delete_account: the goodbye is queued, then the account is deleted.  A  *)
(* failed deletion takes the goodbye back while it is still pending.       *)

QueueGoodbye ==
    /\ account = "active" /\ account' = "leaving"
    /\ box' = [box EXCEPT ![Goodbye] = NewRow]
    /\ UNCHANGED <<worker, wanted, received, excused, failures, requeues>>

\* The account's rows are deleted with it.
DeleteAccount ==
    /\ account = "leaving" /\ account' = "deleted"
    /\ box' = [m \in Emails |-> IF m # Goodbye /\ HasRow(m) THEN Gone ELSE box[m]]
    /\ UNCHANGED <<worker, wanted, received, excused, failures, requeues>>

DeletionFails ==
    /\ account = "leaving" /\ account' = "kept"
    /\ box' = [box EXCEPT ![Goodbye] = IF @.status = "pending" THEN Gone ELSE @]
    /\ UNCHANGED <<worker, wanted, received, excused, failures, requeues>>

-----------------------------------------------------------------------------
Init ==
    /\ box = [m \in Emails |-> NoRow]
    /\ worker = [w \in Workers |-> NoBatch]
    /\ wanted = TRUE /\ account = "active"
    /\ received = [m \in Emails |-> 0]
    /\ excused = [m \in Emails |-> 0]
    /\ failures = 0 /\ requeues = [m \in Emails |-> 0]

Deliver(w, m) ==
    \/ Malformed(w, m) \/ Skip(w, m) \/ Send(w, m) \/ Sent(w, m)
    \/ GiveUp(w, m) \/ Retry(w, m)

Work(w) ==
    \/ Sweep(w) \/ Count(w) \/ Claim(w) \/ EndBatch(w)
    \/ \E m \in Emails : Deliver(w, m)

Owner == SetCommunication \/ QueueGoodbye \/ DeleteAccount \/ DeletionFails

Next ==
    \/ \E w \in Workers : Work(w) \/ Crash(w)
    \/ \E w \in Workers, m \in Emails : LoseOutcome(w, m)
    \/ \E m \in Emails :
          Enqueue(m) \/ StaffCancel(m) \/ StaffRetry(m) \/ Cleanup(m)
    \/ Owner \/ Tick

Spec == Init /\ [][Next]_vars

\* Time passes, and every instance that is not dead runs its worker and
\* finishes its batches.
Fairness == SF_vars(Tick) /\ \A w \in Workers : WF_vars(Work(w))

FairSpec == Spec /\ Fairness

-----------------------------------------------------------------------------
(* What the outbox promises. *)

\* Every variable keeps its type; no retry waits longer than MAX_BACKOFF_SECS.
TypeOK ==
    /\ box \in [Emails -> Rows]
    /\ worker \in [Workers -> Batches]
    /\ wanted \in BOOLEAN
    /\ account \in {"active", "leaving", "deleted", "kept"}
    /\ received \in [Emails -> Nat] /\ excused \in [Emails -> Nat]
    /\ requeues \in [Emails -> Nat] /\ failures \in Nat

\* Nobody receives a message twice, however many instances run the worker
\* and steal each other's stale locks, except where an answer of the mail
\* server or the record of a send was lost, or staff asked for it again.
SentOnce ==
    \A m \in Emails : received[m] <= 1 + excused[m] + requeues[m]

\* The one-time code of a message is wiped with the message's last attempt,
\* by whichever of the worker, the sweep's next worker or staff settles it.
NoSecretKept ==
    \A m \in Emails :
       Sensitive(m) /\ box[m].status \in Settled => ~box[m].payload

\* The hourly cap is counted before the claim and not locked: it may be
\* overshot, by no more than the batches of the workers that counted at the
\* same time.
CapHeld == Cardinality(SentLastHour) <= Cap - 1 + Cardinality(Workers) * Batch

\* Whatever the mail server answers and whichever worker dies, a queued
\* message is settled or deleted in the end: none stays locked, none is
\* retried for ever, none starves behind more urgent ones or the hourly cap.
EventuallySettled ==
    \A m \in Emails :
       box[m].status = "pending" ~> box[m].status \in Settled \cup {"gone"}

\* delete_account's comment on the goodbye: "Withdrawn if the deletion
\* fails."  An account that was kept has not been told good-bye.
GoodbyeMeansDeleted == account = "kept" => received[Goodbye] = 0
=============================================================================
