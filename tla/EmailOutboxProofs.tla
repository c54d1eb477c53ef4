-------------------------- MODULE EmailOutboxProofs --------------------------
(***************************************************************************)
(* What holds of EmailOutbox for every number of messages, workers,        *)
(* failures and retries, and every limit.                                  *)
(*                                                                         *)
(* The inductive invariant starts from the lock of a batch: it is younger  *)
(* than the batch, and a batch is over before its locks are stale, so no   *)
(* other worker takes a message that is in a batch.  Hence a message is in *)
(* one batch at a time, and its receipts are accounted for before it is    *)
(* sent again.  The hourly cap needs an invariant of its own, which counts *)
(* what was sent, what is in flight and what may still be claimed.         *)
(***************************************************************************)
EXTENDS EmailOutbox, FiniteSetTheorems, TLAPS

\* No batch is older than its limit, and an idle worker has none.
AgeOK ==
    \A w \in Workers :
       /\ worker[w].age <= BatchLimit
       /\ worker[w].pc = "idle" => worker[w].age = 0

\* A message in flight is an attempt of a batch that delivers, and its row
\* is locked by that batch, unless it was deleted meanwhile.
FlightOK(w, m) ==
    InFlight(w, m) =>
       /\ worker[w].pc = "deliver" /\ worker[w].flight[m].attempts > 0
       /\ \/ box[m].status = "gone"
          \/ box[m].status = "sending" /\ box[m].held <= worker[w].age

FlightInv == \A w \in Workers, m \in Emails : FlightOK(w, m)

\* A message is in one batch at a time: no lock is taken from a live worker.
OneFlight ==
    \A v, w \in Workers, m \in Emails :
       InFlight(v, m) /\ InFlight(w, m) => v = w

\* The goodbye is written once, as the account leaves.
GoodbyeOnce == account = "active" => box[Goodbye].status = "none"

\* What starts a batch, and what the batches hold.
BatchInv == TypeOK /\ AgeOK /\ FlightInv /\ OneFlight /\ GoodbyeOnce

\* A message was not received more often than its excuses allow before its
\* next send: no send of it is still to be accounted for.
Balanced(m) == received[m] <= excused[m] + requeues[m]

\* It is balanced before it is claimed, while a claimed attempt of it has
\* not been accepted, and when it is locked by a batch that is over.
ReceivedOK(m) ==
    /\ received[m] <= 1 + excused[m] + requeues[m]
    /\ box[m].status \in {"none", "pending"} => Balanced(m)
    /\ \A w \in Workers :
          InFlight(w, m) /\ worker[w].flight[m].at # "accepted" => Balanced(m)
    /\ box[m].status = "sending"
         /\ (\A w \in Workers : worker[w].flight[m].at # "accepted")
         => Balanced(m)

ReceivedInv == \A m \in Emails : ReceivedOK(m)

-----------------------------------------------------------------------------
\* A power of two is a natural number: it counts the subsets of a set.
LEMMA PowerOfTwo ==
    ASSUME NEW n \in Nat
    PROVE  2 ^ n \in Nat
<1>1. IsFiniteSet(1 .. n) /\ Cardinality(1 .. n) = n
  BY FS_Interval
<1>2. IsFiniteSet(SUBSET (1 .. n)) /\ Cardinality(SUBSET (1 .. n)) = 2 ^ n
  BY <1>1, FS_SUBSET
<1>. QED  BY <1>2, FS_CardinalityType

\* No retry waits longer than the limit.
LEMMA BackoffType ==
    ASSUME NEW n \in Nat, n > 0
    PROVE  Backoff(n) \in 0 .. MaxBackoff
<1>1. 2 ^ (n - 1) \in Nat
  BY PowerOfTwo
<1>. QED  BY <1>1, Limits DEF Backoff

\* The rows and flights the actions write have their type.
LEMMA WrittenTypes ==
    /\ NoRow \in Rows /\ Gone \in Rows /\ NewRow \in Rows
    /\ NoFlight \in Flights /\ NoBatch \in Batches
<1>1. 0 \in 0 .. MaxBackoff /\ 0 \in 0 .. Stale /\ 0 \in 0 .. Hour
  BY Limits, Punctual
<1>2. NoRow \in Rows
  BY <1>1 DEF NoRow, Rows, Status
<1>3. NoFlight \in Flights
  BY DEF NoFlight, Flights
<1>. QED  BY <1>1, <1>2, <1>3 DEF Gone, NewRow, NoRow, Rows, Status, NoBatch,
            Batches

\* A message's flight ends and nothing else of the workers changes.
LEMMA LandedType ==
    ASSUME TypeOK, NEW w \in Workers, NEW m \in Emails, Landed(w, m)
    PROVE  worker' \in [Workers -> Batches]
<1>1. worker[w] \in Batches /\ NoFlight \in Flights
  BY WrittenTypes DEF TypeOK
<1>2. [worker[w].flight EXCEPT ![m] = NoFlight] \in [Emails -> Flights]
  BY <1>1 DEF Batches
<1>3. [worker[w] EXCEPT !.flight[m] = NoFlight] \in Batches
  BY <1>1, <1>2 DEF Batches
<1>. QED  BY <1>3 DEF Landed, TypeOK

\* Recording an outcome keeps the types.
LEMMA FinishType ==
    ASSUME TypeOK, NEW w \in Workers, NEW m \in Emails,
           NEW status \in {"sent", "failed", "skipped"}, NEW clear \in BOOLEAN,
           Finish(w, m, status, clear)
    PROVE  TypeOK'
<1>1. box[m] \in Rows
  BY DEF TypeOK
<1>2. Recorded(box[m], status, clear) \in Rows
  <2>1. /\ 0 \in 0 .. Stale /\ 0 \in 0 .. Hour /\ status \in Status
        /\ (box[m].payload /\ ~clear) \in BOOLEAN
    BY Limits, Punctual DEF Status
  <2>. QED  BY <1>1, <2>1 DEF Recorded, Rows
<1>3. box' \in [Emails -> Rows]
  BY <1>2 DEF Finish, TypeOK
<1>. QED  BY <1>3, LandedType DEF Finish, TypeOK

\* A worker's own steps keep the types.
LEMMA WorkType ==
    ASSUME BatchInv, NEW w \in Workers, Work(w)
    PROVE  TypeOK'
<1>1. TypeOK /\ worker[w] \in Batches /\ worker[w].age \in 0 .. Stale
  BY Punctual DEF BatchInv, TypeOK, AgeOK, Batches
<1>2. CASE Sweep(w)
  <2>1. ASSUME NEW m \in Emails
        PROVE  Unlocked(box[m]) \in Rows
    <3>1. box[m] \in Rows /\ "pending" \in Status /\ 0 \in 0 .. Stale
      BY <1>1, Punctual DEF TypeOK, Status
    <3>. QED  BY <3>1 DEF Unlocked, Rows
  <2>2. worker' \in [Workers -> Batches]
    BY <1>1, <1>2 DEF Sweep, TypeOK, Batches
  <2>. QED  BY <1>1, <1>2, <2>1, <2>2 DEF Sweep, TypeOK
<1>3. CASE Count(w)
  <2>1. CapReached \in BOOLEAN
    BY DEF CapReached
  <2>2. worker' \in [Workers -> Batches]
    BY <1>1, <1>3, <2>1 DEF Count, TypeOK, Batches
  <2>. QED  BY <1>1, <1>3, <2>2 DEF Count, TypeOK
<1>4. CASE Claim(w)
  <2>1. PICK S \in SUBSET Due(w) :
          /\ box' = [m \in Emails |->
                       IF m \in S THEN [box[m] EXCEPT !.status = "sending",
                                          !.attempts = @ + 1,
                                          !.held = worker[w].age]
                                  ELSE box[m]]
          /\ worker' = [worker EXCEPT ![w] =
                [@ EXCEPT !.pc = "deliver",
                   !.flight = [m \in Emails |->
                      IF m \in S THEN [at |-> "claimed",
                                       attempts |-> box[m].attempts + 1,
                                       payload |-> box[m].payload]
                                 ELSE NoFlight]]]
    BY <1>4 DEF Claim
  <2>2. ASSUME NEW m \in Emails
        PROVE  /\ [box[m] EXCEPT !.status = "sending", !.attempts = @ + 1,
                                 !.held = worker[w].age] \in Rows
               /\ [at |-> "claimed", attempts |-> box[m].attempts + 1,
                   payload |-> box[m].payload] \in Flights
    <3>1. /\ box[m] \in Rows /\ "sending" \in Status
          /\ "claimed" \in {"no", "claimed", "accepted", "refused", "rejected"}
      BY <1>1 DEF TypeOK, Status
    <3>2. /\ box[m].attempts + 1 \in Nat /\ box[m].payload \in BOOLEAN
      BY <3>1 DEF Rows
    <3>. QED  BY <1>1, <3>1, <3>2 DEF Rows, Flights
  <2>3. box' \in [Emails -> Rows]
    BY <1>1, <2>1, <2>2 DEF TypeOK
  <2>4. worker' \in [Workers -> Batches]
    BY <1>1, <2>1, <2>2, WrittenTypes DEF TypeOK, Batches
  <2>. QED  BY <1>1, <1>4, <2>3, <2>4 DEF Claim, TypeOK
<1>5. CASE EndBatch(w)
  BY <1>1, <1>5, WrittenTypes DEF EndBatch, TypeOK
<1>6. ASSUME NEW m \in Emails, Deliver(w, m)
      PROVE  TypeOK'
  <2>1. CASE Malformed(w, m) \/ Skip(w, m) \/ Sent(w, m) \/ GiveUp(w, m)
    <3>1. Sensitive(m) \in BOOLEAN
      BY DEF Sensitive
    <3>2. CASE Malformed(w, m)
      BY <1>1, <3>2, FinishType DEF Malformed
    <3>3. CASE Skip(w, m)
      BY <1>1, <3>1, <3>3, FinishType DEF Skip
    <3>4. CASE Sent(w, m)
      BY <1>1, <3>1, <3>4, FinishType DEF Sent
    <3>5. CASE GiveUp(w, m)
      BY <1>1, <3>1, <3>5, FinishType DEF GiveUp
    <3>. QED  BY <2>1, <3>2, <3>3, <3>4, <3>5
  <2>2. CASE Send(w, m)
    <3>1. ASSUME NEW at \in {"accepted", "refused", "rejected"}
          PROVE  [worker EXCEPT ![w].flight[m].at = at] \in [Workers -> Batches]
      <4>1. worker[w].flight[m] \in Flights
        BY <1>1 DEF Batches
      <4>2. [worker[w].flight[m] EXCEPT !.at = at] \in Flights
        BY <4>1 DEF Flights
      <4>3. [worker[w] EXCEPT !.flight[m].at = at] \in Batches
        BY <1>1, <4>2 DEF Batches
      <4>. QED  BY <1>1, <4>3 DEF TypeOK
    <3>2. worker' \in [Workers -> Batches]
      BY <2>2, <3>1 DEF Send
    <3>3. /\ received' \in [Emails -> Nat] /\ excused' \in [Emails -> Nat]
          /\ failures' \in Nat
      BY <1>1, <2>2 DEF Send, TypeOK
    <3>. QED  BY <1>1, <2>2, <3>2, <3>3 DEF Send, TypeOK
  <2>3. CASE Retry(w, m)
    <3>1. worker[w].flight[m].attempts \in Nat \ {0}
      BY <1>1, <2>3 DEF Retry, BatchInv, FlightInv, FlightOK, InFlight, TypeOK,
           Batches, Flights
    <3>2. Backoff(worker[w].flight[m].attempts) \in 0 .. MaxBackoff
      BY <3>1, BackoffType
    <3>3. [box[m] EXCEPT !.status = "pending", !.held = 0,
             !.wait = Backoff(worker[w].flight[m].attempts)] \in Rows
      <4>1. box[m] \in Rows /\ "pending" \in Status /\ 0 \in 0 .. Stale
        BY <1>1, Punctual DEF TypeOK, Status
      <4>. QED  BY <3>2, <4>1 DEF Rows
    <3>4. box' \in [Emails -> Rows]
      BY <1>1, <2>3, <3>3 DEF Retry, TypeOK
    <3>5. worker' \in [Workers -> Batches]
      BY <1>1, <2>3, LandedType DEF Retry
    <3>. QED  BY <1>1, <2>3, <3>4, <3>5 DEF Retry, TypeOK
  <2>. QED  BY <1>6, <2>1, <2>2, <2>3 DEF Deliver
<1>. QED  BY <1>2, <1>3, <1>4, <1>5, <1>6 DEF Work

\* The steps that are no worker's keep the types.
LEMMA OtherType ==
    ASSUME TypeOK,
           \/ \E w \in Workers : Crash(w)
           \/ \E w \in Workers, m \in Emails : LoseOutcome(w, m)
           \/ \E m \in Emails :
                 Enqueue(m) \/ StaffCancel(m) \/ StaffRetry(m) \/ Cleanup(m)
           \/ Owner \/ Tick
    PROVE  TypeOK'
<1>1. CASE \E w \in Workers : Crash(w)
  BY <1>1, WrittenTypes DEF Crash, TypeOK
<1>2. ASSUME NEW w \in Workers, NEW m \in Emails, LoseOutcome(w, m)
      PROVE  TypeOK'
  <2>1. worker' \in [Workers -> Batches]
    BY <1>2, LandedType DEF LoseOutcome
  <2>. QED  BY <1>2, <2>1 DEF LoseOutcome, TypeOK
<1>3. ASSUME NEW m \in Emails, Enqueue(m) \/ Cleanup(m)
      PROVE  TypeOK'
  BY <1>3, WrittenTypes DEF Enqueue, Cleanup, TypeOK
<1>4. ASSUME NEW m \in Emails, StaffCancel(m)
      PROVE  TypeOK'
  <2>1. /\ box[m] \in Rows /\ "skipped" \in Status /\ 0 \in 0 .. Hour
        /\ (box[m].payload /\ ~Sensitive(m)) \in BOOLEAN
    BY Limits DEF TypeOK, Status
  <2>2. [Wiped(m, box[m]) EXCEPT !.status = "skipped", !.age = 0] \in Rows
    BY <2>1 DEF Wiped, Rows
  <2>. QED  BY <1>4, <2>2 DEF StaffCancel, TypeOK
<1>5. ASSUME NEW m \in Emails, StaffRetry(m)
      PROVE  TypeOK'
  <2>1. /\ box[m] \in Rows /\ "pending" \in Status
        /\ 0 \in 0 .. MaxBackoff /\ 0 \in 0 .. Stale
    BY Limits, Punctual DEF TypeOK, Status
  <2>2. [box[m] EXCEPT !.status = "pending", !.attempts = 0, !.wait = 0,
                       !.held = 0] \in Rows
    BY <2>1 DEF Rows
  <2>3. box' \in [Emails -> Rows]
    BY <1>5, <2>2 DEF StaffRetry, TypeOK
  <2>4. requeues' = [requeues EXCEPT ![m] = @ + 1]
    BY <1>5 DEF StaffRetry
  <2>5. requeues' \in [Emails -> Nat]
    BY <2>4 DEF TypeOK
  <2>6. UNCHANGED <<worker, wanted, account, received, excused, failures>>
    BY <1>5 DEF StaffRetry
  <2>. QED  BY <2>3, <2>5, <2>6 DEF TypeOK
<1>6. CASE Owner
  BY <1>6, WrittenTypes DEF Owner, SetCommunication, QueueGoodbye,
       DeleteAccount, DeletionFails, TypeOK, Emails
<1>7. CASE Tick
  <2>1. ASSUME NEW m \in Emails
        PROVE  [box[m] EXCEPT !.wait = IF @ > 0 THEN @ - 1 ELSE 0,
                  !.held = IF box[m].status = "sending"
                           THEN Older(@, Stale) ELSE 0,
                  !.age = IF box[m].status \in Settled
                          THEN Older(@, Hour) ELSE 0] \in Rows
    <3>1. /\ box[m] \in Rows /\ 0 \in 0 .. Stale /\ 0 \in 0 .. Hour
          /\ 0 \in 0 .. MaxBackoff
      BY Limits, Punctual DEF TypeOK
    <3>2. /\ box[m].wait \in 0 .. MaxBackoff /\ box[m].held \in 0 .. Stale
          /\ box[m].age \in 0 .. Hour
      BY <3>1 DEF Rows
    <3>3. /\ (IF box[m].wait > 0 THEN box[m].wait - 1 ELSE 0) \in 0 .. MaxBackoff
          /\ Older(box[m].held, Stale) \in 0 .. Stale
          /\ Older(box[m].age, Hour) \in 0 .. Hour
      BY <3>2, Limits, Punctual DEF Older
    <3>. QED  BY <3>1, <3>3 DEF Rows
  <2>2. ASSUME NEW w \in Workers
        PROVE  [worker[w] EXCEPT !.age = IF Busy(w) THEN @ + 1 ELSE 0]
                 \in Batches
    <3>1. worker[w] \in Batches /\ worker[w].age + 1 \in Nat
      BY DEF TypeOK, Batches
    <3>. QED  BY <3>1 DEF Batches
  <2>. QED  BY <1>7, <2>1, <2>2 DEF Tick, TypeOK
<1>. QED  BY <1>1, <1>2, <1>3, <1>4, <1>5, <1>6, <1>7

\* Every step keeps the types.
LEMMA TypeStep ==
    ASSUME BatchInv, [Next]_vars
    PROVE  TypeOK'
<1>1. CASE UNCHANGED vars
  BY <1>1 DEF BatchInv, TypeOK, vars
<1>. QED  BY <1>1, WorkType, OtherType DEF Next, BatchInv

-----------------------------------------------------------------------------
\* Only the flight of m in w's batch changes: it becomes f.
Moved(w, m, f) ==
    /\ worker'[w].pc = worker[w].pc /\ worker'[w].age = worker[w].age
    /\ worker'[w].capped = worker[w].capped /\ worker'[w].flight[m] = f
    /\ \A n \in Emails \ {m} : worker'[w].flight[n] = worker[w].flight[n]
    /\ \A v \in Workers \ {w} : worker'[v] = worker[v]

\* An assignment to a flight moves it.
LEMMA MovedBy ==
    ASSUME TypeOK, NEW w \in Workers, NEW m \in Emails, NEW f,
           worker' = [worker EXCEPT ![w].flight[m] = f]
    PROVE  Moved(w, m, f)
<1>1. worker \in [Workers -> Batches] /\ worker[w] \in Batches
  BY DEF TypeOK
<1>2. worker[w].flight \in [Emails -> Flights]
  BY <1>1 DEF Batches
<1>3. worker'[w] = [worker[w] EXCEPT !.flight[m] = f]
  BY <1>1
<1>4. worker'[w].flight = [worker[w].flight EXCEPT ![m] = f]
  BY <1>1, <1>3 DEF Batches
<1>5. /\ worker'[w].pc = worker[w].pc /\ worker'[w].age = worker[w].age
      /\ worker'[w].capped = worker[w].capped
  BY <1>1, <1>3 DEF Batches
<1>. QED  BY <1>1, <1>2, <1>4, <1>5 DEF Moved

\* A flight that landed is one no longer.
LEMMA LandedMoves ==
    ASSUME TypeOK, NEW w \in Workers, NEW m \in Emails, Landed(w, m)
    PROVE  Moved(w, m, NoFlight)
BY MovedBy DEF Landed

\* A send changes how far its flight came.
LEMMA SendMoves ==
    ASSUME TypeOK, NEW w \in Workers, NEW m \in Emails, Send(w, m)
    PROVE  \E at \in {"accepted", "refused", "rejected"} :
              /\ Moved(w, m, [worker[w].flight[m] EXCEPT !.at = at])
              /\ at = "accepted" => received' = [received EXCEPT ![m] = @ + 1]
                                       /\ UNCHANGED excused
              /\ at # "accepted" =>
                    \/ UNCHANGED <<received, excused>>
                    \/ /\ received' = [received EXCEPT ![m] = @ + 1]
                       /\ excused' = [excused EXCEPT ![m] = @ + 1]
<1>1. ASSUME NEW at,
             worker' = [worker EXCEPT ![w].flight[m].at = at]
      PROVE  Moved(w, m, [worker[w].flight[m] EXCEPT !.at = at])
  <2>1. worker' = [worker EXCEPT ![w].flight[m] =
                     [worker[w].flight[m] EXCEPT !.at = at]]
    BY <1>1 DEF TypeOK, Batches
  <2>. QED  BY <2>1, MovedBy
<1>2. CASE /\ worker' = [worker EXCEPT ![w].flight[m].at = "accepted"]
           /\ received' = [received EXCEPT ![m] = @ + 1]
           /\ UNCHANGED <<excused, failures>>
  BY <1>1, <1>2
<1>3. CASE /\ \E at \in {"refused", "rejected"} :
                 worker' = [worker EXCEPT ![w].flight[m].at = at]
           /\ UNCHANGED <<received, excused, failures>>
  BY <1>1, <1>3
<1>4. CASE /\ worker' = [worker EXCEPT ![w].flight[m].at = "refused"]
           /\ received' = [received EXCEPT ![m] = @ + 1]
           /\ excused' = [excused EXCEPT ![m] = @ + 1]
  BY <1>1, <1>4
<1>. QED  BY <1>2, <1>3, <1>4 DEF Send

\* What a worker's steps do to the batches.
LEMMA WorkMoves ==
    ASSUME TypeOK, NEW w \in Workers, NEW m \in Emails,
           Deliver(w, m) \/ LoseOutcome(w, m)
    PROVE  \E f \in Flights : Moved(w, m, f)
<1>1. CASE Landed(w, m)
  BY <1>1, LandedMoves, WrittenTypes
<1>2. CASE Send(w, m)
  <2>1. \A at \in {"accepted", "refused", "rejected"} :
          [worker[w].flight[m] EXCEPT !.at = at] \in Flights
    <3>1. worker[w].flight[m] \in Flights
      BY DEF TypeOK, Batches
    <3>. QED  BY <3>1 DEF Flights
  <2>. QED  BY <1>2, <2>1, SendMoves
<1>. QED  BY <1>1, <1>2 DEF Deliver, Malformed, Skip, Sent, GiveUp, Retry,
             Finish, LoseOutcome

\* The steps that are no worker's, nor time's, leave the batches alone.
LEMMA OthersLeaveBatches ==
    ASSUME \/ \E m \in Emails :
                 Enqueue(m) \/ StaffCancel(m) \/ StaffRetry(m) \/ Cleanup(m)
           \/ Owner \/ UNCHANGED vars
    PROVE  worker' = worker
<1>1. CASE \E m \in Emails :
              Enqueue(m) \/ StaffCancel(m) \/ StaffRetry(m) \/ Cleanup(m)
  BY <1>1 DEF Enqueue, StaffCancel, StaffRetry, Cleanup
<1>2. CASE Owner \/ UNCHANGED vars
  BY <1>2 DEF Owner, SetCommunication, QueueGoodbye, DeleteAccount,
     DeletionFails, vars
<1>. QED  BY <1>1, <1>2

\* No batch grows older than its limit.
LEMMA AgeStep ==
    ASSUME BatchInv, [Next]_vars
    PROVE  AgeOK'
<1>1. TypeOK /\ AgeOK
  BY DEF BatchInv
<1>. SUFFICES ASSUME NEW v \in Workers
              PROVE  /\ worker'[v].age <= BatchLimit
                     /\ worker'[v].pc = "idle" => worker'[v].age = 0
  BY DEF AgeOK
<1>2. /\ worker[v] \in Batches /\ worker[v].age \in Nat
      /\ worker[v].age <= BatchLimit
      /\ worker[v].pc = "idle" => worker[v].age = 0
  BY <1>1 DEF TypeOK, AgeOK, Batches
<1>3. NoBatch.age = 0 /\ BatchLimit \in Nat
  BY Punctual DEF NoBatch
<1>4. CASE Tick
  <2>1. worker'[v] = [worker[v] EXCEPT !.age = IF Busy(v) THEN @ + 1 ELSE 0]
    BY <1>4 DEF Tick
  <2>2. /\ worker'[v].pc = worker[v].pc
        /\ worker'[v].age = IF Busy(v) THEN worker[v].age + 1 ELSE 0
    BY <1>2, <2>1 DEF Batches
  <2>3. Busy(v) => worker[v].age < BatchLimit
    BY <1>4 DEF Tick
  <2>. QED  BY <1>2, <1>3, <2>2, <2>3 DEF Busy
<1>5. CASE worker'[v] = worker[v] \/ worker'[v] = NoBatch
  BY <1>2, <1>3, <1>5
<1>6. CASE /\ worker'[v].age = worker[v].age
           /\ worker'[v].pc # "idle" \/ worker'[v].pc = worker[v].pc
  BY <1>2, <1>6
<1>7. ASSUME NEW w \in Workers, Sweep(w) \/ Count(w) \/ Claim(w)
      PROVE  \/ worker'[v] = worker[v]
             \/ worker'[v].age = worker[v].age /\ worker'[v].pc # "idle"
  <2>1. CASE Sweep(w)
    BY <1>1, <2>1 DEF Sweep, TypeOK, Batches
  <2>2. CASE Count(w)
    BY <1>1, <2>2 DEF Count, TypeOK, Batches
  <2>3. CASE Claim(w)
    <3>1. \E f : worker' = [worker EXCEPT ![w] =
                              [@ EXCEPT !.pc = "deliver", !.flight = f]]
      BY <2>3 DEF Claim
    <3>. QED  BY <1>1, <3>1 DEF TypeOK, Batches
  <2>. QED  BY <1>7, <2>1, <2>2, <2>3
<1>8. ASSUME NEW w \in Workers, EndBatch(w) \/ Crash(w)
      PROVE  worker'[v] = worker[v] \/ worker'[v] = NoBatch
  BY <1>1, <1>8 DEF EndBatch, Crash, TypeOK
<1>9. ASSUME NEW w \in Workers, NEW m \in Emails,
             Deliver(w, m) \/ LoseOutcome(w, m)
      PROVE  worker'[v].age = worker[v].age /\ worker'[v].pc = worker[v].pc
  BY <1>1, <1>9, WorkMoves DEF Moved
<1>. QED  BY <1>4, <1>5, <1>6, <1>7, <1>8, <1>9, OthersLeaveBatches DEF Next, Work

-----------------------------------------------------------------------------
\* A row that is neither locked nor deleted is in no batch.
LEMMA FreeRow ==
    ASSUME BatchInv, NEW m \in Emails, box[m].status \notin {"sending", "gone"},
           NEW w \in Workers
    PROVE  ~InFlight(w, m)
BY DEF BatchInv, FlightInv, FlightOK

\* A stale lock is nobody's any more.
LEMMA StaleRow ==
    ASSUME BatchInv, NEW m \in Emails, box[m].status = "sending",
           box[m].held >= Stale, NEW w \in Workers
    PROVE  ~InFlight(w, m)
<1>1. box[m].held \in Nat /\ worker[w].age \in Nat
  BY Punctual DEF BatchInv, TypeOK, Rows, Batches
<1>2. worker[w].age <= BatchLimit
  BY DEF BatchInv, AgeOK
<1>. QED  BY <1>1, <1>2, Punctual DEF BatchInv, FlightInv, FlightOK

\* The steps that are no worker's, nor time's.
OutsideStep ==
    \/ \E m \in Emails :
          Enqueue(m) \/ StaffCancel(m) \/ StaffRetry(m) \/ Cleanup(m)
    \/ Owner \/ UNCHANGED vars

\* They write no row but one that is not written yet, one that is pending,
\* and one that staff retries; and they delete rows.
LEMMA RowOutside ==
    ASSUME BatchInv, OutsideStep, NEW m \in Emails
    PROVE  \/ box'[m] = box[m] \/ box'[m].status = "gone"
           \/ box[m].status \in {"none", "pending"}
           \/ StaffRetry(m) /\ box[m].status \in {"failed", "skipped"}
<1>1. box \in [Emails -> Rows] /\ Gone.status = "gone"
  BY DEF BatchInv, TypeOK, Gone, NoRow
<1>2. ASSUME NEW n \in Emails,
             Enqueue(n) \/ StaffCancel(n) \/ StaffRetry(n) \/ Cleanup(n)
      PROVE  \/ box'[m] = box[m] \/ box'[m].status = "gone"
             \/ box[m].status \in {"none", "pending"}
             \/ StaffRetry(m) /\ box[m].status \in {"failed", "skipped"}
  <2>1. CASE n # m
    <3>1. \E r : box' = [box EXCEPT ![n] = r]
      BY <1>2 DEF Enqueue, StaffCancel, StaffRetry, Cleanup
    <3>. QED  BY <1>1, <2>1, <3>1
  <2>2. CASE n = m /\ Cleanup(m)
    BY <1>1, <2>2 DEF Cleanup
  <2>3. CASE n = m /\ ~Cleanup(m)
    BY <1>2, <2>3 DEF Enqueue, StaffCancel, StaffRetry
  <2>. QED  BY <2>1, <2>2, <2>3
<1>3. CASE SetCommunication \/ UNCHANGED vars
  BY <1>3 DEF SetCommunication, vars
<1>4. CASE QueueGoodbye
  <2>1. box[Goodbye].status = "none"
    BY <1>4 DEF QueueGoodbye, BatchInv, GoodbyeOnce
  <2>2. m # Goodbye => box'[m] = box[m]
    BY <1>1, <1>4 DEF QueueGoodbye
  <2>. QED  BY <2>1, <2>2
<1>5. CASE DeleteAccount
  BY <1>1, <1>5 DEF DeleteAccount
<1>6. CASE DeletionFails
  BY <1>1, <1>6 DEF DeletionFails
<1>. QED  BY <1>2, <1>3, <1>4, <1>5, <1>6 DEF OutsideStep, Owner

\* Nobody but its worker and the clock touches a row in a batch, unless to
\* delete it.
LEMMA RowInBatch ==
    ASSUME BatchInv, OutsideStep \/ (\E w \in Workers : Sweep(w)),
           NEW m \in Emails, NEW v \in Workers, InFlight(v, m)
    PROVE  box'[m] = box[m] \/ box'[m].status = "gone"
<1>1. box[m].status \in {"sending", "gone"}
  BY FreeRow
<1>2. CASE \E w \in Workers : Sweep(w)
  <2>1. box'[m] = Unlocked(box[m])
    BY <1>2 DEF Sweep
  <2>2. ~(box[m].status = "sending" /\ box[m].held >= Stale)
    BY StaleRow
  <2>. QED  BY <2>1, <2>2 DEF Unlocked
<1>3. CASE OutsideStep
  BY <1>1, <1>3, RowOutside
<1>. QED  BY <1>2, <1>3

\* What a step of a worker's flight does to the row, and to no other.
LEMMA RowOfFlight ==
    ASSUME TypeOK, NEW w \in Workers, NEW m \in Emails,
           Deliver(w, m) \/ LoseOutcome(w, m)
    PROVE  /\ \A n \in Emails \ {m} : box'[n] = box[n]
           /\ InFlight(w, m)
           /\ UNCHANGED box \/ Moved(w, m, NoFlight)
<1>1. box \in [Emails -> Rows]
  BY DEF TypeOK
<1>2. Landed(w, m) => Moved(w, m, NoFlight)
  BY LandedMoves
<1>. DEFINE kept == \A n \in Emails \ {m} : box'[n] = box[n]
<1>3. ASSUME \E status, clear : Finish(w, m, status, clear)
      PROVE  kept /\ Moved(w, m, NoFlight)
  <2>1. PICK status, clear : Finish(w, m, status, clear)
    BY <1>3
  <2>2. Landed(w, m) /\ \E r : box' = box \/ box' = [box EXCEPT ![m] = r]
    BY <2>1 DEF Finish
  <2>. QED  BY <1>1, <1>2, <2>2
<1>4. ASSUME Retry(w, m)
      PROVE  kept /\ Moved(w, m, NoFlight)
  <2>1. Landed(w, m) /\ \E r : box' = box \/ box' = [box EXCEPT ![m] = r]
    BY <1>4 DEF Retry
  <2>. QED  BY <1>1, <1>2, <2>1
<1>5. ASSUME Send(w, m) \/ LoseOutcome(w, m)
      PROVE  UNCHANGED box
  BY <1>5 DEF Send, LoseOutcome
<1>6. InFlight(w, m)
  <2>1. CASE LoseOutcome(w, m)
    BY <2>1 DEF LoseOutcome
  <2>2. CASE Deliver(w, m)
    BY <2>2 DEF Deliver, InFlight, Malformed, Skip, Send, Sent, GiveUp, Retry,
       Readable, Hopeless
  <2>. QED  BY <2>1, <2>2
<1>. QED  BY <1>3, <1>4, <1>5, <1>6 DEF Deliver, Malformed, Skip, Sent, GiveUp

\* A claim takes free messages that are due and leaves the rest alone.
LEMMA ClaimTakes ==
    ASSUME TypeOK, NEW w \in Workers, Claim(w)
    PROVE  \E S \in SUBSET Due(w) :
              /\ Cardinality(S) <= Batch
              /\ \A m \in S :
                    /\ box'[m].status = "sending"
                    /\ box'[m].held = worker[w].age
                    /\ worker'[w].flight[m].at = "claimed"
                    /\ worker'[w].flight[m].attempts = box[m].attempts + 1
              /\ \A m \in Emails \ S :
                    box'[m] = box[m] /\ worker'[w].flight[m] = NoFlight
              /\ worker'[w].pc = "deliver" /\ worker'[w].age = worker[w].age
              /\ worker'[w].capped = worker[w].capped
              /\ \A v \in Workers \ {w} : worker'[v] = worker[v]
<1>1. PICK S \in SUBSET Due(w) :
        /\ Cardinality(S) = IF Cardinality(Due(w)) < Batch
                            THEN Cardinality(Due(w)) ELSE Batch
        /\ box' = [m \in Emails |->
                     IF m \in S THEN [box[m] EXCEPT !.status = "sending",
                                        !.attempts = @ + 1,
                                        !.held = worker[w].age]
                                ELSE box[m]]
        /\ worker' = [worker EXCEPT ![w] =
              [@ EXCEPT !.pc = "deliver",
                 !.flight = [m \in Emails |->
                    IF m \in S THEN [at |-> "claimed",
                                     attempts |-> box[m].attempts + 1,
                                     payload |-> box[m].payload]
                               ELSE NoFlight]]]
  BY DEF Claim
<1>2. S \subseteq Emails /\ worker[w] \in Batches
  BY DEF Due, TypeOK
<1>. DEFINE flown == [m \in Emails |->
                        IF m \in S THEN [at |-> "claimed",
                                         attempts |-> box[m].attempts + 1,
                                         payload |-> box[m].payload]
                                   ELSE NoFlight]
<1>3. worker'[w] = [worker[w] EXCEPT !.pc = "deliver", !.flight = flown]
  BY <1>1 DEF TypeOK
<1>4. /\ worker'[w].flight = flown /\ worker'[w].pc = "deliver"
      /\ worker'[w].age = worker[w].age
      /\ worker'[w].capped = worker[w].capped
  BY <1>2, <1>3 DEF Batches
<1>5. ASSUME NEW m \in S
      PROVE  box'[m].status = "sending" /\ box'[m].held = worker[w].age
  <2>1. box'[m] = [box[m] EXCEPT !.status = "sending", !.attempts = @ + 1,
                                 !.held = worker[w].age]
    BY <1>1, <1>2
  <2>. QED  BY <1>2, <2>1 DEF TypeOK, Rows
<1>6. Cardinality(S) <= Batch
  <2>1. IsFiniteSet(Due(w))
    BY Finite, FS_Subset DEF Due
  <2>2. Cardinality(Due(w)) \in Nat
    BY <2>1, FS_CardinalityType
  <2>3. Cardinality(S) = IF Cardinality(Due(w)) < Batch
                         THEN Cardinality(Due(w)) ELSE Batch
    BY <1>1
  <2>. QED  BY <2>2, <2>3, Limits
<1>7. \A v \in Workers \ {w} : worker'[v] = worker[v]
  BY <1>1 DEF TypeOK
<1>8. \A m \in Emails \ S :
        box'[m] = box[m] /\ worker'[w].flight[m] = NoFlight
  BY <1>1, <1>2, <1>4
<1>9. \A m \in S : /\ worker'[w].flight[m].at = "claimed"
                   /\ worker'[w].flight[m].attempts = box[m].attempts + 1
  BY <1>2, <1>4
<1>. QED  BY <1>4, <1>5, <1>6, <1>7, <1>8, <1>9

\* A flight in a batch after the step was in it before, or was just claimed.
LEMMA FlightFrom ==
    ASSUME BatchInv, [Next]_vars, NEW v \in Workers, NEW m \in Emails,
           InFlight(v, m)'
    PROVE  \/ /\ Claim(v) /\ m \in Due(v)
              /\ worker'[v].pc = "deliver" /\ worker'[v].flight[m].attempts > 0
              /\ box'[m].status = "sending" /\ box'[m].held = worker'[v].age
           \/ /\ InFlight(v, m) /\ worker'[v].pc = worker[v].pc
              /\ worker'[v].flight[m].attempts = worker[v].flight[m].attempts
              /\ worker'[v].age >= worker[v].age
<1>1. /\ TypeOK /\ worker[v] \in Batches /\ worker[v].age \in Nat
      /\ NoFlight.at = "no" /\ NoBatch.flight[m].at = "no"
  BY DEF BatchInv, TypeOK, Batches, NoFlight, NoBatch
<1>2. CASE worker'[v] = worker[v]
  BY <1>1, <1>2 DEF InFlight
<1>3. CASE Tick
  <2>1. worker'[v] = [worker[v] EXCEPT !.age = IF Busy(v) THEN @ + 1 ELSE 0]
    BY <1>3 DEF Tick
  <2>2. /\ worker'[v].pc = worker[v].pc /\ worker'[v].flight = worker[v].flight
        /\ worker'[v].age = IF Busy(v) THEN worker[v].age + 1 ELSE 0
    BY <1>1, <2>1 DEF Batches
  <2>3. ~Busy(v) => worker[v].age = 0
    BY DEF BatchInv, AgeOK, Busy
  <2>. QED  BY <1>1, <2>2, <2>3 DEF InFlight
<1>4. ASSUME NEW w \in Workers, NEW n \in Emails,
             Deliver(w, n) \/ LoseOutcome(w, n), v = w
      PROVE  /\ InFlight(v, m) /\ worker'[v].pc = worker[v].pc
             /\ worker'[v].flight[m].attempts = worker[v].flight[m].attempts
             /\ worker'[v].age >= worker[v].age
  <2>1. InFlight(w, n)
    BY <1>1, <1>4, RowOfFlight
  <2>2. CASE Moved(w, n, NoFlight)
    <3>1. m # n
      BY <1>1, <1>4, <2>2 DEF Moved, InFlight
    <3>. QED  BY <1>1, <1>4, <2>2, <3>1 DEF Moved, InFlight
  <2>3. CASE Send(w, n)
    <3>1. PICK at \in {"accepted", "refused", "rejected"} :
             Moved(w, n, [worker[w].flight[n] EXCEPT !.at = at])
      BY <1>1, <2>3, SendMoves
    <3>2. /\ worker[w].flight[n] \in Flights
          /\ worker'[w].flight[n] = [worker[w].flight[n] EXCEPT !.at = at]
      BY <1>1, <1>4, <3>1 DEF Batches, Moved
    <3>3. worker'[w].flight[n].attempts = worker[w].flight[n].attempts
      BY <3>2 DEF Flights
    <3>4. /\ worker'[w].pc = worker[w].pc /\ worker'[w].age = worker[w].age
          /\ n # m => worker'[w].flight[m] = worker[w].flight[m]
      BY <3>1 DEF Moved
    <3>5. CASE n = m
      BY <1>1, <1>4, <2>1, <3>3, <3>4, <3>5
    <3>6. CASE n # m
      BY <1>1, <1>4, <3>4, <3>6 DEF InFlight
    <3>. QED  BY <3>5, <3>6
  <2>. QED  BY <1>1, <1>4, <2>2, <2>3, LandedMoves DEF Deliver, LoseOutcome,
               Malformed, Skip, Sent, GiveUp, Retry, Finish
<1>5. ASSUME NEW w \in Workers, NEW n \in Emails,
             Deliver(w, n) \/ LoseOutcome(w, n), v # w
      PROVE  worker'[v] = worker[v]
  BY <1>1, <1>5, WorkMoves DEF Moved
<1>6. ASSUME NEW w \in Workers, Sweep(w) \/ Count(w)
      PROVE  worker'[v] = worker[v]
  <2>1. CASE v # w
    BY <1>1, <1>6, <2>1 DEF Sweep, Count, TypeOK
  <2>2. CASE v = w
    <3>1. worker[v].pc # "deliver"
      BY <1>6, <2>2 DEF Sweep, Count
    <3>2. ~InFlight(v, m)
      BY <3>1 DEF BatchInv, FlightInv, FlightOK
    <3>3. worker'[v].flight = worker[v].flight
      <4>1. CASE Sweep(w)
        BY <1>1, <2>2, <4>1 DEF Sweep, Batches, TypeOK
      <4>2. CASE Count(w)
        BY <1>1, <2>2, <4>2 DEF Count, Batches, TypeOK
      <4>. QED  BY <1>6, <4>1, <4>2
    <3>. QED  BY <3>2, <3>3 DEF InFlight
  <2>. QED  BY <2>1, <2>2
<1>7. ASSUME NEW w \in Workers, EndBatch(w) \/ Crash(w)
      PROVE  worker'[v] = worker[v]
  BY <1>1, <1>7 DEF EndBatch, Crash, TypeOK, InFlight
<1>8. ASSUME NEW w \in Workers, Claim(w), v # w
      PROVE  worker'[v] = worker[v]
  BY <1>1, <1>8, ClaimTakes
<1>9. CASE Claim(v)
  <2>1. PICK S \in SUBSET Due(v) :
          /\ \A n \in S :
                /\ box'[n].status = "sending" /\ box'[n].held = worker[v].age
                /\ worker'[v].flight[n].attempts = box[n].attempts + 1
          /\ \A n \in Emails \ S : worker'[v].flight[n] = NoFlight
          /\ worker'[v].pc = "deliver" /\ worker'[v].age = worker[v].age
    BY <1>1, <1>9, ClaimTakes
  <2>2. m \in S
    BY <1>1, <2>1 DEF InFlight
  <2>3. box[m].attempts \in Nat
    BY <1>1 DEF TypeOK, Rows
  <2>. QED  BY <1>9, <2>1, <2>2, <2>3
<1>. QED  BY <1>2, <1>3, <1>4, <1>5, <1>6, <1>7, <1>8, <1>9,
             OthersLeaveBatches DEF Next, Work

\* A flight keeps its lock.
LEMMA FlightStep ==
    ASSUME BatchInv, [Next]_vars, NEW v \in Workers, NEW m \in Emails
    PROVE  FlightOK(v, m)'
<1>. SUFFICES ASSUME InFlight(v, m)'
              PROVE  /\ worker'[v].pc = "deliver"
                     /\ worker'[v].flight[m].attempts > 0
                     /\ \/ box'[m].status = "gone"
                        \/ /\ box'[m].status = "sending"
                           /\ box'[m].held <= worker'[v].age
  BY DEF FlightOK
<1>1. TypeOK /\ TypeOK' /\ worker'[v].age \in Nat /\ worker[v].age \in Nat
      /\ box[m].held \in Nat
  BY TypeStep, Punctual DEF BatchInv, TypeOK, Batches, Rows
<1>2. CASE /\ worker'[v].pc = "deliver" /\ worker'[v].flight[m].attempts > 0
           /\ box'[m].status = "sending" /\ box'[m].held = worker'[v].age
  BY <1>1, <1>2
<1>3. CASE /\ InFlight(v, m) /\ worker'[v].pc = worker[v].pc
           /\ worker'[v].flight[m].attempts = worker[v].flight[m].attempts
           /\ worker'[v].age >= worker[v].age
  <2>1. /\ worker[v].pc = "deliver" /\ worker[v].flight[m].attempts > 0
        /\ \/ box[m].status = "gone"
           \/ box[m].status = "sending" /\ box[m].held <= worker[v].age
    BY <1>3 DEF BatchInv, FlightInv, FlightOK
  <2>2. CASE box'[m] = box[m] \/ box'[m].status = "gone"
    BY <1>1, <1>3, <2>1, <2>2
  <2>3. CASE Tick
    <3>1. box'[m] = [box[m] EXCEPT !.wait = IF @ > 0 THEN @ - 1 ELSE 0,
                       !.held = IF box[m].status = "sending"
                                THEN Older(@, Stale) ELSE 0,
                       !.age = IF box[m].status \in Settled
                               THEN Older(@, Hour) ELSE 0]
      BY <2>3 DEF Tick
    <3>2. /\ box'[m].status = box[m].status
          /\ box[m].status = "sending" => box'[m].held = Older(box[m].held, Stale)
      BY <1>1, <3>1 DEF TypeOK, Rows
    <3>3. worker'[v].age = worker[v].age + 1
      <4>1. worker'[v] = [worker[v] EXCEPT !.age = IF Busy(v) THEN @ + 1 ELSE 0]
        BY <2>3 DEF Tick
      <4>. QED  BY <1>1, <2>1, <4>1 DEF Busy, TypeOK, Batches
    <3>. QED  BY <1>1, <1>3, <2>1, <3>2, <3>3, Punctual DEF Older
  <2>4. ASSUME NEW w \in Workers, NEW n \in Emails,
               Deliver(w, n) \/ LoseOutcome(w, n)
        PROVE  box'[m] = box[m]
    <3>1. /\ \A k \in Emails \ {n} : box'[k] = box[k]
          /\ InFlight(w, n) /\ (UNCHANGED box \/ Moved(w, n, NoFlight))
      BY <1>1, <2>4, RowOfFlight
    <3>2. CASE n = m /\ Moved(w, n, NoFlight)
      <4>1. v = w
        BY <1>3, <3>1, <3>2 DEF BatchInv, OneFlight
      <4>2. ~InFlight(v, m)'
        BY <3>2, <4>1 DEF Moved, InFlight, NoFlight
      <4>. QED  BY <4>2
    <3>. QED  BY <3>1, <3>2
  <2>5. ASSUME NEW w \in Workers, Claim(w)
        PROVE  box'[m] = box[m]
    <3>1. m \notin Due(w)
      BY <1>3, FreeRow DEF Due
    <3>. QED  BY <1>1, <2>1, <2>5, <3>1, ClaimTakes
  <2>6. ASSUME NEW w \in Workers, Count(w) \/ EndBatch(w) \/ Crash(w)
        PROVE  box'[m] = box[m]
    BY <2>6 DEF Count, EndBatch, Crash
  <2>7. OutsideStep \/ (\E w \in Workers : Sweep(w))
          => box'[m] = box[m] \/ box'[m].status = "gone"
    BY <1>3, RowInBatch
  <2>. QED  BY <2>2, <2>3, <2>4, <2>5, <2>6, <2>7 DEF Next, Work, OutsideStep
<1>. QED  BY <1>2, <1>3, FlightFrom

\* No message is claimed while another batch has it.
LEMMA OneFlightStep ==
    ASSUME BatchInv, [Next]_vars
    PROVE  OneFlight'
<1>. SUFFICES ASSUME NEW v \in Workers, NEW w \in Workers, NEW m \in Emails,
                     InFlight(v, m)', InFlight(w, m)', v # w
              PROVE  FALSE
  BY DEF OneFlight
<1>1. CASE InFlight(v, m) /\ InFlight(w, m)
  BY <1>1 DEF BatchInv, OneFlight
<1>2. ASSUME NEW u \in Workers, NEW x \in Workers, u # x, InFlight(x, m)',
             Claim(u), m \in Due(u)
      PROVE  FALSE
  <2>1. worker'[x] = worker[x]
    BY <1>2, ClaimTakes DEF BatchInv
  <2>2. ~InFlight(x, m)
    BY <1>2, FreeRow DEF Due
  <2>. QED  BY <1>2, <2>1, <2>2 DEF InFlight
<1>. QED  BY <1>1, <1>2, FlightFrom

\* The goodbye is not written before the account leaves.
LEMMA GoodbyeStep ==
    ASSUME BatchInv, [Next]_vars
    PROVE  GoodbyeOnce'
<1>1. /\ TypeOK /\ Goodbye \in Emails
      /\ account = "active" => box[Goodbye].status = "none"
  BY DEF BatchInv, GoodbyeOnce, Emails
<1>. SUFFICES ASSUME account' = "active"
              PROVE  box'[Goodbye].status = "none"
  BY DEF GoodbyeOnce
<1>2. CASE account = "active" /\ box'[Goodbye] = box[Goodbye]
  BY <1>1, <1>2
<1>3. CASE Tick
  <2>1. account = "active" /\ box[Goodbye] \in Rows
    BY <1>1, <1>3 DEF Tick, TypeOK
  <2>2. box'[Goodbye].status = box[Goodbye].status
    BY <1>1, <1>3, <2>1 DEF Tick, Rows
  <2>. QED  BY <1>1, <2>1, <2>2
<1>4. CASE Owner
  BY <1>1, <1>4 DEF Owner, SetCommunication, QueueGoodbye, DeleteAccount,
     DeletionFails
<1>5. ASSUME NEW w \in Workers, Work(w) \/ Crash(w)
      PROVE  account = "active" /\ box'[Goodbye] = box[Goodbye]
  <2>1. account = "active"
    BY <1>5 DEF Work, Crash, Sweep, Count, Claim, EndBatch, Deliver, Malformed,
       Skip, Send, Sent, GiveUp, Retry, Finish
  <2>2. box[Goodbye].status = "none"
    BY <1>1, <2>1
  <2>3. \A v \in Workers : ~InFlight(v, Goodbye)
    BY <1>1, <2>2, FreeRow
  <2>4. CASE Sweep(w)
    BY <1>1, <2>2, <2>4 DEF Sweep, Unlocked
  <2>5. CASE Claim(w)
    <3>1. Goodbye \notin Due(w)
      BY <2>2 DEF Due
    <3>. QED  BY <1>1, <2>1, <2>5, <3>1, ClaimTakes
  <2>6. CASE Count(w) \/ EndBatch(w) \/ Crash(w)
    BY <2>6 DEF Count, EndBatch, Crash
  <2>7. ASSUME NEW m \in Emails, Deliver(w, m)
        PROVE  box'[Goodbye] = box[Goodbye]
    <3>1. InFlight(w, m) /\ \A n \in Emails \ {m} : box'[n] = box[n]
      BY <1>1, <2>7, RowOfFlight
    <3>. QED  BY <1>1, <2>3, <3>1
  <2>. QED  BY <1>5, <2>1, <2>4, <2>5, <2>6, <2>7 DEF Work
<1>6. ASSUME NEW w \in Workers, NEW m \in Emails, LoseOutcome(w, m)
      PROVE  account = "active" /\ box'[Goodbye] = box[Goodbye]
  BY <1>6 DEF LoseOutcome
<1>7. ASSUME NEW m \in Emails,
             Enqueue(m) \/ StaffCancel(m) \/ StaffRetry(m) \/ Cleanup(m)
      PROVE  account = "active" /\ box'[Goodbye] = box[Goodbye]
  <2>1. account = "active"
    BY <1>7 DEF Enqueue, StaffCancel, StaffRetry, Cleanup
  <2>2. m # Goodbye
    BY <1>1, <1>7, <2>1 DEF Enqueue, StaffCancel, StaffRetry, Cleanup, Settled
  <2>3. \E r : box' = [box EXCEPT ![m] = r]
    BY <1>7 DEF Enqueue, StaffCancel, StaffRetry, Cleanup
  <2>. QED  BY <1>1, <2>1, <2>2, <2>3 DEF TypeOK
<1>8. CASE UNCHANGED vars
  BY <1>1, <1>8 DEF vars
<1>. QED  BY <1>2, <1>3, <1>4, <1>5, <1>6, <1>7, <1>8 DEF Next

\* Every behaviour keeps types, ages and locks.
LEMMA BatchInvariant == Spec => []BatchInv
<1>1. Init => BatchInv
  <2>1. ASSUME Init
        PROVE  BatchInv
    <3>1. TypeOK
      BY <2>1, WrittenTypes, Limits DEF Init, TypeOK
    <3>2. \A w \in Workers : worker[w] = NoBatch
      BY <2>1 DEF Init
    <3>3. NoBatch.age = 0 /\ \A m \in Emails : NoBatch.flight[m].at = "no"
      BY DEF NoBatch, NoFlight
    <3>4. AgeOK
      BY <3>2, <3>3, Punctual DEF AgeOK
    <3>5. \A w \in Workers, m \in Emails : ~InFlight(w, m)
      BY <3>2, <3>3 DEF InFlight
    <3>6. GoodbyeOnce
      BY <2>1 DEF Init, GoodbyeOnce, Emails, NoRow
    <3>. QED  BY <3>1, <3>4, <3>5, <3>6 DEF BatchInv, FlightInv, FlightOK,
                 OneFlight
  <2>. QED  BY <2>1
<1>2. BatchInv /\ [Next]_vars => BatchInv'
  BY TypeStep, AgeStep, FlightStep, OneFlightStep, GoodbyeStep
     DEF BatchInv, FlightInv
<1>. QED  BY <1>1, <1>2, PTL DEF Spec

\* The types of the outbox, for any number of messages and workers.
THEOREM TypeCorrect == Spec => []TypeOK
<1>1. BatchInv => TypeOK
  BY DEF BatchInv
<1>. QED  BY <1>1, BatchInvariant, PTL

-----------------------------------------------------------------------------
\* What the counts of a message say in numbers.
LEMMA CountTypes ==
    ASSUME TypeOK, NEW m \in Emails
    PROVE  received[m] \in Nat /\ excused[m] \in Nat /\ requeues[m] \in Nat
BY DEF TypeOK

\* A step that does not concern a message leaves its counts in order.
LEMMA Unconcerned ==
    ASSUME NEW m \in Emails, ReceivedOK(m), box'[m].status = box[m].status,
           received'[m] = received[m], excused'[m] = excused[m],
           requeues'[m] = requeues[m],
           \A v \in Workers : worker'[v].flight[m].at = worker[v].flight[m].at
    PROVE  ReceivedOK(m)'
BY DEF ReceivedOK, Balanced, InFlight

\* A balanced message is in order whatever its row and its flights are.
LEMMA BalancedOK ==
    ASSUME TypeOK', NEW m \in Emails, Balanced(m)'
    PROVE  ReceivedOK(m)'
BY CountTypes DEF ReceivedOK, Balanced, TypeOK

\* A message that is settled or deleted and in no batch is in order.
LEMMA LandedOK ==
    ASSUME NEW m \in Emails, ReceivedOK(m), received'[m] = received[m],
           excused'[m] = excused[m], requeues'[m] = requeues[m],
           box'[m].status \notin {"none", "pending", "sending"},
           \A v \in Workers : worker'[v].flight[m].at = "no"
    PROVE  ReceivedOK(m)'
BY DEF ReceivedOK, Balanced, InFlight

\* The steps of a message's flight.
LEMMA DeliverCounts ==
    ASSUME BatchInv, BatchInv', NEW w \in Workers, NEW m \in Emails,
           ReceivedOK(m), Deliver(w, m) \/ LoseOutcome(w, m)
    PROVE  ReceivedOK(m)'
<1>1. /\ TypeOK /\ TypeOK' /\ InFlight(w, m) /\ NoFlight.at = "no"
      /\ box[m] \in Rows /\ worker[w].flight[m] \in Flights
  BY RowOfFlight DEF BatchInv, NoFlight, TypeOK, Batches
<1>2. \A v \in Workers \ {w} : worker[v].flight[m].at = "no"
  BY <1>1 DEF BatchInv, OneFlight, InFlight
<1>3. /\ received[m] \in Nat /\ excused[m] \in Nat /\ requeues[m] \in Nat
      /\ received[m] <= 1 + excused[m] + requeues[m]
      /\ worker[w].flight[m].at # "accepted" => Balanced(m)
  BY <1>1, CountTypes DEF ReceivedOK
<1>4. box[m].status \in {"sending", "gone"}
  BY <1>1, FreeRow
<1>5. ASSUME Landed(w, m)
      PROVE  \A v \in Workers : worker'[v].flight[m].at = "no"
  <2>1. Moved(w, m, NoFlight)
    BY <1>1, <1>5, LandedMoves
  <2>. QED  BY <1>1, <1>2, <2>1 DEF Moved
<1>6. ASSUME NEW status \in {"sent", "failed", "skipped"}, NEW clear,
             Finish(w, m, status, clear)
      PROVE  ReceivedOK(m)'
  <2>1. /\ Landed(w, m) /\ UNCHANGED <<received, excused, requeues>>
        /\ box' = IF HasRow(m)
                  THEN [box EXCEPT ![m] = Recorded(@, status, clear)] ELSE box
    BY <1>6 DEF Finish
  <2>2. Recorded(box[m], status, clear).status = status
    BY <1>1 DEF Recorded, Rows
  <2>3. box'[m].status \in {"sent", "failed", "skipped", "gone"}
    BY <1>1, <1>4, <2>1, <2>2 DEF HasRow, TypeOK
  <2>. QED  BY <1>5, <2>1, <2>3, LandedOK
<1>7. CASE Retry(w, m)
  <2>1. Balanced(m)
    BY <1>3, <1>7 DEF Retry
  <2>2. Balanced(m)'
    BY <1>7, <2>1 DEF Retry, Balanced
  <2>. QED  BY <1>1, <2>2, BalancedOK
<1>8. CASE Send(w, m)
  <2>1. PICK at \in {"accepted", "refused", "rejected"} :
          /\ Moved(w, m, [worker[w].flight[m] EXCEPT !.at = at])
          /\ at = "accepted" => received' = [received EXCEPT ![m] = @ + 1]
                                   /\ UNCHANGED excused
          /\ at # "accepted" =>
                \/ UNCHANGED <<received, excused>>
                \/ /\ received' = [received EXCEPT ![m] = @ + 1]
                   /\ excused' = [excused EXCEPT ![m] = @ + 1]
    BY <1>1, <1>8, SendMoves
  <2>2. Balanced(m) /\ UNCHANGED <<box, requeues>>
    BY <1>3, <1>8 DEF Send, Readable
  <2>3. CASE at = "accepted"
    <3>1. received'[m] = received[m] + 1 /\ excused'[m] = excused[m]
      BY <1>1, <2>1, <2>3 DEF TypeOK
    <3>2. worker'[w].flight[m].at = "accepted"
      BY <1>1, <2>1, <2>3 DEF Moved, Flights
    <3>3. \A v \in Workers \ {w} : worker'[v].flight[m].at = "no"
      BY <1>2, <2>1 DEF Moved
    <3>4. received'[m] <= 1 + excused'[m] + requeues'[m]
      BY <1>3, <2>2, <3>1 DEF Balanced
    <3>. QED  BY <1>4, <2>2, <3>2, <3>3, <3>4 DEF ReceivedOK, InFlight
  <2>4. CASE at # "accepted"
    <3>1. \/ received'[m] = received[m] /\ excused'[m] = excused[m]
          \/ received'[m] = received[m] + 1 /\ excused'[m] = excused[m] + 1
      BY <1>1, <2>1, <2>4 DEF TypeOK
    <3>2. Balanced(m)'
      BY <1>3, <2>2, <3>1 DEF Balanced
    <3>. QED  BY <1>1, <3>2, BalancedOK
  <2>. QED  BY <2>3, <2>4
<1>9. CASE LoseOutcome(w, m)
  <2>1. /\ excused'[m] = IF worker[w].flight[m].at = "accepted"
                         THEN excused[m] + 1 ELSE excused[m]
        /\ UNCHANGED <<received, requeues>>
    BY <1>1, <1>9 DEF LoseOutcome, TypeOK
  <2>2. Balanced(m)'
    BY <1>3, <2>1 DEF Balanced
  <2>. QED  BY <1>1, <2>2, BalancedOK
<1>. QED  BY <1>6, <1>7, <1>8, <1>9 DEF Deliver, Malformed, Skip, Sent, GiveUp

\* The counts of every message stay in order.
LEMMA ReceivedStep ==
    ASSUME BatchInv, BatchInv', [Next]_vars, NEW m \in Emails, ReceivedOK(m)
    PROVE  ReceivedOK(m)'
<1>1. /\ TypeOK /\ TypeOK' /\ box[m] \in Rows
      /\ NoBatch.flight[m].at = "no" /\ NoFlight.at = "no"
      /\ received[m] \in Nat /\ excused[m] \in Nat /\ requeues[m] \in Nat
      /\ received[m] <= 1 + excused[m] + requeues[m]
  BY CountTypes DEF BatchInv, TypeOK, NoBatch, NoFlight, ReceivedOK
<1>2. ASSUME NEW w \in Workers, Sweep(w)
      PROVE  ReceivedOK(m)'
  <2>1. /\ box'[m] = Unlocked(box[m])
        /\ UNCHANGED <<received, excused, requeues>>
    BY <1>2 DEF Sweep
  <2>2. \A v \in Workers : worker'[v].flight = worker[v].flight
    BY <1>1, <1>2 DEF Sweep, TypeOK, Batches
  <2>3. CASE box[m].status = "sending" /\ box[m].held >= Stale
    <3>1. \A v \in Workers : worker[v].flight[m].at = "no"
      BY <2>3, StaleRow DEF InFlight
    <3>2. Balanced(m)'
      BY <2>1, <2>3, <3>1 DEF ReceivedOK, Balanced
    <3>. QED  BY <1>1, <3>2, BalancedOK
  <2>4. CASE ~(box[m].status = "sending" /\ box[m].held >= Stale)
    <3>1. box'[m].status = box[m].status
      BY <2>1, <2>4 DEF Unlocked
    <3>. QED  BY <2>1, <2>2, <3>1, Unconcerned
  <2>. QED  BY <2>3, <2>4
<1>3. ASSUME NEW w \in Workers, Count(w)
      PROVE  ReceivedOK(m)'
  <2>1. \A v \in Workers : worker'[v].flight = worker[v].flight
    BY <1>1, <1>3 DEF Count, TypeOK, Batches
  <2>2. UNCHANGED <<box, received, excused, requeues>>
    BY <1>3 DEF Count
  <2>. QED  BY <2>1, <2>2, Unconcerned
<1>4. ASSUME NEW w \in Workers, Claim(w)
      PROVE  ReceivedOK(m)'
  <2>1. UNCHANGED <<received, excused, requeues>>
    BY <1>4 DEF Claim
  <2>2. CASE box[m].status = "pending"
    <3>1. Balanced(m)'
      BY <2>1, <2>2 DEF ReceivedOK, Balanced
    <3>. QED  BY <1>1, <3>1, BalancedOK
  <2>3. CASE box[m].status # "pending"
    <3>1. m \notin Due(w)
      BY <2>3 DEF Due
    <3>2. /\ box'[m] = box[m] /\ worker'[w].flight[m] = NoFlight
          /\ \A v \in Workers \ {w} : worker'[v] = worker[v]
      BY <1>1, <1>4, <3>1, ClaimTakes
    <3>3. worker[w].flight[m].at = "no"
      BY <1>4 DEF Claim, BatchInv, FlightInv, FlightOK, InFlight
    <3>. QED  BY <1>1, <2>1, <3>2, <3>3, Unconcerned
  <2>. QED  BY <2>2, <2>3
<1>5. ASSUME NEW w \in Workers, EndBatch(w)
      PROVE  ReceivedOK(m)'
  <2>1. /\ UNCHANGED <<box, received, excused, requeues>>
        /\ worker[w].flight[m].at = "no"
    BY <1>5 DEF EndBatch, InFlight
  <2>2. \A v \in Workers : worker'[v].flight[m].at = worker[v].flight[m].at
    BY <1>1, <1>5, <2>1 DEF EndBatch, TypeOK
  <2>. QED  BY <2>1, <2>2, Unconcerned
<1>6. ASSUME NEW w \in Workers, Crash(w)
      PROVE  ReceivedOK(m)'
  <2>1. /\ UNCHANGED <<box, received, requeues>>
        /\ excused'[m] = IF worker[w].flight[m].at = "accepted"
                         THEN excused[m] + 1 ELSE excused[m]
        /\ worker'[w] = NoBatch
        /\ \A v \in Workers \ {w} : worker'[v] = worker[v]
    BY <1>1, <1>6 DEF Crash, TypeOK
  <2>2. CASE InFlight(w, m)
    <3>1. Balanced(m)'
      BY <1>1, <2>1, <2>2 DEF ReceivedOK, Balanced
    <3>. QED  BY <1>1, <3>1, BalancedOK
  <2>3. CASE ~InFlight(w, m)
    BY <1>1, <2>1, <2>3, Unconcerned DEF InFlight
  <2>. QED  BY <2>2, <2>3
<1>7. ASSUME NEW w \in Workers, NEW n \in Emails,
             Deliver(w, n) \/ LoseOutcome(w, n), n # m
      PROVE  ReceivedOK(m)'
  <2>1. /\ box'[m] = box[m]
        /\ \A v \in Workers : worker'[v].flight[m] = worker[v].flight[m]
    BY <1>1, <1>7, RowOfFlight, WorkMoves DEF Moved
  <2>2. CASE Send(w, n)
    BY <1>1, <1>7, <2>1, <2>2, Unconcerned DEF Send, TypeOK
  <2>3. CASE LoseOutcome(w, n)
    BY <1>1, <1>7, <2>1, <2>3, Unconcerned DEF LoseOutcome, TypeOK
  <2>4. CASE UNCHANGED <<received, excused, requeues>>
    BY <2>1, <2>4, Unconcerned
  <2>. QED  BY <1>7, <2>2, <2>3, <2>4 DEF Deliver, Malformed, Skip, Sent,
               GiveUp, Retry, Finish
<1>8. ASSUME Tick
      PROVE  ReceivedOK(m)'
  <2>1. box'[m].status = box[m].status
    BY <1>1, <1>8 DEF Tick, Rows
  <2>2. ASSUME NEW v \in Workers
        PROVE  worker'[v].flight = worker[v].flight
    <3>1. PICK b \in Batches : b = worker[v]
      BY <1>1 DEF TypeOK
    <3>2. \A n : [b EXCEPT !.age = n].flight = b.flight
      BY DEF Batches
    <3>3. worker'[v] = [b EXCEPT !.age = IF Busy(v) THEN b.age + 1 ELSE 0]
      BY <1>8, <3>1 DEF Tick
    <3>. QED  BY <3>1, <3>2, <3>3
  <2>. QED  BY <1>8, <2>1, <2>2, Unconcerned DEF Tick
<1>9. ASSUME OutsideStep
      PROVE  ReceivedOK(m)'
  <2>1. worker' = worker /\ UNCHANGED <<received, excused>>
    <3>1. worker' = worker
      BY <1>9, OthersLeaveBatches DEF OutsideStep
    <3>2. UNCHANGED <<received, excused>>
      BY <1>9 DEF OutsideStep, Enqueue, StaffCancel, StaffRetry, Cleanup,
         Owner, SetCommunication, QueueGoodbye, DeleteAccount, DeletionFails,
         vars
    <3>. QED  BY <3>1, <3>2
  <2>2. ASSUME StaffRetry(m)
        PROVE  ReceivedOK(m)'
    <3>1. requeues'[m] = requeues[m] + 1
      BY <1>1, <2>2 DEF StaffRetry, TypeOK
    <3>2. Balanced(m)'
      BY <1>1, <2>1, <3>1 DEF Balanced
    <3>. QED  BY <1>1, <3>2, BalancedOK
  <2>3. CASE ~StaffRetry(m)
    <3>1. requeues'[m] = requeues[m]
      BY <1>1, <1>9, <2>3 DEF OutsideStep, Enqueue, StaffCancel, StaffRetry,
         Cleanup, Owner, SetCommunication, QueueGoodbye, DeleteAccount,
         DeletionFails, vars, TypeOK
    <3>2. CASE box[m].status \in {"none", "pending"}
      <4>1. Balanced(m)'
        BY <2>1, <3>1, <3>2 DEF ReceivedOK, Balanced
      <4>. QED  BY <1>1, <4>1, BalancedOK
    <3>3. CASE box'[m] = box[m]
      BY <2>1, <3>1, <3>3, Unconcerned
    <3>4. CASE box'[m].status = "gone"
      BY <1>1, <2>1, <3>1, <3>4 DEF ReceivedOK, Balanced, InFlight
    <3>. QED  BY <1>9, <2>3, <3>2, <3>3, <3>4, RowOutside
  <2>. QED  BY <2>2, <2>3
<1>. QED  BY <1>2, <1>3, <1>4, <1>5, <1>6, <1>7, <1>8, <1>9, DeliverCounts
     DEF Next, Work, OutsideStep

\* Nobody receives a message twice, for any number of workers, messages,
\* crashes and lost answers: see EmailOutbox for the excuses.
THEOREM SentOnceHolds == Spec => []SentOnce
<1>1. Init => ReceivedInv
  <2>1. ASSUME Init, NEW m \in Emails
        PROVE  received[m] = 0 /\ excused[m] = 0 /\ requeues[m] = 0
    BY <2>1 DEF Init
  <2>. QED  BY <2>1 DEF ReceivedInv, ReceivedOK, Balanced
<1>2. BatchInv /\ BatchInv' /\ ReceivedInv /\ [Next]_vars => ReceivedInv'
  BY ReceivedStep DEF ReceivedInv
<1>3. ReceivedInv => SentOnce
  BY DEF ReceivedInv, ReceivedOK, SentOnce
<1>. QED  BY <1>1, <1>2, <1>3, BatchInvariant, PTL DEF Spec

-----------------------------------------------------------------------------
\* The steps of a batch settle a message's row only by recording an outcome.
LEMMA RowRecorded ==
    ASSUME TypeOK, NEW w \in Workers, NEW m \in Emails,
           Deliver(w, m) \/ LoseOutcome(w, m)
    PROVE  \/ box'[m] = box[m] \/ box'[m].status = "pending"
           \/ \E status \in Settled, clear \in {TRUE, Sensitive(m)} :
                 box'[m] = Recorded(box[m], status, clear)
<1>1. box \in [Emails -> Rows]
  BY DEF TypeOK
<1>2. ASSUME NEW status \in Settled, NEW clear \in {TRUE, Sensitive(m)},
             Finish(w, m, status, clear)
      PROVE  \/ box'[m] = box[m]
             \/ box'[m] = Recorded(box[m], status, clear)
  BY <1>1, <1>2 DEF Finish
<1>3. CASE Retry(w, m)
  <2>1. box' = box \/ \E r \in Nat : box' =
             [box EXCEPT ![m] = [@ EXCEPT !.status = "pending", !.held = 0,
                                          !.wait = Backoff(worker[w].flight[m].attempts)]]
    BY <1>3 DEF Retry
  <2>. QED  BY <1>1, <2>1 DEF Rows
<1>4. CASE Send(w, m) \/ LoseOutcome(w, m)
  BY <1>4 DEF Send, LoseOutcome
<1>5. CASE Malformed(w, m)
  BY <1>2, <1>5 DEF Malformed, Settled
<1>6. CASE Skip(w, m)
  BY <1>2, <1>6 DEF Skip, Settled
<1>7. CASE Sent(w, m)
  BY <1>2, <1>7 DEF Sent, Settled
<1>8. CASE GiveUp(w, m)
  BY <1>2, <1>8 DEF GiveUp, Settled
<1>. QED  BY <1>3, <1>4, <1>5, <1>6, <1>7, <1>8 DEF Deliver

\* What a step makes of a row: nothing, a message to send, none at all, a
\* recorded or a canceled message, or an older one.
LEMMA RowStep ==
    ASSUME BatchInv, [Next]_vars, NEW m \in Emails
    PROVE  \/ box'[m] = box[m]
           \/ box'[m].status \in {"pending", "sending", "gone"}
           \/ \E w \in Workers, status \in Settled,
                 clear \in {TRUE, Sensitive(m)} :
                 InFlight(w, m) /\ box'[m] = Recorded(box[m], status, clear)
           \/ box'[m] = [Wiped(m, box[m]) EXCEPT !.status = "skipped", !.age = 0]
           \/ /\ box'[m].status = box[m].status
              /\ box'[m].payload = box[m].payload
              /\ box[m].status \in Settled =>
                    box'[m].age = Older(box[m].age, Hour)
<1>1. TypeOK /\ box \in [Emails -> Rows] /\ box[m] \in Rows
      /\ NewRow.status = "pending" /\ Gone.status = "gone"
  BY DEF BatchInv, TypeOK, NewRow, Gone, NoRow
<1>2. ASSUME NEW w \in Workers, NEW n \in Emails,
             Deliver(w, n) \/ LoseOutcome(w, n)
      PROVE  \/ box'[m] = box[m] \/ box'[m].status = "pending"
             \/ \E status \in Settled, clear \in {TRUE, Sensitive(m)} :
                   InFlight(w, m) /\ box'[m] = Recorded(box[m], status, clear)
  <2>1. InFlight(w, n) /\ (n # m => box'[m] = box[m])
    BY <1>1, <1>2, RowOfFlight
  <2>. QED  BY <1>1, <1>2, <2>1, RowRecorded
<1>3. ASSUME NEW w \in Workers, Sweep(w)
      PROVE  box'[m] = box[m] \/ box'[m].status = "pending"
  <2>1. box'[m] = Unlocked(box[m])
    BY <1>3 DEF Sweep
  <2>. QED  BY <1>1, <2>1 DEF Unlocked, Rows
<1>4. ASSUME NEW w \in Workers, Claim(w)
      PROVE  box'[m] = box[m] \/ box'[m].status = "sending"
  BY <1>1, <1>4, ClaimTakes
<1>5. ASSUME NEW w \in Workers, Count(w) \/ EndBatch(w) \/ Crash(w)
      PROVE  box'[m] = box[m]
  BY <1>5 DEF Count, EndBatch, Crash
<1>6. CASE Tick
  <2>1. box'[m] = [box[m] EXCEPT !.wait = IF @ > 0 THEN @ - 1 ELSE 0,
                     !.held = IF box[m].status = "sending"
                              THEN Older(@, Stale) ELSE 0,
                     !.age = IF box[m].status \in Settled
                             THEN Older(@, Hour) ELSE 0]
    BY <1>6 DEF Tick
  <2>2. /\ box'[m].status = box[m].status /\ box'[m].payload = box[m].payload
        /\ box'[m].age = IF box[m].status \in Settled
                         THEN Older(box[m].age, Hour) ELSE 0
    BY <1>1, <2>1 DEF Rows
  <2>. QED  BY <2>2
<1>7. ASSUME NEW n \in Emails,
             Enqueue(n) \/ StaffCancel(n) \/ StaffRetry(n) \/ Cleanup(n)
      PROVE  \/ box'[m] = box[m] \/ box'[m].status \in {"pending", "gone"}
             \/ box'[m] = [Wiped(m, box[m]) EXCEPT !.status = "skipped",
                                                  !.age = 0]
  <2>1. CASE n # m
    <3>1. \E r : box' = [box EXCEPT ![n] = r]
      BY <1>7 DEF Enqueue, StaffCancel, StaffRetry, Cleanup
    <3>. QED  BY <1>1, <2>1, <3>1
  <2>2. CASE n = m /\ (Enqueue(m) \/ Cleanup(m))
    BY <1>1, <2>2 DEF Enqueue, Cleanup
  <2>3. CASE n = m /\ StaffCancel(m)
    BY <1>1, <2>3 DEF StaffCancel
  <2>4. CASE n = m /\ StaffRetry(m)
    <3>1. box'[m] = [box[m] EXCEPT !.status = "pending", !.attempts = 0,
                                   !.wait = 0, !.held = 0]
      BY <1>1, <2>4 DEF StaffRetry
    <3>. QED  BY <1>1, <3>1 DEF Rows
  <2>. QED  BY <1>7, <2>1, <2>2, <2>3, <2>4
<1>8. CASE Owner \/ UNCHANGED vars
  BY <1>1, <1>8 DEF Owner, SetCommunication, QueueGoodbye, DeleteAccount,
     DeletionFails, vars
<1>. QED  BY <1>2, <1>3, <1>4, <1>5, <1>6, <1>7, <1>8 DEF Next, Work

\* No one-time code is kept in a message that is settled, whoever settles
\* it and in whichever order: the worker, staff, or nobody.
THEOREM NoSecretHolds == Spec => []NoSecretKept
<1>1. Init => NoSecretKept
  BY DEF Init, NoSecretKept, NoRow, Settled
<1>2. BatchInv /\ NoSecretKept /\ [Next]_vars => NoSecretKept'
  <2>. SUFFICES ASSUME BatchInv, NoSecretKept, [Next]_vars, NEW m \in Emails,
                       Sensitive(m), box'[m].status \in Settled
                PROVE  ~box'[m].payload
    BY DEF NoSecretKept, Sensitive
  <2>1. box[m] \in Rows /\ (box[m].status \in Settled => ~box[m].payload)
    BY DEF BatchInv, TypeOK, NoSecretKept
  <2>2. ASSUME NEW status \in Settled, NEW clear \in {TRUE, Sensitive(m)},
               box'[m] = Recorded(box[m], status, clear)
        PROVE  ~box'[m].payload
    <3>1. box'[m].payload = (box[m].payload /\ ~clear)
      BY <2>1, <2>2 DEF Recorded, Rows
    <3>. QED  BY <3>1
  <2>3. CASE box'[m] = [Wiped(m, box[m]) EXCEPT !.status = "skipped", !.age = 0]
    <3>1. box'[m].payload = (box[m].payload /\ ~Sensitive(m))
      BY <2>1, <2>3 DEF Wiped, Rows
    <3>. QED  BY <3>1
  <2>4. box'[m].status \notin {"pending", "sending", "gone"}
    BY DEF Settled
  <2>. QED  BY <2>1, <2>2, <2>3, <2>4, RowStep
<1>. QED  BY <1>1, <1>2, BatchInvariant, PTL DEF Spec

-----------------------------------------------------------------------------
(* The hourly cap.  A worker that counted below it, and has not claimed    *)
(* yet, may still claim a batch; one that claimed has what is left of it.  *)

\* The bulk messages in the batches of the workers of V.
BulkInFlight(V) == {m \in Bulk : \E w \in V : InFlight(w, m)}

\* Those that may still claim.
Claimers == {w \in Workers : worker[w].pc = "claim" /\ ~worker[w].capped}

\* No workers hold more than their batches.
LoadInv ==
    \A V \in SUBSET Workers :
       Cardinality(BulkInFlight(V)) <= Batch * Cardinality(V)

\* What was sent, what is about to be sent, and what may still be claimed.
Bound ==
    Cardinality(SentLastHour \cup BulkInFlight(Workers))
      + Batch * Cardinality(Claimers)
      <= Cap - 1 + Batch * Cardinality(Workers)

CapInv == LoadInv /\ Bound

\* Sets of messages and of workers are finite.
LEMMA SmallSets ==
    /\ \A V \in SUBSET Workers : IsFiniteSet(V) /\ Cardinality(V) \in Nat
    /\ \A M \in SUBSET Emails : IsFiniteSet(M) /\ Cardinality(M) \in Nat
    /\ \A V \in SUBSET Workers :
          \A U \in SUBSET V : Cardinality(U) <= Cardinality(V)
    /\ \A M \in SUBSET Emails :
          \A N \in SUBSET M : Cardinality(N) <= Cardinality(M)
<1>1. /\ \A V \in SUBSET Workers : IsFiniteSet(V)
      /\ \A M \in SUBSET Emails : IsFiniteSet(M)
  BY Finite, FS_Subset
<1>2. \A S : IsFiniteSet(S) => Cardinality(S) \in Nat
  BY FS_CardinalityType
<1>3. \A S, T : IsFiniteSet(S) /\ T \in SUBSET S => Cardinality(T) <= Cardinality(S)
  BY FS_Subset
<1>. QED  BY <1>1, <1>2, <1>3

\* A union has at most as many members as its parts.
LEMMA UnionBound ==
    ASSUME NEW M \in SUBSET Emails, NEW N \in SUBSET Emails
    PROVE  Cardinality(M \cup N) <= Cardinality(M) + Cardinality(N)
<1>1. IsFiniteSet(M) /\ IsFiniteSet(N) /\ IsFiniteSet(M \cap N)
  BY SmallSets, FS_Intersection
<1>2. Cardinality(M \cup N)
        = Cardinality(M) + Cardinality(N) - Cardinality(M \cap N)
  BY <1>1, FS_Union
<1>3. /\ Cardinality(M) \in Nat /\ Cardinality(N) \in Nat
      /\ Cardinality(M \cap N) \in Nat
  BY <1>1, FS_CardinalityType
<1>. QED  BY <1>2, <1>3

\* Multiples of a batch.
LEMMA BatchTimes ==
    ASSUME NEW a \in Nat, NEW b \in Nat, a <= b
    PROVE  /\ Batch * a \in Nat /\ Batch * a <= Batch * b
           /\ Batch * (b - a) = Batch * b - Batch * a
           /\ Batch * (a + 1) = Batch * a + Batch
<1>1. Batch \in Nat
  BY Limits
<1>2. PICK d \in Nat : b = a + d
  <2>1. b - a \in Nat /\ b = a + (b - a)
    OBVIOUS
  <2>. QED  BY <2>1
<1>3. Batch * b = Batch * a + Batch * d
  BY <1>1, <1>2
<1>4. Batch * a \in Nat /\ Batch * d \in Nat
  BY <1>1
<1>. QED  BY <1>1, <1>2, <1>3, <1>4

\* Steps after which no more is sent, in flight or to be claimed.
LEMMA CapShrinks ==
    ASSUME CapInv, \A V \in SUBSET Workers : BulkInFlight(V)' \subseteq BulkInFlight(V),
           SentLastHour' \subseteq SentLastHour \cup BulkInFlight(Workers),
           Claimers' \subseteq Claimers
    PROVE  CapInv'
<1>1. ASSUME NEW V \in SUBSET Workers
      PROVE  Cardinality(BulkInFlight(V)') <= Batch * Cardinality(V)
  <2>1. BulkInFlight(V) \in SUBSET Emails
    BY DEF BulkInFlight, Emails
  <2>2. BulkInFlight(V)' \in SUBSET BulkInFlight(V)
    OBVIOUS
  <2>3. /\ Cardinality(BulkInFlight(V)') <= Cardinality(BulkInFlight(V))
        /\ Cardinality(BulkInFlight(V)') \in Nat
        /\ Cardinality(BulkInFlight(V)) \in Nat
    <3>1. BulkInFlight(V)' \in SUBSET Emails
      BY <2>1, <2>2
    <3>. QED  BY <2>1, <2>2, <3>1, SmallSets
  <2>4. Batch * Cardinality(V) \in Nat
    BY SmallSets, BatchTimes
  <2>. QED  BY <2>3, <2>4 DEF CapInv, LoadInv
<1>2. Bound'
  <2>. DEFINE X == SentLastHour \cup BulkInFlight(Workers)
              c == Cardinality(Claimers)
  <2>1. X \in SUBSET Emails /\ X' \in SUBSET X /\ Claimers \in SUBSET Workers
    BY DEF SentLastHour, BulkInFlight, Emails, Claimers
  <2>2. X' \in SUBSET Emails /\ Claimers' \in SUBSET Workers
    BY <2>1
  <2>3. /\ Cardinality(X') <= Cardinality(X) /\ Cardinality(X') \in Nat
        /\ Cardinality(X) \in Nat
    BY <2>1, <2>2, SmallSets
  <2>4. c \in Nat /\ c' \in Nat /\ c' <= c
    BY <2>1, <2>2, SmallSets
  <2>5. Batch * c' <= Batch * c /\ Batch * c' \in Nat /\ Batch * c \in Nat
    BY <2>4, BatchTimes
  <2>6. Batch * Cardinality(Workers) \in Nat
    BY SmallSets, BatchTimes
  <2>7. Cardinality(X) + Batch * c <= Cap - 1 + Batch * Cardinality(Workers)
    BY DEF CapInv, Bound
  <2>8. Cardinality(X') + Batch * c' <= Cap - 1 + Batch * Cardinality(Workers)
    BY <2>3, <2>5, <2>6, <2>7, Limits
  <2>. QED  BY <2>8 DEF Bound
<1>. QED  BY <1>1, <1>2 DEF CapInv, LoadInv

\* What was sent in the last hour was so before, or was in a batch.
LEMMA SentFrom ==
    ASSUME BatchInv, [Next]_vars
    PROVE  SentLastHour' \subseteq SentLastHour \cup BulkInFlight(Workers)
<1>. SUFFICES ASSUME NEW m \in Bulk, box'[m].status = "sent",
                     box'[m].age < Hour
              PROVE  m \in SentLastHour \cup BulkInFlight(Workers)
  BY DEF SentLastHour
<1>1. m \in Emails /\ box[m] \in Rows /\ box[m].age \in Nat
  BY DEF BatchInv, TypeOK, Rows, Emails
<1>2. CASE box'[m] = box[m]
  BY <1>2 DEF SentLastHour
<1>3. ASSUME NEW w \in Workers, InFlight(w, m)
      PROVE  m \in BulkInFlight(Workers)
  BY <1>3 DEF BulkInFlight
<1>4. CASE box'[m] = [Wiped(m, box[m]) EXCEPT !.status = "skipped", !.age = 0]
  <2>1. box'[m].status = "skipped"
    BY <1>1, <1>4 DEF Wiped, Rows
  <2>. QED  BY <2>1
<1>5. CASE /\ box'[m].status = box[m].status
           /\ box[m].status \in Settled => box'[m].age = Older(box[m].age, Hour)
  BY <1>1, <1>5, Limits DEF Settled, Older, SentLastHour
<1>. QED  BY <1>1, <1>2, <1>3, <1>4, <1>5, RowStep

\* Every step stays within the bound.
LEMMA CapStep ==
    ASSUME BatchInv, CapInv, [Next]_vars
    PROVE  CapInv'
<1>1. TypeOK /\ worker \in [Workers -> Batches]
  BY DEF BatchInv, TypeOK
<1>2. ASSUME \A w \in Workers : ~Claim(w), NEW V \in SUBSET Workers
      PROVE  BulkInFlight(V)' \subseteq BulkInFlight(V)
  BY <1>2, FlightFrom DEF BulkInFlight, Emails
<1>3. ASSUME NEW w \in Workers, Count(w), ~CapReached
      PROVE  CapInv'
  <2>. DEFINE c == Cardinality(Claimers)
              n == Cardinality(Workers)
              F == BulkInFlight(Workers)
  <2>1. /\ worker'[w].pc = "claim" /\ worker'[w].capped = FALSE
        /\ worker[w].pc = "count" /\ UNCHANGED box
        /\ \A v \in Workers \ {w} : worker'[v] = worker[v]
    BY <1>1, <1>3 DEF Count, Batches
  <2>2. \A V \in SUBSET Workers : BulkInFlight(V)' \subseteq BulkInFlight(V)
    <3>1. ASSUME NEW u \in Workers
          PROVE  ~Claim(u)
      <4>1. Claim(u) => worker[u].pc = "claim" /\ worker'[u].pc = "deliver"
        BY <1>1, ClaimTakes DEF Claim
      <4>. QED  BY <2>1, <4>1
    <3>. QED  BY <1>2, <3>1
  <2>3. /\ Claimers' = Claimers \cup {w} /\ w \notin Claimers
        /\ Claimers \in SUBSET Workers /\ Claimers' \in SUBSET Workers
    BY <2>1 DEF Claimers
  <2>4. c \in Nat /\ n \in Nat /\ c' = c + 1 /\ c' <= n
    <3>1. IsFiniteSet(Claimers) /\ c \in Nat /\ n \in Nat
      BY <2>3, SmallSets
    <3>2. c' = c + 1
      BY <2>3, <3>1, FS_AddElement
    <3>3. c' <= n
      BY <2>3, SmallSets
    <3>. QED  BY <3>1, <3>2, <3>3
  \* The workers that may claim have nothing in flight; the others have no
  \* more than a batch each.
  <2>5. Cardinality(F) <= Batch * (n - c')
    <3>. DEFINE R == Workers \ Claimers'
    <3>1. F = BulkInFlight(R)
      <4>1. ASSUME NEW u \in Claimers', NEW m \in Emails
            PROVE  ~InFlight(u, m)
        <5>1. u \in Workers /\ worker[u].pc # "deliver"
          BY <2>1, <2>3 DEF Claimers
        <5>. QED  BY <5>1 DEF BatchInv, FlightInv, FlightOK
      <4>. QED  BY <4>1 DEF BulkInFlight, Emails
    <3>2. Cardinality(R) = n - c'
      <4>1. IsFiniteSet(Workers) /\ Workers \cap Claimers' = Claimers'
        BY <2>3, Finite
      <4>. QED  BY <4>1, FS_Difference
    <3>3. R \in SUBSET Workers
      OBVIOUS
    <3>. QED  BY <3>1, <3>2, <3>3 DEF CapInv, LoadInv
  <2>6. Cardinality(SentLastHour) <= Cap - 1 /\ Cardinality(SentLastHour) \in Nat
    <3>1. SentLastHour \in SUBSET Emails
      BY DEF SentLastHour, Emails
    <3>2. Cardinality(SentLastHour) \in Nat
      BY <3>1, SmallSets
    <3>. QED  BY <1>3, <3>2, Limits DEF CapReached
  <2>7. /\ Cardinality(SentLastHour \cup F) <= Cardinality(SentLastHour) + Cardinality(F)
        /\ Cardinality(F) \in Nat /\ Cardinality(SentLastHour \cup F) \in Nat
    <3>1. /\ SentLastHour \in SUBSET Emails /\ F \in SUBSET Emails
          /\ SentLastHour \cup F \in SUBSET Emails
      BY DEF SentLastHour, BulkInFlight, Emails
    <3>. QED  BY <3>1, SmallSets, UnionBound
  <2>8. /\ Batch * (n - c') = Batch * n - Batch * c'
        /\ Batch * n \in Nat /\ Batch * c' \in Nat
    BY <2>4, BatchTimes
  <2>9. Cardinality(SentLastHour \cup F) + Batch * c' <= Cap - 1 + Batch * n
    BY <2>5, <2>6, <2>7, <2>8, Limits
  <2>10. SentLastHour' = SentLastHour
    BY <2>1 DEF SentLastHour
  <2>11. F' = F
    <3>1. ASSUME NEW u \in Workers
          PROVE  worker'[u].flight = worker[u].flight
      BY <1>1, <1>3 DEF Count, Batches
    <3>. QED  BY <3>1 DEF BulkInFlight, InFlight
  <2>12. Bound'
    BY <2>9, <2>10, <2>11 DEF Bound
  <2>13. LoadInv'
    <3>1. ASSUME NEW u \in Workers
          PROVE  worker'[u].flight = worker[u].flight
      BY <1>1, <1>3 DEF Count, Batches
    <3>2. ASSUME NEW V \in SUBSET Workers
          PROVE  BulkInFlight(V)' = BulkInFlight(V)
      BY <3>1 DEF BulkInFlight, InFlight
    <3>. QED  BY <3>2 DEF CapInv, LoadInv
  <2>. QED  BY <2>12, <2>13 DEF CapInv
<1>4. ASSUME NEW w \in Workers, Claim(w)
      PROVE  CapInv'
  <2>1. PICK S \in SUBSET Due(w) :
          /\ Cardinality(S) <= Batch
          /\ \A m \in Emails \ S : worker'[w].flight[m] = NoFlight
          /\ worker'[w].pc = "deliver" /\ worker'[w].capped = worker[w].capped
          /\ \A v \in Workers \ {w} : worker'[v] = worker[v]
    BY <1>1, <1>4, ClaimTakes
  <2>. DEFINE B == S \cap Bulk
  <2>2. /\ B \in SUBSET Emails /\ Cardinality(B) <= Batch
        /\ Cardinality(B) \in Nat
    <3>1. S \in SUBSET Emails /\ B \in SUBSET S
      BY DEF Due
    <3>2. Cardinality(B) <= Cardinality(S) /\ Cardinality(S) \in Nat
      BY <3>1, SmallSets
    <3>. QED  BY <2>1, <3>1, <3>2, SmallSets, Limits
  <2>3. ASSUME NEW V \in SUBSET Workers
        PROVE  /\ BulkInFlight(V)' \subseteq BulkInFlight(V \ {w}) \cup B
               /\ w \notin V => BulkInFlight(V)' \subseteq BulkInFlight(V)
    BY <2>1 DEF BulkInFlight, InFlight, NoFlight, Emails
  <2>4. LoadInv'
    <3>1. ASSUME NEW V \in SUBSET Workers
          PROVE  Cardinality(BulkInFlight(V)') <= Batch * Cardinality(V)
      <4>. DEFINE U == V \ {w}
      <4>1. /\ U \in SUBSET Workers
            /\ BulkInFlight(U) \in SUBSET Emails /\ BulkInFlight(V) \in SUBSET Emails
            /\ BulkInFlight(U) \cup B \in SUBSET Emails
            /\ BulkInFlight(V)' \in SUBSET Emails
        BY <2>2 DEF BulkInFlight, Emails
      <4>2. /\ Cardinality(BulkInFlight(U)) <= Batch * Cardinality(U)
            /\ Cardinality(BulkInFlight(V)) <= Batch * Cardinality(V)
        BY <4>1 DEF CapInv, LoadInv
      <4>3. /\ Cardinality(BulkInFlight(U)) \in Nat
            /\ Cardinality(BulkInFlight(V)) \in Nat
            /\ Cardinality(BulkInFlight(V)') \in Nat
            /\ Cardinality(BulkInFlight(U) \cup B) \in Nat
            /\ Cardinality(V) \in Nat /\ Cardinality(U) \in Nat
        BY <4>1, SmallSets
      <4>4. CASE w \in V
        <5>1. Cardinality(V) = Cardinality(U) + 1
          <6>1. IsFiniteSet(V)
            BY SmallSets
          <6>2. Cardinality(U) = Cardinality(V) - 1
            BY <4>4, <6>1, FS_RemoveElement
          <6>. QED  BY <4>3, <6>2
        <5>2. Batch * Cardinality(V) = Batch * Cardinality(U) + Batch
              /\ Batch * Cardinality(U) \in Nat
          BY <4>3, <5>1, BatchTimes
        <5>3. Cardinality(BulkInFlight(V)') <= Cardinality(BulkInFlight(U) \cup B)
          BY <2>3, <4>1, SmallSets
        <5>4. Cardinality(BulkInFlight(U) \cup B)
                <= Cardinality(BulkInFlight(U)) + Cardinality(B)
          BY <2>2, <4>1, UnionBound
        <5>. QED  BY <2>2, <4>2, <4>3, <5>2, <5>3, <5>4, Limits
      <4>5. CASE w \notin V
        <5>1. Cardinality(BulkInFlight(V)') <= Cardinality(BulkInFlight(V))
          BY <2>3, <4>1, <4>5, SmallSets
        <5>2. Batch * Cardinality(V) \in Nat
          BY <4>3, BatchTimes
        <5>. QED  BY <4>2, <4>3, <5>1, <5>2
      <4>. QED  BY <4>4, <4>5
    <3>. QED  BY <3>1 DEF LoadInv
  <2>5. CASE worker[w].capped
    <3>1. B = {}
      BY <2>5 DEF Due, Priority
    <3>2. \A V \in SUBSET Workers : BulkInFlight(V)' \subseteq BulkInFlight(V)
      BY <2>3, <3>1 DEF BulkInFlight
    <3>3. Claimers' \subseteq Claimers
      BY <2>1 DEF Claimers
    <3>. QED  BY <3>2, <3>3, SentFrom, CapShrinks
  <2>6. CASE ~worker[w].capped
    <3>. DEFINE X == SentLastHour \cup BulkInFlight(Workers)
                c == Cardinality(Claimers)
    <3>1. /\ X \in SUBSET Emails /\ X \cup B \in SUBSET Emails
          /\ Claimers \in SUBSET Workers
      BY <2>2 DEF SentLastHour, BulkInFlight, Emails, Claimers
    <3>2. X' \in SUBSET (X \cup B)
      BY <2>3, SentFrom DEF BulkInFlight
    <3>3. Claimers' = Claimers \ {w} /\ w \in Claimers
      BY <1>4, <2>1, <2>6 DEF Claimers, Claim
    <3>4. c \in Nat /\ c' \in Nat /\ c = c' + 1
      <4>1. IsFiniteSet(Claimers) /\ c \in Nat
        BY <3>1, SmallSets
      <4>2. c' = c - 1
        BY <3>3, <4>1, FS_RemoveElement
      <4>3. c' \in Nat
        BY <3>1, <3>3, SmallSets
      <4>. QED  BY <4>1, <4>2, <4>3
    <3>5. Batch * c = Batch * c' + Batch /\ Batch * c' \in Nat
      BY <3>4, BatchTimes
    <3>6. Cardinality(X') <= Cardinality(X \cup B)
      BY <3>1, <3>2, SmallSets
    <3>7. Cardinality(X \cup B) <= Cardinality(X) + Cardinality(B)
      BY <2>2, <3>1, UnionBound
    <3>8. /\ Cardinality(X) \in Nat /\ Cardinality(X') \in Nat
          /\ Cardinality(X \cup B) \in Nat
      <4>1. X' \in SUBSET Emails
        BY <3>1, <3>2
      <4>. QED  BY <3>1, <4>1, SmallSets
    <3>9. Batch * Cardinality(Workers) \in Nat
      BY SmallSets, BatchTimes
    <3>10. Cardinality(X) + Batch * c <= Cap - 1 + Batch * Cardinality(Workers)
      BY DEF CapInv, Bound
    <3>11. Cardinality(X') + Batch * c' <= Cap - 1 + Batch * Cardinality(Workers)
      BY <2>2, <3>5, <3>6, <3>7, <3>8, <3>9, <3>10, Limits
    <3>12. Bound'
      BY <3>11 DEF Bound
    <3>. QED  BY <2>4, <3>12 DEF CapInv
  <2>. QED  BY <2>5, <2>6
<1>5. CASE /\ \A w \in Workers : ~Claim(w)
           /\ \A w \in Workers : Count(w) => CapReached
  <2>1. ASSUME NEW v \in Workers, v \in Claimers'
        PROVE  v \in Claimers
    <3>1. worker'[v].pc = "claim" /\ ~worker'[v].capped
      BY <2>1 DEF Claimers
    <3>2. CASE worker'[v] = worker[v]
      BY <3>1, <3>2 DEF Claimers
    <3>3. CASE Tick
      <4>1. worker'[v] = [worker[v] EXCEPT !.age = IF Busy(v) THEN @ + 1 ELSE 0]
        BY <3>3 DEF Tick
      <4>2. worker'[v].pc = worker[v].pc /\ worker'[v].capped = worker[v].capped
        BY <1>1, <4>1 DEF Batches
      <4>. QED  BY <3>1, <4>2 DEF Claimers
    <3>4. ASSUME NEW w \in Workers, NEW m \in Emails,
                 Deliver(w, m) \/ LoseOutcome(w, m)
          PROVE  v \in Claimers
      <4>1. worker'[v].pc = worker[v].pc /\ worker'[v].capped = worker[v].capped
        BY <1>1, <3>4, WorkMoves DEF Moved
      <4>. QED  BY <3>1, <4>1 DEF Claimers
    <3>5. ASSUME NEW w \in Workers, Sweep(w) \/ EndBatch(w) \/ Crash(w)
          PROVE  worker'[v] = worker[v]
      <4>1. v # w => worker'[v] = worker[v]
        BY <1>1, <3>5 DEF Sweep, EndBatch, Crash
      <4>2. worker'[w].pc # "claim"
        BY <1>1, <3>5 DEF Sweep, EndBatch, Crash, NoBatch, Batches
      <4>. QED  BY <3>1, <4>1, <4>2
    <3>6. ASSUME NEW w \in Workers, Count(w)
          PROVE  worker'[v] = worker[v]
      <4>1. worker'[w].capped = CapReached
        BY <1>1, <3>6 DEF Count, Batches
      <4>2. v # w => worker'[v] = worker[v]
        BY <1>1, <3>6 DEF Count
      <4>. QED  BY <1>5, <3>1, <3>6, <4>1, <4>2
    <3>. QED  BY <1>5, <3>2, <3>3, <3>4, <3>5, <3>6, OthersLeaveBatches
         DEF Next, Work
  <2>2. Claimers' \subseteq Claimers
    BY <2>1 DEF Claimers
  <2>. QED  BY <1>2, <1>5, <2>2, SentFrom, CapShrinks
<1>. QED  BY <1>3, <1>4, <1>5

\* The hourly cap is overshot by at most a batch of each worker, for any
\* number of workers and messages, any cap and any size of batch.
THEOREM CapHolds == Spec => []CapHeld
<1>1. Init => CapInv
  <2>. SUFFICES ASSUME Init
                PROVE  CapInv
    OBVIOUS
  <2>1. \A V \in SUBSET Workers : BulkInFlight(V) = {}
    BY DEF Init, BulkInFlight, InFlight, NoBatch, NoFlight, Emails
  <2>2. SentLastHour = {} /\ Claimers = {}
    BY DEF Init, SentLastHour, Claimers, NoRow, NoBatch, Emails
  <2>3. Cardinality({}) = 0 /\ Batch * 0 = 0
    BY FS_EmptySet, Limits
  <2>4. \A V \in SUBSET Workers : Batch * Cardinality(V) \in Nat
    BY SmallSets, BatchTimes
  <2>5. LoadInv
    <3>1. ASSUME NEW V \in SUBSET Workers
          PROVE  Cardinality(BulkInFlight(V)) <= Batch * Cardinality(V)
      <4>1. Cardinality(BulkInFlight(V)) = 0 /\ Batch * Cardinality(V) \in Nat
        BY <2>1, <2>3, <2>4
      <4>. QED  BY <4>1
    <3>. QED  BY <3>1 DEF LoadInv
  <2>6. SentLastHour \cup BulkInFlight(Workers) = {}
    BY <2>1, <2>2
  <2>7. Bound
    <3>1. /\ Cardinality(SentLastHour \cup BulkInFlight(Workers)) = 0
          /\ Batch * Cardinality(Claimers) = 0
          /\ Batch * Cardinality(Workers) \in Nat
      BY <2>2, <2>3, <2>4, <2>6
    <3>. QED  BY <3>1, Limits DEF Bound
  <2>. QED  BY <2>5, <2>7 DEF CapInv
<1>2. BatchInv /\ CapInv /\ [Next]_vars => CapInv'
  BY CapStep
<1>3. CapInv => CapHeld
  <2>. SUFFICES ASSUME CapInv
                PROVE  CapHeld
    OBVIOUS
  <2>. DEFINE X == SentLastHour \cup BulkInFlight(Workers)
  <2>1. X \in SUBSET Emails /\ SentLastHour \in SUBSET X
        /\ Claimers \in SUBSET Workers /\ SentLastHour \in SUBSET Emails
    BY DEF SentLastHour, BulkInFlight, Emails, Claimers
  <2>2. /\ Cardinality(SentLastHour) <= Cardinality(X)
        /\ Cardinality(X) \in Nat /\ Cardinality(SentLastHour) \in Nat
        /\ Cardinality(Claimers) \in Nat /\ Cardinality(Workers) \in Nat
    BY <2>1, SmallSets
  <2>3. Batch * Cardinality(Claimers) \in Nat /\ Batch * Cardinality(Workers) \in Nat
    BY <2>2, BatchTimes
  <2>4. Cardinality(X) + Batch * Cardinality(Claimers)
          <= Cap - 1 + Batch * Cardinality(Workers)
    BY DEF CapInv, Bound
  <2>5. Batch * Cardinality(Workers) = Cardinality(Workers) * Batch
    BY <2>2, Limits
  <2>. QED  BY <2>2, <2>3, <2>4, <2>5, Limits DEF CapHeld
<1>. QED  BY <1>1, <1>2, <1>3, BatchInvariant, PTL DEF Spec

=============================================================================
