# A formal model of setlyst-api

TLA+ modules, TLC configurations and TLAPS proofs about `setlyst-api`, the
server of a setlist application: accounts, songs, setlists and bands, sold by
subscription. The code is Rust (axum, sqlx, PostgreSQL); all shared state is in
the database, several instances of the server may run, and there are two outside
parties whose answers matter: the payment provider (Stripe) and the mail server.

30 modules model the code, six instantiate them for TLC, `Workspace` puts fifteen of
them side by side, and eight hold proofs. What is proved is proved for any number of
accounts, requests, songs, subscriptions, and any limits.

- [Inventory](#inventory) of the system
- [Modules and how they follow the code](#modules)
- [What each run checks](#runs), with its bounds and its fairness
- [What is proved](#proofs), from what and how
- [Where the code and its own words differ](#findings)
- [What is left out](#limits), and [the plan](#plan)

Paths are relative to the repository; `PROJECT.json` maps every definition of a
module to the lines it stands for, and lists the hazards of the code at their
lines with the properties that guard against them.

## Inventory

| Component | State | Operations | What must hold | What is hard |
|---|---|---|---|---|
| Subscription mirror (`services/payments.rs`, `services/billing.rs`) | one row of `subscriptions` per account, `stripe_events`, replaced grants, withdrawals; the truth is at the provider | webhooks, daily and hourly reconciliation, duplicates, withdrawals, refunds, disputes, plan changes, staff grants and revocations | the row follows the provider and never goes back; an event recorded is an event applied; no second subscription keeps charging; nobody is refunded and still subscribed | transactions with provider calls in the middle; late, repeated, lost and reordered events; failure after a refund |
| Checkout and provider clean-up (`services/payments.rs`, `payments/stripe.rs`) | open pages, clean-up queue, customer link | open, expire, pay, clean up after a deleted account | at most one page can be paid; a customer is never forgotten while it lives | crash after the page exists and before it is on record; deletion during a checkout |
| Plans and prices (`controllers/billing.rs`, `payments/stripe.rs`) | plans, promotions, codes; products, prices, coupons at the provider | edit, buy, change, confirm, mirror | what is charged is what was shown; a change is charged once; the row says what is charged | calls lost on their way or back, idempotency keys, staff's edits in between |
| Credits, promo codes, referrals, trials (`services/billing.rs`) | balances, redemptions, rewards | redeem, reward, reverse, claim a trial | no code beyond its limit, one trial per mailbox, a reward reversed once | lock order, missed rewards |
| Finance ledger (`services/finance.rs`) | payments, refunds, disputes | events of the provider in any order, syncs | totals equal the provider's last word | reordering, running totals |
| E-mail outbox (`email/outbox.rs`, `email/worker.rs`) | `email_outbox`: status, attempts, lock, due time, variables | enqueue, claim, send, record, sweep, staff cancel and retry, clean-up | sent once, settled in the end, codes wiped, hourly cap | several workers, crash between send and record, stale locks |
| Codes, second factor, re-authentication (`services/account.rs`, `security_repository.rs`) | codes, attempt windows, day counters, challenges | ask, claim, check, release, use | guesses bounded even in parallel; used once | read before claim, release into a newer window |
| Sessions and locks (`controllers/auth.rs`, `middlewares/authentication.rs`) | token versions, failures per network and account | sign in, renew, sign out, ban | no session outlives a sign-out; guessing is held down | several statements, one failing |
| Accounts (`controllers/account.rs`, `user_repository.rs`) | addresses and their proof, usernames, ranks | prove, change, recover, rename, promote, delete, purge | an address verified was proven; a name given up is kept; an admin remains | everything read before it is written |
| Quotas (`services/entitlements.rs`) | counts per account and band | create, copy, import, restore under the quota locks | limits hold under parallel requests | count and insert; lock order |
| Setlists, collaborators (`setlist_repository.rs`, `setlist_collaborator_repository.rs`) | songs, held copies, positions, roles | contribute, leave, append, reorder, invite, promote | what was contributed stays; nobody shares a place; no answer reveals a row to who cannot open it | links broken by another's deletion; several queries decide one answer |
| Bands, members, invites, reminders (`band*_repository.rs`) | members, roles, permissions, invites, notes | invite, join, leave, hand over, re-rank, staff | an owner, limits, invites end with their maker's authority; one hierarchy; the page says what is allowed | joins in parallel, owner leaving; rules written in several places |
| Suggestions (`suggestion_repository.rs`) | offers, votes | offer, vote, accept, reject, withdraw | one outcome; accepted means added | each of three statements commits alone |
| Band copies (`song_repository.rs`) | a band's copies of members' songs | add, bring up to date, trash | one copy a song, versions joined, limit | read and written in several requests |
| Trash (`trash_repository.rs`) | trashed rows in batches | trash, restore, delete, purge | restore brings back what one deletion took; the limit; live songs spared | ids of a subquery, row locks |
| Public links (`public.rs`, `gig_repository.rs`) | tokens, locks by staff | share, take down, view | what is taken down is not shown | a view reads in several statements |
| Backups (`backup_repository.rs`) | a file, an import | export, import | what was not edited comes back | statements at several moments |
| Announcements (`jobs/announcements.rs`) | announcement, receipts | edit, publish, deliver, archive | told once, admins behind mail | staff and job deliver at once |
| Support requests (`support_repository.rs`) | tickets, messages | open, reply, assign, close | an unseen reply stays unread; closed stays closed | a ticket read before it is written |
| Tours and gigs, who sees what (`gig_repository.rs`, `tour_repository.rs` and the other tables' queries) | rows of a person or a band, a gig's setlist and tour | list, open, manage, export, trash | the queries agree; links of a gig stay in its band; a tour shows only what its reader opens | every table has its own SQL; checked before it is written |
| Pins (`pin_repository.rs`) | pins of an account and their order | pin, unpin, reorder | few, and each in a place of its own | a lock that unpinning does not take; pins of what is lost and found |
| The rest: notifications, notes, preferences, status, metrics, moderation, export, validation, routing | rows of one owner, caches, pure functions | edits, reads, formatting | field rules | little concurrency |

Components meet in four ways: **transactions** (a controller enqueues mail or
writes an audit line in the transaction of its change), **locks** (advisory
locks by name, `FOR UPDATE` on a row, and the row locks every `UPDATE` takes),
**provider calls** made inside a transaction, and **jobs** (`jobs/mod.rs`), each
a loop that starts a run every so often on every instance. The lock timeouts of
`database/connection.rs` (5 s for a lock, 15 s for a statement, 30 s idle in a
transaction) turn a wait that is too long into a failure of the request.

The unit of the models follows from this. PostgreSQL runs at READ COMMITTED, so
**one statement that commits by itself is one action**; a transaction that only
writes rows it has locked is one action as well; whatever is read before a lock
is taken, before a provider is called or in another request is a step of its
own, kept in the record of the request ("what each request is doing") and used
later although the world went on. A request may end at any step.

## Modules

Every module has one variable with what each request, job or transaction does
(`job`, `worker`, `tab`, `work`, `hand`, `clerk`, `helper`, `op`, ...), whose `pc`
says which statement comes next and whose other fields are what was read. The
names of actions are verbs; decisions on data are operators of their own with
the source's conditions, so that a property or a mutant can speak of them.

### SubscriptionMirror and MirrorPromise

One account, the subscriptions it ever buys, and everything that moves them.

| Variable | In the code |
|---|---|
| `prov` | what the provider answers for each subscription; `ver` counts its changes (a ghost) |
| `money` | the latest charge of each subscription, at the provider |
| `row` | the account's row of `subscriptions`; `row.ver` is the version of the snapshot it was last compared with (a ghost) |
| `replaced` | the staff grant a purchase replaced, kept in the subscription's history (`record_event`, read by `restore_complimentary_grant`) |
| `applied` | `stripe_events`: `<<s, v>>` is the event of change `v` of `s` |
| `withdrawn` | self-service withdrawals on record |
| `subLock` | the advisory lock of a subscription id (`lock_provider_subscription`) |
| `rowLock` | the row's `FOR UPDATE` lock (`lock_subscription`); it **locks nothing while there is no row** |
| `job` | the transaction of each worker: its operation, where it is (`pc`), the subscription, the snapshot it fetched, its event |

Every provider call is a step of its own, between which the provider and every
other worker may move; database work between two calls is one step, since it
commits or rolls back as a whole. `Fail(w)` aborts a job anywhere: locks and
database changes are lost, what the provider did stays. This covers crashes,
provider errors and lock timeouts.

| Actions | Code |
|---|---|
| `Webhook`, `Deliver`, `NewEvent`, `MirrorSeen` | delivery of an event, possibly late, repeated or never (`handle_webhook`, `mirror_in`) |
| `LockSub`, `LockFetch`, `AfterFetch` | the advisory lock, then the fetch under it |
| `MirrorApply`, `MirrorAbsent`, `InsertAbsent` | `apply_payment_subscription`, on a row that exists or not; absent and insert are two steps because nothing is locked between them |
| `MirrorDuplicate`, `DupFetch`, `DupCancel`, `DupRefund`, `DupCommit`, `DupReplace` | `resolve_duplicate`, `cancel_duplicate` |
| `Sweep`, `InSync`, `CancelMissing` | the daily walk over the provider's subscriptions |
| `ReconcileDue`, `GraceCancel`, `Lapse`, `ExpireGrant` | the hourly job: period over, payment grace over, grants that end |
| `Withdraw`, `Recheck`, `WithdrawRefund`, `WithdrawCancel`, `WithdrawEnd` | `refund_and_end` for customers and staff |
| `ChargeEvent`, `EventCancel`, `EventEnd` | a refunded or disputed charge |
| `ChangePlan`, `ChangePrice` | a change of plan in the app |
| `Revoke`, `RevokeCancel`, `RevokeRow` | `revoke_subscription` by staff |
| `Grant`, `GrantAbsent`, `GrantInsert` | staff grants and trials |
| `Buy`, `ChargeSucceeds`, `ChargeFails`, `GivesUp`, `PortalChange`, `ChargeReversed`, `Forgets` | the provider: external, modelled from what the code handles |

**MirrorPromise** is the abstract specification: something is shown, in some
state the provider really had; it never goes back to an older state of what it
shows; an event is marked as handled only when what is shown is at least as new.
It knows nothing of locks, jobs or failures. `SubscriptionMirror` implements it
under the mapping `latest <- versions of prov`, `shown <- row`,
`handled <- applied` (`KeepsPromise`), checked by TLC and proved.

### Checkout, PlanSales, Credits, FinanceLedger

What surrounds a subscription; `MCBilling` runs the four side by side, one in
each behaviour (`part`).

- **Checkout**: tabs that ask for a page (`tab`), the account's row with its
  customer and the generation it was created under (`owner`), customers and pages
  at the provider, `checkout_sessions`, the checkout lock, the deletion of the
  account (`leaving`) and the `stripe_cleanup_queue`. The steps of
  `start_checkout` are `AskPage`, `CreateCustomer`, `StoreCustomer`, `AskProvider`,
  `ClearCustomer`/`ReloadAccount`, `LockCheckout`, `ExpirePages`, `CreatePage`,
  `CommitPage`; any of them may be the last (`FailCheckout`). Pages and customers
  are named by their idempotency keys (attempt and price; generation), which is
  what makes a repeated call return the same page.
- **PlanSales**: the plan, its promotion and the buyer's code (`plan`, `promotion`,
  `code`), which staff edit by reading and writing whole rows (`ReadPlan`,
  `WritePlan`); what exists at the provider (`store`) and which idempotency keys it
  has seen (`replay`); and requests that buy (`AskToBuy`, `FindPrice`,
  `MakeProduct`, `MakePrice`, `MakeCoupon`, `OpenPage`) or change (`AskToChange`,
  `LockPaid`, `FindPrice`, `ChangePrice`, `HearAnswer`). Each call is answered, done
  without an answer, or not done (`Fates`), and repeated once (`Lost`). `paid.at` is
  the price the provider charges, `paid.row` the one the account is shown.
- **Credits**: the ledger's balances, one referrer with referred accounts,
  their payments (`invoice`), the promo code, the locks (`held`), workers and what
  each holds (`work`). `TakeLock` follows the order of the code (`LockOrder`); the
  `Commit...` actions are what each operation writes once it holds its locks.
- **FinanceLedger**: one payment's row, the provider's refunds and dispute, the
  events it sends, and handlers (`Receive`, `ApplyEvent`, `ListRefunds`,
  `StoreRefunds`, `ImportInvoice`, `StartSync`); events come in any order, again
  (`MaxReplays`) and after failures (`FailHandler`).

### EmailOutbox

The rows of `email_outbox` (`box`), the batch each worker is in (`worker`), the
recipient's account and preference, and two ghosts: how often each message was
received, and how often it may have been received more than was recorded because
an answer of the mail server or the record of a send was lost (`excused`).

A batch is three statements (`Sweep`, `Count`, `Claim`, each committed on its own)
and then, for every message claimed, in any order, `Malformed`, `Skip` or `Send`,
and `Sent`, `GiveUp` or `Retry` as its record. `LoseOutcome` is the database that
takes no record after three tries; `Crash` the instance that dies or the run
abandoned after `MAX_RUN`. Around it: `Enqueue`, `StaffCancel`, `StaffRetry`,
`SetCommunication`, `Cleanup`, and the deletion of the account with its goodbye
(`QueueGoodbye`, `DeleteAccount`, `DeletionFails`). Every write by `id` alone
happens whatever became of the row, as in the code.

Time is kept as ages (how long until due, how long locked, how long since
sent), so that the state space stays finite without a bound on the clock.
`Punctual` assumes that a batch is over before its locks are stale. The code does
not enforce it: 25 messages, four at a time, at a minute each take seven minutes
of the lock's ten, but waits behind the replacement of a stalled connection pool may
stretch that, and a run is abandoned only after fifteen minutes.

### What guards an account

`MCAccount` runs these side by side; `part` says which one a behaviour is of.
`Usernames` and `Admins` are instances there (`U`, `A`) and share the variables
`q1`..`q6`.

- **OneTimeCodes**: `codes` are the rows of `verification_codes`, `asked` the
  requests counted against the daily limits, `issuing` the advisory lock of
  `create_code`. `AskCode`, `IssueCode` (ask and issue under the lock), `CheckCode`,
  `ClaimAttempt`, `RecordFailure`, `ExhaustCode`, `UseCode`, `GiveBack` are the
  statements of `check_code` and of its callers, `VoidPending` a change of
  credentials.
- **Confirmations**: windows of failures per kind (`window`), the day's total
  (`total`); `Confirm`, `ClaimCheck`, `CheckRight` (which gives the claim back, into
  whatever window there is by then), `CheckWrong`, `SignOut`. The constants
  `...Needs` translate what each handler asks for.
- **SignIn**: `account` (token version, ban, secret, pending secret), `challenges`,
  `tokens`, the steps of `login`, `login_two_factor`, `refresh`, set-up and removal
  of the second factor, and everything that revokes (`Revoke`, `ChangePassword`,
  `ProveAddress`, `Ban`). Tokens carry the version they were issued under.
- **Lockout**: failures of one network and everywhere, the account's lock; the
  counting happens in background tasks (`CountNetwork`, `CountAccount`,
  `LockAccount`, each a statement) that may die (`LoseFailure`).
- **AccountEmail**: accounts with their addresses (`people`), live codes
  (`mailed`), `trial_claims` (`claims`), requests; registration, verification,
  change of address, recovery (with and without a first proof), Google sign-up,
  staff edits, deletion and purge.
- **Usernames**: names, when each was changed, `released_usernames`; the check, the
  cool-down, the write, each a statement (`AskName`, `CheckAgain`,
  `CheckCooldown`, `WriteName`).
- **Admins**: ranks, suspensions, deactivation, deletion; `guard_last_admin` locks
  the active admins (`Guard`), a suspension does not ask it (`WriteAct`).

### What people keep and share

`Workspace` puts fifteen modules side by side: each is an INSTANCE over the
variables `p1`..`p11`, of which a part uses the first few, and `part` says whose
they are in a behaviour. The parts share nothing but the kinds of their actors;
composing them as a disjunction keeps one run and one set of theorems, without
multiplying state spaces of parts that do not touch each other. `MCWorkspace`
gives the sizes.

- **Bands** (`B`): accounts, bands, `role` of each person in each band, invites,
  transactions. `BeginRedeem`/`Redeem`, `BeginCreate`/`InsertBand`, `AskTransfer`/
  `Transfer`, `RemoveMember`, `ChangeRole`, `DeleteBand`, staff's interventions; the
  deletion of an account is `ListOwned`, `PickHeir`, `PromoteHeir`,
  `DeleteAccount`, which lock only the rows they have updated.
- **Suggestions** (`G`): offers, votes, what requests do; `ClaimOffer`, `AddTune`,
  `ReopenOffer` commit one by one (`accept`), `RejectOffer`, `WithdrawOffer`,
  `CastVote` (which may accept), `LeaveBand`, `SugCrash`.
- **SharedSetlists** (`L`): collaborators and their roles, songs, links and held
  copies; `AddPiece`, `DropPiece`, `AdoptHeld`, the removals of a song, of an artist
  and of an account, in two steps each, which detach and then break links.
- **Trash** (`T`): rows with their place and batch, transactions with the rows
  they have locked; creation under the quota lock, trashing, restoring, deletion,
  emptying and the purge, statement by statement.
- **RunningOrder** (`R`): positions of songs and markers in a setlist and in the
  repertoire; appending under the lock of the setlist's row, reordering without it,
  the trash.
- **Sharing** (`S`): links, take-downs, the bin, whose plan includes sharing; a
  request that shares (`AskShare`, `ReadLock`, `WriteToken`, `AnswerShare`), a visit
  (`Follow`, `CheckPlan`, `ReadSetlist`, `EndVisit`), staff, and the background job
  that clears links of an account without a plan.
- **BandCopies** (`C`): originals and their versions, the band's copies; `FindFork`,
  `BeginFork`, `InsertFork`, `CommitFork`, `RefreshCopy`, `SyncCopy`, edits and trash.
- **Announcements** (`N`): the announcement, requests of staff and runs of the
  job, how often each user was told, receipts; `ClaimDelivery` and `Tell` are one
  transaction that keeps the row locked, everything else reads and writes apart.
- **SupportTickets** (`H`): the rows of tickets, requests of the user and of staff;
  `LockTicket` and `AddMessage` are one transaction, `LoadTicket`, `MarkRead`,
  `ShowMessages` three statements of a page, `CloseStale` the daily job.
- **Backups** (`K`): the library exported, what has been read of it, the edits made
  meanwhile, the account the file is imported into; `ReadSome` reads what the first
  statements read at once, `ReadLinks` the rest.
- **Library** (`Y`): counts of songs, artists and setlists, the quota locks, and the
  operations that take several of them (`CopySong`, `Duplicate`, `ImportAll`).
- **Access** and **Agenda** (`D`, which extends it): things of five kinds with the person
  or band they belong to (`row`, `KindOf`, `HomeOf`), who is in which band and may do
  what there (`member`, `allowed`), collaborators (`guests`), and one operator for each
  query about them: what opens a row (`Find...`, `...Exists`), what lists it
  (`...Of`, `Band...`, `SharedWith`), who may change it (`Manages...`), take it out
  (`...File`, `SetlistPdf`), restore it (`MayRestore`), is shown its public link
  (`...Tokens`). On top, gigs with their setlist and tour: `AskCreateGig` and
  `AskUpdateGig` check, `InsertGig` and `UpdateGig` write, while everything else moves.
- **Rights** (`Q`, which extends Access): the roles of collaborators (`deputy`), the
  songs of each setlist (`holds`), and for every handler about a setlist, its
  collaborators or a song an operator (`...Answer`) that gives what it answers:
  its queries in their order, each of which may end it (`Then`). `Check` is
  `check_permission` with its `knows_it`, `Standing` is `lock_standing`. The steps
  are the requests that change who may what, and which songs are where.
- **BandDesk** (`M`): ranks, the permissions of the two lower ones, reminders; the
  flags of the band's page (`PageFlags`, `ListFlags`) beside what requests ask
  (`RequirePower`); who acts on whom in each handler (`RoleAnswer`, `TitleAnswer`,
  `RemoveAnswer`, `InviteAnswer`). `AskNote`, `CountNotes`, `InsertNote` are a
  request that adds a reminder, the last two under the band's lock.
- **Pins** (`P`): an account's pins (`pin`), what resolves (`seen`), requests;
  `ReadPins`/`InsertPin` and `ReadOrder`/`WriteOrder` are transactions under the
  account's lock, `Unpin` takes none.
- **MCHandover** starts `Bands` from a band that was founded, for one violation.

## Runs

Run with `tlc -config <run>.cfg <module>`. The cfgs give sizes as constants; MC
modules hold only sets of requests or messages, functions that are constants, and
symmetries.

| Run (module) | Instance | Shows |
|---|---|---|
| `MirrorRaces` (MCSubscriptionMirror) | 2 subscriptions, 2 workers, 2 changes each at the provider; events, withdrawals, reversed charges; no clock | `RecordedMeansApplied`, `DuplicateHasAKeeper`, `KeepsPromise`, `EndedStaysEnded` |
| `MirrorLife` (MCSubscriptionMirror) | 1 subscription, 2 plans, 1 worker and the job, 3 days with periods of 2, 3 changes; grants, trials, plan changes, a provider that forgets | `TypeOK`, `GrantComesBack`, `MirrorExact`, `GraceNotRestarted` |
| `MirrorLost` (MCSubscriptionMirror) | 2 subscriptions, every webhook lost, 1 failure; daily walk, withdrawals, refunds, revocation | `OneSubscriptionLeft`, `MirrorConverges`, `RefundedIsEnded` |
| `OutboxOnce` (MCEmailOutbox) | 2 workers, batches of 2, a code and a goodbye, 3 attempts, 1 failure, 1 staff retry | `TypeOK`, `SentOnce`, `NoSecretKept` |
| `OutboxSettles` (MCEmailOutbox) | 1 worker, 2 bulk messages, a goodbye of an unknown template, a cap of 1, 1 failure | `CapHeld`, `EventuallySettled` |
| `Account` (MCAccount) | 2 requests in each part, 2 accounts, names, networks and addresses, limits of 1 or 2 | `TypesOK`, `CodeLimits`, `DailyGuesses`, `CheckLimits`, `SignInSafety`, `LockLimits`, `MailSafety`, `IdentitySafety`, `AskingKeepsCode`, `LockNotShortened`, `AccountSteps` |
| `Billing` (MCBilling) | 2 workers on a referrer and 2 referred accounts, 2 credit events in all; 2 handlers on a payment with 1 refund and a dispute; 2 tabs and 2 prices, 2 pages, 1 failure; 1 request that buys or changes a plan of 2 intervals and 2 amounts, 1 edit, 1 lost call | `TypesOK`, `CreditSafety`, `RefundsKept`, `CheckoutSafety`, `SaleSafety`, `CustomerKept` |
| `Workspace` (MCWorkspace) | 2 requests in each part: a band of 3 people and an invite for 2, two suggestions, a setlist of three people with a song of the guest, two songs of an artist under a limit of 1, a setlist with room for 2 of 3 items, links of a setlist and a gig, a song and its version, an announcement, a ticket with 3 messages, a backup with 2 edits, limits of 1; 2 people in a band with a gig, a tour and two setlists, one request that plans; 3 people, a band's repertoire and a setlist of one of them, a song of each home; a band of 3 with 1 reminder at most; 3 pins for 2 places | `TypesOK`, `BandSafety`, `SetlistSafety`, `LibrarySafety`, `MessageSafety`, `WorkspaceSteps` |
| `MirrorDuplicateRefund`, `DeletedNotCharged` (Checkout), `BandHandedOver` (MCHandover), `PendingIsTold` (PlanSales) | the smallest instance that has the case | violated; see [Findings](#findings) |

Why these sizes are enough to be interesting. A race in this code is between two
transactions, or between a transaction and the provider, a job or time; two
requests give every pair of operations, and the provider, the job, staff and the
clock are actors besides. Limits are so low that the second of two reaches them:
one place left in a library, two guesses a day, a cap of one mail an hour, one
song a band may hold. Two or more versions of a subscription let an older snapshot
meet a newer row. `MirrorLife` has a whole period and the beginning of the next,
longer than either grace, so that everything that can run out does. In `OutboxOnce` a lock
becomes stale, is swept, and the other worker sends; three attempts give the
backoff its limit and the message its end. In `OutboxSettles`
two messages exceed the cap of one by one, so that a cap not counted at all is seen
(what several workers overshoot it by is proved). Each
property has a mutant in `PROJECT.json` that the same instance refutes, so no case
is too small to happen. The passing runs end within five minutes, `Workspace` with
about two million distinct states.

Symmetry is used for workers, requests, networks, people, names, subscriptions and
messages that are alike, and only in runs without liveness. Model values are
shared between parts (a request is a worker, a tab and a handler) because the
parts never meet, and symmetry then serves all of them.

`CHECK_DEADLOCK FALSE` stands where the system may come to rest: a customer who
stops, an outbox with nothing left to send, an account that is gone, or every bound used
up. `MirrorRaces` and `MirrorLife` keep the check.

**Fairness.** `SubscriptionMirror!Fairness`: every job ends (requests and
provider calls have timeouts, so a transaction commits or aborts); the daily walk
reaches each subscription (`jobs/mod.rs` runs it for ever, on the worker that gets
the claim); and a refunded or disputed charge is redelivered until it is
handled, which is how the provider treats an error answer. Nothing is assumed of
the other webhooks in `MirrorLost`. `RetriedSpec`, used for one violation only,
adds that the provider retries subscription events too, so that the
counterexample is not a retry that never came. Strong fairness is needed because
steps wait for locks that others take and release. The provider, the customer and
failures are never fair. `EmailOutbox!Fairness`: time passes, and an instance
goes on with its batches (`every` in `jobs/mod.rs`); no answer of the mail server
is assumed, and neither is a limit on it, since attempts are counted. The other
modules state safety only: nothing in them must happen.

**Bounds.** Constants named `Max...` that are not limits of the code bound the
clock, versions, failures, crashes, replays, edits, staff's interventions; each is
commented "bound" where it is declared. They are guards of the actions that use
them up, and the proofs hold for every value of them. `Joining` and `Granting`
bound whose role in a band and which permission of its plain members changes. The
`Workspace` run shares its states out among the parts: gigs are planned while
`manage_setlists` is given and taken, requests answered while `export_pdf` is (leaders
always have both); a shared setlist sees one invitation and two contributions, since who
invites whom is what `Rights` looks at, with three people and every role.

**Mutants.** For each property of a passing run, `PROJECT.json` names a change to
the model, as a bug in the code would make it, under which TLC finds the property
violated: skipping the lock of the subscription, fetching before taking it,
restarting the grace, forgetting to restore a grant, taking every mail lock for a
dead worker's, counting songs without the quota's lock, and so on. They stand next
to the definitions they change, with a comment that says so.

## Findings

Four runs end with a counterexample, each against a sentence of the repository:

- `MirrorDuplicateRefund`: a duplicate is canceled, its refund fails, and the
  redelivered event finds a canceled subscription and does nothing: the charge is
  kept.
- `DeletedNotCharged`: the deletion of an account ends the subscriptions of the
  customer it reads and takes no checkout lock; a checkout under way leaves a page
  that can still be paid, or a subscription, of a customer nobody knows of.
- `BandHandedOver`: the deletion of an account picks the heirs of its bands without
  locking them; a band handed over to who leaves, or an heir who leaves, gives a
  band with members and no owner.
- `PendingIsTold`: a change of plan whose charge the bank wants confirmed leaves the
  subscription on its old price; `change_price` takes that for the answer of another
  change (`price_mismatch`, a 502), so `PAYMENT_ACTION_REQUIRED` is never answered
  and the update that waits is told to nobody.

### Further disagreements

The modules state these too, next to what does hold, and TLC refutes each. To see
one, add it to the INVARIANTs or PROPERTYs of the run named (for a part, as an
invariant `part = "..." => X` in the MC module).

| Property | Run | What happens, and what the repository says |
|---|---|---|
| `NeverDisplaced` | `MirrorRaces` | `FOR UPDATE` locks nothing while there is no row (`billing.rs:120-132`); of two live subscriptions the second insert replaces the first. `billing.rs:515-518`: a snapshot "never replaces another paid subscription still in effect". |
| `GrantOutlivesPurchase` | `MirrorLife` | a purchase that lapses, unlike one that is canceled, brings no staff grant back. `billing.rs:753-754`: "when that purchase ends and the grant would still be running". |
| `WithinWithdrawLimit` | `MirrorRaces` with more versions | the yearly count is read before the lock and not again. README.md:280: "at most twice per account in any 12 months". |
| `GoodbyeMeansDeleted` | `OutboxOnce` | the goodbye may be sent before the deletion fails. `controllers/account.rs:1297-1299`: "Withdrawn if the deletion fails." |
| `VerifiedWasProven` | `Account`, "addresses" | a recovery marks whatever address the account has by then as verified. `user_repository.rs` about 1288: "it must be verified again". |
| `OneTrialPerMail` | `Account` with `MidTrial = TRUE` | a trial's claim is released when the trial is not found; it may have been replaced, or its account deleted, meanwhile (`services/account.rs` about 810). |
| `EnabledIsConfirmed` | `Account` with `MaxSecrets = 2` | the code is checked for one pending secret, and another is enabled that was set meanwhile. `controllers/account.rs:653`: "a current code from the authenticator app for the secret from /2fa/setup". |
| `NeverTakenInQuarantine`, `CooldownHeld` | `Account`, "names" | a name is given up after it was found free; two renames both find no earlier one. `0001_users.sql:171-174` and `:22`. |
| `AlwaysAnAdmin`, `OnlyLowerRanksManaged` | `Account`, "admins" | staff compare ranks, then suspend; a suspension does not ask `guard_last_admin`. `user_repository.rs` about 452: "The platform must keep at least one active admin." |
| `RefundTakesReward` | `Billing`, "credits" | a reward is paid after its payment's refund looked for one to reverse (`billing.rs` about 1377-1385). |
| `LateRefundsHarmless` | `Billing`, "ledger" | a late `charge.refunded` with an old total counts a refund again that failed meanwhile. `finance.rs:144-146`: "replays and out-of-order deliveries are harmless". |
| `FailedIsOpenAgain` | `Workspace`, "suggestions" | the undoing of a claim fails too. `suggestion.rs:105-107`. |
| `OfferLeavesWithMember` | `Workspace`, "suggestions" | membership is checked, then the offer is created. `band_member_repository.rs` about 174. |
| `NeverVanishes` | `Workspace`, "setlists" | a song is contributed between the detaching and the breaking of links. `setlist_repository.rs` about 2113. |
| `OnlyTrashIsDeleted` | `Workspace`, "trash" | the purge deletes the ids its subquery found, restored or not. |
| `OnlyLostRevoked` | `Workspace`, "links" | links are cleared for an account that bought a plan after it was found without. |
| `InStepHasAll`, `NothingLost`, `BandSongsWithinLimit` | `Workspace`, "copies" | a copy is stamped with a later edit than it has; an edit made after the look is written over; a copy found, and deleted before the insert, is inserted again without the quota's lock. `models/song.rs:558`, `controllers/setlist.rs:1409-1412`, `song_repository.rs:144-146`. |
| `OnlyAdminsTouchPublished`, `LiveKeepsTerms` | `Workspace`, "news" | an edit checked before the publication is saved after it. |
| `ActiveWithinLimit`, `UnreadUntilOpened`, `AnsweringTakesFree` | `Workspace`, "support" (2 tickets for the first) | tickets are counted before they are opened; a reply clears what the user was not shown; who answers takes a ticket given to somebody meanwhile. `support.rs` about 45, `controllers/support.rs:505`. |
| `SelfContained` | `Workspace`, "backup" | songs and setlists are read at different moments. `backup_repository.rs:120-122`. |
| `NoCircle` | `Workspace`, "library" | a duplicate locks setlists, songs, artists; an import songs, artists, setlists. `trash_repository.rs:609-611` warns of just this. The database breaks the circle. |

Seen while reading and not modelled: the cache of Google's keys
(`services/google.rs`), settings
switched off while a paid subscription starts, and a discount code spent twice on
a delayed webhook.

## Proofs

Eight modules hold theorems; `tlapm <module>.tla` checks each. Everything is
proved from the named assumptions on the constants alone (finite sets of requests,
people and rows, limits that are naturals and may be 0, model values that are
distinct from each other, a version that is not its own original), never from the
sizes of a run, and from no other hypothesis but one, named below. Every invariant
and every action property of the passing runs is a theorem; liveness stays with
TLC.

Invariants of this code are seldom inductive, always for the same reason: they say
what the tables show, while the next step writes what a request read earlier. The
strengthening says, for each request by where it stands, **what it may still rely
on of what it read** (`...Fits`, `...OK`, `HolderKnows`), and who keeps it true: a
lock, a claim counted before, a row nobody changes back. TLC found the
strengthenings of the addresses and trials to hold on the run's instance before
they were proved.

| Module | Theorems | The invariant, and why it is needed |
|---|---|---|
| `SubscriptionMirrorProofs` | `TypeCorrect`, `DuplicateKeeper`, `EventsAreApplied`, `PromiseKept` (the refinement), `Locked`, `MirrorInvariant` | jobs, locks, versions; see below |
| the same, what the row says | `ExactMirror`, `GrantsComeBack`, `EndedForGood`, `GraceRunsOnce`, `MirrorRowInvariant` | a fourth layer, `ContentInv`: the provider only moves `Onward`, so what a snapshot says stays true enough: a snapshot is exact at its version, the row's live end is not after the provider's, a canceled row means that the provider is done, and so does every job about to end something |
| `EmailOutboxProofs` | `TypeCorrect`, `SentOnceHolds`, `NoSecretHolds`, `CapHolds` | a lock is younger than its batch, which is over before its locks are stale, so a message is in one batch (`OneFlight`); its receipts are accounted for before it is sent again (`ReceivedOK`). The cap has an invariant of its own (`CapInv`), which adds up what was sent, what is in flight and what may still be claimed |
| `SignInProofs` | `SignInTypes`, `SignInIsSafe` | what is named exists (`NamesInv`), versions move forward (`VersionsInv`), an attempt that may still be wrong was counted (`AttemptsInv`), no code of the secret in force was accepted after the last step on record (`UsedInv`) |
| `GuessLimitsProofs` | `CodesTyped`, `CodesAreLimited`, `DailyCapHolds`, `AskingKeeps`, `ConfirmTypes`, `ChecksAreLimited`, `LockTypes`, `LocksHold`, `LocksStay` | a limit counts before the answer is looked at and is settled afterwards, by a request others overtake: what requests under way still have to settle is added to what is on record (`GuessInv`, `Returning`, `NetworkOK`, `LockedOK`); the day's guesses and the requests allowed to guess stay within the cap together (`DailyInv`) |
| `BillingProofs` | `CreditTypes`, `CreditsAreSafe`, `LedgerTypes`, `RefundsAreKept`, `CheckoutTypes`, `CheckoutIsSafe`, `CustomersKept`, `SaleTypes`, `SalesAreSafe`, `BillingTypes` | who holds which lock follows from where it stands (`HeldOK`, `Guarded`), hence no circle; a refund not counted has a handler or an event coming that counts it (`CountsComing`, `Repairing`); who holds the checkout lock knows every page that may be paid (`HolderKnows`, `RowsInv`); a price answers the key that names it (`PricesFit`), and a change that was charged has an answer on record, which is still true under the subscription's lock (`DeskFits`) |
| `AccountProofs` | `MailTypes`, `VerifiedIsProven`, `AddressesAreSafe`, `OwnersAreSafe`, `AccountTypes`, `IdentityIsSafe`, `AccountIsKept` | the address of a code typed was proven (`MailingFits`), a trial being started has claimed its address and nobody else has (`TrialsInv`), a name found free is not kept for another or is held (`FoundFree`), the admins a request locked still serve (`AdminsSafe`) |
| `SetlistAndBandProofs` | `BandMoves`, `SharedMoves`, `CopiesMove`, `OrderMoves`, `LinkMoves`, `RightsMove`, `DeskMoves`, `PinsMove` (lemmas: the parts' invariants are inductive) | links, running order, shared setlists, band copies, bands, answers to requests, ranks and reminders, pins; see below |
| `WorkspaceProofs` | `TypesKept`, `BandsKept`, `SetlistsKept`, `LibraryKept`, `MessagesKept`, `WorkspaceIsKept` | the other seven parts, and all fifteen together; see below |

**The mirror, in layers.**

1. `LockedInv` = `TypeOK` and, for each worker, `JobInv` (where a job is decides
   what it carries), `LockInv` (and which locks it holds) and `RowInv` (a job that
   holds the row's lock, past the point where it looked, knows what the row is).
   `RowInv` is preserved because nobody writes a row that another worker has
   locked (`StepRespectsLock`). `DuplicateHasAKeeper` follows from `RowInv` alone.
2. `VersionInv` = `RowVersion` (the row's version is one the provider reached),
   `EventVersion` (so is every recorded event's), `RecordedMeansApplied`, and
   `SnapInv`: a snapshot held under its subscription's lock is at least as new as
   the row and as every event on record. This is what the lock taken **before**
   the fetch is for: without it `SnapInv` fails, the row goes back and an event
   is recorded that was never applied, which the mutant `FetchUnlocked` shows.
   Every step is first shown to write the row in one of a few ways (the `...Wrote`
   lemmas), and then the versions are compared (`OthersSnap`, `OwnSnap`).
3. Refinement: from `MirrorInv`, each step of the mirror maps to `Change` of one
   subscription (`ChangeStep`), to `Follow` (`FollowStep`) or to a stutter
   (`PromiseStep`).
4. `ContentInv`: what the versions stand for.

**Accounts.** `AddressesAreSafe` has the one hypothesis that is not an assumption
of the code: `~MidTrial`, that between the start of a trial and the look at it, a
few statements later, the account neither goes nor gets a plan. Without it the
code does give a second trial (`OneTrialPerMail` under Further disagreements).

**The workspace.** `PartsSafe` is the conjunction of the parts' invariants, each
guarded by its part; one part moves (`OnePartMoves`) and its own lemma says that
it stays safe.

- *Announcements* (`NewsInv`): a delivery that has claimed the row finds it due
  until it is done, there is one such delivery, and who was told was told by one
  that is on record. A claim locks the row, so nobody can edit it in between.
- *Support* (`HelpInv`): what is done is about a ticket that exists; a ticket is
  locked by one who adds to it, and was found open; a resolved ticket knows since
  when, and was not written to after what the daily job goes by.
- *Suggestions* (`SugInv`): an offer in the hand of a request was accepted, is in
  one hand, and its song is not added yet; whose song was added says accepted.
- *Trash* (`TrashInv`): rows are locked by one transaction; a song in an artist's
  batch is the artist's and was not trashed by itself, for which batches are
  numbered apart (`BatchUnused`, by counting); what is restored, created or deleted
  is as it was found, by its lock or because it can only be gone; at most one
  transaction has inserted without committing, and it has a place.

- *Bands* (`BandInv`): who redeems, founds or hands over holds the band's row, so the
  count of members, the invite and the roles it looked at are still so (`TxFits`);
  the members are counted as the set of those joined, which a redemption enlarges
  by one while it holds the row and the invite. An heir is a member while the row
  that was updated stays locked. `Seats` says 1 for a limit of 0, which staff may set: its
  founder is let in by `create_band`, which looks at no limit on members.
- *Shared setlists* (`SharedInv`): what a task will still detach or adopt is what it
  read, less what others took away; a song gone is in no setlist, or a task that
  deletes it has the entry in hand and locked.
- *Running order* (`OrderInv`): one request adds to a list at a time; its place is
  past every item nobody reordered, and it has counted what there is.
- *Links* (`LinkInv`): what a visit has not seen hidden is shown only if it is not
  taken down, in the trash or past its plan when the visit looks.
- *Band copies* (`CopiesInv`): a copy being inserted is of an original without one,
  unless one was in the trash or its original's was; the quota counts what is
  committed and the one inserted under its lock.
- *Library* (`LibInv`): what a request counted under a quota's lock bounds the rows
  from above while it holds the lock, since the trash only takes away.
- *Access and gigs* (`AgendaInv`): a setlist or tour that a gig or a request names is
  one of the same home, whoever left and whatever was trashed since, because homes
  and kinds never change; so who opens a tour opens what it shows. That the queries
  agree (`QueriesDo`) and that links are for managers needs no more than the types:
  it says of every state what the SQL of each table says of its rows.
- *Answers* (`RightsInv`): who has a role in a setlist is somebody else than the owner,
  of a personal one, and a manager was made by the owner; a setlist holds songs of its
  own scope, or of a collaborator while they are one; a repertoire stays, and holds
  what the band plays (`Plays`). From these each answer is compared with what the
  caller can open: `NothingRevealed` and `ChecksAgree` say it of every request.
- *Ranks and reminders* (`DeskInv`): there is one owner; who inserts a reminder holds
  the band's row, alone, and counted fewer than the limit.
- *Pins* (`PinInv`): one request holds the account's lock; what it inserts has no pin
  and finds room, what it orders has a place for every pin that is left.
- *Backups* (`BackInv`, `BackTypes`): what was read of a setlist nobody touched is
  what there is of it (`ReadSoFar`), and what an import resolves is in the file.

**What the proofs found.** A proof attempt that fails is a finding about the model:

- Three definitions used CASE with arms that overlapped. TLC takes the first arm that
  holds, while the value is one of them, unspecified which, so nothing followed from
  them. They are conditionals now, and every CASE left has disjoint arms.
- `VersionsJoined` (part of `CopySafety`) held on the run's instance of two copies and
  was false with three: a version whose original's copy is in the trash stays with
  that copy, because `create_band_copy` joins only copies that have no original
  (`song_repository.rs:880`). It is stated with that exception now, and TLC finds it
  to hold with three copies as well (7.3 million states, too many for the run).
- Purging a song (`PurgePiece`), revoking an invite and deleting an account passed rows
  that another transaction had locked; they wait for them now, as the DELETE, its
  cascade and the UPDATE do.
- The property about backups demanded less of an import than the code gives. It is
  restated: each setlist nobody edited comes back with exactly the songs shown in
  it, as far as an import tells songs apart. Keys need not be injective: the
  unique index compares titles exactly (migration 0016), an import ignores case
  (`backup_repository.rs:544`).
- A limit of no members at all, which staff may set (`validate_limit` allows 0), is
  exceeded by a band's founder; the limit is stated with it.
- Sums. A fold over a sequence cannot be reasoned about here without induction over
  data, so the day's wrong guesses are the cardinality of the set of guesses
  (`WrongGuesses`: a pair for each guess of each code), which grows by one element at
  a time.

**What stays with TLC.** Liveness: `OneSubscriptionLeft`, `MirrorConverges`,
`RefundedIsEnded`, `EventuallySettled`. Fairness and ENABLED are out of the prover's
reach. The four violated properties are, of course, shown by TLC alone.

## Limits

**The mirror**: `cancel_at_period_end`, prices and amounts, the customer link,
extension of a trial by staff, notices and audit lines. Amounts matter to the
ledger and not to which subscription is in effect. The daily walk compares the
row with the provider's present state, where the code compares it with a page
fetched shortly before; the transaction it then starts fetches again under the
lock, so that only the decision to start may differ. A transaction killed for
being idle 30 seconds (`connection.rs:21`) while its code goes on with the next
provider call is not modelled. Versions count changes only; two events of one
change are the same event. The debit of a credit balance before refunds
(`payments.rs:1612`) is left out.

**Billing**: the 24 hours after which an open page expires by itself; the bound on
attempts stands in the guard of `LockCheckout`; what rewards give besides
credits; the advisory lock of a redemption is not the quota's.

The sale of plans: one plan, with one currency; a request's customer is
Checkout's; what the portal changes is the mirror's; a subscription starts in
`PayPage` and its end is not modelled. `PendingIsTold` fails, hence what is told
is not part of `SaleSafety`.

**The outbox**: the caps per recipient and account in `enqueue` (a message dropped
is one never enqueued), `enqueue_many`, templates and wording, and the mode
without a mail server, in which every message is skipped. A retry of staff and
the running of the clean-up are at any time after their conditions hold.

**Accounts**: the contents of codes, signatures and expiry of tokens, the cache of
accounts; case of names, and the change of role or status in the same update as
a rename; moderators and users are one rank, "below".

**Bands and setlists**: the authority that `delete_band` read before; the limit of the
recipient of a band; a collaborator's limit; held songs in the
running order; in public links the scope check of a view, the verified address
of who shares, tours; in band copies artists, tags and permissions.

**Library**: in the trash the quota of artists at a restore, a song's change of
artist, setlists, gigs and tours (of which Access has who may restore what); exempt accounts and the limits of gigs, tags and
tours; in backups versions, tags, analyses, markers, tours, checks of fields and
shared files.

**Messages**: who an announcement is meant for, whether it may be dismissed, its text;
support's daily limit, ratings and priorities.

**Not modelled at all**: maintenance of job claims, templates, notifications,
incidents and settings, administration and metrics, moderation, notes and
preferences, rate limits and client addresses, export and import of files, music
theory, validation and routing. They are listed in `PROJECT.json` with the reason:
rows of one owner, reads, pure formatting, or state of one instance.

Two hazards have no property, because the code allows what they name:
`billing.rs:123` (`NeverDisplaced`) and `billing.rs:1839` (`OnlyLostRevoked`), both
above.

## Plan

Everything that the runs check of safety is proved, for the model as it is.

Not modelled and worth it: the caps of `enqueue` per recipient and account, claims
of job runs (`claim_job_run`), versions of setlists (optimistic locking),
transposition as operators over the twelve pitch classes.
