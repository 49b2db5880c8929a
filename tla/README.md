# A verification of the ATCloud ERP backend

The modules in this directory model the parts of the backend
(`backend/src`, Node.js, Express, MongoDB through Mongoose) whose correctness
depends on the order of concurrent steps: the notification outbox and its
workers, the commands that carry an idempotency key, the in-memory lock, the
requests for the places of an event, the migrations of the schema, and the
purchases of a program with their refunds.
TLC checks them on small instances; TLAPS proves the main invariants for every
value of the constants.

## 1. The system

| Component (under `backend/src`) | State | Operations | Works with | Hard because | Correct when |
|---|---|---|---|---|---|
| Outbox service: `services/reliability/NotificationOutboxService.ts`, `models/NotificationOutbox.ts` | one document per (topic, dedupe key): status, attempts, due time, lease, purge time | enqueue (one, many, standalone), claim, renew, defer, finalize, two reconciliations; TTL index | producers enqueue in their transactions; workers claim | leases run out under a live worker, clocks differ, repairs run beside deliveries, updates bypass the model's validation | one payload per key, one claim may write, attempts are bounded, outcomes are final |
| Outbox worker: `NotificationOutboxWorker.ts`, `NotificationOutboxDeliveryRegistry.ts`, `NotificationOutboxWorkerAuthorization.ts` | current run, timer, wake and stop flags; the claim under delivery | start, wake, stop, pass, delivery, heartbeat | outbox service, handlers, runtime gates | crashes, timeouts of handlers that go on, lost answers, deployments that differ | at least once, never lost, wakes not lost |
| Idempotent commands: `IdempotencyService.ts`, over `MongoTransactionService.ts`, `CasService.ts` | receipts; sessions | execute; run with retries of transactions and commits | chat, alumni, recovery services | commits of unknown outcome, concurrent duplicates, expiry | one effect per key while a receipt lives |
| Lock: `services/LockService.ts` | map from key to promise | withLock | sign-ups, guests, purchases, refunds, deletion of users | hand-over to several waiters, time-outs | exclusive, no leaked key, no endless wait |
| Event registration: `controllers/event/RegistrationController.ts`, `controllers/guest/GuestRegistrationController.ts`, `services/CapacityService.ts`, `models/Event.ts` | registrations of users and guests, statistics of the event | sign up, cancel, remove, assign, move, register a guest | lock, outbox (through other services), e-mail, sockets | two collections, different lock keys, unlocked paths, read-count-write of the statistics | a role never holds more than its places; statistics agree |
| Refresh sessions: `services/auth/RefreshSessionService.ts` | token family: current token, revision, expiry, revocation | register, rotate, revoke | login, refresh, logout | concurrent rotations | a token rotates once, revocation is final |
| Migrations: `services/migrations/MigrationRunner.ts`, `MigrationLeaseService.ts` | lease with fencing, ledger of migrations, the documents they convert | acquire, renew, release; apply, resume, roll back in batches | deployment | two runners, lost lease, restart half-way, late commits | ledger and documents agree, batches are fenced, migrations apply in order |
| Purchases and refunds: `controllers/purchase`, `controllers/webhookController.ts`, `services/RefundRequestService.ts`, `services/PurchaseRefundService.ts` | purchases, places of class representatives, requests for refunds, codes | check out, retry, cancel, view, clean up, complete, refund, unenroll, approve, reject, decide | Stripe, lock | several sessions of one purchase, repeated and reordered webhooks, Stripe acts before the database knows | no place is sold twice, what is paid is completed once, who has the money back is unenrolled |
| Alumni help requests, invitations, import | workflow documents | submit, assign, accept, close, expire | outbox, chat rooms, idempotency | deadlines against late answers | legal transitions only |
| Chat and program rooms | rooms, members, messages, unread counts | send, read, join, synchronise | outbox, programs | counters against messages | counters agree with messages |
| Feature and recovery control, operations | gates, recovery state | change, qualify | every worker | changes during work | closed gates stop new work |
| Push, notifications, e-mail | subscriptions, messages | deliver | outbox handlers | repetition | idempotent |
| The rest: schedulers, analytics, user administration, caches, sockets, web client | | | | little shared state | |

`PROJECT.json` lists every component with its sources, and the hazards with the
line where each bites.

Everything runs in one Node.js process per instance: JavaScript between two
`await`s is atomic with respect to the process, an update of one MongoDB document
is atomic with respect to everybody. These two facts fix the grain of the
actions: one action per document update in the outbox modules, one per database
call or promise reaction elsewhere.

## 2. Modules

| Module | Models | Built on |
|---|---|---|
| `NotificationOutboxStore` | the documents and every update of them | |
| `NotificationOutbox` | the store under arbitrary callers | `NotificationOutboxStore` |
| `NotificationOutbox_proof` | eight theorems | `NotificationOutbox` |
| `AtLeastOnceDelivery` | the abstract promise to producers | |
| `NotificationOutboxSystem` | worker processes over the store; implements `AtLeastOnceDelivery` | `NotificationOutboxStore` |
| `NotificationOutboxSystem_proof` | four theorems, one of them the refinement | `NotificationOutboxSystem` |
| `NotificationOutboxSchedule` | start, wake, stop, timer of one worker | |
| `NotificationOutboxSchedule_proof` | three theorems | `NotificationOutboxSchedule` |
| `IdempotentCommands` | calls of `execute` with one identity, over transactions | |
| `IdempotentCommands_proof` | five theorems | `IdempotentCommands` |
| `LockService` | `withLock` | |
| `LockService_proof` | four theorems | `LockService` |
| `EventSignup` | the requests for the places of an event, which call `withLock` | `LockService` |
| `EventSignup_proof` | four theorems | `EventSignup`, `LockService_proof` |
| `SchemaMigrations` | the commands of the migration runner, their lease and the ledger | |
| `SchemaMigrations_proof` | four theorems | `SchemaMigrations` |
| `ProgramPurchases` | purchases of one program: checkout to completion, and deletion | |
| `PurchaseRefunds` | refunds, requests for approval and Stripe's reports; the next-state relation | `ProgramPurchases` |
| `PurchaseRefunds_proof` | four theorems | `PurchaseRefunds` |
| `MC...` | constants of the instances | |

### 2.1 Notification outbox

*State.* `row[k]` is the document whose unique index `(topic, dedupeKeyHash)` is
`k`, with the fields of `INotificationOutbox` that decide anything: `status`,
payload (its version and hash), `attempts`, `max`, `due` (`nextAttemptAt`),
`token`, `owner`, `lease` (`leaseExpiresAt`), `unsupportedSince`, `purge`
(`purgeAt`), `code` (`lastErrorCode`). "absent" stands for no document.

*Actions.* Each `findOneAndUpdate`, `updateOne` or insert is one action, named
after its method; its guard is the filter of the update. A batch is enqueued in
two calls of one transaction: `LookUp` reads which keys exist and refuses a
conflicting payload (which changes nothing and is not a step), and `Commit` inserts
what was missing then (`drafts`), each item with its own limit and due time. In
between other producers enqueue the same keys; the unique index makes that a write
conflict, and the transaction ends in `Rollback`. What the look-up found is
answered by its snapshot, so it counts as accepted then. `enqueueInTransaction` is
a batch of one; `EnqueueStandalone` is the upsert outside a transaction, with the
read after a duplicate key as its second alternative. A producer may schedule an
event up to `Delay` ahead.

*Time.* Timestamps are relative to the present and age with `Tick`, so an
instance needs no absolute clock and stays finite. A method computes `now` before
it awaits the database and instances have clocks of their own: `now` is any of
the last `Lag` units. Ages are no longer distinguished beyond `Horizon` for
`unsupportedSince`, which is compared with the grace period, and beyond `Overdue`
for the other timestamps, which are compared with the clock only; the bounds are
at least what they are compared with (`DurationsAssumption`).

*Callers.* In `NotificationOutbox` any claim ever handed out may be used in any
method at any later time: every order of stale calls is included, and the proofs
hold for it. In `NotificationOutboxSystem` the callers are worker processes with
a program counter: claim, authorize, handle, finalize, with failure at every
await, heartbeats, handler time-outs that leave the handler running, deferral
when the runtime gate closes, crash, stop, restart with another deployment, and
answers of the database that get lost. Reconciliation is `Repair` and `Review`,
one document per step, because the code's loops may be interrupted between
documents. The store is shared through `row`; gates (`open`) are the only way
the runtime configuration enters.

*Schedule.* `NotificationOutboxSchedule` is the same worker seen from its timer.
A pass settles in two steps (`finally` forgets `currentRun`; the reactions that
schedule the next pass run some microtasks later), and a `wake` between them
arms a second timer, which `handle` then forgets. The two resulting polling
chains share `currentRun`, so no pass runs twice; the cost is additional polls.
`MaxTimers` bounds the chains, which the code does not.

### 2.2 Idempotent commands

*State.* `receipts` holds the committed receipt of one identity (scope, actor and
key; other identities share nothing with it), `effects` the committed effects of
the command. A call of `execute` has its phase, its counters of attempts and
commit attempts, its transaction (the snapshot `seen`, the receipt `draft`, the
effect `work`), what the database made of its commit, and its response.

*Actions.* One per database call of `execute` inside `run`: `Look` (the look-up
and its three answers), `Insert` (delete the expired receipt, create one),
`Perform` (the command and the completion of the receipt), and then the loop of
commits. `SendCommit` leaves open what becomes of the commit: the database may
`Apply` it or `Lose` it at any later time, also after the caller gave up or died,
and `CommitUnknown` is an answer that says neither. `Retry` is a transient error,
`Fail` any other, `DuplicateKey` with `Reconcile` the read after error 11000,
`Crash` the death of the process. A retry by a client is another call.

*Abstractions.* Requests are the hashes of payloads, the identifier of a receipt
stands for the stored response. A command is one effect; commands that write
several documents do so in the same transaction. The calls share one clock: with
clocks that differ by more than the lifetime (24 hours by default) a key would
expire for one instance and not for another. `Look` judges expiry at the time of
its snapshot. MongoDB is external: snapshot reads, an error for the second of two
writers of the receipt, the unique index, the TTL monitor. An abort that fails
leaves the transaction to the database, which drops it; the model drops it at
once.

### 2.3 Lock and event registration

`LockService` has the map `activeLocks` (an entry is named by the call whose
operation it is the promise of), the phase of each call and the promise it waits
on. The synchronous part of `withLock` up to its first `await` is `Enter` or
`Wait`; the winner of `Promise.race` is `Resume` or `TimeOut`; `Finish` is the
settled operation with its `finally` block (the reaction that wakes waiters runs
in a later microtask than that block, so they are one step).

`EventSignup` EXTENDS it: a request is a call, and `Lock`, `Answer` compose the
lock's actions with the handler's. Every database call is one action: the limit
of roles, the count before the lock, the counts under the lock
(`getRoleOccupancy` counts users and guests in parallel, `toCount` says which is
missing), duplicate and uniqueness look-ups, the insert with the unique index of
`models/Registration.ts`, and `event.save()` in two steps, `Tally` (the pre-save
hook counts) and `Store` (the write, which Mongoose skips if the value equals
the loaded one). Assignment, move, cancellation and removal take no lock, as in
the code. `Fail` lets any of these calls fail, with or without effect; the
failures that `CapacityService` and the guest handler swallow are in `Count` and
`FindGuest`. `together` records which requests overlapped, for the properties
only: `OverbookingNeedsOverlap` and `RoleLimitNeedsOverlap` excuse what the unlocked
assignment or move, and the limit checked before the lock or under a lock per role,
do to requests that were under way together. That these overlaps can overbook or
pass the limit is plain from the code; the two properties say that nothing else
does, no failure, no swallowed error and no hand-over between requests that did
not meet. A role's `maxParticipants` does not change.
The count of `event.save()` and its write are two steps, so two saves that
overlap may leave the older total; no property speaks of it, since that it can
happen is plain from the steps.

### 2.4 Schema migrations

*State.* `lease` is the single lock document; `ledger[m]` the record of migration
`m` (status, direction, batches done, the run that owns it); `domain[m]` the
batches whose documents are converted. A run is one command of one process: what
it was asked (`command`), its step (`phase`), the migration it works on, the record
and the lease it holds, and the transaction of its present batch.

*Actions.* `Acquire`, `Renew`, `Refresh`, `Release` are the conditional updates of
`MigrationLeaseService`; `Read` is the snapshot of the ledger with its checks;
`Decide`, `FindExisting`, `Begin` the choice and the beginning of a migration;
`OpenBatch`, `SendBatch`, `RetryBatch`, `ApplyBatch`, `LoseBatch` a batch and its
commit, which may be applied late or never; `Confirm`, `FailBatch`, `Reconcile`,
`MarkFailed` what the run makes of the outcome; `Finish`, `Exit`, `Crash` its end;
`Tick` lets the lease expire.

*Abstractions.* The identity of a lease (`runId`, token, fence) is the run that
acquired it; the checks of the registry, its checksums and its generated manifest
are left out, since one registry is in use. `prepare`, `verify` and the operation
of a migration are external: they convert a batch or throw (`FailBatch`). Attempts
of a transaction are not bounded, the limit of batches may be reached at any
batch, and all times are those of the server. Conflicts of transactions are
MongoDB's: who writes second waits or fails.

### 2.5 Purchases and refunds

*State.* `purchases` holds the documents in the order of their creation, with the
fields that decide anything: status, the session and the payment they name,
`version` (`__v`), `unenrolled` (`unenrolledAt`), whether a code was created
(`codes`) and is named (`linked`), and two ages: `old` (`createdAt`, for the
deletions) and `late` (`purchaseDate`, for the refund window). `count` is
`classRepCount`. `sessions` are Stripe's checkout sessions, each with the step of
the webhook that handles its completion; `refund`, `reports` and `notice` are a
payment's refund at Stripe, the states it reports, and the webhook that handles a
report; `tickets` are the refund requests. A call has its step `at` and what it
read, `hold`.

*Actions.* One per call of the database or of Stripe. In `ProgramPurchases`:
`Checkout` to `UndoReturn` (replace what is pending, reserve, create, bind, undo),
`Retry` to `BindAttempt`, `Cancel...`, `View` to `ViewDelete` (list, one look-up per
listed purchase, delete by id), `Cleanup`; `Pay`, and `HookRead`
to `HookLink`. In `PurchaseRefunds`: `Ask` (the look-up) and `CreateTicket`, `Refund`, `Unenroll`, `Approve`, `Reject`,
`Decide` with the shared steps of an unenrollment (`UnenrollReturn` gives the place
back, `UnenrollSave` writes the purchase) and of a refund (`SubmitRefund`,
`RefundRefused`), `ExpireTicket`, `Settle`, and `NoticeRead` to `NoticeOther`.
`Fail`, `HookFail` and `NoticeFail` stop a call or a delivery between two steps.
The order follows the code: a refund by its user is saved before Stripe is asked,
an approved one after.

*Abstractions.* The lock of a checkout is left out because its key is an identifier
made for that checkout: it excludes nobody. The lock of a completion only orders
deliveries for one purchase, which are let overlap: those of different sessions
with each other, while one session has one delivery at a time and repeats it. The
completion is an update of the purchase, so two overlapping deliveries of one
purchase contain the race. The lock of a refund request
is exclusive here, as `LockService` is for the two calls that meet. Reads of
different documents that follow each other and only decide whether to go on are
one step. A month passes as one step (`Period`), after which every deadline is
over. Prices and promo codes decide only whether a purchase is free. The role of a
purchase is assumed to be resolvable; a webhook that cannot resolve it fails for
ever. The program has a limit of places (with none, checkout does not count, but
the other paths still subtract).

*What `PlacesAreKept` excuses.* The code reads a purchase, gives its place back and
records that in separate calls, so two calls that have both read it give the place
back twice. `forestalled` are those that still owe a place which another has given
back since, or had given back and not recorded when they read; `collided` is set when
one of them does give it back, and when a call stops between giving back and
recording. From then on only the limit is claimed. So the concurrent double return of
two checkouts, or of two refunds, is excused, and is listed under Disagreements; what
the property excludes is every other way to lose a place: a repeated report, a
refund after an unenrollment, a deleted purchase, a reservation undone twice, the
race for the last place.

## 3. What the runs check

| Run | Instance | Shows |
|---|---|---|
| `outbox_service` | 2 keys, 2 payloads of 2 kinds, 1 transaction beside standalone producers, 2 tokens, limit 2, grace 2, lag 1; symmetric tokens and keys | types; `StateRules`, the validation the updates bypass; `AttemptsWithinLimit`; `LeaseHasItsClaim`, the fencing; `OnePayloadPerKey`, with batches whose keys others enqueue between look-up and insert; `GraceHonoured`; `TerminalIsFinal`; `RenewalNeverShortens` |
| `outbox_workers` | 1 row, 2 processes, 2 deployments, 3 tokens, limit 2, lease 2, lag 1, events up to 1 ahead | `OnlyFailuresAreCharged`: deferrals cost no attempt; `LiveLeaseIsNotTaken`; the system implements `AtLeastOnceDelivery` |
| `outbox_liveness` | the same with 2 tokens, durations of 1, one clock, handler runs not counted | every row settles, by a deployment that supports it or by the grace period |
| `worker_schedule` | up to 4 timers and reactions | no wake is lost, a started worker keeps polling |
| `idempotency` | 3 calls with one key, two of them copies; 2 attempts, 2 commit attempts, lifetime 1, clock up to 2; symmetric copies | types; `OncePerLifetime`; `AnswersAreDurable`, for answers first-hand and replayed; `EffectsHaveReceipts`, so that a caller left in doubt can ask again; `NeverBlocked`, an unfinished command leaves no receipt |
| `lock_service` | 4 calls on one key, 1 on another | no leaked key, overlap only after a hand-over, every waiter is answered |
| `lock_shared` | 3 calls on one key | **violated**: the lock is not exclusive after a hand-over |
| `signup` | 8 sets of 2 or 3 requests, 2 roles of one place, failing calls | no overbooking by up to two sign-ups and cancellations; overbooking, and more roles than a person may have, only by requests that overlapped (`together` excuses the unlocked overlap itself); a guest's double submission gives one registration, unless a third submission makes the lock hand over; every request is answered |
| `signup_last_place` | a user and a guest | **violated**: both get the last place |
| `migrations` | 2 migrations of 2 batches, 3 runs, every pair of commands and all three kinds at once, a lease of 1, crashes | types; `DomainMatchesLedger`: the converted documents are those the ledger tells of; `BatchesAreFenced`; `GapsNeedOverrun`: the order of migrations holds until a run begins one after losing its lease |
| `purchases` | 13 situations of 2 or 3 requests of one or two users, one place, 3 sessions, one period, one failure | types; `PlacesAreKept`: the place is not sold twice, until a call gives back again what another has given back since it read the purchase, or stops before recording it (`collided`); `FulfilledOnce`; `PaidCompletes`; `ReturnedMoneyEndsEnrollment` |
| `purchase_cancel` | a cancellation and a retry beside the payment | **violated**: a paid purchase is deleted |

Why the bounds are enough. Two processes and three claims contain every overlap
of an old claim with a new one; an attempt limit of 2 has a retry and an
exhaustion; two keys are what batches and the choice of the earliest row need, and
one transaction beside standalone producers has every conflict of two enqueues.
The durations differ only in how they compare with the grace period and the lag.
Two copies and another request contain a replay, a conflict and a duplicate key
against a third call; two attempts and two commit attempts have one retry and one
exhaustion each; a clock of 2 with a lifetime of 1 has an effect after the expiry
of an earlier one, and a receipt that expires between two steps of a call.
Four calls on one key give a holder, two waiters on one promise and a newcomer,
and a second generation of waiters. Requests for a place interact in pairs, a
third one adds a cancellation, a second copy or an assignment; places of one
make every count decisive. Two migrations of two batches have an order, a gap, a
partial rollback and a batch after which a run may die; three runs are a holder,
its successor and one more. The situations of `purchases` start where a purchase
does not exist, is pending or is paid, within the refund window or after it, and
set those requests against each other that touch the same document; three sessions
are two attempts beside the one that was open; one failure separates any two
steps, and one place makes a place given back twice visible at once.

The runs stop (no deadlock check) where the system may: an outbox without events,
requests and commands that are all answered. `worker_schedule` checks deadlock.

### Fairness

`outbox_liveness`: `WF` on claiming, on the steps of a delivery and on the
repairs of a running process, and on `Tick`. A started worker polls on a timer
and reconciles at an interval; a delivery is raced against a time-out, so its
steps end. Producers, crashes, stops, gates, heartbeats and detached handlers
have no fairness; the properties assume instead, in their antecedent, that from
some time on one process that supports the row stays up and the gate stays open.
`worker_schedule`: timers fire, passes end, reactions run. `lock_service`: promise
reactions run and timers fire; nothing says that an operation ever ends.
`signup`: the database answers, reactions run, timers fire; requests need not
arrive. `purchases`: `WF` on the two webhooks of each payment, since Stripe repeats
an event until it is answered and failures are bounded; users, administrators
and Stripe's decisions have no fairness.

### Disagreements between the code and what it says

* `LockService` promises an exclusive lock. A waiter does not look at the map
  again when its promise settles, so all waiters of one promise start together,
  and `finally` deletes the entry of whoever owns it then (`lock_shared`).
  `ExclusiveUntilHandOver` is what holds.
* Registration is said not to exceed capacity. Users count only users and lock
  another key than guests, who count both (`signup_last_place`). Assignments and
  moves count without any lock (`OverbookingNeedsOverlap` is what holds).
* A cancellation "only allows deleting pending purchases". It checks the status it
  read and deletes by id; a completion that comes between is deleted with the
  payment (`purchase_cancel`).

Read in the code and not run as properties of their own:

* The view of pending purchases lists them and looks up a completed match for each in
  a later call (`PurchasePendingController.ts:56`). A purchase that is completed in
  between is its own match and is deleted by id, paid; `ViewMatch` and `ViewDelete`
  take that step.
* An e-mail address may have one role per event, and a user a number of roles; the
  first check is made under a key that names the role, the second before the
  lock (`RoleLimitNeedsOverlap` is what holds).
* `signedUp`, "the total of role signups", is counted and written in two calls.
* `begin...` of the migration runner compares the record with the one it read and
  does not look at the lease. A run that overran its lease can begin a migration
  beside a rollback of the one before, after which every command refuses the
  ledger, while `docs/DATABASE_MIGRATIONS.md:80` says that a crashed run becomes
  resumable when its lease expires (`GapsNeedOverrun` is what holds).
* `classRepCount` is commented as "pending + completed" (`models/Program.ts:72`),
  but deletions of abandoned purchases do not subtract, and two overlapping checkouts
  that replace one purchase, or refunds of one purchase, subtract twice (`PlacesAreKept`, with `collided`, is what holds).
* A late or repeated report "failed" overwrites the status "refunded", a second
  refund that Stripe refuses overwrites it with "refund_failed", and an approval
  saved after Stripe's report with "refund_processing".
  `ReturnedMoneyEndsEnrollment` therefore speaks of the enrollment, not of the status.
* A delivery that stops after the completion is not repeated with effect: the
  bundle code is then never created. `FulfilledOnce` is at most once.
* `docs/STRIPE_WEBHOOK_EVENTS.md:13` says `payment_intent.payment_failed` is handled;
  the handler looks for a payment that only a completed purchase names.

## 4. What is proved

All from the named assumptions on the constants (`KindOfAssumption`,
`LimitsAssumption`, `DurationsAssumption`, `NoneAssumption`, `CallsAssumption`,
`ConstantsAssumption`, `RegistryAssumption`, `LeaseAssumption`, `CommandsAssumption`,
`PurchasesAssumption`, `ScenariosAssumption`, `RequestsAssumption`, `KeysAssumption`,
`DeploymentsAssumption`, `MaxWorkAssumption`, `NoClaimAssumption`,
`MaxTimersAssumption`), which TLC evaluates in the runs.

`NotificationOutbox_proof`: `TypeCorrect`, `StateRulesHold`, `AttemptsAreBounded`,
`LeasesAreFenced`, `EnqueueIsIdempotent`, `GraceIsHonoured`, `TerminalRowsStay`,
`LeasesOnlyGrow`.
The inductive invariant `IInv` is the conjunction of the row-wise facts (`RowOK`),
the three relations with the history, and `QuietCovers`. The last is needed
because `GraceHonoured` speaks only of dead rows: while a row is pending, its
`unsupportedSince` must not reach further back than the time it has been quiet.
One lemma per kind of new document (`DeadOK`, `RetriedOK`, ...) and one for an
update of a single row (`UpdateIInv`) carry the steps; `InsertIInv` is the commit of a batch, which needs
no memory of its look-up: that the keys are still absent is the guard of the insert.

`NotificationOutboxSystem_proof`: `TypeCorrect`, `FailuresAreCharged`,
`LeasesAreRespected` and `OutboxImplementsAtLeastOnce`, for any number of processes,
deployments, tokens and rows. Unlike the proofs of the service, which allow any stale
caller, these are about callers with a program counter, and rest on one fact: a token
is never in two hands (`Bonds`). If a row still carries the token of a worker's claim,
that claim is the one its lease stands for, so a late write either is refused or is
about the very attempt the worker was given. `Fine` says how many attempts a document
was charged in each status, `Efforts` that a handler which has performed has done so
for a submitted event. The steps are split into what they do to documents (`RowsKeep`)
and to workers (`WorkersKeep`), since only a claim couples the two more closely. The
refinement is shown for `MaxWork > 0`: the bound is one of the model, and with none
counted there is nothing to refine.

`NotificationOutboxSchedule_proof`: `TypeCorrect`, `WakesAreKept`, `NeverAsleep` (a
started worker has a timer or a pass to wait for, which keeps `worker_schedule` from a
deadlock). The invariant adds that `handle`, if it names a timer, names one that is
armed (`HandleIsArmed`), so that `clearTimeout` removes one; and that a wake which came during a pass is remembered by
that pass (`WakeIsKept`), with no help from a timer of an earlier wake.

`LockService_proof`: `LockTypesHold`, `NoKeyIsLeaked`, `ExclusionUntilHandOver`, `ExclusiveForTwo`
(the lock is exclusive if no three calls share a key). The invariant adds
`RunnerIsTheEntry`: until an operation under the key has ended, a running call is
the entry of its key.

`EventSignup_proof`: `SignupTypesHold`, `SignupsRespectCapacity`,
`OverbookingTakesOverlap`, `RoleLimitTakesOverlap`, on top of the invariant of the
lock. For the second, the invariant `Inv` adds that a sign-up between its count and its insertion runs under
the lock (`Paths`), and that one place is still free for it then (`Room`): what it
counted stays true, because nothing but another sign-up inserts into the role, and of
two the lock excludes the other (`TwoExclude`: an overlap would need a third that has
ended). Every step is reduced to its effect on the lock, the stage and the seats
(`StepHasEffect`), and the invariant is shown for the effects (`EffectKeeps`). It needs
that requests that lock share a key just when they are of one kind and for one role
(`KeysAssumption`), which is how the code names its locks.

The last two theorems allow every request and every failure, and say that a role is
overbooked, or a limit on roles passed, only where requests overlapped. The statement
about all registrations of a role is not inductive: of an overlapping pair one may be
removed, and the others must still be few. So the invariant speaks of every set of
registrations no two of which came of overlapping requests (`Apart`, `Strangers`):
such a set respects the limit, and a request that has passed its check has room beside
every such set whose requests it did not meet either (`RoomApart`, `LimitApart`,
`GuestsApart`). The proof refuted an earlier form of the second statement, that a guest
is never registered twice for the *same* role because the lock is per role: with three
submissions the lock hands over to both waiters at once and both insert, which TLC
then showed too (the set `Thrice`). It is now claimed for two submissions.

`IdempotentCommands_proof`: `AtMostOnce`, `DurableAnswers`, `Reconcilable`,
`KeysAreNeverBlocked`, `TypeCorrect`. None of these is inductive: they speak of
what is committed, and a commit that takes effect late may break them unless its
transaction is known to be harmless. The invariant `Inv` adds this: at most one
transaction has written the receipt (`OneWriter`); its snapshot is still the
committed state and every committed effect in it is over (`Undisturbed`); a commit
under way carries a completed receipt and the effect it tells of, or nothing
(`Sent`); and what `run` is about to return is committed or in that transaction
(`Promised`). A commit, however late, then replaces only an expired receipt.

`SchemaMigrations_proof`: `TypeCorrect`, `LedgerTellsTheDomain`, `OrderHolds`,
`BatchesHoldTheLease`, for any registry of migrations and any number of runs. The
invariant `Inv` adds, for each run, what its place in the program tells: what it has
read of the ledger is still so while it holds the lease (`Known`), its writes are
conditional on a lease that nobody else can hold (`Fenced`), its locals are those of
the command it was given (`Sane`); for the ledger, that a record speaks of exactly the
batches that are converted (`LedgerInv`); and, until an overrun, that the migrations
before the one at work are finished (`InOrder`, by `Position`).

`PurchaseRefunds_proof`: `FulfilledOnceHolds`, `PendingOnlyOnce`, for any users,
purchases, sessions, repetitions and failures, from situations in which nothing is
being fulfilled (`ScenariosAssumption`). At most one webhook stands between the
completion of a purchase and its bundle code, and only while the purchase is not
pending and has no code (`Once`). All steps but the completion and the creation of the
code are calm (`Calm`): they add no code, let no webhook fulfil and make nothing
pending. The second theorem is the reason of the first: no refund, report or
cancellation, however stale what it has read, makes a purchase pending again.

The second part of the module: `PurchaseTypesHold` and `PlacesAreNeverOversold`.
`PlacesAreKept` counts the purchases that show a place, but a call that has read a
purchase gives its place back later, perhaps when the purchase is gone. So the
invariant `IInv` lets the count cover more (`Covered`): the purchases of `Places`,
which show a place that nobody is giving back or whose place a call or a webhook
still owes (`CallOwes`, `NoticeOwes`, unless another has given it back), and the checkouts that have reserved one and not
created the purchase yet (`Reserved`). A place given back is subtracted once from
both sides, unless two owed it: then the second is `forestalled`, counts no longer
(`CallCounts`, `NoticeCounts`), and its return is the collision the code does not
exclude. What a call has read may be stale in its session, status and version, but not in what
decides about the place: `rep` never changes, and `unenrolled` ends once (`CallFine`,
`NoticeFine`). Every step of a call is reduced to one of three effects: it gives nothing
back (`Quiet`), gives a place back (`GivesBack`) or reserves one (`Reserves`).
Stopping between giving back and recording it is observed as a collision, because
the purchase then shows a place that is free. The theorem is about programs whose
count covers their purchases to begin with (`ScenariosAssumption`): nothing in the
code would repair one that does not.

Every invariant of the runs and every action property that holds is thus stated by a
theorem. Only model-checked: all liveness, which (with `ENABLED`) is beyond the prover.

## 5. Plan

What is left, in this order, each with its MC module, run, map and hazards:

1. an abstract specification of idempotent commands ("one effect per key and
   lifetime, every answer from it") and its refinement; `CasService` with the
   documents that use it;
2. purchases of events and memberships, and the use of promo codes;
3. alumni help requests with their deadlines, as producers of the outbox;
4. chat rooms and unread counters; refresh sessions; feature control;
5. further requests of `EventSignup`: public registration, guest cancellation,
   deletion of the event, which relies on `signedUp`.

Proofs still to write: the refinement of step 1, once stated.

## 6. What is not modelled

Payload canonicalisation, hashing and size limits (two payloads agree or not);
the detection of the topology, which refuses to run; metrics and logs; the order among rows of equal due time; retention in
`NotificationOutboxSystem` (it is months away from any claim); lock statistics
and `clearAllLocks`, which refuses to run in production; attendance, workshop
topics, rate limits and notifications of registrations; of the migrations the
commands that only report, the checksums of the registry and what a migration
computes (a batch is converted or not); of the purchases those of events and
memberships, donations, prices, the use and administration of promo codes, and the
payment events, which find no purchase before it is complete. The components of
section 1 that section 2 does not name are listed in `PROJECT.json` with the
reason.
