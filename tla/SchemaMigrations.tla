--------------------------- MODULE SchemaMigrations ---------------------------
(***************************************************************************)
(* The migration runner (backend/src/services/migrations/MigrationRunner.ts*)
(* and MigrationLeaseService.ts): commands of operators that apply, resume *)
(* or roll back registered migrations under one global lease, batch by     *)
(* batch, with a ledger of what has been done.  A batch of domain writes,  *)
(* the fencing write to the lease and the entry in the ledger commit in one*)
(* transaction; the entry that begins a migration does not.                *)
(*                                                                         *)
(* A run is one execution of a command: its runId, its token and the fence *)
(* it is given identify the same acquisition of the lease.  Expiry is      *)
(* judged by the clock of the database.  External: MongoDB (write locks of *)
(* transactions, what becomes of a commit) and the migrations, each of     *)
(* which converts Batches batches of documents.                            *)
(***************************************************************************)
EXTENDS Integers, FiniteSets

CONSTANTS
  Runs,           \* executions of commands
  Assignments,    \* which command each run executes: the cases to consider
  Count,          \* registered migrations, in the order of the registry
  Batches,        \* batches of a migration
  LeaseDuration,  \* leaseDurationMs
  None            \* nobody holds the lease

Migrations == 1..Count
AllCommands == [name: {"apply", "rollback"}, target: Migrations]
                 \cup [name: {"resume", "status"}, target: {Count}]

ASSUME RegistryAssumption == Count \in Nat \ {0} /\ Batches \in Nat \ {0}
ASSUME LeaseAssumption == LeaseDuration \in Nat \ {0} /\ None \notin Runs
ASSUME CommandsAssumption == Assignments \subseteq [Runs -> AllCommands]

VARIABLES
  ledger,    \* schema_migrations: one record per migration
  domain,    \* the converted batches of each migration
  lease,     \* schema_migration_locks: the one document
  command,   \* what a run was asked to do
  phase,     \* where a run is
  at,        \* the migration a run works on
  got,       \* the ledger record a run has
  handle,    \* the revision of the lease in the handle of a run
  batch,     \* the transaction of a run's present batch
  overran    \* observation: a run began a migration after losing its lease

store == <<ledger, domain, lease>>
vars == <<store, command, phase, at, got, handle, batch, overran>>

Statuses == {"absent", "applying", "applied", "apply_failed",
             "rolling_back", "rolled_back", "rollback_failed"}
Records == [status: Statuses, run: Runs \cup {None}, up: 0..Batches, down: 0..Batches,
            revision: Nat]
Absent == [status |-> "absent", run |-> None, up |-> 0, down |-> 0, revision |-> 0]

Forward(status) == status \in {"applying", "applied", "apply_failed"}
Running(status) == IF Forward(status) THEN "applying" ELSE "rolling_back"
Failed(status) == IF Forward(status) THEN "apply_failed" ELSE "rollback_failed"
Completed == {"applied", "rolled_back"}
Recovery == {"applying", "rolling_back", "apply_failed", "rollback_failed"}

-----------------------------------------------------------------------------
(* What a reader makes of the ledger.                                      *)
Applied(m) == ledger[m].status = "applied"
Before(m) == \A k \in 1..(m - 1) : Applied(k)

VersionGap(m) ==
  \/ ledger[m].status \in {"applied"} \cup Recovery /\ ~Before(m)
  \/ ledger[m].status # "absent" /\ \E k \in 1..(m - 1) : ledger[k].status = "absent"

Healthy == \A m \in Migrations : ~VersionGap(m)
RecoveryPoints == {m \in Migrations : ledger[m].status \in Recovery}

-----------------------------------------------------------------------------
(* The lease.  A transaction that has written to the document keeps other  *)
(* writers waiting until it has ended.                                     *)
Locked == \E q \in Runs : batch[q] \in {"open", "sent"}
Holds(r) == lease.holder = r /\ lease.ttl > 0
Current(r) == Holds(r) /\ handle[r] = lease.revision

Goto(r, where) == phase' = [phase EXCEPT ![r] = where]

(* A write of the holder; its answer may be lost, which ends the command.  *)
Update(r, ttl, next) ==
  /\ lease' = [lease EXCEPT !.ttl = ttl, !.revision = @ + 1]
  /\ handle' = [handle EXCEPT ![r] = @ + 1]
  /\ Goto(r, next) \/ Goto(r, "finish")

(* The command returns, or its process dies, and its memory is gone.       *)
Exit(r) ==
  /\ Goto(r, "ended")
  /\ got' = [got EXCEPT ![r] = Absent]
  /\ handle' = [handle EXCEPT ![r] = 0]

Phases ==
  {"ended", "check", "acquire", "read", "claim", "existing", "begin", "renew", "batch", "held",
   "commit", "reconcile", "running", "mark", "refresh", "finish", "release"}

Init ==
  /\ ledger = [m \in Migrations |-> Absent]
  /\ domain = [m \in Migrations |-> {}]
  /\ lease = [holder |-> None, ttl |-> 0, revision |-> 0]
  /\ command \in Assignments
  /\ phase = [r \in Runs |-> CASE command[r].name = "apply" -> "check"
                            [] command[r].name = "status" -> "ended"
                            [] OTHER -> "acquire"]
  /\ at = [r \in Runs |-> 1]
  /\ got = [r \in Runs |-> Absent]
  /\ handle = [r \in Runs |-> 0]
  /\ batch = [r \in Runs |-> "none"]
  /\ overran = FALSE

-----------------------------------------------------------------------------
(* apply looks at the ledger before it asks for the lease.                 *)
Check(r) ==
  /\ phase[r] = "check"
  /\ Goto(r, IF Healthy /\ RecoveryPoints = {} THEN "acquire" ELSE "ended")
  /\ UNCHANGED <<store, command, at, got, handle, batch, overran>>

(* acquire: a take-over of an expired lease, or the first one.             *)
Acquire(r) ==
  /\ phase[r] = "acquire"
  /\ ~Locked
  /\ IF lease.ttl = 0
     THEN /\ lease' = [holder |-> r, ttl |-> LeaseDuration, revision |-> lease.revision + 1]
          /\ handle' = [handle EXCEPT ![r] = lease.revision + 1]
          /\ Goto(r, "read") \/ Goto(r, "ended")
     ELSE Goto(r, "ended") /\ UNCHANGED <<lease, handle>>
  /\ UNCHANGED <<ledger, domain, command, at, got, batch, overran>>

(* What a command does, as its reading of the ledger decides.              *)
Decide(r, m) ==
  /\ at' = [at EXCEPT ![r] = m]
  /\ got' = [got EXCEPT ![r] = ledger[m]]
  /\ Goto(r, "claim")

ApplyNext(r, m) ==
  /\ command[r].name = "apply" /\ m <= command[r].target
  /\ RecoveryPoints = {}
  /\ Before(m) /\ ~Applied(m)

ResumePoint(r, m) == command[r].name = "resume" /\ ledger[m].status \in Recovery

(* A fault: any applied migration may be rolled back.                      *)
FaultRollbackTarget(r, m) ==
  /\ command[r].name = "rollback" /\ m = command[r].target
  /\ IF RecoveryPoints # {} THEN ledger[m].status \in {"applying", "apply_failed"} ELSE Applied(m)

(* Of the applied migrations only the last, and a recovery point only if   *)
(* it was being applied.                                                   *)
RollbackTarget(r, m) ==
  /\ command[r].name = "rollback" /\ m = command[r].target
  /\ IF RecoveryPoints # {}
     THEN ledger[m].status \in {"applying", "apply_failed"}
     ELSE Applied(m) /\ ~ \E k \in Migrations : k > m /\ Applied(k)

Eligible(r, m) == Healthy /\ (ApplyNext(r, m) \/ ResumePoint(r, m) \/ RollbackTarget(r, m))

Read(r) ==
  /\ phase[r] = "read"
  /\ \/ \E m \in Migrations : Eligible(r, m) /\ Decide(r, m)
     \/ (~ \E m \in Migrations : Eligible(r, m)) /\ Goto(r, "finish") /\ UNCHANGED <<at, got>>
  /\ UNCHANGED <<store, command, handle, batch, overran>>

(* updateCurrentMigration.                                                 *)
Claim(r) ==
  /\ phase[r] = "claim"
  /\ ~Locked
  /\ \/ Current(r) /\ Update(r, lease.ttl, IF command[r].name = "apply" THEN "existing" ELSE "begin")
     \/ ~Current(r) /\ Goto(r, "finish") /\ UNCHANGED <<lease, handle>>
  /\ UNCHANGED <<ledger, domain, command, at, got, batch, overran>>

(* beginApply looks for a record of an earlier attempt.                    *)
FindExisting(r) ==
  /\ phase[r] = "existing"
  /\ got' = [got EXCEPT ![r] = ledger[at[r]]]
  /\ Goto(r, IF ledger[at[r]].status \in {"absent", "rolled_back"} THEN "begin" ELSE "finish")
  /\ UNCHANGED <<store, command, at, handle, batch, overran>>

(* The record a command begins with: apply starts over, resume goes on,    *)
(* rollback starts undoing what the record says has been done.             *)
Begun(r, existing) ==
  CASE command[r].name = "apply" ->
         [status |-> "applying", run |-> r, up |-> 0, down |-> 0,
          revision |-> IF existing.status = "absent" THEN 0 ELSE existing.revision + 1]
    [] command[r].name = "resume" ->
         [existing EXCEPT !.status = Running(@), !.run = r, !.revision = @ + 1]
    [] OTHER ->
         [existing EXCEPT !.status = "rolling_back", !.run = r, !.down = 0, !.revision = @ + 1]

Unchanged(r) == ledger[at[r]].status = got[r].status /\ ledger[at[r]].revision = got[r].revision

(* A ledger record a transaction has written keeps other writers waiting.  *)
Written(m) == \E q \in Runs : batch[q] = "sent" /\ at[q] = m

(* A fault: the record is not compared with the one that was read.         *)
FaultBegin(r) ==
  /\ phase[r] = "begin"
  /\ ~Written(at[r])
  /\ LET begun == Begun(r, got[r]) IN
     /\ ledger' = [ledger EXCEPT ![at[r]] = begun]
     /\ got' = [got EXCEPT ![r] = begun]
  /\ overran' = (overran \/ lease.holder # r)
  /\ Goto(r, "renew") \/ Goto(r, "finish")
  /\ UNCHANGED <<domain, lease, command, at, handle, batch>>

(* beginApply, beginResume, beginRollback: compare and set, without a look *)
(* at the lease.                                                           *)
Begin(r) ==
  /\ phase[r] = "begin"
  /\ ~Written(at[r])
  /\ \/ /\ Unchanged(r)
        /\ LET begun == Begun(r, got[r]) IN
           /\ ledger' = [ledger EXCEPT ![at[r]] = begun]
           /\ got' = [got EXCEPT ![r] = begun]
        /\ overran' = (overran \/ lease.holder # r)
        /\ Goto(r, "renew") \/ Goto(r, "finish")
     \/ ~Unchanged(r) /\ Goto(r, "finish") /\ UNCHANGED <<ledger, got, overran>>
  /\ UNCHANGED <<domain, lease, command, at, handle, batch>>

-----------------------------------------------------------------------------
(* A batch.                                                                *)
Renew(r) ==
  /\ phase[r] = "renew"
  /\ ~Locked
  /\ \/ Current(r) /\ Update(r, LeaseDuration, "batch")
     \/ ~Current(r) /\ Goto(r, "finish") /\ UNCHANGED <<lease, handle>>
  /\ UNCHANGED <<ledger, domain, command, at, got, batch, overran>>

(* The record the batch of a run builds on.                                *)
Mine(r) ==
  LET record == ledger[at[r]] IN
  /\ record.status = Running(got[r].status) /\ record.run = r
  /\ record.revision = got[r].revision

Abort(r) == batch' = [batch EXCEPT ![r] = "none"]

(* A fault: the batch does not look at the lease.                          *)
FaultOpenBatch(r) ==
  /\ phase[r] = "batch"
  /\ ~Locked
  /\ IF Mine(r)
     THEN batch' = [batch EXCEPT ![r] = "open"] /\ Goto(r, "held")
     ELSE Goto(r, "reconcile") /\ UNCHANGED batch
  /\ UNCHANGED <<store, command, at, got, handle, overran>>

(* commitBatch begins: assertHeld writes to the lease, then the record is  *)
(* read.                                                                   *)
OpenBatch(r) ==
  /\ phase[r] = "batch"
  /\ ~Locked
  /\ IF Current(r) /\ Mine(r)
     THEN batch' = [batch EXCEPT ![r] = "open"] /\ Goto(r, "held")
     ELSE Goto(r, "reconcile") /\ UNCHANGED batch
  /\ UNCHANGED <<store, command, at, got, handle, overran>>

(* The operation has run; assertHeld again, the record is updated and the  *)
(* commit is sent.  Whoever changed the record meanwhile makes the update  *)
(* conflict, and the transaction starts again.                             *)
SendBatch(r) ==
  /\ phase[r] = "held"
  /\ Mine(r) /\ lease.ttl > 0
  /\ batch' = [batch EXCEPT ![r] = "sent"]
  /\ Goto(r, "commit")
  /\ UNCHANGED <<store, command, at, got, handle, overran>>

RetryBatch(r) ==
  /\ \/ phase[r] = "held"
     \/ phase[r] = "commit" /\ batch[r] = "lost"
  /\ Abort(r)
  /\ Goto(r, "batch")
  /\ UNCHANGED <<store, command, at, got, handle, overran>>

(* One batch more is done or undone.                                       *)
Progress(record) ==
  IF Forward(record.status)
  THEN [record EXCEPT !.up = @ + 1, !.revision = @ + 1,
                      !.status = IF record.up + 1 = Batches THEN "applied" ELSE @]
  ELSE IF record.up - record.down > 1
  THEN [record EXCEPT !.down = @ + 1, !.revision = @ + 1]
  ELSE [record EXCEPT !.down = record.up, !.revision = @ + 1, !.status = "rolled_back"]

Converted(m, record) ==
  IF Forward(record.status) THEN domain[m] \cup {record.up + 1}
                            ELSE domain[m] \ {record.up - record.down}

(* The database applies a commit, however late, or drops a transaction.    *)
ApplyBatch(r) ==
  /\ batch[r] = "sent"
  /\ batch' = [batch EXCEPT ![r] = "applied"]
  /\ lease' = [lease EXCEPT !.revision = @ + 2]
  /\ ledger' = [ledger EXCEPT ![at[r]] = Progress(@)]
  /\ domain' = [domain EXCEPT ![at[r]] = Converted(at[r], ledger[at[r]])]
  /\ UNCHANGED <<command, phase, at, got, handle, overran>>

LoseBatch(r) ==
  /\ batch[r] = "sent" \/ (batch[r] = "open" /\ phase[r] = "ended")
  /\ batch' = [batch EXCEPT ![r] = "lost"]
  /\ UNCHANGED <<store, command, phase, at, got, handle, overran>>

(* A fault: one migration more than was asked for.                         *)
FaultProceed(r) ==
  IF command[r].name = "apply" /\ at[r] <= command[r].target
  THEN at' = [at EXCEPT ![r] = @ + 1] /\ Goto(r, "claim")
  ELSE UNCHANGED at /\ Goto(r, "finish")

(* What follows a migration that is completed.                             *)
Proceed(r) ==
  IF command[r].name = "apply" /\ at[r] < command[r].target
  THEN at' = [at EXCEPT ![r] = @ + 1] /\ Goto(r, "claim")
  ELSE UNCHANGED at /\ Goto(r, "finish")

Confirm(r) ==
  /\ phase[r] = "commit" /\ batch[r] = "applied"
  /\ Abort(r)
  /\ handle' = [handle EXCEPT ![r] = @ + 2]
  /\ got' = [got EXCEPT ![r] = Progress(@)]
  /\ IF Progress(got[r]).status \in Completed
     THEN Proceed(r)
     ELSE UNCHANGED at /\ Goto(r, "renew")
  /\ UNCHANGED <<store, command, overran>>

-----------------------------------------------------------------------------
(* Failures of a batch.                                                    *)

(* The operation or its verification throws, the lease has run out under   *)
(* the batch, or the outcome of the commit is unknown.                     *)
FailBatch(r) ==
  /\ \/ phase[r] = "batch" /\ UNCHANGED batch
     \/ phase[r] = "held" /\ Abort(r)
     \/ phase[r] = "commit" /\ batch[r] = "lost" /\ Abort(r)
     \/ phase[r] = "commit" /\ UNCHANGED batch
  /\ Goto(r, "reconcile")
  /\ UNCHANGED <<store, command, at, got, handle, overran>>

(* reconcileAfterBatchError: has the batch been committed all the same?    *)
Reconcile(r) ==
  /\ phase[r] = "reconcile"
  /\ LET record == ledger[at[r]] IN
     IF /\ record.run = r /\ record.revision > got[r].revision
        /\ record.status \in {Running(got[r].status)} \cup
             (IF Forward(got[r].status) THEN {"applied"} ELSE {"rolled_back"})
     THEN got' = [got EXCEPT ![r] = record] /\ Goto(r, "refresh")
     ELSE UNCHANGED got /\ Goto(r, "running")
  /\ UNCHANGED <<store, command, at, handle, batch, overran>>

(* refreshOwned: the handle catches up with the lease.                     *)
Refresh(r) ==
  /\ phase[r] = "refresh"
  /\ IF Holds(r)
     THEN /\ handle' = [handle EXCEPT ![r] = lease.revision]
          /\ Abort(r)
          /\ IF got[r].status \in Completed
             THEN Proceed(r)
             ELSE UNCHANGED at /\ Goto(r, "renew")
     ELSE Goto(r, "finish") /\ UNCHANGED <<handle, batch, at>>
  /\ UNCHANGED <<store, command, got, overran>>

(* markFailed, also at the limit of batches: read, then compare and set.   *)
FindRunning(r) ==
  /\ phase[r] = "running"
  /\ LET record == ledger[at[r]] IN
     IF record.run = r /\ record.status = Running(got[r].status)
     THEN got' = [got EXCEPT ![r] = record] /\ Goto(r, "mark")
     ELSE UNCHANGED got /\ Goto(r, "finish")
  /\ UNCHANGED <<store, command, at, handle, batch, overran>>

MarkFailed(r) ==
  /\ phase[r] = "mark"
  /\ ~Written(at[r])
  /\ IF Mine(r)
     THEN ledger' = [ledger EXCEPT ![at[r]].status = Failed(@), ![at[r]].revision = @ + 1]
     ELSE UNCHANGED ledger
  /\ Goto(r, "finish")
  /\ UNCHANGED <<domain, lease, command, at, got, handle, batch, overran>>

LimitReached(r) ==
  /\ phase[r] = "renew"
  /\ Goto(r, "running")
  /\ UNCHANGED <<store, command, at, got, handle, batch, overran>>

-----------------------------------------------------------------------------
(* The end of a command, and what can go wrong at any time.                *)
Finish(r) ==
  /\ phase[r] = "finish"
  /\ IF Holds(r)
     THEN handle' = [handle EXCEPT ![r] = lease.revision] /\ UNCHANGED got /\ Goto(r, "release")
     ELSE Exit(r)
  /\ UNCHANGED <<store, command, at, batch, overran>>

Release(r) ==
  /\ phase[r] = "release"
  /\ ~Locked
  /\ IF Current(r)
     THEN lease' = [holder |-> None, ttl |-> 0, revision |-> lease.revision + 1]
     ELSE UNCHANGED lease
  /\ Exit(r)
  /\ UNCHANGED <<ledger, domain, command, at, batch, overran>>

(* A call fails without effect, or the operator interrupts the command.    *)
Interrupt(r) ==
  /\ phase[r] \in {"read", "claim", "existing", "begin", "renew", "reconcile",
                  "running", "mark", "refresh"}
  /\ Goto(r, "finish")
  /\ UNCHANGED <<store, command, at, got, handle, batch, overran>>

(* The process dies; its transaction is left to the database.              *)
Crash(r) ==
  /\ phase[r] # "ended"
  /\ Exit(r)
  /\ UNCHANGED <<store, command, at, batch, overran>>

Tick ==
  /\ lease.ttl > 0
  /\ lease' = [lease EXCEPT !.ttl = @ - 1]
  /\ UNCHANGED <<ledger, domain, command, phase, at, got, handle, batch, overran>>

Step(r) ==
  \/ Check(r) \/ Acquire(r) \/ Read(r) \/ Claim(r) \/ FindExisting(r) \/ Begin(r)
  \/ Renew(r) \/ OpenBatch(r) \/ SendBatch(r) \/ RetryBatch(r) \/ Confirm(r)
  \/ FailBatch(r) \/ Reconcile(r) \/ Refresh(r) \/ FindRunning(r) \/ MarkFailed(r)
  \/ LimitReached(r) \/ Finish(r) \/ Release(r)

Next ==
  \/ \E r \in Runs : Step(r) \/ ApplyBatch(r) \/ LoseBatch(r) \/ Interrupt(r) \/ Crash(r)
  \/ Tick

Spec == Init /\ [][Next]_vars

-----------------------------------------------------------------------------
(* Every variable keeps its type; a command stays within the registry and  *)
(* a record within the batches of its migration.                           *)
TypeOK ==
  /\ ledger \in [Migrations -> Records]
  /\ domain \in [Migrations -> SUBSET (1..Batches)]
  /\ lease \in [holder: Runs \cup {None}, ttl: 0..LeaseDuration, revision: Nat]
  /\ command \in [Runs -> AllCommands]
  /\ phase \in [Runs -> Phases]
  /\ at \in [Runs -> Migrations]
  /\ got \in [Runs -> Records]
  /\ handle \in [Runs -> Nat]
  /\ batch \in [Runs -> {"none", "open", "sent", "applied", "lost"}]
  /\ overran \in BOOLEAN

(* Whatever crashed, was repeated, rolled back half-way or committed late: *)
(* exactly the batches the ledger tells of are converted, all of them once *)
(* a migration is applied and none once it is rolled back.                 *)
DomainMatchesLedger == \A m \in Migrations :
  /\ domain[m] = 1..(ledger[m].up - ledger[m].down)
  /\ ledger[m].status = "applied" => domain[m] = 1..Batches
  /\ ledger[m].status \in {"absent", "rolled_back"} => domain[m] = {}

(* Migrations are applied in order, with at most one under way, which      *)
(* follows the applied ones: otherwise every command refuses the ledger    *)
(* from then on.  This rests on nobody beginning a migration after having  *)
(* lost the lease, which the beginning of a migration does not check.      *)
GapsNeedOverrun == overran \/ Healthy

(* Documents are converted or restored only on behalf of the run that      *)
(* holds the lease and that the ledger names, although the commit of a     *)
(* batch may take effect long after it was sent.                           *)
BatchesAreFenced == [][\A m \in Migrations : domain'[m] # domain[m] =>
  lease.holder # None /\ ledger[m].run = lease.holder /\ ledger'[m].run = lease.holder]_vars
=============================================================================
