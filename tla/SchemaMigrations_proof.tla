------------------------ MODULE SchemaMigrations_proof ------------------------
(***************************************************************************)
(* Theorems about SchemaMigrations.  None of its properties is inductive:  *)
(* they speak of the ledger, the documents and the lease, and a step is    *)
(* harmless only because of what its run remembers.  Inv adds that: a copy *)
(* of a record is the record or older (Known), a transaction that may yet  *)
(* commit belongs to the holder of the lease and to the run the record     *)
(* names (Fenced), and as long as nobody has begun a migration without the *)
(* lease, what its holder read of the order of the ledger is still true    *)
(* (Position).                                                             *)
(***************************************************************************)
EXTENDS SchemaMigrations, TLAPS

(* How much of a migration is done, by the status of its record.           *)
WellFormed(record) ==
  /\ record.down <= record.up
  /\ record.status = "absent" => record = Absent
  /\ record.status = "applied" => record.up = Batches
  /\ record.status \in {"applying", "apply_failed"} => record.up < Batches
  /\ Forward(record.status) => record.down = 0
  /\ record.status = "rolled_back" => record.down = record.up
  /\ record.status \in {"rolling_back", "rollback_failed"} => record.up = 0 \/ record.down < record.up

LedgerInv == \A m \in Migrations :
  WellFormed(ledger[m]) /\ domain[m] = 1..(ledger[m].up - ledger[m].down)

Working == {"renew", "batch", "held", "commit", "reconcile", "running", "mark"}
Active == {"applying", "rolling_back"}

Beginnings(name) ==
  IF name = "apply" THEN {"absent", "rolled_back"}
  ELSE IF name = "resume" THEN Recovery ELSE {"applying", "apply_failed", "applied"}

(* What a run has in memory fits where it is in its program.               *)
Sane(r) ==
  /\ WellFormed(got[r])
  /\ phase[r] # "ended" => command[r].name # "status"
  /\ phase[r] = "existing" => command[r].name = "apply"
  /\ phase[r] = "begin" \/ (phase[r] = "claim" /\ command[r].name # "apply")
       => got[r].status \in Beginnings(command[r].name)
  /\ phase[r] \in Working => got[r].status \in Active
  /\ phase[r] = "refresh" => got[r].status \in Active \cup Completed
  /\ phase[r] \in Working \cup {"refresh"} =>
       got[r].run = r /\ (command[r].name = "apply" => Forward(got[r].status))

(* A copy of a record is that record or an older one.                      *)
Behind(copy, record) == copy = Absent \/ copy.revision < record.revision \/ copy = record

Known(r) ==
  /\ phase[r] \in Working \cup {"begin", "refresh"} \/ (phase[r] = "claim" /\ command[r].name # "apply")
       => Behind(got[r], ledger[at[r]])
  /\ phase[r] = "commit" /\ batch[r] = "applied" =>
       got[r].revision < ledger[at[r]].revision /\ Behind(Progress(got[r]), ledger[at[r]])

(* Transactions that may commit, and what they will find.                  *)
Fenced(r) ==
  /\ phase[r] \in {"check", "acquire"} => lease.holder # r
  /\ batch[r] \in {"open", "sent"} => lease.holder = r
  /\ batch[r] = "open" => phase[r] \in {"held", "ended"}
  /\ phase[r] = "held" => batch[r] = "open"
  /\ batch[r] = "sent" =>
       /\ phase[r] \in {"commit", "reconcile", "running", "mark", "finish", "release", "ended"}
       /\ ledger[at[r]].run = r
       /\ ledger[at[r]].status \in Active
       /\ phase[r] \in {"commit", "reconcile"} => got[r] = ledger[at[r]]

RunOK(r) == Sane(r) /\ Known(r) /\ Fenced(r)

Above(m) == \A k \in Migrations : k > m => ledger[k].status \in {"absent", "rolled_back"}

(* What the holder of the lease may still rely on.                         *)
Position(r) ==
  /\ command[r].name = "apply" /\ phase[r] \in {"claim", "existing", "begin"} => Before(at[r])
  /\ command[r].name = "rollback" /\ phase[r] \in {"claim", "begin"} => Above(at[r])
  /\ phase[r] = "commit" /\ batch[r] = "applied" => ledger[at[r]] = Progress(got[r])
  /\ phase[r] = "refresh" => got[r] = ledger[at[r]]

InOrder == ~overran => Healthy /\ \A r \in Runs : lease.holder = r => Position(r)

Inv == TypeOK /\ LedgerInv /\ (\A r \in Runs : RunOK(r)) /\ InOrder

-----------------------------------------------------------------------------
(* The records that the operations write.                                  *)
LEMMA AbsentOK == Absent \in Records /\ WellFormed(Absent)
BY RegistryAssumption DEF Absent, Records, Statuses, WellFormed, Forward

LEMMA BegunOK ==
  ASSUME NEW r \in Runs, command[r].name \in {"apply", "resume", "rollback"},
         NEW existing \in Records, WellFormed(existing),
         existing.status \in Beginnings(command[r].name)
  PROVE  /\ Begun(r, existing) \in Records /\ WellFormed(Begun(r, existing))
         /\ Begun(r, existing).run = r
         /\ Begun(r, existing).status \in Active
         /\ command[r].name = "apply" => Begun(r, existing).status = "applying"
         /\ 1..(Begun(r, existing).up - Begun(r, existing).down) = 1..(existing.up - existing.down)
         /\ IF existing.status = "absent" THEN existing = Absent
                                          ELSE Begun(r, existing).revision = existing.revision + 1
<1> DEFINE begun == Begun(r, existing)
<1>1. CASE command[r].name = "apply"
  <2>1. /\ begun.status = "applying" /\ begun.run = r /\ begun.up = 0 /\ begun.down = 0
        /\ begun \in Records
        /\ begun.revision = IF existing.status = "absent" THEN 0 ELSE existing.revision + 1
    BY <1>1, RegistryAssumption DEF Begun, Records, Statuses
  <2>2. existing.up - existing.down = 0 /\ (existing.status = "absent" => existing = Absent)
    BY <1>1 DEF WellFormed, Beginnings, Absent, Records
  <2>3. WellFormed(begun) /\ begun.status \in Active
    BY <2>1, RegistryAssumption DEF WellFormed, Forward, Active
  <2>4. existing.status # "absent" => begun.revision = existing.revision + 1
    BY <2>1
  <2>5. begun.up - begun.down = existing.up - existing.down
    BY <2>1, <2>2
  <2>6. begun.run = r /\ begun.status = "applying" /\ begun \in Records
    BY <2>1
  <2> QED  BY <2>2, <2>3, <2>4, <2>5, <2>6
<1>2. CASE command[r].name = "resume"
  <2>0. begun = [existing EXCEPT !.status = Running(@), !.run = r, !.revision = @ + 1]
    BY <1>2 DEF Begun
  <2>1. /\ begun.status = Running(existing.status) /\ begun.run = r
        /\ begun.up = existing.up /\ begun.down = existing.down
        /\ begun.revision = existing.revision + 1
        /\ begun \in Records
    <3>1. existing.revision + 1 \in Nat /\ Running(existing.status) \in Statuses
      BY DEF Records, Running, Statuses
    <3> QED  BY <2>0, <3>1 DEF Records
  <2>2. existing.status \in Recovery
    BY <1>2 DEF Beginnings
  <2>3. WellFormed(begun) /\ begun.status \in Active
    BY <2>1, <2>2 DEF WellFormed, Forward, Running, Active, Recovery
  <2> QED  BY <1>2, <2>1, <2>2, <2>3 DEF Recovery
<1>3. CASE command[r].name = "rollback"
  <2>1. /\ begun.status = "rolling_back" /\ begun.run = r
        /\ begun.up = existing.up /\ begun.down = 0
        /\ begun.revision = existing.revision + 1
        /\ begun \in Records
    <3>1. begun = [existing EXCEPT !.status = "rolling_back", !.run = r, !.down = 0, !.revision = @ + 1]
      BY <1>3 DEF Begun
    <3>2. existing.revision + 1 \in Nat /\ 0 \in 0..Batches /\ "rolling_back" \in Statuses
      BY RegistryAssumption DEF Records, Statuses
    <3> QED  BY <3>1, <3>2 DEF Records
  <2>2. existing.status \in {"applying", "apply_failed", "applied"} /\ existing.down = 0
    BY <1>3 DEF Beginnings, WellFormed, Forward
  <2>3. WellFormed(begun) /\ begun.status \in Active
    BY <2>1, <2>2 DEF WellFormed, Forward, Active, Records
  <2> QED  BY <1>3, <2>1, <2>2, <2>3
<1> QED  BY <1>1, <1>2, <1>3

LEMMA ProgressOK ==
  ASSUME NEW record \in Records, WellFormed(record), record.status \in Active
  PROVE  /\ Progress(record) \in Records /\ WellFormed(Progress(record))
         /\ Progress(record).run = record.run /\ Progress(record).revision = record.revision + 1
         /\ IF record.status = "applying" THEN Progress(record).status \in {"applying", "applied"}
                                          ELSE Progress(record).status \in {"rolling_back", "rolled_back"}
<1> DEFINE next == Progress(record)
<1>1. CASE record.status = "applying"
  <2>1. /\ next \in Records /\ next.run = record.run /\ next.revision = record.revision + 1
        /\ next.up = record.up + 1 /\ next.down = 0
        /\ next.status = IF record.up + 1 = Batches THEN "applied" ELSE "applying"
    <3>1. next = [record EXCEPT !.up = @ + 1, !.revision = @ + 1,
                        !.status = IF record.up + 1 = Batches THEN "applied" ELSE @]
      BY <1>1 DEF Progress, Forward
    <3>2. record.up + 1 \in 0..Batches /\ record.down = 0
      BY <1>1, RegistryAssumption DEF WellFormed, Records, Forward
    <3>3. /\ record.revision + 1 \in Nat
          /\ (IF record.up + 1 = Batches THEN "applied" ELSE record.status) \in Statuses
      BY <1>1 DEF Records, Statuses
    <3> QED  BY <1>1, <3>1, <3>2, <3>3 DEF Records
  <2> QED  BY <1>1, <2>1, RegistryAssumption DEF WellFormed, Forward, Records
<1>2. CASE record.status = "rolling_back"
  <2>1. /\ next \in Records /\ next.run = record.run /\ next.revision = record.revision + 1
        /\ next.up = record.up
        /\ IF record.up - record.down > 1
           THEN next.status = "rolling_back" /\ next.down = record.down + 1
           ELSE next.status = "rolled_back" /\ next.down = record.up
    <3>1. next = IF record.up - record.down > 1
                 THEN [record EXCEPT !.down = @ + 1, !.revision = @ + 1]
                 ELSE [record EXCEPT !.down = record.up, !.revision = @ + 1, !.status = "rolled_back"]
      BY <1>2 DEF Progress, Forward
    <3>2. CASE record.up - record.down > 1
      <4>1. record.down + 1 \in 0..Batches
        BY <3>2, RegistryAssumption DEF Records
      <4>2. record.revision + 1 \in Nat
        BY DEF Records
      <4> QED  BY <1>2, <3>1, <3>2, <4>1, <4>2 DEF Records
    <3>3. CASE ~(record.up - record.down > 1)
      <4>1. record.revision + 1 \in Nat /\ "rolled_back" \in Statuses
        BY DEF Records, Statuses
      <4> QED  BY <3>1, <3>3, <4>1 DEF Records
    <3> QED  BY <3>2, <3>3
  <2> QED  BY <1>2, <2>1 DEF WellFormed, Forward, Records
<1> QED  BY <1>1, <1>2 DEF Active

LEMMA ConvertedOK ==
  ASSUME NEW m \in Migrations, ledger[m] \in Records, WellFormed(ledger[m]), ledger[m].status \in Active,
         domain[m] = 1..(ledger[m].up - ledger[m].down)
  PROVE  Converted(m, ledger[m]) = 1..(Progress(ledger[m]).up - Progress(ledger[m]).down)
<1> DEFINE record == ledger[m]
<1>1. CASE record.status = "applying"
  <2>1. Converted(m, record) = 1..record.up \cup {record.up + 1}
    BY <1>1 DEF Converted, Forward, WellFormed, Records
  <2>2. Progress(record).up = record.up + 1 /\ Progress(record).down = 0
    BY <1>1 DEF Progress, Forward, WellFormed, Records
  <2> QED  BY <2>1, <2>2 DEF Records
<1>2. CASE record.status = "rolling_back"
  <2>1. Converted(m, record) = 1..(record.up - record.down) \ {record.up - record.down}
    BY <1>2 DEF Converted, Forward, Records
  <2>2. CASE record.up - record.down > 1
    <3>1. Progress(record).up = record.up /\ Progress(record).down = record.down + 1
      BY <1>2, <2>2 DEF Progress, Forward, Records
    <3> QED  BY <2>1, <3>1 DEF Records
  <2>3. CASE ~(record.up - record.down > 1)
    <3>1. Progress(record).up = record.up /\ Progress(record).down = record.up
      BY <1>2, <2>3 DEF Progress, Forward, Records
    <3>2. record.up - record.down \in {0, 1}
      BY <2>3 DEF WellFormed, Records
    <3> QED  BY <2>1, <3>1, <3>2 DEF Records
  <2> QED  BY <2>2, <2>3
<1> QED  BY <1>1, <1>2 DEF Active

(* Types.                                                                  *)
LEMMA TypeInit == Init => TypeOK
<1> SUFFICES ASSUME Init PROVE TypeOK
  OBVIOUS
<1>1. phase \in [Runs -> Phases]
  BY DEF Init, Phases
<1>2. lease \in [holder: Runs \cup {None}, ttl: 0..LeaseDuration, revision: Nat]
  BY LeaseAssumption DEF Init
<1>3. at \in [Runs -> Migrations]
  BY RegistryAssumption DEF Init, Migrations
<1> QED  BY <1>1, <1>2, <1>3, AbsentOK, CommandsAssumption DEF Init, TypeOK

(* The steps that leave the ledger, the documents and the lease alone, but *)
(* for the ones that take a record into memory or go on to a migration.    *)
LEMMA QuietTypes ==
  ASSUME TypeOK, NEW r \in Runs,
         \/ Check(r) \/ OpenBatch(r) \/ SendBatch(r) \/ RetryBatch(r) \/ FailBatch(r)
         \/ LimitReached(r) \/ Finish(r) \/ Interrupt(r) \/ Crash(r) \/ LoseBatch(r)
  PROVE  TypeOK'
<1> USE DEF TypeOK, Goto, store
<1>1. lease.revision \in Nat
  OBVIOUS
<1>2. CASE Check(r)  BY <1>2 DEF Check, Phases
<1>3. CASE OpenBatch(r)  BY <1>3 DEF OpenBatch, Phases
<1>4. CASE SendBatch(r)  BY <1>4 DEF SendBatch, Phases
<1>5. CASE RetryBatch(r)  BY <1>5 DEF RetryBatch, Abort, Phases
<1>6. CASE FailBatch(r)
  <2>1. batch' \in [Runs -> {"none", "open", "sent", "applied", "lost"}]
    BY <1>6 DEF FailBatch, Abort
  <2> QED  BY <1>6, <2>1 DEF FailBatch, Phases
<1>7. CASE LimitReached(r)  BY <1>7 DEF LimitReached, Phases
<1>8. CASE Finish(r)
  <2>1. CASE Holds(r)  BY <1>1, <1>8, <2>1 DEF Finish, Phases
  <2>2. CASE ~Holds(r)  BY <1>8, <2>2, AbsentOK DEF Finish, Exit, Phases
  <2> QED  BY <2>1, <2>2
<1>9. CASE Interrupt(r)  BY <1>9 DEF Interrupt, Phases
<1>10. CASE Crash(r)  BY <1>10, AbsentOK DEF Crash, Exit, Phases
<1>11. CASE LoseBatch(r)  BY <1>11 DEF LoseBatch
<1> QED  BY <1>2, <1>3, <1>4, <1>5, <1>6, <1>7, <1>8, <1>9, <1>10, <1>11

LEMMA ReadingTypes ==
  ASSUME TypeOK, NEW r \in Runs,
         Read(r) \/ FindExisting(r) \/ Reconcile(r) \/ FindRunning(r)
  PROVE  TypeOK'
<1> USE DEF TypeOK, Goto, store
<1>1. \A m \in Migrations : ledger[m] \in Records
  OBVIOUS
<1>2. CASE Read(r)  BY <1>1, <1>2 DEF Read, Decide, Phases
<1>3. CASE FindExisting(r)  BY <1>1, <1>3 DEF FindExisting, Phases
<1>4. CASE Reconcile(r)  BY <1>1, <1>4 DEF Reconcile, Phases
<1>5. CASE FindRunning(r)  BY <1>1, <1>5 DEF FindRunning, Phases
<1> QED  BY <1>2, <1>3, <1>4, <1>5

LEMMA UpdateTypes ==
  ASSUME TypeOK, NEW r \in Runs, NEW ttl \in 0..LeaseDuration, NEW next \in Phases, Update(r, ttl, next)
  PROVE  /\ lease' \in [holder: Runs \cup {None}, ttl: 0..LeaseDuration, revision: Nat]
         /\ handle' \in [Runs -> Nat]
         /\ phase' \in [Runs -> Phases]
<1>1. lease.revision + 1 \in Nat /\ handle[r] + 1 \in Nat
  BY DEF TypeOK
<1>2. lease' \in [holder: Runs \cup {None}, ttl: 0..LeaseDuration, revision: Nat]
  BY <1>1 DEF TypeOK, Update
<1>3. phase' \in [Runs -> Phases]
  BY DEF TypeOK, Update, Goto, Phases
<1> QED  BY <1>1, <1>2, <1>3 DEF TypeOK, Update

LEMMA LeaseTypes ==
  ASSUME TypeOK, NEW r \in Runs,
         Acquire(r) \/ Claim(r) \/ Renew(r) \/ Release(r)
  PROVE  TypeOK'
<1> USE LeaseAssumption DEF TypeOK, Goto, store
<1>1. /\ lease.revision + 1 \in Nat /\ handle[r] + 1 \in Nat
      /\ 0 \in 0..LeaseDuration /\ LeaseDuration \in 0..LeaseDuration
  OBVIOUS
<1>2. CASE Acquire(r)  BY <1>1, <1>2 DEF Acquire, Phases
<1>3. CASE Claim(r)
  <2>1. CASE Current(r)
    BY <1>3, <2>1, UpdateTypes DEF Claim, Phases
  <2>2. CASE ~Current(r)
    BY <1>3, <2>2 DEF Claim, Phases
  <2> QED  BY <2>1, <2>2
<1>4. CASE Renew(r)
  <2>1. CASE Current(r)
    BY <1>1, <1>4, <2>1, UpdateTypes DEF Renew, Phases
  <2>2. CASE ~Current(r)
    BY <1>4, <2>2 DEF Renew, Phases
  <2> QED  BY <2>1, <2>2
<1>5. CASE Release(r)
  <2>1. lease' \in [holder: Runs \cup {None}, ttl: 0..LeaseDuration, revision: Nat]
    BY <1>1, <1>5 DEF Release
  <2> QED  BY <1>5, <2>1, AbsentOK DEF Release, Exit, Phases
<1> QED  BY <1>2, <1>3, <1>4, <1>5

LEMMA TickTypes == TypeOK /\ Tick => TypeOK'
<1> SUFFICES ASSUME TypeOK, Tick PROVE TypeOK'
  OBVIOUS
<1>1. lease.ttl - 1 \in 0..LeaseDuration
  BY LeaseAssumption DEF TypeOK, Tick
<1> QED  BY <1>1 DEF TypeOK, Tick

LEMMA ProceedTypes ==
  ASSUME TypeOK, NEW r \in Runs, Proceed(r)
  PROVE  at' \in [Runs -> Migrations] /\ phase' \in [Runs -> Phases]
<1>1. command[r].target \in Migrations /\ at[r] \in 1..Count /\ Count \in Nat
  BY RegistryAssumption DEF TypeOK, AllCommands, Migrations
<1>2. at[r] < command[r].target => at[r] + 1 \in Migrations
  BY <1>1 DEF Migrations
<1> QED  BY <1>2 DEF TypeOK, Proceed, Goto, Phases

LEMMA ConfirmTypes ==
  ASSUME TypeOK, NEW r \in Runs, RunOK(r), Confirm(r) \/ Refresh(r)
  PROVE  TypeOK'
<1>1. CASE Confirm(r)
  <2>1. Progress(got[r]) \in Records
    BY <1>1, ProgressOK DEF Confirm, RunOK, Sane, Working, TypeOK
  <2>2. handle[r] + 2 \in Nat
    BY DEF TypeOK
  <2>3. at' \in [Runs -> Migrations] /\ phase' \in [Runs -> Phases]
    BY <1>1, ProceedTypes DEF Confirm, TypeOK, Goto, Phases
  <2> QED  BY <1>1, <2>1, <2>2, <2>3 DEF Confirm, Abort, TypeOK, store
<1>2. CASE Refresh(r)
  <2>1. at' \in [Runs -> Migrations] /\ phase' \in [Runs -> Phases]
    BY <1>2, ProceedTypes DEF Refresh, TypeOK, Goto, Phases
  <2>2. handle' \in [Runs -> Nat]
    BY <1>2 DEF Refresh, TypeOK
  <2> QED  BY <1>2, <2>1, <2>2 DEF Refresh, Abort, TypeOK, store
<1> QED  BY <1>1, <1>2

LEMMA WritingTypes ==
  ASSUME TypeOK, LedgerInv, NEW r \in Runs, RunOK(r),
         Begin(r) \/ ApplyBatch(r) \/ MarkFailed(r)
  PROVE  TypeOK'
<1>1. CASE Begin(r)
  <2>1. Begun(r, got[r]) \in Records
    BY <1>1, BegunOK DEF Begin, RunOK, Sane, TypeOK, AllCommands
  <2>2. overran' \in BOOLEAN
    BY <1>1 DEF Begin, TypeOK
  <2>3. ledger' \in [Migrations -> Records] /\ got' \in [Runs -> Records]
    BY <1>1, <2>1 DEF Begin, TypeOK
  <2>4. phase' \in [Runs -> Phases]
    BY <1>1 DEF Begin, TypeOK, Goto, Phases
  <2> QED  BY <1>1, <2>2, <2>3, <2>4 DEF Begin, TypeOK
<1>2. CASE ApplyBatch(r)
  <2>1. Progress(ledger[at[r]]) \in Records
    BY <1>2, ProgressOK DEF ApplyBatch, RunOK, Fenced, LedgerInv, TypeOK
  <2>2. Converted(at[r], ledger[at[r]]) \in SUBSET (1..Batches)
    <3>1. /\ Converted(at[r], ledger[at[r]])
               = 1..(Progress(ledger[at[r]]).up - Progress(ledger[at[r]]).down)
      BY <1>2, ConvertedOK DEF ApplyBatch, RunOK, Fenced, LedgerInv, TypeOK
    <3>2. /\ Progress(ledger[at[r]]).up \in 0..Batches
          /\ Progress(ledger[at[r]]).down \in 0..Batches
      BY <2>1 DEF Records
    <3> QED  BY <3>1, <3>2, RegistryAssumption
  <2>3. lease.revision + 2 \in Nat
    BY DEF TypeOK
  <2> QED  BY <1>2, <2>1, <2>2, <2>3 DEF ApplyBatch, TypeOK
<1>3. CASE MarkFailed(r)
  <2>1. /\ ledger[at[r]].revision + 1 \in Nat
        /\ Failed(ledger[at[r]].status) \in Statuses
    BY DEF TypeOK, Records, Failed, Statuses
  <2>2. [ledger[at[r]] EXCEPT !.status = Failed(@), !.revision = @ + 1] \in Records
    <3>1. ledger[at[r]] \in Records
      BY DEF TypeOK
    <3> QED  BY <2>1, <3>1 DEF Records
  <2>3. ledger' \in [Migrations -> Records]
    BY <1>3, <2>2 DEF MarkFailed, TypeOK
  <2> QED  BY <1>3, <2>3 DEF MarkFailed, TypeOK, Goto, Phases
<1> QED  BY <1>1, <1>2, <1>3

LEMMA TypeStep ==
  ASSUME TypeOK, LedgerInv, \A r \in Runs : RunOK(r), [Next]_vars
  PROVE  TypeOK'
<1>1. CASE UNCHANGED vars
  BY <1>1 DEF vars, store, TypeOK
<1>2. CASE Tick
  BY <1>2, TickTypes
<1>3. ASSUME NEW r \in Runs, Step(r) \/ ApplyBatch(r) \/ LoseBatch(r) \/ Interrupt(r) \/ Crash(r)
      PROVE  TypeOK'
  BY <1>3, QuietTypes, ReadingTypes, LeaseTypes, ConfirmTypes, WritingTypes DEF Step
<1> QED  BY <1>1, <1>2, <1>3 DEF Next

-----------------------------------------------------------------------------
(* A record that agrees with the one a run has read is that record.        *)
LEMMA SameRecord ==
  ASSUME TypeOK, LedgerInv, NEW r \in Runs, RunOK(r),
         \/ phase[r] = "begin" /\ Unchanged(r)
         \/ phase[r] \in Working /\ Mine(r)
  PROVE  got[r] = ledger[at[r]]
<1>1. Behind(got[r], ledger[at[r]]) /\ got[r].revision = ledger[at[r]].revision
  BY DEF RunOK, Known, Unchanged, Mine
<1>2. got[r] \in Records /\ ledger[at[r]] \in Records /\ WellFormed(ledger[at[r]])
  BY DEF TypeOK, LedgerInv
<1>3. CASE got[r] = Absent
  <2>1. phase[r] = "begin" /\ Unchanged(r)
    BY <1>3 DEF RunOK, Sane, Absent, Active
  <2> QED  BY <1>2, <1>3, <2>1 DEF Unchanged, Absent, WellFormed
<1> QED  BY <1>1, <1>2, <1>3 DEF Behind, Records

(* What the beginning of a migration does to the ledger.                   *)
LEMMA Beginning ==
  ASSUME TypeOK, LedgerInv, NEW r \in Runs, RunOK(r), Begin(r)
  PROVE  \/ UNCHANGED <<ledger, got, overran>> /\ phase'[r] = "finish"
         \/ /\ got[r] = ledger[at[r]]
            /\ ledger[at[r]].status \in Beginnings(command[r].name)
            /\ command[r].name \in {"apply", "resume", "rollback"}
            /\ ledger' = [ledger EXCEPT ![at[r]] = Begun(r, ledger[at[r]])]
            /\ got' = [got EXCEPT ![r] = Begun(r, ledger[at[r]])]
            /\ overran' = (overran \/ lease.holder # r)
            /\ phase'[r] \in {"renew", "finish"}
<1>1. CASE Unchanged(r)
  <2>1. got[r] = ledger[at[r]]
    BY <1>1, SameRecord DEF Begin
  <2>2. /\ got[r].status \in Beginnings(command[r].name)
        /\ command[r].name \in {"apply", "resume", "rollback"}
    BY DEF Begin, RunOK, Sane, TypeOK, AllCommands
  <2> QED  BY <1>1, <2>1, <2>2 DEF Begin, Goto, TypeOK
<1>2. CASE ~Unchanged(r)
  BY <1>2 DEF Begin, Goto, TypeOK
<1> QED  BY <1>1, <1>2

(* What a failure does to it.                                              *)
LEMMA Failing ==
  ASSUME TypeOK, LedgerInv, NEW r \in Runs, RunOK(r), MarkFailed(r)
  PROVE  /\ phase'[r] = "finish"
         /\ \/ ledger' = ledger
            \/ /\ ledger[at[r]].run = r /\ ledger[at[r]].status \in Active
               /\ ledger' = [ledger EXCEPT ![at[r]] =
                     [ledger[at[r]] EXCEPT !.status = Failed(@), !.revision = @ + 1]]
<1>1. phase'[r] = "finish"
  BY DEF MarkFailed, Goto, TypeOK
<1>2. CASE Mine(r)
  <2>1. got[r] = ledger[at[r]] /\ got[r].status \in Active /\ got[r].run = r
    BY <1>2, SameRecord DEF MarkFailed, Working, RunOK, Sane
  <2> QED  BY <1>1, <1>2, <2>1 DEF MarkFailed, TypeOK
<1>3. CASE ~Mine(r)
  BY <1>1, <1>3 DEF MarkFailed
<1> QED  BY <1>2, <1>3

(* A failed record has done as much as it had when it was active.          *)
LEMMA FailedOK ==
  ASSUME NEW record \in Records, WellFormed(record), record.status \in Active,
         NEW new, new = [record EXCEPT !.status = Failed(@), !.revision = @ + 1]
  PROVE  /\ WellFormed(new) /\ new.status = Failed(record.status)
         /\ new.up = record.up /\ new.down = record.down /\ new.run = record.run
         /\ new.revision = record.revision + 1
<1>1. /\ new.status = Failed(record.status)
      /\ new.up = record.up /\ new.down = record.down /\ new.run = record.run
      /\ new.revision = record.revision + 1
  BY DEF Records
<1> QED  BY <1>1 DEF WellFormed, Failed, Forward, Active, Records

(* A commit that takes effect.                                             *)
LEMMA Committing ==
  ASSUME TypeOK, LedgerInv, NEW r \in Runs, RunOK(r), ApplyBatch(r)
  PROVE  /\ lease.holder = r /\ ledger[at[r]].run = r /\ ledger[at[r]].status \in Active
         /\ ledger' = [ledger EXCEPT ![at[r]] = Progress(ledger[at[r]])]
         /\ domain' = [domain EXCEPT ![at[r]] = Converted(at[r], ledger[at[r]])]
         /\ lease'.holder = lease.holder
         /\ batch' = [batch EXCEPT ![r] = "applied"]
<1>1. lease'.holder = lease.holder
  BY DEF ApplyBatch, TypeOK
<1> QED  BY <1>1 DEF ApplyBatch, RunOK, Fenced

(* The ledger and the documents, under every step.                         *)
LEMMA LedgerStep ==
  ASSUME TypeOK, LedgerInv, \A r \in Runs : RunOK(r), [Next]_vars
  PROVE  LedgerInv'
<1>1. CASE UNCHANGED <<ledger, domain>>
  BY <1>1 DEF LedgerInv, WellFormed
<1>2. ASSUME NEW r \in Runs, NEW new, WellFormed(new), NEW docs, docs = 1..(new.up - new.down),
             ledger' = [ledger EXCEPT ![at[r]] = new], domain' = [domain EXCEPT ![at[r]] = docs]
      PROVE  LedgerInv'
  <2>1. ASSUME NEW m \in Migrations
        PROVE  WellFormed(ledger'[m]) /\ domain'[m] = 1..(ledger'[m].up - ledger'[m].down)
    <3>1. CASE m = at[r]
      <4>1. ledger'[m] = new /\ domain'[m] = docs
        BY <1>2, <3>1 DEF TypeOK
      <4> QED  BY <1>2, <4>1
    <3>2. CASE m # at[r]
      <4>1. ledger'[m] = ledger[m] /\ domain'[m] = domain[m]
        BY <1>2, <3>2 DEF TypeOK
      <4> QED  BY <4>1 DEF LedgerInv
    <3> QED  BY <3>1, <3>2
  <2> QED  BY <2>1 DEF LedgerInv, WellFormed
<1>3. ASSUME NEW r \in Runs
      PROVE  /\ ledger[at[r]] \in Records /\ WellFormed(ledger[at[r]])
             /\ domain[at[r]] = 1..(ledger[at[r]].up - ledger[at[r]].down)
             /\ domain = [domain EXCEPT ![at[r]] = domain[at[r]]]
  BY DEF TypeOK, LedgerInv
<1>4. ASSUME NEW r \in Runs, Begin(r) PROVE LedgerInv'
  <2>1. CASE UNCHANGED ledger
    BY <1>1, <1>4, <2>1 DEF Begin
  <2>2. CASE /\ ledger' = [ledger EXCEPT ![at[r]] = Begun(r, ledger[at[r]])]
             /\ ledger[at[r]].status \in Beginnings(command[r].name)
             /\ command[r].name \in {"apply", "resume", "rollback"}
    <3>1. /\ WellFormed(Begun(r, ledger[at[r]]))
          /\ domain[at[r]] = 1..(Begun(r, ledger[at[r]]).up - Begun(r, ledger[at[r]]).down)
      BY <1>3, <2>2, BegunOK
    <3>2. domain' = [domain EXCEPT ![at[r]] = domain[at[r]]]
      BY <1>3, <1>4 DEF Begin
    <3> HIDE <1>3
    <3> QED  BY <1>2, <2>2, <3>1, <3>2
  <2> QED  BY <1>4, <2>1, <2>2, Beginning
<1>5. ASSUME NEW r \in Runs, ApplyBatch(r) PROVE LedgerInv'
  <2>1. /\ ledger[at[r]].status \in Active
        /\ ledger' = [ledger EXCEPT ![at[r]] = Progress(ledger[at[r]])]
        /\ domain' = [domain EXCEPT ![at[r]] = Converted(at[r], ledger[at[r]])]
    BY <1>5, Committing
  <2>2. at[r] \in Migrations
    BY DEF TypeOK
  <2>3. /\ Converted(at[r], ledger[at[r]])
             = 1..(Progress(ledger[at[r]]).up - Progress(ledger[at[r]]).down)
        /\ WellFormed(Progress(ledger[at[r]]))
    BY <1>3, <2>1, <2>2, ProgressOK, ConvertedOK
  <2> QED  BY <1>2, <2>1, <2>3
<1>6. ASSUME NEW r \in Runs, MarkFailed(r) PROVE LedgerInv'
  <2>1. CASE UNCHANGED ledger
    BY <1>1, <1>6, <2>1 DEF MarkFailed
  <2> DEFINE new == [ledger[at[r]] EXCEPT !.status = Failed(@), !.revision = @ + 1]
  <2>2. CASE ledger[at[r]].status \in Active /\ ledger' = [ledger EXCEPT ![at[r]] = new]
    <3>1. WellFormed(new) /\ domain[at[r]] = 1..(new.up - new.down)
      <4>1. WellFormed(new) /\ new.up = ledger[at[r]].up /\ new.down = ledger[at[r]].down
        BY <1>3, <2>2, FailedOK
      <4> QED  BY <1>3, <4>1
    <3>2. domain' = [domain EXCEPT ![at[r]] = domain[at[r]]]
      BY <1>3, <1>6 DEF MarkFailed
    <3> HIDE DEF new
    <3> QED  BY <1>2, <2>2, <3>1, <3>2
  <2> QED  BY <1>6, <2>1, <2>2, Failing
<1> QED
  BY <1>1, <1>4, <1>5, <1>6
  DEF Next, Step, vars, store, Check, Acquire, Read, Claim, FindExisting, Renew, OpenBatch, SendBatch,
      RetryBatch, Confirm, FailBatch, Reconcile, Refresh, FindRunning, LimitReached, Finish, Release,
      LoseBatch, Interrupt, Crash, Tick

-----------------------------------------------------------------------------
(* What the steps of others leave a run with.                              *)
Later(old, new) == new = old \/ old = Absent \/ new.revision > old.revision

LEMMA Frame ==
  ASSUME TypeOK, TypeOK', NEW q \in Runs, RunOK(q), command' = command,
         phase'[q] = phase[q], at'[q] = at[q], got'[q] = got[q], batch'[q] = batch[q],
         Later(ledger[at[q]], ledger'[at[q]]),
         batch[q] = "sent" => ledger'[at[q]] = ledger[at[q]],
         \/ lease'.holder = lease.holder
         \/ lease'.holder # q /\ batch[q] \notin {"open", "sent"}
  PROVE  RunOK(q)'
<1>1. Sane(q)'
  BY DEF RunOK, Sane, WellFormed, Beginnings
<1>2. Fenced(q)'
  BY DEF RunOK, Fenced
<1>3. Known(q)'
  <2>1. /\ got[q] \in Records /\ ledger[at[q]] \in Records /\ ledger'[at[q]] \in Records
        /\ Absent.revision = 0
    BY DEF TypeOK, Absent
  <2>2. ASSUME NEW copy, copy.revision \in Nat, Behind(copy, ledger[at[q]])
        PROVE  Behind(copy, ledger'[at[q]])
    BY <2>1, <2>2 DEF Behind, Later, Records
  <2>3. ASSUME phase[q] = "commit", batch[q] = "applied"
        PROVE  got[q].revision < ledger'[at[q]].revision
    BY <2>1, <2>3 DEF RunOK, Known, Later, Records
  <2>4. ASSUME phase[q] = "commit"
        PROVE  Progress(got[q]).revision \in Nat
    BY <2>1, <2>4, ProgressOK DEF RunOK, Sane, Working, Records
  <2>5. got[q].revision \in Nat
    BY <2>1 DEF Records
  <2> QED  BY <2>2, <2>3, <2>4, <2>5 DEF RunOK, Known, Progress
<1> QED  BY <1>1, <1>2, <1>3 DEF RunOK

(* Steps after which a run has nothing in hand that matters.               *)
LEMMA Settles ==
  ASSUME TypeOK, NEW r \in Runs, RunOK(r), command' = command,
         at'[r] = at[r], ledger' = ledger, lease'.holder = lease.holder,
         got'[r] = got[r] \/ got'[r] = Absent,
         phase'[r] \in {"finish", "release", "ended"}, phase[r] # "ended",
         batch'[r] = batch[r], phase[r] = "held" => phase'[r] = "ended"
  PROVE  RunOK(r)'
<1>1. Sane(r)'
  BY AbsentOK DEF RunOK, Sane, WellFormed, Beginnings, Working
<1>2. Fenced(r)'
  BY DEF RunOK, Fenced
<1>3. Known(r)'
  BY DEF Known, Working
<1> QED  BY <1>1, <1>2, <1>3 DEF RunOK

(* A step of one run leaves the memory of the others alone ...             *)
LEMMA Others ==
  ASSUME TypeOK, NEW r \in Runs, NEW q \in Runs, q # r,
         Step(r) \/ ApplyBatch(r) \/ LoseBatch(r) \/ Interrupt(r) \/ Crash(r)
  PROVE  /\ command' = command
         /\ phase'[q] = phase[q] /\ at'[q] = at[q] /\ got'[q] = got[q] /\ batch'[q] = batch[q]
<1> USE DEF TypeOK, Goto, store
<1>1. CASE Check(r) \/ Acquire(r) \/ Read(r) \/ Claim(r) \/ FindExisting(r) \/ Begin(r) \/ Renew(r)
  BY <1>1 DEF Check, Acquire, Read, Decide, Claim, Update, FindExisting, Begin, Renew
<1>2. CASE OpenBatch(r) \/ SendBatch(r) \/ RetryBatch(r) \/ FailBatch(r)
  BY <1>2 DEF OpenBatch, SendBatch, RetryBatch, FailBatch, Abort
<1>3. CASE Confirm(r) \/ Refresh(r)
  BY <1>3 DEF Confirm, Refresh, Proceed, Abort
<1>4. CASE Reconcile(r) \/ FindRunning(r) \/ MarkFailed(r) \/ LimitReached(r)
  BY <1>4 DEF Reconcile, FindRunning, MarkFailed, LimitReached
<1>5. CASE Finish(r) \/ Release(r) \/ ApplyBatch(r) \/ LoseBatch(r) \/ Interrupt(r) \/ Crash(r)
  BY <1>5 DEF Finish, Release, Exit, ApplyBatch, LoseBatch, Interrupt, Crash
<1> QED  BY <1>1, <1>2, <1>3, <1>4, <1>5 DEF Step

(* ... and what it does to the store they can live with.                  *)
LEMMA OthersStay ==
  ASSUME TypeOK, TypeOK', LedgerInv, NEW r \in Runs, NEW q \in Runs, q # r, RunOK(r), RunOK(q),
         Step(r) \/ ApplyBatch(r) \/ LoseBatch(r) \/ Interrupt(r) \/ Crash(r)
  PROVE  RunOK(q)'
<1>1. /\ command' = command
      /\ phase'[q] = phase[q] /\ at'[q] = at[q] /\ got'[q] = got[q] /\ batch'[q] = batch[q]
  BY Others
<1>2. CASE ledger' = ledger /\ lease'.holder = lease.holder
  BY <1>1, <1>2, Frame DEF Later
<1>3. CASE Acquire(r) \/ Release(r)
  <2>1. CASE Locked
    BY <1>3, <1>2, <2>1 DEF Acquire, Release
  <2>2. CASE ~Locked
    <3>1. /\ ledger' = ledger
          /\ lease'.holder = lease.holder \/ lease'.holder # q
          /\ batch[q] \notin {"open", "sent"}
      BY <1>3, <2>2, LeaseAssumption DEF Acquire, Release, Locked
    <3> QED  BY <1>1, <3>1, Frame DEF Later
  <2> QED  BY <2>1, <2>2
<1>4. ASSUME NEW new \in Records, ledger' = [ledger EXCEPT ![at[r]] = new],
             ledger[at[r]] = Absent \/ new.revision > ledger[at[r]].revision,
             batch[q] = "sent" => at[q] # at[r], lease'.holder = lease.holder
      PROVE  RunOK(q)'
  <2>1. Later(ledger[at[q]], ledger'[at[q]]) /\ (batch[q] = "sent" => ledger'[at[q]] = ledger[at[q]])
    BY <1>4 DEF Later, TypeOK
  <2> QED  BY <1>1, <1>4, <2>1, Frame
<1>5. at[r] \in Migrations /\ ledger[at[r]] \in Records /\ WellFormed(ledger[at[r]])
  BY DEF TypeOK, LedgerInv
<1>6. CASE Begin(r)
  <2>1. batch[q] = "sent" => at[q] # at[r]
    BY <1>6 DEF Begin, Written
  <2>2. lease'.holder = lease.holder
    BY <1>6 DEF Begin
  <2>3. CASE ledger' = ledger
    BY <1>2, <2>2, <2>3
  <2>4. CASE /\ ledger' = [ledger EXCEPT ![at[r]] = Begun(r, ledger[at[r]])]
             /\ ledger[at[r]].status \in Beginnings(command[r].name)
             /\ command[r].name \in {"apply", "resume", "rollback"}
    <3>1. /\ Begun(r, ledger[at[r]]) \in Records
          /\ \/ ledger[at[r]] = Absent
             \/ Begun(r, ledger[at[r]]).revision > ledger[at[r]].revision
      BY <1>5, <2>4, BegunOK DEF Records
    <3> QED  BY <1>4, <2>1, <2>2, <2>4, <3>1
  <2> QED  BY <1>6, <2>3, <2>4, Beginning
<1>7. CASE ApplyBatch(r)
  <2>1. /\ ledger[at[r]].run = r /\ ledger[at[r]].status \in Active
        /\ ledger' = [ledger EXCEPT ![at[r]] = Progress(ledger[at[r]])]
        /\ lease'.holder = lease.holder
    BY <1>7, Committing
  <2>2. batch[q] = "sent" => at[q] # at[r]
    BY <2>1 DEF RunOK, Fenced
  <2>3. Progress(ledger[at[r]]) \in Records /\ Progress(ledger[at[r]]).revision > ledger[at[r]].revision
    BY <1>5, <2>1, ProgressOK DEF Records
  <2> QED  BY <1>4, <2>1, <2>2, <2>3
<1>8. CASE MarkFailed(r)
  <2> DEFINE new == [ledger[at[r]] EXCEPT !.status = Failed(@), !.revision = @ + 1]
  <2>1. (batch[q] = "sent" => at[q] # at[r]) /\ lease'.holder = lease.holder
    BY <1>8 DEF MarkFailed, Written
  <2>2. CASE ledger' = ledger
    BY <1>2, <2>1, <2>2
  <2>3. CASE ledger[at[r]].status \in Active /\ ledger' = [ledger EXCEPT ![at[r]] = new]
    <3>1. new.revision > ledger[at[r]].revision
      <4>1. new.revision = ledger[at[r]].revision + 1
        BY <1>5, <2>3, FailedOK
      <4>2. ledger[at[r]].revision \in Nat
        BY <1>5 DEF Records
      <4> QED  BY <4>1, <4>2
    <3>2. new = ledger'[at[r]]
      BY <2>3 DEF TypeOK
    <3>3. new \in Records
      BY <1>5, <3>2 DEF TypeOK
    <3> HIDE DEF new
    <3> QED  BY <1>4, <2>1, <2>3, <3>1, <3>3
  <2> QED  BY <1>8, <2>2, <2>3, Failing
<1> QED
  <2>1. CASE Begin(r) \/ ApplyBatch(r) \/ MarkFailed(r) \/ Acquire(r) \/ Release(r)
    BY <1>3, <1>6, <1>7, <1>8, <2>1
  <2>2. CASE ~(Begin(r) \/ ApplyBatch(r) \/ MarkFailed(r) \/ Acquire(r) \/ Release(r))
    <3>1. ledger' = ledger
      BY <2>2 DEF Step, store, Check, Read, Claim, FindExisting, Renew, OpenBatch, SendBatch,
         RetryBatch, Confirm, FailBatch, Reconcile, Refresh, FindRunning, LimitReached, Finish,
         LoseBatch, Interrupt, Crash
    <3>2. lease'.holder = lease.holder
      BY <2>2 DEF TypeOK, Step, store, Check, Read, Claim, FindExisting, Renew, OpenBatch, SendBatch,
         RetryBatch, Confirm, FailBatch, Reconcile, Refresh, FindRunning, LimitReached, Finish,
         LoseBatch, Interrupt, Crash, Update
    <3> QED  BY <1>2, <3>1, <3>2
  <2> QED  BY <2>1, <2>2

(* The steps of a run.                                                     *)
LEMMA OwnStep ==
  ASSUME TypeOK, TypeOK', LedgerInv, NEW r \in Runs, RunOK(r),
         Step(r) \/ ApplyBatch(r) \/ LoseBatch(r) \/ Interrupt(r) \/ Crash(r)
  PROVE  RunOK(r)'
<1> USE DEF Goto, store
<1>1. /\ got[r] \in Records /\ ledger[at[r]] \in Records /\ at[r] \in Migrations
      /\ WellFormed(ledger[at[r]]) /\ WellFormed(got[r])
  BY DEF TypeOK, LedgerInv, RunOK, Sane
<1>2. CASE Check(r)
  <2>1. Sane(r)' BY <1>2 DEF Check, RunOK, Sane, TypeOK, WellFormed, Working
  <2>2. Known(r)' BY <1>2 DEF Check, Known, TypeOK, Working
  <2>3. Fenced(r)' BY <1>2 DEF Check, RunOK, Fenced, TypeOK
  <2> QED  BY <2>1, <2>2, <2>3 DEF RunOK
<1>3. CASE Acquire(r)
  <2>1. Sane(r)' BY <1>3 DEF Acquire, RunOK, Sane, TypeOK, WellFormed, Working
  <2>2. Known(r)' BY <1>3 DEF Acquire, Known, TypeOK, Working
  <2>3. Fenced(r)' BY <1>3 DEF Acquire, RunOK, Fenced, TypeOK, Locked
  <2> QED  BY <2>1, <2>2, <2>3 DEF RunOK
<1>4. CASE Read(r)
  <2>1. CASE \E m \in Migrations : Eligible(r, m) /\ Decide(r, m)
    <3>1. PICK m \in Migrations : Eligible(r, m) /\ Decide(r, m)
      BY <2>1
    <3>2. at'[r] = m /\ got'[r] = ledger[m] /\ phase'[r] = "claim" /\ ledger' = ledger /\ batch' = batch
          /\ lease' = lease /\ command' = command
      BY <1>4, <3>1 DEF Read, Decide, TypeOK
    <3>3. command[r].name # "apply" => ledger[m].status \in Beginnings(command[r].name)
      BY <3>1 DEF Eligible, ApplyNext, ResumePoint, RollbackTarget, Beginnings, Applied, Recovery
    <3>4. WellFormed(ledger[m])
      BY DEF LedgerInv
    <3>5. Sane(r)' BY <1>4, <3>2, <3>3, <3>4 DEF Read, RunOK, Sane, WellFormed, Beginnings, Working
    <3>6. Known(r)' BY <3>2 DEF Known, Working, Behind
    <3>7. Fenced(r)' BY <1>4, <3>2 DEF Read, RunOK, Fenced
    <3> QED  BY <3>5, <3>6, <3>7 DEF RunOK
  <2>2. CASE phase'[r] = "finish" /\ UNCHANGED <<at, got>>
    BY <1>4, <2>2, Settles DEF Read
  <2> QED  BY <1>4, <2>1, <2>2 DEF Read, TypeOK
<1>5. CASE Claim(r)
  <2>1. /\ phase'[r] \in {"existing", "begin", "finish"} /\ phase[r] = "claim" /\ lease'.holder = lease.holder
        /\ (phase'[r] = "existing" => command[r].name = "apply")
        /\ (phase'[r] = "begin" => command[r].name # "apply")
        /\ UNCHANGED <<ledger, command, at, got, batch>>
    BY <1>5 DEF Claim, Update, TypeOK
  <2>2. Sane(r)' BY <2>1 DEF RunOK, Sane, WellFormed, Beginnings, Working
  <2>3. Known(r)' BY <2>1 DEF RunOK, Known, Working, Behind
  <2>4. Fenced(r)' BY <2>1 DEF RunOK, Fenced
  <2> QED  BY <2>2, <2>3, <2>4 DEF RunOK
<1>6. CASE FindExisting(r)
  <2>1. /\ got'[r] = ledger[at[r]] /\ phase'[r] \in {"begin", "finish"} /\ phase[r] = "existing"
        /\ (phase'[r] = "begin" => ledger[at[r]].status \in {"absent", "rolled_back"})
        /\ UNCHANGED <<ledger, lease, command, at, batch>>
    BY <1>6 DEF FindExisting, TypeOK
  <2>2. Sane(r)' BY <1>1, <2>1 DEF RunOK, Sane, WellFormed, Beginnings, Working
  <2>3. Known(r)' BY <2>1 DEF RunOK, Known, Working, Behind
  <2>4. Fenced(r)' BY <2>1 DEF RunOK, Fenced
  <2> QED  BY <2>2, <2>3, <2>4 DEF RunOK
<1>7. CASE Begin(r)
  <2>1. phase[r] = "begin" /\ UNCHANGED <<lease, command, at, batch>>
    BY <1>7 DEF Begin
  <2>2. CASE UNCHANGED <<ledger, got>> /\ phase'[r] = "finish"
    BY <2>1, <2>2, Settles
  <2>3. CASE /\ ledger[at[r]].status \in Beginnings(command[r].name)
             /\ command[r].name \in {"apply", "resume", "rollback"}
             /\ ledger' = [ledger EXCEPT ![at[r]] = Begun(r, ledger[at[r]])]
             /\ got' = [got EXCEPT ![r] = Begun(r, ledger[at[r]])]
             /\ phase'[r] \in {"renew", "finish"}
    <3>1. ledger'[at[r]] = got'[r] /\ got'[r] = Begun(r, ledger[at[r]])
      BY <1>1, <2>3 DEF TypeOK
    <3>2. /\ WellFormed(got'[r]) /\ got'[r].run = r /\ got'[r].status \in Active
          /\ command[r].name = "apply" => got'[r].status = "applying"
      BY <1>1, <2>3, <3>1, BegunOK
    <3>3. Sane(r)' BY <2>1, <2>3, <3>2 DEF RunOK, Sane, WellFormed, Beginnings, Working, Forward
    <3>4. Known(r)' BY <2>1, <2>3, <3>1 DEF Known, Working, Behind
    <3>5. Fenced(r)' BY <2>1, <2>3 DEF RunOK, Fenced
    <3> QED  BY <3>3, <3>4, <3>5 DEF RunOK
  <2> QED  BY <1>7, <2>2, <2>3, Beginning
<1>8. CASE Renew(r) \/ LimitReached(r)
  <2>1. /\ phase'[r] \in {"batch", "finish", "running"} /\ phase[r] = "renew" /\ lease'.holder = lease.holder
        /\ UNCHANGED <<ledger, command, at, got, batch>>
    BY <1>8 DEF Renew, LimitReached, Update, TypeOK
  <2>2. Sane(r)' BY <2>1 DEF RunOK, Sane, WellFormed, Beginnings, Working
  <2>3. Known(r)' BY <2>1 DEF RunOK, Known, Working, Behind
  <2>4. Fenced(r)' BY <2>1 DEF RunOK, Fenced
  <2> QED  BY <2>2, <2>3, <2>4 DEF RunOK
<1>9. CASE OpenBatch(r)
  <2>1. /\ phase[r] = "batch" /\ UNCHANGED <<ledger, lease, command, at, got>>
        /\ \/ phase'[r] = "held" /\ batch'[r] = "open" /\ lease.holder = r
           \/ phase'[r] = "reconcile" /\ batch'[r] = batch[r]
    BY <1>9 DEF OpenBatch, TypeOK, Current, Holds
  <2>2. Sane(r)' BY <2>1 DEF RunOK, Sane, WellFormed, Beginnings, Working
  <2>3. Known(r)' BY <2>1 DEF RunOK, Known, Working, Behind
  <2>4. Fenced(r)' BY <2>1 DEF RunOK, Fenced
  <2> QED  BY <2>2, <2>3, <2>4 DEF RunOK
<1>10. CASE SendBatch(r)
  <2>1. /\ phase[r] = "held" /\ phase'[r] = "commit" /\ batch'[r] = "sent" /\ Mine(r)
        /\ UNCHANGED <<ledger, lease, command, at, got>>
    BY <1>10 DEF SendBatch, TypeOK
  <2>2. got[r] = ledger[at[r]]
    BY <2>1, SameRecord DEF Working
  <2>3. Sane(r)' BY <2>1 DEF RunOK, Sane, WellFormed, Beginnings, Working
  <2>4. Known(r)' BY <2>1 DEF RunOK, Known, Working, Behind
  <2>5. Fenced(r)' BY <2>1, <2>2 DEF RunOK, Sane, Fenced, Working
  <2> QED  BY <2>3, <2>4, <2>5 DEF RunOK
<1>11. CASE RetryBatch(r)
  <2>1. /\ phase[r] \in {"held", "commit"} /\ phase'[r] = "batch" /\ batch'[r] = "none"
        /\ UNCHANGED <<ledger, lease, command, at, got>>
    BY <1>11 DEF RetryBatch, Abort, TypeOK
  <2>2. Sane(r)' BY <2>1 DEF RunOK, Sane, WellFormed, Beginnings, Working
  <2>3. Known(r)' BY <2>1 DEF RunOK, Known, Working, Behind
  <2>4. Fenced(r)' BY <2>1 DEF RunOK, Fenced
  <2> QED  BY <2>2, <2>3, <2>4 DEF RunOK
<1>12. CASE FailBatch(r)
  <2>1. /\ phase[r] \in {"batch", "held", "commit"} /\ phase'[r] = "reconcile"
        /\ batch'[r] = "none" \/ (batch'[r] = batch[r] /\ phase[r] # "held")
        /\ UNCHANGED <<ledger, lease, command, at, got>>
    BY <1>12 DEF FailBatch, Abort, TypeOK
  <2>2. Sane(r)' BY <2>1 DEF RunOK, Sane, WellFormed, Beginnings, Working
  <2>3. Known(r)' BY <2>1 DEF RunOK, Known, Working, Behind
  <2>4. Fenced(r)' BY <2>1 DEF RunOK, Fenced
  <2> QED  BY <2>2, <2>3, <2>4 DEF RunOK
<1>13. CASE ApplyBatch(r)
  <2>1. /\ ledger[at[r]].status \in Active /\ ledger'[at[r]] = Progress(ledger[at[r]])
        /\ lease'.holder = lease.holder /\ batch[r] = "sent" /\ batch'[r] = "applied"
        /\ UNCHANGED <<command, phase, at, got>>
    <3>1. /\ ledger[at[r]].status \in Active /\ lease'.holder = lease.holder
          /\ ledger' = [ledger EXCEPT ![at[r]] = Progress(ledger[at[r]])]
      BY <1>13, Committing
    <3> QED  BY <1>1, <1>13, <3>1 DEF ApplyBatch, TypeOK
  <2>2. ledger'[at[r]].revision > ledger[at[r]].revision
    BY <1>1, <2>1, ProgressOK DEF Records
  <2>3. Sane(r)' BY <2>1 DEF RunOK, Sane, WellFormed, Beginnings, Working
  <2>4. Known(r)'
    <3>1. /\ phase[r] \in {"commit", "reconcile", "running", "mark", "finish", "release", "ended"}
          /\ phase[r] = "commit" => got[r] = ledger[at[r]]
      BY <2>1 DEF RunOK, Fenced
    <3>2. Absent.revision = 0
      BY DEF Absent
    <3>3. ASSUME phase[r] \in Working PROVE Behind(got[r], ledger'[at[r]])
      <4>1. Behind(got[r], ledger[at[r]])
        BY <3>3 DEF RunOK, Known
      <4>2. /\ got[r].revision \in Nat /\ ledger[at[r]].revision \in Nat
            /\ ledger'[at[r]].revision \in Nat
        BY <1>1, <2>1 DEF Records, TypeOK
      <4> QED  BY <2>2, <4>1, <4>2 DEF Behind
    <3>4. phase[r] = "commit" =>
            got[r].revision < ledger'[at[r]].revision /\ Behind(Progress(got[r]), ledger'[at[r]])
      BY <2>1, <2>2, <3>1 DEF Behind
    <3> QED  BY <2>1, <3>1, <3>3, <3>4 DEF Known, Working, Progress
  <2>5. Fenced(r)' BY <2>1 DEF RunOK, Fenced
  <2> QED  BY <2>3, <2>4, <2>5 DEF RunOK
<1>14. CASE LoseBatch(r)
  <2>1. /\ batch'[r] = "lost" /\ (batch[r] = "sent" \/ phase[r] = "ended")
        /\ UNCHANGED <<ledger, lease, command, phase, at, got>>
    BY <1>14 DEF LoseBatch, TypeOK
  <2>2. Sane(r)' BY <2>1 DEF RunOK, Sane, WellFormed, Beginnings, Working
  <2>3. Known(r)' BY <2>1 DEF RunOK, Known, Working, Behind
  <2>4. Fenced(r)' BY <2>1 DEF RunOK, Fenced
  <2> QED  BY <2>2, <2>3, <2>4 DEF RunOK
<1>15. ASSUME Proceed(r), got'[r].status \in Completed, batch'[r] = "none",
              UNCHANGED <<ledger, command>>, lease'.holder = lease.holder, WellFormed(got'[r]),
              phase[r] # "ended"
       PROVE  RunOK(r)'
  <2>1. \/ phase'[r] = "claim" /\ command[r].name = "apply"
        \/ phase'[r] = "finish"
    BY <1>15 DEF Proceed, TypeOK
  <2>2. Sane(r)' BY <1>15, <2>1 DEF RunOK, Sane, WellFormed, Beginnings, Working
  <2>3. Known(r)' BY <1>15, <2>1 DEF Known, Working
  <2>4. Fenced(r)' BY <1>15, <2>1 DEF Fenced
  <2> QED  BY <2>2, <2>3, <2>4 DEF RunOK
<1>16. CASE Confirm(r)
  <2>1. /\ phase[r] = "commit" /\ batch[r] = "applied" /\ batch'[r] = "none" /\ got'[r] = Progress(got[r])
        /\ UNCHANGED <<ledger, lease, command>>
    BY <1>16 DEF Confirm, Abort, TypeOK
  <2>2. /\ got[r].status \in Active /\ got[r].run = r
        /\ (command[r].name = "apply" => Forward(got[r].status))
    BY <2>1 DEF RunOK, Sane, Working
  <2>3. /\ WellFormed(got'[r]) /\ got'[r].run = r
        /\ IF got[r].status = "applying" THEN got'[r].status \in {"applying", "applied"}
                                         ELSE got'[r].status \in {"rolling_back", "rolled_back"}
    BY <1>1, <2>1, <2>2, ProgressOK
  <2>4. CASE got'[r].status \in Completed
    <3>1. Proceed(r)
      BY <1>16, <2>1, <2>4 DEF Confirm
    <3> QED  BY <1>15, <2>1, <2>3, <2>4, <3>1
  <2>5. CASE got'[r].status \notin Completed
    <3>1. phase'[r] = "renew" /\ at'[r] = at[r]
      BY <1>16, <2>1, <2>5 DEF Confirm, TypeOK
    <3>2. Sane(r)' BY <2>1, <2>2, <2>3, <2>5, <3>1 DEF RunOK, Sane, Working, Active, Completed, Forward, WellFormed, Beginnings
    <3>3. Known(r)' BY <2>1, <3>1 DEF RunOK, Known, Working
    <3>4. Fenced(r)' BY <2>1, <3>1 DEF Fenced
    <3> QED  BY <3>2, <3>3, <3>4 DEF RunOK
  <2> QED  BY <2>4, <2>5
<1>17. CASE Reconcile(r)
  <2>1. phase[r] = "reconcile" /\ UNCHANGED <<ledger, lease, command, at, batch>>
    BY <1>17 DEF Reconcile
  <2>2. /\ got[r].status \in Active /\ got[r].run = r
        /\ (command[r].name = "apply" => Forward(got[r].status))
    BY <2>1 DEF RunOK, Sane, Working
  <2>3. CASE phase'[r] = "running" /\ got' = got
    <3>1. Sane(r)' BY <2>1, <2>3 DEF RunOK, Sane, WellFormed, Beginnings, Working
    <3>2. Known(r)' BY <2>1, <2>3 DEF RunOK, Known, Working, Behind
    <3>3. Fenced(r)' BY <2>1, <2>3 DEF RunOK, Fenced
    <3> QED  BY <3>1, <3>2, <3>3 DEF RunOK
  <2>4. CASE /\ phase'[r] = "refresh" /\ got'[r] = ledger[at[r]] /\ ledger[at[r]].run = r
             /\ ledger[at[r]].revision > got[r].revision
             /\ ledger[at[r]].status \in {Running(got[r].status)} \cup
                     (IF Forward(got[r].status) THEN {"applied"} ELSE {"rolled_back"})
    <3>1. batch[r] # "sent"
      <4>1. SUFFICES ASSUME batch[r] = "sent" PROVE FALSE
        OBVIOUS
      <4>2. got[r].revision = ledger[at[r]].revision
        BY <2>1, <4>1 DEF RunOK, Fenced
      <4> QED  BY <1>1, <2>4, <4>2 DEF Records
    <3>2. Sane(r)' BY <1>1, <2>1, <2>2, <2>4
                   DEF RunOK, Sane, Working, Active, Completed, Forward, Running, WellFormed, Beginnings
    <3>3. Known(r)' BY <2>1, <2>4 DEF Known, Working, Behind
    <3>4. Fenced(r)' BY <2>1, <2>4, <3>1 DEF RunOK, Fenced
    <3> QED  BY <3>2, <3>3, <3>4 DEF RunOK
  <2> QED  BY <1>17, <2>3, <2>4 DEF Reconcile, TypeOK
<1>18. CASE Refresh(r)
  <2>1. phase[r] = "refresh" /\ UNCHANGED <<ledger, lease, command, got>>
    BY <1>18 DEF Refresh
  <2>2. CASE Holds(r) /\ got[r].status \in Completed
    BY <1>1, <1>15, <1>18, <2>1, <2>2 DEF Refresh, Abort, TypeOK
  <2>3. CASE Holds(r) /\ got[r].status \notin Completed
    <3>1. phase'[r] = "renew" /\ at'[r] = at[r] /\ batch'[r] = "none"
      BY <1>18, <2>3 DEF Refresh, Abort, TypeOK
    <3>2. Sane(r)' BY <2>1, <2>3, <3>1 DEF RunOK, Sane, Working, Active, WellFormed, Beginnings
    <3>3. Known(r)' BY <2>1, <3>1 DEF RunOK, Known, Working, Behind
    <3>4. Fenced(r)' BY <3>1 DEF Fenced
    <3> QED  BY <3>2, <3>3, <3>4 DEF RunOK
  <2>4. CASE ~Holds(r)
    BY <1>18, <2>1, <2>4, Settles DEF Refresh, TypeOK
  <2> QED  BY <2>2, <2>3, <2>4
<1>19. CASE FindRunning(r)
  <2>1. phase[r] = "running" /\ UNCHANGED <<ledger, lease, command, at, batch>>
    BY <1>19 DEF FindRunning
  <2>2. CASE phase'[r] = "finish" /\ got' = got
    BY <2>1, <2>2, Settles
  <2>3. CASE /\ phase'[r] = "mark" /\ got'[r] = ledger[at[r]] /\ ledger[at[r]].run = r
             /\ ledger[at[r]].status = Running(got[r].status)
    <3>1. Sane(r)' BY <1>1, <2>1, <2>3
                   DEF RunOK, Sane, Working, Active, Forward, Running, WellFormed, Beginnings
    <3>2. Known(r)' BY <2>1, <2>3 DEF Known, Working, Behind
    <3>3. Fenced(r)' BY <2>1, <2>3 DEF RunOK, Fenced
    <3> QED  BY <3>1, <3>2, <3>3 DEF RunOK
  <2> QED  BY <1>19, <2>2, <2>3 DEF FindRunning, TypeOK
<1>20. CASE MarkFailed(r)
  <2>1. /\ phase[r] = "mark" /\ phase'[r] = "finish" /\ batch[r] # "sent"
        /\ UNCHANGED <<lease, command, at, got, batch>>
    BY <1>20 DEF MarkFailed, TypeOK, Written
  <2>2. Sane(r)' BY <2>1 DEF RunOK, Sane, WellFormed, Beginnings, Working
  <2>3. Known(r)' BY <2>1 DEF Known, Working
  <2>4. Fenced(r)' BY <2>1 DEF RunOK, Fenced
  <2> QED  BY <2>2, <2>3, <2>4 DEF RunOK
<1>21. CASE Finish(r)
  BY <1>21, Settles DEF Finish, Exit, TypeOK
<1>22. CASE Interrupt(r)
  BY <1>22, Settles DEF Interrupt, TypeOK
<1>23. CASE Crash(r)
  BY <1>23, Settles DEF Crash, Exit, TypeOK
<1>24. CASE Release(r)
  <2>1. /\ phase[r] = "release" /\ phase'[r] = "ended" /\ got'[r] = Absent /\ batch[r] \notin {"open", "sent"}
        /\ UNCHANGED <<ledger, command, at, batch>>
    BY <1>24 DEF Release, Exit, TypeOK, Locked
  <2>2. Sane(r)' BY <2>1, AbsentOK DEF RunOK, Sane, WellFormed, Beginnings, Working
  <2>3. Known(r)' BY <2>1 DEF Known, Working
  <2>4. Fenced(r)' BY <2>1 DEF RunOK, Fenced
  <2> QED  BY <2>2, <2>3, <2>4 DEF RunOK
<1> QED
  BY <1>2, <1>3, <1>4, <1>5, <1>6, <1>7, <1>8, <1>9, <1>10, <1>11, <1>12, <1>13, <1>14, <1>16, <1>17,
     <1>18, <1>19, <1>20, <1>21, <1>22, <1>23, <1>24 DEF Step

LEMMA RunStep ==
  ASSUME TypeOK, TypeOK', LedgerInv, \A r \in Runs : RunOK(r), [Next]_vars
  PROVE  \A q \in Runs : RunOK(q)'
<1>1. CASE UNCHANGED vars \/ Tick
  <2>1. /\ UNCHANGED <<ledger, command, phase, at, got, batch>> /\ lease'.holder = lease.holder
    BY <1>1 DEF vars, store, Tick, TypeOK
  <2> QED  BY <2>1, Frame DEF Later
<1>2. ASSUME NEW r \in Runs, Step(r) \/ ApplyBatch(r) \/ LoseBatch(r) \/ Interrupt(r) \/ Crash(r),
             NEW q \in Runs
      PROVE  RunOK(q)'
  <2>1. CASE q = r
    BY <1>2, <2>1, OwnStep
  <2>2. CASE q # r
    BY <1>2, <2>2, OthersStay
  <2> QED  BY <2>1, <2>2
<1> QED  BY <1>1, <1>2 DEF Next

-----------------------------------------------------------------------------
(* The order of the migrations.                                            *)
Live(status) == status \in {"applied"} \cup Recovery

(* In an ordered ledger everything before a live migration is applied.     *)
LEMMA LiveFollowsApplied ==
  ASSUME Healthy, NEW m \in Migrations, Live(ledger[m].status)
  PROVE  Before(m)
BY DEF Healthy, VersionGap, Live

(* Behind a migration that is not applied nothing is.                      *)
LEMMA NothingAbove ==
  ASSUME Healthy, TypeOK, NEW m \in Migrations, ~Applied(m)
  PROVE  Above(m)
<1>1. ASSUME NEW k \in Migrations, k > m PROVE ledger[k].status \in {"absent", "rolled_back"}
  <2>1. ~Before(k)
    BY <1>1, RegistryAssumption DEF Before, Migrations
  <2>2. ~Live(ledger[k].status)
    BY <2>1, LiveFollowsApplied
  <2>3. ledger[k].status \in Statuses
    BY DEF TypeOK, Records
  <2> QED  BY <2>2, <2>3 DEF Live, Recovery, Statuses
<1> QED  BY <1>1 DEF Above

(* A new record keeps the ledger in order if it follows the applied ones   *)
(* and, unless it is applied, has none after it.                           *)
LEMMA StillHealthy ==
  ASSUME TypeOK, Healthy, NEW m \in Migrations, NEW new,
         ledger' = [ledger EXCEPT ![m] = new],
         new.status # "absent", Before(m),
         ledger[m].status = "applied" => new.status = "applied" \/ Above(m)
  PROVE  Healthy'
<1>1. ASSUME NEW k \in Migrations PROVE ~VersionGap(k)'
  <2>1. /\ ledger'[m] = new
        /\ \A i \in Migrations : i # m => ledger'[i] = ledger[i]
        /\ \A i \in 1..(k - 1) : i \in Migrations
        /\ \A i \in 1..(m - 1) : i \in Migrations
    BY RegistryAssumption DEF TypeOK, Migrations
  <2>2. ~VersionGap(k)
    BY DEF Healthy
  <2>3. CASE k < m
    BY <2>1, <2>2, <2>3, RegistryAssumption DEF VersionGap, Before, Applied, Migrations
  <2>4. CASE k = m
    <3>1. \A i \in 1..(k - 1) : ledger'[i] = ledger[i] /\ ledger[i].status = "applied"
      BY <2>1, <2>4, RegistryAssumption DEF Before, Applied, Migrations
    <3> QED  BY <3>1 DEF VersionGap, Before, Applied
  <2>5. CASE k > m
    <3>1. ledger'[k] = ledger[k]
      <4>1. k # m
        BY <2>5 DEF Migrations
      <4> QED  BY <2>1, <4>1
    <3>2. ~ (ledger'[k].status # "absent" /\ \E i \in 1..(k - 1) : ledger'[i].status = "absent")
      BY <2>1, <2>2, <3>1 DEF VersionGap
    <3>3. ASSUME Live(ledger'[k].status), NEW i \in 1..(k - 1) PROVE ledger'[i].status = "applied"
      <4>1. Before(k)
        BY <2>2, <3>1, <3>3 DEF VersionGap, Live
      <4>2. i \in Migrations /\ ledger[i].status = "applied" /\ ledger[m].status = "applied"
        BY <2>1, <2>5, <4>1, RegistryAssumption DEF Before, Applied, Migrations
      <4>3. ~Above(m)
        BY <2>5, <3>1, <3>3 DEF Above, Live, Recovery
      <4> QED  BY <2>1, <4>2, <4>3
    <3> QED  BY <3>2, <3>3 DEF VersionGap, Before, Applied, Live
  <2> QED  BY <2>3, <2>4, <2>5, RegistryAssumption DEF Migrations
<1> QED  BY <1>1 DEF Healthy

(* The three writes do.                                                    *)
LEMMA HealthyStep ==
  ASSUME TypeOK, LedgerInv, NEW r \in Runs, RunOK(r), Healthy,
         \/ Begin(r) /\ Position(r)
         \/ ApplyBatch(r)
         \/ MarkFailed(r)
  PROVE  Healthy'
<1>1. at[r] \in Migrations /\ ledger[at[r]] \in Records /\ WellFormed(ledger[at[r]])
  BY DEF TypeOK, LedgerInv
<1>2. CASE ledger' = ledger
  BY <1>2 DEF Healthy, VersionGap, Before, Applied
<1>3. CASE Begin(r) /\ Position(r)
  <2>1. CASE /\ ledger[at[r]].status \in Beginnings(command[r].name)
             /\ command[r].name \in {"apply", "resume", "rollback"}
             /\ ledger' = [ledger EXCEPT ![at[r]] = Begun(r, ledger[at[r]])]
    <3>1. Begun(r, ledger[at[r]]).status # "absent"
      BY <1>1, <2>1, BegunOK DEF Active
    <3>2. phase[r] = "begin"
      BY <1>3 DEF Begin
    <3>3. CASE command[r].name = "apply"
      <4>1. Before(at[r]) /\ ledger[at[r]].status # "applied"
        BY <1>3, <2>1, <3>2, <3>3 DEF Position, Beginnings
      <4> QED  BY <1>1, <2>1, <3>1, <4>1, StillHealthy
    <3>4. CASE command[r].name = "resume"
      <4>1. Live(ledger[at[r]].status) /\ ledger[at[r]].status # "applied"
        BY <2>1, <3>4 DEF Beginnings, Live, Recovery
      <4> QED  BY <1>1, <2>1, <3>1, <4>1, LiveFollowsApplied, StillHealthy
    <3>5. CASE command[r].name = "rollback"
      <4>1. Live(ledger[at[r]].status) /\ Above(at[r])
        BY <1>3, <2>1, <3>2, <3>5 DEF Beginnings, Live, Recovery, Position
      <4> QED  BY <1>1, <2>1, <3>1, <4>1, LiveFollowsApplied, StillHealthy
    <3> QED  BY <2>1, <3>3, <3>4, <3>5
  <2> QED  BY <1>2, <1>3, <2>1, Beginning
<1>4. CASE ApplyBatch(r)
  <2>1. /\ ledger[at[r]].status \in Active
        /\ ledger' = [ledger EXCEPT ![at[r]] = Progress(ledger[at[r]])]
    BY <1>4, Committing
  <2>2. Progress(ledger[at[r]]).status # "absent"
    BY <1>1, <2>1, ProgressOK
  <2>3. Live(ledger[at[r]].status) /\ ledger[at[r]].status # "applied"
    BY <2>1 DEF Active, Live, Recovery
  <2> QED  BY <1>1, <2>1, <2>2, <2>3, LiveFollowsApplied, StillHealthy
<1>5. CASE MarkFailed(r)
  <2> DEFINE new == [ledger[at[r]] EXCEPT !.status = Failed(@), !.revision = @ + 1]
  <2>1. CASE ledger[at[r]].status \in Active /\ ledger' = [ledger EXCEPT ![at[r]] = new]
    <3>1. new.status = Failed(ledger[at[r]].status)
      BY <1>1, <2>1, FailedOK
    <3>2. new.status # "absent"
      BY <3>1 DEF Failed
    <3>3. Live(ledger[at[r]].status) /\ ledger[at[r]].status # "applied"
      BY <2>1 DEF Active, Live, Recovery
    <3> HIDE DEF new
    <3> QED  BY <1>1, <2>1, <3>2, <3>3, LiveFollowsApplied, StillHealthy
  <2> QED  BY <1>2, <1>5, <2>1, Failing
<1> QED  BY <1>3, <1>4, <1>5

(* The position of the run that holds the lease, under the steps of others *)
(* and its own.                                                            *)
LEMMA PositionStays ==
  ASSUME TypeOK, LedgerInv, NEW r \in Runs, NEW q \in Runs, q # r, RunOK(r), RunOK(q),
         Step(r) \/ ApplyBatch(r) \/ LoseBatch(r) \/ Interrupt(r) \/ Crash(r),
         ledger' = ledger \/ MarkFailed(r), Position(q)
  PROVE  Position(q)'
<1>1. /\ command' = command
      /\ phase'[q] = phase[q] /\ at'[q] = at[q] /\ got'[q] = got[q] /\ batch'[q] = batch[q]
  BY Others
<1>2. CASE ledger' = ledger
  BY <1>1, <1>2 DEF Position, Before, Applied, Above, Progress
<1>3. CASE MarkFailed(r) /\ ledger' # ledger
  <2>1. /\ ledger[at[r]].run = r /\ ledger[at[r]].status \in Active
        /\ \A k \in Migrations : k # at[r] => ledger'[k] = ledger[k]
        /\ at[q] \in Migrations
    <3>1. PICK new : ledger' = [ledger EXCEPT ![at[r]] = new]
      BY <1>3, Failing
    <3>2. \A k \in Migrations : k # at[r] => ledger'[k] = ledger[k]
      BY <3>1 DEF TypeOK
    <3> QED  BY <1>3, <3>2, Failing DEF TypeOK
  <2>2. Before(at[q]) => Before(at[q])'
    <3>1. \A k \in 1..(at[q] - 1) : k \in Migrations
      BY RegistryAssumption DEF TypeOK, Migrations
    <3> QED  BY <1>1, <2>1, <3>1 DEF Before, Applied, Active
  <2>3. Above(at[q]) => Above(at[q])'
    BY <1>1, <2>1 DEF Above, Active
  <2>4. phase[q] = "refresh" /\ got[q] = ledger[at[q]] => at[q] # at[r]
    BY <2>1 DEF RunOK, Sane
  <2>5. phase[q] = "commit" /\ ledger[at[q]] = Progress(got[q]) => at[q] # at[r]
    <3>1. SUFFICES ASSUME phase[q] = "commit", ledger[at[q]] = Progress(got[q])
                   PROVE  ledger[at[q]].run = q
      BY <2>1
    <3>2. got[q].run = q /\ got[q].status \in Active /\ WellFormed(got[q]) /\ got[q] \in Records
      BY <3>1 DEF RunOK, Sane, Working, TypeOK
    <3> QED  BY <3>1, <3>2, ProgressOK
  <2> QED  BY <1>1, <2>1, <2>2, <2>3, <2>4, <2>5 DEF Position, Progress
<1> QED  BY <1>2, <1>3

LEMMA PositionKept ==
  ASSUME TypeOK, LedgerInv, NEW r \in Runs, RunOK(r), Healthy, Position(r),
         Step(r) \/ ApplyBatch(r) \/ LoseBatch(r) \/ Interrupt(r) \/ Crash(r)
  PROVE  Position(r)'
<1> USE DEF Goto, store
<1>1. /\ got[r] \in Records /\ ledger[at[r]] \in Records /\ at[r] \in Migrations
      /\ WellFormed(ledger[at[r]]) /\ WellFormed(got[r])
  BY DEF TypeOK, LedgerInv, RunOK, Sane
<1>2. CASE /\ phase'[r] \notin {"claim", "existing", "begin", "refresh"}
           /\ phase'[r] = "commit" => batch'[r] # "applied"
  BY <1>2 DEF Position
<1>3. CASE Read(r)
  <2>1. CASE \E m \in Migrations : Eligible(r, m) /\ Decide(r, m)
    <3>1. PICK m \in Migrations : Eligible(r, m) /\ Decide(r, m)
      BY <2>1
    <3>2. at'[r] = m /\ phase'[r] = "claim" /\ ledger' = ledger /\ command' = command
      BY <1>3, <3>1 DEF Read, Decide, TypeOK
    <3>3. command[r].name = "apply" => Before(m)
      BY <3>1 DEF Eligible, ApplyNext, ResumePoint, RollbackTarget
    <3>4. command[r].name = "rollback" => Above(m)
      <4>1. SUFFICES ASSUME command[r].name = "rollback" PROVE Above(m)
        OBVIOUS
      <4>2. RollbackTarget(r, m)
        BY <3>1, <4>1 DEF Eligible, ApplyNext, ResumePoint
      <4>3. CASE RecoveryPoints # {}
        <5>1. ~Applied(m)
          BY <4>2, <4>3 DEF RollbackTarget, Applied
        <5> QED  BY <5>1, NothingAbove
      <4>4. CASE RecoveryPoints = {}
        <5>1. /\ \A k \in Migrations : k > m => ~Applied(k)
              /\ \A k \in Migrations : ledger[k].status \in Statuses \ Recovery
          BY <4>2, <4>4 DEF RollbackTarget, RecoveryPoints, TypeOK, Records
        <5> QED  BY <5>1 DEF Above, Applied, Statuses, Recovery
      <4> QED  BY <4>3, <4>4
    <3>5. /\ command'[r].name = "apply" => Before(at[r])'
          /\ command'[r].name = "rollback" => Above(at[r])'
      BY <3>2, <3>3, <3>4 DEF Before, Applied, Above
    <3> QED  BY <3>2, <3>5 DEF Position
  <2>2. CASE phase'[r] = "finish"
    BY <1>2, <2>2
  <2> QED  BY <1>3, <2>1, <2>2 DEF Read, TypeOK
<1>4. CASE Claim(r) \/ FindExisting(r)
  <2>1. /\ phase[r] \in {"claim", "existing"} /\ phase'[r] \in {"existing", "begin", "finish"}
        /\ phase'[r] = "begin" /\ phase[r] = "existing" => command[r].name = "apply"
        /\ phase'[r] = "existing" => command[r].name = "apply"
        /\ UNCHANGED <<ledger, command, at>>
    BY <1>4 DEF Claim, FindExisting, Update, TypeOK, RunOK, Sane
  <2> QED  BY <2>1 DEF Position, Before, Applied, Above
<1>5. ASSUME Proceed(r), UNCHANGED <<ledger, command>>, ledger[at[r]].status \in Completed,
             command[r].name = "apply" => ledger[at[r]].status = "applied"
      PROVE  Position(r)'
  <2>1. CASE phase'[r] = "finish"
    BY <1>2, <2>1
  <2>2. CASE command[r].name = "apply" /\ phase'[r] = "claim" /\ at'[r] = at[r] + 1
    <3>1. Before(at[r]) /\ Applied(at[r])
      BY <1>1, <1>5, <2>2, LiveFollowsApplied DEF Live, Applied
    <3>2. \A k \in 1..at[r] : ledger[k].status = "applied"
      BY <1>1, <3>1, RegistryAssumption DEF Before, Applied, Migrations
    <3>3. Before(at[r])'
      <4>1. \A k \in 1..(at'[r] - 1) : ledger'[k].status = "applied"
        BY <1>1, <1>5, <2>2, <3>2 DEF Migrations
      <4> QED  BY <4>1 DEF Before, Applied
    <3> QED  BY <1>5, <2>2, <3>3 DEF Position
  <2> QED  BY <1>5, <2>1, <2>2 DEF Proceed, TypeOK
<1>6. CASE Confirm(r)
  <2>1. /\ phase[r] = "commit" /\ batch[r] = "applied" /\ got'[r] = Progress(got[r])
        /\ ledger[at[r]] = Progress(got[r])
        /\ UNCHANGED <<ledger, command>>
    BY <1>6 DEF Confirm, TypeOK, Position
  <2>2. got[r].status \in Active /\ (command[r].name = "apply" => got[r].status = "applying")
    BY <2>1 DEF RunOK, Sane, Working, Active, Forward
  <2>3. command[r].name = "apply" => ledger[at[r]].status \in {"applying", "applied"}
    BY <1>1, <2>1, <2>2, ProgressOK
  <2>4. CASE Progress(got[r]).status \in Completed
    BY <1>5, <1>6, <2>1, <2>3, <2>4 DEF Confirm, Completed
  <2>5. CASE Progress(got[r]).status \notin Completed
    BY <1>2, <1>6, <2>5 DEF Confirm, TypeOK
  <2> QED  BY <2>4, <2>5
<1>7. CASE Refresh(r)
  <2>1. /\ phase[r] = "refresh" /\ got[r] = ledger[at[r]] /\ UNCHANGED <<ledger, command>>
        /\ command[r].name = "apply" => Forward(got[r].status)
    BY <1>7 DEF Refresh, Position, RunOK, Sane
  <2>2. CASE Holds(r) /\ got[r].status \in Completed
    BY <1>5, <1>7, <2>1, <2>2 DEF Refresh, Completed, Forward
  <2>3. CASE ~(Holds(r) /\ got[r].status \in Completed)
    <3>1. phase'[r] \in {"renew", "finish"}
      BY <1>7, <2>3 DEF Refresh, TypeOK
    <3> QED  BY <1>2, <3>1
  <2> QED  BY <2>2, <2>3
<1>8. CASE Reconcile(r)
  <2>1. CASE phase'[r] = "refresh" /\ got'[r] = ledger[at[r]]
    BY <1>8, <2>1 DEF Reconcile, Position
  <2>2. CASE phase'[r] = "running"
    BY <1>2, <2>2
  <2> QED  BY <1>8, <2>1, <2>2 DEF Reconcile, TypeOK
<1>9. CASE ApplyBatch(r)
  <2>1. /\ batch[r] = "sent" /\ UNCHANGED <<phase, got, at>>
        /\ ledger'[at[r]] = Progress(ledger[at[r]])
    BY <1>9 DEF ApplyBatch, TypeOK
  <2>2. /\ phase[r] \notin {"claim", "existing", "begin", "refresh"}
        /\ phase[r] = "commit" => got[r] = ledger[at[r]]
    BY <2>1 DEF RunOK, Fenced
  <2> QED  BY <2>1, <2>2 DEF Position, Progress
<1>10. CASE LoseBatch(r)
  <2>1. batch'[r] = "lost" /\ UNCHANGED <<ledger, command, phase, got, at>>
    BY <1>10 DEF LoseBatch, TypeOK
  <2> QED  BY <2>1 DEF Position, Before, Applied, Above
<1>11. CASE Check(r) \/ Acquire(r) \/ Begin(r) \/ Renew(r) \/ OpenBatch(r) \/ SendBatch(r)
  <2>1. /\ phase'[r] \in {"acquire", "ended", "read", "renew", "finish", "batch", "held", "reconcile", "commit"}
        /\ phase'[r] = "commit" => batch'[r] = "sent"
    BY <1>11 DEF Check, Acquire, Begin, Renew, Update, OpenBatch, SendBatch, TypeOK
  <2> QED  BY <1>2, <2>1
<1>12. CASE RetryBatch(r) \/ FailBatch(r) \/ FindRunning(r) \/ MarkFailed(r) \/ LimitReached(r)
            \/ Finish(r) \/ Release(r) \/ Interrupt(r) \/ Crash(r)
  <2>1. phase'[r] \in {"batch", "reconcile", "mark", "finish", "running", "release", "ended"}
    BY <1>12 DEF RetryBatch, FailBatch, FindRunning, MarkFailed, LimitReached, Finish, Release, Exit,
                 Interrupt, Crash, TypeOK
  <2> QED  BY <1>2, <2>1
<1> QED  BY <1>3, <1>4, <1>6, <1>7, <1>8, <1>9, <1>10, <1>11, <1>12 DEF Step

LEMMA OrderStep ==
  ASSUME Inv, TypeOK', [Next]_vars
  PROVE  InOrder'
<1>0. /\ TypeOK /\ LedgerInv /\ InOrder
      /\ \A r \in Runs : RunOK(r)
  BY DEF Inv
<1>1. SUFFICES ASSUME ~overran'
               PROVE  Healthy' /\ \A q \in Runs : lease'.holder = q => Position(q)'
  BY DEF InOrder
<1>2. CASE UNCHANGED vars \/ Tick
  <2>1. UNCHANGED <<ledger, command, phase, at, got, batch, overran>> /\ lease'.holder = lease.holder
    BY <1>0, <1>2 DEF vars, store, Tick, TypeOK
  <2> QED  BY <1>0, <1>1, <2>1 DEF InOrder, Healthy, VersionGap, Before, Applied, Position, Above, Progress
<1>3. ASSUME NEW r \in Runs, Step(r) \/ ApplyBatch(r) \/ LoseBatch(r) \/ Interrupt(r) \/ Crash(r)
      PROVE  Healthy' /\ \A q \in Runs : lease'.holder = q => Position(q)'
  <2>1. ~overran /\ (Begin(r) => ledger' = ledger \/ lease.holder = r)
    <3>1. CASE Begin(r)
      BY <1>0, <1>1, <3>1, Beginning DEF TypeOK
    <3>2. CASE ~Begin(r)
      BY <1>1, <1>3, <3>2
      DEF Step, Check, Acquire, Read, Claim, FindExisting, Renew, OpenBatch, SendBatch,
          RetryBatch, Confirm, FailBatch, Reconcile, Refresh, FindRunning, MarkFailed, LimitReached, Finish,
          Release, ApplyBatch, LoseBatch, Interrupt, Crash
    <3> QED  BY <3>1, <3>2
  <2>2. Healthy /\ \A q \in Runs : lease.holder = q => Position(q)
    BY <1>0, <2>1 DEF InOrder
  <2>3. ledger' = ledger \/ Begin(r) \/ ApplyBatch(r) \/ MarkFailed(r)
    BY <1>3 DEF Step, store, Check, Acquire, Read, Claim, FindExisting, Renew, OpenBatch, SendBatch,
         RetryBatch, Confirm, FailBatch, Reconcile, Refresh, FindRunning, LimitReached, Finish, Release,
         LoseBatch, Interrupt, Crash
  <2>4. ledger' # ledger /\ ~MarkFailed(r) => lease.holder = r /\ lease'.holder = r
    BY <1>0, <2>1, <2>3, Committing DEF Begin
  <2>5. Healthy'
    <3>1. CASE ledger' = ledger
      BY <2>2, <3>1 DEF Healthy, VersionGap, Before, Applied
    <3>2. CASE ledger' # ledger
      BY <1>0, <2>1, <2>2, <2>3, <3>2, HealthyStep
    <3> QED  BY <3>1, <3>2
  <2>6. ASSUME NEW q \in Runs, lease'.holder = q, q # r PROVE Position(q)'
    <3>1. lease.holder = q
      <4>1. CASE Acquire(r) \/ Release(r)
        BY <2>6, <4>1, LeaseAssumption DEF Acquire, Release
      <4>2. CASE ~(Acquire(r) \/ Release(r))
        BY <1>0, <1>3, <2>6, <4>2 DEF TypeOK, Step, store, Check, Read, Claim, FindExisting, Begin, Renew, OpenBatch,
         SendBatch, RetryBatch, Confirm, FailBatch, Reconcile, Refresh, FindRunning, MarkFailed, LimitReached, Finish,
         ApplyBatch, LoseBatch, Interrupt, Crash, Update
      <4> QED  BY <4>1, <4>2
    <3>2. ledger' = ledger \/ MarkFailed(r)
      BY <2>4, <2>6
    <3> QED  BY <1>0, <1>3, <2>2, <2>6, <3>1, <3>2, PositionStays
  <2>7. ASSUME lease'.holder = r PROVE Position(r)'
    <3>1. CASE Acquire(r)
      <4>1. phase'[r] \in {"read", "ended"}
        BY <1>0, <3>1 DEF Acquire, Goto, TypeOK
      <4> QED  BY <4>1 DEF Position
    <3>2. CASE ~Acquire(r)
      <4>1. lease.holder = r
        <5>1. CASE Release(r)
          BY <2>7, <5>1, LeaseAssumption DEF Release
        <5>2. CASE ~Release(r)
          BY <1>0, <1>3, <2>7, <3>2, <5>2 DEF TypeOK, Step, store, Check, Read, Claim, FindExisting, Begin, Renew,
            OpenBatch, SendBatch, RetryBatch, Confirm, FailBatch, Reconcile, Refresh, FindRunning, MarkFailed,
            LimitReached, Finish, ApplyBatch, LoseBatch, Interrupt, Crash, Update
        <5> QED  BY <5>1, <5>2
      <4> QED  BY <1>0, <1>3, <2>2, <4>1, PositionKept
    <3> QED  BY <3>1, <3>2
  <2> QED  BY <2>5, <2>6, <2>7
<1> QED  BY <1>2, <1>3 DEF Next

-----------------------------------------------------------------------------
(* The inductive invariant.                                                *)
LEMMA InvHolds == Spec => []Inv
<1>1. Init => Inv
  <2>1. SUFFICES ASSUME Init PROVE Inv
    OBVIOUS
  <2>2. TypeOK
    BY <2>1, TypeInit
  <2>3. LedgerInv
    BY <2>1, AbsentOK DEF Init, LedgerInv, Absent
  <2>4. ASSUME NEW r \in Runs PROVE RunOK(r)
    <3>1. /\ phase[r] \in {"check", "acquire", "ended"} /\ got[r] = Absent /\ batch[r] = "none"
          /\ phase[r] # "ended" => command[r].name # "status"
          /\ lease.holder # r
      BY <2>1, LeaseAssumption DEF Init
    <3> QED  BY <3>1, AbsentOK DEF RunOK, Sane, Known, Fenced, Working
  <2>5. InOrder
    <3>1. Healthy
      BY <2>1 DEF Init, Healthy, VersionGap, Absent, Recovery
    <3> QED  BY <2>1, <3>1, LeaseAssumption DEF Init, InOrder
  <2> QED  BY <2>2, <2>3, <2>4, <2>5 DEF Inv
<1>2. Inv /\ [Next]_vars => Inv'
  <2>1. SUFFICES ASSUME Inv, [Next]_vars PROVE Inv'
    OBVIOUS
  <2>2. TypeOK'
    BY <2>1, TypeStep DEF Inv
  <2>3. LedgerInv'
    BY <2>1, LedgerStep DEF Inv
  <2>4. \A r \in Runs : RunOK(r)'
    BY <2>1, <2>2, RunStep DEF Inv
  <2>5. InOrder'
    BY <2>1, <2>2, OrderStep
  <2> QED  BY <2>2, <2>3, <2>4, <2>5 DEF Inv
<1> QED  BY <1>1, <1>2, PTL DEF Spec

(* Every variable keeps its type, for any registry and number of runs.     *)
THEOREM TypeCorrect == Spec => []TypeOK
<1>1. Inv => TypeOK
  BY DEF Inv
<1> QED  BY InvHolds, <1>1, PTL

(* What is converted is what the ledger says, whatever became of the       *)
(* commits and the processes that sent them.                               *)
THEOREM LedgerTellsTheDomain == Spec => []DomainMatchesLedger
<1>1. Inv => DomainMatchesLedger
  BY RegistryAssumption DEF Inv, LedgerInv, DomainMatchesLedger, WellFormed, Forward, Absent, TypeOK, Records
<1> QED  BY InvHolds, <1>1, PTL

(* The ledger stays in order until a run begins a migration after it has   *)
(* lost its lease.                                                         *)
THEOREM OrderHolds == Spec => []GapsNeedOverrun
<1>1. Inv => GapsNeedOverrun
  BY DEF Inv, InOrder, GapsNeedOverrun
<1> QED  BY InvHolds, <1>1, PTL

(* No batch takes effect but for the run that holds the lease.             *)
THEOREM BatchesHoldTheLease == Spec => BatchesAreFenced
<1>1. Inv /\ [Next]_vars =>
        [\A m \in Migrations : domain'[m] # domain[m] =>
           lease.holder # None /\ ledger[m].run = lease.holder /\ ledger'[m].run = lease.holder]_vars
  <2>1. SUFFICES ASSUME Inv, [Next]_vars, NEW m \in Migrations, domain'[m] # domain[m]
                 PROVE  lease.holder # None /\ ledger[m].run = lease.holder /\ ledger'[m].run = lease.holder
    OBVIOUS
  <2>2. PICK r \in Runs : ApplyBatch(r)
    <3>1. ASSUME NEW r \in Runs, Step(r) \/ LoseBatch(r) \/ Interrupt(r) \/ Crash(r) PROVE domain' = domain
      BY <3>1
      DEF Step, store, Check, Acquire, Read, Claim, FindExisting, Begin, Renew, OpenBatch, SendBatch, RetryBatch,
          Confirm, FailBatch, Reconcile, Refresh, FindRunning, MarkFailed, LimitReached, Finish, Release,
          LoseBatch, Interrupt, Crash
    <3>2. UNCHANGED vars \/ Tick => domain' = domain
      BY DEF vars, store, Tick
    <3> QED  BY <2>1, <3>1, <3>2 DEF Next
  <2>3. /\ TypeOK /\ LedgerInv /\ RunOK(r)
        /\ ledger[at[r]] \in Records /\ WellFormed(ledger[at[r]])
    BY <2>1 DEF Inv, TypeOK, LedgerInv
  <2>4. /\ lease.holder = r /\ ledger[at[r]].run = r /\ ledger[at[r]].status \in Active
        /\ ledger' = [ledger EXCEPT ![at[r]] = Progress(ledger[at[r]])]
        /\ domain' = [domain EXCEPT ![at[r]] = Converted(at[r], ledger[at[r]])]
    BY <2>2, <2>3, Committing
  <2>5. m = at[r] /\ ledger'[m] = Progress(ledger[m])
    BY <2>1, <2>3, <2>4 DEF TypeOK
  <2> QED  BY <2>3, <2>4, <2>5, ProgressOK, LeaseAssumption
<1> QED  BY InvHolds, <1>1, PTL DEF Spec, BatchesAreFenced
===============================================================================
