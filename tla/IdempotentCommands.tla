-------------------------- MODULE IdempotentCommands --------------------------
(***************************************************************************)
(* Commands that carry an idempotency key                                  *)
(* (backend/src/services/reliability/IdempotencyService.ts) and run in     *)
(* MongoDB transactions that are retried (MongoTransactionService.ts).     *)
(* The module follows the calls of execute() with one identity (scope,     *)
(* actor and key) and the receipt they share.  A call looks for a receipt, *)
(* inserts one, performs the command and completes the receipt in one      *)
(* transaction; the answer of the commit may be lost, the process may die, *)
(* and the commit may still take effect later.                             *)
(*                                                                         *)
(* External: MongoDB (snapshot reads, conflicts between writers, the unique*)
(* index, the TTL monitor, what becomes of a commit) and the command, which*)
(* appears as one effect written in the transaction.  Requests stand for   *)
(* the hashes of payloads, identifiers of receipts for the stored          *)
(* responses.  The processes share one clock.                              *)
(***************************************************************************)
EXTENDS Integers

CONSTANTS
  Calls,              \* calls of execute() with one identity
  Requests,           \* what the hashes of payloads can be
  RequestOf,          \* the request of a call
  MaxAttempts,        \* maxAttempts of the transaction
  MaxCommitAttempts,  \* maxCommitAttempts
  Ttl,                \* ttlMs, the lifetime of a receipt
  Horizon             \* bound on the clock

ASSUME ConstantsAssumption ==
  /\ RequestOf \in [Calls -> Requests]
  /\ MaxAttempts \in Nat \ {0}
  /\ MaxCommitAttempts \in Nat \ {0}
  /\ Ttl \in Nat \ {0}
  /\ Horizon \in Nat

VARIABLES
  now,        \* the clock
  receipts,   \* committed receipts of the identity; the unique index allows one
  effects,    \* committed effects of the command
  phase,      \* where a call is
  attempt,    \* attempts of its transaction so far
  commits,    \* commit attempts of the present transaction
  seen,       \* what the snapshot of its transaction contains
  draft,      \* the receipt its transaction has written
  work,       \* the effect its transaction has written
  commit,     \* what the database made of its commit
  response    \* the receipt it answers with, if any

transaction == <<seen, draft, work>>
store == <<now, receipts, effects>>
vars == <<store, phase, attempt, commits, transaction, commit, response>>

Ids == Calls \X (1..MaxAttempts)
Receipts == [by: Ids, request: Requests, state: {"in_progress", "completed"}, expires: Nat]
Effects == [by: Ids, request: Requests, at: Nat]

Open == {"begun", "looked", "inserted"}
Working == Open \cup {"committing", "duplicate"}
Ended == {"answered", "conflict", "inProgress", "failed", "exhausted", "uncertain", "crashed"}

Id(c) == <<c, attempt[c]>>
Live == {r \in receipts : r.expires > now}

Goto(c, where) == phase' = [phase EXCEPT ![c] = where]

(* abortTransaction, or the database dropping the transaction.             *)
Discard(c) ==
  /\ draft' = [draft EXCEPT ![c] = {}]
  /\ work' = [work EXCEPT ![c] = {}]

Init ==
  /\ now = 0
  /\ receipts = {} /\ effects = {}
  /\ phase = [c \in Calls |-> "new"]
  /\ attempt = [c \in Calls |-> 0]
  /\ commits = [c \in Calls |-> 0]
  /\ seen = [c \in Calls |-> {}]
  /\ draft = [c \in Calls |-> {}]
  /\ work = [c \in Calls |-> {}]
  /\ commit = [c \in Calls |-> "none"]
  /\ response = [c \in Calls |-> {}]

-----------------------------------------------------------------------------
(* A transaction begins, for the first time or again.                      *)
Begin(c) ==
  /\ attempt' = [attempt EXCEPT ![c] = @ + 1]
  /\ commits' = [commits EXCEPT ![c] = 0]
  /\ commit' = [commit EXCEPT ![c] = "none"]
  /\ seen' = [seen EXCEPT ![c] = {}]
  /\ response' = [response EXCEPT ![c] = {}]
  /\ Goto(c, "begun")

Start(c) ==
  /\ phase[c] = "new"
  /\ Begin(c)
  /\ UNCHANGED <<store, draft, work>>

(* commitTransaction is called; what the database makes of it is open.     *)
SendCommit(c) ==
  /\ Goto(c, "committing")
  /\ commit' = [commit EXCEPT ![c] = "sent"]
  /\ commits' = [commits EXCEPT ![c] = 1]

(* validateExistingRequest and replayResult: the answer a live receipt     *)
(* gives, or the error it leads to.                                        *)
Refused(c, r) ==
  \/ r.request # RequestOf[c] /\ Goto(c, "conflict")
  \/ r.request = RequestOf[c] /\ r.state # "completed" /\ Goto(c, "inProgress")

FaultReplayable(c, r) == r.state = "completed"  \* Fault: the request is not compared.

Replayable(c, r) == r.request = RequestOf[c] /\ r.state = "completed"

Replay(c, r) == response' = [response EXCEPT ![c] = {r.by}]

(* The first read of the transaction takes its snapshot.                   *)
Look(c) ==
  /\ phase[c] = "begun"
  /\ seen' = [seen EXCEPT ![c] = receipts]
  /\ \/ Live = {} /\ Goto(c, "looked") /\ UNCHANGED <<commits, commit, response>>
     \/ \E r \in Live :
          \/ Refused(c, r) /\ UNCHANGED <<commits, commit, response>>
          \/ Replayable(c, r) /\ Replay(c, r) /\ SendCommit(c)
  /\ UNCHANGED <<store, attempt, draft, work>>

(* The database lets a transaction write the receipt if no other one is    *)
(* about to and nobody committed one since the snapshot.                   *)
Unconflicted(c) ==
  /\ receipts = seen[c]
  /\ \A d \in Calls : draft[d] = {}

FaultInsert(c) ==   \* Fault: there is no unique index.
  /\ phase[c] = "looked"
  /\ draft' = [draft EXCEPT ![c] = {[by |-> Id(c), request |-> RequestOf[c],
                                     state |-> "in_progress", expires |-> now + Ttl]}]
  /\ Goto(c, "inserted")
  /\ UNCHANGED <<store, attempt, commits, seen, work, commit, response>>

(* An expired receipt is deleted and a new one created.  Its first lifetime *)
(* counts from the look-up in the code, and is replaced in this transaction *)
(* before anybody can read it.                                             *)
Insert(c) ==
  /\ phase[c] = "looked"
  /\ Unconflicted(c)
  /\ draft' = [draft EXCEPT ![c] = {[by |-> Id(c), request |-> RequestOf[c],
                                     state |-> "in_progress", expires |-> now + Ttl]}]
  /\ Goto(c, "inserted")
  /\ UNCHANGED <<store, attempt, commits, seen, work, commit, response>>

Result(c) == [by |-> Id(c), request |-> RequestOf[c], at |-> now]

FaultCompleted(c) ==  \* Fault: the lifetime counts from the creation.
  {[r EXCEPT !.state = "completed"] : r \in draft[c]}

FaultUncompleted(c) ==  \* Fault: the state is not updated.
  {[r EXCEPT !.expires = now + Ttl] : r \in draft[c]}

(* The lifetime of a receipt counts from the completion.                   *)
Completed(c) ==
  {[by |-> r.by, request |-> r.request, state |-> "completed", expires |-> now + Ttl]
     : r \in draft[c]}

(* input.execute succeeds and the receipt is completed.                    *)
Perform(c) ==
  /\ phase[c] = "inserted"
  /\ work' = [work EXCEPT ![c] = {Result(c)}]
  /\ draft' = [draft EXCEPT ![c] = Completed(c)]
  /\ response' = [response EXCEPT ![c] = {Id(c)}]
  /\ SendCommit(c)
  /\ UNCHANGED <<store, attempt, seen>>

-----------------------------------------------------------------------------
(* The commit.                                                             *)

(* The database applies a commit, however late.                            *)
Apply(c) ==
  /\ commit[c] = "sent"
  /\ commit' = [commit EXCEPT ![c] = "applied"]
  /\ receipts' = IF draft[c] = {} THEN receipts ELSE (receipts \ seen[c]) \cup draft[c]
  /\ effects' = effects \cup work[c]
  /\ Discard(c)
  /\ UNCHANGED <<now, phase, attempt, commits, seen, response>>

(* The database loses it, and will say NoSuchTransaction.                  *)
Lose(c) ==
  /\ commit[c] = "sent"
  /\ commit' = [commit EXCEPT ![c] = "lost"]
  /\ Discard(c)
  /\ UNCHANGED <<store, phase, attempt, commits, seen, response>>

Confirm(c) ==
  /\ phase[c] = "committing"
  /\ commit[c] = "applied"
  /\ Goto(c, "answered")
  /\ UNCHANGED <<store, attempt, commits, transaction, commit, response>>

FaultCommitUnknown(c) ==   \* Fault: one commit attempt too many.
  /\ phase[c] = "committing"
  /\ IF commits[c] <= MaxCommitAttempts
     THEN commits' = [commits EXCEPT ![c] = @ + 1] /\ UNCHANGED <<phase, response>>
     ELSE /\ Goto(c, "uncertain")
          /\ response' = [response EXCEPT ![c] = {}]
          /\ UNCHANGED commits
  /\ UNCHANGED <<store, attempt, transaction, commit>>

(* UnknownTransactionCommitResult: commit again, up to a limit; the        *)
(* transaction is not aborted.                                             *)
CommitUnknown(c) ==
  /\ phase[c] = "committing"
  /\ IF commits[c] < MaxCommitAttempts
     THEN commits' = [commits EXCEPT ![c] = @ + 1] /\ UNCHANGED <<phase, response>>
     ELSE /\ Goto(c, "uncertain")
          /\ response' = [response EXCEPT ![c] = {}]
          /\ UNCHANGED commits
  /\ UNCHANGED <<store, attempt, transaction, commit>>

-----------------------------------------------------------------------------
(* Failures.                                                               *)

(* Errors abort the transaction while it is open; a commit fails for good  *)
(* only if the database has lost it.                                       *)
MayFail(c) == phase[c] \in Open \/ (phase[c] = "committing" /\ commit[c] = "lost")

(* TransientTransactionError, write conflicts included.                    *)
Retry(c) ==
  /\ MayFail(c)
  /\ Discard(c)
  /\ \/ attempt[c] < MaxAttempts /\ Begin(c)
     \/ /\ attempt[c] = MaxAttempts
        /\ Goto(c, "exhausted")
        /\ response' = [response EXCEPT ![c] = {}]
        /\ UNCHANGED <<attempt, commits, seen, commit>>
  /\ UNCHANGED store

(* Any other error, of the database or of the command.                     *)
Fail(c) ==
  /\ MayFail(c)
  /\ Discard(c)
  /\ Goto(c, "failed")
  /\ response' = [response EXCEPT ![c] = {}]
  /\ UNCHANGED <<store, attempt, commits, seen, commit>>

(* Error 11000: another transaction committed the receipt first, or a      *)
(* unique index of the command's own collections objects.                  *)
DuplicateKey(c) ==
  /\ \/ phase[c] = "looked" /\ receipts # {} /\ receipts # seen[c]
     \/ phase[c] = "inserted"
  /\ Discard(c)
  /\ Goto(c, "duplicate")
  /\ UNCHANGED <<store, attempt, commits, seen, commit, response>>

(* The receipt is read again, outside of any transaction.                  *)
Reconcile(c) ==
  /\ phase[c] = "duplicate"
  /\ \/ Goto(c, "failed") /\ UNCHANGED response
     \/ \E r \in Live :
          \/ Refused(c, r) /\ UNCHANGED response
          \/ Replayable(c, r) /\ Replay(c, r) /\ Goto(c, "answered")
  /\ UNCHANGED <<store, attempt, commits, transaction, commit>>

(* The process dies.  A commit already sent is the database's business.    *)
Crash(c) ==
  /\ phase[c] \in Working
  /\ IF commit[c] = "sent" THEN UNCHANGED <<draft, work>> ELSE Discard(c)
  /\ Goto(c, "crashed")
  /\ response' = [response EXCEPT ![c] = {}]
  /\ UNCHANGED <<store, attempt, commits, seen, commit>>

-----------------------------------------------------------------------------

(* The TTL index removes an expired receipt some time after it expires.    *)
Expire ==
  /\ \A d \in Calls : draft[d] = {}
  /\ receipts # {} /\ Live = {}
  /\ receipts' = {}
  /\ UNCHANGED <<now, effects, phase, attempt, commits, transaction, commit, response>>

Tick ==
  /\ now < Horizon
  /\ now' = now + 1
  /\ UNCHANGED <<receipts, effects, phase, attempt, commits, transaction, commit, response>>

Proceed(c) ==
  \/ Look(c) \/ Insert(c) \/ Perform(c) \/ Confirm(c) \/ CommitUnknown(c)
  \/ Retry(c) \/ Fail(c) \/ DuplicateKey(c) \/ Reconcile(c)

Next ==
  \/ \E c \in Calls : Start(c) \/ Proceed(c) \/ Apply(c) \/ Lose(c) \/ Crash(c)
  \/ Expire
  \/ Tick

Spec == Init /\ [][Next]_vars

-----------------------------------------------------------------------------
(* Properties.                                                             *)

TypeOK ==
  /\ now \in Nat
  /\ receipts \subseteq Receipts /\ effects \subseteq Effects
  /\ \A r, s \in receipts : r = s
  /\ phase \in [Calls -> {"new"} \cup Working \cup Ended]
  /\ attempt \in [Calls -> 0..MaxAttempts]
  /\ commits \in [Calls -> 0..MaxCommitAttempts]
  /\ seen \in [Calls -> SUBSET Receipts]
  /\ draft \in [Calls -> SUBSET Receipts]
  /\ work \in [Calls -> SUBSET Effects]
  /\ commit \in [Calls -> {"none", "sent", "applied", "lost"}]
  /\ response \in [Calls -> SUBSET Ids]

(* The command takes effect at most once in the lifetime of its receipt,   *)
(* counted from its completion, whatever is retried, lost, applied late or *)
(* run at the same time.                                                   *)
OncePerLifetime == \A e, f \in effects :
  e # f => e.at + Ttl <= f.at \/ f.at + Ttl <= e.at

(* Who is answered, first-hand or by a replay, is answered with an effect  *)
(* of the same request that is committed; who is refused for reusing the   *)
(* key is refused because of a committed effect of another request.        *)
AnswersAreDurable == \A c \in Calls :
  /\ phase[c] = "answered" =>
       \E e \in effects : response[c] = {e.by} /\ e.request = RequestOf[c]
  /\ phase[c] = "conflict" => \E e \in effects : e.request # RequestOf[c]

(* A caller that was told nothing (a crash, an uncertain commit) can find  *)
(* out: an effect younger than the lifetime has its completed receipt.     *)
EffectsHaveReceipts == \A e \in effects :
  e.at + Ttl > now =>
    \E r \in receipts : /\ r.by = e.by /\ r.request = e.request
                        /\ r.state = "completed" /\ r.expires = e.at + Ttl

(* A key is never blocked by a command that did not take effect: nobody is *)
(* ever told that the operation is still in progress.                      *)
NeverBlocked ==
  /\ \A r \in receipts : \E e \in effects : e.by = r.by
  /\ \A c \in Calls : phase[c] # "inProgress"

=============================================================================
