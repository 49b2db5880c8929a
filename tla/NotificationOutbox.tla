-------------------------- MODULE NotificationOutbox --------------------------
(***************************************************************************)
(* The outbox service under arbitrary callers: any claim ever handed out   *)
(* may come back, at any later time, to any method, and any instance may   *)
(* reconcile at any time with any set of supported deliveries.  Producers  *)
(* look their batches up in one step and insert what is missing in another.*)
(***************************************************************************)
EXTENDS NotificationOutboxStore

CONSTANT Producers   \* transactions that enqueue a batch

VARIABLES
  drafts,    \* what each open transaction found missing and will insert
  accepted,  \* observation: the payload last accepted for a key, None if absent
  issued,    \* observation: every claim the service has handed out
  quiet      \* observation: how long a pending row has been without support

vars == <<row, drafts, accepted, issued, quiet>>

NoDraft == [k \in {} |-> None]
Drafts == UNION {[ks -> Payloads] : ks \in SUBSET Keys}

-----------------------------------------------------------------------------
(* The service on its own, under arbitrary callers.                        *)

Init ==
  /\ row = [k \in Keys |-> Absent]
  /\ drafts = [x \in Producers |-> NoDraft]
  /\ accepted = [k \in Keys |-> None]
  /\ issued = {}
  /\ quiet = [k \in Keys |-> 0]

(* enqueueManyInTransaction: the look-up.  What exists and agrees stays as *)
(* it is, so its producer is answered by what the look-up read; a batch of *)
(* which nothing is missing is done here.                                  *)
LookUp(x) == \E ks \in (SUBSET Keys) \ {{}} : \E batch \in [ks -> Payloads] :
  /\ drafts[x] = NoDraft
  /\ \A k \in ks : Agrees(k, batch[k])
  /\ drafts' = [drafts EXCEPT ![x] = [k \in Missing(ks) |-> batch[k]]]
  /\ accepted' = [k \in Keys |->
       IF k \in ks \ Missing(ks) THEN batch[k] ELSE accepted[k]]
  /\ UNCHANGED <<row, issued, quiet>>

(* What follows an insert of the batch: its producer is told "enqueued".   *)
Accept(batch) ==
  /\ accepted' = [k \in Keys |-> IF k \in DOMAIN batch THEN batch[k] ELSE accepted[k]]
  /\ quiet' = [k \in Keys |-> IF k \in DOMAIN batch THEN 0 ELSE quiet[k]]
  /\ UNCHANGED issued

(* insertMany and the commit, each item with its own limit and due time.   *)
Commit(x) == LET draft == drafts[x] IN
  /\ draft # NoDraft
  /\ \E max \in [DOMAIN draft -> AttemptLimits], due \in [DOMAIN draft -> Dues] :
       Insert(draft, max, due)
  /\ Accept(draft)
  /\ drafts' = [drafts EXCEPT ![x] = NoDraft]

(* The transaction ends without a commit, by a conflict or on its own.     *)
Rollback(x) ==
  /\ drafts[x] # NoDraft
  /\ drafts' = [drafts EXCEPT ![x] = NoDraft]
  /\ UNCHANGED <<row, accepted, issued, quiet>>

(* enqueueStandalone: one upsert, or the document that came in between.    *)
EnqueueStandalone(k, p) == LET event == [j \in {k} |-> p] IN
  /\ \/ /\ row[k].status = "absent"
        /\ \E max \in AttemptLimits, due \in Dues :
             Insert(event, [j \in {k} |-> max], [j \in {k} |-> due])
        /\ Accept(event)
     \/ /\ row[k].status # "absent" /\ row[k].payload = p
        /\ accepted' = [accepted EXCEPT ![k] = p]
        /\ UNCHANGED <<row, issued, quiet>>
  /\ UNCHANGED drafts

Produce == \/ \E x \in Producers : LookUp(x) \/ Commit(x) \/ Rollback(x)
           \/ \E k \in Keys, p \in Payloads : EnqueueStandalone(k, p)

(* Fault: the lease token is not fresh (one per worker, say).              *)
FaultClaim == \E k \in Keys, w \in Owners, kinds \in SUBSET Kinds, t \in Tokens, now \in Now :
  /\ ClaimNext(k, w, kinds, t, now)
  /\ issued' = issued \cup {ClaimOf(k)'}
  /\ quiet' = [quiet EXCEPT ![k] = 0]
  /\ UNCHANGED <<drafts, accepted>>

Claim == \E k \in Keys, w \in Owners, kinds \in SUBSET Kinds, t \in Tokens, now \in Now :
  /\ t \notin {c.token : c \in issued}
  /\ ClaimNext(k, w, kinds, t, now)
  /\ issued' = issued \cup {ClaimOf(k)'}
  /\ quiet' = [quiet EXCEPT ![k] = 0]
  /\ UNCHANGED <<drafts, accepted>>

UseClaim == \E c \in issued, now \in Now :
  /\ \/ RenewLease(c, now)
     \/ DeferClaim(c, now)
     \/ FinalizeDelivered(c, now)
     \/ \E retryable \in BOOLEAN : FinalizeFailure(c, retryable, now)
  /\ UNCHANGED <<drafts, accepted, issued, quiet>>

Reconcile == \E k \in Keys, now \in Now :
  /\ DeadLetterExhausted(k, now) \/ RecoverExpiredLease(k, now)
  /\ UNCHANGED <<drafts, accepted, issued, quiet>>

ReconcileUnsupported == \E k \in Keys, kinds \in SUBSET Kinds, now \in Now :
  /\ \/ ClearUnsupported(k, kinds) /\ quiet' = [quiet EXCEPT ![k] = 0]
     \/ MarkUnsupported(k, kinds, now) /\ UNCHANGED quiet
     \/ DeadLetterUnsupported(k, kinds, now) /\ UNCHANGED quiet
  /\ UNCHANGED <<drafts, accepted, issued>>

Expire == \E k \in Keys :
  /\ Purge(k)
  /\ accepted' = [accepted EXCEPT ![k] = None]
  /\ quiet' = [quiet EXCEPT ![k] = 0]
  /\ UNCHANGED <<drafts, issued>>

Tick ==
  /\ AgedRows
  /\ quiet' = [k \in Keys |-> IF row[k].status = "pending" /\ quiet[k] < Horizon
                              THEN quiet[k] + 1 ELSE quiet[k]]
  /\ UNCHANGED <<drafts, accepted, issued>>

Next == Produce \/ Claim \/ UseClaim \/ Reconcile \/ ReconcileUnsupported
        \/ Expire \/ Tick

Spec == Init /\ [][Next]_vars

-----------------------------------------------------------------------------
(* Properties.                                                             *)

TypeOK ==
  /\ row \in [Keys -> Rows]
  /\ drafts \in [Producers -> Drafts]
  /\ accepted \in [Keys -> Payloads \cup {None}]
  /\ issued \subseteq Claims
  /\ quiet \in [Keys -> Nat]

(* The state rules of the model's pre-validate hook, which the service's   *)
(* updates bypass: a lease is complete exactly while a row is processing,  *)
(* only pending rows are scheduled, only terminal rows will be purged.     *)
RowRules(r) ==
  /\ r.status = "processing" <=> r.token # None
  /\ r.status = "processing" <=> r.owner # None
  /\ r.status = "processing" <=> r.lease # None
  /\ r.status = "pending" => r.due # None
  /\ r.status \in Terminal <=> r.purge # None
  /\ r.status # "absent" => r.payload # None

StateRules == \A k \in Keys : RowRules(row[k])

(* No row is charged more attempts than its producer allowed, and a row    *)
(* waiting for a retry always has one left, so it can still be claimed.    *)
RowAttempts(r) ==
  /\ r.attempts <= r.max
  /\ r.status = "pending" => r.attempts < r.max
  /\ r.status = "processing" => r.attempts > 0

AttemptsWithinLimit == \A k \in Keys : RowAttempts(row[k])

(* The lease on a processing row belongs to exactly one claim, the last    *)
(* one handed out for it, and that claim knows the row's own counters, so  *)
(* its holder decides rightly whether a failure exhausts the row.          *)
LeaseHasItsClaim == \A k \in Keys :
  row[k].status = "processing" =>
    /\ ClaimOf(k) \in issued
    /\ \A c \in issued : c.token = row[k].token => c = ClaimOf(k)

(* Deduplication: while a row exists, every producer that was told its     *)
(* event is enqueued under that key gave the payload the row carries -     *)
(* whatever others enqueue between the look-up of a batch and its insert.  *)
OnePayloadPerKey == \A k \in Keys :
  row[k].status # "absent" => accepted[k] = row[k].payload

(* reconcileUnsupportedDeliveries: rows are retained "for a grace period   *)
(* from first observation": a row dies for want of a handler only after    *)
(* it waited that long, unclaimed and never seen by an instance that       *)
(* supports it (Lag is what unsynchronised clocks may take off).           *)
GraceHonoured == \A k \in Keys :
  row[k].status = "dead" /\ row[k].code = "HANDLER_NOT_REGISTERED"
    => quiet[k] + Lag >= Grace

(* A delivered or dead row is never reopened: stale claims and repairs     *)
(* leave it alone until retention is over and it is deleted.               *)
TerminalIsFinal == [][\A k \in Keys :
  row[k].status \in Terminal =>
    \/ row'[k].status = row[k].status /\ row'[k].code = row[k].code
    \/ row'[k].status = "absent" /\ row[k].purge <= 0]_vars

(* "A slower, earlier renewal must never shorten a lease extended by a     *)
(* later concurrent renewal" (renewLease): except by the passing of time,  *)
(* a lease only grows while its token stays.                               *)
RenewalNeverShortens == [][\A k \in Keys :
  row[k].lease # None /\ row'[k].token = row[k].token
    => row'[k].lease >= row[k].lease \/ Tick]_vars

=============================================================================
