----------------------- MODULE NotificationOutboxStore -----------------------
(***************************************************************************)
(* The durable notification outbox: its documents and their updates        *)
(* (backend/src/services/reliability/NotificationOutboxService.ts over the *)
(* collection of backend/src/models/NotificationOutbox.ts).                *)
(*                                                                         *)
(* Every method of the service ends in single-document updates, each atomic*)
(* in MongoDB; each such update is one action here.  NotificationOutbox    *)
(* puts arbitrary callers around them, NotificationOutboxSystem the real   *)
(* workers.                                                                *)
(*                                                                         *)
(* Timestamps are integers RELATIVE TO THE PRESENT: a tick moves the       *)
(* present one unit forward by taking one from every stored timestamp, down*)
(* to -Overdue or -Horizon, where only the order of very old timestamps is *)
(* forgotten.                                                              *)
(* A method reads its clock before it awaits the database, and instances   *)
(* do not share a clock, so `now' is any instant of the last Lag units.    *)
(***************************************************************************)
EXTENDS Integers, FiniteSets

CONSTANTS
  Keys,           \* unique index: (topic, dedupeKeyHash)
  Payloads,       \* what an enqueue carries: (payloadVersion, payloadHash)
  Kinds,          \* deliveries a registry can support: (topic, payloadVersion)
  KindOf,         \* the kind each payload asks for
  Owners,         \* workerIds
  Tokens,         \* lease tokens (UUIDs); their number bounds the claims
  AttemptLimits,  \* the values of maxAttempts producers choose
  LeaseDuration, BaseBackoff, MaxBackoff, Grace,
  DeliveredRetention, DeadRetention,
  Lag,            \* bound on how far a clock reading is behind
  Delay,          \* bound on how far ahead a producer schedules its event
  Overdue,        \* bound on how long ago a due time, an expiry or a purge was
  Horizon,        \* bound on how long ago unsupportedSince was set
  None            \* null, or a field that is unset

ASSUME KindOfAssumption == KindOf \in [Payloads -> Kinds]
ASSUME LimitsAssumption == AttemptLimits \subseteq Nat \ {0}
ASSUME DurationsAssumption ==
  /\ {LeaseDuration, BaseBackoff, MaxBackoff, Grace,
      DeliveredRetention, DeadRetention} \subseteq Nat \ {0}
  /\ BaseBackoff <= MaxBackoff
  /\ Lag \in Nat
  /\ Delay \in Nat
  /\ Overdue \in Nat
  /\ Overdue >= Lag
  /\ Horizon \in Nat
  /\ Horizon > Grace + Lag
ASSUME NoneAssumption ==
  /\ None \notin Int
  /\ None \notin Tokens \cup Owners \cup Payloads

VARIABLE row   \* the collection: one document, or its absence, for every key

-----------------------------------------------------------------------------
(* Values.                                                                 *)

Statuses == {"pending", "processing", "delivered", "dead"}
Terminal == {"delivered", "dead"}
Codes == {"LEASE_EXPIRED", "MAX_ATTEMPTS_EXHAUSTED", "HANDLER_NOT_REGISTERED",
          "DELIVERY_FAILED"}

Time == Int \cup {None}

Rows == [status : Statuses \cup {"absent"}, payload : Payloads \cup {None},
         attempts : Nat, max : Nat, due : Time,
         token : Tokens \cup {None}, owner : Owners \cup {None}, lease : Time,
         unsupportedSince : Time, purge : Time, code : Codes \cup {None}]

Claims == [key : Keys, token : Tokens, owner : Owners, attempts : Nat, max : Nat]

Absent == [status |-> "absent", payload |-> None, attempts |-> 0, max |-> 0,
           due |-> None, token |-> None, owner |-> None, lease |-> None,
           unsupportedSince |-> None, purge |-> None, code |-> None]

Now == {-d : d \in 0..Lag}
Dues == -Lag..Delay      \* the clock reading, or the time a producer asks for

Kind(k) == KindOf[row[k].payload]

(* The claim that the lease fields of a processing row stand for.          *)
ClaimOf(k) == [key |-> k, token |-> row[k].token, owner |-> row[k].owner,
               attempts |-> row[k].attempts, max |-> row[k].max]

(* Backoff is half to all of base * 2^(n-1), capped, and at least 1.       *)
Capped(n) == IF BaseBackoff * 2^(n - 1) < MaxBackoff
             THEN BaseBackoff * 2^(n - 1) ELSE MaxBackoff

Backoffs(n) == {b \in 1..MaxBackoff : Capped(n) \div 2 <= b /\ b <= Capped(n)}

-----------------------------------------------------------------------------
(* Guards of the single-document updates.                                  *)

Claimable(k, kinds, now) ==
  /\ row[k].status = "pending"
  /\ row[k].due <= now
  /\ row[k].attempts < row[k].max
  /\ Kind(k) \in kinds

(* The filter shared by renewLease, deferClaim and the two finalizers.     *)
Fenced(c, now) ==
  /\ row[c.key].status = "processing"
  /\ row[c.key].token = c.token
  /\ row[c.key].owner = c.owner
  /\ row[c.key].lease > now

LeaseOver(k, now) == row[k].status = "processing" /\ row[k].lease <= now

(* buildExhaustedOutboxRecoveryFilter, buildExpiredLeaseOutboxRecoveryFilter *)
FaultExhausted(k, now) ==        \* Fault: the status filter is missing.
  row[k].status # "absent" /\ row[k].attempts >= row[k].max

FaultExhaustedBound(k, now) ==   \* Fault: off by one.
  /\ row[k].status = "pending" \/ LeaseOver(k, now)
  /\ row[k].attempts > row[k].max

Exhausted(k, now) ==
  /\ row[k].status = "pending" \/ LeaseOver(k, now)
  /\ row[k].attempts >= row[k].max

FaultExpiredLease(k, now) ==     \* Fault: the expiry is not checked.
  row[k].status = "processing" /\ row[k].attempts < row[k].max

ExpiredLease(k, now) == LeaseOver(k, now) /\ row[k].attempts < row[k].max

-----------------------------------------------------------------------------
(* The new document of each update.                                        *)

Released(r) == [r EXCEPT !.token = None, !.owner = None, !.lease = None]

(* Fault: the claim does not clear unsupportedSince.                       *)
FaultClaimed(r, w, t, now) ==
  [r EXCEPT !.status = "processing", !.token = t, !.owner = w,
            !.lease = now + LeaseDuration, !.attempts = @ + 1]

Claimed(r, w, t, now) ==
  [r EXCEPT !.status = "processing", !.token = t, !.owner = w,
            !.lease = now + LeaseDuration, !.attempts = @ + 1,
            !.unsupportedSince = None]

(* Fault: the new expiry is $set, not $max.                                *)
FaultRenewed(r, now) == [r EXCEPT !.lease = now + LeaseDuration]

Renewed(r, now) ==
  [r EXCEPT !.lease = IF @ < now + LeaseDuration THEN now + LeaseDuration ELSE @]

Retried(r, due, code) ==
  [Released(r) EXCEPT !.status = "pending", !.due = due, !.code = code]

FaultDeferred(r, now) ==         \* Fault: the attempt is not given back.
  [Released(r) EXCEPT !.status = "pending", !.due = now + BaseBackoff]

Deferred(r, now) ==
  [Released(r) EXCEPT !.status = "pending", !.due = now + BaseBackoff,
                      !.attempts = @ - 1]

(* Fault: finalizeDelivered leaves the lease fields behind.                *)
FaultDelivered(r, now) ==
  [r EXCEPT !.status = "delivered", !.due = None, !.code = None,
            !.purge = now + DeliveredRetention]

Delivered(r, now) ==
  [Released(r) EXCEPT !.status = "delivered", !.due = None, !.code = None,
                      !.purge = now + DeliveredRetention]

Dead(r, now, code) ==
  [Released(r) EXCEPT !.status = "dead", !.due = None, !.code = code,
                      !.purge = now + DeadRetention]

-----------------------------------------------------------------------------
(* Producers.  A payload other than the stored one is an idempotency       *)
(* conflict that rejects everything enqueued with it.                      *)

Agrees(k, p) == row[k].status = "absent" \/ row[k].payload = p

Missing(ks) == {k \in ks : row[k].status = "absent"}

Submitted(p, max, due) ==
  [Absent EXCEPT !.status = "pending", !.payload = p, !.max = max, !.due = due]

Inserted(batch, max, due) == [k \in Keys |->
  IF k \in DOMAIN batch /\ row[k].status = "absent"
  THEN Submitted(batch[k], max[k], due[k]) ELSE row[k]]

(* Fault: documents that have come up since the look-up are passed over.   *)
FaultInsert(batch, max, due) == row' = Inserted(batch, max, due)

(* The insert becomes visible; a document that has come up since under one *)
(* of the keys is a write conflict and aborts the producer's transaction.  *)
Insert(batch, max, due) ==
  /\ Missing(DOMAIN batch) = DOMAIN batch
  /\ row' = Inserted(batch, max, due)

-----------------------------------------------------------------------------
(* Workers.  The first three conjuncts of ClaimNext are the filter and the *)
(* sort by nextAttemptAt; createdAt and _id break ties in an order nothing *)
(* depends on.                                                             *)

ClaimNext(k, w, kinds, t, now) ==
  /\ Claimable(k, kinds, now)
  /\ \A j \in Keys : Claimable(j, kinds, now) => row[k].due <= row[j].due
  /\ row' = [row EXCEPT ![k] = Claimed(@, w, t, now)]

RenewLease(c, now) ==
  /\ Fenced(c, now)
  /\ row' = [row EXCEPT ![c.key] = Renewed(@, now)]

(* Fault: the deferral is not fenced, so a late one is applied again.      *)
FaultDeferClaim(c, now) ==
  /\ row[c.key].status \in {"pending", "processing"}
  /\ row' = [row EXCEPT ![c.key] = Deferred(@, now)]

DeferClaim(c, now) ==
  /\ Fenced(c, now)
  /\ row[c.key].attempts = c.attempts
  /\ row' = [row EXCEPT ![c.key] = Deferred(@, now)]

FinalizeDelivered(c, now) ==
  /\ Fenced(c, now)
  /\ row' = [row EXCEPT ![c.key] = Delivered(@, now)]

FaultShouldDeadLetter(c, retryable) ==     \* Fault: off by one.
  ~retryable \/ c.attempts > c.max

ShouldDeadLetter(c, retryable) == ~retryable \/ c.attempts >= c.max

FinalizeFailure(c, retryable, now) ==
  /\ Fenced(c, now)
  /\ IF ShouldDeadLetter(c, retryable)
     THEN row' = [row EXCEPT ![c.key] = Dead(@, now, "DELIVERY_FAILED")]
     ELSE \E b \in Backoffs(c.attempts) :
            row' = [row EXCEPT ![c.key] = Retried(@, now + b, "DELIVERY_FAILED")]

-----------------------------------------------------------------------------
(* Reconciliation.  reconcile() repeats the first two updates, and         *)
(* reconcileUnsupportedDeliveries() the last three, over as many documents *)
(* as match; the documents are updated one by one, and anything may happen *)
(* between two of them.                                                    *)

DeadLetterExhausted(k, now) ==
  /\ Exhausted(k, now)
  /\ row' = [row EXCEPT ![k] = Dead(@, now, "MAX_ATTEMPTS_EXHAUSTED")]

RecoverExpiredLease(k, now) ==
  /\ ExpiredLease(k, now)
  /\ row' = [row EXCEPT ![k] = Retried(@, now, "LEASE_EXPIRED")]

ClearUnsupported(k, kinds) ==
  /\ row[k].status = "pending"
  /\ row[k].unsupportedSince # None
  /\ Kind(k) \in kinds
  /\ row' = [row EXCEPT ![k].unsupportedSince = None]

FaultMarkUnsupported(k, kinds, now) ==  \* Fault: every pass marks anew.
  /\ row[k].status = "pending"
  /\ Kind(k) \notin kinds
  /\ row' = [row EXCEPT ![k].unsupportedSince = now]

MarkUnsupported(k, kinds, now) ==
  /\ row[k].status = "pending"
  /\ row[k].unsupportedSince = None
  /\ Kind(k) \notin kinds
  /\ row' = [row EXCEPT ![k].unsupportedSince = now]

DeadLetterUnsupported(k, kinds, now) ==
  /\ row[k].status = "pending"
  /\ row[k].unsupportedSince # None
  /\ row[k].unsupportedSince <= now - Grace
  /\ Kind(k) \notin kinds
  /\ row' = [row EXCEPT ![k] = Dead(@, now, "HANDLER_NOT_REGISTERED")]

(* The TTL index on purgeAt: MongoDB deletes a document some time after.   *)
Purge(k) ==
  /\ row[k].purge # None
  /\ row[k].purge <= 0
  /\ row' = [row EXCEPT ![k] = Absent]

-----------------------------------------------------------------------------
(* Time.                                                                   *)

Older(t, bound) == IF t = None \/ t <= -bound THEN t ELSE t - 1

AgedRow(r) == [r EXCEPT !.due = Older(@, Overdue), !.lease = Older(@, Overdue),
                        !.purge = Older(@, Overdue),
                        !.unsupportedSince = Older(@, Horizon)]

AgedRows == row' = [k \in Keys |-> AgedRow(row[k])]
=============================================================================
