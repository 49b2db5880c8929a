------------------------ MODULE NotificationOutbox_proof ------------------------
(***************************************************************************)
(* The safety of the outbox service, for every set of keys, payloads,      *)
(* workers and tokens, every duration and every lag.                       *)
(***************************************************************************)
EXTENDS NotificationOutbox, TLAPS

(* Every document on its own: typed, and obeying the state rules and the   *)
(* attempt limit.                                                          *)
RowOK(r) == r \in Rows /\ RowRules(r) /\ RowAttempts(r)

(* What the new document of each update needs to know of the old one.      *)

LEMMA AbsentOK == RowOK(Absent)
BY NoneAssumption DEF RowOK, Absent, Rows, Time, Statuses, Terminal, RowRules, RowAttempts

LEMMA ClockIsPast == \A now \in Now : now \in Int /\ now <= 0
BY DurationsAssumption DEF Now

LEMMA Durations ==
  /\ LeaseDuration \in Nat /\ BaseBackoff \in Nat /\ Grace \in Nat
  /\ DeliveredRetention \in Nat /\ DeadRetention \in Nat
  /\ Lag \in Nat /\ Overdue \in Nat /\ Horizon \in Nat /\ Horizon > Grace + Lag
BY DurationsAssumption

LEMMA BackoffsArePositive == \A n : \A b \in Backoffs(n) : b \in Nat
BY DurationsAssumption DEF Backoffs

LEMMA DeadOK ==
  ASSUME NEW r, RowOK(r), r.status # "absent", NEW now \in Int, NEW code \in Codes
  PROVE  RowOK(Dead(r, now, code))
<1> DEFINE d == Dead(r, now, code)
<1>1. now + DeadRetention \in Int
  BY Durations
<1>2. d = [r EXCEPT !.token = None, !.owner = None, !.lease = None,
                    !.status = "dead", !.due = None, !.code = code,
                    !.purge = now + DeadRetention]
  BY DEF Dead, Released, RowOK, Rows
<1>3. d \in Rows
  BY <1>1, <1>2 DEF RowOK, Rows, Time, Statuses
<1>4. RowRules(d)
  BY <1>1, <1>2, NoneAssumption DEF RowOK, RowRules, Rows, Terminal
<1>5. RowAttempts(d)
  BY <1>2 DEF RowOK, RowAttempts, Rows
<1> QED
  BY <1>3, <1>4, <1>5 DEF RowOK

LEMMA DeliveredOK ==
  ASSUME NEW r, RowOK(r), r.status # "absent", NEW now \in Int
  PROVE  RowOK(Delivered(r, now))
<1> DEFINE d == Delivered(r, now)
<1>1. now + DeliveredRetention \in Int
  BY Durations
<1>2. d = [r EXCEPT !.token = None, !.owner = None, !.lease = None,
                    !.status = "delivered", !.due = None, !.code = None,
                    !.purge = now + DeliveredRetention]
  BY DEF Delivered, Released, RowOK, Rows
<1>3. d \in Rows
  BY <1>1, <1>2 DEF RowOK, Rows, Time, Statuses
<1>4. RowRules(d)
  BY <1>1, <1>2, NoneAssumption DEF RowOK, RowRules, Rows, Terminal
<1>5. RowAttempts(d)
  BY <1>2 DEF RowOK, RowAttempts, Rows
<1> QED
  BY <1>3, <1>4, <1>5 DEF RowOK

LEMMA RetriedOK ==
  ASSUME NEW r, RowOK(r), r.status = "processing", r.attempts < r.max,
         NEW due \in Int, NEW code \in Codes
  PROVE  RowOK(Retried(r, due, code))
BY NoneAssumption
   DEF RowOK, Retried, Released, Rows, Time, Statuses, Terminal, RowRules, RowAttempts

LEMMA RenewedOK ==
  ASSUME NEW r, RowOK(r), r.status = "processing", NEW now \in Int
  PROVE  RowOK(Renewed(r, now))
<1>1. r.lease \in Int /\ now + LeaseDuration \in Int
  BY Durations DEF RowOK, RowRules, Rows, Time
<1> SUFFICES ASSUME NEW l \in Int PROVE RowOK([r EXCEPT !.lease = l])
  BY <1>1 DEF Renewed
<1> QED
  BY NoneAssumption DEF RowOK, Rows, Time, RowRules, RowAttempts

LEMMA DeferredOK ==
  ASSUME NEW r, RowOK(r), r.status = "processing", NEW now \in Int
  PROVE  RowOK(Deferred(r, now))
<1>1. r.attempts \in Nat /\ r.max \in Nat /\ 0 < r.attempts /\ r.attempts <= r.max
  BY DEF RowOK, Rows, RowAttempts
<1> DEFINE due == now + BaseBackoff
<1>0. due \in Int
  BY Durations
<1> HIDE DEF due
<1> SUFFICES ASSUME NEW d, d = [r EXCEPT !.token = None, !.owner = None,
                      !.lease = None, !.status = "pending", !.due = due,
                      !.attempts = r.attempts - 1]
             PROVE  RowOK(d)
  BY DEF Deferred, Released, RowOK, Rows, due
<1>2. /\ d.attempts = r.attempts - 1 /\ d.max = r.max /\ d.status = "pending"
      /\ d.token = None /\ d.owner = None /\ d.lease = None /\ d.due = due
      /\ d.purge = r.purge /\ d.payload = r.payload
  BY DEF RowOK, Rows
<1>3. d \in Rows
  <2>1. r.attempts - 1 \in Nat /\ due \in Time /\ "pending" \in Statuses
    BY <1>0, <1>1 DEF Time, Statuses
  <2> QED
    BY <2>1 DEF RowOK, Rows, Time
<1>4. RowRules(d)
  BY <1>0, <1>2, NoneAssumption DEF RowOK, RowRules, Terminal
<1>5. RowAttempts(d)
  BY <1>1, <1>2 DEF RowAttempts
<1> QED
  BY <1>3, <1>4, <1>5 DEF RowOK

LEMMA AgedOK ==
  ASSUME NEW r, RowOK(r)
  PROVE  RowOK(AgedRow(r))
<1> DEFINE d == AgedRow(r)
<1>1. \A t \in Time, b \in {Overdue, Horizon} :
        Older(t, b) \in Time /\ (Older(t, b) = None <=> t = None)
  BY NoneAssumption, Durations DEF Older, Time
<1>2. /\ r.due \in Time /\ r.lease \in Time
      /\ r.unsupportedSince \in Time /\ r.purge \in Time
  BY DEF RowOK, Rows
<1>3. d = [r EXCEPT !.due = Older(r.due, Overdue), !.lease = Older(r.lease, Overdue),
                    !.purge = Older(r.purge, Overdue),
                    !.unsupportedSince = Older(r.unsupportedSince, Horizon)]
  BY DEF AgedRow, RowOK, Rows
<1>4. d \in Rows
  <2>1. /\ Older(r.due, Overdue) \in Time /\ Older(r.lease, Overdue) \in Time
        /\ Older(r.purge, Overdue) \in Time
        /\ Older(r.unsupportedSince, Horizon) \in Time
    BY <1>1, <1>2
  <2>2. r \in Rows
    BY DEF RowOK
  <2> HIDE DEF d
  <2> QED BY <1>3, <2>1, <2>2 DEF Rows
<1>5. RowRules(d)
  BY <1>1, <1>2, <1>3 DEF RowOK, RowRules, Rows
<1>6. RowAttempts(d)
  BY <1>3 DEF RowOK, RowAttempts, Rows
<1> QED
  BY <1>4, <1>5, <1>6 DEF RowOK

-----------------------------------------------------------------------------
(* The inductive invariant.  Beside the properties it says how far a row's *)
(* quiet time reaches back, which GraceHonoured alone does not remember.   *)

QuietCovers == \A k \in Keys :
  LET r == row[k] IN
  /\ r.status = "processing" => r.unsupportedSince = None
  /\ r.status = "pending" /\ r.unsupportedSince # None
       => quiet[k] + r.unsupportedSince + Lag >= 0

IInv ==
  /\ row \in [Keys -> Rows] /\ \A k \in Keys : RowOK(row[k])
  /\ accepted \in [Keys -> Payloads \cup {None}]
  /\ issued \subseteq Claims
  /\ quiet \in [Keys -> Nat]
  /\ LeaseHasItsClaim
  /\ OnePayloadPerKey
  /\ QuietCovers
  /\ GraceHonoured

(* The drafts of the open transactions.                                    *)
DraftsOK == drafts \in [Producers -> Drafts]

LEMMA IInvImplies ==
  IInv /\ DraftsOK =>
          /\ TypeOK /\ StateRules /\ AttemptsWithinLimit
          /\ LeaseHasItsClaim /\ OnePayloadPerKey /\ GraceHonoured
BY DEF IInv, DraftsOK, TypeOK, StateRules, AttemptsWithinLimit, RowOK

LEMMA InitIInv == Init => IInv
<1> SUFFICES ASSUME Init PROVE IInv
  OBVIOUS
<1>1. \A k \in Keys : row[k] = Absent /\ RowOK(row[k])
  BY AbsentOK DEF Init
<1>2. \A k \in Keys : row[k].status = "absent" /\ row[k].code = None
  BY <1>1 DEF Absent
<1>3. row \in [Keys -> Rows]
  BY AbsentOK DEF Init, RowOK
<1> QED
  BY <1>1, <1>2, <1>3
     DEF Init, IInv, LeaseHasItsClaim, OnePayloadPerKey, QuietCovers, GraceHonoured

(* An update of one document that hands out no claim: what the new document*)
(* must satisfy for the invariant to survive.                              *)
LEMMA UpdateIInv ==
  ASSUME IInv, NEW k \in Keys, NEW r, NEW q \in Nat, NEW p \in Payloads \cup {None},
         RowOK(r),
         row' = [row EXCEPT ![k] = r],
         issued' = issued,
         accepted' = [accepted EXCEPT ![k] = p],
         quiet' = [quiet EXCEPT ![k] = q],
         r.status # "absent" => p = r.payload,
         r.status = "processing" =>
           /\ row[k].status = "processing"
           /\ r.token = row[k].token /\ r.owner = row[k].owner
           /\ r.attempts = row[k].attempts /\ r.max = row[k].max
           /\ r.unsupportedSince = None,
         r.status = "pending" /\ r.unsupportedSince # None
           => q + r.unsupportedSince + Lag >= 0,
         r.status = "dead" /\ r.code = "HANDLER_NOT_REGISTERED" => q + Lag >= Grace
  PROVE  IInv'
<1>1. /\ row' \in [Keys -> Rows] /\ \A j \in Keys : RowOK(row'[j])
      /\ row'[k] = r /\ \A j \in Keys \ {k} : row'[j] = row[j]
  BY DEF IInv, RowOK
<1>2. /\ accepted' \in [Keys -> Payloads \cup {None}]
      /\ accepted'[k] = p /\ \A j \in Keys \ {k} : accepted'[j] = accepted[j]
      /\ quiet' \in [Keys -> Nat]
      /\ quiet'[k] = q /\ \A j \in Keys \ {k} : quiet'[j] = quiet[j]
  BY DEF IInv
<1>3. LeaseHasItsClaim'
  BY <1>1 DEF IInv, LeaseHasItsClaim, ClaimOf
<1>4. OnePayloadPerKey'
  BY <1>1, <1>2 DEF IInv, OnePayloadPerKey
<1>5. QuietCovers'
  BY <1>1, <1>2 DEF IInv, QuietCovers
<1>6. GraceHonoured'
  BY <1>1, <1>2 DEF IInv, GraceHonoured
<1> QED
  BY <1>1, <1>2, <1>3, <1>4, <1>5, <1>6 DEF IInv

(* The same when the observations stay as they are.                        *)
LEMMA QuietUpdateIInv ==
  ASSUME IInv, NEW k \in Keys, NEW r,
         RowOK(r), row[k].status # "absent", r.payload = row[k].payload,
         row' = [row EXCEPT ![k] = r],
         UNCHANGED <<accepted, issued, quiet>>,
         r.status = "processing" =>
           /\ row[k].status = "processing"
           /\ r.token = row[k].token /\ r.owner = row[k].owner
           /\ r.attempts = row[k].attempts /\ r.max = row[k].max
           /\ r.unsupportedSince = None,
         r.status = "pending" /\ r.unsupportedSince # None
           => quiet[k] + r.unsupportedSince + Lag >= 0,
         r.status = "dead" /\ r.code = "HANDLER_NOT_REGISTERED"
           => quiet[k] + Lag >= Grace
  PROVE  IInv'
<1>1. accepted[k] \in Payloads \cup {None} /\ accepted[k] = row[k].payload
  BY DEF IInv, OnePayloadPerKey
<1>2. quiet[k] \in Nat
  BY DEF IInv
<1>3. accepted' = [accepted EXCEPT ![k] = accepted[k]]
  BY DEF IInv
<1>4. quiet' = [quiet EXCEPT ![k] = quiet[k]]
  BY DEF IInv
<1>5. issued' = issued
  OBVIOUS
<1>6. r.status # "absent" => accepted[k] = r.payload
  BY <1>1
<1> QED
  BY <1>1, <1>2, <1>3, <1>4, <1>5, <1>6, UpdateIInv

LEMMA FencedMeansCurrent ==
  ASSUME IInv, NEW c \in issued, NEW now \in Now, Fenced(c, now)
  PROVE  /\ c = ClaimOf(c.key) /\ c.key \in Keys
         /\ row[c.key].status = "processing"
         /\ row[c.key].attempts = c.attempts /\ row[c.key].max = c.max
         /\ row[c.key].unsupportedSince = None
<1>1. c.key \in Keys
  BY DEF IInv, Claims
<1>2. row[c.key].status = "processing" /\ row[c.key].token = c.token
  BY DEF Fenced
<1>3. c = ClaimOf(c.key)
  BY <1>1, <1>2 DEF IInv, LeaseHasItsClaim
<1>4. row[c.key].attempts = c.attempts /\ row[c.key].max = c.max
  BY <1>3 DEF ClaimOf
<1>5. row[c.key].unsupportedSince = None
  BY <1>1, <1>2 DEF IInv, QuietCovers
<1> QED
  BY <1>1, <1>2, <1>3, <1>4, <1>5

LEMMA UseClaimIInv == IInv /\ UseClaim => IInv'
<1> SUFFICES ASSUME IInv, UNCHANGED <<accepted, issued, quiet>>,
                    NEW c \in issued, NEW now \in Now, Fenced(c, now),
                    \/ RenewLease(c, now) \/ DeferClaim(c, now)
                    \/ FinalizeDelivered(c, now)
                    \/ \E retryable \in BOOLEAN : FinalizeFailure(c, retryable, now)
             PROVE  IInv'
  BY DEF UseClaim, RenewLease, DeferClaim, FinalizeDelivered, FinalizeFailure
<1> DEFINE k == c.key
<1>1. /\ k \in Keys /\ row[k].status = "processing"
      /\ row[k].attempts = c.attempts /\ row[k].max = c.max
      /\ row[k].unsupportedSince = None
  BY FencedMeansCurrent
<1>2. now \in Int /\ RowOK(row[k]) /\ row[k] \in Rows
  BY <1>1, ClockIsPast DEF IInv
<1>3. CASE RenewLease(c, now)
  <2> DEFINE r == Renewed(row[k], now)
  <2>1. RowOK(r)
    BY <1>1, <1>2, RenewedOK
  <2>2. /\ r.status = "processing" /\ r.payload = row[k].payload
        /\ r.token = row[k].token /\ r.owner = row[k].owner
        /\ r.attempts = row[k].attempts /\ r.max = row[k].max
        /\ r.unsupportedSince = None
    BY <1>1, <1>2 DEF Renewed, Rows
  <2>3. row' = [row EXCEPT ![k] = r]
    BY <1>3 DEF RenewLease
  <2> HIDE DEF r
  <2> QED
    BY <1>1, <2>1, <2>2, <2>3, QuietUpdateIInv
<1>4. CASE DeferClaim(c, now)
  <2> DEFINE r == Deferred(row[k], now)
  <2>1. RowOK(r)
    BY <1>1, <1>2, DeferredOK
  <2>2. /\ r.status = "pending" /\ r.payload = row[k].payload
        /\ r.unsupportedSince = None
    BY <1>1, <1>2 DEF Deferred, Released, Rows
  <2>3. row' = [row EXCEPT ![k] = r]
    BY <1>4 DEF DeferClaim
  <2> HIDE DEF r
  <2> QED
    BY <1>1, <2>1, <2>2, <2>3, QuietUpdateIInv
<1>5. CASE FinalizeDelivered(c, now)
  <2> DEFINE r == Delivered(row[k], now)
  <2>1. RowOK(r)
    BY <1>1, <1>2, DeliveredOK
  <2>2. r.status = "delivered" /\ r.payload = row[k].payload
    BY <1>2 DEF Delivered, Released, Rows
  <2>3. row' = [row EXCEPT ![k] = r]
    BY <1>5 DEF FinalizeDelivered
  <2> HIDE DEF r
  <2> QED
    BY <1>1, <2>1, <2>2, <2>3, QuietUpdateIInv
<1>6. ASSUME NEW retryable \in BOOLEAN, FinalizeFailure(c, retryable, now)
      PROVE  IInv'
  <2>1. CASE ShouldDeadLetter(c, retryable)
    <3> DEFINE r == Dead(row[k], now, "DELIVERY_FAILED")
    <3>1. RowOK(r)
      BY <1>1, <1>2, DeadOK DEF Codes
    <3>2. r.status = "dead" /\ r.payload = row[k].payload /\ r.code = "DELIVERY_FAILED"
      BY <1>2 DEF Dead, Released, Rows
    <3>3. row' = [row EXCEPT ![k] = r]
      BY <1>6, <2>1 DEF FinalizeFailure
    <3> HIDE DEF r
    <3> QED
      BY <1>1, <3>1, <3>2, <3>3, QuietUpdateIInv
  <2>2. CASE ~ShouldDeadLetter(c, retryable)
    <3>1. row[k].attempts < row[k].max
      BY <1>1, <1>2, <2>2 DEF ShouldDeadLetter, Rows
    <3> PICK b \in Backoffs(c.attempts) :
          row' = [row EXCEPT ![k] = Retried(row[k], now + b, "DELIVERY_FAILED")]
      BY <1>6, <2>2 DEF FinalizeFailure
    <3> DEFINE r == Retried(row[k], now + b, "DELIVERY_FAILED")
    <3>2. now + b \in Int
      BY <1>2, BackoffsArePositive
    <3>3. RowOK(r)
      BY <1>1, <1>2, <3>1, <3>2, RetriedOK DEF Codes
    <3>4. /\ r.status = "pending" /\ r.payload = row[k].payload
          /\ r.unsupportedSince = None
      BY <1>1, <1>2 DEF Retried, Released, Rows
    <3>5. row' = [row EXCEPT ![k] = r]
      OBVIOUS
    <3> HIDE DEF r
    <3> QED
      BY <1>1, <3>3, <3>4, <3>5, QuietUpdateIInv
  <2> QED
    BY <2>1, <2>2
<1> QED
  BY <1>3, <1>4, <1>5, <1>6

LEMMA ReconcileIInv == IInv /\ Reconcile => IInv'
<1> SUFFICES ASSUME IInv, UNCHANGED <<accepted, issued, quiet>>,
                    NEW k \in Keys, NEW now \in Now,
                    DeadLetterExhausted(k, now) \/ RecoverExpiredLease(k, now)
             PROVE  IInv'
  BY DEF Reconcile
<1>1. now \in Int /\ RowOK(row[k]) /\ row[k] \in Rows
  BY ClockIsPast DEF IInv, RowOK
<1>2. CASE DeadLetterExhausted(k, now)
  <2> DEFINE r == Dead(row[k], now, "MAX_ATTEMPTS_EXHAUSTED")
  <2>1. row[k].status \in {"pending", "processing"} /\ row' = [row EXCEPT ![k] = r]
    BY <1>2 DEF DeadLetterExhausted, Exhausted, LeaseOver
  <2>2. RowOK(r)
    BY <1>1, <2>1, DeadOK DEF Codes
  <2>3. /\ r.status = "dead" /\ r.payload = row[k].payload
        /\ r.code = "MAX_ATTEMPTS_EXHAUSTED"
    BY <1>1 DEF Dead, Released, Rows
  <2> HIDE DEF r
  <2> QED
    BY <2>1, <2>2, <2>3, QuietUpdateIInv
<1>3. CASE RecoverExpiredLease(k, now)
  <2> DEFINE r == Retried(row[k], now, "LEASE_EXPIRED")
  <2>1. /\ row[k].status = "processing" /\ row[k].attempts < row[k].max
        /\ row' = [row EXCEPT ![k] = r]
    BY <1>3 DEF RecoverExpiredLease, ExpiredLease, LeaseOver
  <2>2. RowOK(r)
    BY <1>1, <2>1, RetriedOK DEF Codes
  <2>3. row[k].unsupportedSince = None
    BY <2>1 DEF IInv, QuietCovers
  <2>4. /\ r.status = "pending" /\ r.payload = row[k].payload
        /\ r.unsupportedSince = None
    BY <1>1, <2>3 DEF Retried, Released, Rows
  <2> HIDE DEF r
  <2> QED
    BY <2>1, <2>2, <2>4, QuietUpdateIInv
<1> QED
  BY <1>2, <1>3

LEMMA ReconcileUnsupportedIInv == IInv /\ ReconcileUnsupported => IInv'
<1> SUFFICES ASSUME IInv, UNCHANGED <<accepted, issued>>,
                    NEW k \in Keys, NEW kinds \in SUBSET Kinds, NEW now \in Now,
                    \/ ClearUnsupported(k, kinds) /\ quiet' = [quiet EXCEPT ![k] = 0]
                    \/ MarkUnsupported(k, kinds, now) /\ UNCHANGED quiet
                    \/ DeadLetterUnsupported(k, kinds, now) /\ UNCHANGED quiet
             PROVE  IInv'
  BY DEF ReconcileUnsupported
<1>1. /\ now \in Int /\ now <= 0 /\ now >= -Lag
      /\ RowOK(row[k]) /\ row[k] \in Rows /\ quiet[k] \in Nat
  BY ClockIsPast, Durations DEF IInv, RowOK, Now
<1>2. row[k].status = "pending"
  BY DEF ClearUnsupported, MarkUnsupported, DeadLetterUnsupported
<1>3. CASE ClearUnsupported(k, kinds) /\ quiet' = [quiet EXCEPT ![k] = 0]
  <2> DEFINE r == [row[k] EXCEPT !.unsupportedSince = None]
  <2>1. row' = [row EXCEPT ![k] = r]
    BY <1>3 DEF ClearUnsupported
  <2>2. RowOK(r)
    BY <1>1 DEF RowOK, Rows, RowRules, RowAttempts, Time
  <2>3. /\ r.status = "pending" /\ r.payload = row[k].payload
        /\ r.unsupportedSince = None
    BY <1>1, <1>2 DEF Rows
  <2>4. /\ accepted[k] = row[k].payload /\ accepted[k] \in Payloads \cup {None}
        /\ accepted' = [accepted EXCEPT ![k] = accepted[k]]
    BY <1>2 DEF IInv, OnePayloadPerKey
  <2>5. issued' = issued /\ quiet' = [quiet EXCEPT ![k] = 0]
    BY <1>3
  <2> HIDE DEF r
  <2> QED
    BY <2>1, <2>2, <2>3, <2>4, <2>5, UpdateIInv
<1>4. CASE MarkUnsupported(k, kinds, now) /\ UNCHANGED quiet
  <2> DEFINE r == [row[k] EXCEPT !.unsupportedSince = now]
  <2>1. row' = [row EXCEPT ![k] = r]
    BY <1>4 DEF MarkUnsupported
  <2>2. RowOK(r)
    BY <1>1 DEF RowOK, Rows, RowRules, RowAttempts, Time
  <2>3. /\ r.status = "pending" /\ r.payload = row[k].payload
        /\ r.unsupportedSince = now
    BY <1>1, <1>2 DEF Rows
  <2>4. quiet[k] + now + Lag >= 0
    BY <1>1, Durations
  <2>5. UNCHANGED <<accepted, issued, quiet>>
    BY <1>4
  <2> HIDE DEF r
  <2> QED
    BY <1>2, <2>1, <2>2, <2>3, <2>4, <2>5, QuietUpdateIInv
<1>5. CASE DeadLetterUnsupported(k, kinds, now) /\ UNCHANGED quiet
  <2> DEFINE r == Dead(row[k], now, "HANDLER_NOT_REGISTERED")
  <2>1. row' = [row EXCEPT ![k] = r]
    BY <1>5 DEF DeadLetterUnsupported
  <2>2. RowOK(r)
    BY <1>1, <1>2, DeadOK DEF Codes
  <2>3. r.status = "dead" /\ r.payload = row[k].payload
    BY <1>1 DEF Dead, Released, Rows
  <2>4. quiet[k] + Lag >= Grace
    <3>1. /\ row[k].unsupportedSince \in Int
          /\ row[k].unsupportedSince <= now - Grace
          /\ quiet[k] + row[k].unsupportedSince + Lag >= 0
      BY <1>1, <1>2, <1>5 DEF DeadLetterUnsupported, IInv, QuietCovers, Rows, Time
    <3> QED
      BY <1>1, <3>1, Durations
  <2>5. UNCHANGED <<accepted, issued, quiet>>
    BY <1>5
  <2> HIDE DEF r
  <2> QED
    BY <1>2, <2>1, <2>2, <2>3, <2>4, <2>5, QuietUpdateIInv
<1> QED
  BY <1>3, <1>4, <1>5

LEMMA ExpireIInv == IInv /\ Expire => IInv'
<1> SUFFICES ASSUME IInv, NEW k \in Keys, Purge(k),
                    accepted' = [accepted EXCEPT ![k] = None],
                    quiet' = [quiet EXCEPT ![k] = 0],
                    issued' = issued
             PROVE  IInv'
  BY DEF Expire
<1>1. row' = [row EXCEPT ![k] = Absent]
  BY DEF Purge
<1>2. Absent.status = "absent"
  BY DEF Absent
<1> QED
  BY <1>1, <1>2, AbsentOK, UpdateIInv

LEMMA ClaimIInv == IInv /\ Claim => IInv'
<1> SUFFICES ASSUME IInv, NEW k \in Keys, NEW w \in Owners, NEW kinds \in SUBSET Kinds,
                    NEW t \in Tokens, NEW now \in Now,
                    t \notin {c.token : c \in issued},
                    ClaimNext(k, w, kinds, t, now),
                    issued' = issued \cup {ClaimOf(k)'},
                    quiet' = [quiet EXCEPT ![k] = 0],
                    accepted' = accepted
             PROVE  IInv'
  BY DEF Claim
<1> DEFINE r == Claimed(row[k], w, t, now)
<1>1. now + LeaseDuration \in Int /\ RowOK(row[k]) /\ row[k] \in Rows
  BY ClockIsPast, Durations DEF IInv, RowOK
<1>2. /\ row' = [row EXCEPT ![k] = r]
      /\ row[k].status = "pending" /\ row[k].attempts < row[k].max
  BY DEF ClaimNext, Claimable
<1>3. /\ r.status = "processing" /\ r.payload = row[k].payload
      /\ r.token = t /\ r.owner = w /\ r.unsupportedSince = None
      /\ r.attempts = row[k].attempts + 1 /\ r.max = row[k].max
  BY <1>1 DEF Claimed, Rows
<1>4. RowOK(r)
  <2>1. row[k].attempts \in Nat /\ row[k].max \in Nat
    BY <1>1 DEF Rows
  <2>2. t # None /\ w # None /\ now + LeaseDuration # None
    BY <1>1, NoneAssumption
  <2>3. r \in Rows
    <3>1. /\ row[k].attempts + 1 \in Nat /\ now + LeaseDuration \in Time
          /\ None \in Time /\ "processing" \in Statuses
      BY <1>1, <2>1 DEF Time, Statuses
    <3> QED
      BY <1>1, <3>1 DEF Claimed, Rows
  <2>4. RowRules(r)
    BY <1>1, <1>2, <2>2 DEF Claimed, RowOK, RowRules, Rows, Terminal
  <2>5. RowAttempts(r)
    BY <1>2, <1>3, <2>1 DEF RowAttempts
  <2> QED
    BY <2>3, <2>4, <2>5 DEF RowOK
<1> HIDE DEF r
<1>5. /\ row' \in [Keys -> Rows] /\ row'[k] = r
      /\ \A j \in Keys \ {k} : row'[j] = row[j]
      /\ \A j \in Keys : RowOK(row'[j])
  BY <1>2, <1>4 DEF IInv, RowOK
<1>6. /\ quiet' \in [Keys -> Nat] /\ quiet'[k] = 0
      /\ \A j \in Keys \ {k} : quiet'[j] = quiet[j]
  BY DEF IInv
<1> DEFINE new == [key |-> k, token |-> t, owner |-> w,
                   attempts |-> r.attempts, max |-> r.max]
<1>7. ClaimOf(k)' = new
  BY <1>3, <1>5 DEF ClaimOf
<1>8. new \in Claims
  BY <1>4 DEF Claims, RowOK, Rows
<1>9. LeaseHasItsClaim'
  <2> SUFFICES ASSUME NEW j \in Keys, row'[j].status = "processing"
               PROVE  /\ ClaimOf(j)' \in issued'
                      /\ \A c \in issued' : c.token = row'[j].token => c = ClaimOf(j)'
    BY DEF LeaseHasItsClaim
  <2>1. CASE j = k
    BY <1>3, <1>5, <1>7, <2>1
  <2>2. CASE j # k
    <3>1. row'[j] = row[j] /\ ClaimOf(j)' = ClaimOf(j)
      BY <1>5, <2>2 DEF ClaimOf
    <3>2. /\ ClaimOf(j) \in issued
          /\ \A c \in issued : c.token = row[j].token => c = ClaimOf(j)
      BY <3>1 DEF IInv, LeaseHasItsClaim
    <3>3. row[j].token # t
      BY <3>2 DEF ClaimOf
    <3> QED
      BY <1>7, <3>1, <3>2, <3>3
  <2> QED
    BY <2>1, <2>2
<1>10. OnePayloadPerKey'
  BY <1>2, <1>3, <1>5 DEF IInv, OnePayloadPerKey
<1>11. QuietCovers'
  BY <1>3, <1>5, <1>6 DEF IInv, QuietCovers
<1>12. GraceHonoured'
  BY <1>3, <1>5, <1>6 DEF IInv, GraceHonoured
<1>13. issued' \subseteq Claims
  BY <1>7, <1>8 DEF IInv
<1>14. accepted' \in [Keys -> Payloads \cup {None}]
  BY DEF IInv
<1> QED
  BY <1>5, <1>6, <1>9, <1>10, <1>11, <1>12, <1>13, <1>14 DEF IInv

LEMMA SubmittedOK ==
  ASSUME NEW p \in Payloads, NEW max \in AttemptLimits, NEW due \in Dues
  PROVE  LET f == Submitted(p, max, due) IN
         /\ RowOK(f) /\ f.status = "pending" /\ f.payload = p
         /\ f.unsupportedSince = None
<1> DEFINE f == Submitted(p, max, due)
<1>1. max \in Nat \ {0} /\ due \in Int
  BY LimitsAssumption, Durations DEF Dues
<1>2. Absent \in Rows
  BY AbsentOK DEF RowOK
<1>3. /\ f.status = "pending" /\ f.payload = p /\ f.attempts = 0 /\ f.max = max
      /\ f.due = due /\ f.token = None /\ f.owner = None /\ f.lease = None
      /\ f.unsupportedSince = None /\ f.purge = None
  <2>1. /\ Absent.attempts = 0 /\ Absent.token = None /\ Absent.owner = None
        /\ Absent.lease = None /\ Absent.unsupportedSince = None
        /\ Absent.purge = None
    BY DEF Absent
  <2> QED
    BY <1>2, <2>1 DEF Submitted, Rows
<1>4. f \in Rows
  <2>1. 0 \in Nat /\ max \in Nat /\ due \in Time /\ None \in Time
    BY <1>1 DEF Time
  <2> QED
    BY <1>2, <2>1 DEF Submitted, Rows, Statuses
<1> HIDE DEF f
<1>5. RowRules(f) /\ RowAttempts(f)
  <2>1. p # None /\ due # None /\ max \in Nat /\ 0 < max
    BY <1>1, NoneAssumption
  <2> QED
    BY <1>3, <2>1 DEF RowRules, RowAttempts, Terminal
<1> QED
  BY <1>3, <1>4, <1>5 DEF RowOK, f

(* What producers insert becomes the documents of keys that had none.      *)
LEMMA InsertIInv ==
  ASSUME IInv, NEW batch \in Drafts,
         NEW max \in [DOMAIN batch -> AttemptLimits], NEW due \in [DOMAIN batch -> Dues],
         Insert(batch, max, due), Accept(batch)
  PROVE  IInv'
<1> DEFINE ks == DOMAIN batch
           fresh(k) == Submitted(batch[k], max[k], due[k])
<1>1. ks \subseteq Keys /\ \A k \in ks : batch[k] \in Payloads
  BY DEF Drafts
<1>2. \A k \in ks : /\ RowOK(fresh(k)) /\ fresh(k).status = "pending"
                    /\ fresh(k).payload = batch[k] /\ fresh(k).unsupportedSince = None
  BY <1>1, SubmittedOK
<1>3. \A k \in ks : row[k].status = "absent"
  BY DEF Insert, Missing
<1> HIDE DEF fresh
<1>4. /\ row' = [k \in Keys |-> IF k \in ks THEN fresh(k) ELSE row[k]]
      /\ accepted' = [k \in Keys |-> IF k \in ks THEN batch[k] ELSE accepted[k]]
      /\ quiet' = [k \in Keys |-> IF k \in ks THEN 0 ELSE quiet[k]]
      /\ issued' = issued
  BY <1>3 DEF Insert, Inserted, Accept, fresh
<1> HIDE DEF ks
<1>5. accepted' \in [Keys -> Payloads \cup {None}]
  BY <1>1, <1>4 DEF IInv
<1>6. quiet' \in [Keys -> Nat]
  BY <1>4 DEF IInv
<1>7. \A k \in Keys : RowOK(row'[k])
  BY <1>2, <1>4 DEF IInv
<1>8. row' \in [Keys -> Rows]
  BY <1>4, <1>7 DEF RowOK
<1>9. LeaseHasItsClaim'
  BY <1>2, <1>4 DEF IInv, LeaseHasItsClaim, ClaimOf
<1>10. OnePayloadPerKey'
  BY <1>2, <1>4 DEF IInv, OnePayloadPerKey
<1>11. QuietCovers'
  BY <1>2, <1>4 DEF IInv, QuietCovers
<1>12. GraceHonoured'
  BY <1>2, <1>4 DEF IInv, GraceHonoured
<1> QED
  BY <1>4, <1>5, <1>6, <1>7, <1>8, <1>9, <1>10, <1>11, <1>12 DEF IInv

LEMMA SameIInv == IInv /\ UNCHANGED <<row, accepted, issued, quiet>> => IInv'
BY DEF IInv, LeaseHasItsClaim, ClaimOf, OnePayloadPerKey, QuietCovers, GraceHonoured

LEMMA NoDraftOK == NoDraft \in Drafts
<1>1. NoDraft \in [{} -> Payloads]
  BY DEF NoDraft
<1> QED
  BY <1>1 DEF Drafts

LEMMA InitDrafts == Init => DraftsOK
BY NoDraftOK DEF Init, DraftsOK

LEMMA NextDrafts == DraftsOK /\ [Next]_vars => DraftsOK'
<1> SUFFICES ASSUME DraftsOK, [Next]_vars PROVE DraftsOK'
  OBVIOUS
<1>1. ASSUME NEW x \in Producers, LookUp(x) PROVE DraftsOK'
  <2>0. PICK ks \in SUBSET Keys : \E batch \in [ks -> Payloads] :
          drafts' = [drafts EXCEPT ![x] = [k \in Missing(ks) |-> batch[k]]]
    BY <1>1 DEF LookUp
  <2>1. PICK batch \in [ks -> Payloads] :
          drafts' = [drafts EXCEPT ![x] = [k \in Missing(ks) |-> batch[k]]]
    BY <2>0
  <2>2. Missing(ks) \in SUBSET Keys /\ \A k \in Missing(ks) : batch[k] \in Payloads
    BY DEF Missing
  <2>3. [k \in Missing(ks) |-> batch[k]] \in [Missing(ks) -> Payloads]
    BY <2>2
  <2>4. [k \in Missing(ks) |-> batch[k]] \in Drafts
    BY <2>2, <2>3 DEF Drafts
  <2> QED
    BY <2>1, <2>4 DEF DraftsOK
<1>2. ASSUME NEW x \in Producers, Commit(x) \/ Rollback(x) PROVE DraftsOK'
  BY <1>2, NoDraftOK DEF Commit, Rollback, DraftsOK
<1>3. CASE UNCHANGED drafts
  BY <1>3 DEF DraftsOK
<1>4. \/ UNCHANGED drafts
      \/ \E x \in Producers : LookUp(x) \/ Commit(x) \/ Rollback(x)
  BY DEF Next, vars, Produce, EnqueueStandalone, Claim, UseClaim, Reconcile,
         ReconcileUnsupported, Expire, Tick
<1> QED
  BY <1>1, <1>2, <1>3, <1>4

LEMMA ProduceIInv == IInv /\ DraftsOK /\ Produce => IInv'
<1> SUFFICES ASSUME IInv, DraftsOK, Produce PROVE IInv'
  OBVIOUS
<1>1. ASSUME NEW x \in Producers, LookUp(x) PROVE IInv'
  <2>0. PICK ks \in SUBSET Keys : \E batch \in [ks -> Payloads] :
          /\ \A k \in ks : Agrees(k, batch[k])
          /\ accepted' = [k \in Keys |->
               IF k \in ks \ Missing(ks) THEN batch[k] ELSE accepted[k]]
          /\ UNCHANGED <<row, issued, quiet>>
    BY <1>1 DEF LookUp
  <2>1. PICK batch \in [ks -> Payloads] :
          /\ \A k \in ks : Agrees(k, batch[k])
          /\ accepted' = [k \in Keys |->
               IF k \in ks \ Missing(ks) THEN batch[k] ELSE accepted[k]]
          /\ UNCHANGED <<row, issued, quiet>>
    BY <2>0
  <2>2. \A k \in ks \ Missing(ks) : batch[k] = accepted[k]
    BY <2>1 DEF Missing, Agrees, IInv, OnePayloadPerKey
  <2>3. accepted' = accepted
    BY <2>1, <2>2 DEF IInv
  <2> QED
    BY <2>1, <2>3, SameIInv
<1>2. ASSUME NEW x \in Producers, Commit(x) PROVE IInv'
  BY <1>2, InsertIInv DEF Commit, DraftsOK
<1>3. ASSUME NEW x \in Producers, Rollback(x) PROVE IInv'
  BY <1>3, SameIInv DEF Rollback
<1>4. ASSUME NEW k \in Keys, NEW p \in Payloads, EnqueueStandalone(k, p) PROVE IInv'
  <2> DEFINE event == [j \in {k} |-> p]
  <2>1. ASSUME NEW max \in AttemptLimits, NEW due \in Dues,
               Insert(event, [j \in {k} |-> max], [j \in {k} |-> due]), Accept(event)
        PROVE  IInv'
    <3>1. event \in [{k} -> Payloads] /\ DOMAIN event = {k}
      OBVIOUS
    <3>2. event \in Drafts
      BY <3>1 DEF Drafts
    <3>3. /\ [j \in {k} |-> max] \in [DOMAIN event -> AttemptLimits]
          /\ [j \in {k} |-> due] \in [DOMAIN event -> Dues]
      BY <3>1
    <3> HIDE DEF event
    <3> QED
      BY <2>1, <3>2, <3>3, InsertIInv
  <2>2. CASE /\ row[k].status # "absent" /\ row[k].payload = p
             /\ accepted' = [accepted EXCEPT ![k] = p]
             /\ UNCHANGED <<row, issued, quiet>>
    <3>1. p = accepted[k]
      BY <2>2 DEF IInv, OnePayloadPerKey
    <3> QED
      BY <2>2, <3>1, SameIInv DEF IInv
  <2> QED
    BY <1>4, <2>1, <2>2 DEF EnqueueStandalone
<1> QED
  BY <1>1, <1>2, <1>3, <1>4 DEF Produce

LEMMA TickIInv == IInv /\ Tick => IInv'
<1> SUFFICES ASSUME IInv, Tick PROVE IInv'
  OBVIOUS
<1>1. /\ accepted' = accepted /\ issued' = issued
      /\ row' = [k \in Keys |-> AgedRow(row[k])]
  BY DEF Tick, AgedRows
<1>2. quiet' \in [Keys -> Nat]
  BY DEF Tick, IInv
<1>3. \A k \in Keys : RowOK(row'[k]) /\ row'[k] \in Rows
  BY <1>1, AgedOK DEF IInv, RowOK
<1>4. ASSUME NEW k \in Keys
      PROVE  /\ row'[k].status = row[k].status /\ row'[k].payload = row[k].payload
             /\ row'[k].token = row[k].token /\ row'[k].owner = row[k].owner
             /\ row'[k].attempts = row[k].attempts /\ row'[k].max = row[k].max
             /\ row'[k].code = row[k].code
             /\ row'[k].unsupportedSince = Older(row[k].unsupportedSince, Horizon)
             /\ row[k].unsupportedSince \in Time
  <2>1. row[k] \in Rows /\ row'[k] = AgedRow(row[k])
    BY <1>1 DEF IInv
  <2> QED BY <2>1 DEF AgedRow, Rows
<1>5. row' \in [Keys -> Rows]
  BY <1>1, <1>3
<1>6. LeaseHasItsClaim'
  BY <1>1, <1>4 DEF IInv, LeaseHasItsClaim, ClaimOf
<1>7. OnePayloadPerKey'
  BY <1>1, <1>4 DEF IInv, OnePayloadPerKey
<1>8. QuietCovers'
  <2> SUFFICES ASSUME NEW k \in Keys
               PROVE  /\ row'[k].status = "processing" => row'[k].unsupportedSince = None
                      /\ row'[k].status = "pending" /\ row'[k].unsupportedSince # None
                           => quiet'[k] + row'[k].unsupportedSince + Lag >= 0
    BY DEF QuietCovers
  <2>1. CASE row[k].unsupportedSince = None
    BY <1>4, <2>1 DEF Older
  <2>2. CASE row[k].unsupportedSince # None /\ row[k].status # "pending"
    BY <1>4, <2>2 DEF IInv, QuietCovers
  <2>3. CASE row[k].unsupportedSince # None /\ row[k].status = "pending"
    <3>1. /\ row[k].unsupportedSince \in Int
          /\ quiet[k] + row[k].unsupportedSince + Lag >= 0
      BY <1>4, <2>3 DEF IInv, QuietCovers, Time
    <3>2. quiet[k] \in Nat
      BY DEF IInv
    <3>3. quiet'[k] = IF quiet[k] < Horizon THEN quiet[k] + 1 ELSE quiet[k]
      BY <2>3 DEF Tick
    <3>4. row'[k].unsupportedSince = IF row[k].unsupportedSince <= -Horizon
                                     THEN row[k].unsupportedSince
                                     ELSE row[k].unsupportedSince - 1
      BY <1>4, <2>3 DEF Older
    <3>5. \/ quiet'[k] = quiet[k] + 1
          \/ quiet'[k] >= Horizon /\ quiet'[k] = quiet[k]
      BY <3>2, <3>3, Durations
    <3>6. quiet'[k] + row'[k].unsupportedSince + Lag >= 0
      <4>1. CASE quiet'[k] = quiet[k] + 1
        BY <3>1, <3>2, <3>4, <4>1, Durations
      <4>2. CASE quiet'[k] >= Horizon /\ quiet'[k] = quiet[k]
        BY <3>1, <3>2, <3>4, <4>2, Durations
      <4> QED
        BY <3>5, <4>1, <4>2
    <3> QED
      BY <1>4, <2>3, <3>6
  <2> QED
    BY <2>1, <2>2, <2>3
<1>9. GraceHonoured'
  BY <1>4 DEF IInv, GraceHonoured, Tick
<1> QED
  BY <1>1, <1>2, <1>3, <1>5, <1>6, <1>7, <1>8, <1>9 DEF IInv

LEMMA NextIInv == IInv /\ DraftsOK /\ [Next]_vars => IInv'
<1>1. CASE UNCHANGED vars
  BY <1>1 DEF vars, IInv, LeaseHasItsClaim, ClaimOf, OnePayloadPerKey, QuietCovers,
              GraceHonoured
<1> QED
  BY <1>1, ProduceIInv, ClaimIInv, UseClaimIInv, ReconcileIInv,
     ReconcileUnsupportedIInv, ExpireIInv, TickIInv DEF Next

-----------------------------------------------------------------------------
(* The results.                                                            *)

LEMMA Invariance == Spec => [](IInv /\ DraftsOK)
BY InitIInv, InitDrafts, NextIInv, NextDrafts, PTL DEF Spec

(* The updates, which no validator of the schema sees, write only values   *)
(* that the schema allows.                                                 *)
THEOREM TypeCorrect == Spec => []TypeOK
BY Invariance, IInvImplies, PTL

(* Every update of the service leaves documents that satisfy the state     *)
(* rules of the model, which the updates themselves bypass.                *)
THEOREM StateRulesHold == Spec => []StateRules
BY Invariance, IInvImplies, PTL

(* No order of claims, failures, deferrals, expiries and repairs charges a *)
(* row more attempts than its limit or strands a pending row without one.  *)
THEOREM AttemptsAreBounded == Spec => []AttemptsWithinLimit
BY Invariance, IInvImplies, PTL

(* At any time one claim, the latest, can change a processing row.         *)
THEOREM LeasesAreFenced == Spec => []LeaseHasItsClaim
BY Invariance, IInvImplies, PTL

(* Producers that were told "enqueued" agree with the row they share.      *)
THEOREM EnqueueIsIdempotent == Spec => []OnePayloadPerKey
BY Invariance, IInvImplies, PTL

(* No row is given up for want of a handler before its grace is over.      *)
THEOREM GraceIsHonoured == Spec => []GraceHonoured
BY Invariance, IInvImplies, PTL

LEMMA StepKeepsTerminal ==
  ASSUME IInv, [Next]_vars, NEW k \in Keys, row[k].status \in Terminal
  PROVE  \/ row'[k].status = row[k].status /\ row'[k].code = row[k].code
         \/ row'[k].status = "absent" /\ row[k].purge <= 0
<1> USE DEF Terminal
<1>1. CASE UNCHANGED vars
  BY <1>1 DEF vars
<1>2. CASE Produce
  <2>1. row' = row \/ \E batch, max, due : Insert(batch, max, due)
    BY <1>2 DEF Produce, LookUp, Commit, Rollback, EnqueueStandalone
  <2> QED
    BY <2>1 DEF Insert, Inserted
<1>3. CASE Claim
  BY <1>3 DEF Claim, ClaimNext, Claimable, IInv
<1>4. CASE UseClaim
  <2> PICK c \in issued, now \in Now :
        \/ RenewLease(c, now) \/ DeferClaim(c, now) \/ FinalizeDelivered(c, now)
        \/ \E retryable \in BOOLEAN : FinalizeFailure(c, retryable, now)
    BY <1>4 DEF UseClaim
  <2>1. Fenced(c, now)
    BY DEF RenewLease, DeferClaim, FinalizeDelivered, FinalizeFailure
  <2>2. c.key # k
    BY <2>1 DEF Fenced
  <2>3. \E r : row' = [row EXCEPT ![c.key] = r]
    BY DEF RenewLease, DeferClaim, FinalizeDelivered, FinalizeFailure
  <2> QED
    BY <2>2, <2>3 DEF IInv
<1>5. CASE Reconcile
  BY <1>5 DEF Reconcile, DeadLetterExhausted, RecoverExpiredLease, Exhausted,
              ExpiredLease, LeaseOver, IInv
<1>6. CASE ReconcileUnsupported
  BY <1>6 DEF ReconcileUnsupported, ClearUnsupported, MarkUnsupported,
              DeadLetterUnsupported, IInv
<1>7. CASE Expire
  BY <1>7 DEF Expire, Purge, Absent, IInv
<1>8. CASE Tick
  BY <1>8 DEF Tick, AgedRows, AgedRow, IInv, Rows
<1> QED
  BY <1>1, <1>2, <1>3, <1>4, <1>5, <1>6, <1>7, <1>8 DEF Next

(* Delivered and dead rows keep their outcome for as long as they exist.   *)
THEOREM TerminalRowsStay == Spec => TerminalIsFinal
<1>1. IInv /\ [Next]_vars => [\A k \in Keys :
        row[k].status \in Terminal =>
          \/ row'[k].status = row[k].status /\ row'[k].code = row[k].code
          \/ row'[k].status = "absent" /\ row[k].purge <= 0]_vars
  BY StepKeepsTerminal
<1> QED
  BY <1>1, Invariance, PTL DEF Spec, TerminalIsFinal

(* A released row has no token, so a lease is never taken away under the   *)
(* token it was granted with.                                              *)
LEMMA StepKeepsLease ==
  ASSUME IInv, [Next]_vars, NEW k \in Keys, row[k].lease # None, row'[k].token = row[k].token
  PROVE  row'[k].lease >= row[k].lease \/ Tick
<1>1. /\ row[k] \in Rows /\ row[k].status = "processing" /\ row[k].token # None
      /\ row[k].lease \in Int
  BY DEF IInv, RowOK, RowRules, Rows, Time
<1>2. \A t, u \in Int : t >= t /\ (IF t < u THEN u ELSE t) >= t
  OBVIOUS
<1>3. row'[k] = row[k] => row'[k].lease >= row[k].lease
  BY <1>1, <1>2
<1>4. ASSUME NEW r, row' = [row EXCEPT ![k] = r] PROVE row'[k] = r
  BY <1>4 DEF IInv
<1>5. \A j \in Keys : \A r : row' = [row EXCEPT ![j] = r] /\ j # k => row'[k] = row[k]
  BY DEF IInv
<1>6. CASE UNCHANGED vars
  BY <1>3, <1>6 DEF vars
<1>7. CASE Produce
  <2>1. row' = row \/ \E batch, max, due : Insert(batch, max, due)
    BY <1>7 DEF Produce, LookUp, Commit, Rollback, EnqueueStandalone
  <2> QED
    BY <1>1, <1>3, <2>1 DEF Insert, Inserted
<1>8. CASE Claim
  BY <1>1, <1>3, <1>5, <1>8 DEF Claim, ClaimNext, Claimable
<1>9. CASE UseClaim
  <2> PICK c \in issued, now \in Now :
        \/ RenewLease(c, now) \/ DeferClaim(c, now) \/ FinalizeDelivered(c, now)
        \/ \E retryable \in BOOLEAN : FinalizeFailure(c, retryable, now)
    BY <1>9 DEF UseClaim
  <2>1. c.key \in Keys /\ now \in Int
    BY ClockIsPast DEF IInv, Claims
  <2>2. CASE RenewLease(c, now)
    <3>1. CASE c.key = k
      <4>1. row'[k] = Renewed(row[k], now)
        BY <2>2, <3>1, <1>4 DEF RenewLease
      <4>2. now + LeaseDuration \in Int
        BY <2>1, Durations
      <4>3. row'[k].lease = IF row[k].lease < now + LeaseDuration
                            THEN now + LeaseDuration ELSE row[k].lease
        BY <1>1, <4>1 DEF Renewed, Rows
      <4> QED BY <1>1, <1>2, <4>2, <4>3
    <3>2. CASE c.key # k
      BY <1>3, <1>5, <2>1, <2>2, <3>2 DEF RenewLease
    <3> QED BY <3>1, <3>2
  <2>3. CASE ~RenewLease(c, now)
    <3>1. \E r : row' = [row EXCEPT ![c.key] = r] /\ r.token = None
      <4>1. \A n, d, code : /\ Deferred(row[c.key], n).token = None
                            /\ Delivered(row[c.key], n).token = None
                            /\ Dead(row[c.key], n, code).token = None
                            /\ Retried(row[c.key], d, code).token = None
        <5>1. row[c.key] \in Rows
          BY <2>1 DEF IInv
        <5> QED BY <5>1 DEF Deferred, Delivered, Dead, Retried, Released, Rows
      <4> QED BY <2>3, <4>1 DEF DeferClaim, FinalizeDelivered, FinalizeFailure
    <3> QED BY <1>1, <1>3, <1>4, <1>5, <2>1, <3>1
  <2> QED BY <2>2, <2>3
<1>10. CASE Reconcile
  <2>1. \E j \in Keys : \E r : row' = [row EXCEPT ![j] = r] /\ r.token = None
    <3>1. \A j \in Keys : \A d, n, code : /\ Dead(row[j], n, code).token = None
                                         /\ Retried(row[j], d, code).token = None
      <4> SUFFICES ASSUME NEW j \in Keys, NEW d, NEW n, NEW code
                   PROVE  /\ Dead(row[j], n, code).token = None
                          /\ Retried(row[j], d, code).token = None
        OBVIOUS
      <4>1. row[j] \in Rows
        BY DEF IInv
      <4> QED BY <4>1 DEF Dead, Retried, Released, Rows
    <3> QED BY <1>10, <3>1 DEF Reconcile, DeadLetterExhausted, RecoverExpiredLease
  <2> QED BY <1>1, <1>3, <1>4, <1>5, <2>1
<1>11. CASE ReconcileUnsupported
  <2>1. \E j \in Keys : \E r : row' = [row EXCEPT ![j] = r] /\ j # k
    BY <1>1, <1>11
    DEF ReconcileUnsupported, ClearUnsupported, MarkUnsupported, DeadLetterUnsupported
  <2> QED BY <1>3, <1>5, <2>1
<1>12. CASE Expire
  <2>1. \E j \in Keys : row' = [row EXCEPT ![j] = Absent] /\ row[j].purge # None
    BY <1>12 DEF Expire, Purge
  <2>2. row[k].purge = None
    BY <1>1 DEF IInv, RowOK, RowRules, Terminal
  <2> QED BY <1>3, <1>5, <2>1, <2>2
<1> QED
  BY <1>6, <1>7, <1>8, <1>9, <1>10, <1>11, <1>12 DEF Next

(* However late a renewal arrives, it does not take time away from the     *)
(* holder of the lease.                                                    *)
THEOREM LeasesOnlyGrow == Spec => RenewalNeverShortens
<1>1. IInv /\ [Next]_vars => [\A k \in Keys :
        row[k].lease # None /\ row'[k].token = row[k].token
          => row'[k].lease >= row[k].lease \/ Tick]_vars
  BY StepKeepsLease
<1> QED
  BY <1>1, Invariance, PTL DEF Spec, RenewalNeverShortens
=============================================================================
