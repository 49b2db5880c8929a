--------------------- MODULE NotificationOutboxSystem_proof ---------------------
(***************************************************************************)
(* Overlapping workers, whatever their number and their faults, keep the   *)
(* outbox's promise to producers, take no row from a live delivery and     *)
(* charge a row for nothing but failures.                                  *)
(*                                                                         *)
(* The argument: a token is never in two hands.  A claim whose token a row *)
(* still carries is the claim that row's lease stands for (Bonds), so what *)
(* a late worker writes is either refused or is about the very attempt it  *)
(* was given.                                                              *)
(***************************************************************************)
EXTENDS NotificationOutboxSystem, TLAPS

-----------------------------------------------------------------------------
(* The inductive invariant.  A document r charged n attempts: its lease is *)
(* complete while it is processing, it has attempts left while it waits,   *)
(* and its attempts are those charged and the one under way.               *)
Fine(r, n) ==
  /\ r \in Rows /\ n \in Nat
  /\ r.status = "processing" <=> r.token # None
  /\ r.status = "processing" <=> r.lease # None
  /\ r.attempts <= r.max
  /\ r.status = "pending" => r.attempts = n /\ r.attempts < r.max
  /\ r.status = "processing" => r.attempts = n + 1
  /\ r.status = "dead" /\ r.code = "MAX_ATTEMPTS_EXHAUSTED" => n = r.max
  /\ r.status = "absent" => n = 0

Shapes ==
  /\ row \in [Keys -> Rows] /\ charged \in [Keys -> Nat]
  /\ pc \in [Owners -> Phases]
  /\ claim \in [Owners -> Claims \cup {NoClaim}]
  /\ \A w \in Owners : claim[w] # NoClaim <=> pc[w] \in Busy
  /\ retry \in [Owners -> BOOLEAN]
  /\ handlers \in [Owners -> SUBSET Kinds]
  /\ detached \in [Owners -> SUBSET Keys]
  /\ open \subseteq Kinds
  /\ work \in [Keys -> 0..MaxWork]

(* A token is in one hand, and names the claim of the row that carries it. *)
Bonds == \A w \in Owners : claim[w] # NoClaim =>
  /\ row[claim[w].key].status # "absent"
  /\ \A k \in Keys : row[k].token = claim[w].token => claim[w] = ClaimOf(k)
  /\ \A v \in Owners : claim[v] # NoClaim /\ claim[v].token = claim[w].token => v = w

(* Handlers work only for submitted events, and have, if they say so.      *)
Efforts == \A w \in Owners :
  /\ pc[w] = "performed" /\ MaxWork > 0 => work[claim[w].key] > 0
  /\ \A k \in detached[w] : row[k].status # "absent"

Inv ==
  /\ Shapes
  /\ \A k \in Keys : Fine(row[k], charged[k])
  /\ Bonds
  /\ Efforts

-----------------------------------------------------------------------------
(* What the updates make of a document.                                    *)
LEMMA Durations ==
  /\ LeaseDuration \in Nat /\ BaseBackoff \in Nat /\ Grace \in Nat
  /\ DeliveredRetention \in Nat /\ DeadRetention \in Nat
  /\ Lag \in Nat /\ Overdue \in Nat /\ Horizon \in Nat
  BY DurationsAssumption

LEMMA ClockIsPast == \A now \in Now : now \in Int /\ now <= 0
  BY Durations DEF Now

LEMMA AbsentFine == Fine(Absent, 0)
  BY NoneAssumption DEF Fine, Absent, Rows, Time, Statuses

LEMMA SubmittedFine ==
  ASSUME NEW p \in Payloads, NEW max \in AttemptLimits, NEW due \in Dues
  PROVE  LET r == Submitted(p, max, due) IN
         Fine(r, 0) /\ r.status = "pending" /\ r.token = None
  <1> DEFINE r == Submitted(p, max, due)
  <1>1. max \in Nat /\ max > 0 /\ due \in Int
    BY LimitsAssumption, Durations DEF Dues
  <1>2. /\ Absent \in Rows /\ Absent.attempts = 0 /\ Absent.token = None /\ Absent.lease = None
        /\ Absent.code = None
    BY AbsentFine DEF Absent, Fine
  <1>3. r \in Rows
    <2>1. /\ due \in Time /\ "pending" \in Statuses \cup {"absent"}
          /\ p \in Payloads \cup {None} /\ max \in Nat
      BY <1>1 DEF Time, Statuses
    <2> QED BY <1>2, <2>1 DEF Rows, Submitted
  <1>4. /\ r.status = "pending" /\ r.attempts = 0 /\ r.max = max
        /\ r.token = None /\ r.lease = None
    BY <1>2 DEF Rows, Submitted
  <1> HIDE DEF r
  <1> QED BY <1>1, <1>3, <1>4 DEF Fine, r

LEMMA ReleasedIsRow ==
  ASSUME NEW r \in Rows
  PROVE  LET e == Released(r) IN
         /\ e \in Rows /\ e.token = None /\ e.lease = None
         /\ e.attempts = r.attempts /\ e.max = r.max
  BY DEF Released, Rows, Time

LEMMA DeadFine ==
  ASSUME NEW r, NEW n, Fine(r, n), NEW now \in Int, NEW code \in Codes, NEW m \in Nat,
         code = "MAX_ATTEMPTS_EXHAUSTED" => m = r.max
  PROVE  LET d == Dead(r, now, code) IN Fine(d, m) /\ d.status = "dead" /\ d.token = None
  <1> DEFINE e == Released(r)
             d == [e EXCEPT !.status = "dead", !.due = None, !.code = code,
                            !.purge = now + DeadRetention]
  <1>1. /\ e \in Rows /\ e.token = None /\ e.lease = None
        /\ e.attempts = r.attempts /\ e.max = r.max /\ r.attempts <= r.max
    BY ReleasedIsRow DEF Fine
  <1> HIDE DEF e
  <1>2. /\ d.status = "dead" /\ d.token = None /\ d.lease = None /\ d.code = code
        /\ d.attempts = r.attempts /\ d.max = r.max
    BY <1>1 DEF Rows
  <1>3. d \in Rows
    <2>1. /\ now + DeadRetention \in Time /\ None \in Time
          /\ "dead" \in Statuses \cup {"absent"}
      BY Durations DEF Time, Statuses
    <2> QED BY <1>1, <2>1 DEF Rows
  <1>4. d = Dead(r, now, code)
    BY DEF Dead, e
  <1> HIDE DEF d
  <1> QED BY <1>1, <1>2, <1>3, <1>4 DEF Fine

LEMMA DeliveredFine ==
  ASSUME NEW r, NEW n, Fine(r, n), NEW now \in Int
  PROVE  LET d == Delivered(r, now) IN Fine(d, n) /\ d.status = "delivered" /\ d.token = None
  <1> DEFINE e == Released(r)
             d == [e EXCEPT !.status = "delivered", !.due = None, !.code = None,
                            !.purge = now + DeliveredRetention]
  <1>1. /\ e \in Rows /\ e.token = None /\ e.lease = None
        /\ e.attempts = r.attempts /\ e.max = r.max /\ r.attempts <= r.max /\ n \in Nat
    BY ReleasedIsRow DEF Fine
  <1> HIDE DEF e
  <1>2. /\ d.status = "delivered" /\ d.token = None /\ d.lease = None
        /\ d.attempts = r.attempts /\ d.max = r.max
    BY <1>1 DEF Rows
  <1>3. d \in Rows
    <2>1. /\ now + DeliveredRetention \in Time /\ None \in Time
          /\ "delivered" \in Statuses \cup {"absent"}
      BY Durations DEF Time, Statuses
    <2> QED BY <1>1, <2>1 DEF Rows
  <1>4. d = Delivered(r, now)
    BY DEF Delivered, e
  <1> HIDE DEF d
  <1> QED BY <1>1, <1>2, <1>3, <1>4 DEF Fine

LEMMA RetriedFine ==
  ASSUME NEW r, NEW n, Fine(r, n), r.status = "processing", r.attempts < r.max,
         NEW due \in Int, NEW code \in Codes
  PROVE  LET d == Retried(r, due, code) IN
         Fine(d, n + 1) /\ d.status = "pending" /\ d.token = None
  <1> DEFINE e == Released(r)
             d == [e EXCEPT !.status = "pending", !.due = due, !.code = code]
  <1>1. /\ e \in Rows /\ e.token = None /\ e.lease = None
        /\ e.attempts = r.attempts /\ e.max = r.max
        /\ r.attempts = n + 1 /\ r.attempts <= r.max /\ n \in Nat
    BY ReleasedIsRow DEF Fine
  <1> HIDE DEF e
  <1>2. /\ d.status = "pending" /\ d.token = None /\ d.lease = None
        /\ d.attempts = r.attempts /\ d.max = r.max
    BY <1>1 DEF Rows
  <1>3. d \in Rows
    <2>1. due \in Time /\ "pending" \in Statuses \cup {"absent"}
      BY DEF Time, Statuses
    <2> QED BY <1>1, <2>1 DEF Rows
  <1>4. d = Retried(r, due, code)
    BY DEF Retried, e
  <1> HIDE DEF d
  <1> QED BY <1>1, <1>2, <1>3, <1>4 DEF Fine

LEMMA DeferredFine ==
  ASSUME NEW r, NEW n, Fine(r, n), r.status = "processing", NEW now \in Int
  PROVE  LET d == Deferred(r, now) IN Fine(d, n) /\ d.status = "pending" /\ d.token = None
  <1> DEFINE e == Released(r)
             d == [e EXCEPT !.status = "pending", !.due = now + BaseBackoff, !.attempts = n]
  <1>1. /\ e \in Rows /\ e.token = None /\ e.lease = None
        /\ e.attempts = r.attempts /\ e.max = r.max /\ n \in Nat /\ r.max \in Nat
        /\ r.attempts = n + 1 /\ r.attempts <= r.max
    BY ReleasedIsRow DEF Fine, Rows
  <1> HIDE DEF e
  <1>2. /\ d.status = "pending" /\ d.token = None /\ d.lease = None
        /\ d.attempts = n /\ d.max = r.max
    BY <1>1 DEF Rows
  <1>3. d \in Rows
    <2>1. now + BaseBackoff \in Time /\ "pending" \in Statuses \cup {"absent"}
      BY Durations DEF Time, Statuses
    <2> QED BY <1>1, <2>1 DEF Rows
  <1>4. d = Deferred(r, now)
    <2>1. e.attempts - 1 = n
      BY <1>1
    <2> QED BY <2>1 DEF Deferred, e
  <1> HIDE DEF d
  <1> QED BY <1>1, <1>2, <1>3, <1>4 DEF Fine

LEMMA RenewedFine ==
  ASSUME NEW r, NEW n, Fine(r, n), r.status = "processing", NEW now \in Int
  PROVE  LET d == Renewed(r, now) IN
         /\ Fine(d, n) /\ d.status = "processing"
         /\ d.token = r.token /\ d.owner = r.owner
         /\ d.attempts = r.attempts /\ d.max = r.max
  <1>1. r.lease \in Int /\ now + LeaseDuration \in Int
    BY Durations DEF Fine, Rows, Time
  <1> SUFFICES ASSUME NEW l \in Int
               PROVE  LET d == [r EXCEPT !.lease = l] IN
                      /\ Fine(d, n) /\ d.status = "processing"
                      /\ d.token = r.token /\ d.owner = r.owner
                      /\ d.attempts = r.attempts /\ d.max = r.max
    BY <1>1 DEF Renewed
  <1> DEFINE d == [r EXCEPT !.lease = l]
  <1>2. d \in Rows
    BY DEF Fine, Rows, Time
  <1>3. /\ d.status = "processing" /\ d.token = r.token /\ d.lease = l /\ d.owner = r.owner
        /\ d.attempts = r.attempts /\ d.max = r.max
    BY DEF Fine, Rows
  <1> HIDE DEF d
  <1> QED BY <1>2, <1>3, NoneAssumption DEF Fine, d

LEMMA ClaimedFine ==
  ASSUME NEW r, NEW n, Fine(r, n), r.status = "pending",
         NEW w \in Owners, NEW t \in Tokens, NEW now \in Int
  PROVE  LET d == Claimed(r, w, t, now) IN
         /\ Fine(d, n) /\ d.status = "processing" /\ d.token = t /\ d.owner = w
  <1> DEFINE d == Claimed(r, w, t, now)
  <1>1. /\ now + LeaseDuration \in Int /\ r.attempts \in Nat /\ r.max \in Nat
        /\ r.attempts = n /\ r.attempts < r.max /\ n \in Nat
    BY Durations DEF Fine, Rows
  <1>2. d = [r EXCEPT !.status = "processing", !.token = t, !.owner = w,
                      !.lease = now + LeaseDuration, !.attempts = n + 1,
                      !.unsupportedSince = None]
    BY <1>1 DEF Claimed, Fine, Rows
  <1>3. r \in Rows
    BY DEF Fine
  <1>4. t # None /\ now + LeaseDuration # None
    BY <1>1, NoneAssumption
  <1>5. d \in Rows
    <2> DEFINE e == [r EXCEPT !.lease = now + LeaseDuration, !.attempts = n + 1,
                              !.unsupportedSince = None]
    <2>1. now + LeaseDuration \in Time /\ n + 1 \in Nat /\ None \in Time
      BY <1>1 DEF Time
    <2>2. e \in Rows
      BY <1>3, <2>1 DEF Rows
    <2>3. d = [e EXCEPT !.status = "processing", !.token = t, !.owner = w]
      BY <1>2, <1>3 DEF Rows
    <2>4. "processing" \in Statuses \cup {"absent"}
      BY DEF Statuses
    <2> HIDE DEF d, e
    <2> QED BY <2>2, <2>3, <2>4 DEF Rows
  <1> HIDE DEF d
  <1>6. /\ d.status = "processing" /\ d.token = t /\ d.owner = w
        /\ d.lease = now + LeaseDuration /\ d.attempts = n + 1 /\ d.max = r.max
    BY <1>2, <1>3 DEF Rows
  <1> QED BY <1>1, <1>4, <1>5, <1>6 DEF Fine, d

LEMMA MarkedFine ==
  ASSUME NEW r, NEW n, Fine(r, n), NEW since \in Time
  PROVE  LET d == [r EXCEPT !.unsupportedSince = since] IN
         Fine(d, n) /\ d.status = r.status /\ d.token = r.token
  BY DEF Fine, Rows

LEMMA AgedFine ==
  ASSUME NEW r, NEW n, Fine(r, n)
  PROVE  LET d == AgedRow(r) IN
         /\ Fine(d, n) /\ d.status = r.status
         /\ d.token = r.token /\ d.owner = r.owner
         /\ d.attempts = r.attempts /\ d.max = r.max
  <1> DEFINE d == AgedRow(r)
  <1>1. \A t \in Time, b \in {Overdue, Horizon} :
          Older(t, b) \in Time /\ (Older(t, b) = None <=> t = None)
    BY NoneAssumption, Durations DEF Older, Time
  <1>2. /\ Older(r.due, Overdue) \in Time /\ Older(r.lease, Overdue) \in Time
        /\ Older(r.purge, Overdue) \in Time
        /\ Older(r.unsupportedSince, Horizon) \in Time
        /\ Older(r.lease, Overdue) = None <=> r.lease = None
    BY <1>1 DEF Fine, Rows
  <1>3. d = [r EXCEPT !.due = Older(r.due, Overdue), !.lease = Older(r.lease, Overdue),
                      !.purge = Older(r.purge, Overdue),
                      !.unsupportedSince = Older(r.unsupportedSince, Horizon)]
    BY DEF AgedRow, Fine, Rows
  <1>4. r \in Rows
    BY DEF Fine
  <1> HIDE DEF d
  <1>5. d \in Rows
    BY <1>2, <1>3, <1>4 DEF Rows
  <1>6. /\ d.status = r.status /\ d.token = r.token /\ d.owner = r.owner
        /\ d.lease = Older(r.lease, Overdue) /\ d.attempts = r.attempts /\ d.max = r.max
        /\ d.code = r.code
    BY <1>3, <1>4 DEF Rows
  <1> QED BY <1>2, <1>5, <1>6 DEF Fine, d

-----------------------------------------------------------------------------
(* What a step other than a claim does to the documents: it hands out no   *)
(* lease, though it may end one.                                           *)
RowsKeep ==
  /\ row' \in [Keys -> Rows] /\ charged' \in [Keys -> Nat]
  /\ \A k \in Keys :
       /\ Fine(row'[k], charged'[k])
       /\ row[k].status # "absent" => row'[k].status # "absent"
       /\ row'[k].token # None => ClaimOf(k)' = ClaimOf(k)

(* What it does to the workers: it may end deliveries and detach handlers. *)
WorkersKeep ==
  /\ pc' \in [Owners -> Phases]
  /\ claim' \in [Owners -> Claims \cup {NoClaim}]
  /\ retry' \in [Owners -> BOOLEAN]
  /\ handlers' \in [Owners -> SUBSET Kinds]
  /\ detached' \in [Owners -> SUBSET Keys]
  /\ open' \subseteq Kinds
  /\ work' \in [Keys -> 0..MaxWork]
  /\ \A k \in Keys : work'[k] >= work[k]
  /\ \A w \in Owners :
       /\ claim'[w] # NoClaim <=> pc'[w] \in Busy
       /\ claim'[w] \in {claim[w], NoClaim}
       /\ pc'[w] = "performed" /\ MaxWork > 0 => pc[w] = "performed" \/ work'[claim[w].key] > 0
       /\ \A k \in detached'[w] : k \in detached[w] \/ (claim[w] # NoClaim /\ k = claim[w].key)

LEMMA KeepsInv ==
  ASSUME Inv, RowsKeep, WorkersKeep
  PROVE  Inv'
  <1> USE DEF Inv
  <1>1. Shapes'
    BY DEF Shapes, RowsKeep, WorkersKeep
  <1>2. ASSUME NEW w \in Owners, claim'[w] # NoClaim
        PROVE  /\ claim'[w] = claim[w] /\ claim[w] \in Claims
               /\ claim[w].key \in Keys /\ claim[w].token \in Tokens
    <2>1. claim'[w] = claim[w] /\ claim[w] \in Claims
      BY <1>2 DEF WorkersKeep, Shapes
    <2> QED BY <2>1 DEF Claims
  <1>3. ASSUME NEW w \in Owners, claim'[w] # NoClaim
        PROVE  /\ row'[claim'[w].key].status # "absent"
               /\ \A k \in Keys : row'[k].token = claim'[w].token => claim'[w] = ClaimOf(k)'
               /\ \A v \in Owners :
                    claim'[v] # NoClaim /\ claim'[v].token = claim'[w].token => v = w
    <2>1. row'[claim'[w].key].status # "absent"
      BY <1>2, <1>3 DEF Bonds, RowsKeep
    <2>2. ASSUME NEW k \in Keys, row'[k].token = claim'[w].token
          PROVE  claim'[w] = ClaimOf(k)'
      <3>1. row'[k].token # None
        BY <1>2, <1>3, <2>2, NoneAssumption
      <3>2. ClaimOf(k)' = ClaimOf(k) /\ ClaimOf(k)'.token = row'[k].token
        BY <3>1 DEF RowsKeep, ClaimOf
      <3>3. row[k].token = claim[w].token
        BY <1>2, <1>3, <2>2, <3>2 DEF ClaimOf
      <3> QED BY <1>2, <1>3, <3>2, <3>3 DEF Bonds
    <2>3. \A v \in Owners : claim'[v] # NoClaim /\ claim'[v].token = claim'[w].token => v = w
      BY <1>2, <1>3 DEF Bonds
    <2> QED BY <2>1, <2>2, <2>3
  <1>4. Bonds'
    BY <1>3 DEF Bonds
  <1>5. ASSUME NEW w \in Owners, pc'[w] = "performed", MaxWork > 0
        PROVE  work'[claim'[w].key] > 0
    <2>1. claim'[w] # NoClaim
      BY <1>5 DEF WorkersKeep, Busy, Delivering
    <2>2. claim'[w] = claim[w] /\ claim[w].key \in Keys
      BY <1>2, <2>1
    <2>3. work'[claim[w].key] \in Nat /\ work[claim[w].key] \in Nat
          /\ work'[claim[w].key] >= work[claim[w].key]
      BY <2>2 DEF Shapes, WorkersKeep
    <2> QED BY <1>5, <2>2, <2>3 DEF Efforts, WorkersKeep
  <1>6. ASSUME NEW w \in Owners, NEW k \in detached'[w]
        PROVE  row'[k].status # "absent"
    <2>1. k \in Keys
      BY DEF WorkersKeep
    <2>2. row[k].status # "absent"
      BY DEF WorkersKeep, Efforts, Bonds
    <2> QED BY <2>1, <2>2 DEF RowsKeep
  <1>7. Efforts'
    BY <1>5, <1>6 DEF Efforts
  <1> QED BY <1>1, <1>4, <1>7 DEF RowsKeep

-----------------------------------------------------------------------------
(* The ways in which steps change the documents.                           *)
LEMMA RowsSame ==
  ASSUME Inv, UNCHANGED <<row, charged>>
  PROVE  RowsKeep
  BY DEF Inv, Shapes, RowsKeep, ClaimOf

(* One document is replaced.                                               *)
LEMMA RowsOne ==
  ASSUME Inv, NEW k \in Keys, NEW r, NEW n,
         row' = [row EXCEPT ![k] = r], charged' = [charged EXCEPT ![k] = n],
         Fine(r, n), r.status # "absent",
         r.token # None =>
           /\ r.token = row[k].token /\ r.owner = row[k].owner
           /\ r.attempts = row[k].attempts /\ r.max = row[k].max
  PROVE  RowsKeep
  <1>1. /\ row' \in [Keys -> Rows] /\ charged' \in [Keys -> Nat]
        /\ row'[k] = r /\ charged'[k] = n
        /\ \A j \in Keys \ {k} : row'[j] = row[j] /\ charged'[j] = charged[j]
    BY DEF Inv, Shapes, Fine
  <1>2. r.token # None => ClaimOf(k)' = ClaimOf(k)
    BY <1>1 DEF ClaimOf
  <1>3. \A j \in Keys \ {k} : ClaimOf(j)' = ClaimOf(j)
    BY <1>1 DEF ClaimOf
  <1> QED BY <1>1, <1>2, <1>3 DEF Inv, RowsKeep

(* The same when nothing is charged.                                       *)
LEMMA RowsOneFree ==
  ASSUME Inv, NEW k \in Keys, NEW r,
         row' = [row EXCEPT ![k] = r], UNCHANGED charged,
         Fine(r, charged[k]), r.status # "absent",
         r.token # None =>
           /\ r.token = row[k].token /\ r.owner = row[k].owner
           /\ r.attempts = row[k].attempts /\ r.max = row[k].max
  PROVE  RowsKeep
  <1>1. charged' = [charged EXCEPT ![k] = charged[k]]
    BY DEF Inv, Shapes
  <1> QED BY <1>1, RowsOne

LEMMA ProduceKeeps == Inv /\ Produce => RowsKeep
  <1> SUFFICES ASSUME Inv, Produce PROVE RowsKeep
    OBVIOUS
  <1> PICK ks \in SUBSET Keys :
             \E batch \in [ks -> Payloads], max \in [ks -> AttemptLimits], due \in [ks -> Dues] :
               Insert(batch, max, due) /\ UNCHANGED charged
    BY DEF Produce
  <1> PICK batch \in [ks -> Payloads], max \in [ks -> AttemptLimits], due \in [ks -> Dues] :
             Insert(batch, max, due) /\ UNCHANGED charged
    OBVIOUS
  <1> DEFINE new(k) == Submitted(batch[k], max[k], due[k])
  <1>1. row' = [k \in Keys |-> IF k \in ks /\ row[k].status = "absent" THEN new(k) ELSE row[k]]
    BY DEF Insert, Inserted
  <1>2. \A k \in ks : Fine(new(k), 0) /\ new(k).status = "pending" /\ new(k).token = None
    BY SubmittedFine
  <1> HIDE DEF new
  <1>3. ASSUME NEW k \in Keys
        PROVE  /\ Fine(row'[k], charged'[k])
               /\ row[k].status # "absent" => row'[k].status # "absent"
               /\ row'[k].token # None => ClaimOf(k)' = ClaimOf(k)
    <2>1. CASE k \in ks /\ row[k].status = "absent"
      <3>1. charged'[k] = 0
        BY <2>1 DEF Inv, Fine
      <3> QED BY <1>1, <1>2, <2>1, <3>1
    <2>2. CASE ~(k \in ks /\ row[k].status = "absent")
      <3>1. row'[k] = row[k]
        BY <1>1, <2>2
      <3> QED BY <3>1 DEF Inv, ClaimOf
    <2> QED BY <2>1, <2>2
  <1>4. row' \in [Keys -> Rows]
    <2>1. \A k \in Keys : row'[k] \in Rows
      BY <1>3 DEF Fine
    <2> QED BY <1>1, <2>1
  <1> QED BY <1>3, <1>4 DEF RowsKeep, Inv, Shapes

LEMMA TickKeeps == Inv /\ Tick => RowsKeep
  <1> SUFFICES ASSUME Inv, Tick PROVE RowsKeep
    OBVIOUS
  <1>1. /\ row' = [k \in Keys |-> AgedRow(row[k])] /\ charged' = charged
    BY DEF Tick, AgedRows
  <1>2. ASSUME NEW k \in Keys
        PROVE  /\ Fine(row'[k], charged'[k])
               /\ row'[k].status = row[k].status
               /\ ClaimOf(k)' = ClaimOf(k)
    <2>1. row'[k] = AgedRow(row[k]) /\ Fine(row[k], charged[k])
      BY <1>1 DEF Inv
    <2> QED BY <1>1, <2>1, AgedFine DEF ClaimOf
  <1>3. row' \in [Keys -> Rows]
    <2>1. \A k \in Keys : row'[k] \in Rows
      BY <1>2 DEF Fine
    <2> QED BY <1>1, <2>1
  <1> QED BY <1>1, <1>2, <1>3 DEF RowsKeep, Inv, Shapes

(* A document that waits or is being delivered gets another status.        *)
Becomes(k, status) ==
  /\ k \in Keys /\ row[k].status \in {"pending", "processing"}
  /\ row'[k].status = status
  /\ \A j \in Keys \ {k} : row'[j] = row[j]

LEMMA FencedIsCurrent ==
  ASSUME Inv, NEW w \in Owners, claim[w] # NoClaim, NEW now, Fenced(claim[w], now)
  PROVE  LET k == claim[w].key IN
         /\ k \in Keys /\ claim[w] = ClaimOf(k)
         /\ row[k].status = "processing" /\ row[k].token = claim[w].token
         /\ row[k].attempts = claim[w].attempts /\ row[k].max = claim[w].max
         /\ Fine(row[k], charged[k]) /\ row[k].attempts \in Nat /\ row[k].max \in Nat
         /\ row \in [Keys -> Rows] /\ charged \in [Keys -> Nat]
  <1> DEFINE k == claim[w].key
  <1>1. k \in Keys
    BY DEF Inv, Shapes, Claims
  <1>2. claim[w] = ClaimOf(k)
    BY <1>1 DEF Fenced, Inv, Bonds
  <1> QED BY <1>1, <1>2 DEF Fenced, ClaimOf, Inv, Shapes, Fine, Rows

LEMMA RenewStep ==
  ASSUME Inv, NEW w \in Owners, claim[w] # NoClaim, NEW now \in Now,
         RenewLease(claim[w], now), UNCHANGED charged
  PROVE  /\ RowsKeep /\ Becomes(claim[w].key, "processing")
         /\ row'[claim[w].key].token = row[claim[w].key].token
  <1> DEFINE k == claim[w].key  r == Renewed(row[k], now)
  <1>1. Fenced(claim[w], now) /\ row' = [row EXCEPT ![k] = r]
    BY DEF RenewLease
  <1>2. /\ k \in Keys /\ row[k].status = "processing" /\ Fine(row[k], charged[k])
        /\ row \in [Keys -> Rows] /\ now \in Int
    BY <1>1, FencedIsCurrent, ClockIsPast
  <1>3. /\ Fine(r, charged[k]) /\ r.status = "processing"
        /\ r.token = row[k].token /\ r.owner = row[k].owner
        /\ r.attempts = row[k].attempts /\ r.max = row[k].max
    BY <1>2, RenewedFine
  <1> HIDE DEF k, r
  <1>4. RowsKeep
    BY <1>1, <1>2, <1>3, RowsOneFree
  <1>5. Becomes(k, "processing") /\ row'[k].token = row[k].token
    BY <1>1, <1>2, <1>3 DEF Becomes
  <1> QED BY <1>4, <1>5 DEF k

LEMMA DeferStep ==
  ASSUME Inv, NEW w \in Owners, claim[w] # NoClaim, NEW now \in Now,
         DeferClaim(claim[w], now), UNCHANGED charged
  PROVE  RowsKeep /\ Becomes(claim[w].key, "pending")
  <1> DEFINE k == claim[w].key  r == Deferred(row[k], now)
  <1>1. Fenced(claim[w], now) /\ row' = [row EXCEPT ![k] = r]
    BY DEF DeferClaim
  <1>2. /\ k \in Keys /\ row[k].status = "processing" /\ Fine(row[k], charged[k])
        /\ row \in [Keys -> Rows] /\ now \in Int
    BY <1>1, FencedIsCurrent, ClockIsPast
  <1>3. Fine(r, charged[k]) /\ r.status = "pending" /\ r.token = None
    BY <1>2, DeferredFine
  <1> HIDE DEF k, r
  <1>4. RowsKeep
    BY <1>1, <1>2, <1>3, RowsOneFree
  <1>5. Becomes(k, "pending")
    BY <1>1, <1>2, <1>3 DEF Becomes
  <1> QED BY <1>4, <1>5 DEF k

LEMMA DeliverStep ==
  ASSUME Inv, NEW w \in Owners, claim[w] # NoClaim, NEW now \in Now,
         FinalizeDelivered(claim[w], now), UNCHANGED charged
  PROVE  RowsKeep /\ Becomes(claim[w].key, "delivered")
  <1> DEFINE k == claim[w].key  r == Delivered(row[k], now)
  <1>1. Fenced(claim[w], now) /\ row' = [row EXCEPT ![k] = r]
    BY DEF FinalizeDelivered
  <1>2. /\ k \in Keys /\ row[k].status = "processing" /\ Fine(row[k], charged[k])
        /\ row \in [Keys -> Rows] /\ now \in Int
    BY <1>1, FencedIsCurrent, ClockIsPast
  <1>3. Fine(r, charged[k]) /\ r.status = "delivered" /\ r.token = None
    BY <1>2, DeliveredFine
  <1> HIDE DEF k, r
  <1>4. RowsKeep
    BY <1>1, <1>2, <1>3, RowsOneFree
  <1>5. Becomes(k, "delivered")
    BY <1>1, <1>2, <1>3 DEF Becomes
  <1> QED BY <1>4, <1>5 DEF k

(* A failure spends the attempt that the worker's claim counted.           *)
LEMMA FailStep ==
  ASSUME Inv, NEW w \in Owners, claim[w] # NoClaim, NEW now \in Now, NEW retryable \in BOOLEAN,
         FinalizeFailure(claim[w], retryable, now),
         charged' = [charged EXCEPT ![claim[w].key] = @ + 1]
  PROVE  RowsKeep /\ \E status \in {"pending", "dead"} : Becomes(claim[w].key, status)
  <1> DEFINE k == claim[w].key
  <1>1. Fenced(claim[w], now)
    BY DEF FinalizeFailure
  <1>2. /\ k \in Keys /\ row[k].status = "processing" /\ Fine(row[k], charged[k])
        /\ row[k].attempts = claim[w].attempts /\ row[k].max = claim[w].max
        /\ row[k].attempts \in Nat /\ row[k].max \in Nat
        /\ row \in [Keys -> Rows] /\ charged \in [Keys -> Nat] /\ now \in Int
    BY <1>1, FencedIsCurrent, ClockIsPast
  <1>3. charged' = [charged EXCEPT ![k] = charged[k] + 1] /\ charged[k] + 1 \in Nat
    BY <1>2
  <1>4. SUFFICES ASSUME NEW r, row' = [row EXCEPT ![k] = r], NEW status \in {"pending", "dead"},
                        Fine(r, charged[k] + 1), r.status = status, r.token = None
                 PROVE  RowsKeep /\ Becomes(k, status)
    <2>1. CASE ShouldDeadLetter(claim[w], retryable)
      <3>1. row' = [row EXCEPT ![k] = Dead(row[k], now, "DELIVERY_FAILED")]
        BY <2>1 DEF FinalizeFailure
      <3>2. /\ Fine(Dead(row[k], now, "DELIVERY_FAILED"), charged[k] + 1)
            /\ Dead(row[k], now, "DELIVERY_FAILED").status = "dead"
            /\ Dead(row[k], now, "DELIVERY_FAILED").token = None
        BY <1>2, <1>3, DeadFine DEF Codes
      <3> QED BY <1>4, <3>1, <3>2
    <2>2. CASE ~ShouldDeadLetter(claim[w], retryable)
      <3>1. row[k].attempts < row[k].max
        BY <1>2, <2>2 DEF ShouldDeadLetter
      <3> PICK b \in Backoffs(claim[w].attempts) :
            row' = [row EXCEPT ![k] = Retried(row[k], now + b, "DELIVERY_FAILED")]
        BY <2>2 DEF FinalizeFailure
      <3>2. now + b \in Int
        BY <1>2, DurationsAssumption DEF Backoffs
      <3>3. /\ Fine(Retried(row[k], now + b, "DELIVERY_FAILED"), charged[k] + 1)
            /\ Retried(row[k], now + b, "DELIVERY_FAILED").status = "pending"
            /\ Retried(row[k], now + b, "DELIVERY_FAILED").token = None
        BY <1>2, <3>1, <3>2, RetriedFine DEF Codes
      <3> QED BY <1>4, <3>3
    <2> QED BY <2>1, <2>2
  <1> HIDE DEF k
  <1>5. RowsKeep
    BY <1>2, <1>3, <1>4, RowsOne
  <1>6. Becomes(k, status)
    BY <1>2, <1>4 DEF Becomes
  <1> QED BY <1>5, <1>6

(* Repairs take rows whose lease is over, or that have no attempt left,    *)
(* which a waiting row always has.                                         *)
LEMMA RepairStep ==
  ASSUME Inv, NEW w \in Owners, NEW k \in Keys, Repair(w, k)
  PROVE  /\ RowsKeep /\ \E status \in {"pending", "dead"} : Becomes(k, status)
         /\ row[k].lease \in Int /\ row[k].lease <= 0
  <1> PICK now \in Now :
        /\ DeadLetterExhausted(k, now) \/ RecoverExpiredLease(k, now)
        /\ charged' = [charged EXCEPT ![k] = @ + 1]
    BY DEF Repair
  <1>1. /\ Fine(row[k], charged[k]) /\ row \in [Keys -> Rows] /\ charged \in [Keys -> Nat]
        /\ row[k].attempts \in Nat /\ row[k].max \in Nat /\ row[k].lease \in Int \cup {None}
        /\ now \in Int /\ now <= 0
    BY ClockIsPast DEF Inv, Shapes, Fine, Rows, Time
  <1>2. charged' = [charged EXCEPT ![k] = charged[k] + 1] /\ charged[k] + 1 \in Nat
    BY <1>1
  <1>3. LeaseOver(k, now)
    BY <1>1 DEF DeadLetterExhausted, Exhausted, RecoverExpiredLease, ExpiredLease, Fine
  <1>4. row[k].status = "processing" /\ row[k].lease \in Int /\ row[k].lease <= 0
    BY <1>1, <1>3 DEF LeaseOver, Fine
  <1>5. SUFFICES ASSUME NEW r, row' = [row EXCEPT ![k] = r], NEW status \in {"pending", "dead"},
                        Fine(r, charged[k] + 1), r.status = status, r.token = None
                 PROVE  RowsKeep /\ Becomes(k, status)
    <2>1. CASE DeadLetterExhausted(k, now)
      <3>1. /\ row' = [row EXCEPT ![k] = Dead(row[k], now, "MAX_ATTEMPTS_EXHAUSTED")]
            /\ charged[k] + 1 = row[k].max
        BY <1>1, <1>4, <2>1 DEF DeadLetterExhausted, Exhausted, Fine
      <3>2. /\ Fine(Dead(row[k], now, "MAX_ATTEMPTS_EXHAUSTED"), charged[k] + 1)
            /\ Dead(row[k], now, "MAX_ATTEMPTS_EXHAUSTED").status = "dead"
            /\ Dead(row[k], now, "MAX_ATTEMPTS_EXHAUSTED").token = None
        BY <1>1, <1>2, <3>1, DeadFine DEF Codes
      <3> QED BY <1>4, <1>5, <3>1, <3>2
    <2>2. CASE RecoverExpiredLease(k, now)
      <3>1. /\ row' = [row EXCEPT ![k] = Retried(row[k], now, "LEASE_EXPIRED")]
            /\ row[k].attempts < row[k].max
        BY <2>2 DEF RecoverExpiredLease, ExpiredLease
      <3>2. /\ Fine(Retried(row[k], now, "LEASE_EXPIRED"), charged[k] + 1)
            /\ Retried(row[k], now, "LEASE_EXPIRED").status = "pending"
            /\ Retried(row[k], now, "LEASE_EXPIRED").token = None
        BY <1>1, <1>4, <3>1, RetriedFine DEF Codes
      <3> QED BY <1>4, <1>5, <3>1, <3>2
    <2> QED BY <2>1, <2>2
  <1>6. RowsKeep
    BY <1>1, <1>2, <1>5, RowsOne
  <1>7. Becomes(k, status)
    BY <1>1, <1>4, <1>5 DEF Becomes
  <1> QED BY <1>6, <1>7

LEMMA ReviewStep ==
  ASSUME Inv, NEW w \in Owners, NEW k \in Keys, Review(w, k)
  PROVE  /\ RowsKeep /\ \E status \in {"pending", "dead"} : Becomes(k, status)
         /\ row[k].token = None
  <1> PICK now \in Now :
        /\ \/ ClearUnsupported(k, handlers[w])
           \/ MarkUnsupported(k, handlers[w], now)
           \/ DeadLetterUnsupported(k, handlers[w], now)
        /\ UNCHANGED charged
    BY DEF Review
  <1>1. /\ Fine(row[k], charged[k]) /\ row \in [Keys -> Rows] /\ charged \in [Keys -> Nat]
        /\ now \in Int /\ now \in Time /\ None \in Time
    BY ClockIsPast DEF Inv, Shapes, Time
  <1>2. row[k].status = "pending" /\ row[k].token = None
    BY <1>1 DEF ClearUnsupported, MarkUnsupported, DeadLetterUnsupported, Fine
  <1>3. SUFFICES ASSUME NEW r, row' = [row EXCEPT ![k] = r], NEW status \in {"pending", "dead"},
                        Fine(r, charged[k]), r.status = status, r.token = None
                 PROVE  RowsKeep /\ Becomes(k, status)
    <2>1. ASSUME NEW since \in Time, row' = [row EXCEPT ![k].unsupportedSince = since]
          PROVE  RowsKeep /\ \E status \in {"pending", "dead"} : Becomes(k, status)
      <3> DEFINE r == [row[k] EXCEPT !.unsupportedSince = since]
      <3>1. row' = [row EXCEPT ![k] = r]
        BY <2>1
      <3>2. Fine(r, charged[k]) /\ r.status = "pending" /\ r.token = None
        BY <1>1, <1>2, MarkedFine
      <3> HIDE DEF r
      <3> QED BY <1>2, <1>3, <3>1, <3>2
    <2>2. CASE ClearUnsupported(k, handlers[w])
      BY <1>1, <1>2, <2>1, <2>2 DEF ClearUnsupported
    <2>3. CASE MarkUnsupported(k, handlers[w], now)
      BY <1>1, <1>2, <2>1, <2>3 DEF MarkUnsupported
    <2>4. CASE DeadLetterUnsupported(k, handlers[w], now)
      <3>1. row' = [row EXCEPT ![k] = Dead(row[k], now, "HANDLER_NOT_REGISTERED")]
        BY <2>4 DEF DeadLetterUnsupported
      <3> QED BY <1>1, <1>2, <1>3, <3>1, DeadFine DEF Codes
    <2> QED BY <2>2, <2>3, <2>4
  <1>4. RowsKeep
    BY <1>1, <1>2, <1>3, RowsOneFree
  <1>5. Becomes(k, status)
    BY <1>1, <1>2, <1>3 DEF Becomes
  <1> QED BY <1>4, <1>5

-----------------------------------------------------------------------------
(* The ways in which steps change the workers.                             *)
DetachedKeep ==
  /\ detached' \in [Owners -> SUBSET Keys]
  /\ \A w \in Owners : \A k \in detached'[w] :
       k \in detached[w] \/ (claim[w] # NoClaim /\ k = claim[w].key)

WorkKeeps == work' \in [Keys -> 0..MaxWork] /\ \A k \in Keys : work'[k] >= work[k]

LEMMA ClaimIsTyped ==
  ASSUME Inv, NEW w \in Owners, pc[w] \in Busy
  PROVE  /\ claim[w] # NoClaim /\ claim[w] \in Claims
         /\ claim[w].key \in Keys /\ claim[w].token \in Tokens
  BY DEF Inv, Shapes, Claims

LEMMA Detaches ==
  ASSUME Inv, NEW w \in Owners,
         detached' = [detached EXCEPT ![w] =
           IF pc[w] = "handling" THEN @ \cup {claim[w].key} ELSE @]
  PROVE  DetachedKeep
  <1>1. pc[w] = "handling" => claim[w] # NoClaim /\ claim[w].key \in Keys
    BY ClaimIsTyped DEF Busy, Delivering
  <1>2. detached \in [Owners -> SUBSET Keys]
    BY DEF Inv, Shapes
  <1>3. detached' \in [Owners -> SUBSET Keys]
    BY <1>1, <1>2
  <1>4. /\ \A v \in Owners \ {w} : detached'[v] = detached[v]
        /\ detached'[w] =
             IF pc[w] = "handling" THEN detached[w] \cup {claim[w].key} ELSE detached[w]
    BY <1>2
  <1>5. ASSUME NEW v \in Owners, NEW k \in detached'[v]
        PROVE  k \in detached[v] \/ (claim[v] # NoClaim /\ k = claim[v].key)
    BY <1>1, <1>4
  <1> QED BY <1>3, <1>5 DEF DetachedKeep

LEMMA WorkSame == Inv /\ UNCHANGED work => WorkKeeps
  <1> SUFFICES ASSUME Inv, UNCHANGED work PROVE WorkKeeps
    OBVIOUS
  <1>1. \A k \in Keys : work[k] \in Int
    BY DEF Inv, Shapes
  <1> QED BY <1>1 DEF WorkKeeps, Inv, Shapes

LEMMA WorksOn ==
  ASSUME Inv, NEW k \in Keys, work' = Worked(k)
  PROVE  WorkKeeps /\ (MaxWork > 0 => work'[k] > 0)
  <1>1. \A j \in Keys : work[j] \in Nat /\ work[j] <= MaxWork
    BY MaxWorkAssumption DEF Inv, Shapes
  <1>2. work' = [work EXCEPT ![k] = IF work[k] < MaxWork THEN work[k] + 1 ELSE work[k]]
    BY DEF Worked
  <1>3. work' \in [Keys -> 0..MaxWork]
    BY <1>1, <1>2, MaxWorkAssumption DEF Inv, Shapes
  <1> QED BY <1>1, <1>2, <1>3, MaxWorkAssumption DEF WorkKeeps, Inv, Shapes

LEMMA WorkersSame ==
  ASSUME Inv, UNCHANGED <<pc, claim, retry, handlers>>, open' \subseteq Kinds,
         DetachedKeep, WorkKeeps
  PROVE  WorkersKeep
  BY DEF Inv, Shapes, WorkersKeep, DetachedKeep, WorkKeeps

LEMMA WorkerMoves ==
  ASSUME Inv, NEW w \in Owners, NEW phase \in Phases, Goto(w, phase),
         \/ UNCHANGED claim /\ (phase \in Busy <=> pc[w] \in Busy)
         \/ claim' = [claim EXCEPT ![w] = NoClaim] /\ phase \notin Busy,
         retry' \in [Owners -> BOOLEAN], handlers' \in [Owners -> SUBSET Kinds], UNCHANGED open,
         DetachedKeep, WorkKeeps,
         phase = "performed" /\ MaxWork > 0 => work'[claim[w].key] > 0
  PROVE  WorkersKeep
  <1>1. /\ pc' \in [Owners -> Phases] /\ pc'[w] = phase
        /\ \A v \in Owners \ {w} : pc'[v] = pc[v]
    BY DEF Goto, Inv, Shapes
  <1>2. /\ claim' \in [Owners -> Claims \cup {NoClaim}]
        /\ \A v \in Owners \ {w} : claim'[v] = claim[v]
        /\ \/ claim'[w] = claim[w] /\ (phase \in Busy <=> pc[w] \in Busy)
           \/ claim'[w] = NoClaim /\ phase \notin Busy
    BY DEF Inv, Shapes
  <1>3. ASSUME NEW v \in Owners
        PROVE  /\ claim'[v] # NoClaim <=> pc'[v] \in Busy
               /\ claim'[v] \in {claim[v], NoClaim}
               /\ pc'[v] = "performed" /\ MaxWork > 0 =>
                    pc[v] = "performed" \/ work'[claim[v].key] > 0
    BY <1>1, <1>2 DEF Inv, Shapes
  <1> QED BY <1>1, <1>2, <1>3 DEF Inv, Shapes, WorkersKeep, DetachedKeep, WorkKeeps

(* A worker moves and the rest stays.                                      *)
LEMMA WorkerGoes ==
  ASSUME Inv, NEW w \in Owners, NEW phase \in Phases \ {"performed"}, Goto(w, phase),
         \/ UNCHANGED claim /\ (phase \in Busy <=> pc[w] \in Busy)
         \/ claim' = [claim EXCEPT ![w] = NoClaim] /\ phase \notin Busy,
         UNCHANGED <<handlers, open, work>>, retry' \in [Owners -> BOOLEAN], DetachedKeep
  PROVE  WorkersKeep
  <1>1. WorkKeeps /\ handlers' \in [Owners -> SUBSET Kinds]
    BY WorkSame DEF Inv, Shapes
  <1> QED BY <1>1, WorkerMoves

LEMMA DetachedSame == Inv /\ UNCHANGED detached => DetachedKeep
  <1> SUFFICES ASSUME Inv, UNCHANGED detached PROVE DetachedKeep
    OBVIOUS
  <1>1. detached' \in [Owners -> SUBSET Keys]
    BY DEF Inv, Shapes
  <1>2. ASSUME NEW w \in Owners, NEW k \in detached'[w] PROVE k \in detached[w]
    BY <1>2
  <1> QED BY <1>1, <1>2 DEF DetachedKeep

-----------------------------------------------------------------------------
(* Every step keeps the invariant.                                         *)
LEMMA FreshIsFresh ==
  ASSUME NEW t \in FreshTokens
  PROVE  /\ t \in Tokens /\ \A k \in Keys : row[k].token # t
         /\ \A w \in Owners : claim[w] # NoClaim => claim[w].token # t
  <1> DEFINE used == {row[k].token : k \in Keys}
                     \cup {claim[w].token : w \in {v \in Owners : claim[v] # NoClaim}}
             free == Tokens \ used
  <1>1. free # {} /\ t = CHOOSE u \in free : TRUE
    BY DEF FreshTokens
  <1>2. t \in free
    BY <1>1
  <1> QED BY <1>2

LEMMA ClaimKeepsInv ==
  ASSUME Inv, NEW w \in Owners, Claim(w)
  PROVE  Inv'
  <1> PICK k \in Keys, t \in FreshTokens, now \in Now :
        /\ ClaimNext(k, w, handlers[w] \cap open, t, now)
        /\ claim' = [claim EXCEPT ![w] = ClaimOf(k)']
    BY DEF Claim
  <1> DEFINE r == Claimed(row[k], w, t, now)
  <1>1. /\ pc[w] = "idle" /\ pc' = [pc EXCEPT ![w] = "authorizing"]
        /\ UNCHANGED <<retry, handlers, detached, open, work, charged>>
    BY DEF Claim, Goto
  <1>2. row[k].status = "pending" /\ row' = [row EXCEPT ![k] = r]
    BY DEF ClaimNext, Claimable
  <1>3. t \in Tokens /\ (\A j \in Keys : row[j].token # t)
        /\ \A v \in Owners : claim[v] # NoClaim => claim[v].token # t
    BY FreshIsFresh
  <1>4. Fine(r, charged[k]) /\ r.status = "processing" /\ r.token = t /\ r.owner = w
    BY <1>2, <1>3, ClockIsPast, ClaimedFine DEF Inv
  <1> HIDE DEF r
  <1>5. /\ row' \in [Keys -> Rows] /\ row'[k] = r
        /\ \A j \in Keys \ {k} : row'[j] = row[j]
    BY <1>2, <1>4 DEF Inv, Shapes, Fine
  <1>6. \A j \in Keys : /\ Fine(row'[j], charged'[j])
                        /\ row[j].status # "absent" => row'[j].status # "absent"
    BY <1>1, <1>4, <1>5 DEF Inv
  <1>7. ClaimOf(k)' \in Claims /\ ClaimOf(k)'.token = t /\ ClaimOf(k)'.key = k
    BY <1>3, <1>4, <1>5 DEF ClaimOf, Claims, Fine, Rows
  <1>8. /\ claim' \in [Owners -> Claims \cup {NoClaim}] /\ claim'[w] = ClaimOf(k)'
        /\ claim'[w] # NoClaim /\ \A v \in Owners \ {w} : claim'[v] = claim[v]
    BY <1>7, NoClaimAssumption DEF Inv, Shapes
  <1>9. /\ pc' \in [Owners -> Phases] /\ pc'[w] = "authorizing"
        /\ \A v \in Owners \ {w} : pc'[v] = pc[v]
        /\ "authorizing" \in Busy
    BY <1>1 DEF Inv, Shapes, Phases, Busy, Delivering
  <1>10. Shapes'
    BY <1>1, <1>5, <1>8, <1>9 DEF Inv, Shapes
  <1>11. ASSUME NEW v \in Owners, claim'[v] # NoClaim
         PROVE  /\ row'[claim'[v].key].status # "absent"
                /\ \A j \in Keys : row'[j].token = claim'[v].token => claim'[v] = ClaimOf(j)'
                /\ \A u \in Owners :
                     claim'[u] # NoClaim /\ claim'[u].token = claim'[v].token => u = v
    <2>1. CASE v = w
      <3>1. row'[claim'[v].key].status # "absent"
        BY <1>4, <1>5, <1>7, <1>8, <2>1
      <3>2. \A j \in Keys : row'[j].token = claim'[v].token => claim'[v] = ClaimOf(j)'
        BY <1>3, <1>5, <1>7, <1>8, <2>1
      <3>3. \A u \in Owners : claim'[u] # NoClaim /\ claim'[u].token = claim'[v].token => u = v
        BY <1>3, <1>7, <1>8, <2>1
      <3> QED BY <3>1, <3>2, <3>3
    <2>2. CASE v # w
      <3>1. /\ claim'[v] = claim[v] /\ claim[v] # NoClaim
            /\ claim[v].key \in Keys /\ claim[v].token # t
        BY <1>3, <1>8, <1>11, <2>2 DEF Inv, Shapes, Claims
      <3>2. row'[claim'[v].key].status # "absent"
        BY <1>6, <3>1 DEF Inv, Bonds
      <3>3. ASSUME NEW j \in Keys, row'[j].token = claim'[v].token
            PROVE  claim'[v] = ClaimOf(j)'
        <4>1. j # k /\ row'[j] = row[j]
          BY <1>4, <1>5, <3>1, <3>3
        <4>2. ClaimOf(j)' = ClaimOf(j)
          BY <4>1 DEF ClaimOf
        <4> QED BY <3>1, <3>3, <4>1, <4>2 DEF Inv, Bonds
      <3>4. \A u \in Owners : claim'[u] # NoClaim /\ claim'[u].token = claim'[v].token => u = v
        BY <1>7, <1>8, <3>1 DEF Inv, Bonds
      <3> QED BY <3>2, <3>3, <3>4
    <2> QED BY <2>1, <2>2
  <1>12. Bonds'
    BY <1>11 DEF Bonds
  <1>13. ASSUME NEW v \in Owners, pc'[v] = "performed"
         PROVE  pc[v] = "performed" /\ claim'[v] = claim[v]
    BY <1>8, <1>9, <1>13
  <1>14. Efforts'
    BY <1>1, <1>6, <1>13 DEF Efforts, Inv, Shapes
  <1> QED BY <1>1, <1>5, <1>6, <1>10, <1>12, <1>14 DEF Inv

LEMMA FinishKeeps ==
  ASSUME Inv, NEW w \in Owners, Finish(w)
  PROVE  RowsKeep /\ WorkersKeep
  <1> PICK now \in Now :
        /\ \/ pc[w] = "performed" /\ FinalizeDelivered(claim[w], now) /\ UNCHANGED charged
           \/ /\ pc[w] = "failed" /\ FinalizeFailure(claim[w], retry[w], now)
              /\ charged' = [charged EXCEPT ![claim[w].key] = @ + 1]
           \/ pc[w] = "deferring" /\ DeferClaim(claim[w], now) /\ UNCHANGED charged
           \/ /\ pc[w] \in {"performed", "failed", "deferring"}
              /\ ~Fenced(claim[w], now)
              /\ UNCHANGED <<row, charged>>
    BY DEF Finish
  <1>1. claim[w] # NoClaim /\ retry[w] \in BOOLEAN
    BY ClaimIsTyped DEF Busy, Delivering, Inv, Shapes
  <1>2. RowsKeep
    BY <1>1, DeliverStep, FailStep, DeferStep, RowsSame
  <1>3. /\ Goto(w, "idle") /\ claim' = [claim EXCEPT ![w] = NoClaim]
        /\ UNCHANGED <<retry, handlers, detached, open, work>>
    BY DEF Finish, Drop
  <1>4. "idle" \in Phases \ {"performed"} /\ "idle" \notin Busy
    BY DEF Phases, Busy, Delivering
  <1>5. retry' \in [Owners -> BOOLEAN]
    BY <1>3 DEF Inv, Shapes
  <1>6. WorkersKeep
    BY <1>3, <1>4, <1>5, WorkerGoes, DetachedSame
  <1> QED BY <1>2, <1>6

LEMMA HeartbeatKeeps ==
  ASSUME Inv, NEW w \in Owners, Heartbeat(w)
  PROVE  RowsKeep /\ WorkersKeep
  <1> PICK now \in Now :
        /\ pc[w] \in Delivering
        /\ \/ RenewLease(claim[w], now) /\ UNCHANGED worker
           \/ /\ Drop(w, "idle")
              /\ detached' = [detached EXCEPT ![w] =
                   IF pc[w] = "handling" THEN @ \cup {claim[w].key} ELSE @]
              /\ UNCHANGED <<row, retry>>
        /\ UNCHANGED <<handlers, open, work, charged>>
    BY DEF Heartbeat
  <1>1. claim[w] # NoClaim /\ open' \subseteq Kinds
    BY ClaimIsTyped DEF Busy, Inv, Shapes
  <1>2. CASE RenewLease(claim[w], now) /\ UNCHANGED worker
    <2>1. UNCHANGED <<pc, claim, retry, detached>>
      BY <1>2 DEF worker
    <2> QED BY <1>1, <1>2, <2>1, RenewStep, WorkersSame, DetachedSame, WorkSame
  <1>3. CASE /\ Drop(w, "idle")
             /\ detached' = [detached EXCEPT ![w] =
                  IF pc[w] = "handling" THEN @ \cup {claim[w].key} ELSE @]
             /\ UNCHANGED <<row, retry>>
    <2>1. "idle" \in Phases \ {"performed"} /\ "idle" \notin Busy
      BY DEF Phases, Busy, Delivering
    <2>2. DetachedKeep /\ retry' \in [Owners -> BOOLEAN]
      BY <1>3, Detaches DEF Inv, Shapes
    <2>3. WorkersKeep
      BY <1>3, <2>1, <2>2, WorkerGoes DEF Drop
    <2> QED BY <1>3, <2>3, RowsSame
  <1> QED BY <1>2, <1>3

LEMMA LoseAnswerKeeps ==
  ASSUME Inv, NEW w \in Owners, LoseAnswer(w)
  PROVE  RowsKeep /\ WorkersKeep
  <1> PICK now \in Now : FinalizeDelivered(claim[w], now)
    BY DEF LoseAnswer
  <1>1. /\ pc[w] = "performed" /\ Goto(w, "failed")
        /\ retry' = [retry EXCEPT ![w] = TRUE]
        /\ UNCHANGED <<claim, handlers, detached, open, work, charged>>
    BY DEF LoseAnswer
  <1>2. /\ pc[w] \in Busy /\ "failed" \in Busy /\ "failed" \in Phases \ {"performed"}
        /\ retry' \in [Owners -> BOOLEAN]
    BY <1>1 DEF Phases, Busy, Delivering, Inv, Shapes
  <1>3. RowsKeep
    BY <1>1, <1>2, ClaimIsTyped, DeliverStep
  <1>4. WorkersKeep
    BY <1>1, <1>2, WorkerGoes, DetachedSame
  <1> QED BY <1>3, <1>4

(* The steps of a worker that touch no document.                           *)
Aside(w) ==
  \/ Start(w) \/ Authorize(w) \/ Perform(w) \/ Fail(w) \/ Defer(w)
  \/ Abandon(w) \/ Stop(w) \/ Crash(w) \/ PerformLate(w)

LEMMA AsideKeeps ==
  ASSUME Inv, NEW w \in Owners, Aside(w)
  PROVE  RowsKeep /\ WorkersKeep /\ UNCHANGED <<row, charged>>
  <1>1. UNCHANGED <<row, charged>>
    BY DEF Aside, Start, Authorize, Perform, Fail, Defer, Abandon, Stop, Crash, PerformLate
  <1>2. /\ Phases = {"down", "idle", "authorizing", "handling", "performed", "failed", "deferring"}
        /\ Busy = {"authorizing", "handling", "performed", "failed", "deferring"}
        /\ retry \in [Owners -> BOOLEAN] /\ open \subseteq Kinds
        /\ handlers \in [Owners -> SUBSET Kinds]
    BY DEF Phases, Busy, Delivering, Inv, Shapes
  <1>3. CASE Start(w)
    <2> PICK d \in Deployments :
          /\ pc[w] = "down" /\ Goto(w, "idle")
          /\ handlers' = [handlers EXCEPT ![w] = d]
          /\ UNCHANGED <<row, claim, retry, detached, open, work, charged>>
      BY <1>3 DEF Start
    <2>1. handlers' \in [Owners -> SUBSET Kinds] /\ DetachedKeep /\ WorkKeeps
      BY <1>2, DeploymentsAssumption, DetachedSame, WorkSame
    <2>2. retry' \in [Owners -> BOOLEAN]
      BY <1>2
    <2>3. WorkersKeep
      BY <1>2, <2>1, <2>2, WorkerMoves
    <2> QED BY <1>1, <2>3, RowsSame
  <1>4. CASE Authorize(w)
    <2>1. /\ pc[w] \in Busy /\ (Goto(w, "handling") \/ Goto(w, "deferring"))
          /\ UNCHANGED <<claim, retry, handlers, detached, open, work>>
      BY <1>2, <1>4 DEF Authorize
    <2>2. WorkersKeep
      BY <1>2, <2>1, WorkerGoes, DetachedSame
    <2> QED BY <1>1, <2>2, RowsSame
  <1>5. CASE Perform(w)
    <2>1. /\ pc[w] \in Busy /\ Goto(w, "performed") /\ work' = Worked(claim[w].key)
          /\ UNCHANGED <<claim, retry, handlers, detached, open>>
      BY <1>2, <1>5 DEF Perform
    <2>2. WorkKeeps /\ (MaxWork > 0 => work'[claim[w].key] > 0) /\ DetachedKeep
      BY <2>1, ClaimIsTyped, WorksOn, DetachedSame
    <2>3. retry' \in [Owners -> BOOLEAN] /\ handlers' \in [Owners -> SUBSET Kinds]
      BY <1>2, <2>1
    <2>4. WorkersKeep
      BY <1>2, <2>1, <2>2, <2>3, WorkerMoves
    <2> QED BY <1>1, <2>4, RowsSame
  <1>6. CASE Fail(w)
    <2>1. /\ pc[w] \in Busy /\ Goto(w, "failed")
          /\ \E r \in BOOLEAN : retry' = [retry EXCEPT ![w] = r]
          /\ detached' = [detached EXCEPT ![w] =
               IF pc[w] = "handling" THEN @ \cup {claim[w].key} ELSE @]
          /\ UNCHANGED <<claim, handlers, open, work>>
      BY <1>6 DEF Fail, Busy
    <2>2. retry' \in [Owners -> BOOLEAN] /\ DetachedKeep
      BY <1>2, <2>1, Detaches
    <2>3. WorkersKeep
      BY <1>2, <2>1, <2>2, WorkerGoes
    <2> QED BY <1>1, <2>3, RowsSame
  <1>7. CASE Defer(w)
    <2>1. /\ pc[w] \in Busy /\ Goto(w, "deferring")
          /\ UNCHANGED <<claim, retry, handlers, detached, open, work>>
      BY <1>2, <1>7 DEF Defer
    <2>2. WorkersKeep
      BY <1>2, <2>1, WorkerGoes, DetachedSame
    <2> QED BY <1>1, <2>2, RowsSame
  <1>8. CASE Abandon(w) \/ Stop(w) \/ Crash(w)
    <2>1. /\ \E phase \in {"idle", "down"} :
               Goto(w, phase) /\ claim' = [claim EXCEPT ![w] = NoClaim]
          /\ UNCHANGED <<retry, handlers, open, work>>
      BY <1>8 DEF Abandon, Stop, Crash, Drop
    <2>2. DetachedKeep
      <3>1. CASE Abandon(w)
        BY <3>1, DetachedSame DEF Abandon
      <3>2. CASE Stop(w)
        BY <3>2, Detaches DEF Stop
      <3>3. CASE Crash(w)
        <4>1. detached' = [detached EXCEPT ![w] = {}] /\ detached \in [Owners -> SUBSET Keys]
          BY <3>3 DEF Crash, Inv, Shapes
        <4>2. \A v \in Owners : \A k \in detached'[v] : k \in detached[v]
          BY <4>1
        <4> QED BY <4>1, <4>2 DEF DetachedKeep
      <3> QED BY <1>8, <3>1, <3>2, <3>3
    <2>3. WorkersKeep
      BY <1>2, <2>1, <2>2, WorkerGoes
    <2> QED BY <1>1, <2>3, RowsSame
  <1>9. CASE PerformLate(w)
    <2> PICK k \in detached[w] :
          /\ work' = Worked(k)
          /\ detached' = [detached EXCEPT ![w] = @ \ {k}]
          /\ UNCHANGED <<pc, claim, retry, handlers, open>>
      BY <1>9 DEF PerformLate
    <2>1. detached \in [Owners -> SUBSET Keys] /\ k \in Keys
      BY DEF Inv, Shapes
    <2>2. \A v \in Owners : \A j \in detached'[v] : j \in detached[v]
      BY <2>1
    <2>3. DetachedKeep /\ WorkKeeps
      BY <2>1, <2>2, WorksOn DEF DetachedKeep
    <2>4. WorkersKeep
      BY <1>2, <2>3, WorkersSame
    <2> QED BY <1>1, <2>4, RowsSame
  <1> QED BY <1>3, <1>4, <1>5, <1>6, <1>7, <1>8, <1>9 DEF Aside

LEMMA OthersKeep ==
  ASSUME Inv,
         \/ Produce \/ Tick \/ \E kind \in Kinds : Flip(kind)
         \/ \E w \in Owners, k \in Keys : Repair(w, k) \/ Review(w, k)
  PROVE  RowsKeep /\ WorkersKeep
  <1>1. UNCHANGED <<pc, claim, retry, handlers, detached, work>> /\ open' \subseteq Kinds
    BY DEF Produce, Tick, Flip, Repair, Review, worker, Inv, Shapes
  <1>2. WorkersKeep
    BY <1>1, WorkersSame, DetachedSame, WorkSame
  <1>3. RowsKeep
    BY ProduceKeeps, TickKeeps, RowsSame, RepairStep, ReviewStep DEF Flip
  <1> QED BY <1>2, <1>3

LEMMA Cases ==
  Next => \/ Produce \/ Tick \/ \E kind \in Kinds : Flip(kind)
          \/ \E w \in Owners, k \in Keys : Repair(w, k) \/ Review(w, k)
          \/ \E w \in Owners : Claim(w) \/ Finish(w) \/ Heartbeat(w) \/ LoseAnswer(w) \/ Aside(w)
  BY DEF Next, Proceed, Aside

LEMMA StepKeepsInv == Inv /\ [Next]_vars => Inv'
  <1> SUFFICES ASSUME Inv, [Next]_vars PROVE Inv'
    OBVIOUS
  <1>1. CASE UNCHANGED vars
    <2>1. UNCHANGED <<row, pc, claim, retry, handlers, detached, open, work, charged>>
      BY <1>1 DEF vars
    <2>2. RowsKeep /\ WorkersKeep
      BY <2>1, RowsSame, WorkersSame, DetachedSame, WorkSame DEF Inv, Shapes
    <2> QED BY <2>2, KeepsInv
  <1>2. CASE Next
    BY <1>2, Cases, ClaimKeepsInv, KeepsInv,
       FinishKeeps, HeartbeatKeeps, LoseAnswerKeeps, AsideKeeps, OthersKeep
  <1> QED BY <1>1, <1>2

LEMMA InitInv == Init => Inv
  <1> SUFFICES ASSUME Init PROVE Inv
    OBVIOUS
  <1>1. \A k \in Keys : Fine(row[k], charged[k])
    BY AbsentFine DEF Init
  <1>2. Shapes
    BY AbsentFine, MaxWorkAssumption DEF Init, Shapes, Fine, Phases, Busy, Delivering
  <1>3. Bonds /\ Efforts
    BY DEF Init, Bonds, Efforts
  <1> QED BY <1>1, <1>2, <1>3 DEF Inv

LEMMA Invariance == Spec => []Inv
  BY InitInv, StepKeepsInv, PTL DEF Spec

-----------------------------------------------------------------------------
(* Every variable of the system keeps its type, and a worker has a claim   *)
(* exactly while it delivers.                                              *)
THEOREM TypeCorrect == Spec => []TypeOK
  <1>1. Inv => TypeOK
    BY DEF Inv, Shapes, TypeOK
  <1> QED BY Invariance, <1>1, PTL

(* However claims are deferred, lost, abandoned and recovered, a row pays  *)
(* for failures and expiries only, and is exhausted by nothing else.       *)
THEOREM FailuresAreCharged == Spec => []OnlyFailuresAreCharged
  <1>1. Inv => OnlyFailuresAreCharged
    BY DEF Inv, Fine, OnlyFailuresAreCharged
  <1> QED BY Invariance, <1>1, PTL

-----------------------------------------------------------------------------
(* A claim whose lease holds.                                              *)
Held(w) ==
  /\ claim[w] # NoClaim
  /\ row[claim[w].key].token = claim[w].token
  /\ row[claim[w].key].lease > 0

LEMMA HeldIsTyped ==
  ASSUME Inv, NEW w \in Owners, Held(w)
  PROVE  /\ claim[w].key \in Keys /\ row[claim[w].key].token # None
         /\ row[claim[w].key].status = "processing"
         /\ Fine(row[claim[w].key], charged[claim[w].key])
  <1>1. claim[w].key \in Keys /\ claim[w].token \in Tokens
    BY DEF Held, Inv, Shapes, Claims
  <1>2. row[claim[w].key].token # None /\ Fine(row[claim[w].key], charged[claim[w].key])
    BY <1>1, NoneAssumption DEF Held, Inv
  <1> QED BY <1>1, <1>2 DEF Fine

(* What another worker writes under its own lease is about another row.    *)
LEMMA HeldIsNotShared ==
  ASSUME Inv, NEW w \in Owners, Held(w), NEW v \in Owners \ {w},
         claim[v] # NoClaim, NEW now, Fenced(claim[v], now)
  PROVE  claim[v].key # claim[w].key
  BY DEF Held, Fenced, Inv, Bonds

LEMMA HeldIsNotTaken ==
  ASSUME Inv, NEW w \in Owners, Held(w), Next
  PROVE  row'[claim[w].key].token = row[claim[w].key].token \/ pc'[w] # pc[w]
  <1> DEFINE k == claim[w].key
  <1>1. /\ k \in Keys /\ row[k].token # None /\ row[k].status = "processing"
        /\ Fine(row[k], charged[k]) /\ row[k].lease > 0 /\ row \in [Keys -> Rows]
        /\ pc \in [Owners -> Phases]
    BY HeldIsTyped DEF Held, Inv, Shapes
  <1> HIDE DEF k
  <1>2. ASSUME NEW j, NEW status, Becomes(j, status), j # k
        PROVE  row'[k] = row[k]
    BY <1>1, <1>2 DEF Becomes
  <1>3. CASE Produce
    <2>1. \E batch, max, due : Insert(batch, max, due)
      BY <1>3 DEF Produce
    <2> QED BY <1>1, <2>1 DEF Insert, Inserted, Missing, k
  <1>4. CASE Tick
    BY <1>1, <1>4, AgedFine DEF Tick, AgedRows, k
  <1>5. CASE (\E kind \in Kinds : Flip(kind)) \/ \E v \in Owners : Aside(v)
    BY <1>5, AsideKeeps DEF Flip
  <1>6. ASSUME NEW v \in Owners, NEW j \in Keys, Repair(v, j) \/ Review(v, j)
        PROVE  row'[k] = row[k]
    <2>1. CASE Repair(v, j)
      <3>1. /\ \E status \in {"pending", "dead"} : Becomes(j, status)
            /\ row[j].lease \in Int /\ row[j].lease <= 0
        BY <2>1, RepairStep
      <3>2. j # k
        BY <1>1, <3>1
      <3> QED BY <1>2, <3>1, <3>2
    <2>2. CASE Review(v, j)
      BY <1>1, <1>2, <2>2, ReviewStep
    <2> QED BY <1>6, <2>1, <2>2
  <1>7. ASSUME NEW v \in Owners, Claim(v) PROVE row'[k] = row[k]
    BY <1>1, <1>7 DEF Claim, ClaimNext, Claimable
  <1>8. ASSUME NEW v \in Owners, Heartbeat(v) PROVE row'[k].token = row[k].token
    <2>1. CASE UNCHANGED row
      BY <2>1
    <2>2. CASE \E now \in Now : /\ pc[v] \in Delivering
                                /\ RenewLease(claim[v], now) /\ UNCHANGED charged
      <3>1. claim[v] # NoClaim
        BY <2>2, ClaimIsTyped DEF Busy
      <3>2. /\ Becomes(claim[v].key, "processing")
            /\ row'[claim[v].key].token = row[claim[v].key].token
        BY <2>2, <3>1, RenewStep
      <3> QED BY <1>2, <3>2
    <2> QED BY <1>8, <2>1, <2>2 DEF Heartbeat
  <1>9. ASSUME NEW v \in Owners, Finish(v) \/ LoseAnswer(v)
        PROVE  row'[k] = row[k] \/ pc'[w] # pc[w]
    <2>1. CASE v = w
      BY <1>1, <1>9, <2>1 DEF Finish, LoseAnswer, Drop, Goto
    <2>2. CASE v # w
      <3>1. claim[v] # NoClaim /\ retry[v] \in BOOLEAN
        BY <1>9, ClaimIsTyped DEF Finish, LoseAnswer, Busy, Delivering, Inv, Shapes
      <3>2. \A now : Fenced(claim[v], now) => claim[v].key # k
        BY <2>2, <3>1, HeldIsNotShared DEF k
      <3>3. CASE UNCHANGED row
        BY <3>3
      <3>4. ASSUME NEW now \in Now,
                   \/ FinalizeDelivered(claim[v], now) /\ UNCHANGED charged
                   \/ /\ FinalizeFailure(claim[v], retry[v], now)
                      /\ charged' = [charged EXCEPT ![claim[v].key] = @ + 1]
                   \/ DeferClaim(claim[v], now) /\ UNCHANGED charged
            PROVE  row'[k] = row[k]
        <4>1. \E status : Becomes(claim[v].key, status)
          BY <3>1, <3>4, DeliverStep, FailStep, DeferStep
        <4>2. Fenced(claim[v], now)
          BY <3>4 DEF FinalizeDelivered, FinalizeFailure, DeferClaim
        <4> QED BY <1>2, <3>2, <4>1, <4>2
      <3> QED BY <1>9, <3>3, <3>4 DEF Finish, LoseAnswer
    <2> QED BY <2>1, <2>2
  <1> QED BY <1>3, <1>4, <1>5, <1>6, <1>7, <1>8, <1>9, Cases DEF k

(* No crash recovery, reconciliation or other worker takes a row from a    *)
(* delivery whose lease has not run out.                                   *)
THEOREM LeasesAreRespected == Spec => LiveLeaseIsNotTaken
  <1> DEFINE Kept == \A w \in Owners :
        LET k == claim[w].key IN
        claim[w] # NoClaim /\ row[k].token = claim[w].token /\ row[k].lease > 0
          => row'[k].token = row[k].token \/ pc'[w] # pc[w]
  <1>1. Inv /\ Next => Kept
    BY HeldIsNotTaken DEF Held
  <1>2. LiveLeaseIsNotTaken <=> [][Kept]_vars
    BY DEF LiveLeaseIsNotTaken
  <1> HIDE DEF Kept
  <1> QED BY Invariance, <1>1, <1>2, PTL DEF Spec

-----------------------------------------------------------------------------
(* Refinement of AtLeastOnceDelivery.  Its variable `performed' is read off*)
(* the count of handler runs, which a bound of zero keeps from counting.   *)
AbstractStep == AtLeastOnce!Next \/ UNCHANGED AtLeastOnce!vars

LEMMA StatusesMap ==
  ASSUME UNCHANGED work, \A k \in Keys : row'[k].status = row[k].status
  PROVE  AbstractStep
  BY DEF AbstractStep, AtLeastOnce!vars, Outcome

LEMMA BecomesMaps ==
  ASSUME NEW k, NEW status \in {"pending", "processing", "dead", "delivered"},
         Becomes(k, status), UNCHANGED work, status = "delivered" => work[k] > 0
  PROVE  AbstractStep
  <1>1. Outcome = [j \in Keys |-> Outcome[j]] /\ Outcome' = [j \in Keys |-> Outcome'[j]]
    BY DEF Outcome
  <1>2. /\ k \in Keys /\ Outcome[k] = "open"
        /\ Outcome'[k] = IF status \in Terminal THEN status ELSE "open"
        /\ \A j \in Keys \ {k} : Outcome'[j] = Outcome[j]
    BY DEF Becomes, Outcome, Terminal
  <1>3. Outcome' = [Outcome EXCEPT ![k] = Outcome'[k]]
    BY <1>1, <1>2
  <1>4. CASE status = "delivered"
    BY <1>2, <1>3, <1>4 DEF AbstractStep, Terminal, AtLeastOnce!Next, AtLeastOnce!Deliver
  <1>5. CASE status = "dead"
    BY <1>2, <1>3, <1>5 DEF AbstractStep, Terminal, AtLeastOnce!Next, AtLeastOnce!GiveUp
  <1>6. CASE status \in {"pending", "processing"}
    BY <1>1, <1>2, <1>6 DEF AbstractStep, Terminal, AtLeastOnce!vars
  <1> QED BY <1>4, <1>5, <1>6

LEMMA ProduceMaps == Inv /\ Produce => AbstractStep
  <1> SUFFICES ASSUME Inv, Produce PROVE AbstractStep
    OBVIOUS
  <1> PICK ks \in SUBSET Keys :
             \E batch \in [ks -> Payloads], max \in [ks -> AttemptLimits], due \in [ks -> Dues] :
               Insert(batch, max, due) /\ UNCHANGED work
    BY DEF Produce
  <1> PICK batch \in [ks -> Payloads], max \in [ks -> AttemptLimits], due \in [ks -> Dues] :
             Insert(batch, max, due) /\ UNCHANGED work
    OBVIOUS
  <1> DEFINE es == {k \in ks : Outcome[k] = "none"}
  <1>1. \A k \in Keys : Outcome[k] = "none" <=> row[k].status = "absent"
    BY DEF Outcome, Terminal
  <1>2. \A k \in es : k \in ks /\ row[k].status = "absent" /\ row'[k].status = "pending"
    <2> TAKE k \in es
    <2>1. k \in Keys /\ row[k].status = "absent"
      BY <1>1
    <2>2. row'[k] = Submitted(batch[k], max[k], due[k])
      BY <2>1 DEF Insert, Inserted
    <2> QED BY <2>1, <2>2, SubmittedFine
  <1>3. \A k \in Keys \ es : row'[k] = row[k]
    BY <1>1 DEF Insert, Inserted
  <1>4. Outcome' = [k \in Keys |-> IF k \in es THEN "open" ELSE Outcome[k]]
    BY <1>2, <1>3 DEF Outcome, Terminal
  <1>5. es \in SUBSET {k \in Keys : Outcome[k] = "none"}
    OBVIOUS
  <1> HIDE DEF es
  <1>6. CASE es = {}
    BY <1>3, <1>6, StatusesMap
  <1>7. CASE es # {}
    BY <1>4, <1>5, <1>7 DEF AbstractStep, AtLeastOnce!Next, AtLeastOnce!Submit
  <1> QED BY <1>6, <1>7

LEMMA WorkMaps ==
  ASSUME Inv, MaxWork > 0, UNCHANGED row, NEW k \in Keys, row[k].status # "absent",
         work' = Worked(k)
  PROVE  AbstractStep
  <1>1. Outcome[k] # "none" /\ UNCHANGED Outcome
    BY DEF Outcome, Terminal
  <1>2. /\ work \in [Keys -> 0..MaxWork] /\ work'[k] > 0
        /\ \A j \in Keys \ {k} : work'[j] = work[j]
    BY WorksOn DEF Worked, Inv, Shapes
  <1>3. [j \in Keys |-> work[j] > 0]' = [[j \in Keys |-> work[j] > 0] EXCEPT ![k] = TRUE]
    BY <1>2
  <1> QED BY <1>1, <1>3 DEF AbstractStep, AtLeastOnce!Next, AtLeastOnce!Perform

(* A worker writes what became of an event: delivered only after a handler *)
(* did its work.                                                           *)
LEMMA WritesMap ==
  ASSUME Inv, MaxWork > 0, NEW w \in Owners,
         Claim(w) \/ Finish(w) \/ Heartbeat(w) \/ LoseAnswer(w)
  PROVE  AbstractStep
  <1>1. UNCHANGED work
    BY DEF Claim, Finish, Heartbeat, LoseAnswer
  <1>2. CASE UNCHANGED row
    BY <1>1, <1>2, StatusesMap
  <1>3. CASE Claim(w)
    <2> PICK k \in Keys, t \in FreshTokens, now \in Now :
          ClaimNext(k, w, handlers[w] \cap open, t, now)
      BY <1>3 DEF Claim
    <2>1. row[k].status = "pending" /\ row' = [row EXCEPT ![k] = Claimed(row[k], w, t, now)]
      BY DEF ClaimNext, Claimable
    <2>2. Claimed(row[k], w, t, now).status = "processing" /\ row \in [Keys -> Rows]
      BY <2>1, FreshIsFresh, ClockIsPast, ClaimedFine DEF Inv, Shapes
    <2>3. Becomes(k, "processing")
      BY <2>1, <2>2 DEF Becomes
    <2> QED BY <1>1, <2>3, BecomesMaps
  <1>4. ASSUME NEW now \in Now, claim[w] # NoClaim, retry[w] \in BOOLEAN,
               \/ /\ pc[w] = "performed"
                  /\ FinalizeDelivered(claim[w], now) /\ UNCHANGED charged
               \/ /\ FinalizeFailure(claim[w], retry[w], now)
                  /\ charged' = [charged EXCEPT ![claim[w].key] = @ + 1]
               \/ DeferClaim(claim[w], now) /\ UNCHANGED charged
               \/ RenewLease(claim[w], now) /\ UNCHANGED charged
        PROVE  AbstractStep
    <2>1. \/ Becomes(claim[w].key, "delivered") /\ pc[w] = "performed"
          \/ \E status \in {"pending", "processing", "dead"} : Becomes(claim[w].key, status)
      BY <1>4, DeliverStep, FailStep, DeferStep, RenewStep
    <2>2. pc[w] = "performed" => work[claim[w].key] > 0
      BY DEF Inv, Efforts
    <2> QED BY <1>1, <2>1, <2>2, BecomesMaps
  <1>5. CASE Finish(w) \/ LoseAnswer(w) \/ Heartbeat(w)
    <2>1. claim[w] # NoClaim /\ retry[w] \in BOOLEAN
      BY <1>5, ClaimIsTyped DEF Finish, LoseAnswer, Heartbeat, Busy, Delivering, Inv, Shapes
    <2> QED BY <1>2, <1>4, <1>5, <2>1 DEF Finish, LoseAnswer, Heartbeat
  <1> QED BY <1>3, <1>5

LEMMA AsideMaps ==
  ASSUME Inv, MaxWork > 0, NEW w \in Owners, Aside(w)
  PROVE  AbstractStep
  <1>1. UNCHANGED row
    BY AsideKeeps
  <1>2. CASE Perform(w)
    <2>1. /\ claim[w] # NoClaim /\ claim[w].key \in Keys /\ work' = Worked(claim[w].key)
      BY <1>2, ClaimIsTyped DEF Perform, Busy, Delivering
    <2> QED BY <1>1, <2>1, WorkMaps DEF Inv, Bonds
  <1>3. CASE PerformLate(w)
    <2>1. \E k \in detached[w] : work' = Worked(k)
      BY <1>3 DEF PerformLate
    <2> QED BY <1>1, <2>1, WorkMaps DEF Inv, Efforts, Shapes
  <1>4. CASE UNCHANGED work
    BY <1>1, <1>4, StatusesMap
  <1> QED BY <1>2, <1>3, <1>4
      DEF Aside, Start, Authorize, Fail, Defer, Abandon, Stop, Crash

LEMMA OthersMap ==
  ASSUME Inv,
         \/ Produce \/ Tick \/ \E kind \in Kinds : Flip(kind)
         \/ \E w \in Owners, k \in Keys : Repair(w, k) \/ Review(w, k)
  PROVE  AbstractStep
  <1>1. CASE Tick
    <2>1. UNCHANGED work /\ row' = [k \in Keys |-> AgedRow(row[k])]
      BY <1>1 DEF Tick, AgedRows
    <2>2. \A k \in Keys : row'[k].status = row[k].status
      BY <2>1, AgedFine DEF Inv
    <2> QED BY <2>1, <2>2, StatusesMap
  <1>2. CASE \E kind \in Kinds : Flip(kind)
    BY <1>2, StatusesMap DEF Flip
  <1>3. ASSUME NEW w \in Owners, NEW k \in Keys, Repair(w, k) \/ Review(w, k)
        PROVE  AbstractStep
    <2>1. UNCHANGED work /\ \E status \in {"pending", "dead"} : Becomes(k, status)
      BY <1>3, RepairStep, ReviewStep DEF Repair, Review
    <2> QED BY <2>1, BecomesMaps
  <1> QED BY <1>1, <1>2, <1>3, ProduceMaps

(* The overlapping, crashing, late workers give producers what the abstract*)
(* specification promises: an event that counts as delivered was worked on *)
(* by a handler, and an outcome once given never changes.                  *)
THEOREM OutboxImplementsAtLeastOnce ==
  ASSUME MaxWork > 0
  PROVE  Spec => ImplementsAtLeastOnce
  <1>1. Init => AtLeastOnce!Init
    <2> SUFFICES ASSUME Init PROVE AtLeastOnce!Init
      OBVIOUS
    <2>1. \A k \in Keys : row[k].status = "absent" /\ work[k] = 0
      BY AbsentFine DEF Init, Absent
    <2>2. Outcome = [k \in Keys |-> "none"]
      BY <2>1 DEF Outcome
    <2>3. [k \in Keys |-> work[k] > 0] = [k \in Keys |-> FALSE]
      <3>1. \A k \in Keys : (work[k] > 0) = FALSE
        BY <2>1
      <3> QED BY <3>1
    <2> QED BY <2>2, <2>3 DEF AtLeastOnce!Init
  <1>2. Inv /\ [Next]_vars => [AtLeastOnce!Next]_(AtLeastOnce!vars)
    <2> SUFFICES ASSUME Inv, [Next]_vars PROVE AbstractStep
      BY DEF AbstractStep
    <2>1. CASE Next
      BY <2>1, Cases, WritesMap, AsideMaps, OthersMap
    <2>2. CASE UNCHANGED vars
      BY <2>2, StatusesMap DEF vars
    <2> QED BY <2>1, <2>2
  <1> QED BY Invariance, <1>1, <1>2, PTL DEF Spec, ImplementsAtLeastOnce, AtLeastOnce!Spec
=============================================================================
