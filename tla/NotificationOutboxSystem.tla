----------------------- MODULE NotificationOutboxSystem -----------------------
(***************************************************************************)
(* Overlapping worker processes over one outbox                            *)
(* (backend/src/services/reliability/NotificationOutboxWorker.ts with its  *)
(* NotificationOutboxDeliveryRegistry.ts).  A process runs one pass at a   *)
(* time and delivers one claim at a time; it can crash or be stopped at    *)
(* every await, and a handler it no longer waits for keeps running.        *)
(* Deployments differ in the kinds they support; a runtime gate (kill      *)
(* switch) opens and closes kinds while claims are in flight.              *)
(*                                                                         *)
(* The retention purge is left out: it is months away from any claim.      *)
(***************************************************************************)
EXTENDS NotificationOutboxStore

CONSTANTS
  Deployments,   \* the sets of kinds that deployed registries support
  MaxWork        \* bound on the handler runs that are counted per row

ASSUME DeploymentsAssumption == Deployments \subseteq SUBSET Kinds
ASSUME MaxWorkAssumption == MaxWork \in Nat

VARIABLES
  pc,        \* where each process is, "down" when it does not run
  claim,     \* the claim a process delivers, NoClaim between deliveries
  retry,     \* whether the failure a process reports may be retried
  handlers,  \* the kinds the registry of a process supports
  detached,  \* rows a process's abandoned handlers still work for
  open,      \* kinds whose runtime gate is open
  work,      \* observation: how often a handler did the work of a row
  charged    \* observation: attempts of a row spent by a failure or an expiry

worker == <<pc, claim, retry, detached>>
vars == <<row, pc, claim, retry, handlers, detached, open, work, charged>>

NoClaim == None
ASSUME NoClaimAssumption == NoClaim \notin Claims

Delivering == {"authorizing", "handling", "performed"}
Busy == Delivering \cup {"failed", "deferring"}
Phases == {"down", "idle"} \cup Busy

(* A token nobody remembers is as good as one that was never used.         *)
FreshTokens ==
  LET used == {row[k].token : k \in Keys}
              \cup {claim[w].token : w \in {v \in Owners : claim[v] # NoClaim}}
      free == Tokens \ used
  IN  {CHOOSE t \in free : TRUE : x \in {y \in {0} : free # {}}}

-----------------------------------------------------------------------------

Init ==
  /\ row = [k \in Keys |-> Absent]
  /\ pc = [w \in Owners |-> "down"]
  /\ claim = [w \in Owners |-> NoClaim]
  /\ retry = [w \in Owners |-> FALSE]
  /\ handlers = [w \in Owners |-> {}]
  /\ detached = [w \in Owners |-> {}]
  /\ open = Kinds
  /\ work = [k \in Keys |-> 0]
  /\ charged = [k \in Keys |-> 0]

(* A producer commits the events it found missing; NotificationOutbox has  *)
(* the look-up too, which changes no document.                             *)
Produce == \E ks \in (SUBSET Keys) \ {{}} : \E batch \in [ks -> Payloads] :
             \E max \in [ks -> AttemptLimits], due \in [ks -> Dues] :
  /\ Insert(batch, max, due)
  /\ UNCHANGED <<worker, handlers, open, work, charged>>

Goto(w, phase) == pc' = [pc EXCEPT ![w] = phase]

FaultDrop(w, phase) ==           \* Fault: the claim is kept after its delivery.
  Goto(w, phase) /\ UNCHANGED claim

Drop(w, phase) == Goto(w, phase) /\ claim' = [claim EXCEPT ![w] = NoClaim]

(* start(): a process of some deployment comes up.                         *)
Start(w) == \E d \in Deployments :
  /\ pc[w] = "down"
  /\ Goto(w, "idle")
  /\ handlers' = [handlers EXCEPT ![w] = d]
  /\ UNCHANGED <<row, claim, retry, detached, open, work, charged>>

(* executeRun: resolveClaimableDeliveries, then claimNext.                 *)
Claim(w) == \E k \in Keys, t \in FreshTokens, now \in Now :
  /\ pc[w] = "idle"
  /\ ClaimNext(k, w, handlers[w] \cap open, t, now)
  /\ claim' = [claim EXCEPT ![w] = ClaimOf(k)']
  /\ Goto(w, "authorizing")
  /\ UNCHANGED <<retry, handlers, detached, open, work, charged>>

(* deliverClaim: the authorizer, then the handler's own assertCanDeliver,  *)
(* which defers when the gate of the kind is closed.                       *)
Authorize(w) ==
  /\ pc[w] = "authorizing"
  /\ IF Kind(claim[w].key) \in open
     THEN Goto(w, "handling") ELSE Goto(w, "deferring")
  /\ UNCHANGED <<row, claim, retry, handlers, detached, open, work, charged>>

Worked(k) == [work EXCEPT ![k] = IF @ < MaxWork THEN @ + 1 ELSE @]

(* handler.deliver does its work and resolves.                             *)
Perform(w) ==
  /\ pc[w] = "handling"
  /\ Goto(w, "performed")
  /\ work' = Worked(claim[w].key)
  /\ UNCHANGED <<row, claim, retry, handlers, detached, open, charged>>

(* A rejected authorization, a handler that throws before or after its     *)
(* work, DELIVERY_TIMEOUT, or an error of the database in finalizeDelivered.*)
(* raceWithAbort stops waiting for a handler, it does not stop the handler.*)
Fail(w) == \E r \in BOOLEAN :
  /\ pc[w] \in Delivering
  /\ Goto(w, "failed")
  /\ retry' = [retry EXCEPT ![w] = r]
  /\ detached' = [detached EXCEPT ![w] =
       IF pc[w] = "handling" THEN @ \cup {claim[w].key} ELSE @]
  /\ UNCHANGED <<row, claim, handlers, open, work, charged>>

(* A handler finds its gate closed half-way.                               *)
Defer(w) ==
  /\ pc[w] = "handling"
  /\ Kind(claim[w].key) \notin open
  /\ Goto(w, "deferring")
  /\ UNCHANGED <<row, claim, retry, handlers, detached, open, work, charged>>

(* The heartbeat, or context.renewLease: a refused renewal aborts.         *)
Heartbeat(w) == \E now \in Now :
  /\ pc[w] \in Delivering
  /\ \/ RenewLease(claim[w], now) /\ UNCHANGED worker
     \/ /\ ~Fenced(claim[w], now)
        /\ Drop(w, "idle")
        /\ detached' = [detached EXCEPT ![w] =
             IF pc[w] = "handling" THEN @ \cup {claim[w].key} ELSE @]
        /\ UNCHANGED <<row, retry>>
  /\ UNCHANGED <<handlers, open, work, charged>>

(* Fault: finalizeDelivered does not wait for the handler.                 *)
FaultFinish(w) == \E now \in Now :
  /\ pc[w] \in {"handling", "performed"}
  /\ FinalizeDelivered(claim[w], now)
  /\ Drop(w, "idle")
  /\ UNCHANGED <<retry, handlers, detached, open, work, charged>>

(* The outcome is written if the lease still holds, else lost with it.     *)
Finish(w) == \E now \in Now :
  LET c == claim[w] IN
  /\ \/ pc[w] = "performed" /\ FinalizeDelivered(c, now) /\ UNCHANGED charged
     \/ /\ pc[w] = "failed" /\ FinalizeFailure(c, retry[w], now)
        /\ charged' = [charged EXCEPT ![c.key] = @ + 1]
     \/ pc[w] = "deferring" /\ DeferClaim(c, now) /\ UNCHANGED charged
     \/ /\ pc[w] \in {"performed", "failed", "deferring"}
        /\ ~Fenced(c, now)
        /\ UNCHANGED <<row, charged>>
  /\ Drop(w, "idle")
  /\ UNCHANGED <<retry, handlers, detached, open, work>>

(* finalizeDelivered is applied but its answer is lost: the worker then    *)
(* tries to record a failure.                                              *)
LoseAnswer(w) == \E now \in Now :
  /\ pc[w] = "performed"
  /\ FinalizeDelivered(claim[w], now)
  /\ Goto(w, "failed")
  /\ retry' = [retry EXCEPT ![w] = TRUE]
  /\ UNCHANGED <<claim, handlers, detached, open, work, charged>>

(* An error of the database in finalizeFailure or deferClaim ends the run. *)
Abandon(w) ==
  /\ pc[w] \in {"failed", "deferring"}
  /\ Drop(w, "idle")
  /\ UNCHANGED <<row, retry, handlers, detached, open, work, charged>>

(* stop() leaves the claim to its lease; a handler may go on until the     *)
(* process exits.                                                          *)
Stop(w) ==
  /\ pc[w] # "down"
  /\ Drop(w, "down")
  /\ detached' = [detached EXCEPT ![w] =
       IF pc[w] = "handling" THEN @ \cup {claim[w].key} ELSE @]
  /\ UNCHANGED <<row, retry, handlers, open, work, charged>>

Crash(w) ==
  /\ pc[w] # "down" \/ detached[w] # {}
  /\ Drop(w, "down")
  /\ detached' = [detached EXCEPT ![w] = {}]
  /\ UNCHANGED <<row, retry, handlers, open, work, charged>>

(* A handler nobody waits for any more does its work.                      *)
PerformLate(w) == \E k \in detached[w] :
  /\ work' = Worked(k)
  /\ detached' = [detached EXCEPT ![w] = @ \ {k}]
  /\ UNCHANGED <<row, pc, claim, retry, handlers, open, charged>>

(* The reconciliation at the start of a pass.                              *)
Repair(w, k) == \E now \in Now :
  /\ pc[w] = "idle"
  /\ DeadLetterExhausted(k, now) \/ RecoverExpiredLease(k, now)
  /\ charged' = [charged EXCEPT ![k] = @ + 1]
  /\ UNCHANGED <<worker, handlers, open, work>>

Review(w, k) == \E now \in Now :
  /\ pc[w] = "idle"
  /\ \/ ClearUnsupported(k, handlers[w])
     \/ MarkUnsupported(k, handlers[w], now)
     \/ DeadLetterUnsupported(k, handlers[w], now)
  /\ UNCHANGED <<worker, handlers, open, work, charged>>

Flip(kind) ==
  /\ open' = IF kind \in open THEN open \ {kind} ELSE open \cup {kind}
  /\ UNCHANGED <<row, worker, handlers, work, charged>>

Tick == AgedRows /\ UNCHANGED <<worker, handlers, open, work, charged>>

Proceed(w) == Authorize(w) \/ Perform(w) \/ Fail(w) \/ Finish(w)

Next ==
  \/ Produce
  \/ \E w \in Owners :
       \/ Start(w) \/ Claim(w) \/ Proceed(w) \/ Defer(w) \/ Heartbeat(w)
       \/ LoseAnswer(w) \/ Abandon(w) \/ Stop(w) \/ Crash(w) \/ PerformLate(w)
       \/ \E k \in Keys : Repair(w, k) \/ Review(w, k)
  \/ \E kind \in Kinds : Flip(kind)
  \/ Tick

(* A process that is up polls, reconciles every interval and never waits   *)
(* for a delivery beyond its timeout; time passes.  Nothing is assumed of  *)
(* producers, stops, crashes, gates, heartbeats or detached handlers.      *)
Fairness ==
  /\ \A w \in Owners :
       /\ WF_vars(Claim(w)) /\ WF_vars(Proceed(w))
       /\ \A k \in Keys : WF_vars(Repair(w, k)) /\ WF_vars(Review(w, k))
  /\ WF_vars(Tick)

Spec == Init /\ [][Next]_vars
FairSpec == Spec /\ Fairness

-----------------------------------------------------------------------------
(* Properties.                                                             *)

TypeOK ==
  /\ row \in [Keys -> Rows]
  /\ pc \in [Owners -> Phases]
  /\ \A w \in Owners : IF pc[w] \in Busy THEN claim[w] \in Claims ELSE claim[w] = NoClaim
  /\ retry \in [Owners -> BOOLEAN]
  /\ handlers \in [Owners -> SUBSET Kinds]
  /\ detached \in [Owners -> SUBSET Keys]
  /\ open \subseteq Kinds
  /\ work \in [Keys -> 0..MaxWork]
  /\ charged \in [Keys -> Nat]

(* "Reversing the claim increment prevents a kill switch from exhausting or*)
(* dead-lettering an otherwise valid notification" (deferClaim): the       *)
(* attempts of a row are those that failed or expired, and the one under   *)
(* way; deferrals cost nothing, and an exhausted row really spent them all.*)
OnlyFailuresAreCharged == \A k \in Keys :
  LET r == row[k] IN
  /\ r.status = "pending" => r.attempts = charged[k]
  /\ r.status = "processing" => r.attempts = charged[k] + 1
  /\ r.status = "dead" /\ r.code = "MAX_ATTEMPTS_EXHAUSTED" => charged[k] = r.max

(* While the lease of a worker's claim has not run out, nobody but that    *)
(* worker changes the row's lease or status: no crash recovery, no other   *)
(* instance and no reconciliation takes a row from a live delivery.        *)
LiveLeaseIsNotTaken == [][\A w \in Owners :
  LET k == claim[w].key IN
  claim[w] # NoClaim /\ row[k].token = claim[w].token /\ row[k].lease > 0
    => row'[k].token = row[k].token \/ pc'[w] # pc[w]]_vars

(* A row whose deployment stays up, with the gate of its kind finally      *)
(* open, is settled whatever else fails on the way: crashes, lost answers, *)
(* abandoned claims, deferrals, other deployments coming and going.        *)
SupportedRowsSettle == \A k \in Keys, p \in Payloads, w \in Owners :
  /\ <>[](pc[w] # "down" /\ KindOf[p] \in handlers[w])
  /\ <>[](KindOf[p] \in open)
  => (row[k].payload = p ~> row[k].status \in Terminal)

(* A row no deployment supports any more does not wait for ever.           *)
UnsupportedRowsSettle == \A k \in Keys, p \in Payloads, w \in Owners :
  <>[](pc[w] # "down" /\ \A v \in Owners : KindOf[p] \notin handlers[v])
  => (row[k].payload = p ~> row[k].status \in Terminal)

(* Refinement: the producers' view of the outbox.                          *)
Outcome == [k \in Keys |->
  IF row[k].status = "absent" THEN "none"
  ELSE IF row[k].status \in Terminal THEN row[k].status ELSE "open"]

AtLeastOnce == INSTANCE AtLeastOnceDelivery WITH
  Events <- Keys, outcome <- Outcome, performed <- [k \in Keys |-> work[k] > 0]

ImplementsAtLeastOnce == AtLeastOnce!Spec
=============================================================================
