---------------------- MODULE NotificationOutboxSchedule ----------------------
(***************************************************************************)
(* How one NotificationOutboxWorker decides when to run its next pass:     *)
(* start, wake, stop, the timer and the reactions of a finished pass       *)
(* (backend/src/services/reliability/NotificationOutboxWorker.ts).         *)
(*                                                                         *)
(* JavaScript runs one callback at a time, so each method up to its next   *)
(* await is one action.  A pass settles in two steps: its finally handler  *)
(* forgets currentRun, and only some microtasks later do the reactions     *)
(* attached by schedule() run.  Other microtasks, among them a wake(),     *)
(* may come between; timers may not.                                       *)
(***************************************************************************)
EXTENDS Naturals

CONSTANT MaxTimers   \* bound on the timers armed and reactions pending at once

ASSUME MaxTimersAssumption == MaxTimers \in Nat \ {0}

VARIABLES
  started, stopping, wakeRequested,   \* fields of the worker
  handle,    \* what this.timer refers to: "none", or a "soon" or "later" timer
  armed,     \* armed timers of each kind; the field knows only one of them
  run,       \* "none", "active" (currentRun is set) or "settled"
  waiting,   \* reactions of schedule() attached to the run
  owed       \* observation: a wake was accepted and no pass has begun since

vars == <<started, stopping, wakeRequested, handle, armed, run, waiting, owed>>

Kinds == {"soon", "later"}   \* zero delay, or nextScheduledDelay()

Init ==
  /\ started = FALSE /\ stopping = FALSE /\ wakeRequested = FALSE
  /\ handle = "none"
  /\ armed = [kind \in Kinds |-> 0]
  /\ run = "none" /\ waiting = 0
  /\ owed = FALSE

(* clearTimeout(this.timer)                                                *)
Cleared == [kind \in Kinds |-> IF kind = handle THEN armed[kind] - 1 ELSE armed[kind]]

(* schedule(): arms a timer and forgets the one the field held.            *)
Schedule(timers, kind) ==
  /\ armed' = [timers EXCEPT ![kind] = @ + 1]
  /\ handle' = kind

(* The bound: start and wake are not called when it would be exceeded.     *)
Room(timers) == timers["soon"] + timers["later"] + waiting < MaxTimers

Start ==
  /\ ~started
  /\ Room(armed)
  /\ run # "active"
  /\ started' = TRUE /\ stopping' = FALSE /\ wakeRequested' = FALSE
  /\ Schedule(armed, "soon")
  /\ UNCHANGED <<run, waiting, owed>>

(* Fault: the request is not kept for the pass under way.                  *)
FaultWake ==
  /\ started /\ ~stopping
  /\ Room(Cleared)
  /\ owed' = TRUE
  /\ IF run = "active"
     THEN armed' = Cleared /\ handle' = "none" /\ UNCHANGED wakeRequested
     ELSE Schedule(Cleared, "soon") /\ wakeRequested' = FALSE
  /\ UNCHANGED <<started, stopping, run, waiting>>

Wake ==
  /\ started /\ ~stopping
  /\ Room(Cleared)
  /\ owed' = TRUE
  /\ IF run = "active"
     THEN armed' = Cleared /\ handle' = "none" /\ wakeRequested' = TRUE
     ELSE Schedule(Cleared, "soon") /\ wakeRequested' = FALSE
  /\ UNCHANGED <<started, stopping, run, waiting>>

(* Fault: the field still refers to the timer that was cleared.            *)
FaultStop ==
  /\ started
  /\ started' = FALSE /\ stopping' = TRUE /\ wakeRequested' = FALSE
  /\ armed' = Cleared
  /\ owed' = FALSE
  /\ UNCHANGED <<handle, run, waiting>>

Stop ==
  /\ started
  /\ started' = FALSE /\ stopping' = TRUE /\ wakeRequested' = FALSE
  /\ armed' = Cleared /\ handle' = "none"
  /\ owed' = FALSE
  /\ UNCHANGED <<run, waiting>>

(* The timer callback calls runOnce: refused while stopping (its reaction  *)
(* finds nothing to schedule), shared while a pass is active.              *)
Fire(kind) ==
  /\ run # "settled"
  /\ armed[kind] > 0
  /\ armed' = [armed EXCEPT ![kind] = @ - 1]
  /\ handle' = "none"
  /\ IF stopping
     THEN UNCHANGED <<run, waiting, owed>>
     ELSE /\ run' = "active"
          /\ waiting' = waiting + 1
          /\ owed' = (owed /\ run = "active")
  /\ UNCHANGED <<started, stopping, wakeRequested>>

(* The pass ends, in success or failure: finally forgets currentRun.       *)
Settle ==
  /\ run = "active"
  /\ run' = "settled"
  /\ UNCHANGED <<started, stopping, wakeRequested, handle, armed, waiting, owed>>

(* Fault: the reaction to a failed pass schedules nothing.                 *)
FaultReactFailure ==
  /\ run = "settled"
  /\ waiting' = waiting - 1
  /\ run' = IF waiting = 1 THEN "none" ELSE run
  /\ wakeRequested' = FALSE
  /\ \/ Schedule(armed, "later") /\ started
     \/ UNCHANGED <<armed, handle>>
  /\ UNCHANGED <<started, stopping, owed>>

(* A reaction schedules the next pass, at once if a wake asked for it.     *)
React ==
  /\ run = "settled"
  /\ waiting' = waiting - 1
  /\ run' = IF waiting = 1 THEN "none" ELSE run
  /\ wakeRequested' = FALSE
  /\ IF started /\ ~stopping
     THEN Schedule(armed, IF wakeRequested THEN "soon" ELSE "later")
     ELSE UNCHANGED <<armed, handle>>
  /\ UNCHANGED <<started, stopping, owed>>

Next == Start \/ Wake \/ Stop \/ Settle \/ React \/ \E kind \in Kinds : Fire(kind)

Spec == Init /\ [][Next]_vars

(* Timers fire, passes end (every await in one has a timeout), reactions   *)
(* run; nobody has to start, wake or stop the worker.                      *)
Fairness ==
  /\ WF_vars(Settle) /\ WF_vars(React)
  /\ \A kind \in Kinds : WF_vars(Fire(kind))

FairSpec == Spec /\ Fairness

-----------------------------------------------------------------------------

TypeOK ==
  /\ started \in BOOLEAN /\ stopping \in BOOLEAN /\ wakeRequested \in BOOLEAN
  /\ armed \in [Kinds -> 0..MaxTimers]
  /\ handle \in {"none"} \cup {kind \in Kinds : armed[kind] > 0}
  /\ run \in {"none", "active", "settled"}
  /\ waiting \in 0..MaxTimers
  /\ run = "none" <=> waiting = 0

(* "Keep the request until the active pass completes so that a wake cannot *)
(* be lost between a claim and its next schedule": while a wake is owed, a *)
(* zero-delay timer is armed or the pass under way will arm one.           *)
NoLostWake == owed =>
  \/ armed["soon"] > 0
  \/ wakeRequested /\ run # "none"

(* A started worker never falls asleep: whatever wakes, stops and restarts *)
(* it has seen, a pass begins again.                                       *)
KeepsPolling == started ~> (run = "active" \/ ~started)
=============================================================================
