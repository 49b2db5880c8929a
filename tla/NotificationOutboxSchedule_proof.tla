------------------- MODULE NotificationOutboxSchedule_proof -------------------
(***************************************************************************)
(* A worker loses no wake, whatever the number of timers its starts, stops *)
(* and overlapping reactions leave behind, and always has a reason to run  *)
(* again.                                                                  *)
(***************************************************************************)
EXTENDS NotificationOutboxSchedule, TLAPS

-----------------------------------------------------------------------------
(* The inductive invariant.                                                *)
Flags ==
  /\ started \in BOOLEAN /\ stopping \in BOOLEAN /\ wakeRequested \in BOOLEAN
  /\ owed \in BOOLEAN

Shapes ==
  /\ armed \in [Kinds -> Nat] /\ waiting \in Nat
  /\ armed["soon"] + armed["later"] + waiting <= MaxTimers
  /\ handle \in {"none"} \cup Kinds
  /\ run \in {"none", "active", "settled"}

(* The field refers to a timer that is armed, if to any.                   *)
HandleIsArmed == \A kind \in Kinds : handle = kind => armed[kind] > 0

(* A pass nobody waits for is over: each has the reactions of the timers   *)
(* that joined it.                                                         *)
RunIsWaitedFor == run = "none" <=> waiting = 0

StartedOrStopping == ~(started /\ stopping)

(* A wake is owed by a started worker only.  One that came during the pass *)
(* under way is remembered by it: the timer of an earlier one was the timer*)
(* that began the pass, or still is to come.                               *)
WakeIsKept == owed =>
  /\ started
  /\ armed["soon"] > 0 \/ (wakeRequested /\ run # "none")
  /\ run = "active" => wakeRequested

(* What a started worker waits for: a timer or the reactions to its pass.  *)
Awake == started => (\E kind \in Kinds : armed[kind] > 0) \/ run # "none"

Inv ==
  /\ Flags /\ Shapes
  /\ HandleIsArmed
  /\ RunIsWaitedFor
  /\ StartedOrStopping
  /\ WakeIsKept
  /\ Awake

-----------------------------------------------------------------------------
LEMMA ClearedTimers ==
  ASSUME Inv
  PROVE  /\ Cleared \in [Kinds -> Nat]
         /\ Cleared["soon"] <= armed["soon"] /\ Cleared["later"] <= armed["later"]
  BY DEF Inv, Shapes, HandleIsArmed, Cleared, Kinds

LEMMA ScheduledTimers ==
  ASSUME NEW timers \in [Kinds -> Nat], NEW kind \in Kinds, Schedule(timers, kind)
  PROVE  /\ armed' \in [Kinds -> Nat] /\ handle' = kind
         /\ armed'[kind] = timers[kind] + 1
         /\ armed'["soon"] >= timers["soon"] /\ armed'["later"] >= timers["later"]
         /\ armed'["soon"] + armed'["later"] = timers["soon"] + timers["later"] + 1
  BY DEF Schedule, Kinds

LEMMA StartKeepsInv == Inv /\ Start => Inv'
  <1> SUFFICES ASSUME Inv, Start PROVE Inv'
    OBVIOUS
  <1>1. armed \in [Kinds -> Nat] /\ "soon" \in Kinds /\ Schedule(armed, "soon")
    BY DEF Inv, Shapes, Kinds, Start
  <1>2. /\ armed' \in [Kinds -> Nat] /\ handle' = "soon" /\ armed'["soon"] > 0
        /\ armed'["soon"] + armed'["later"] = armed["soon"] + armed["later"] + 1
    BY <1>1, ScheduledTimers DEF Kinds
  <1>3. Shapes'
    BY <1>2, MaxTimersAssumption DEF Inv, Shapes, Start, Room, Kinds
  <1>4. HandleIsArmed' /\ RunIsWaitedFor' /\ StartedOrStopping'
    BY <1>2 DEF Inv, Shapes, HandleIsArmed, RunIsWaitedFor, StartedOrStopping, Start
  <1>5. WakeIsKept' /\ Awake'
    BY <1>2 DEF Inv, Shapes, WakeIsKept, Awake, Start, Kinds
  <1>6. Flags'
    BY DEF Inv, Flags, Start
  <1> QED BY <1>3, <1>4, <1>5, <1>6 DEF Inv

LEMMA WakeKeepsInv == Inv /\ Wake => Inv'
  <1> SUFFICES ASSUME Inv, Wake PROVE Inv'
    OBVIOUS
  <1>1. /\ started /\ ~stopping /\ owed' = TRUE
        /\ Cleared["soon"] + Cleared["later"] + waiting < MaxTimers
        /\ UNCHANGED <<started, stopping, run, waiting>>
    BY DEF Wake, Room
  <1>2. Flags'
    BY DEF Wake, Inv, Flags
  <1>3. CASE /\ run = "active"
             /\ armed' = Cleared /\ handle' = "none" /\ wakeRequested' = TRUE
    <2>1. Shapes'
      <3>1. armed' \in [Kinds -> Nat] /\ armed'["soon"] \in Nat /\ armed'["later"] \in Nat
        BY <1>3, ClearedTimers DEF Kinds
      <3>2. armed'["soon"] + armed'["later"] + waiting' <= MaxTimers
        BY <1>1, <1>3, <3>1, MaxTimersAssumption DEF Inv, Shapes
      <3> QED BY <1>1, <1>3, <3>1, <3>2 DEF Inv, Shapes
    <2>2. HandleIsArmed' /\ RunIsWaitedFor' /\ StartedOrStopping' /\ WakeIsKept' /\ Awake'
      BY <1>1, <1>3
      DEF Inv, HandleIsArmed, RunIsWaitedFor, StartedOrStopping, WakeIsKept, Awake, Kinds
    <2> QED BY <1>2, <2>1, <2>2 DEF Inv
  <1>4. CASE /\ run # "active"
             /\ Schedule(Cleared, "soon") /\ wakeRequested' = FALSE
    <2>1. /\ armed' \in [Kinds -> Nat] /\ handle' = "soon" /\ armed'["soon"] > 0
          /\ armed'["soon"] + armed'["later"] = Cleared["soon"] + Cleared["later"] + 1
      BY <1>4, ClearedTimers, ScheduledTimers DEF Kinds
    <2>2. Shapes'
      BY <1>1, <1>4, <2>1, ClearedTimers, MaxTimersAssumption DEF Inv, Shapes, Kinds
    <2>3. HandleIsArmed' /\ RunIsWaitedFor' /\ StartedOrStopping'
      BY <1>1, <2>1 DEF Inv, HandleIsArmed, RunIsWaitedFor, StartedOrStopping
    <2>4. WakeIsKept' /\ Awake'
      BY <1>1, <1>4, <2>1 DEF Inv, Shapes, WakeIsKept, Awake, Kinds
    <2> QED BY <1>2, <2>2, <2>3, <2>4 DEF Inv
  <1> QED BY <1>3, <1>4 DEF Wake

LEMMA StopKeepsInv == Inv /\ Stop => Inv'
  <1> SUFFICES ASSUME Inv, Stop PROVE Inv'
    OBVIOUS
  <1>1. Flags'
    BY DEF Inv, Flags, Stop
  <1>2. Shapes'
    BY ClearedTimers, MaxTimersAssumption DEF Inv, Shapes, Stop, Kinds
  <1>3. HandleIsArmed' /\ RunIsWaitedFor' /\ StartedOrStopping' /\ WakeIsKept' /\ Awake'
    BY DEF Inv, HandleIsArmed, RunIsWaitedFor, StartedOrStopping, WakeIsKept, Awake, Stop, Kinds
  <1> QED BY <1>1, <1>2, <1>3 DEF Inv

LEMMA FireKeepsInv ==
  ASSUME Inv, NEW kind \in Kinds, Fire(kind)
  PROVE  Inv'
  <1>1. /\ run # "settled" /\ armed[kind] > 0 /\ handle' = "none"
        /\ armed' = [armed EXCEPT ![kind] = armed[kind] - 1]
        /\ UNCHANGED <<started, stopping, wakeRequested>>
    BY DEF Fire
  <1>2. /\ armed' \in [Kinds -> Nat]
        /\ armed'["soon"] + armed'["later"] = armed["soon"] + armed["later"] - 1
    BY <1>1 DEF Inv, Shapes, Kinds
  <1>3. Flags'
    BY DEF Inv, Flags, Fire
  <1>4. HandleIsArmed' /\ StartedOrStopping'
    BY <1>1 DEF Inv, HandleIsArmed, StartedOrStopping, Kinds
  <1>5. CASE stopping
    <2>1. UNCHANGED <<run, waiting, owed>> /\ ~started /\ ~started' /\ ~owed
      BY <1>1, <1>5 DEF Fire, Inv, StartedOrStopping, WakeIsKept
    <2>2. Shapes'
      BY <1>1, <1>2, <2>1, MaxTimersAssumption DEF Inv, Shapes, Kinds
    <2>3. RunIsWaitedFor' /\ WakeIsKept' /\ Awake'
      BY <2>1 DEF Inv, RunIsWaitedFor, WakeIsKept, Awake
    <2> QED BY <1>3, <1>4, <2>2, <2>3 DEF Inv
  <1>6. CASE ~stopping
    <2>1. /\ run' = "active" /\ waiting' = waiting + 1
          /\ owed' = (owed /\ run = "active")
      BY <1>6 DEF Fire
    <2>2. Shapes'
      BY <1>1, <1>2, <2>1, MaxTimersAssumption DEF Inv, Shapes, Kinds
    <2>3. RunIsWaitedFor'
      BY <2>1 DEF Inv, Shapes, RunIsWaitedFor
    <2>4. owed' => started /\ wakeRequested
      BY <2>1 DEF Inv, WakeIsKept
    <2>5. WakeIsKept' /\ Awake'
      BY <1>1, <2>1, <2>4 DEF WakeIsKept, Awake
    <2> QED BY <1>3, <1>4, <2>2, <2>3, <2>5 DEF Inv
  <1> QED BY <1>5, <1>6

LEMMA SettleKeepsInv == Inv /\ Settle => Inv'
  <1> SUFFICES ASSUME Inv, Settle PROVE Inv'
    OBVIOUS
  <1>1. Flags'
    BY DEF Inv, Flags, Settle
  <1>2. Shapes'
    BY DEF Inv, Shapes, Settle
  <1>3. HandleIsArmed' /\ RunIsWaitedFor' /\ StartedOrStopping' /\ WakeIsKept' /\ Awake'
    BY DEF Inv, HandleIsArmed, RunIsWaitedFor, StartedOrStopping, WakeIsKept, Awake, Settle
  <1> QED BY <1>1, <1>2, <1>3 DEF Inv

LEMMA ReactKeepsInv == Inv /\ React => Inv'
  <1> SUFFICES ASSUME Inv, React PROVE Inv'
    OBVIOUS
  <1>1. /\ run = "settled" /\ waiting > 0
        /\ waiting' = waiting - 1 /\ wakeRequested' = FALSE
        /\ run' = IF waiting = 1 THEN "none" ELSE "settled"
        /\ UNCHANGED <<started, stopping, owed>>
    BY DEF React, Inv, Shapes, RunIsWaitedFor
  <1>2. Flags'
    BY DEF Inv, Flags, React
  <1>3. RunIsWaitedFor' /\ StartedOrStopping'
    BY <1>1 DEF Inv, Shapes, RunIsWaitedFor, StartedOrStopping
  <1>4. CASE started
    <2>1. Schedule(armed, IF wakeRequested THEN "soon" ELSE "later")
      BY <1>4 DEF React, Inv, StartedOrStopping
    <2>2. /\ armed' \in [Kinds -> Nat] /\ handle' \in Kinds /\ armed'[handle'] > 0
          /\ handle' = IF wakeRequested THEN "soon" ELSE "later"
          /\ armed'["soon"] >= armed["soon"] /\ armed'["later"] >= armed["later"]
          /\ armed'["soon"] + armed'["later"] = armed["soon"] + armed["later"] + 1
      BY <2>1, ScheduledTimers DEF Inv, Shapes, Kinds
    <2>3. Shapes'
      <3>1. run' \in {"none", "active", "settled"} /\ handle' \in {"none"} \cup Kinds
        BY <1>1, <2>2
      <3>2. waiting' \in Nat /\ armed'["soon"] + armed'["later"] + waiting' <= MaxTimers
        BY <1>1, <2>2, MaxTimersAssumption DEF Inv, Shapes, Kinds
      <3> QED BY <2>2, <3>1, <3>2 DEF Shapes
    <2>4. HandleIsArmed'
      BY <2>2 DEF HandleIsArmed
    <2>5. WakeIsKept' /\ Awake'
      BY <1>1, <2>2 DEF Inv, Shapes, WakeIsKept, Awake, Kinds
    <2> QED BY <1>2, <1>3, <2>3, <2>4, <2>5 DEF Inv
  <1>5. CASE ~started
    <2>1. UNCHANGED <<armed, handle>>
      BY <1>5 DEF React
    <2>2. Shapes'
      <3>1. run' \in {"none", "active", "settled"} /\ handle' \in {"none"} \cup Kinds
        BY <1>1, <2>1 DEF Inv, Shapes
      <3>2. waiting' \in Nat /\ armed'["soon"] + armed'["later"] + waiting' <= MaxTimers
        BY <1>1, <2>1, MaxTimersAssumption DEF Inv, Shapes, Kinds
      <3> QED BY <2>1, <3>1, <3>2 DEF Inv, Shapes
    <2>3. HandleIsArmed' /\ WakeIsKept' /\ Awake'
      BY <1>1, <1>5, <2>1 DEF Inv, HandleIsArmed, WakeIsKept, Awake
    <2> QED BY <1>2, <1>3, <2>2, <2>3 DEF Inv
  <1> QED BY <1>4, <1>5

LEMMA Invariance == Spec => []Inv
  <1>1. Init => Inv
    <2> SUFFICES ASSUME Init PROVE Inv
      OBVIOUS
    <2>1. Flags
      BY DEF Init, Flags
    <2>2. Shapes
      <3>1. armed["soon"] = 0 /\ armed["later"] = 0
        BY DEF Init, Kinds
      <3> QED BY <3>1, MaxTimersAssumption DEF Init, Shapes
    <2>3. HandleIsArmed /\ RunIsWaitedFor /\ StartedOrStopping /\ WakeIsKept /\ Awake
      BY DEF Init, HandleIsArmed, RunIsWaitedFor, StartedOrStopping, WakeIsKept, Awake, Kinds
    <2> QED BY <2>1, <2>2, <2>3 DEF Inv
  <1>2. Inv /\ [Next]_vars => Inv'
    <2> SUFFICES ASSUME Inv, [Next]_vars PROVE Inv'
      OBVIOUS
    <2>1. CASE Next
      BY <2>1, StartKeepsInv, WakeKeepsInv, StopKeepsInv, FireKeepsInv, SettleKeepsInv,
         ReactKeepsInv DEF Next
    <2>2. CASE UNCHANGED vars
      <3>1. Flags' /\ Shapes'
        BY <2>2 DEF vars, Inv, Flags, Shapes
      <3>2. HandleIsArmed' /\ RunIsWaitedFor' /\ StartedOrStopping' /\ WakeIsKept' /\ Awake'
        BY <2>2 DEF vars, Inv, HandleIsArmed, RunIsWaitedFor, StartedOrStopping, WakeIsKept, Awake
      <3> QED BY <3>1, <3>2 DEF Inv
    <2> QED BY <2>1, <2>2
  <1> QED BY <1>1, <1>2, PTL DEF Spec

-----------------------------------------------------------------------------
(* The worker's fields keep their types: this.timer never refers to a timer*)
(* that has fired or was cleared, so wake() and stop() clear one that is   *)
(* really armed; a pass runs or settles exactly while reactions wait.      *)
THEOREM TypeCorrect == Spec => []TypeOK
  <1>1. Inv => TypeOK
    <2> SUFFICES ASSUME Inv PROVE TypeOK
      OBVIOUS
    <2>1. armed \in [Kinds -> 0..MaxTimers] /\ waiting \in 0..MaxTimers
      BY MaxTimersAssumption DEF Inv, Shapes, Kinds
    <2>2. handle \in {"none"} \cup {kind \in Kinds : armed[kind] > 0}
      BY DEF Inv, Shapes, HandleIsArmed
    <2> QED BY <2>1, <2>2 DEF Inv, Flags, Shapes, RunIsWaitedFor, TypeOK
  <1> QED BY Invariance, <1>1, PTL

(* A wake is lost neither between a pass and the timer after it nor between*)
(* two schedules: a zero-delay timer or the pass under way still knows it. *)
THEOREM WakesAreKept == Spec => []NoLostWake
  <1>1. Inv => NoLostWake
    BY DEF Inv, WakeIsKept, NoLostWake
  <1> QED BY Invariance, <1>1, PTL

(* A started worker always waits for something that makes it poll again:   *)
(* an armed timer or a pass that has reactions attached.  This is the      *)
(* safety part of KeepsPolling.                                            *)
THEOREM NeverAsleep == Spec => [](started => (\E kind \in Kinds : armed[kind] > 0)
                                             \/ (run # "none" /\ waiting > 0))
  <1>1. Inv => (started => (\E kind \in Kinds : armed[kind] > 0)
                           \/ (run # "none" /\ waiting > 0))
    BY DEF Inv, Shapes, Awake, RunIsWaitedFor, Kinds
  <1> QED BY Invariance, <1>1, PTL
=============================================================================
