-------------------------- MODULE LockService_proof --------------------------
(***************************************************************************)
(* What LockService guarantees for any calls and any keys: no key leaks,   *)
(* and exclusion lasts until the first hand-over, which is all there is    *)
(* when no more than two calls share a key.                                *)
(***************************************************************************)
EXTENDS LockService, TLAPS

(* While no operation under a key has ended, the entry of the key is the   *)
(* operation that runs.  ExclusiveUntilHandOver alone says nothing of the  *)
(* map, and so cannot be preserved by the steps that read the map.         *)
RunnerIsTheEntry ==
  \A c \in Calls :
    Running(c) /\ (\A e \in Calls : KeyOf[e] = KeyOf[c] => call[e] # "ended") =>
      activeLocks[KeyOf[c]] = c

LockIInv == LockTypeOK /\ NoLeakedKey /\ RunnerIsTheEntry

LEMMA LockInitEstablishes == LockInit => LockIInv
  BY CallsAssumption
  DEF LockInit, LockIInv, LockTypeOK, NoLeakedKey, RunnerIsTheEntry, Running, Phases

LEMMA LockStepPreserves == LockIInv /\ [LockNext]_lockVars => LockIInv'
  <1> SUFFICES ASSUME LockTypeOK, NoLeakedKey, RunnerIsTheEntry, [LockNext]_lockVars
               PROVE  LockTypeOK' /\ NoLeakedKey' /\ RunnerIsTheEntry'
    BY DEF LockIInv
  <1>1. CASE UNCHANGED lockVars
    BY <1>1 DEF lockVars, LockTypeOK, NoLeakedKey, RunnerIsTheEntry, Running
  <1>2. ASSUME NEW c \in Calls, Enter(c)
        PROVE  LockTypeOK' /\ NoLeakedKey' /\ RunnerIsTheEntry'
    <2>1. LockTypeOK'
      <3>1. /\ activeLocks' \in [Keys -> Calls \union {None}]
            /\ call' \in [Calls -> Phases]
            /\ waitsFor' \in [Calls -> Calls \union {None}]
        BY <1>2, CallsAssumption DEF Enter, Execute, LockTypeOK, Phases
      <3>2. ASSUME NEW x \in Calls, call'[x] = "waiting"
            PROVE  /\ waitsFor'[x] \in Calls
                   /\ KeyOf[waitsFor'[x]] = KeyOf[x]
                   /\ call'[waitsFor'[x]] \in {"running", "ended"}
        BY <1>2, <3>2, CallsAssumption DEF Enter, Execute, LockTypeOK, NoLeakedKey, Running
      <3> QED BY <3>1, <3>2 DEF LockTypeOK
    <2>2. NoLeakedKey'
      BY <1>2, CallsAssumption DEF Enter, Execute, LockTypeOK, NoLeakedKey, Running
    <2>3. RunnerIsTheEntry'
      <3> SUFFICES ASSUME NEW x \in Calls, call'[x] = "running",
                          \A e \in Calls : KeyOf[e] = KeyOf[x] => call'[e] # "ended"
                   PROVE  activeLocks'[KeyOf[x]] = x
        BY DEF RunnerIsTheEntry, Running
      <3>1. \A e \in Calls : KeyOf[e] = KeyOf[x] => call[e] # "ended"
        BY <1>2 DEF Enter, Execute, LockTypeOK
      <3>2. CASE x = c
        <4>1. KeyOf[c] \in Keys
          BY CallsAssumption
        <4> QED BY <1>2, <3>2, <4>1 DEF Enter, Execute, LockTypeOK
      <3>3. CASE x # c
        <4>1. activeLocks[KeyOf[x]] = x
          BY <1>2, <3>1, <3>3 DEF Enter, Execute, LockTypeOK, RunnerIsTheEntry, Running
        <4>2. KeyOf[x] # KeyOf[c]
          BY <1>2, <4>1, CallsAssumption DEF Enter
        <4> QED
          BY <1>2, <4>1, <4>2 DEF Enter, Execute, LockTypeOK
      <3> QED BY <3>2, <3>3
    <2> QED BY <2>1, <2>2, <2>3
  <1>3. ASSUME NEW c \in Calls, Wait(c)
        PROVE  LockTypeOK' /\ NoLeakedKey' /\ RunnerIsTheEntry'
    <2>1. LockTypeOK'
      <3>1. /\ activeLocks' \in [Keys -> Calls \union {None}]
            /\ call' \in [Calls -> Phases]
            /\ waitsFor' \in [Calls -> Calls \union {None}]
        BY <1>3, CallsAssumption DEF Wait, LockTypeOK, Phases
      <3>2. ASSUME NEW x \in Calls, call'[x] = "waiting"
            PROVE  /\ waitsFor'[x] \in Calls
                   /\ KeyOf[waitsFor'[x]] = KeyOf[x]
                   /\ call'[waitsFor'[x]] \in {"running", "ended"}
        <4>1. CASE x = c
          <5>1. /\ KeyOf[c] \in Keys /\ activeLocks[KeyOf[c]] \in Calls
                /\ KeyOf[activeLocks[KeyOf[c]]] = KeyOf[c]
                /\ call[activeLocks[KeyOf[c]]] = "running"
            <6>1. KeyOf[c] \in Keys /\ activeLocks[KeyOf[c]] # None
              BY <1>3, CallsAssumption DEF Wait
            <6>2. activeLocks[KeyOf[c]] \in Calls
              BY <6>1 DEF LockTypeOK
            <6> QED BY <6>1, <6>2 DEF NoLeakedKey, Running
          <5>2. waitsFor'[c] = activeLocks[KeyOf[c]] /\ activeLocks[KeyOf[c]] # c
            BY <1>3, <5>1 DEF Wait, LockTypeOK
          <5> QED BY <1>3, <4>1, <5>1, <5>2 DEF Wait, LockTypeOK
        <4>2. CASE x # c
          <5>1. /\ call[x] = "waiting" /\ waitsFor'[x] = waitsFor[x]
                /\ waitsFor[x] \in Calls /\ KeyOf[waitsFor[x]] = KeyOf[x]
                /\ call[waitsFor[x]] \in {"running", "ended"}
            BY <1>3, <3>2, <4>2 DEF Wait, LockTypeOK
          <5> QED BY <1>3, <5>1 DEF Wait, LockTypeOK
        <4> QED BY <4>1, <4>2
      <3> QED BY <3>1, <3>2 DEF LockTypeOK
    <2>2. NoLeakedKey'
      BY <1>3, CallsAssumption DEF Wait, LockTypeOK, NoLeakedKey, Running
    <2>3. RunnerIsTheEntry'
      BY <1>3, CallsAssumption DEF Wait, LockTypeOK, NoLeakedKey, RunnerIsTheEntry, Running
    <2> QED BY <2>1, <2>2, <2>3
  <1>4. ASSUME NEW c \in Calls, Resume(c)
        PROVE  LockTypeOK' /\ NoLeakedKey' /\ RunnerIsTheEntry'
    <2>1. LockTypeOK'
      BY <1>4, CallsAssumption DEF Resume, Execute, LockTypeOK, NoLeakedKey, Running, Phases
    <2>2. NoLeakedKey'
      BY <1>4, CallsAssumption DEF Resume, Execute, LockTypeOK, NoLeakedKey, Running
    <2>3. RunnerIsTheEntry'
      BY <1>4, CallsAssumption DEF Resume, Execute, LockTypeOK, NoLeakedKey, RunnerIsTheEntry, Running
    <2> QED BY <2>1, <2>2, <2>3
  <1>5. ASSUME NEW c \in Calls, TimeOut(c)
        PROVE  LockTypeOK' /\ NoLeakedKey' /\ RunnerIsTheEntry'
    <2>1. LockTypeOK'
      <3>1. /\ activeLocks' \in [Keys -> Calls \union {None}]
            /\ call' \in [Calls -> Phases]
            /\ waitsFor' \in [Calls -> Calls \union {None}]
        BY <1>5, CallsAssumption DEF TimeOut, LockTypeOK, Phases
      <3>2. ASSUME NEW x \in Calls, call'[x] = "waiting"
            PROVE  /\ waitsFor'[x] \in Calls
                   /\ KeyOf[waitsFor'[x]] = KeyOf[x]
                   /\ call'[waitsFor'[x]] \in {"running", "ended"}
        <4>1. call[x] = "waiting" /\ waitsFor'[x] = waitsFor[x]
          BY <1>5, <3>2 DEF TimeOut, LockTypeOK
        <4> QED BY <1>5, <4>1 DEF TimeOut, LockTypeOK, Running
      <3> QED BY <3>1, <3>2 DEF LockTypeOK
    <2>2. NoLeakedKey'
      <3> SUFFICES ASSUME NEW k \in Keys, activeLocks[k] # None
                   PROVE  KeyOf[activeLocks[k]] = k /\ call'[activeLocks[k]] = "running"
        BY <1>5 DEF TimeOut, NoLeakedKey, Running
      <3>1. activeLocks[k] \in Calls /\ KeyOf[activeLocks[k]] = k /\ call[activeLocks[k]] = "running"
        BY DEF LockTypeOK, NoLeakedKey, Running
      <3> QED BY <1>5, <3>1 DEF TimeOut, LockTypeOK
    <2>3. RunnerIsTheEntry'
      <3> SUFFICES ASSUME NEW x \in Calls, call'[x] = "running",
                          \A e \in Calls : KeyOf[e] = KeyOf[x] => call'[e] # "ended"
                   PROVE  activeLocks'[KeyOf[x]] = x
        BY DEF RunnerIsTheEntry, Running
      <3>1. \A e \in Calls : KeyOf[e] = KeyOf[x] => call[e] # "ended"
        BY <1>5 DEF TimeOut, LockTypeOK
      <3> QED
        BY <1>5, <3>1, CallsAssumption DEF TimeOut, LockTypeOK, RunnerIsTheEntry, Running
    <2> QED BY <2>1, <2>2, <2>3
  <1>6. ASSUME NEW c \in Calls, Finish(c)
        PROVE  LockTypeOK' /\ NoLeakedKey' /\ RunnerIsTheEntry'
    <2>1. LockTypeOK'
      <3>1. /\ activeLocks' \in [Keys -> Calls \union {None}]
            /\ call' \in [Calls -> Phases]
            /\ waitsFor' \in [Calls -> Calls \union {None}]
        BY <1>6, CallsAssumption DEF Finish, LockTypeOK, Phases
      <3>2. ASSUME NEW x \in Calls, call'[x] = "waiting"
            PROVE  /\ waitsFor'[x] \in Calls
                   /\ KeyOf[waitsFor'[x]] = KeyOf[x]
                   /\ call'[waitsFor'[x]] \in {"running", "ended"}
        <4>1. call[x] = "waiting" /\ waitsFor'[x] = waitsFor[x]
          BY <1>6, <3>2 DEF Finish, LockTypeOK
        <4> QED BY <1>6, <4>1 DEF Finish, LockTypeOK, Running
      <3> QED BY <3>1, <3>2 DEF LockTypeOK
    <2>2. NoLeakedKey'
      BY <1>6, CallsAssumption DEF Finish, LockTypeOK, NoLeakedKey, Running
    <2>3. RunnerIsTheEntry'
      BY <1>6, CallsAssumption DEF Finish, LockTypeOK, NoLeakedKey, RunnerIsTheEntry, Running
    <2> QED BY <2>1, <2>2, <2>3
  <1> QED
    BY <1>1, <1>2, <1>3, <1>4, <1>5, <1>6 DEF LockNext

LEMMA LockInvariant == LockSpec => []LockIInv
  BY LockInitEstablishes, LockStepPreserves, PTL DEF LockSpec

(* Every call that waits has found the promise of a call under its own     *)
(* key, one that runs or has run: nobody waits for nothing.                *)
THEOREM LockTypesHold == LockSpec => []LockTypeOK
  <1>1. LockIInv => LockTypeOK
    BY DEF LockIInv
  <1> QED BY <1>1, LockInvariant, PTL

(* The map never keeps a key whose operation is over.                      *)
THEOREM NoKeyIsLeaked == LockSpec => []NoLeakedKey
  <1>1. LockIInv => NoLeakedKey
    BY DEF LockIInv
  <1> QED BY <1>1, LockInvariant, PTL

(* Operations under one key overlap only after a hand-over.                *)
THEOREM ExclusionUntilHandOver == LockSpec => []ExclusiveUntilHandOver
  <1>1. LockIInv => ExclusiveUntilHandOver
    BY DEF LockIInv, RunnerIsTheEntry, ExclusiveUntilHandOver
  <1> QED BY <1>1, LockInvariant, PTL

(* No three calls share a key.                                             *)
AtMostTwoPerKey ==
  \A c, d, e \in Calls :
    KeyOf[c] = KeyOf[d] /\ KeyOf[d] = KeyOf[e] => c = d \/ d = e \/ c = e

(* The promised exclusion, "execute an operation with exclusive lock",     *)
(* holds whenever at most two calls share a key.                           *)
THEOREM ExclusiveForTwo ==
  ASSUME AtMostTwoPerKey
  PROVE  LockSpec => []Exclusive
  <1>1. LockIInv => Exclusive
    <2> SUFFICES ASSUME LockIInv,
                        NEW c \in Calls, NEW d \in Calls,
                        Running(c), Running(d), KeyOf[c] = KeyOf[d], c # d
                 PROVE  FALSE
      BY DEF Exclusive
    <2>1. PICK e \in Calls : KeyOf[e] = KeyOf[c] /\ call[e] = "ended"
      BY DEF LockIInv, RunnerIsTheEntry
    <2>2. e # c /\ e # d
      BY <2>1 DEF Running
    <2> QED BY <2>1, <2>2 DEF AtMostTwoPerKey
  <1> QED BY <1>1, LockInvariant, PTL
=============================================================================
