----------------------------- MODULE LockService -----------------------------
(***************************************************************************)
(* The in-memory lock of backend/src/services/LockService.ts.              *)
(*                                                                         *)
(* withLock(key, operation) looks the key up in a map of promises.  If the *)
(* key is free, the operation starts at once; if not, the call waits, for  *)
(* at most its timeout, on the promise it found there, and then starts its *)
(* operation without looking again.  Every operation that ends removes     *)
(* whatever its key maps to.  The code between two awaits is one action.   *)
(***************************************************************************)
EXTENDS Naturals

CONSTANTS
  Calls,   \* calls of withLock
  Keys,    \* lock keys
  KeyOf,   \* the key of each call
  None     \* no entry, or a call that waits for nobody

ASSUME CallsAssumption == KeyOf \in [Calls -> Keys] /\ None \notin Calls

VARIABLES
  activeLocks,   \* the map, its promises named by the call whose operation they stand for
  call,          \* how far each call is
  waitsFor       \* the promise each call found in the map

lockVars == <<activeLocks, call, waitsFor>>

Phases == {"new", "waiting", "running", "ended", "timed out"}

LockInit ==
  /\ activeLocks = [k \in Keys |-> None]
  /\ call = [c \in Calls |-> "new"]
  /\ waitsFor = [c \in Calls |-> None]

Running(c) == call[c] = "running"

(* executeLocked: the operation starts and its promise replaces the entry. *)
Execute(c) ==
  /\ call' = [call EXCEPT ![c] = "running"]
  /\ activeLocks' = [activeLocks EXCEPT ![KeyOf[c]] = c]

(* Fault: the map is not consulted.                                        *)
FaultEnter(c) ==
  /\ call[c] = "new"
  /\ Execute(c)
  /\ UNCHANGED waitsFor

(* withLock on a free key.                                                 *)
Enter(c) ==
  /\ call[c] = "new"
  /\ activeLocks[KeyOf[c]] = None
  /\ Execute(c)
  /\ UNCHANGED waitsFor

(* Fault: a waiter puts its own promise into the map.                      *)
FaultWait(c) ==
  /\ call[c] = "new"
  /\ activeLocks[KeyOf[c]] # None
  /\ call' = [call EXCEPT ![c] = "waiting"]
  /\ waitsFor' = [waitsFor EXCEPT ![c] = activeLocks[KeyOf[c]]]
  /\ activeLocks' = [activeLocks EXCEPT ![KeyOf[c]] = c]

(* withLock on a key somebody holds.                                       *)
Wait(c) ==
  /\ call[c] = "new"
  /\ activeLocks[KeyOf[c]] # None
  /\ call' = [call EXCEPT ![c] = "waiting"]
  /\ waitsFor' = [waitsFor EXCEPT ![c] = activeLocks[KeyOf[c]]]
  /\ UNCHANGED activeLocks

(* Fault: the waiter goes on only if the key still has the promise it      *)
(* waited for.                                                             *)
FaultResume(c) ==
  /\ call[c] = "waiting"
  /\ call[waitsFor[c]] = "ended" /\ activeLocks[KeyOf[c]] = waitsFor[c]
  /\ Execute(c)
  /\ UNCHANGED waitsFor

(* The promise the call waits on settles; a failed operation counts too.   *)
Resume(c) ==
  /\ call[c] = "waiting"
  /\ call[waitsFor[c]] = "ended"
  /\ Execute(c)
  /\ UNCHANGED waitsFor

(* Fault: a call that gives up cleans the key as a finished one does.      *)
FaultTimeOut(c) ==
  /\ call[c] = "waiting"
  /\ call[waitsFor[c]] # "ended"
  /\ call' = [call EXCEPT ![c] = "timed out"]
  /\ activeLocks' = [activeLocks EXCEPT ![KeyOf[c]] = None]
  /\ UNCHANGED waitsFor

(* The timeout wins the race: withLock throws without touching the map.    *)
TimeOut(c) ==
  /\ call[c] = "waiting"
  /\ call[waitsFor[c]] # "ended"
  /\ call' = [call EXCEPT ![c] = "timed out"]
  /\ UNCHANGED <<activeLocks, waitsFor>>

(* Fault: the key is deleted only when the operation's own promise is      *)
(* missing from the map.                                                   *)
FaultFinish(c) ==
  /\ Running(c)
  /\ call' = [call EXCEPT ![c] = "ended"]
  /\ activeLocks' = [activeLocks EXCEPT ![KeyOf[c]] = IF @ = c THEN @ ELSE None]
  /\ UNCHANGED waitsFor

(* The operation returns or throws; the finally block deletes the key.     *)
Finish(c) ==
  /\ Running(c)
  /\ call' = [call EXCEPT ![c] = "ended"]
  /\ activeLocks' = [activeLocks EXCEPT ![KeyOf[c]] = None]
  /\ UNCHANGED waitsFor

LockNext ==
  \E c \in Calls : Enter(c) \/ Wait(c) \/ Resume(c) \/ TimeOut(c) \/ Finish(c)

LockSpec == LockInit /\ [][LockNext]_lockVars

(* Promise reactions run and timers fire.  An operation is code of the     *)
(* caller: nothing says that it ever ends.                                 *)
LockFairness == \A c \in Calls : WF_lockVars(Resume(c) \/ TimeOut(c))

FairLockSpec == LockSpec /\ LockFairness

-----------------------------------------------------------------------------
(* The map and the calls have the shapes the code gives them, and a call   *)
(* waits only on a call of its own key that had started.                   *)
LockTypeOK ==
  /\ activeLocks \in [Keys -> Calls \union {None}]
  /\ call \in [Calls -> Phases]
  /\ waitsFor \in [Calls -> Calls \union {None}]
  /\ \A c \in Calls : call[c] = "waiting" =>
       /\ waitsFor[c] \in Calls
       /\ KeyOf[waitsFor[c]] = KeyOf[c]
       /\ call[waitsFor[c]] \in {"running", "ended"}

(* No key is left locked by a call that has ended, timed out or not begun: *)
(* an entry of the map always stands for an operation still running under  *)
(* that very key, whichever call's finally block ran last.                 *)
NoLeakedKey ==
  \A k \in Keys : activeLocks[k] # None =>
    KeyOf[activeLocks[k]] = k /\ Running(activeLocks[k])

(* What the interface promises, "execute an operation with exclusive       *)
(* lock": two operations under one key never overlap.                      *)
Exclusive ==
  \A c, d \in Calls : Running(c) /\ Running(d) /\ KeyOf[c] = KeyOf[d] => c = d

(* What the code guarantees instead: operations under one key overlap only *)
(* after some operation under that key has ended, for only a hand-over to  *)
(* several waiters, or to a waiter and a newcomer, can start two.          *)
ExclusiveUntilHandOver ==
  \A c, d \in Calls :
    Running(c) /\ Running(d) /\ KeyOf[c] = KeyOf[d] /\ c # d =>
      \E e \in Calls : KeyOf[e] = KeyOf[c] /\ call[e] = "ended"

(* Nobody waits for ever, even behind an operation that never ends: a call *)
(* that waits starts its operation or is told that the lock timed out.     *)
EveryWaiterIsAnswered ==
  \A c \in Calls : call[c] = "waiting" ~> call[c] # "waiting"
=============================================================================
