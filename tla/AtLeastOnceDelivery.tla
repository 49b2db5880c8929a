------------------------- MODULE AtLeastOnceDelivery -------------------------
(***************************************************************************)
(* What the outbox promises its producers, whatever its workers go through:*)
(* an event that was submitted is either delivered, and then a handler did *)
(* its work for it at least once, or given up; its outcome never changes.  *)
(* A handler may do its work again, even after the outcome is settled.     *)
(***************************************************************************)
CONSTANT Events

VARIABLES
  outcome,   \* outcome[e]: "none" before e is submitted, then "open", then final
  performed  \* performed[e]: a handler has done the work of e at least once

vars == <<outcome, performed>>

Init ==
  /\ outcome = [e \in Events |-> "none"]
  /\ performed = [e \in Events |-> FALSE]

(* Events of one transaction are submitted together.                       *)
Submit == \E es \in SUBSET {e \in Events : outcome[e] = "none"} :
  /\ es # {}
  /\ outcome' = [e \in Events |-> IF e \in es THEN "open" ELSE outcome[e]]
  /\ UNCHANGED performed

Perform(e) ==
  /\ outcome[e] # "none"
  /\ performed' = [performed EXCEPT ![e] = TRUE]
  /\ UNCHANGED outcome

Deliver(e) ==
  /\ outcome[e] = "open"
  /\ performed[e]
  /\ outcome' = [outcome EXCEPT ![e] = "delivered"]
  /\ UNCHANGED performed

GiveUp(e) ==
  /\ outcome[e] = "open"
  /\ outcome' = [outcome EXCEPT ![e] = "dead"]
  /\ UNCHANGED performed

Next == Submit \/ \E e \in Events : Perform(e) \/ Deliver(e) \/ GiveUp(e)

Spec == Init /\ [][Next]_vars
=============================================================================
