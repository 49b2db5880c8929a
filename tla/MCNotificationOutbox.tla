------------------------- MODULE MCNotificationOutbox -------------------------
(* The outbox service on a small instance.                                 *)
EXTENDS NotificationOutbox, TLC

CONSTANTS k1, k2, p1, p2, a, b, w1, x1, t1, t2, t3

MCKindOf == p1 :> a @@ p2 :> b

Symmetry == Permutations(Tokens) \cup Permutations(Keys)
=============================================================================
