---------------------- MODULE MCNotificationOutboxSystem ----------------------
(* Two overlapping workers over a small outbox.                            *)
EXTENDS NotificationOutboxSystem, TLC

CONSTANTS k1, k2, p1, a, b, w1, w2, t1, t2, t3, t4

MCKindOf == p1 :> a
Mixed == {{a}, {b}}
=============================================================================
