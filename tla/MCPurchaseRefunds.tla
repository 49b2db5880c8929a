------------------------- MODULE MCPurchaseRefunds -------------------------
(* What exists of the purchases of a program with one place for a class    *)
(* representative, and the requests that come together.                    *)
EXTENDS PurchaseRefunds, TLC

CONSTANTS a, b, c, ann, bob

Ask3(x, y, z) == (a :> x) @@ (b :> y) @@ (c :> z)
Op(kind, user, rep, free) == [kind |-> kind, user |-> user, rep |-> rep, free |-> free]
Buy(user) == Op("checkout", user, TRUE, FALSE)
Swap(user) == Op("checkout", user, FALSE, FALSE)
Gift(user) == Op("checkout", user, TRUE, TRUE)
Do(kind, user) == Op(kind, user, FALSE, FALSE)

Nothing(asks) == [purchases |-> <<>>, sessions |-> <<>>, count |-> 0, request |-> asks]

(* Ann has a pending purchase of the place, and its session is open.       *)
Waits(asks) ==
  [purchases |-> <<[NewPurchase(ann, TRUE, "pending") EXCEPT !.session = 1]>>,
   sessions |-> <<[NewSession(1) EXCEPT !.status = "open"]>>,
   count |-> 1, request |-> asks]

(* Ann has paid for it, and the webhook has been answered.                 *)
Holds(asks) ==
  [purchases |-> <<[NewPurchase(ann, TRUE, "completed") EXCEPT
                     !.session = 1, !.intent = 1, !.version = 1, !.codes = 1, !.linked = TRUE]>>,
   sessions |-> <<[NewSession(1) EXCEPT !.status = "paid"]>>,
   count |-> 1, request |-> asks]

None == Do("none", ann)

(* The refund window is over.                                              *)
Late(start) ==
  [start EXCEPT !.purchases = [p \in DOMAIN @ |-> [@[p] EXCEPT !.old = TRUE, !.late = TRUE]]]

MCScenarios == {
  Nothing(Ask3(Buy(ann), Swap(ann), None)),
  Nothing(Ask3(Buy(ann), Buy(bob), Do("view", ann))),
  Waits(Ask3(Do("cancel", ann), Do("retry", ann), None)),
  Waits(Ask3(Do("retry", ann), Do("retry", ann), None)),
  Waits(Ask3(Do("retry", ann), Do("view", ann), None)),
  Waits(Ask3(Gift(ann), Do("unenroll", ann), None)),
  Holds(Ask3(Do("refund", ann), Do("refund", ann), None)),
  Holds(Ask3(Do("refund", ann), Buy(bob), None)),
  Holds(Ask3(Do("refund", ann), Buy(ann), None)),
  Holds(Ask3(Do("unenroll", ann), Do("refund", ann), Do("approve", ann))),
  Late(Holds(Ask3(Do("unenroll", ann), Do("approve", ann), Do("refund", ann)))),
  Late(Holds(Ask3(Do("refund", ann), Do("approve", ann), Do("approve", ann)))),
  Late(Holds(Ask3(Do("refund", ann), Do("reject", ann), Do("decide", ann))))}

Cancelling == {Waits(Ask3(Do("cancel", ann), Do("retry", ann), None))}
============================================================================
