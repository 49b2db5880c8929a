-------------------------- MODULE ProgramPurchases --------------------------
(***************************************************************************)
(* Purchases of one program, among them those of the few places for class  *)
(* representatives (controllers/purchase/*.ts, the completion webhook of   *)
(* controllers/webhookController.ts, services/PendingPurchaseCleanup-      *)
(* Service.ts).  Each call of the database or of Stripe is one action.     *)
(*                                                                         *)
(* The lock of a checkout is left out: its key names a purchase that does  *)
(* not exist yet, so it excludes nobody.  The lock of a completion only    *)
(* orders deliveries for one purchase, and these are let overlap here.     *)
(* Purchases and Stripe's sessions are named in the order of their         *)
(* creation; what is deleted keeps its name.  Module PurchaseRefunds adds  *)
(* the refunds and the next-state relation.                                *)
(***************************************************************************)
EXTENDS Integers, Sequences, FiniteSets

CONSTANTS
  Calls,        \* requests of users and administrators
  Users,        \* who buys
  Limit,        \* places for class representatives
  Scenarios,    \* what may exist at the start, and the requests that come
  MaxSessions,  \* how many checkout sessions Stripe opens
  MaxPeriods,   \* how often a month may pass
  MaxFailures   \* how many requests and deliveries may stop half-way

ASSUME PurchasesAssumption ==
  /\ Limit \in Nat \ {0}
  /\ MaxSessions \in Nat /\ MaxPeriods \in Nat /\ MaxFailures \in Nat
  /\ IsFiniteSet(Calls)

VARIABLES
  purchases,    \* the documents, in the order of their creation
  sessions,     \* Stripe's checkout sessions, and the webhook of each
  count,        \* classRepCount of the program
  request,      \* what each call asks for
  at,           \* the next step of each call
  hold,         \* what it has read or created
  period,       \* how many periods have passed
  failures      \* how many calls have stopped half-way

storeVars == <<purchases, sessions, count>>
purchaseVars == <<purchases, sessions, count, request, at, hold, period, failures>>

Kinds == {"checkout", "retry", "cancel", "view",
          "refund", "unenroll", "approve", "reject", "decide"}

(* The documents, the sessions, the requests and what a call holds.        *)
Statuses ==
  {"pending", "completed", "refund_processing", "refund_failed", "refunded", "deleted"}

Purchase ==
  [user : Users, rep : BOOLEAN, status : Statuses, session : Nat, intent : Nat, version : Nat,
   old : BOOLEAN, late : BOOLEAN, unenrolled : BOOLEAN, codes : Nat, linked : BOOLEAN]

Session ==
  [purchase : Nat, status : {"created", "open", "expired", "paid"},
   hook : {"idle", "complete", "bundle", "link"}]

Request == [kind : Kinds \union {"none"}, user : Users, rep : BOOLEAN, free : BOOLEAN]

Held ==
  [purchase : Nat, rep : BOOLEAN, unenrolled : BOOLEAN, session : Nat, version : Nat,
   listed : SUBSET Nat, redundant : SUBSET Nat, ticket : Nat]

(* At the start nothing is being fulfilled: no webhook is at work, a       *)
(* pending purchase has neither a payment nor a bundle code, and none has  *)
(* more than one.  Purchases name sessions that exist, and every purchase  *)
(* that has a place of a class representative is counted.                  *)
ASSUME ScenariosAssumption ==
  \A start \in Scenarios :
    /\ start.purchases \in Seq(Purchase)
    /\ start.sessions \in Seq(Session) /\ Len(start.sessions) <= MaxSessions
    /\ start.request \in [Calls -> Request]
    /\ \A p \in DOMAIN start.purchases :
         /\ start.purchases[p].session \in 0 .. Len(start.sessions)
         /\ start.purchases[p].intent \in 0 .. Len(start.sessions)
         /\ start.purchases[p].codes <= 1
         /\ start.purchases[p].status = "pending" =>
              /\ start.purchases[p].codes = 0 /\ start.purchases[p].intent = 0
              /\ ~start.purchases[p].unenrolled
    /\ \A s \in DOMAIN start.sessions :
         /\ start.sessions[s].purchase \in DOMAIN start.purchases
         /\ start.sessions[s].hook = "idle"
    /\ start.count \in 0 .. Limit
    /\ Cardinality({p \in DOMAIN start.purchases :
                      /\ start.purchases[p].status # "deleted"
                      /\ start.purchases[p].rep /\ ~start.purchases[p].unenrolled}) <= start.count

(* A new purchase: without a session, a payment or a bundle code.          *)
NewPurchase(user, rep, status) ==
  [user |-> user, rep |-> rep, status |-> status, session |-> 0, intent |-> 0, version |-> 0,
   old |-> FALSE, late |-> FALSE, unenrolled |-> FALSE, codes |-> 0, linked |-> FALSE]

NewSession(p) == [purchase |-> p, status |-> "created", hook |-> "idle"]

NoHold == [purchase |-> 0, rep |-> FALSE, unenrolled |-> FALSE, session |-> 0,
           version |-> 0, listed |-> {}, redundant |-> {}, ticket |-> 0]

PurchaseInit ==
  /\ \E start \in Scenarios :
       /\ purchases = start.purchases
       /\ sessions = start.sessions
       /\ count = start.count
       /\ request = start.request
  /\ at = [c \in Calls |-> "new"]
  /\ hold = [c \in Calls |-> NoHold]
  /\ period = 0
  /\ failures = 0

-----------------------------------------------------------------------------
Exists(p) == purchases[p].status # "deleted"
Of(user) == {p \in DOMAIN purchases : purchases[p].user = user /\ Exists(p)}
Pending(user) == {p \in Of(user) : purchases[p].status = "pending"}

(* A completed purchase of the program that still gives access to it.      *)
Enrolled(user) ==
  \E p \in Of(user) : purchases[p].status = "completed" /\ ~purchases[p].unenrolled

(* What a call keeps of the document it has read.                          *)
Read(p) ==
  [NoHold EXCEPT !.purchase = p, !.rep = purchases[p].rep,
     !.unenrolled = purchases[p].unenrolled,
     !.session = purchases[p].session, !.version = purchases[p].version]

Goto(c, step) == at' = [at EXCEPT ![c] = step] /\ UNCHANGED <<request, period, failures>>
Keep(c, read) == hold' = [hold EXCEPT ![c] = read]

Begin(c, kind) == at[c] = "new" /\ request[c].kind = kind

DeleteAll(ps) ==
  purchases' = [p \in DOMAIN purchases |->
    IF p \in ps THEN [purchases[p] EXCEPT !.status = "deleted"] ELSE purchases[p]]

(* buildDiscountRoleCountIncrement: the place goes back, limit or not.     *)
GiveBack(rep) == count' = IF rep THEN count - 1 ELSE count

-----------------------------------------------------------------------------
(* PurchaseCheckoutController: refuse who is enrolled, replace what is     *)
(* pending, reserve a place, create the purchase, then Stripe's session.   *)
Checkout(c) ==
  /\ Begin(c, "checkout")
  /\ Goto(c, IF Enrolled(request[c].user) THEN "done" ELSE "find")
  /\ UNCHANGED <<storeVars, hold>>

FindPending(c) ==
  /\ at[c] = "find"
  /\ \/ Pending(request[c].user) = {} /\ Goto(c, "reserve") /\ UNCHANGED hold
     \/ \E p \in Pending(request[c].user) :
          /\ Keep(c, Read(p))
          /\ Goto(c, IF purchases[p].session # 0 THEN "expire" ELSE "return")
  /\ UNCHANGED storeVars

(* Its session is expired if it is still open; errors are ignored.         *)
Expire(s) ==
  sessions' = [sessions EXCEPT ![s].status = IF @ \in {"created", "open"} THEN "expired" ELSE @]

ExpireOld(c) ==
  /\ at[c] = "expire"
  /\ Expire(hold[c].session) \/ UNCHANGED sessions
  /\ Goto(c, "return")
  /\ UNCHANGED <<purchases, count, hold>>

ReturnPlace(c) ==
  /\ at[c] = "return"
  /\ GiveBack(hold[c].rep)
  /\ Goto(c, "delete")
  /\ UNCHANGED <<purchases, sessions, hold>>

DeleteOld(c) ==
  /\ at[c] = "delete"
  /\ DeleteAll({hold[c].purchase})
  /\ Keep(c, NoHold)
  /\ Goto(c, "reserve")
  /\ UNCHANGED <<sessions, count>>

(* Fault: off by one.                                                      *)
FaultPlaceIsFree == count <= Limit

(* One conditional update counts the place.                                *)
PlaceIsFree == count < Limit

Reserve(c) ==
  /\ at[c] = "reserve"
  /\ \/ ~request[c].rep /\ Goto(c, "create") /\ UNCHANGED count
     \/ request[c].rep /\ PlaceIsFree /\ count' = count + 1 /\ Goto(c, "create")
     \/ request[c].rep /\ ~PlaceIsFree /\ Goto(c, "done") /\ UNCHANGED count
  /\ UNCHANGED <<purchases, sessions, hold>>

(* Nothing to pay: the purchase is complete at once.                       *)
Create(c) ==
  /\ at[c] = "create"
  /\ purchases' = Append(purchases,
       NewPurchase(request[c].user, request[c].rep, IF request[c].free THEN "completed" ELSE "pending"))
  /\ Keep(c, [NoHold EXCEPT !.purchase = Len(purchases) + 1, !.rep = request[c].rep])
  /\ Goto(c, IF request[c].free THEN "done" ELSE "session")
  /\ UNCHANGED <<sessions, count>>

CreateSession(c) ==
  /\ at[c] = "session"
  /\ \/ /\ Len(sessions) < MaxSessions
        /\ sessions' = Append(sessions, NewSession(hold[c].purchase))
        /\ Keep(c, [hold[c] EXCEPT !.session = Len(sessions) + 1])
        /\ Goto(c, "bind")
     \/ Goto(c, "undo") /\ UNCHANGED <<sessions, hold>>
  /\ UNCHANGED <<purchases, count>>

(* Fault: the payment is noted before it is made.                          *)
FaultBind(p, s) ==
  /\ purchases' = [purchases EXCEPT ![p].session = s, ![p].intent = s]
  /\ sessions' = [sessions EXCEPT ![s].status = IF @ = "created" THEN "open" ELSE @]

(* The user is sent to the session once the purchase names it.             *)
Bind(p, s) ==
  /\ purchases' = [purchases EXCEPT ![p].session = s]
  /\ sessions' = [sessions EXCEPT ![s].status = IF @ = "created" THEN "open" ELSE @]

BindSession(c) ==
  /\ at[c] = "bind"
  /\ \/ Exists(hold[c].purchase) /\ Bind(hold[c].purchase, hold[c].session) /\ Goto(c, "done")
     \/ Goto(c, "undo") /\ UNCHANGED <<purchases, sessions>>
  /\ UNCHANGED <<count, hold>>

UndoDelete(c) ==
  /\ at[c] = "undo"
  /\ DeleteAll({hold[c].purchase})
  /\ Goto(c, "undo_return")
  /\ UNCHANGED <<sessions, count, hold>>

UndoReturn(c) ==
  /\ at[c] = "undo_return"
  /\ GiveBack(hold[c].rep)
  /\ Goto(c, "done")
  /\ UNCHANGED <<purchases, sessions, hold>>

-----------------------------------------------------------------------------
(* PurchaseRetryController: a new session for a pending purchase, reserved *)
(* and bound by compare-and-set on its status and version.  The session it *)
(* had before stays open.                                                  *)
Retry(c) ==
  /\ Begin(c, "retry")
  /\ \/ \E p \in Pending(request[c].user) :
          /\ ~Enrolled(request[c].user)
          /\ Keep(c, Read(p))
          /\ Goto(c, "attempt")
     \/ Goto(c, "done") /\ UNCHANGED hold
  /\ UNCHANGED storeVars

Unchanged(c) ==
  /\ purchases[hold[c].purchase].status = "pending"
  /\ purchases[hold[c].purchase].version = hold[c].version

ReserveAttempt(c) ==
  /\ at[c] = "attempt"
  /\ \/ /\ Unchanged(c)
        /\ purchases' = [purchases EXCEPT ![hold[c].purchase].session = 0,
                                          ![hold[c].purchase].version = @ + 1]
        /\ Keep(c, [hold[c] EXCEPT !.version = @ + 1])
        /\ Goto(c, "new_session")
     \/ ~Unchanged(c) /\ Goto(c, "done") /\ UNCHANGED <<purchases, hold>>
  /\ UNCHANGED <<sessions, count>>

RetrySession(c) ==
  /\ at[c] = "new_session" /\ Len(sessions) < MaxSessions
  /\ sessions' = Append(sessions, NewSession(hold[c].purchase))
  /\ Keep(c, [hold[c] EXCEPT !.session = Len(sessions) + 1])
  /\ Goto(c, "bind_attempt")
  /\ UNCHANGED <<purchases, count>>

BindAttempt(c) ==
  /\ at[c] = "bind_attempt"
  /\ \/ /\ Unchanged(c)
        /\ purchases' = [purchases EXCEPT ![hold[c].purchase].session = hold[c].session,
                                          ![hold[c].purchase].version = @ + 1]
        /\ sessions' = [sessions EXCEPT ![hold[c].session].status = IF @ = "created" THEN "open" ELSE @]
     \/ ~Unchanged(c) /\ Expire(hold[c].session) /\ UNCHANGED purchases
  /\ Goto(c, "done")
  /\ UNCHANGED <<count, hold>>

-----------------------------------------------------------------------------
(* PurchaseCancellationController: one of the user's purchases, if it is   *)
(* pending when it is read.                                                *)
Cancel(c) ==
  /\ Begin(c, "cancel")
  /\ \/ \E p \in Pending(request[c].user) : Keep(c, Read(p)) /\ Goto(c, "cancel_return")
     \/ Goto(c, "done") /\ UNCHANGED hold
  /\ UNCHANGED storeVars

CancelReturn(c) ==
  /\ at[c] = "cancel_return"
  /\ GiveBack(hold[c].rep)
  /\ Goto(c, "cancel_delete")
  /\ UNCHANGED <<purchases, sessions, hold>>

CancelDelete(c) ==
  /\ at[c] = "cancel_delete"
  /\ DeleteAll({hold[c].purchase})
  /\ Goto(c, "done")
  /\ UNCHANGED <<sessions, count, hold>>

(* PurchasePendingController: a look at one's pending purchases deletes    *)
(* those older than a day, then lists the others, looks for a completed    *)
(* one of the same program for each, newest first, and deletes the listed  *)
(* ones that have one - even if it is the listed one itself by now.        *)
View(c) ==
  /\ Begin(c, "view")
  /\ DeleteAll({p \in Pending(request[c].user) : purchases[p].old})
  /\ Goto(c, "view_find")
  /\ UNCHANGED <<sessions, count, hold>>

ViewFind(c) ==
  /\ at[c] = "view_find"
  /\ Keep(c, [NoHold EXCEPT !.listed = Pending(request[c].user)])
  /\ Goto(c, "view_match")
  /\ UNCHANGED storeVars

ViewMatch(c) ==
  /\ at[c] = "view_match"
  /\ \E p \in hold[c].listed :
       /\ \A q \in hold[c].listed : q <= p
       /\ Keep(c, [hold[c] EXCEPT !.listed = @ \ {p},
            !.redundant = IF Enrolled(request[c].user) THEN @ \union {p} ELSE @])
  /\ Goto(c, "view_match")
  /\ UNCHANGED storeVars

ViewDelete(c) ==
  /\ at[c] = "view_match" /\ hold[c].listed = {}
  /\ DeleteAll(hold[c].redundant)
  /\ Goto(c, "done")
  /\ UNCHANGED <<sessions, count, hold>>

(* PendingPurchaseCleanupService: abandoned and long refunded purchases.   *)
Cleanup(p) ==
  /\ purchases[p].status \in {"pending", "refunded"} /\ purchases[p].old
  /\ DeleteAll({p})
  /\ UNCHANGED <<sessions, count, request, at, hold, period, failures>>

-----------------------------------------------------------------------------
(* Stripe: a user pays a session; it then delivers the event until it is   *)
(* answered, perhaps several times.                                        *)
Pay(s) ==
  /\ sessions[s].status = "open"
  /\ sessions' = [sessions EXCEPT ![s].status = "paid"]
  /\ UNCHANGED <<purchases, count, request, at, hold, period, failures>>

(* handleCheckoutSessionCompleted, which finds the purchase by the name in *)
(* the session's metadata.                                                 *)
Hook(s, from, to) ==
  /\ sessions[s].hook = from
  /\ sessions' = [sessions EXCEPT ![s].hook = to]
  /\ UNCHANGED <<count, request, at, hold, period, failures>>

HookRead(s) ==
  /\ sessions[s].status = "paid"
  /\ purchases[sessions[s].purchase].status = "pending"
  /\ Hook(s, "idle", "complete")
  /\ UNCHANGED purchases

(* Fault: the session must still be the one the purchase names.            *)
FaultCompletesNamed(s) ==
  LET p == sessions[s].purchase IN
  purchases[p].status = "pending" /\ purchases[p].session = s

(* Fault: the update does not look at the status again.                    *)
FaultCompletes(s) == purchases[sessions[s].purchase].status # "deleted"

(* transitionPendingPurchase: pending becomes completed, once.             *)
Completes(s) == purchases[sessions[s].purchase].status = "pending"

(* The payment is noted unless Stripe fails to describe it.                *)
HookComplete(s) ==
  \/ /\ Completes(s)
     /\ Hook(s, "complete", "bundle")
     /\ \E payment \in {s, 0} :
          LET p == sessions[s].purchase IN
          purchases' = [purchases EXCEPT ![p] =
            [purchases[p] EXCEPT !.status = "completed", !.session = s, !.intent = payment,
                                 !.late = FALSE, !.version = purchases[p].version + 1]]
  \/ ~Completes(s) /\ Hook(s, "complete", "idle") /\ UNCHANGED purchases

(* A bundle code is created, if that is on offer, and noted in the purchase. *)
HookBundle(s) ==
  \/ /\ Hook(s, "bundle", "link")
     /\ purchases' = [purchases EXCEPT ![sessions[s].purchase].codes = @ + 1]
  \/ Hook(s, "bundle", "idle") /\ UNCHANGED purchases

HookLink(s) ==
  /\ Hook(s, "link", "idle")
  /\ purchases' = [purchases EXCEPT ![sessions[s].purchase].linked = TRUE]

(* A delivery that stops half-way is repeated.                             *)
HookFail(s) ==
  /\ sessions[s].hook # "idle" /\ failures < MaxFailures
  /\ sessions' = [sessions EXCEPT ![s].hook = "idle"]
  /\ failures' = failures + 1
  /\ UNCHANGED <<purchases, count, request, at, hold, period>>

(* A month passes: sessions expire, every purchase is older than a day,    *)
(* than the retention period and, if paid for, than the refund window.     *)
Age ==
  /\ period < MaxPeriods
  /\ period' = period + 1
  /\ purchases' = [p \in DOMAIN purchases |-> [purchases[p] EXCEPT !.old = TRUE, !.late = TRUE]]
  /\ sessions' = [s \in DOMAIN sessions |->
       [sessions[s] EXCEPT !.status = IF @ \in {"created", "open"} THEN "expired" ELSE @]]
  /\ UNCHANGED <<count, request, at, hold, failures>>

PurchaseStep(c) ==
  \/ Checkout(c) \/ FindPending(c) \/ ExpireOld(c) \/ ReturnPlace(c) \/ DeleteOld(c)
  \/ Reserve(c) \/ Create(c) \/ CreateSession(c) \/ BindSession(c)
  \/ UndoDelete(c) \/ UndoReturn(c)
  \/ Retry(c) \/ ReserveAttempt(c) \/ RetrySession(c) \/ BindAttempt(c)
  \/ Cancel(c) \/ CancelReturn(c) \/ CancelDelete(c)
  \/ View(c) \/ ViewFind(c) \/ ViewMatch(c) \/ ViewDelete(c)

Webhook(s) == HookComplete(s) \/ HookBundle(s) \/ HookLink(s)
=============================================================================
