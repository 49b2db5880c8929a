------------------------ MODULE PurchaseRefunds_proof ------------------------
(***************************************************************************)
(* However many users, purchases, sessions, repetitions and failures there *)
(* are, a purchase is completed once and brings at most one bundle code.   *)
(*                                                                         *)
(* The argument: only the step that takes a purchase from pending to       *)
(* completed lets a webhook go on to the bundle code, and nothing makes a  *)
(* purchase pending again.  So at most one webhook is about to create a    *)
(* code for a purchase, and only while it has none.  All other steps are   *)
(* calm: they add no code, start no fulfilment, make nothing pending.      *)
(*                                                                         *)
(* And the places for class representatives are never oversold, until a    *)
(* call gives back again what it had read before another's return of it was*)
(* recorded, or stops between returning and recording: see the second part.*)
(***************************************************************************)
EXTENDS PurchaseRefunds, SequenceTheorems, FiniteSetTheorems, TLAPS

Ticket ==
  [purchase : Nat, status : {"pending", "approved", "rejected", "expired", "deleted"},
   due : BOOLEAN, decided : BOOLEAN]

(* The steps of a call at which the purchase it holds certainly exists.    *)
Named == {"ask", "ask_create", "session", "attempt", "new_session"}

Shapes ==
  /\ purchases \in Seq(Purchase)
  /\ sessions \in Seq(Session)
  /\ tickets \in Seq(Ticket)
  /\ request \in [Calls -> Request]
  /\ DOMAIN at = Calls
  /\ hold \in [Calls -> Held]

Names ==
  /\ \A s \in DOMAIN sessions : sessions[s].purchase \in DOMAIN purchases
  /\ \A t \in DOMAIN tickets : tickets[t].purchase \in DOMAIN purchases
  /\ \A c \in Calls : at[c] \in Named => hold[c].purchase \in DOMAIN purchases

(* A webhook between the completion and the bundle code.                   *)
Fulfils(s) == sessions[s].hook = "bundle"

Once ==
  /\ \A p \in DOMAIN purchases :
       /\ purchases[p].codes <= 1
       /\ purchases[p].status = "pending" => purchases[p].codes = 0
  /\ \A s \in DOMAIN sessions : Fulfils(s) =>
       /\ purchases[sessions[s].purchase].status # "pending"
       /\ purchases[sessions[s].purchase].codes = 0
       /\ \A r \in DOMAIN sessions :
            Fulfils(r) /\ sessions[r].purchase = sessions[s].purchase => r = s

Inv == Shapes /\ Names /\ Once

(* Nothing becomes pending again: this is what makes repeated deliveries,  *)
(* cancellations and reports of old refunds harmless for a completed       *)
(* purchase.                                                               *)
NeverPendingAgain ==
  [][\A p \in DOMAIN purchases :
       purchases[p].status # "pending" => purchases'[p].status # "pending"]_vars

-----------------------------------------------------------------------------
(* What a calm step does to each part of the state.                        *)
DocsCalm ==
  /\ purchases' \in Seq(Purchase)
  /\ DOMAIN purchases \subseteq DOMAIN purchases'
  /\ \A p \in DOMAIN purchases' :
       IF p \in DOMAIN purchases
       THEN /\ purchases'[p].codes <= purchases[p].codes
            /\ purchases'[p].status = "pending" => purchases[p].status = "pending"
       ELSE purchases'[p].codes = 0

SessionsCalm ==
  /\ sessions' \in Seq(Session)
  /\ \A s \in DOMAIN sessions' :
       IF s \in DOMAIN sessions
       THEN /\ sessions'[s].purchase = sessions[s].purchase
            /\ sessions'[s].hook = "bundle" => sessions[s].hook = "bundle"
       ELSE /\ sessions'[s].purchase \in DOMAIN purchases
            /\ sessions'[s].hook = "idle"

CallsFine ==
  /\ request' = request
  /\ DOMAIN at' = Calls
  /\ hold' \in [Calls -> Held]
  /\ \A c \in Calls : at'[c] \in Named => hold'[c].purchase \in DOMAIN purchases'

TicketsFine ==
  /\ tickets' \in Seq(Ticket)
  /\ \A t \in DOMAIN tickets' : tickets'[t].purchase \in DOMAIN purchases

Calm == DocsCalm /\ SessionsCalm /\ CallsFine /\ TicketsFine

(* Sequences that keep their length, or grow by one element.               *)
LEMMA SameLength ==
  ASSUME NEW S, NEW q \in Seq(S), NEW f \in [DOMAIN q -> S]
  PROVE  f \in Seq(S) /\ DOMAIN f = DOMAIN q
  <1>1. DOMAIN q = 1 .. Len(q) /\ Len(q) \in Nat
    BY LenProperties
  <1> QED BY <1>1, SeqDef

LEMMA OneMore ==
  ASSUME NEW S, NEW q \in Seq(S), NEW e \in S
  PROVE  /\ Append(q, e) \in Seq(S)
         /\ DOMAIN q \subseteq DOMAIN Append(q, e)
         /\ Len(q) + 1 \in DOMAIN Append(q, e)
         /\ \A i \in DOMAIN Append(q, e) :
              Append(q, e)[i] = IF i \in DOMAIN q THEN q[i] ELSE e
  <1>1. /\ Len(q) \in Nat /\ DOMAIN q = 1 .. Len(q)
        /\ Append(q, e) \in Seq(S) /\ Len(Append(q, e)) = Len(q) + 1
        /\ \A i \in 1 .. Len(q) : Append(q, e)[i] = q[i]
        /\ Append(q, e)[Len(q) + 1] = e
    BY AppendProperties, LenProperties
  <1>2. DOMAIN Append(q, e) = 1 .. Len(q) + 1
    BY <1>1, LenProperties
  <1> QED BY <1>1, <1>2

LEMMA Element ==
  ASSUME NEW S, NEW q \in Seq(S), NEW i \in DOMAIN q
  PROVE  q[i] \in S /\ i \in Nat
  BY ElementOfSeq, LenProperties

LEMMA Typed ==
  Shapes => /\ \A p \in DOMAIN purchases : purchases[p] \in Purchase /\ p \in Nat
            /\ \A s \in DOMAIN sessions : sessions[s] \in Session /\ s \in Nat
            /\ \A t \in DOMAIN tickets : tickets[t] \in Ticket /\ t \in Nat
  BY Element DEF Shapes

(* A calm step keeps the invariant.                                        *)
LEMMA CalmKeeps == Inv /\ Calm => Inv'
  <1> SUFFICES ASSUME Inv, Calm PROVE Inv'
    OBVIOUS
  <1> USE DEF Inv, Calm
  <1>1. Shapes'
    BY DEF Shapes, DocsCalm, SessionsCalm, CallsFine, TicketsFine
  <1>2. Names'
    BY DEF Names, DocsCalm, SessionsCalm, CallsFine, TicketsFine
  <1>3. ASSUME NEW p \in DOMAIN purchases'
        PROVE  purchases'[p].codes <= 1 /\ (purchases'[p].status = "pending" => purchases'[p].codes = 0)
    <2>1. purchases'[p] \in Purchase /\ (p \in DOMAIN purchases => purchases[p] \in Purchase)
      BY Element, Typed DEF DocsCalm
    <2>2. purchases'[p].codes \in Nat /\ (p \in DOMAIN purchases => purchases[p].codes \in Nat)
      BY <2>1 DEF Purchase
    <2> QED BY <2>2 DEF DocsCalm, Once
  <1>4. ASSUME NEW s \in DOMAIN sessions', Fulfils(s)'
        PROVE  /\ purchases'[sessions'[s].purchase].status # "pending"
               /\ purchases'[sessions'[s].purchase].codes = 0
               /\ \A r \in DOMAIN sessions' :
                    Fulfils(r)' /\ sessions'[r].purchase = sessions'[s].purchase => r = s
    <2>1. \A r \in DOMAIN sessions' : Fulfils(r)' =>
            r \in DOMAIN sessions /\ Fulfils(r) /\ sessions'[r].purchase = sessions[r].purchase
      BY DEF SessionsCalm, Fulfils
    <2> DEFINE p == sessions[s].purchase
    <2>2. /\ p \in DOMAIN purchases /\ p \in DOMAIN purchases' /\ sessions'[s].purchase = p
          /\ purchases[p].status # "pending" /\ purchases[p].codes = 0
      BY <1>4, <2>1 DEF Names, Once, DocsCalm
    <2>5. purchases'[p] \in Purchase
      BY <2>2, Element DEF DocsCalm
    <2>3. purchases'[p].codes \in Nat
      BY <2>5 DEF Purchase
    <2>4. purchases'[p].status # "pending" /\ purchases'[p].codes = 0
      BY <2>2, <2>3 DEF DocsCalm
    <2> QED BY <1>4, <2>1, <2>2, <2>4 DEF Once
  <1>5. Once'
    BY <1>3, <1>4 DEF Once
  <1> QED BY <1>1, <1>2, <1>5

-----------------------------------------------------------------------------
(* The ways in which steps change the documents, the sessions, the calls   *)
(* and the refund requests.                                                *)
LEMMA DocsSame == Shapes /\ UNCHANGED purchases => DocsCalm
  <1> SUFFICES ASSUME Shapes, UNCHANGED purchases PROVE DocsCalm
    OBVIOUS
  <1>1. \A p \in DOMAIN purchases : purchases[p].codes \in Nat
    BY Typed DEF Purchase
  <1> QED BY <1>1 DEF Shapes, DocsCalm

(* One document is replaced by a calmer one.                               *)
LEMMA DocsOne ==
  ASSUME Shapes, NEW p, NEW d, purchases' = [purchases EXCEPT ![p] = d],
         p \in DOMAIN purchases =>
           /\ d \in Purchase
           /\ d.codes <= purchases[p].codes
           /\ d.status = "pending" => purchases[p].status = "pending"
  PROVE  DocsCalm
  <1>1. purchases' \in [DOMAIN purchases -> Purchase]
    BY Typed
  <1>2. purchases' \in Seq(Purchase) /\ DOMAIN purchases' = DOMAIN purchases
    BY <1>1, SameLength DEF Shapes
  <1>3. \A q \in DOMAIN purchases : purchases[q].codes \in Nat
    BY Typed DEF Purchase
  <1> QED BY <1>2, <1>3 DEF DocsCalm

LEMMA DocsDeleted ==
  ASSUME Shapes, NEW ps, DeleteAll(ps)
  PROVE  DocsCalm
  <1>1. \A q \in DOMAIN purchases : purchases[q] \in Purchase
    BY Typed
  <1>2. purchases' \in [DOMAIN purchases -> Purchase]
    BY <1>1 DEF DeleteAll, Purchase, Statuses
  <1>3. purchases' \in Seq(Purchase) /\ DOMAIN purchases' = DOMAIN purchases
    BY <1>2, SameLength DEF Shapes
  <1> QED BY <1>1, <1>3 DEF DocsCalm, DeleteAll, Purchase

LEMMA SessionsSame == Shapes /\ UNCHANGED sessions => SessionsCalm
  BY DEF Shapes, SessionsCalm

LEMMA SessionsOne ==
  ASSUME Shapes, NEW s, NEW d, sessions' = [sessions EXCEPT ![s] = d],
         s \in DOMAIN sessions =>
           /\ d \in Session
           /\ d.purchase = sessions[s].purchase
           /\ d.hook = "bundle" => sessions[s].hook = "bundle"
  PROVE  SessionsCalm
  <1>1. sessions' \in [DOMAIN sessions -> Session]
    BY Typed
  <1>2. sessions' \in Seq(Session) /\ DOMAIN sessions' = DOMAIN sessions
    BY <1>1, SameLength DEF Shapes
  <1> QED BY <1>2 DEF SessionsCalm

(* The webhook of a session goes to another step, but for the bundle code. *)
LEMMA SessionsHook ==
  ASSUME Shapes, NEW s, NEW from, NEW to \in {"idle", "complete", "link"}, Hook(s, from, to)
  PROVE  SessionsCalm
  <1>1. s \in DOMAIN sessions => sessions[s] \in Session
    BY Typed
  <1>2. sessions' = [sessions EXCEPT ![s] = [sessions[s] EXCEPT !.hook = to]]
    BY DEF Hook
  <1> QED BY <1>1, <1>2, SessionsOne DEF Session

LEMMA SessionsStatus ==
  ASSUME Shapes, NEW s, NEW status,
         sessions' = [sessions EXCEPT ![s].status = status],
         s \in DOMAIN sessions => status \in {"created", "open", "expired", "paid"}
  PROVE  SessionsCalm
  <1> DEFINE d == [sessions[s] EXCEPT !.status = status]
  <1>1. sessions' = [sessions EXCEPT ![s] = d]
    OBVIOUS
  <1>2. ASSUME s \in DOMAIN sessions
        PROVE  d \in Session /\ d.purchase = sessions[s].purchase /\ d.hook = sessions[s].hook
    <2>1. sessions[s] \in Session
      BY <1>2, Typed
    <2> QED BY <1>2, <2>1 DEF Session
  <1> HIDE DEF d
  <1> QED BY <1>1, <1>2, SessionsOne

LEMMA SessionsExpire ==
  ASSUME Shapes, NEW s, Expire(s)
  PROVE  SessionsCalm
  <1> DEFINE status == IF sessions[s].status \in {"created", "open"}
                       THEN "expired" ELSE sessions[s].status
  <1>1. sessions' = [sessions EXCEPT ![s].status = status]
    BY DEF Expire
  <1>2. s \in DOMAIN sessions => status \in {"created", "open", "expired", "paid"}
    BY Typed DEF Session
  <1> HIDE DEF status
  <1> QED BY <1>1, <1>2, SessionsStatus

LEMMA SessionsOpen ==
  ASSUME Shapes, NEW s,
         sessions' = [sessions EXCEPT ![s].status = IF @ = "created" THEN "open" ELSE @]
  PROVE  SessionsCalm
  <1> DEFINE status == IF sessions[s].status = "created" THEN "open" ELSE sessions[s].status
  <1>1. sessions' = [sessions EXCEPT ![s].status = status]
    OBVIOUS
  <1>2. s \in DOMAIN sessions => status \in {"created", "open", "expired", "paid"}
    BY Typed DEF Session
  <1> HIDE DEF status
  <1> QED BY <1>1, <1>2, SessionsStatus

LEMMA SessionsMore ==
  ASSUME Shapes, NEW p \in DOMAIN purchases, sessions' = Append(sessions, NewSession(p))
  PROVE  SessionsCalm
  <1>1. p \in Nat
    BY Typed
  <1>2. NewSession(p) \in Session
    BY <1>1 DEF NewSession, Session
  <1> QED BY <1>2, OneMore DEF Shapes, SessionsCalm, NewSession

(* What is read of a document can be held.                                 *)
LEMMA ReadHeld ==
  ASSUME Shapes, NEW p \in DOMAIN purchases
  PROVE  Read(p) \in Held /\ Read(p).purchase = p
  <1>1. purchases[p] \in Purchase /\ p \in Nat
    BY Typed
  <1> QED BY <1>1 DEF Read, NoHold, Held, Purchase

(* The calls, when one of them goes to another step.                       *)
LEMMA CallGoes ==
  ASSUME Shapes, Names, NEW c \in Calls, NEW step, NEW h \in Held,
         DOMAIN purchases \subseteq DOMAIN purchases',
         Goto(c, step), hold' = [hold EXCEPT ![c] = h],
         step \in Named => h.purchase \in DOMAIN purchases'
  PROVE  CallsFine
  BY DEF Shapes, Names, Goto, CallsFine

LEMMA CallGoesOn ==
  ASSUME Shapes, Names, NEW c \in Calls, NEW step,
         DOMAIN purchases \subseteq DOMAIN purchases',
         Goto(c, step), UNCHANGED hold,
         step \in Named => hold[c].purchase \in DOMAIN purchases'
  PROVE  CallsFine
  BY DEF Shapes, Names, Goto, CallsFine

LEMMA CallsSame ==
  ASSUME Shapes, Names, DOMAIN purchases \subseteq DOMAIN purchases', UNCHANGED <<request, at, hold>>
  PROVE  CallsFine
  BY DEF Shapes, Names, CallsFine

LEMMA TicketsSame == Shapes /\ Names /\ UNCHANGED tickets => TicketsFine
  BY DEF Shapes, Names, TicketsFine

LEMMA TicketsOne ==
  ASSUME Shapes, Names, NEW t, NEW d, tickets' = [tickets EXCEPT ![t] = d],
         t \in DOMAIN tickets => d \in Ticket /\ d.purchase = tickets[t].purchase
  PROVE  TicketsFine
  <1>1. tickets' \in [DOMAIN tickets -> Ticket]
    BY Typed
  <1>2. tickets' \in Seq(Ticket) /\ DOMAIN tickets' = DOMAIN tickets
    BY <1>1, SameLength DEF Shapes
  <1> QED BY <1>2 DEF TicketsFine, Names


(* A call goes on, and holds what it held or something else.               *)
LEMMA Walks ==
  ASSUME Inv, NEW c \in Calls, NEW step, step \notin Named, Goto(c, step),
         DocsCalm, SessionsCalm, TicketsFine, UNCHANGED hold
  PROVE  Calm
  BY CallGoesOn DEF Inv, Calm, DocsCalm

LEMMA Takes ==
  ASSUME Inv, NEW c \in Calls, NEW step, NEW h \in Held, Goto(c, step), Keep(c, h),
         DocsCalm, SessionsCalm, TicketsFine, step \in Named => h.purchase \in DOMAIN purchases'
  PROVE  Calm
  BY CallGoes DEF Inv, Calm, DocsCalm, Keep

Steps ==
  {"find", "reserve", "expire", "return", "delete", "create", "done", "bind", "undo",
   "undo_return", "bind_attempt", "cancel_return", "cancel_delete", "view_find", "view_match",
   "refund_return", "refund_save", "submit", "refused", "leave_return", "leave_save",
   "approve_submit", "approve_return", "approve_save", "approve_record",
   "decide_return", "decide_save", "decide_record"}

LEMMA Unnamed == \A step \in Steps : step \notin Named
  BY DEF Steps, Named

LEMMA NothingHeld == NoHold \in Held
  BY DEF NoHold, Held

-----------------------------------------------------------------------------
(* Requests of users to buy: every step is calm.                           *)
LEMMA CheckoutIsCalm ==
  ASSUME Inv, NEW c \in Calls, UNCHANGED tickets,
         \/ Checkout(c) \/ FindPending(c) \/ ExpireOld(c) \/ ReturnPlace(c) \/ DeleteOld(c)
         \/ Reserve(c) \/ Create(c) \/ CreateSession(c) \/ BindSession(c)
         \/ UndoDelete(c) \/ UndoReturn(c)
  PROVE  Calm
  <1>1. Shapes /\ Names /\ TicketsFine
    BY TicketsSame DEF Inv
  <1>2. UNCHANGED purchases => DocsCalm
    BY <1>1, DocsSame
  <1>3. UNCHANGED sessions => SessionsCalm
    BY <1>1, SessionsSame
  <1>4. hold[c] \in Held /\ request[c] \in Request
    BY <1>1 DEF Shapes
  <1>5. CASE Checkout(c)
    <2>1. (IF Enrolled(request[c].user) THEN "done" ELSE "find") \notin Named
      BY Unnamed DEF Steps
    <2> QED BY <1>1, <1>2, <1>3, <1>5, <2>1, Walks, Unnamed DEF Steps, Checkout, storeVars
  <1>6. CASE FindPending(c)
    <2>1. CASE Goto(c, "reserve") /\ UNCHANGED hold
      BY <1>1, <1>2, <1>3, <1>6, <2>1, Walks, Unnamed DEF Steps, FindPending, storeVars
    <2>2. ASSUME NEW p \in Pending(request[c].user), Keep(c, Read(p)),
                 Goto(c, IF purchases[p].session # 0 THEN "expire" ELSE "return")
          PROVE  Calm
      <3>1. (IF purchases[p].session # 0 THEN "expire" ELSE "return") \notin Named
        BY Unnamed DEF Steps
      <3>2. Read(p) \in Held
        BY <1>1, ReadHeld DEF Pending, Of
      <3> QED BY <1>1, <1>2, <1>3, <1>6, <2>2, <3>1, <3>2, Takes, Unnamed DEF Steps, FindPending, storeVars
    <2> QED BY <1>6, <2>1, <2>2 DEF FindPending
  <1>7. CASE ExpireOld(c)
    <2>1. SessionsCalm
      BY <1>1, <1>3, <1>7, SessionsExpire DEF ExpireOld
    <2> QED BY <1>1, <1>2, <1>7, <2>1, Walks, Unnamed DEF Steps, ExpireOld
  <1>8. CASE ReturnPlace(c) \/ UndoReturn(c)
    BY <1>1, <1>2, <1>3, <1>8, Walks, Unnamed DEF Steps, ReturnPlace, UndoReturn
  <1>9. CASE DeleteOld(c)
    <2>1. DocsCalm
      BY <1>1, <1>9, DocsDeleted DEF DeleteOld
    <2> QED BY <1>1, <1>3, <1>9, <2>1, Takes, NothingHeld, Unnamed DEF Steps, DeleteOld
  <1>10. CASE Reserve(c)
    BY <1>1, <1>2, <1>3, <1>10, Walks, Unnamed DEF Steps, Reserve
  <1>11. CASE Create(c)
    <2> DEFINE d == NewPurchase(request[c].user, request[c].rep,
                                IF request[c].free THEN "completed" ELSE "pending")
               h == [NoHold EXCEPT !.purchase = Len(purchases) + 1, !.rep = request[c].rep]
               step == IF request[c].free THEN "done" ELSE "session"
    <2>1. d \in Purchase /\ d.codes = 0
      BY <1>4 DEF NewPurchase, Purchase, Statuses, Request
    <2>2. purchases' = Append(purchases, d)
      BY <1>11 DEF Create
    <2>3. Len(purchases) \in Nat
      BY <1>1, LenProperties DEF Shapes
    <2>4. h \in Held /\ h.purchase = Len(purchases) + 1
      <3> DEFINE h1 == [NoHold EXCEPT !.purchase = Len(purchases) + 1]
      <3>1. request[c].rep \in BOOLEAN
        BY <1>4 DEF Request
      <3>2. h1 \in Held /\ h1.purchase = Len(purchases) + 1
        BY <2>3, NothingHeld DEF Held
      <3>3. h = [h1 EXCEPT !.rep = request[c].rep]
        OBVIOUS
      <3> HIDE DEF h1
      <3> QED BY <3>1, <3>2, <3>3 DEF Held
    <2>5. Keep(c, h) /\ Goto(c, step) /\ UNCHANGED sessions
      BY <1>11 DEF Create
    <2> HIDE DEF d, h, step
    <2>6. purchases \in Seq(Purchase)
      BY <1>1 DEF Shapes
    <2>7. /\ purchases' \in Seq(Purchase)
          /\ DOMAIN purchases \subseteq DOMAIN purchases'
          /\ Len(purchases) + 1 \in DOMAIN purchases'
          /\ \A p \in DOMAIN purchases' :
               purchases'[p] = IF p \in DOMAIN purchases THEN purchases[p] ELSE d
      BY <2>1, <2>2, <2>6, OneMore
    <2>8. \A p \in DOMAIN purchases : purchases[p].codes \in Nat
      BY <1>1, Typed DEF Purchase
    <2>9. DocsCalm
      BY <2>1, <2>7, <2>8 DEF DocsCalm
    <2> QED BY <1>1, <1>3, <2>4, <2>5, <2>7, <2>9, Takes
  <1>12. CASE CreateSession(c)
    <2>1. CASE Goto(c, "undo") /\ UNCHANGED <<sessions, hold>>
      BY <1>1, <1>2, <1>3, <1>12, <2>1, Walks, Unnamed DEF Steps, CreateSession
    <2>2. CASE /\ sessions' = Append(sessions, NewSession(hold[c].purchase))
               /\ Keep(c, [hold[c] EXCEPT !.session = Len(sessions) + 1])
               /\ Goto(c, "bind")
      <3>1. hold[c].purchase \in DOMAIN purchases
        BY <1>1, <1>12 DEF CreateSession, Names, Named
      <3>2. SessionsCalm
        BY <1>1, <2>2, <3>1, SessionsMore
      <3>3. Len(sessions) \in Nat
        BY <1>1, LenProperties DEF Shapes
      <3>4. [hold[c] EXCEPT !.session = Len(sessions) + 1] \in Held
        BY <1>4, <3>3 DEF Held
      <3> QED BY <1>1, <1>2, <1>12, <2>2, <3>2, <3>4, Takes, Unnamed DEF Steps, CreateSession
    <2> QED BY <1>12, <2>1, <2>2 DEF CreateSession
  <1>13. CASE BindSession(c)
    <2>1. CASE Goto(c, "undo") /\ UNCHANGED <<purchases, sessions>>
      BY <1>1, <1>2, <1>3, <1>13, <2>1, Walks, Unnamed DEF Steps, BindSession
    <2>2. CASE Bind(hold[c].purchase, hold[c].session) /\ Goto(c, "done")
      <3>1. SessionsCalm
        BY <1>1, <2>2, SessionsOpen DEF Bind
      <3>2. hold[c].session \in Nat
        BY <1>4 DEF Held
      <3> DEFINE p == hold[c].purchase
                 d == [purchases[p] EXCEPT !.session = hold[c].session]
      <3>3. purchases' = [purchases EXCEPT ![p] = d]
        BY <2>2 DEF Bind
      <3>4. ASSUME p \in DOMAIN purchases
            PROVE  /\ d \in Purchase /\ d.codes <= purchases[p].codes
                   /\ d.status = purchases[p].status
        <4>1. purchases[p] \in Purchase
          BY <1>1, <3>4, Typed
        <4> QED BY <3>2, <4>1 DEF Purchase
      <3> HIDE DEF d
      <3>5. DocsCalm
        BY <1>1, <3>3, <3>4, DocsOne
      <3> QED BY <1>1, <1>13, <2>2, <3>1, <3>5, Walks, Unnamed DEF Steps, BindSession
    <2> QED BY <1>13, <2>1, <2>2 DEF BindSession
  <1>14. CASE UndoDelete(c)
    <2>1. DocsCalm
      BY <1>1, <1>14, DocsDeleted DEF UndoDelete
    <2> QED BY <1>1, <1>3, <1>14, <2>1, Walks, Unnamed DEF Steps, UndoDelete
  <1> QED
    BY <1>5, <1>6, <1>7, <1>8, <1>9, <1>10, <1>11, <1>12, <1>13, <1>14

(* A document gets another session and the next version.                   *)
LEMMA DocsReserved ==
  ASSUME Shapes, NEW p, NEW session \in Nat,
         purchases' = [purchases EXCEPT ![p].session = session, ![p].version = @ + 1]
  PROVE  DocsCalm
  <1> DEFINE d == [purchases[p] EXCEPT !.session = session, !.version = @ + 1]
  <1>1. ASSUME p \in DOMAIN purchases
        PROVE  /\ d \in Purchase /\ d.codes <= purchases[p].codes
               /\ d.status = purchases[p].status
    <2> DEFINE e == [purchases[p] EXCEPT !.session = session]
    <2>1. purchases[p] \in Purchase
      BY <1>1, Typed
    <2>2. e \in Purchase /\ e.codes = purchases[p].codes /\ e.status = purchases[p].status
      BY <2>1 DEF Purchase
    <2>3. d = [e EXCEPT !.version = purchases[p].version + 1]
      OBVIOUS
    <2>4. purchases[p].codes \in Nat /\ purchases[p].version + 1 \in Nat
      BY <2>1 DEF Purchase
    <2> HIDE DEF d, e
    <2> QED BY <2>2, <2>3, <2>4 DEF Purchase
  <1>2. purchases' = [purchases EXCEPT ![p] = d]
    <2> DEFINE e == [purchases[p] EXCEPT !.session = session]
               first == [purchases EXCEPT ![p] = e]
    <2>1. purchases' = [first EXCEPT ![p] = [first[p] EXCEPT !.version = first[p].version + 1]]
      OBVIOUS
    <2>2. CASE p \in DOMAIN purchases
      <3>1. first[p] = e
        BY <2>2
      <3>2. d = [e EXCEPT !.version = e.version + 1]
        BY <1>1
      <3> HIDE DEF d, e
      <3> QED BY <2>1, <2>2, <3>1, <3>2
    <2>3. CASE p \notin DOMAIN purchases
      BY <2>1, <2>3
    <2> QED BY <2>2, <2>3
  <1> HIDE DEF d
  <1> QED BY <1>1, <1>2, DocsOne

LEMMA RetryIsCalm ==
  ASSUME Inv, NEW c \in Calls, UNCHANGED tickets,
         \/ Retry(c) \/ ReserveAttempt(c) \/ RetrySession(c) \/ BindAttempt(c)
         \/ Cancel(c) \/ CancelReturn(c) \/ CancelDelete(c)
         \/ View(c) \/ ViewFind(c) \/ ViewMatch(c) \/ ViewDelete(c)
  PROVE  Calm
  <1>1. Shapes /\ Names /\ TicketsFine
    BY TicketsSame DEF Inv
  <1>2. UNCHANGED purchases => DocsCalm
    BY <1>1, DocsSame
  <1>3. UNCHANGED sessions => SessionsCalm
    BY <1>1, SessionsSame
  <1>4. hold[c] \in Held /\ request[c] \in Request
    BY <1>1 DEF Shapes
  <1>5. \A p \in Pending(request[c].user) :
          p \in DOMAIN purchases /\ Read(p) \in Held /\ Read(p).purchase = p
    BY <1>1, ReadHeld DEF Pending, Of
  <1>6. CASE Retry(c)
    <2>1. CASE Goto(c, "done") /\ UNCHANGED hold
      BY <1>1, <1>2, <1>3, <1>6, <2>1, Walks, Unnamed DEF Steps, Retry, storeVars
    <2>2. ASSUME NEW p \in Pending(request[c].user), Keep(c, Read(p)), Goto(c, "attempt")
          PROVE  Calm
      BY <1>1, <1>2, <1>3, <1>5, <1>6, <2>2, Takes DEF Retry, storeVars
    <2> QED BY <1>6, <2>1, <2>2 DEF Retry
  <1>7. CASE ReserveAttempt(c)
    <2>1. CASE Goto(c, "done") /\ UNCHANGED <<purchases, hold>>
      BY <1>1, <1>2, <1>3, <1>7, <2>1, Walks, Unnamed DEF Steps, ReserveAttempt
    <2>2. CASE /\ purchases' = [purchases EXCEPT ![hold[c].purchase].session = 0,
                                                  ![hold[c].purchase].version = @ + 1]
               /\ Keep(c, [hold[c] EXCEPT !.version = @ + 1])
               /\ Goto(c, "new_session")
      <3>1. DocsCalm
        BY <1>1, <2>2, DocsReserved
      <3>2. hold[c].purchase \in DOMAIN purchases
        BY <1>1, <1>7 DEF ReserveAttempt, Names, Named
      <3> DEFINE h == [hold[c] EXCEPT !.version = @ + 1]
      <3>3. h \in Held /\ h.purchase = hold[c].purchase
        BY <1>4 DEF Held
      <3>4. Keep(c, h)
        BY <2>2
      <3> HIDE DEF h
      <3> QED BY <1>1, <1>3, <1>7, <2>2, <3>1, <3>2, <3>3, <3>4, Takes DEF ReserveAttempt, DocsCalm
    <2> QED BY <1>7, <2>1, <2>2 DEF ReserveAttempt
  <1>8. CASE RetrySession(c)
    <2>1. hold[c].purchase \in DOMAIN purchases
      BY <1>1, <1>8 DEF RetrySession, Names, Named
    <2>2. SessionsCalm
      BY <1>1, <1>8, <2>1, SessionsMore DEF RetrySession
    <2>3. Len(sessions) \in Nat
      BY <1>1, LenProperties DEF Shapes
    <2>4. [hold[c] EXCEPT !.session = Len(sessions) + 1] \in Held
      BY <1>4, <2>3 DEF Held
    <2> QED BY <1>1, <1>2, <1>8, <2>2, <2>4, Takes, Unnamed DEF Steps, RetrySession
  <1>9. CASE BindAttempt(c)
    <2>1. hold[c].session \in Nat
      BY <1>4 DEF Held
    <2>2. DocsCalm
      BY <1>1, <1>2, <1>9, <2>1, DocsReserved DEF BindAttempt
    <2>3. SessionsCalm
      BY <1>1, <1>9, SessionsOpen, SessionsExpire DEF BindAttempt
    <2> QED BY <1>1, <1>9, <2>2, <2>3, Walks, Unnamed DEF Steps, BindAttempt
  <1>10. CASE Cancel(c)
    <2>1. CASE Goto(c, "done") /\ UNCHANGED hold
      BY <1>1, <1>2, <1>3, <1>10, <2>1, Walks, Unnamed DEF Steps, Cancel, storeVars
    <2>2. ASSUME NEW p \in Pending(request[c].user), Keep(c, Read(p)), Goto(c, "cancel_return")
          PROVE  Calm
      BY <1>1, <1>2, <1>3, <1>5, <1>10, <2>2, Takes, Unnamed DEF Steps, Cancel, storeVars
    <2> QED BY <1>10, <2>1, <2>2 DEF Cancel
  <1>11. CASE CancelReturn(c)
    BY <1>1, <1>2, <1>3, <1>11, Walks, Unnamed DEF Steps, CancelReturn
  <1>12. CASE CancelDelete(c)
    <2>1. DocsCalm
      BY <1>1, <1>12, DocsDeleted DEF CancelDelete
    <2> QED BY <1>1, <1>3, <1>12, <2>1, Walks, Unnamed DEF Steps, CancelDelete
  <1>13. CASE View(c)
    <2>1. DocsCalm
      BY <1>1, <1>13, DocsDeleted DEF View
    <2> QED BY <1>1, <1>3, <1>13, <2>1, Walks, Unnamed DEF Steps, View
  <1>14. CASE ViewFind(c)
    <2> DEFINE h == [NoHold EXCEPT !.listed = Pending(request[c].user)]
    <2>1. Pending(request[c].user) \in SUBSET Nat
      BY <1>1, Typed DEF Pending, Of
    <2>2. h \in Held
      BY <2>1, NothingHeld DEF Held
    <2>3. Keep(c, h)
      BY <1>14 DEF ViewFind
    <2> HIDE DEF h
    <2> QED BY <1>1, <1>2, <1>3, <1>14, <2>2, <2>3, Takes, Unnamed DEF Steps, ViewFind, storeVars
  <1>15. CASE ViewDelete(c)
    <2>1. DocsCalm
      BY <1>1, <1>15, DocsDeleted DEF ViewDelete
    <2> QED BY <1>1, <1>3, <1>15, <2>1, Walks, Unnamed DEF Steps, ViewDelete
  <1>16. CASE ViewMatch(c)
    <2> PICK p \in hold[c].listed :
               Keep(c, [hold[c] EXCEPT !.listed = @ \ {p},
                 !.redundant = IF Enrolled(request[c].user) THEN @ \union {p} ELSE @])
      BY <1>16 DEF ViewMatch
    <2> DEFINE h == [hold[c] EXCEPT !.listed = @ \ {p},
                       !.redundant = IF Enrolled(request[c].user) THEN @ \union {p} ELSE @]
    <2>1. h \in Held
      BY <1>4 DEF Held
    <2>2. Keep(c, h)
      OBVIOUS
    <2> HIDE DEF h
    <2> QED BY <1>1, <1>2, <1>3, <1>16, <2>1, <2>2, Takes, Unnamed DEF Steps, ViewMatch, storeVars
  <1> QED
    BY <1>6, <1>7, <1>8, <1>9, <1>10, <1>11, <1>12, <1>13, <1>14, <1>15, <1>16

-----------------------------------------------------------------------------
(* Refunds and the requests for them.                                      *)
LEMMA DocsStatus ==
  ASSUME Shapes, NEW p, NEW status,
         purchases' = [purchases EXCEPT ![p].status = status],
         p \in DOMAIN purchases => status \in Statuses /\ status # "pending"
  PROVE  DocsCalm
  <1> DEFINE d == [purchases[p] EXCEPT !.status = status]
  <1>1. purchases' = [purchases EXCEPT ![p] = d]
    OBVIOUS
  <1>2. ASSUME p \in DOMAIN purchases
        PROVE  d \in Purchase /\ d.codes <= purchases[p].codes /\ d.status = status
    <2>1. purchases[p] \in Purchase
      BY <1>2, Typed
    <2> QED BY <1>2, <2>1 DEF Purchase
  <1> HIDE DEF d
  <1> QED BY <1>1, <1>2, DocsOne

LEMMA DocsUnenrolled ==
  ASSUME Shapes, NEW p, NEW status, SaveUnenrolled(p, status),
         p \in DOMAIN purchases =>
           /\ status \in Statuses
           /\ status = "pending" => purchases[p].status = "pending"
  PROVE  DocsCalm
  <1> DEFINE d == [purchases[p] EXCEPT !.status = status, !.unenrolled = TRUE]
  <1>1. purchases' = [purchases EXCEPT ![p] = d]
    <2> DEFINE e == [purchases[p] EXCEPT !.status = status]
               first == [purchases EXCEPT ![p] = e]
    <2>1. purchases' = [first EXCEPT ![p] = [first[p] EXCEPT !.unenrolled = TRUE]]
      BY DEF SaveUnenrolled
    <2>2. CASE p \in DOMAIN purchases
      <3>1. first[p] = e
        BY <2>2
      <3>2. d = [e EXCEPT !.unenrolled = TRUE]
        OBVIOUS
      <3> HIDE DEF d, e
      <3> QED BY <2>1, <2>2, <3>1, <3>2
    <2>3. CASE p \notin DOMAIN purchases
      BY <2>1, <2>3
    <2> QED BY <2>2, <2>3
  <1>2. ASSUME p \in DOMAIN purchases
        PROVE  d \in Purchase /\ d.codes <= purchases[p].codes /\ d.status = status
    <2> DEFINE e == [purchases[p] EXCEPT !.status = status]
    <2>1. purchases[p] \in Purchase
      BY <1>2, Typed
    <2>2. e \in Purchase /\ e.codes = purchases[p].codes /\ e.status = status
      BY <1>2, <2>1 DEF Purchase
    <2>3. d = [e EXCEPT !.unenrolled = TRUE]
      OBVIOUS
    <2>4. purchases[p].codes \in Nat
      BY <2>1 DEF Purchase
    <2>5. d \in Purchase
      <3> HIDE DEF d, e
      <3> QED BY <2>2, <2>3 DEF Purchase
    <2>6. d.codes = purchases[p].codes /\ d.status = status
      BY <2>1 DEF Purchase
    <2> HIDE DEF d, e
    <2> QED BY <2>4, <2>5, <2>6
  <1> HIDE DEF d
  <1> QED BY <1>1, <1>2, DocsOne

(* The steps that several requests share.                                  *)
LEMMA UnenrollIsCalm ==
  ASSUME Inv, NEW c \in Calls, NEW from, NEW to \in Steps, NEW status,
         \/ UnenrollReturn(c, from, to)
         \/ UnenrollSave(c, from, status, to) /\ status \in {"refund_processing", Status(c)}
         \/ \E submitted \in Steps : SubmitRefund(c, from, submitted, to)
  PROVE  Calm
  <1>1. Shapes /\ Names
    BY DEF Inv
  <1>2. UNCHANGED purchases => DocsCalm
    BY <1>1, DocsSame
  <1>3. UNCHANGED sessions => SessionsCalm
    BY <1>1, SessionsSame
  <1>4. UNCHANGED tickets => TicketsFine
    BY <1>1, TicketsSame
  <1>5. \A step \in Steps :
          /\ Goto(c, step) /\ UNCHANGED hold /\ DocsCalm /\ SessionsCalm /\ TicketsFine
          => Calm
    BY Walks, Unnamed
  <1>6. "done" \in Steps
    BY DEF Steps
  <1>7. CASE UnenrollReturn(c, from, to)
    BY <1>2, <1>3, <1>4, <1>5, <1>7 DEF UnenrollReturn, refundVars
  <1>8. CASE UnenrollSave(c, from, status, to) /\ status \in {"refund_processing", Status(c)}
    <2>1. hold[c].purchase \in DOMAIN purchases =>
            purchases[hold[c].purchase].status \in Statuses
      BY <1>1, Typed DEF Purchase
    <2>2. hold[c].purchase \in DOMAIN purchases =>
            /\ status \in Statuses
            /\ status = "pending" => purchases[hold[c].purchase].status = "pending"
      BY <1>8, <2>1 DEF Status, Statuses
    <2>3. DocsCalm
      BY <1>1, <1>2, <1>8, <2>2, DocsUnenrolled DEF UnenrollSave
    <2> QED BY <1>3, <1>4, <1>5, <1>6, <1>8, <2>3 DEF UnenrollSave, refundVars
  <1>9. ASSUME NEW submitted \in Steps, SubmitRefund(c, from, submitted, to) PROVE Calm
    BY <1>2, <1>3, <1>4, <1>5, <1>9 DEF SubmitRefund, storeVars
  <1> QED BY <1>7, <1>8, <1>9

LEMMA RefundIsCalm ==
  ASSUME Inv, NEW c \in Calls, RefundStep(c)
  PROVE  Calm
  <1>1. Shapes /\ Names
    BY DEF Inv
  <1>2. UNCHANGED purchases => DocsCalm
    BY <1>1, DocsSame
  <1>3. UNCHANGED sessions => SessionsCalm
    BY <1>1, SessionsSame
  <1>4. UNCHANGED tickets => TicketsFine
    BY <1>1, TicketsSame
  <1>5. \A p \in Of(request[c].user) :
          p \in DOMAIN purchases /\ Read(p) \in Held /\ Read(p).purchase = p
    BY <1>1, ReadHeld DEF Of
  <1>6. ASSUME NEW p \in Of(request[c].user), NEW step \in Steps \union {"ask"},
               Keep(c, Read(p)), Goto(c, step), UNCHANGED <<purchases, sessions, tickets>>
        PROVE  Calm
    <2>1. p \in DOMAIN purchases'
      BY <1>5, <1>6
    <2> QED BY <1>2, <1>3, <1>4, <1>5, <1>6, <2>1, Takes
  <1>7. ASSUME NEW p \in Of(request[c].user), Answer(c, p), UNCHANGED <<storeVars, refundVars>>
        PROVE  Calm
    BY <1>6, <1>7 DEF Answer, Steps, storeVars, refundVars
  <1>8. CASE Goto(c, "done") /\ UNCHANGED <<hold, storeVars, refundVars>>
    BY <1>2, <1>3, <1>4, <1>8, Walks, Unnamed DEF Steps, storeVars, refundVars
  <1>9. CASE Refund(c)
    BY <1>7, <1>8, <1>9 DEF Refund
  <1>10. CASE Unenroll(c)
    BY <1>6, <1>7, <1>8, <1>10 DEF Unenroll, Steps, storeVars, refundVars
  <1>11. CASE Ask(c)
    <2>1. /\ UNCHANGED <<purchases, sessions, tickets, hold>>
          /\ Goto(c, IF Waiting(hold[c].purchase) = {} THEN "ask_create" ELSE "done")
      BY <1>11 DEF Ask, storeVars, refundVars
    <2>2. hold[c].purchase \in DOMAIN purchases'
      BY <1>1, <1>11, <2>1 DEF Ask, Names, Named
    <2> QED BY <1>1, <1>2, <1>3, <1>4, <2>1, <2>2, CallGoesOn DEF Calm
  <1>14. CASE CreateTicket(c)
    <2> DEFINE d == NewTicket(hold[c].purchase)
    <2>1. hold[c].purchase \in DOMAIN purchases /\ hold[c].purchase \in Nat
      BY <1>1, <1>14, Typed DEF CreateTicket, Names, Named
    <2>2. d \in Ticket /\ d.purchase \in DOMAIN purchases
      BY <2>1 DEF NewTicket, Ticket
    <2>3. tickets' = Append(tickets, d)
      BY <1>14 DEF CreateTicket
    <2> HIDE DEF d
    <2>4. TicketsFine
      BY <1>1, <2>2, <2>3, OneMore DEF Shapes, Names, TicketsFine
    <2> QED BY <1>2, <1>3, <1>14, <2>4, Walks, Unnamed DEF Steps, CreateTicket, storeVars
  <1>12. CASE RefundRefused(c)
    <2>1. DocsCalm
      BY <1>1, <1>2, <1>12, DocsStatus DEF RefundRefused, Statuses
    <2> QED BY <1>3, <1>4, <1>12, <2>1, Walks, Unnamed DEF Steps, RefundRefused, refundVars
  <1>13. CASE \/ UnenrollReturn(c, "refund_return", "refund_save")
              \/ UnenrollSave(c, "refund_save", "refund_processing", "submit")
              \/ SubmitRefund(c, "submit", "done", "refused")
              \/ UnenrollReturn(c, "leave_return", "leave_save")
              \/ UnenrollSave(c, "leave_save", Status(c), "done")
    <2>1. "refund_save" \in Steps /\ "leave_save" \in Steps
      BY DEF Steps
    <2>2. "submit" \in Steps /\ "refused" \in Steps /\ "done" \in Steps
      BY DEF Steps
    <2>3. CASE \/ UnenrollReturn(c, "refund_return", "refund_save")
               \/ UnenrollReturn(c, "leave_return", "leave_save")
      BY <2>1, <2>3, UnenrollIsCalm
    <2>4. CASE \/ UnenrollSave(c, "refund_save", "refund_processing", "submit")
               \/ UnenrollSave(c, "leave_save", Status(c), "done")
      BY <2>2, <2>4, UnenrollIsCalm
    <2>5. CASE SubmitRefund(c, "submit", "done", "refused")
      BY <2>2, <2>5, UnenrollIsCalm
    <2> QED BY <1>13, <2>3, <2>4, <2>5
  <1> QED BY <1>9, <1>10, <1>11, <1>12, <1>13, <1>14 DEF RefundStep

LEMMA TicketIsCalm ==
  ASSUME Inv, NEW c \in Calls, TicketStep(c)
  PROVE  Calm
  <1>1. Shapes /\ Names
    BY DEF Inv
  <1>2. UNCHANGED purchases => DocsCalm
    BY <1>1, DocsSame
  <1>3. UNCHANGED sessions => SessionsCalm
    BY <1>1, SessionsSame
  <1>4. UNCHANGED tickets => TicketsFine
    BY <1>1, TicketsSame
  <1>5. ASSUME NEW step \in Steps, Goto(c, step), UNCHANGED <<purchases, sessions, hold>>, TicketsFine
        PROVE  Calm
    BY <1>2, <1>3, <1>5, Walks, Unnamed
  <1>6. ASSUME NEW step \in Steps, NEW t \in DOMAIN tickets, Goto(c, step),
               Keep(c, [Read(tickets[t].purchase) EXCEPT !.ticket = t]),
               UNCHANGED <<purchases, sessions, tickets>>
        PROVE  Calm
    <2> DEFINE h == [Read(tickets[t].purchase) EXCEPT !.ticket = t]
    <2>1. tickets[t].purchase \in DOMAIN purchases /\ t \in Nat
      BY <1>1, Typed DEF Names
    <2>2. Read(tickets[t].purchase) \in Held
      BY <1>1, <2>1, ReadHeld
    <2>3. h \in Held
      BY <2>1, <2>2 DEF Held
    <2>4. Keep(c, h)
      BY <1>6
    <2> HIDE DEF h
    <2> QED BY <1>2, <1>3, <1>4, <1>6, <2>3, <2>4, Takes, Unnamed
  <1>7. ASSUME NEW t, NEW status \in {"approved", "rejected", "expired", "deleted"},
               tickets' = [tickets EXCEPT ![t].status = status]
        PROVE  TicketsFine
    <2> DEFINE d == [tickets[t] EXCEPT !.status = status]
    <2>1. tickets' = [tickets EXCEPT ![t] = d]
      BY <1>7
    <2>2. t \in DOMAIN tickets => tickets[t] \in Ticket
      BY <1>1, Typed
    <2>3. t \in DOMAIN tickets => d \in Ticket /\ d.purchase = tickets[t].purchase
      BY <2>2 DEF Ticket
    <2> HIDE DEF d
    <2> QED BY <1>1, <2>1, <2>3, TicketsOne
  <1>8. CASE Approve(c)
    <2> SUFFICES ASSUME NEW t \in DOMAIN tickets,
                        \/ /\ Keep(c, [Read(tickets[t].purchase) EXCEPT !.ticket = t])
                           /\ Goto(c, "approve_submit") /\ UNCHANGED tickets
                        \/ /\ tickets' = [tickets EXCEPT ![t].status = "expired"]
                           /\ Goto(c, "done") /\ UNCHANGED hold
                        \/ Goto(c, "done") /\ UNCHANGED <<hold, tickets>>
                 PROVE  Calm
      BY <1>8 DEF Approve
    <2>1. UNCHANGED <<purchases, sessions>>
      BY <1>8 DEF Approve, storeVars
    <2> QED BY <1>4, <1>5, <1>6, <1>7, <2>1 DEF Steps
  <1>9. ASSUME NEW from, NEW status \in {"approved", "rejected"}, DecideTicket(c, from, status)
        PROVE  Calm
    <2> DEFINE t == hold[c].ticket
               after == IF tickets[t].status = "deleted" THEN "deleted" ELSE status
               d == [tickets[t] EXCEPT !.status = after, !.decided = TRUE]
    <2>1. tickets' = [tickets EXCEPT ![t] = d]
      BY <1>9 DEF DecideTicket
    <2>2. t \in DOMAIN tickets => tickets[t] \in Ticket
      BY <1>1, Typed
    <2>3. t \in DOMAIN tickets => d \in Ticket /\ d.purchase = tickets[t].purchase
      BY <2>2 DEF Ticket
    <2> HIDE DEF d
    <2>4. TicketsFine
      BY <1>1, <2>1, <2>3, TicketsOne
    <2> QED BY <1>5, <1>9, <2>4 DEF DecideTicket, storeVars, Steps
  <1>10. CASE Reject(c)
    <2> PICK t \in DOMAIN tickets :
               tickets' = [tickets EXCEPT ![t].status =
                 IF @ # "pending" THEN @ ELSE IF tickets[t].due THEN "expired" ELSE "rejected"]
      BY <1>10 DEF Reject
    <2> DEFINE status == IF tickets[t].status # "pending" THEN tickets[t].status
                         ELSE IF tickets[t].due THEN "expired" ELSE "rejected"
               d == [tickets[t] EXCEPT !.status = status]
    <2>1. tickets' = [tickets EXCEPT ![t] = d]
      OBVIOUS
    <2>2. tickets[t] \in Ticket
      BY <1>1, Typed
    <2>3. status \in {"pending", "approved", "rejected", "expired", "deleted"}
      BY <2>2 DEF Ticket
    <2> HIDE DEF status
    <2>4. d \in Ticket /\ d.purchase = tickets[t].purchase
      BY <2>2, <2>3 DEF Ticket
    <2> HIDE DEF d
    <2>5. TicketsFine
      BY <1>1, <2>1, <2>4, TicketsOne
    <2> QED BY <1>5, <1>10, <2>5 DEF Reject, storeVars, Steps
  <1>11. CASE Decide(c)
    <2> SUFFICES ASSUME NEW t \in DOMAIN tickets,
                        \/ /\ Keep(c, [Read(tickets[t].purchase) EXCEPT !.ticket = t])
                           /\ Goto(c, "decide_return") \/ Goto(c, "decide_record")
                        \/ Goto(c, "done") /\ UNCHANGED hold
                 PROVE  Calm
      BY <1>11 DEF Decide
    <2>1. UNCHANGED <<purchases, sessions, tickets>>
      BY <1>11 DEF Decide, storeVars, refundVars
    <2> QED BY <1>4, <1>5, <1>6, <2>1 DEF Steps
  <1>12. CASE \/ SubmitRefund(c, "approve_submit", "approve_return", "done")
              \/ UnenrollReturn(c, "approve_return", "approve_save")
              \/ UnenrollSave(c, "approve_save", "refund_processing", "approve_record")
              \/ UnenrollReturn(c, "decide_return", "decide_save")
              \/ UnenrollSave(c, "decide_save", Status(c), "decide_record")
    <2>1. "approve_save" \in Steps /\ "decide_save" \in Steps
      BY DEF Steps
    <2>2. "approve_record" \in Steps /\ "decide_record" \in Steps
      BY DEF Steps
    <2>3. "approve_return" \in Steps /\ "done" \in Steps
      BY DEF Steps
    <2>4. CASE \/ UnenrollReturn(c, "approve_return", "approve_save")
               \/ UnenrollReturn(c, "decide_return", "decide_save")
      BY <2>1, <2>4, UnenrollIsCalm
    <2>5. CASE \/ UnenrollSave(c, "approve_save", "refund_processing", "approve_record")
               \/ UnenrollSave(c, "decide_save", Status(c), "decide_record")
      BY <2>2, <2>5, UnenrollIsCalm
    <2>6. CASE SubmitRefund(c, "approve_submit", "approve_return", "done")
      BY <2>3, <2>6, UnenrollIsCalm
    <2> QED BY <1>12, <2>4, <2>5, <2>6
  <1> QED BY <1>8, <1>9, <1>10, <1>11, <1>12 DEF TicketStep

-----------------------------------------------------------------------------
(* Steps of nobody's request: they leave the calls alone.                  *)
LEMMA OthersAreCalm ==
  ASSUME Inv, UNCHANGED <<request, at, hold>>, DocsCalm, SessionsCalm, TicketsFine
  PROVE  Calm
  BY CallsSame DEF Inv, Calm, DocsCalm

LEMMA NoticeIsCalm ==
  ASSUME Inv, NEW s, NoticeRead(s) \/ Notice(s) \/ NoticeOther(s) \/ NoticeFail(s)
  PROVE  Calm
  <1>1. Shapes /\ Names
    BY DEF Inv
  <1>2. UNCHANGED purchases => DocsCalm
    BY <1>1, DocsSame
  <1>3. UNCHANGED sessions => SessionsCalm
    BY <1>1, SessionsSame
  <1>4. SessionsCalm /\ TicketsFine /\ UNCHANGED <<request, at, hold>>
    BY <1>1, <1>3, TicketsSame
    DEF NoticeRead, Notice, NoticeReturn, NoticeSave, NoticeCodes, NoticeOther, NoticeFail,
        NoticeStep, storeVars
  <1>5. ASSUME NoticeRead(s) \/ NoticeReturn(s) \/ NoticeFail(s) PROVE DocsCalm
    BY <1>2, <1>5 DEF NoticeRead, NoticeReturn, NoticeFail, storeVars
  <1>6. ASSUME NoticeSave(s) PROVE DocsCalm
    <2> DEFINE status == IF notice[s].again THEN purchases[Paid(s)].status ELSE "refunded"
    <2>1. Paid(s) \in DOMAIN purchases => purchases[Paid(s)].status \in Statuses
      BY <1>1, Typed DEF Purchase
    <2>2. Paid(s) \in DOMAIN purchases =>
            /\ status \in Statuses
            /\ status = "pending" => purchases[Paid(s)].status = "pending"
      BY <2>1 DEF Statuses
    <2>3. SaveUnenrolled(Paid(s), status) \/ UNCHANGED purchases
      BY <1>6 DEF NoticeSave
    <2> HIDE DEF status
    <2> QED BY <1>1, <1>2, <2>2, <2>3, DocsUnenrolled
  <1>7. ASSUME NoticeCodes(s) PROVE DocsCalm
    <2>1. CASE UNCHANGED purchases
      BY <1>2, <2>1
    <2>2. CASE purchases' = [purchases EXCEPT ![Paid(s)].codes = 0]
      <3> DEFINE d == [purchases[Paid(s)] EXCEPT !.codes = 0]
      <3>1. purchases' = [purchases EXCEPT ![Paid(s)] = d]
        BY <2>2
      <3>2. ASSUME Paid(s) \in DOMAIN purchases
            PROVE  /\ d \in Purchase /\ d.codes <= purchases[Paid(s)].codes
                   /\ d.status = purchases[Paid(s)].status
        <4>1. purchases[Paid(s)] \in Purchase
          BY <1>1, <3>2, Typed
        <4>2. d \in Purchase /\ d.codes = 0 /\ d.status = purchases[Paid(s)].status
          BY <4>1 DEF Purchase
        <4>3. purchases[Paid(s)].codes \in Nat
          BY <4>1 DEF Purchase
        <4> QED BY <4>2, <4>3
      <3> HIDE DEF d
      <3> QED BY <1>1, <3>1, <3>2, DocsOne
    <2> QED BY <1>7, <2>1, <2>2 DEF NoticeCodes
  <1>8. ASSUME NoticeOther(s) PROVE DocsCalm
    <2> PICK outcome \in reports[s] \ {"succeeded"} :
               purchases' = [purchases EXCEPT ![Paid(s)].status =
                               IF outcome = "failed" THEN "refund_failed" ELSE "completed"]
      BY <1>8 DEF NoticeOther
    <2> DEFINE status == IF outcome = "failed" THEN "refund_failed" ELSE "completed"
    <2>1. status \in Statuses /\ status # "pending"
      BY DEF Statuses
    <2>2. purchases' = [purchases EXCEPT ![Paid(s)].status = status]
      OBVIOUS
    <2> HIDE DEF status
    <2> QED BY <1>1, <2>1, <2>2, DocsStatus
  <1>9. DocsCalm
    BY <1>5, <1>6, <1>7, <1>8 DEF Notice
  <1> QED BY <1>4, <1>9, OthersAreCalm

-----------------------------------------------------------------------------
(* The webhooks of the sessions: two steps are not calm.                   *)
LEMMA WebhookIsCalm ==
  ASSUME Inv, NEW s,
         \/ Pay(s) \/ HookRead(s) \/ HookLink(s) \/ HookFail(s)
         \/ HookComplete(s) /\ ~Completes(s)
         \/ HookBundle(s) /\ UNCHANGED purchases,
         UNCHANGED refundVars
  PROVE  Calm
  <1>1. Shapes /\ Names /\ TicketsFine
    BY TicketsSame DEF Inv, refundVars
  <1>2. UNCHANGED purchases => DocsCalm
    BY <1>1, DocsSame
  <1>3. UNCHANGED <<request, at, hold>>
    BY DEF Pay, HookRead, HookLink, HookFail, HookComplete, HookBundle, Hook
  <1>4. \A from, to : Hook(s, from, to) /\ to \in {"idle", "complete", "link"} => SessionsCalm
    BY <1>1, SessionsHook
  <1>5. SessionsCalm
    <2>1. ASSUME Pay(s) PROVE SessionsCalm
      <3>1. sessions' = [sessions EXCEPT ![s].status = "paid"]
        BY <2>1 DEF Pay
      <3> QED BY <1>1, <3>1, SessionsStatus
    <2>2. ASSUME HookFail(s) PROVE SessionsCalm
      <3> DEFINE d == [sessions[s] EXCEPT !.hook = "idle"]
      <3>1. sessions' = [sessions EXCEPT ![s] = d]
        BY <2>2 DEF HookFail
      <3>2. s \in DOMAIN sessions => sessions[s] \in Session
        BY <1>1, Typed
      <3>3. s \in DOMAIN sessions =>
              d \in Session /\ d.purchase = sessions[s].purchase /\ d.hook = "idle"
        BY <3>2 DEF Session
      <3> HIDE DEF d
      <3> QED BY <1>1, <3>1, <3>3, SessionsOne
    <2>3. ASSUME \/ HookRead(s) \/ HookLink(s)
                 \/ HookComplete(s) /\ ~Completes(s)
          PROVE  SessionsCalm
      BY <1>4, <2>3 DEF HookRead, HookLink, HookComplete
    <2>4. ASSUME HookBundle(s), UNCHANGED purchases PROVE SessionsCalm
      BY <1>4, <2>4 DEF HookBundle
    <2> QED BY <2>1, <2>2, <2>3, <2>4
  <1>6. DocsCalm
    <2>1. ASSUME HookLink(s) PROVE DocsCalm
      <3> DEFINE p == sessions[s].purchase
                 d == [purchases[p] EXCEPT !.linked = TRUE]
      <3>1. purchases' = [purchases EXCEPT ![p] = d]
        BY <2>1 DEF HookLink
      <3>2. p \in DOMAIN purchases => purchases[p] \in Purchase
        BY <1>1, Typed
      <3>3. p \in DOMAIN purchases =>
              /\ d \in Purchase /\ d.codes = purchases[p].codes
              /\ d.status = purchases[p].status /\ d.codes \in Nat
        BY <3>2 DEF Purchase
      <3> HIDE DEF p, d
      <3>4. p \in DOMAIN purchases =>
              /\ d \in Purchase /\ d.codes <= purchases[p].codes
              /\ d.status = purchases[p].status
        BY <3>3
      <3> QED BY <1>1, <3>1, <3>4, DocsOne
    <2> QED BY <1>2, <2>1 DEF Pay, HookRead, HookFail, HookComplete, HookBundle
  <1> QED BY <1>1, <1>3, <1>5, <1>6, OthersAreCalm

(* The documents and the sessions after a completion or a bundle code.     *)
LEMMA HookKeepsShapes ==
  ASSUME Inv, NEW s \in DOMAIN sessions, NEW d \in Purchase, NEW from,
         NEW to \in {"bundle", "link"}, Hook(s, from, to), UNCHANGED tickets,
         purchases' = [purchases EXCEPT ![sessions[s].purchase] = d]
  PROVE  /\ Shapes' /\ Names'
         /\ DOMAIN purchases' = DOMAIN purchases /\ DOMAIN sessions' = DOMAIN sessions
         /\ \A r \in DOMAIN sessions :
              /\ sessions'[r].purchase = sessions[r].purchase
              /\ sessions'[r].hook = IF r = s THEN to ELSE sessions[r].hook
  <1> DEFINE e == [sessions[s] EXCEPT !.hook = to]
  <1>1. Shapes /\ Names
    BY DEF Inv
  <1>2. sessions' = [sessions EXCEPT ![s] = e] /\ UNCHANGED <<request, at, hold>>
    BY DEF Hook
  <1>3. sessions[s] \in Session
    BY <1>1, Typed
  <1>4. e \in Session /\ e.purchase = sessions[s].purchase /\ e.hook = to
    BY <1>3 DEF Session
  <1> HIDE DEF e
  <1>5. /\ purchases' \in [DOMAIN purchases -> Purchase]
        /\ sessions' \in [DOMAIN sessions -> Session]
    BY <1>1, <1>2, <1>4, Typed
  <1>6. /\ purchases' \in Seq(Purchase) /\ DOMAIN purchases' = DOMAIN purchases
        /\ sessions' \in Seq(Session) /\ DOMAIN sessions' = DOMAIN sessions
    BY <1>1, <1>5, SameLength DEF Shapes
  <1>7. \A r \in DOMAIN sessions :
          /\ sessions'[r].purchase = sessions[r].purchase
          /\ sessions'[r].hook = IF r = s THEN to ELSE sessions[r].hook
    BY <1>2, <1>4
  <1> QED BY <1>1, <1>2, <1>6, <1>7 DEF Shapes, Names

(* Pending becomes completed: the first webhook to get here is the only    *)
(* one that fulfils, because the others found the purchase pending too.    *)
LEMMA CompletionKeeps ==
  ASSUME Inv, NEW s \in DOMAIN sessions, HookComplete(s), Completes(s), UNCHANGED refundVars
  PROVE  /\ Inv'
         /\ \A p \in DOMAIN purchases :
              purchases[p].status # "pending" => purchases'[p].status # "pending"
  <1> DEFINE p == sessions[s].purchase
  <1> PICK payment \in {s, 0} :
        /\ Hook(s, "complete", "bundle")
        /\ purchases' = [purchases EXCEPT ![p] =
             [purchases[p] EXCEPT !.status = "completed", !.session = s, !.intent = payment,
                                  !.late = FALSE, !.version = purchases[p].version + 1]]
    BY DEF HookComplete, Completes
  <1> DEFINE d1 == [purchases[p] EXCEPT !.status = "completed", !.session = s]
             d2 == [d1 EXCEPT !.intent = payment, !.late = FALSE]
             d == [d2 EXCEPT !.version = purchases[p].version + 1]
  <1>1. /\ p \in DOMAIN purchases /\ purchases[p] \in Purchase /\ s \in Nat
        /\ purchases[p].status = "pending" /\ UNCHANGED tickets
    BY Typed DEF Inv, Names, Completes, refundVars
  <1>2. purchases[p].codes = 0 /\ purchases[p].version + 1 \in Nat
    BY <1>1 DEF Purchase, Inv, Once
  <1>3. purchases' = [purchases EXCEPT ![p] = d]
    OBVIOUS
  <1>4. d1 \in Purchase /\ d1.codes = 0 /\ d1.status = "completed"
    BY <1>1, <1>2 DEF Purchase, Statuses
  <1> HIDE DEF d1
  <1>5. d2 \in Purchase /\ d2.codes = 0 /\ d2.status = "completed"
    BY <1>1, <1>4 DEF Purchase
  <1> HIDE DEF d2
  <1>6. d \in Purchase /\ d.codes = 0 /\ d.status = "completed"
    BY <1>2, <1>5 DEF Purchase
  <1> HIDE DEF d
  <1>7. /\ Shapes' /\ Names'
        /\ DOMAIN purchases' = DOMAIN purchases /\ DOMAIN sessions' = DOMAIN sessions
        /\ \A r \in DOMAIN sessions :
             /\ sessions'[r].purchase = sessions[r].purchase
             /\ sessions'[r].hook = IF r = s THEN "bundle" ELSE sessions[r].hook
    BY <1>1, <1>3, <1>6, HookKeepsShapes
  <1>8. \A q \in DOMAIN purchases : purchases'[q] = IF q = p THEN d ELSE purchases[q]
    BY <1>3
  <1>9. \A r \in DOMAIN sessions : Fulfils(r) => sessions[r].purchase # p
    BY <1>1 DEF Inv, Once
  <1>10. ASSUME NEW q \in DOMAIN purchases'
         PROVE  purchases'[q].codes <= 1 /\ (purchases'[q].status = "pending" => purchases'[q].codes = 0)
    <2>1. CASE q = p
      <3>1. purchases'[q] = d
        BY <1>7, <1>8, <2>1
      <3>2. d.codes = 0 /\ d.status # "pending"
        BY <1>6
      <3> QED BY ONLY <3>1, <3>2
    <2>2. CASE q # p
      BY <1>7, <1>8, <2>2 DEF Inv, Once
    <2> QED BY <2>1, <2>2
  <1>11. ASSUME NEW r \in DOMAIN sessions', Fulfils(r)'
         PROVE  /\ purchases'[sessions'[r].purchase].status # "pending"
                /\ purchases'[sessions'[r].purchase].codes = 0
                /\ \A t \in DOMAIN sessions' :
                     Fulfils(t)' /\ sessions'[t].purchase = sessions'[r].purchase => t = r
    <2>1. \A t \in DOMAIN sessions : Fulfils(t)' => t = s \/ Fulfils(t)
      BY <1>7 DEF Fulfils
    <2>2. \A t \in DOMAIN sessions : sessions[t].purchase \in DOMAIN purchases
      BY DEF Inv, Names
    <2>3. CASE r = s
      BY <1>6, <1>7, <1>8, <1>9, <2>1, <2>2, <2>3
    <2>4. CASE r # s
      BY <1>7, <1>8, <1>9, <1>11, <2>1, <2>2, <2>4 DEF Inv, Once
    <2> QED BY <2>3, <2>4
  <1>12. Once'
    BY <1>10, <1>11 DEF Once
  <1> QED BY <1>6, <1>7, <1>8, <1>12 DEF Inv

(* The bundle code is created by the only webhook that fulfils.            *)
LEMMA BundleKeeps ==
  ASSUME Inv, NEW s \in DOMAIN sessions, Hook(s, "bundle", "link"), UNCHANGED refundVars,
         purchases' = [purchases EXCEPT ![sessions[s].purchase].codes = @ + 1]
  PROVE  /\ Inv'
         /\ \A p \in DOMAIN purchases :
              purchases[p].status # "pending" => purchases'[p].status # "pending"
  <1> DEFINE p == sessions[s].purchase
             d == [purchases[p] EXCEPT !.codes = purchases[p].codes + 1]
  <1>1. /\ p \in DOMAIN purchases /\ purchases[p] \in Purchase /\ UNCHANGED tickets
        /\ Fulfils(s) /\ purchases[p].status # "pending" /\ purchases[p].codes = 0
    BY Typed DEF Inv, Names, Once, refundVars, Hook, Fulfils
  <1>2. purchases' = [purchases EXCEPT ![p] = d]
    OBVIOUS
  <1>3. d \in Purchase /\ d.codes = 1 /\ d.status = purchases[p].status
    BY <1>1 DEF Purchase
  <1> HIDE DEF d
  <1>4. /\ Shapes' /\ Names'
        /\ DOMAIN purchases' = DOMAIN purchases /\ DOMAIN sessions' = DOMAIN sessions
        /\ \A r \in DOMAIN sessions :
             /\ sessions'[r].purchase = sessions[r].purchase
             /\ sessions'[r].hook = IF r = s THEN "link" ELSE sessions[r].hook
    BY <1>1, <1>2, <1>3, HookKeepsShapes
  <1>5. \A q \in DOMAIN purchases : purchases'[q] = IF q = p THEN d ELSE purchases[q]
    BY <1>2
  <1>6. \A r \in DOMAIN sessions : Fulfils(r) /\ sessions[r].purchase = p => r = s
    BY <1>1 DEF Inv, Once
  <1>7. ASSUME NEW q \in DOMAIN purchases'
        PROVE  purchases'[q].codes <= 1 /\ (purchases'[q].status = "pending" => purchases'[q].codes = 0)
    BY <1>1, <1>3, <1>4, <1>5 DEF Inv, Once
  <1>8. ASSUME NEW r \in DOMAIN sessions', Fulfils(r)'
        PROVE  /\ purchases'[sessions'[r].purchase].status # "pending"
               /\ purchases'[sessions'[r].purchase].codes = 0
               /\ \A t \in DOMAIN sessions' :
                    Fulfils(t)' /\ sessions'[t].purchase = sessions'[r].purchase => t = r
    <2>1. \A t \in DOMAIN sessions : Fulfils(t)' => t # s /\ Fulfils(t)
      BY <1>4 DEF Fulfils
    <2>2. sessions[r].purchase \in DOMAIN purchases /\ sessions[r].purchase # p
      BY <1>4, <1>6, <1>8, <2>1 DEF Inv, Names
    <2> QED BY <1>4, <1>5, <1>8, <2>1, <2>2 DEF Inv, Once
  <1>9. Once'
    BY <1>7, <1>8 DEF Once
  <1> QED BY <1>1, <1>3, <1>4, <1>5, <1>9 DEF Inv

-----------------------------------------------------------------------------
(* The clean-ups and the passing of a month.                               *)
LEMMA CleanupIsCalm ==
  ASSUME Inv, NEW p \in DOMAIN purchases, Cleanup(p), UNCHANGED refundVars
  PROVE  Calm
  <1>1. Shapes /\ Names
    BY DEF Inv
  <1>2. DocsCalm /\ SessionsCalm /\ TicketsFine
    BY <1>1, DocsDeleted, SessionsSame, TicketsSame DEF Cleanup, refundVars
  <1> QED BY <1>2, OthersAreCalm DEF Cleanup

LEMMA ExpiryIsCalm ==
  ASSUME Inv, NEW t \in DOMAIN tickets, ExpireTicket(t)
  PROVE  Calm
  <1>1. Shapes /\ Names
    BY DEF Inv
  <1>2. DocsCalm /\ SessionsCalm /\ UNCHANGED <<request, at, hold>>
    BY <1>1, DocsSame, SessionsSame DEF ExpireTicket, purchaseVars
  <1>3. ASSUME NEW status \in {"expired", "deleted"},
               tickets' = [tickets EXCEPT ![t].status = status]
        PROVE  TicketsFine
    <2> DEFINE d == [tickets[t] EXCEPT !.status = status]
    <2>1. tickets' = [tickets EXCEPT ![t] = d]
      BY <1>3
    <2>2. tickets[t] \in Ticket
      BY <1>1, Typed
    <2>3. d \in Ticket /\ d.purchase = tickets[t].purchase
      BY <2>2 DEF Ticket
    <2> HIDE DEF d
    <2> QED BY <1>1, <2>1, <2>3, TicketsOne
  <1>4. TicketsFine
    BY <1>3 DEF ExpireTicket
  <1> QED BY <1>2, <1>4, OthersAreCalm

LEMMA PeriodIsCalm ==
  ASSUME Inv, Period
  PROVE  Calm
  <1>1. Shapes /\ Names
    BY DEF Inv
  <1>2. \A p \in DOMAIN purchases :
          /\ [purchases[p] EXCEPT !.old = TRUE, !.late = TRUE] \in Purchase
          /\ purchases'[p].codes = purchases[p].codes /\ purchases[p].codes \in Nat
          /\ purchases'[p].status = purchases[p].status
    <2> SUFFICES ASSUME NEW p \in DOMAIN purchases
                 PROVE  /\ [purchases[p] EXCEPT !.old = TRUE, !.late = TRUE] \in Purchase
                        /\ purchases'[p].codes = purchases[p].codes
                        /\ purchases[p].codes \in Nat
                        /\ purchases'[p].status = purchases[p].status
      OBVIOUS
    <2>1. purchases[p] \in Purchase
      BY <1>1, Typed
    <2>2. purchases'[p] = [purchases[p] EXCEPT !.old = TRUE, !.late = TRUE]
      BY DEF Period, Age
    <2> QED BY <2>1, <2>2 DEF Purchase
  <1>3. purchases' = [p \in DOMAIN purchases |->
                        [purchases[p] EXCEPT !.old = TRUE, !.late = TRUE]]
    BY DEF Period, Age
  <1>4. purchases' \in [DOMAIN purchases -> Purchase]
    BY <1>2, <1>3
  <1>5. purchases' \in Seq(Purchase) /\ DOMAIN purchases' = DOMAIN purchases
    BY <1>1, <1>4, SameLength DEF Shapes
  <1>6. DocsCalm
    <2>1. \A p \in DOMAIN purchases :
            /\ purchases'[p].codes <= purchases[p].codes
            /\ purchases'[p].status = purchases[p].status
      <3> SUFFICES ASSUME NEW p \in DOMAIN purchases
                   PROVE  /\ purchases'[p].codes <= purchases[p].codes
                          /\ purchases'[p].status = purchases[p].status
        OBVIOUS
      <3>1. /\ purchases'[p].codes = purchases[p].codes /\ purchases[p].codes \in Nat
            /\ purchases'[p].status = purchases[p].status
        BY <1>2
      <3> QED BY <3>1
    <2> QED BY <1>5, <2>1 DEF DocsCalm
  <1>7. \A s \in DOMAIN sessions :
          /\ sessions'[s] \in Session
          /\ sessions'[s].purchase = sessions[s].purchase
          /\ sessions'[s].hook = sessions[s].hook
    <2> SUFFICES ASSUME NEW s \in DOMAIN sessions
                 PROVE  /\ sessions'[s] \in Session
                        /\ sessions'[s].purchase = sessions[s].purchase
                        /\ sessions'[s].hook = sessions[s].hook
      OBVIOUS
    <2> DEFINE status == IF sessions[s].status \in {"created", "open"}
                         THEN "expired" ELSE sessions[s].status
    <2>1. sessions[s] \in Session
      BY <1>1, Typed
    <2>2. sessions'[s] = [sessions[s] EXCEPT !.status = status]
      BY DEF Period, Age
    <2>3. status \in {"created", "open", "expired", "paid"}
      BY <2>1 DEF Session
    <2> HIDE DEF status
    <2> QED BY <2>1, <2>2, <2>3 DEF Session
  <1>8. sessions' = [s \in DOMAIN sessions |-> sessions'[s]]
    BY DEF Period, Age
  <1>9. sessions' \in [DOMAIN sessions -> Session]
    BY <1>7, <1>8
  <1>10. sessions' \in Seq(Session) /\ DOMAIN sessions' = DOMAIN sessions
    BY <1>1, <1>9, SameLength DEF Shapes
  <1>11. SessionsCalm
    BY <1>7, <1>10 DEF SessionsCalm
  <1>12. \A t \in DOMAIN tickets :
           /\ [tickets[t] EXCEPT !.due = TRUE] \in Ticket
           /\ [tickets[t] EXCEPT !.due = TRUE].purchase = tickets[t].purchase
    BY <1>1, Typed DEF Ticket
  <1>13. tickets' = [t \in DOMAIN tickets |-> [tickets[t] EXCEPT !.due = TRUE]]
    BY DEF Period
  <1>14. tickets' \in [DOMAIN tickets -> Ticket]
    BY <1>12, <1>13
  <1>15. tickets' \in Seq(Ticket) /\ DOMAIN tickets' = DOMAIN tickets
    BY <1>1, <1>14, SameLength DEF Shapes
  <1>16. TicketsFine
    BY <1>1, <1>12, <1>13, <1>15 DEF TicketsFine, Names
  <1> QED BY <1>6, <1>11, <1>16, OthersAreCalm DEF Period, Age

(* A call that stops half-way holds what it held.                          *)
LEMMA FailureIsCalm ==
  ASSUME Inv, NEW c \in Calls, Fail(c)
  PROVE  Calm
  <1>1. Shapes /\ Names
    BY DEF Inv
  <1>2. DocsCalm /\ SessionsCalm /\ TicketsFine
    BY <1>1, DocsSame, SessionsSame, TicketsSame DEF Fail, storeVars, refundVars
  <1>3. CallsFine
    BY <1>1 DEF Fail, storeVars, CallsFine, Shapes, Names, Named
  <1> QED BY <1>2, <1>3 DEF Calm

-----------------------------------------------------------------------------
LEMMA Starts == Init => Inv
  <1> SUFFICES ASSUME Init PROVE Inv
    OBVIOUS
  <1> PICK start \in Scenarios :
        purchases = start.purchases /\ sessions = start.sessions /\ request = start.request
    BY DEF Init, PurchaseInit
  <1>1. hold \in [Calls -> Held] /\ DOMAIN at = Calls /\ tickets = <<>>
    BY NothingHeld DEF Init, PurchaseInit
  <1>2. tickets \in Seq(Ticket) /\ DOMAIN tickets = {}
    BY <1>1, EmptySeq, LenProperties
  <1>3. Shapes
    BY <1>1, <1>2, ScenariosAssumption DEF Shapes
  <1>4. \A c \in Calls : at[c] \notin Named
    BY DEF Init, PurchaseInit, Named
  <1>5. Names
    BY <1>2, <1>4, ScenariosAssumption DEF Names
  <1>6. Once
    BY ScenariosAssumption DEF Once, Fulfils
  <1> QED BY <1>3, <1>5, <1>6 DEF Inv

LEMMA StepKeeps ==
  ASSUME Inv, [Next]_vars
  PROVE  /\ Inv'
         /\ \A p \in DOMAIN purchases :
              purchases[p].status # "pending" => purchases'[p].status # "pending"
  <1>1. Calm => /\ Inv'
                /\ \A p \in DOMAIN purchases :
                     purchases[p].status # "pending" => purchases'[p].status # "pending"
    BY CalmKeeps DEF Calm, DocsCalm
  <1>2. CASE UNCHANGED vars
    BY <1>2 DEF vars, purchaseVars, refundVars, Inv, Shapes, Names, Once, Fulfils
  <1>3. ASSUME NEW c \in Calls, Step(c) PROVE Calm
    <2>1. ASSUME PurchaseStep(c), UNCHANGED refundVars PROVE Calm
      BY <2>1, CheckoutIsCalm, RetryIsCalm DEF PurchaseStep, refundVars
    <2> QED BY <1>3, <2>1, RefundIsCalm, TicketIsCalm DEF Step
  <1>4. ASSUME NEW s \in DOMAIN sessions, UNCHANGED refundVars,
               Pay(s) \/ HookRead(s) \/ Webhook(s) \/ HookFail(s)
        PROVE  /\ Inv'
               /\ \A p \in DOMAIN purchases :
                    purchases[p].status # "pending" => purchases'[p].status # "pending"
    <2>1. CASE HookComplete(s) /\ Completes(s)
      BY <1>4, <2>1, CompletionKeeps
    <2>2. CASE Hook(s, "bundle", "link")
               /\ purchases' = [purchases EXCEPT ![sessions[s].purchase].codes = @ + 1]
      BY <1>4, <2>2, BundleKeeps
    <2>3. CASE HookBundle(s) /\ UNCHANGED purchases
      BY <1>1, <1>4, <2>3, WebhookIsCalm
    <2>4. CASE \/ Pay(s) \/ HookRead(s) \/ HookLink(s) \/ HookFail(s)
               \/ HookComplete(s) /\ ~Completes(s)
      BY <1>1, <1>4, <2>4, WebhookIsCalm
    <2>5. HookBundle(s) => \/ HookBundle(s) /\ UNCHANGED purchases
                           \/ /\ Hook(s, "bundle", "link")
                              /\ purchases' = [purchases EXCEPT ![sessions[s].purchase].codes = @ + 1]
      BY DEF HookBundle
    <2> QED BY <1>4, <2>1, <2>2, <2>3, <2>4, <2>5 DEF Webhook
  <1>5. ASSUME NEW s \in DOMAIN sessions,
               NoticeRead(s) \/ Notice(s) \/ NoticeOther(s) \/ NoticeFail(s)
        PROVE  Calm
    BY <1>5, NoticeIsCalm
  <1>6. ASSUME NEW s \in DOMAIN sessions, Settle(s) PROVE Calm
    <2>1. DocsCalm /\ SessionsCalm /\ TicketsFine
      BY <1>6, DocsSame, SessionsSame, TicketsSame DEF Inv, Settle, purchaseVars
    <2> QED BY <1>6, <2>1, OthersAreCalm DEF Settle, purchaseVars
  <1>7. CASE Progress
    BY <1>1, <1>3, <1>4, <1>5, <1>6, <1>7, CleanupIsCalm, ExpiryIsCalm, PeriodIsCalm DEF Progress
  <1>8. ASSUME NEW c \in Calls, Fail(c) PROVE Calm
    BY <1>8, FailureIsCalm
  <1> QED BY <1>1, <1>2, <1>5, <1>7, <1>8 DEF Next

(* "Duplicate webhook delivery cannot duplicate fulfillment": of whatever  *)
(* number of sessions of a purchase, however often their events come and   *)
(* wherever the deliveries stop, at most one bundle code is created.       *)
THEOREM FulfilledOnceHolds == Spec => []FulfilledOnce
  <1>1. Inv => FulfilledOnce
    <2> SUFFICES ASSUME Inv, NEW p \in DOMAIN purchases PROVE purchases[p].codes <= 1
      BY DEF FulfilledOnce
    <2>1. purchases[p].codes \in Nat
      BY Typed DEF Inv, Purchase
    <2> QED BY <2>1 DEF Inv, Once
  <1>2. Inv /\ [Next]_vars => Inv'
    BY StepKeeps
  <1> QED BY Starts, <1>1, <1>2, PTL DEF Spec

(* A purchase that has been paid, refunded or deleted is never pending     *)
(* again, whatever refunds, reports and cancellations do to it later.      *)
THEOREM PendingOnlyOnce == Spec => NeverPendingAgain
  <1>1. Inv /\ [Next]_vars => Inv'
    BY StepKeeps
  <1>2. Inv /\ [Next]_vars =>
          [\A p \in DOMAIN purchases :
             purchases[p].status # "pending" => purchases'[p].status # "pending"]_vars
    BY StepKeeps
  <1> QED BY Starts, <1>1, <1>2, PTL DEF Spec, NeverPendingAgain

-----------------------------------------------------------------------------
(* Second part: the places of class representatives.                       *)
(*                                                                         *)
(* The count covers, beside the purchases that show a place, the places    *)
(* whose return is still to come: a call that has read a purchase owes its *)
(* place until it has given it back, even if the purchase is deleted under *)
(* its hands.  Who is forestalled owes a place that is not counted any     *)
(* more: it does no harm until it gives the place back, and then it has    *)
(* collided.  So the purchases, the debts of the others and the            *)
(* reservations together never exceed the count.                           *)
CallCounts(c) == CallOwes(c) /\ <<"call", c>> \notin forestalled
NoticeCounts(s) == NoticeOwes(s) /\ <<"notice", s>> \notin forestalled

Places ==
  {p \in DOMAIN purchases :
     \/ p \in Holders \ Leaving
     \/ \E c \in Calls : CallCounts(c) /\ hold[c].purchase = p
     \/ \E s \in DOMAIN sessions : NoticeCounts(s) /\ Paid(s) = p}

Reserved == {c \in Calls : at[c] = "create" /\ request[c].rep}

Covered == ~collided => Cardinality(Places) + Cardinality(Reserved) <= count

(* The steps of a call that must agree with the purchase it holds.         *)
Bound == Returning \union Unrecorded

(* A document names sessions that exist; one that is pending has no payment*)
(* and is enrolled.                                                        *)
DocFine(d) ==
  /\ d.session \in 0 .. Len(sessions) /\ d.intent \in 0 .. Len(sessions)
  /\ d.status = "pending" => d.intent = 0 /\ ~d.unenrolled

Note ==
  [step : {"idle", "return", "save", "codes"}, rep : BOOLEAN, unenrolled : BOOLEAN,
   linked : BOOLEAN, again : BOOLEAN]

(* Requests for refunds are about purchases that were paid.                *)
World ==
  /\ \A p \in DOMAIN purchases : DocFine(purchases[p])
  /\ Len(sessions) <= MaxSessions
  /\ count \in Int /\ count <= Limit
  /\ refund \in [Payments -> {"none", "pending"} \union Outcomes]
  /\ notice \in [Payments -> Note]
  /\ \A t \in DOMAIN tickets : purchases[tickets[t].purchase].status # "pending"

(* The steps of a call that has read a pending or a new purchase; those of *)
(* one that ends the enrollment only.                                      *)
Fresh == {"expire", "return", "cancel_return", "session", "bind", "undo", "undo_return"}
Settling == {"ask", "ask_create", "leave_return", "leave_save", "decide_return", "decide_save"}

(* What a call has read may be stale, but not in what decides about the    *)
(* place: it is the purchase's from the beginning, and ends once.          *)
CallFine(c) ==
  LET p == hold[c].purchase IN
  /\ p <= Len(purchases) /\ hold[c].session <= Len(sessions)
  /\ at[c] \in Settling => p \in DOMAIN purchases /\ purchases[p].status # "pending"
  /\ at[c] \in Bound =>
       /\ p \in DOMAIN purchases /\ hold[c].rep = purchases[p].rep
       /\ hold[c].unenrolled => purchases[p].unenrolled
       /\ at[c] \in Fresh => ~hold[c].unenrolled
       /\ at[c] = "undo_return" => ~Exists(p)

NoticeFine(s) ==
  notice[s].step \in {"return", "save"} =>
    /\ s \in DOMAIN sessions
    /\ notice[s].rep = purchases[Paid(s)].rep
    /\ notice[s].unenrolled => purchases[Paid(s)].unenrolled
    /\ notice[s].again => purchases[Paid(s)].status # "pending"

IInv ==
  /\ Inv
  /\ World
  /\ \A c \in Calls : CallFine(c)
  /\ \A s \in Payments : NoticeFine(s)
  /\ Covered

-----------------------------------------------------------------------------
(* What steps do to the documents and sessions that are there.             *)
Steady(d, e) ==
  /\ e.rep = d.rep
  /\ d.unenrolled => e.unenrolled
  /\ d.status = "deleted" => e.status = "deleted"
  /\ d.status # "pending" => e.status # "pending"
  /\ e.status = "pending" => e.intent = d.intent /\ e.unenrolled = d.unenrolled
  /\ e.session = d.session \/ e.session \in 0 .. Len(sessions')
  /\ e.intent = d.intent \/ e.intent \in 0 .. Len(sessions')

DocsKept ==
  /\ Len(purchases) <= Len(purchases')
  /\ \A p \in DOMAIN purchases : Steady(purchases[p], purchases'[p])

DocsSteady == DocsKept /\ DOMAIN purchases' = DOMAIN purchases

SessionsSteady ==
  /\ Len(sessions) <= Len(sessions') /\ Len(sessions') <= MaxSessions
  /\ \A s \in DOMAIN sessions : sessions'[s].purchase = sessions[s].purchase

TicketsSettled ==
  \A t \in DOMAIN tickets' :
    tickets'[t].purchase \in DOMAIN purchases /\ purchases[tickets'[t].purchase].status # "pending"

Refunds == refund' \in [Payments -> {"none", "pending"} \union Outcomes]

(* Of the calls, only c moves.                                             *)
Framed(c) ==
  /\ request' = request
  /\ \A d \in Calls \ {c} : at'[d] = at[d] /\ hold'[d] = hold[d]

(* A step that gives back no place: c owes what it owed, or for a purchase *)
(* it has just read, and what it did not record it has recorded now.       *)
Quiet(c) ==
  /\ count' = count
  /\ at'[c] = "create" => at[c] = "create"
  /\ CallOwes(c)' =>
       \/ hold'[c].purchase \in Holders /\ at[c] \notin Bound
       \/ CallOwes(c) /\ hold'[c].purchase = hold[c].purchase
  /\ at[c] \in Unrecorded => collided' \/ hold[c].purchase \notin Holders'

GivesBack(c) ==
  /\ at[c] \in Returning /\ at'[c] \notin Returning \union {"create"} /\ hold'[c] = hold[c]
  /\ GiveBack(Owed(hold[c]))
  /\ at'[c] \in Unrecorded \/ hold[c].purchase \notin Holders'

Reserves(c) ==
  /\ at[c] = "reserve" /\ at'[c] = "create" /\ hold'[c] = hold[c]
  /\ count' = (IF request[c].rep THEN count + 1 ELSE count) /\ count' <= Limit

CallMoves(c) ==
  /\ DocsSteady /\ SessionsSteady /\ TicketsSettled /\ Refunds
  /\ notice' = notice
  /\ Framed(c) /\ CallFine(c)'
  /\ Quiet(c) \/ GivesBack(c) \/ Reserves(c)

-----------------------------------------------------------------------------
LEMMA Lengths ==
  ASSUME Inv
  PROVE  /\ Len(purchases) \in Nat /\ DOMAIN purchases = 1 .. Len(purchases)
         /\ Len(sessions) \in Nat /\ DOMAIN sessions = 1 .. Len(sessions)
         /\ Limit \in Nat /\ MaxSessions \in Nat /\ IsFiniteSet(Calls)
  BY LenProperties, PurchasesAssumption DEF Inv, Shapes

(* Whatever happens to the documents, calls and webhooks that do not move  *)
(* stay fine, and so do the documents.                                     *)
LEMMA OthersStayFine ==
  ASSUME IInv, Inv', DocsKept, SessionsSteady
  PROVE  /\ \A d \in Calls : at'[d] = at[d] /\ hold'[d] = hold[d] => CallFine(d)'
         /\ \A s \in Payments : notice'[s] = notice[s] => NoticeFine(s)'
         /\ \A p \in DOMAIN purchases : DocFine(purchases[p])'
         /\ DOMAIN purchases \subseteq DOMAIN purchases'
         /\ DOMAIN sessions \subseteq DOMAIN sessions'
  <1>1. /\ Len(purchases) \in Nat /\ DOMAIN purchases = 1 .. Len(purchases)
        /\ Len(sessions) \in Nat /\ DOMAIN sessions = 1 .. Len(sessions)
        /\ Len(purchases') \in Nat /\ DOMAIN purchases' = 1 .. Len(purchases')
        /\ Len(sessions') \in Nat /\ DOMAIN sessions' = 1 .. Len(sessions')
    <2>1. /\ Len(purchases') \in Nat /\ DOMAIN purchases' = 1 .. Len(purchases')
          /\ Len(sessions') \in Nat /\ DOMAIN sessions' = 1 .. Len(sessions')
      BY LenProperties DEF Inv, Shapes
    <2> QED BY <2>1, Lengths DEF IInv
  <1>2. DOMAIN purchases \subseteq DOMAIN purchases' /\ DOMAIN sessions \subseteq DOMAIN sessions'
    BY <1>1 DEF DocsKept, SessionsSteady
  <1>3. ASSUME NEW d \in Calls, at'[d] = at[d], hold'[d] = hold[d] PROVE CallFine(d)'
    <2>1. hold[d].purchase \in Nat /\ hold[d].session \in Nat
      BY DEF IInv, Inv, Shapes, Held
    <2>2. CallFine(d)
      BY DEF IInv
    <2>3. hold'[d].purchase <= Len(purchases') /\ hold'[d].session <= Len(sessions')
      BY <1>1, <1>3, <2>1, <2>2 DEF CallFine, DocsKept, SessionsSteady
    <2> QED BY <1>2, <1>3, <2>2, <2>3 DEF CallFine, DocsKept, Steady, Exists
  <1>4. ASSUME NEW s \in Payments, notice'[s] = notice[s] PROVE NoticeFine(s)'
    <2>1. NoticeFine(s)
      BY DEF IInv
    <2>2. s \in DOMAIN sessions => sessions[s].purchase \in DOMAIN purchases
      BY DEF IInv, Inv, Names
    <2> QED BY <1>2, <1>4, <2>1, <2>2 DEF NoticeFine, Paid, DocsKept, SessionsSteady, Steady
  <1>5. ASSUME NEW p \in DOMAIN purchases PROVE DocFine(purchases[p])'
    <2>1. DocFine(purchases[p])
      BY DEF IInv, World
    <2> QED BY <1>1, <2>1 DEF DocFine, DocsKept, SessionsSteady, Steady
  <1> QED BY <1>2, <1>3, <1>4, <1>5

(* All that does not count places survives a step of a call.               *)
LEMMA WorldStays ==
  ASSUME IInv, Inv', DocsSteady, SessionsSteady, TicketsSettled, Refunds,
         notice' \in [Payments -> Note], count' \in Int, count' <= Limit
  PROVE  World'
  <1>1. \A p \in DOMAIN purchases' : DocFine(purchases[p])'
    BY OthersStayFine DEF DocsSteady
  <1>2. \A t \in DOMAIN tickets' : purchases'[tickets'[t].purchase].status # "pending"
    BY DEF TicketsSettled, DocsSteady, DocsKept, Steady
  <1> QED BY <1>1, <1>2 DEF World, SessionsSteady, Refunds

-----------------------------------------------------------------------------
(* The places after a step.                                                *)
LEMMA PlacesAreFinite ==
  ASSUME Inv
  PROVE  /\ IsFiniteSet(Places) /\ Cardinality(Places) \in Nat
         /\ IsFiniteSet(Reserved) /\ Cardinality(Reserved) \in Nat
  <1>1. Places \subseteq 1 .. Len(purchases) /\ Reserved \subseteq Calls
    BY Lengths DEF Places, Reserved
  <1>2. IsFiniteSet(1 .. Len(purchases)) /\ IsFiniteSet(Calls)
    BY Lengths, FS_Interval
  <1> QED BY <1>1, <1>2, FS_Subset, FS_CardinalityType

(* A step after which nobody has or owes a place that was not counted.     *)
Shrinks ==
  /\ Holders' \subseteq Holders
  /\ \A p \in Leaving : p \in Leaving' \/ p \notin Holders'
  /\ \A c \in Calls : CallCounts(c)' => hold'[c].purchase \in Places
  /\ \A s \in DOMAIN sessions' : NoticeCounts(s)' => sessions'[s].purchase \in Places

LEMMA PlacesShrink ==
  ASSUME Shrinks
  PROVE  Places' \subseteq Places
  <1> SUFFICES ASSUME NEW p \in Places' PROVE p \in Places
    OBVIOUS
  <1>1. CASE p \in Holders' /\ p \notin Leaving'
    BY <1>1 DEF Shrinks, Places, Holders
  <1>2. CASE \E c \in Calls : CallCounts(c)' /\ hold'[c].purchase = p
    BY <1>2 DEF Shrinks
  <1>3. CASE \E s \in DOMAIN sessions' : NoticeCounts(s)' /\ Paid(s)' = p
    BY <1>3 DEF Shrinks, Paid
  <1> QED BY <1>1, <1>2, <1>3 DEF Places

LEMMA HoldersShrink == DocsSteady => Holders' \subseteq Holders
  BY DEF DocsSteady, DocsKept, Steady, Holders, Exists

(* What the observation tells: a debtor that is forestalled stays so, and  *)
(* so is one that reads a purchase whose place has gone back, or whose     *)
(* place goes back meanwhile; a place that a forestalled debtor gives back *)
(* is a collision.                                                         *)
Observed ==
  /\ collided => collided'
  /\ \A x \in Debtors' :
       /\ x \in forestalled => x \in forestalled'
       /\ x \notin Debtors /\ PlaceOf(x)' \in Leaving' => x \in forestalled'
       /\ count' < count =>
            \A y \in Debtors \ Debtors' : PlaceOf(x)' = PlaceOf(y) => x \in forestalled'
  /\ count' < count => \A y \in forestalled : y \notin Debtors' => collided'

LEMMA Observes ==
  ASSUME NEW stopped, Observe(stopped)
  PROVE  Observed /\ (stopped => collided')
  BY DEF Observe, Observed

(* The debtors by name.                                                    *)
LEMMA CallDebtor ==
  ASSUME NEW c \in Calls
  PROVE  /\ <<"call", c>> \in Debtors <=> CallOwes(c)
         /\ <<"call", c>> \in Debtors' <=> CallOwes(c)'
         /\ PlaceOf(<<"call", c>>) = hold[c].purchase
         /\ PlaceOf(<<"call", c>>)' = hold'[c].purchase
  BY DEF Debtors, PlaceOf

LEMMA NoticeDebtor ==
  ASSUME NEW s
  PROVE  /\ <<"notice", s>> \in Debtors <=> s \in DOMAIN sessions /\ NoticeOwes(s)
         /\ <<"notice", s>> \in Debtors' <=> s \in DOMAIN sessions' /\ NoticeOwes(s)'
         /\ PlaceOf(<<"notice", s>>) = Paid(s)
         /\ PlaceOf(<<"notice", s>>)' = Paid(s)'
  BY DEF Debtors, PlaceOf

(* Webhooks that do not move owe what they owed.                           *)
LEMMA NoticesOwe ==
  ASSUME IInv, Inv', Observed, SessionsSteady, NEW s \in DOMAIN sessions',
         notice'[s] = notice[s], NoticeCounts(s)'
  PROVE  /\ s \in DOMAIN sessions /\ sessions'[s].purchase = sessions[s].purchase
         /\ NoticeCounts(s) /\ sessions[s].purchase \in Places
  <1>1. s \in Payments
    <2>1. Len(sessions') \in Nat /\ DOMAIN sessions' = 1 .. Len(sessions')
      BY LenProperties DEF Inv, Shapes
    <2> QED BY <2>1, Lengths DEF SessionsSteady, Payments, IInv
  <1>2. NoticeOwes(s) /\ NoticeOwes(s)'
    BY DEF NoticeCounts, NoticeOwes, Owed
  <1>3. s \in DOMAIN sessions
    BY <1>1, <1>2 DEF IInv, NoticeFine, NoticeOwes
  <1>4. sessions[s].purchase \in DOMAIN purchases /\ sessions'[s].purchase = sessions[s].purchase
    BY <1>3 DEF IInv, Inv, Names, SessionsSteady
  <1>5. NoticeCounts(s)
    BY <1>2, NoticeDebtor DEF NoticeCounts, Observed
  <1> QED BY <1>3, <1>4, <1>5 DEF Places, Paid

(* And so do calls that do not move.                                       *)
LEMMA CallsOwe ==
  ASSUME IInv, Observed, NEW c \in Calls, CallCounts(c)', CallOwes(c),
         hold'[c].purchase = hold[c].purchase
  PROVE  hold'[c].purchase \in Places
  <1>1. at[c] \in Bound /\ CallFine(c)
    BY DEF IInv, CallOwes, Bound
  <1>2. hold[c].purchase \in DOMAIN purchases
    BY <1>1 DEF CallFine
  <1>3. CallCounts(c)
    BY CallDebtor DEF CallCounts, Observed
  <1> QED BY <1>2, <1>3 DEF Places

LEMMA CallStays ==
  ASSUME IInv, Observed, NEW c \in Calls, CallCounts(c)', at'[c] = at[c], hold'[c] = hold[c]
  PROVE  CallOwes(c) /\ hold'[c].purchase = hold[c].purchase /\ hold'[c].purchase \in Places
  <1>1. CallOwes(c)
    BY DEF CallCounts, CallOwes, Owed
  <1> QED BY <1>1, CallsOwe


-----------------------------------------------------------------------------
(* The count covers the places after every kind of step.                   *)
LEMMA ShrinksCovers ==
  ASSUME IInv, Inv', Observed, ~collided' => Shrinks, Reserved' \subseteq Reserved,
         count' = count
  PROVE  Covered'
  <1> SUFFICES ASSUME ~collided'
               PROVE  Cardinality(Places') + Cardinality(Reserved') <= count'
    BY DEF Covered
  <1>1. ~collided /\ Places' \subseteq Places
    BY PlacesShrink DEF Observed
  <1>2. /\ IsFiniteSet(Places) /\ Cardinality(Places) \in Nat
        /\ IsFiniteSet(Reserved) /\ Cardinality(Reserved) \in Nat
    BY PlacesAreFinite DEF IInv
  <1>3. /\ Cardinality(Places') \in Nat /\ Cardinality(Places') <= Cardinality(Places)
        /\ Cardinality(Reserved') \in Nat /\ Cardinality(Reserved') <= Cardinality(Reserved)
    BY <1>1, <1>2, FS_Subset, FS_CardinalityType
  <1>4. Cardinality(Places) + Cardinality(Reserved) <= count /\ count \in Int
    BY <1>1 DEF IInv, Covered, World
  <1> QED BY <1>1, <1>2, <1>3, <1>4

(* Who does not move leaves what it left, and owes what it owed.           *)
LEMMA OthersLeave ==
  ASSUME IInv, Inv', SessionsSteady, NEW p \in Leaving,
         \A d \in Calls : at[d] \in Unrecorded /\ hold[d].purchase = p =>
           at'[d] = at[d] /\ hold'[d] = hold[d],
         \A s \in DOMAIN sessions : notice[s].step = "save" /\ Paid(s) = p => notice'[s] = notice[s]
  PROVE  p \in Leaving'
  <1>1. CASE \E d \in Calls : at[d] \in Unrecorded /\ hold[d].purchase = p
    BY <1>1 DEF Leaving
  <1>2. CASE \E s \in DOMAIN sessions : notice[s].step = "save" /\ Paid(s) = p
    <2> PICK s \in DOMAIN sessions : notice[s].step = "save" /\ Paid(s) = p
      BY <1>2
    <2>1. s \in DOMAIN sessions'
      <3>1. Len(sessions') \in Nat /\ DOMAIN sessions' = 1 .. Len(sessions')
        BY LenProperties DEF Inv, Shapes
      <3> QED BY <3>1, Lengths DEF SessionsSteady, IInv
    <2>2. notice'[s].step = "save" /\ sessions'[s].purchase = p
      BY DEF SessionsSteady, Paid
    <2> QED BY <2>1, <2>2 DEF Leaving, Paid
  <1> QED BY <1>1, <1>2 DEF Leaving

LEMMA QuietCovers ==
  ASSUME IInv, Inv', Observed, DocsSteady, SessionsSteady, notice' = notice,
         NEW c \in Calls, Framed(c), Quiet(c)
  PROVE  Covered'
  <1>1. Reserved' \subseteq Reserved
    BY DEF Framed, Quiet, Reserved
  <1>2. ASSUME ~collided' PROVE Shrinks
    <2>1. Holders' \subseteq Holders
      BY HoldersShrink
    <2>2. ASSUME NEW p \in Leaving PROVE p \in Leaving' \/ p \notin Holders'
      <3>1. CASE at[c] \in Unrecorded /\ hold[c].purchase = p
        BY <1>2, <3>1 DEF Quiet
      <3>2. CASE ~(at[c] \in Unrecorded /\ hold[c].purchase = p)
        BY <2>2, <3>2, OthersLeave DEF Framed
      <3> QED BY <3>1, <3>2
    <2>3. ASSUME NEW d \in Calls, CallCounts(d)' PROVE hold'[d].purchase \in Places
      <3>1. CASE d # c
        BY <2>3, <3>1, CallStays DEF Framed
      <3>2. CASE d = c /\ CallOwes(c) /\ hold'[c].purchase = hold[c].purchase
        BY <2>3, <3>2, CallsOwe
      <3>3. CASE d = c /\ hold'[c].purchase \in Holders /\ at[c] \notin Bound
        <4> DEFINE p == hold'[c].purchase
        <4>1. ~CallOwes(c) /\ at[c] \notin Unrecorded
          BY <3>3 DEF CallOwes, Bound
        <4>2. p \notin Leaving'
          BY <2>3, <3>3, <4>1, CallDebtor DEF CallCounts, Observed
        <4>3. p \notin Leaving
          BY <4>1, <4>2, OthersLeave DEF Framed
        <4> QED BY <3>3, <4>3 DEF Places, Holders
      <3> QED BY <2>3, <3>1, <3>2, <3>3 DEF Quiet, CallCounts
    <2>4. \A s \in DOMAIN sessions' : NoticeCounts(s)' => sessions'[s].purchase \in Places
      BY NoticesOwe
    <2> QED BY <2>1, <2>2, <2>3, <2>4 DEF Shrinks
  <1>3. count' = count
    BY DEF Quiet
  <1> QED BY <1>1, <1>2, <1>3, ShrinksCovers

(* Whoever else owes a place that is given back is forestalled, so it is   *)
(* not a place any more.                                                   *)
LEMMA GivesBackCovers ==
  ASSUME IInv, Inv', Observed, DocsSteady, SessionsSteady, notice' = notice,
         NEW c \in Calls, Framed(c), GivesBack(c)
  PROVE  Covered'
  <1>1. Reserved' \subseteq Reserved
    BY DEF Framed, GivesBack, Reserved
  <1>2. at[c] \notin Unrecorded /\ at[c] \in Bound /\ ~CallOwes(c)'
    BY DEF GivesBack, Returning, Unrecorded, Bound, CallOwes
  <1>3. ASSUME NEW d \in Calls, CallCounts(d)'
        PROVE  d # c /\ hold'[d].purchase \in Places
    <2>1. d # c
      BY <1>2, <1>3 DEF CallCounts
    <2> QED BY <1>3, <2>1, CallStays DEF Framed
  <1>4. Shrinks
    <2>1. Holders' \subseteq Holders
      BY HoldersShrink
    <2>2. ASSUME NEW p \in Leaving PROVE p \in Leaving'
      BY <1>2, <2>2, OthersLeave DEF Framed
    <2>3. \A d \in Calls : CallCounts(d)' => hold'[d].purchase \in Places
      BY <1>3
    <2>4. \A s \in DOMAIN sessions' : NoticeCounts(s)' => sessions'[s].purchase \in Places
      BY NoticesOwe
    <2> QED BY <2>1, <2>2, <2>3, <2>4 DEF Shrinks
  <1>5. CASE ~Owed(hold[c])
    BY <1>1, <1>4, <1>5, ShrinksCovers DEF GivesBack, GiveBack
  <1>6. CASE Owed(hold[c])
    <2> SUFFICES ASSUME ~collided'
                 PROVE  Cardinality(Places') + Cardinality(Reserved') <= count'
      BY DEF Covered
    <2> DEFINE p == hold[c].purchase
    <2>1. /\ ~collided /\ count' = count - 1 /\ count' < count
          /\ Cardinality(Places) + Cardinality(Reserved) <= count /\ count \in Int
      BY <1>6 DEF Observed, IInv, Covered, World, GivesBack, GiveBack
    <2>2. <<"call", c>> \in Debtors \ Debtors' /\ PlaceOf(<<"call", c>>) = p
      <3>1. CallOwes(c)
        BY <1>6 DEF CallOwes, GivesBack
      <3> QED BY <1>2, <3>1, CallDebtor
    <2>3. p \in Places
      <3>1. <<"call", c>> \notin forestalled
        BY <2>1, <2>2 DEF Observed
      <3>2. CallCounts(c)
        BY <2>2, <3>1, CallDebtor DEF CallCounts
      <3>3. p \in DOMAIN purchases
        BY <1>2 DEF IInv, CallFine
      <3> QED BY <3>2, <3>3 DEF Places
    <2>4. p \notin Places'
      <3>1. ~(p \in Holders' /\ p \notin Leaving')
        BY DEF GivesBack, Leaving
      <3>2. ASSUME NEW d \in Calls, CallCounts(d)', hold'[d].purchase = p PROVE FALSE
        <4>1. <<"call", d>> \in Debtors' /\ PlaceOf(<<"call", d>>)' = p
          BY <3>2, CallDebtor DEF CallCounts
        <4> QED BY <2>1, <2>2, <3>2, <4>1 DEF Observed, CallCounts
      <3>3. ASSUME NEW s \in DOMAIN sessions', NoticeCounts(s)', Paid(s)' = p PROVE FALSE
        <4>1. <<"notice", s>> \in Debtors' /\ PlaceOf(<<"notice", s>>)' = p
          BY <3>3, NoticeDebtor DEF NoticeCounts
        <4> QED BY <2>1, <2>2, <3>3, <4>1 DEF Observed, NoticeCounts
      <3>4. p = p'
        BY DEF GivesBack
      <3> QED BY <3>1, <3>2, <3>3, <3>4 DEF Places
    <2>5. Places' \subseteq Places \ {p}
      BY <1>4, <2>4, PlacesShrink
    <2>6. /\ IsFiniteSet(Places) /\ Cardinality(Places) \in Nat
          /\ IsFiniteSet(Reserved) /\ Cardinality(Reserved) \in Nat
      BY PlacesAreFinite DEF IInv
    <2>7. IsFiniteSet(Places \ {p}) /\ Cardinality(Places \ {p}) = Cardinality(Places) - 1
      BY <2>3, <2>6, FS_RemoveElement
    <2>8. /\ Cardinality(Places') \in Nat /\ Cardinality(Places') <= Cardinality(Places) - 1
          /\ Cardinality(Reserved') \in Nat /\ Cardinality(Reserved') <= Cardinality(Reserved)
      BY <1>1, <2>5, <2>6, <2>7, FS_Subset, FS_CardinalityType
    <2> QED BY <2>1, <2>6, <2>8
  <1> QED BY <1>5, <1>6

LEMMA ReservesCovers ==
  ASSUME IInv, Inv', Observed, DocsSteady, SessionsSteady, notice' = notice,
         NEW c \in Calls, Framed(c), Reserves(c)
  PROVE  Covered'
  <1>1. at[c] \notin Unrecorded /\ ~CallOwes(c)'
    BY DEF Reserves, Unrecorded, Returning, Bound, CallOwes
  <1>2. Shrinks
    <2>1. Holders' \subseteq Holders
      BY HoldersShrink
    <2>2. ASSUME NEW p \in Leaving PROVE p \in Leaving'
      BY <1>1, <2>2, OthersLeave DEF Framed
    <2>3. ASSUME NEW d \in Calls, CallCounts(d)' PROVE hold'[d].purchase \in Places
      <3>1. d # c
        BY <1>1, <2>3 DEF CallCounts
      <3> QED BY <2>3, <3>1, CallStays DEF Framed
    <2>4. \A s \in DOMAIN sessions' : NoticeCounts(s)' => sessions'[s].purchase \in Places
      BY NoticesOwe
    <2> QED BY <2>1, <2>2, <2>3, <2>4 DEF Shrinks
  <1>3. CASE ~request[c].rep
    <2>1. Reserved' \subseteq Reserved
      BY <1>3 DEF Framed, Reserves, Reserved
    <2> QED BY <1>2, <1>3, <2>1, ShrinksCovers DEF Reserves
  <1>4. CASE request[c].rep
    <2> SUFFICES ASSUME ~collided'
                 PROVE  Cardinality(Places') + Cardinality(Reserved') <= count'
      BY DEF Covered
    <2>1. /\ ~collided /\ count' = count + 1
          /\ Cardinality(Places) + Cardinality(Reserved) <= count /\ count \in Int
      BY <1>4 DEF Observed, IInv, Covered, World, Reserves
    <2>2. Reserved' \subseteq Reserved \union {c}
      BY DEF Framed, Reserved
    <2>3. /\ IsFiniteSet(Places) /\ Cardinality(Places) \in Nat
          /\ IsFiniteSet(Reserved) /\ Cardinality(Reserved) \in Nat
      BY PlacesAreFinite DEF IInv
    <2>4. /\ IsFiniteSet(Reserved \union {c})
          /\ Cardinality(Reserved \union {c}) \in Nat
          /\ Cardinality(Reserved \union {c}) <= Cardinality(Reserved) + 1
      <3>1. /\ IsFiniteSet(Reserved \union {c})
            /\ Cardinality(Reserved \union {c}) =
                 IF c \in Reserved THEN Cardinality(Reserved) ELSE Cardinality(Reserved) + 1
        BY <2>3, FS_AddElement
      <3> QED BY <2>3, <3>1
    <2>5. /\ Cardinality(Places') \in Nat /\ Cardinality(Places') <= Cardinality(Places)
          /\ Cardinality(Reserved') \in Nat
          /\ Cardinality(Reserved') <= Cardinality(Reserved \union {c})
      BY <1>2, <2>2, <2>3, <2>4, PlacesShrink, FS_Subset, FS_CardinalityType
    <2> QED BY <2>1, <2>3, <2>4, <2>5
  <1> QED BY <1>3, <1>4

(* A call that moves keeps the invariant.                                  *)
LEMMA CallKeeps ==
  ASSUME IInv, Inv', Observed, NEW c \in Calls, CallMoves(c)
  PROVE  IInv'
  <1>1. Covered'
    BY QuietCovers, GivesBackCovers, ReservesCovers DEF CallMoves
  <1>2. count' \in Int /\ count' <= Limit
    BY Lengths DEF CallMoves, Quiet, GivesBack, GiveBack, Reserves, IInv, World
  <1>3. World'
    BY <1>2, WorldStays DEF CallMoves, IInv, World
  <1>4. (\A d \in Calls : CallFine(d)') /\ (\A s \in Payments : NoticeFine(s)')
    BY OthersStayFine DEF CallMoves, Framed, DocsSteady
  <1> QED BY <1>1, <1>3, <1>4 DEF IInv

-----------------------------------------------------------------------------
(* What steps do to the documents.                                         *)
LEMMA SessionsUnchanged ==
  ASSUME IInv, \/ UNCHANGED sessions
               \/ DOMAIN sessions' = DOMAIN sessions /\ sessions' \in Seq(Session)
                  /\ \A s \in DOMAIN sessions : sessions'[s].purchase = sessions[s].purchase
  PROVE  SessionsSteady
  <1>1. sessions' \in Seq(Session) /\ sessions \in Seq(Session)
    BY DEF IInv, Inv, Shapes
  <1>2. Len(sessions') = Len(sessions) /\ Len(sessions) \in Nat
    BY <1>1, LenProperties, Lengths DEF IInv
  <1> QED BY <1>2 DEF SessionsSteady, IInv, World

LEMMA SessionsAppended ==
  ASSUME IInv, NEW s \in Session, Len(sessions) < MaxSessions, sessions' = Append(sessions, s)
  PROVE  SessionsSteady /\ Len(sessions') = Len(sessions) + 1
  <1>1. sessions \in Seq(Session) /\ Len(sessions) \in Nat /\ MaxSessions \in Nat
    BY Lengths DEF IInv, Inv, Shapes
  <1>2. /\ Len(sessions') = Len(sessions) + 1
        /\ \A i \in 1 .. Len(sessions) : sessions'[i] = sessions[i]
    BY <1>1, AppendProperties
  <1> QED BY <1>1, <1>2, Lengths DEF SessionsSteady, IInv

(* The status of a session changes.                                        *)
LEMMA SessionStatus ==
  ASSUME IInv, NEW s, NEW status, sessions' = [sessions EXCEPT ![s].status = status],
         sessions' \in Seq(Session)
  PROVE  SessionsSteady
  <1>1. \A r \in DOMAIN sessions : sessions[r] \in Session
    BY Typed DEF IInv, Inv
  <1>2. \A r \in DOMAIN sessions : sessions'[r].purchase = sessions[r].purchase
    BY <1>1 DEF Session
  <1> QED BY <1>2, SessionsUnchanged

LEMMA DocsUnchanged ==
  ASSUME IInv, UNCHANGED purchases
  PROVE  DocsSteady
  BY Lengths DEF IInv, DocsSteady, DocsKept, Steady

LEMMA DocChanges ==
  ASSUME IInv, Inv', NEW p, NEW d, purchases' = [purchases EXCEPT ![p] = d],
         p \in DOMAIN purchases => Steady(purchases[p], d)
  PROVE  DocsSteady
  <1>1. Len(purchases') = Len(purchases) /\ Len(purchases) \in Nat
    <2>1. Len(purchases') \in Nat /\ DOMAIN purchases' = 1 .. Len(purchases')
      BY LenProperties DEF Inv, Shapes
    <2> QED BY <2>1, Lengths DEF IInv
  <1>2. \A q \in DOMAIN purchases : q # p => purchases'[q] = purchases[q]
    OBVIOUS
  <1>3. p \in DOMAIN purchases => purchases'[p] = d
    OBVIOUS
  <1>4. \A q \in DOMAIN purchases : Steady(purchases[q], purchases[q])
    BY DEF Steady
  <1>5. \A q \in DOMAIN purchases : Steady(purchases[q], purchases'[q])
    BY <1>2, <1>3, <1>4
  <1> QED BY <1>1, <1>5 DEF DocsSteady, DocsKept

LEMMA DocsDeletedSteady ==
  ASSUME IInv, Inv', NEW ps, DeleteAll(ps)
  PROVE  DocsSteady /\ \A p \in ps : p \notin Holders'
  <1>1. \A q \in DOMAIN purchases : purchases[q] \in Purchase
    BY Typed DEF IInv, Inv
  <1>2. DOMAIN purchases' = DOMAIN purchases
    BY DEF DeleteAll
  <1>3. Len(purchases') = Len(purchases) /\ Len(purchases) \in Nat
    <2>1. Len(purchases') \in Nat /\ DOMAIN purchases' = 1 .. Len(purchases')
      BY LenProperties DEF Inv, Shapes
    <2> QED BY <1>2, <2>1, Lengths DEF IInv
  <1>4. \A q \in DOMAIN purchases : Steady(purchases[q], purchases'[q])
    BY <1>1 DEF DeleteAll, Steady, Purchase
  <1>5. \A q \in DOMAIN purchases : q \in ps => purchases'[q].status = "deleted"
    BY <1>1 DEF DeleteAll, Purchase
  <1> QED BY <1>2, <1>3, <1>4, <1>5 DEF DocsSteady, DocsKept, Holders, Exists

(* A status that stays within the life of a purchase.                      *)
Follows(before, after) ==
  /\ before = "deleted" => after = "deleted"
  /\ after = "pending" => before = "pending"

LEMMA DocStatus ==
  ASSUME IInv, Inv', NEW p, NEW status, purchases' = [purchases EXCEPT ![p].status = status],
         p \in DOMAIN purchases => Follows(purchases[p].status, status)
  PROVE  DocsSteady
  <1> DEFINE d == [purchases[p] EXCEPT !.status = status]
  <1>1. purchases' = [purchases EXCEPT ![p] = d]
    OBVIOUS
  <1>2. p \in DOMAIN purchases => purchases[p] \in Purchase
    BY Typed DEF IInv, Inv
  <1>3. p \in DOMAIN purchases => Steady(purchases[p], d)
    BY <1>2 DEF Steady, Follows, Purchase
  <1> HIDE DEF d
  <1> QED BY <1>1, <1>3, DocChanges

LEMMA DocSession ==
  ASSUME IInv, Inv', NEW p, NEW s \in 0 .. Len(sessions'),
         purchases' = [purchases EXCEPT ![p].session = s]
  PROVE  DocsSteady
  <1> DEFINE d == [purchases[p] EXCEPT !.session = s]
  <1>1. purchases' = [purchases EXCEPT ![p] = d]
    OBVIOUS
  <1>2. p \in DOMAIN purchases => purchases[p] \in Purchase
    BY Typed DEF IInv, Inv
  <1>3. p \in DOMAIN purchases => Steady(purchases[p], d)
    BY <1>2 DEF Steady, Purchase
  <1> HIDE DEF d
  <1> QED BY <1>1, <1>3, DocChanges

LEMMA DocReserved ==
  ASSUME IInv, Inv', NEW p, NEW s \in 0 .. Len(sessions'),
         purchases' = [purchases EXCEPT ![p].session = s, ![p].version = @ + 1]
  PROVE  DocsSteady
  <1> DEFINE e == [purchases[p] EXCEPT !.session = s]
             d == [e EXCEPT !.version = purchases[p].version + 1]
             first == [purchases EXCEPT ![p] = e]
  <1>1. p \in DOMAIN purchases => purchases[p] \in Purchase
    BY Typed DEF IInv, Inv
  <1>2. p \in DOMAIN purchases => first[p] = e /\ e.version = purchases[p].version
    BY <1>1 DEF Purchase
  <1>3. purchases' = [first EXCEPT ![p] = [first[p] EXCEPT !.version = first[p].version + 1]]
    OBVIOUS
  <1>4. p \in DOMAIN purchases => Steady(purchases[p], d)
    BY <1>1 DEF Steady, Purchase
  <1>5. CASE p \in DOMAIN purchases
    <2>1. purchases' = [first EXCEPT ![p] = d]
      BY <1>2, <1>3, <1>5
    <2> HIDE DEF d, e
    <2>2. purchases' = [purchases EXCEPT ![p] = d]
      BY <2>1
    <2> QED BY <1>4, <2>2, DocChanges
  <1>6. CASE p \notin DOMAIN purchases
    <2> HIDE DEF d, e
    <2>1. purchases' = [purchases EXCEPT ![p] = d]
      BY <1>3, <1>6
    <2> QED BY <1>6, <2>1, DocChanges
  <1> QED BY <1>5, <1>6

LEMMA DocUnenrolled ==
  ASSUME IInv, Inv', NEW p \in DOMAIN purchases, NEW status, SaveUnenrolled(p, status),
         status # "pending"
  PROVE  DocsSteady /\ p \notin Holders'
  <1> DEFINE e == [purchases[p] EXCEPT !.status = status]
             d == [e EXCEPT !.unenrolled = TRUE]
             first == [purchases EXCEPT ![p] = e]
  <1>1. purchases[p] \in Purchase /\ Exists(p)
    BY Typed DEF IInv, Inv, SaveUnenrolled
  <1>2. first[p] = e
    OBVIOUS
  <1>3. purchases' = [first EXCEPT ![p] = [first[p] EXCEPT !.unenrolled = TRUE]]
    BY DEF SaveUnenrolled
  <1>4. purchases' = [first EXCEPT ![p] = d]
    BY <1>2, <1>3
  <1>5. Steady(purchases[p], d) /\ d.unenrolled = TRUE
    BY <1>1 DEF Steady, Purchase, Exists
  <1> HIDE DEF d, e
  <1>6. purchases' = [purchases EXCEPT ![p] = d]
    BY <1>4
  <1>7. DocsSteady
    BY <1>5, <1>6, DocChanges
  <1>8. purchases'[p].unenrolled
    BY <1>5, <1>6
  <1> QED BY <1>7, <1>8 DEF Holders

-----------------------------------------------------------------------------
(* How calls move.                                                         *)
LEMMA Goes ==
  ASSUME Inv, NEW c \in Calls, NEW step, Goto(c, step), UNCHANGED hold
  PROVE  /\ Framed(c) /\ at'[c] = step /\ hold'[c] = hold[c]
         /\ hold[c] \in Held /\ request[c] \in Request
  BY DEF Inv, Shapes, Goto, Framed

LEMMA GoesWith ==
  ASSUME Inv, NEW c \in Calls, NEW step, NEW h, Goto(c, step), Keep(c, h)
  PROVE  /\ Framed(c) /\ at'[c] = step /\ hold'[c] = h
         /\ hold[c] \in Held /\ request[c] \in Request
  BY DEF Inv, Shapes, Goto, Keep, Framed

(* Steps at which nothing is known of what a call holds.                   *)
Plain ==
  {"find", "reserve", "done", "attempt", "new_session", "bind_attempt", "view_find",
   "view_match", "submit", "refused", "approve_record", "decide_record"}

LEMMA TicketsUnchanged ==
  ASSUME IInv, UNCHANGED tickets
  PROVE  TicketsSettled
  BY DEF IInv, Inv, Names, World, TicketsSettled

LEMMA RefundsUnchanged ==
  ASSUME IInv, UNCHANGED refund
  PROVE  Refunds
  BY DEF IInv, World, Refunds

(* The bounds of what a call holds, once it holds something else or more   *)
(* exists.                                                                 *)
LEMMA HoldBounded ==
  ASSUME IInv, Inv', DocsSteady, SessionsSteady, NEW c \in Calls
  PROVE  /\ hold[c].purchase <= Len(purchases') /\ hold[c].session <= Len(sessions')
         /\ Len(purchases') = Len(purchases)
         /\ \A p \in DOMAIN purchases : p <= Len(purchases')
         /\ \A p \in DOMAIN purchases : purchases[p].session <= Len(sessions')
  <1>1. hold[c].purchase \in Nat /\ hold[c].session \in Nat
    BY DEF IInv, Inv, Shapes, Held
  <1>2. Len(sessions') \in Nat
    BY LenProperties DEF Inv, Shapes
  <1>3. Len(purchases') \in Nat /\ DOMAIN purchases' = 1 .. Len(purchases')
    BY LenProperties DEF Inv, Shapes
  <1>4. hold[c].purchase <= Len(purchases) /\ hold[c].session <= Len(sessions)
    BY DEF IInv, CallFine
  <1>5. \A p \in DOMAIN purchases : purchases[p].session \in 0 .. Len(sessions)
    BY DEF IInv, World, DocFine
  <1>6. Len(purchases') = Len(purchases)
    BY <1>3, Lengths DEF IInv, DocsSteady
  <1> QED BY <1>1, <1>2, <1>3, <1>4, <1>5, <1>6, Lengths DEF IInv, SessionsSteady

(* To such a step.                                                         *)
LEMMA MovesPlain ==
  ASSUME IInv, Inv', NEW c \in Calls, Framed(c), at'[c] \in Plain,
         hold'[c].purchase <= Len(purchases'), hold'[c].session <= Len(sessions'),
         DocsSteady, SessionsSteady, TicketsSettled, Refunds, UNCHANGED <<count, notice>>,
         at[c] \in Unrecorded => collided' \/ hold[c].purchase \notin Holders'
  PROVE  CallMoves(c)
  <1>1. at'[c] \notin Bound \union Settling \union {"create"}
    BY DEF Plain, Bound, Settling, Returning, Unrecorded
  <1>2. CallFine(c)'
    BY <1>1 DEF CallFine
  <1>3. Quiet(c)
    BY <1>1 DEF Quiet, CallOwes, Bound
  <1> QED BY <1>2, <1>3 DEF CallMoves

(* The same with what it held.                                             *)
LEMMA GoesPlain ==
  ASSUME IInv, Inv', NEW c \in Calls, NEW step \in Plain, Goto(c, step), UNCHANGED hold,
         DocsSteady, SessionsSteady, TicketsSettled, Refunds, UNCHANGED <<count, notice>>,
         at[c] \in Unrecorded => collided' \/ hold[c].purchase \notin Holders'
  PROVE  CallMoves(c)
  <1>1. Framed(c) /\ at'[c] = step /\ hold'[c] = hold[c]
    BY Goes DEF IInv
  <1> QED BY <1>1, HoldBounded, MovesPlain

(* A call that reads a purchase.                                           *)
LEMMA MovesReading ==
  ASSUME IInv, Inv', NEW c \in Calls, Framed(c), at[c] \notin Bound,
         NEW p \in DOMAIN purchases,
         hold'[c].purchase = p, hold'[c].rep = purchases[p].rep,
         hold'[c].unenrolled = purchases[p].unenrolled,
         hold'[c].session = purchases[p].session,
         at'[c] \notin Unrecorded \union {"create", "undo_return"},
         at'[c] \in Returning => Exists(p),
         at'[c] \in Fresh => ~purchases[p].unenrolled,
         at'[c] \in Settling => purchases[p].status # "pending",
         UNCHANGED <<purchases, sessions, count, notice>>, TicketsSettled, Refunds
  PROVE  CallMoves(c)
  <1>1. DocsSteady /\ SessionsSteady
    BY DocsUnchanged, SessionsUnchanged
  <1>2. CallFine(c)'
    BY <1>1, HoldBounded DEF CallFine
  <1>3. at[c] \notin Unrecorded
    BY DEF Unrecorded, Bound, Returning
  <1>4. CallOwes(c)' => p \in Holders
    BY DEF CallOwes, Owed, Holders, Exists
  <1>5. Quiet(c)
    BY <1>3, <1>4 DEF Quiet
  <1> QED BY <1>1, <1>2, <1>5 DEF CallMoves

(* A call that owes and goes on owing.                                     *)
LEMMA MovesOwing ==
  ASSUME IInv, Inv', NEW c \in Calls, Framed(c), at[c] \in Returning, at'[c] \in Returning,
         hold'[c].purchase = hold[c].purchase, hold'[c].rep = hold[c].rep,
         hold'[c].unenrolled = hold[c].unenrolled, hold'[c].session <= Len(sessions'),
         at'[c] \in Fresh => at[c] \in Fresh,
         at'[c] \notin Settling,
         at'[c] = "undo_return" => purchases'[hold[c].purchase].status = "deleted",
         DocsSteady, SessionsSteady, TicketsSettled, Refunds, UNCHANGED <<count, notice>>
  PROVE  CallMoves(c)
  <1>1. CallFine(c) /\ at[c] \in Bound /\ at[c] \notin Unrecorded /\ at'[c] # "create"
    BY DEF IInv, Returning, Bound, Unrecorded
  <1>2. CallFine(c)'
    BY <1>1, HoldBounded DEF CallFine, DocsSteady, DocsKept, Steady, Exists
  <1>3. Quiet(c)
    BY <1>1 DEF Quiet, CallOwes, Owed
  <1> QED BY <1>2, <1>3 DEF CallMoves

(* A call that gives the place back.                                       *)
LEMMA MovesBack ==
  ASSUME IInv, Inv', NEW c \in Calls, NEW step, Goto(c, step), UNCHANGED hold,
         at[c] \in Returning, step \in Unrecorded \/ (step = "done" /\ at[c] = "undo_return"),
         step \in Settling => at[c] \in Settling,
         GiveBack(Owed(hold[c])),
         UNCHANGED <<purchases, sessions, notice, refund, tickets>>
  PROVE  CallMoves(c)
  <1>1. Framed(c) /\ at'[c] = step /\ hold'[c] = hold[c]
    BY Goes DEF IInv
  <1>2. DocsSteady /\ SessionsSteady /\ TicketsSettled /\ Refunds
    BY DocsUnchanged, SessionsUnchanged, TicketsUnchanged, RefundsUnchanged
  <1>3. CallFine(c) /\ at[c] \in Bound
    BY DEF IInv, Bound
  <1>4. step \notin Returning \union {"create", "undo_return"} \union Fresh
    BY DEF Returning, Unrecorded, Bound, Fresh
  <1>5. CallFine(c)'
    BY <1>1, <1>2, <1>3, <1>4, HoldBounded DEF CallFine
  <1>6. at'[c] \in Unrecorded \/ hold[c].purchase \notin Holders'
    BY <1>1, <1>3 DEF CallFine, Holders, Exists
  <1>7. GivesBack(c)
    BY <1>1, <1>4, <1>6 DEF GivesBack
  <1> QED BY <1>1, <1>2, <1>5, <1>7 DEF CallMoves

-----------------------------------------------------------------------------
(* Requests of users to buy.                                               *)
LEMMA CheckoutMoves ==
  ASSUME IInv, Inv', NEW c \in Calls, UNCHANGED refundVars,
         \/ Checkout(c) \/ FindPending(c) \/ ExpireOld(c) \/ ReturnPlace(c) \/ DeleteOld(c)
         \/ Reserve(c) \/ CreateSession(c) \/ BindSession(c) \/ UndoDelete(c) \/ UndoReturn(c)
  PROVE  CallMoves(c)
  <1>1. TicketsSettled /\ Refunds /\ UNCHANGED notice
    BY TicketsUnchanged, RefundsUnchanged DEF refundVars
  <1>2. UNCHANGED purchases => DocsSteady
    BY DocsUnchanged
  <1>3. UNCHANGED sessions => SessionsSteady
    BY SessionsUnchanged
  <1>4. /\ CallFine(c) /\ hold[c] \in Held /\ request[c] \in Request /\ Shapes /\ Shapes'
        /\ hold[c].session \in Nat /\ hold[c].purchase \in Nat
    BY DEF IInv, Inv, Shapes, Held
  <1>5. CASE Checkout(c)
    <2>1. (IF Enrolled(request[c].user) THEN "done" ELSE "find") \in Plain /\ at[c] \notin Unrecorded
      BY <1>5 DEF Plain, Checkout, Begin, Unrecorded
    <2> QED BY <1>1, <1>2, <1>3, <1>5, <2>1, GoesPlain DEF Checkout, storeVars
  <1>6. CASE FindPending(c)
    <2>1. at[c] \notin Bound /\ at[c] \notin Unrecorded
      BY <1>6 DEF FindPending, Bound, Unrecorded, Returning
    <2>2. CASE Goto(c, "reserve") /\ UNCHANGED hold
      BY <1>1, <1>2, <1>3, <1>6, <2>1, <2>2, GoesPlain DEF FindPending, storeVars, Plain
    <2>3. ASSUME NEW p \in Pending(request[c].user), Keep(c, Read(p)),
                 Goto(c, IF purchases[p].session # 0 THEN "expire" ELSE "return")
          PROVE  CallMoves(c)
      <3> DEFINE step == IF purchases[p].session # 0 THEN "expire" ELSE "return"
      <3>1. Framed(c) /\ at'[c] = step /\ hold'[c] = Read(p)
        BY <2>3, GoesWith DEF IInv
      <3>2. p \in DOMAIN purchases /\ Exists(p) /\ ~purchases[p].unenrolled
        BY DEF Pending, Of, IInv, World, DocFine
      <3>3. step \notin Unrecorded \union Settling \union {"create", "undo_return"}
        BY DEF Unrecorded, Settling
      <3> HIDE DEF step
      <3> QED BY <1>1, <1>6, <2>1, <3>1, <3>2, <3>3, MovesReading DEF FindPending, storeVars, Read, NoHold
    <2> QED BY <1>6, <2>2, <2>3 DEF FindPending
  <1>7. CASE ExpireOld(c)
    <2>1. SessionsSteady
      <3>1. CASE UNCHANGED sessions
        BY <1>3, <3>1
      <3>2. CASE Expire(hold[c].session)
        BY <1>4, <3>2, SessionStatus DEF Expire, Shapes
      <3> QED BY <1>7, <3>1, <3>2 DEF ExpireOld
    <2>2. Framed(c) /\ at[c] = "expire" /\ at'[c] = "return" /\ hold'[c] = hold[c]
      BY <1>7, Goes DEF IInv, ExpireOld
    <2>3. hold[c].session <= Len(sessions')
      BY <1>2, <1>7, <2>1, HoldBounded DEF ExpireOld
    <2> QED
      BY <1>1, <1>2, <1>7, <2>1, <2>2, <2>3, MovesOwing
      DEF ExpireOld, Returning, Bound, Unrecorded, Fresh, Settling
  <1>8. CASE ReturnPlace(c) \/ UndoReturn(c)
    <2>1. at[c] \in {"return", "undo_return"} /\ GiveBack(hold[c].rep)
      BY <1>8 DEF ReturnPlace, UndoReturn
    <2>2. at[c] \in Returning /\ at[c] \in Fresh /\ at[c] \in Bound
      BY <2>1 DEF Returning, Bound, Unrecorded, Fresh
    <2>3. Owed(hold[c]) = hold[c].rep
      BY <1>4, <2>2 DEF CallFine, Owed, Held
    <2>4. \/ at[c] = "undo_return" /\ Goto(c, "done")
          \/ at[c] = "return" /\ Goto(c, "delete")
      BY <1>8 DEF ReturnPlace, UndoReturn
    <2>5. "delete" \in Unrecorded /\ "delete" \notin Settling /\ "done" \notin Settling
      BY DEF Unrecorded, Settling
    <2>6. UNCHANGED <<purchases, sessions, hold, notice, refund, tickets>>
      BY <1>8 DEF ReturnPlace, UndoReturn, refundVars
    <2>7. GiveBack(Owed(hold[c]))
      BY <2>1, <2>3
    <2> QED BY <2>2, <2>4, <2>5, <2>6, <2>7, MovesBack
  <1>9. CASE DeleteOld(c)
    <2>1. DocsSteady /\ hold[c].purchase \notin Holders'
      BY <1>9, DocsDeletedSteady DEF DeleteOld
    <2>2. Framed(c) /\ at'[c] = "reserve" /\ hold'[c] = NoHold
      BY <1>9, GoesWith DEF IInv, DeleteOld
    <2>3. NoHold.purchase <= Len(purchases') /\ NoHold.session <= Len(sessions')
      <3>1. Len(purchases') \in Nat
        BY <1>4, LenProperties DEF Shapes
      <3>2. Len(sessions') \in Nat
        BY <1>4, LenProperties DEF Shapes
      <3> QED BY <3>1, <3>2 DEF NoHold
    <2>4. at'[c] \in Plain
      BY <2>2 DEF Plain
    <2> QED BY <1>1, <1>3, <1>9, <2>1, <2>2, <2>3, <2>4, MovesPlain DEF DeleteOld
  <1>10. CASE Reserve(c)
    <2>1. at[c] = "reserve" /\ UNCHANGED <<purchases, sessions, hold>> /\ DocsSteady /\ SessionsSteady
      BY <1>2, <1>3, <1>10 DEF Reserve
    <2>2. CASE ~PlaceIsFree /\ Goto(c, "done") /\ UNCHANGED count
      BY <1>1, <2>1, <2>2, GoesPlain DEF Plain, Unrecorded
    <2>3. CASE /\ \/ ~request[c].rep /\ UNCHANGED count
                  \/ request[c].rep /\ PlaceIsFree /\ count' = count + 1
               /\ Goto(c, "create")
      <3>1. Framed(c) /\ at'[c] = "create" /\ hold'[c] = hold[c]
        BY <2>1, <2>3, Goes DEF IInv
      <3>2. at'[c] \notin Bound /\ at'[c] \notin Settling
        BY <3>1 DEF Bound, Settling, Returning, Unrecorded
      <3>3. CallFine(c)'
        BY <2>1, <3>1, <3>2, HoldBounded DEF CallFine
      <3>4. count' <= Limit
        BY <2>3, Lengths DEF PlaceIsFree, IInv, World
      <3>5. Reserves(c)
        BY <2>1, <2>3, <3>1, <3>4 DEF Reserves
      <3> QED BY <1>1, <2>1, <3>1, <3>3, <3>5 DEF CallMoves
    <2> QED BY <1>10, <2>2, <2>3 DEF Reserve
  <1>11. CASE CreateSession(c)
    <2>1. at[c] = "session" /\ UNCHANGED <<purchases, count>> /\ DocsSteady
      BY <1>2, <1>11 DEF CreateSession
    <2>2. CASE Goto(c, "undo") /\ UNCHANGED <<sessions, hold>>
      <3>1. Framed(c) /\ at'[c] = "undo" /\ hold'[c] = hold[c]
        BY <2>2, Goes DEF IInv
      <3>2. SessionsSteady /\ hold[c].session <= Len(sessions')
        BY <1>3, <2>1, <2>2, HoldBounded
      <3> QED BY <1>1, <2>1, <3>1, <3>2, MovesOwing DEF Returning, Bound, Unrecorded, Fresh, Settling
    <2>3. CASE /\ Len(sessions) < MaxSessions
               /\ sessions' = Append(sessions, NewSession(hold[c].purchase))
               /\ Keep(c, [hold[c] EXCEPT !.session = Len(sessions) + 1])
               /\ Goto(c, "bind")
      <3>1. NewSession(hold[c].purchase) \in Session
        BY <1>4 DEF NewSession, Session
      <3>2. SessionsSteady /\ Len(sessions') = Len(sessions) + 1
        BY <2>3, <3>1, SessionsAppended
      <3> DEFINE h == [hold[c] EXCEPT !.session = Len(sessions) + 1]
      <3>3. Framed(c) /\ at'[c] = "bind" /\ hold'[c] = h
        BY <2>3, GoesWith DEF IInv
      <3>4. /\ h.purchase = hold[c].purchase /\ h.rep = hold[c].rep
            /\ h.unenrolled = hold[c].unenrolled /\ h.session = Len(sessions')
        BY <1>4, <3>2 DEF Held
      <3>5. h.session <= Len(sessions')
        BY <3>2, <3>4, Lengths DEF IInv
      <3> HIDE DEF h
      <3> QED BY <1>1, <2>1, <3>2, <3>3, <3>4, <3>5, MovesOwing
              DEF Returning, Bound, Unrecorded, Fresh, Settling
    <2> QED BY <1>11, <2>2, <2>3 DEF CreateSession
  <1>12. CASE BindSession(c)
    <2>1. at[c] = "bind" /\ at[c] \notin Unrecorded /\ UNCHANGED <<count, hold>>
      BY <1>12 DEF BindSession, Unrecorded
    <2>2. CASE Goto(c, "undo") /\ UNCHANGED <<purchases, sessions>>
      <3>1. Framed(c) /\ at'[c] = "undo" /\ hold'[c] = hold[c]
        BY <2>1, <2>2, Goes DEF IInv
      <3>2. DocsSteady /\ SessionsSteady /\ hold[c].session <= Len(sessions')
        BY <1>2, <1>3, <2>2, HoldBounded
      <3> QED BY <1>1, <2>1, <3>1, <3>2, MovesOwing DEF Returning, Bound, Unrecorded, Fresh, Settling
    <2>3. CASE Bind(hold[c].purchase, hold[c].session) /\ Goto(c, "done")
      <3>1. SessionsSteady
        BY <1>4, <2>3, SessionStatus DEF Bind, Shapes
      <3>2. hold[c].session \in 0 .. Len(sessions')
        <4>1. Len(sessions') \in Nat
          BY <1>4, LenProperties DEF Shapes
        <4> QED BY <1>4, <3>1, <4>1, Lengths DEF CallFine, SessionsSteady, IInv
      <3>3. DocsSteady
        BY <2>3, <3>2, DocSession DEF Bind
      <3> QED BY <1>1, <2>1, <2>3, <3>1, <3>3, GoesPlain DEF Plain
    <2> QED BY <1>12, <2>2, <2>3 DEF BindSession
  <1>13. CASE UndoDelete(c)
    <2>1. DocsSteady /\ SessionsSteady
      BY <1>3, <1>13, DocsDeletedSteady DEF UndoDelete
    <2>2. Framed(c) /\ at[c] = "undo" /\ at'[c] = "undo_return" /\ hold'[c] = hold[c]
      BY <1>13, Goes DEF IInv, UndoDelete
    <2>3. at[c] \in Bound /\ hold[c].session <= Len(sessions')
      BY <2>1, <2>2, HoldBounded DEF Bound, Returning, Unrecorded
    <2>4. hold[c].purchase \in DOMAIN purchases
      BY <1>4, <2>3 DEF CallFine
    <2>5. purchases'[hold[c].purchase].status = "deleted"
      <3>1. purchases[hold[c].purchase] \in Purchase
        BY <1>4, <2>4, Typed
      <3> QED BY <1>13, <2>4, <3>1 DEF UndoDelete, DeleteAll, Purchase
    <2> QED BY <1>1, <1>13, <2>1, <2>2, <2>3, <2>5, MovesOwing
            DEF UndoDelete, Returning, Bound, Unrecorded, Fresh, Settling
  <1> QED
    BY <1>5, <1>6, <1>7, <1>8, <1>9, <1>10, <1>11, <1>12, <1>13

LEMMA RetryMoves ==
  ASSUME IInv, Inv', NEW c \in Calls, UNCHANGED refundVars,
         \/ Retry(c) \/ ReserveAttempt(c) \/ RetrySession(c) \/ BindAttempt(c)
         \/ Cancel(c) \/ CancelReturn(c) \/ CancelDelete(c)
         \/ View(c) \/ ViewFind(c) \/ ViewMatch(c) \/ ViewDelete(c)
  PROVE  CallMoves(c)
  <1>1. TicketsSettled /\ Refunds /\ UNCHANGED <<notice, refund, tickets>>
    BY TicketsUnchanged, RefundsUnchanged DEF refundVars
  <1>2. UNCHANGED purchases => DocsSteady
    BY DocsUnchanged
  <1>3. UNCHANGED sessions => SessionsSteady
    BY SessionsUnchanged
  <1>4. /\ CallFine(c) /\ hold[c] \in Held /\ Shapes /\ Shapes'
        /\ hold[c].session \in Nat /\ hold[c].purchase \in Nat
    BY DEF IInv, Inv, Shapes, Held
  <1>5. Len(sessions') \in Nat /\ Len(purchases') \in Nat
    BY <1>4, LenProperties DEF Shapes
  <1>6. ASSUME NEW p \in Pending(request[c].user), Keep(c, Read(p)), at[c] = "new",
               NEW step \in {"attempt", "cancel_return"}, Goto(c, step), UNCHANGED storeVars
        PROVE  CallMoves(c)
    <2>1. Framed(c) /\ at'[c] = step /\ hold'[c] = Read(p)
      BY <1>6, GoesWith DEF IInv
    <2>2. p \in DOMAIN purchases /\ Exists(p) /\ ~purchases[p].unenrolled
      BY DEF Pending, Of, IInv, World, DocFine
    <2>3. step \notin Unrecorded \union Settling \union {"create", "undo_return"}
      BY DEF Unrecorded, Settling
    <2>4. at[c] \notin Bound
      BY <1>6 DEF Bound, Returning, Unrecorded
    <2> QED BY <1>1, <1>6, <2>1, <2>2, <2>3, <2>4, MovesReading DEF storeVars, Read, NoHold
  <1>7. ASSUME NEW step \in Plain, Goto(c, step), at[c] \notin Unrecorded, DocsSteady, SessionsSteady,
               UNCHANGED <<count, hold>>
        PROVE  CallMoves(c)
    BY <1>1, <1>7, GoesPlain
  <1>8. CASE Retry(c)
    BY <1>2, <1>3, <1>6, <1>7, <1>8 DEF Retry, Begin, storeVars, Plain, Unrecorded
  <1>9. CASE ReserveAttempt(c)
    <2>1. at[c] \notin Unrecorded /\ SessionsSteady /\ UNCHANGED count
      BY <1>3, <1>9 DEF ReserveAttempt, Unrecorded
    <2>2. CASE Goto(c, "done") /\ UNCHANGED <<purchases, hold>>
      BY <1>2, <1>7, <2>1, <2>2 DEF Plain
    <2>3. CASE /\ purchases' = [purchases EXCEPT ![hold[c].purchase].session = 0,
                                                  ![hold[c].purchase].version = @ + 1]
               /\ Keep(c, [hold[c] EXCEPT !.version = @ + 1])
               /\ Goto(c, "new_session")
      <3>1. DocsSteady
        <4>1. 0 \in 0 .. Len(sessions')
          BY <1>5
        <4> QED BY <2>3, <4>1, DocReserved
      <3> DEFINE h == [hold[c] EXCEPT !.version = @ + 1]
      <3>2. Framed(c) /\ at'[c] = "new_session" /\ hold'[c] = h
        BY <2>3, GoesWith DEF IInv
      <3>3. h.purchase = hold[c].purchase /\ h.session = hold[c].session
        BY <1>4 DEF Held
      <3> HIDE DEF h
      <3> QED BY <1>1, <2>1, <3>1, <3>2, <3>3, HoldBounded, MovesPlain DEF Plain
    <2> QED BY <1>9, <2>2, <2>3 DEF ReserveAttempt
  <1>10. CASE RetrySession(c)
    <2>1. /\ at[c] \notin Unrecorded /\ DocsSteady /\ UNCHANGED <<purchases, count>>
          /\ Goto(c, "bind_attempt") /\ Len(sessions) < MaxSessions
      BY <1>2, <1>10 DEF RetrySession, Unrecorded
    <2>2. NewSession(hold[c].purchase) \in Session
      BY <1>4 DEF NewSession, Session
    <2>3. SessionsSteady /\ Len(sessions') = Len(sessions) + 1
      BY <1>10, <2>1, <2>2, SessionsAppended DEF RetrySession
    <2> DEFINE h == [hold[c] EXCEPT !.session = Len(sessions) + 1]
    <2>4. Framed(c) /\ at'[c] = "bind_attempt" /\ hold'[c] = h
      BY <1>10, GoesWith DEF IInv, RetrySession
    <2>5. h.purchase = hold[c].purchase /\ h.session = Len(sessions')
      BY <1>4, <2>3 DEF Held
    <2>6. h.session <= Len(sessions')
      BY <1>5, <2>5
    <2> HIDE DEF h
    <2> QED BY <1>1, <2>1, <2>3, <2>4, <2>5, <2>6, HoldBounded, MovesPlain DEF Plain
  <1>11. CASE BindAttempt(c)
    <2>1. at[c] \notin Unrecorded /\ UNCHANGED <<count, hold>> /\ Goto(c, "done")
      BY <1>11 DEF BindAttempt, Unrecorded
    <2>2. SessionsSteady
      BY <1>4, <1>11, SessionStatus DEF BindAttempt, Expire, Shapes
    <2>3. hold[c].session \in 0 .. Len(sessions')
      BY <1>4, <1>5, <2>2, Lengths DEF CallFine, SessionsSteady, IInv
    <2>4. DocsSteady
      BY <1>2, <1>11, <2>3, DocReserved DEF BindAttempt
    <2> QED BY <1>7, <2>1, <2>2, <2>4 DEF Plain
  <1>12. CASE Cancel(c)
    BY <1>2, <1>3, <1>6, <1>7, <1>12 DEF Cancel, Begin, storeVars, Plain, Unrecorded
  <1>13. CASE CancelReturn(c)
    <2>1. at[c] = "cancel_return" /\ GiveBack(hold[c].rep) /\ Goto(c, "cancel_delete")
      BY <1>13 DEF CancelReturn
    <2>2. at[c] \in Returning /\ at[c] \in Fresh /\ at[c] \in Bound
      BY <2>1 DEF Returning, Bound, Unrecorded, Fresh
    <2>3. Owed(hold[c]) = hold[c].rep
      BY <1>4, <2>2 DEF CallFine, Owed, Held
    <2>4. "cancel_delete" \in Unrecorded /\ "cancel_delete" \notin Settling
      BY DEF Unrecorded, Settling
    <2> QED BY <1>1, <1>13, <2>1, <2>2, <2>3, <2>4, MovesBack DEF CancelReturn
  <1>14. CASE CancelDelete(c)
    <2>1. DocsSteady /\ hold[c].purchase \notin Holders'
      BY <1>14, DocsDeletedSteady DEF CancelDelete
    <2> QED BY <1>1, <1>3, <1>14, <2>1, GoesPlain DEF CancelDelete, Plain
  <1>15. CASE View(c)
    <2>1. DocsSteady
      BY <1>15, DocsDeletedSteady DEF View
    <2> QED BY <1>3, <1>7, <1>15, <2>1 DEF View, Begin, Plain, Unrecorded
  <1>16. CASE ViewFind(c)
    <2> DEFINE h == [NoHold EXCEPT !.listed = Pending(request[c].user)]
    <2>1. Framed(c) /\ at'[c] = "view_match" /\ hold'[c] = h
      BY <1>16, GoesWith DEF IInv, ViewFind
    <2>2. h.purchase = 0 /\ h.session = 0
      BY DEF NoHold
    <2>3. at[c] \notin Unrecorded /\ UNCHANGED <<purchases, sessions, count>>
      BY <1>16 DEF ViewFind, storeVars, Unrecorded
    <2> HIDE DEF h
    <2>4. hold'[c].purchase <= Len(purchases') /\ hold'[c].session <= Len(sessions')
      BY <1>5, <2>1, <2>2
    <2> QED BY <1>1, <1>2, <1>3, <2>1, <2>3, <2>4, MovesPlain DEF Plain
  <1>17. CASE ViewDelete(c)
    <2>1. DocsSteady
      BY <1>17, DocsDeletedSteady DEF ViewDelete
    <2> QED BY <1>3, <1>7, <1>17, <2>1 DEF ViewDelete, Plain, Unrecorded
  <1>18. CASE ViewMatch(c)
    <2> PICK p \in hold[c].listed :
               Keep(c, [hold[c] EXCEPT !.listed = @ \ {p},
                 !.redundant = IF Enrolled(request[c].user) THEN @ \union {p} ELSE @])
      BY <1>18 DEF ViewMatch
    <2> DEFINE h == [hold[c] EXCEPT !.listed = @ \ {p},
                       !.redundant = IF Enrolled(request[c].user) THEN @ \union {p} ELSE @]
    <2>1. Framed(c) /\ at'[c] = "view_match" /\ hold'[c] = h
      BY <1>18, GoesWith DEF IInv, ViewMatch
    <2>2. h.purchase = hold[c].purchase /\ h.session = hold[c].session
      BY <1>4 DEF Held
    <2>3. at[c] \notin Unrecorded /\ UNCHANGED <<purchases, sessions, count>>
      BY <1>18 DEF ViewMatch, storeVars, Unrecorded
    <2> HIDE DEF h
    <2>4. DocsSteady /\ SessionsSteady
      BY <1>2, <1>3, <2>3
    <2>5. hold'[c].purchase <= Len(purchases') /\ hold'[c].session <= Len(sessions')
      BY <2>1, <2>2, <2>4, HoldBounded
    <2> QED BY <1>1, <2>1, <2>3, <2>4, <2>5, MovesPlain DEF Plain
  <1> QED
    BY <1>8, <1>9, <1>10, <1>11, <1>12, <1>13, <1>14, <1>15, <1>16, <1>17, <1>18

(* The place reserved becomes the place of the new purchase.               *)
LEMMA CreateKeeps ==
  ASSUME IInv, Inv', Observed, NEW c \in Calls, UNCHANGED refundVars, Create(c)
  PROVE  IInv'
  <1> DEFINE d == NewPurchase(request[c].user, request[c].rep,
                              IF request[c].free THEN "completed" ELSE "pending")
             h == [NoHold EXCEPT !.purchase = Len(purchases) + 1, !.rep = request[c].rep]
             step == IF request[c].free THEN "done" ELSE "session"
  <1> PICK n : n = Len(purchases) + 1
    OBVIOUS
  <1>1. /\ at[c] = "create" /\ purchases' = Append(purchases, d)
        /\ Framed(c) /\ at'[c] = step /\ hold'[c] = h
        /\ UNCHANGED <<sessions, count, refund, notice, tickets>>
    BY GoesWith DEF Create, IInv, refundVars
  <1>2. /\ purchases \in Seq(Purchase) /\ Shapes /\ Shapes' /\ request[c] \in Request
        /\ Len(purchases) \in Nat /\ DOMAIN purchases = 1 .. Len(purchases)
        /\ Len(sessions) \in Nat /\ n \in Nat
    BY Lengths DEF IInv, Inv, Shapes
  <1>3. d \in Purchase
    BY <1>2 DEF NewPurchase, Purchase, Statuses, Request
  <1>4. /\ d.rep = request[c].rep /\ d.session = 0 /\ d.intent = 0 /\ ~d.unenrolled
    BY DEF NewPurchase
  <1>5. h.purchase = n /\ h.rep = request[c].rep /\ ~h.unenrolled /\ h.session = 0
    BY DEF NoHold
  <1>6. step \in {"done", "session"}
    OBVIOUS
  <1> HIDE DEF d, h, step
  <1>7. /\ Len(purchases') = n /\ DOMAIN purchases' = 1 .. n
        /\ \A p \in DOMAIN purchases : purchases'[p] = purchases[p]
        /\ purchases'[n] = d
    <2>1. /\ Len(purchases') = n /\ purchases' \in Seq(Purchase)
          /\ \A p \in 1 .. Len(purchases) : purchases'[p] = purchases[p]
          /\ purchases'[n] = d
      BY <1>1, <1>2, <1>3, AppendProperties
    <2>2. DOMAIN purchases' = 1 .. n
      BY <2>1, LenProperties
    <2> QED BY <1>2, <2>1, <2>2
  <1>8. DocsKept /\ SessionsSteady
    <2>1. Len(purchases) <= Len(purchases')
      BY <1>2, <1>7
    <2> QED BY <1>1, <1>7, <2>1, SessionsUnchanged DEF DocsKept, Steady
  <1>9. World'
    <2>1. DocFine(purchases[n])'
      <3>1. /\ purchases'[n].session = 0 /\ purchases'[n].intent = 0
            /\ ~purchases'[n].unenrolled
        BY <1>4, <1>7
      <3>2. 0 \in 0 .. Len(sessions')
        BY <1>1, <1>2
      <3> QED BY <3>1, <3>2 DEF DocFine
    <2>2. \A p \in DOMAIN purchases' : p \in DOMAIN purchases \/ p = n
      BY <1>2, <1>7
    <2>3. \A p \in DOMAIN purchases' : DocFine(purchases[p])'
      BY <1>8, <2>1, <2>2, OthersStayFine
    <2>4. \A t \in DOMAIN tickets' : purchases'[tickets'[t].purchase].status # "pending"
      BY <1>1, <1>7 DEF IInv, Inv, Names, World
    <2> QED BY <1>1, <2>3, <2>4 DEF IInv, World
  <1>10. CallFine(c)'
    <2>1. hold'[c].purchase = n /\ n \in DOMAIN purchases' /\ n <= Len(purchases')
      BY <1>1, <1>2, <1>5, <1>7
    <2>2. at'[c] \notin Settling /\ at'[c] # "undo_return"
      BY <1>1, <1>6 DEF Settling
    <2> QED BY <1>1, <1>2, <1>4, <1>5, <1>7, <2>1, <2>2 DEF CallFine
  <1>11. (\A e \in Calls : CallFine(e)') /\ (\A s \in Payments : NoticeFine(s)')
    BY <1>1, <1>8, <1>10, OthersStayFine DEF Framed
  <1>12. Covered'
    <2> SUFFICES ASSUME ~collided'
                 PROVE  Cardinality(Places') + Cardinality(Reserved') <= count'
      BY DEF Covered
    <2>1. /\ count' = count
          /\ Cardinality(Places) + Cardinality(Reserved) <= count /\ count \in Int
      BY <1>1 DEF Observed, IInv, Covered, World
    <2>2. at[c] \notin Unrecorded /\ at'[c] # "create"
      BY <1>1, <1>6 DEF Unrecorded
    <2>3. ASSUME NEW p \in Places', p # n PROVE p \in Places
      <3>1. CASE p \in Holders' /\ p \notin Leaving'
        <4>1. p \in Holders
          BY <1>2, <1>7, <2>3, <3>1 DEF Holders, Exists
        <4>2. p \notin Leaving
          BY <1>1, <1>8, <2>2, <3>1, OthersLeave DEF Framed
        <4> QED BY <4>1, <4>2 DEF Places, Holders
      <3>2. CASE \E e \in Calls : CallCounts(e)' /\ hold'[e].purchase = p
        <4> PICK e \in Calls : CallCounts(e)' /\ hold'[e].purchase = p
          BY <3>2
        <4>1. e # c
          BY <1>1, <1>5, <2>3
        <4> QED BY <1>1, <4>1, CallStays DEF Framed
      <3>3. CASE \E s \in DOMAIN sessions' : NoticeCounts(s)' /\ Paid(s)' = p
        <4> PICK s \in DOMAIN sessions' : NoticeCounts(s)' /\ Paid(s)' = p
          BY <3>3
        <4> QED BY <1>1, <1>8, NoticesOwe DEF Paid
      <3> QED BY <3>1, <3>2, <3>3 DEF Places
    <2>4. ASSUME n \in Places' PROVE request[c].rep
      <3>1. n \notin DOMAIN purchases
        BY <1>2
      <3>2. CASE n \in Holders'
        BY <1>4, <1>7, <3>2 DEF Holders
      <3>3. CASE \E e \in Calls : CallCounts(e)' /\ hold'[e].purchase = n
        <4> PICK e \in Calls : CallCounts(e)' /\ hold'[e].purchase = n
          BY <3>3
        <4>1. CASE e = c
          BY <1>1, <1>5, <4>1 DEF CallCounts, CallOwes, Owed
        <4>2. CASE e # c
          <5>1. n \in Places
            BY <1>1, <4>2, CallStays DEF Framed
          <5> QED BY <3>1, <5>1 DEF Places
        <4> QED BY <4>1, <4>2
      <3>4. CASE \E s \in DOMAIN sessions' : NoticeCounts(s)' /\ Paid(s)' = n
        <4> PICK s \in DOMAIN sessions' : NoticeCounts(s)' /\ Paid(s)' = n
          BY <3>4
        <4>1. n \in Places
          BY <1>1, <1>8, NoticesOwe DEF Paid
        <4> QED BY <3>1, <4>1 DEF Places
      <3> QED BY <2>4, <1>7, <3>2, <3>3, <3>4 DEF Places
    <2>5. Reserved' \subseteq Reserved \ {c}
      BY <1>1, <2>2 DEF Framed, Reserved
    <2>6. request[c].rep => c \in Reserved
      BY <1>1 DEF Reserved
    <2>7. /\ IsFiniteSet(Places) /\ Cardinality(Places) \in Nat
          /\ IsFiniteSet(Reserved) /\ Cardinality(Reserved) \in Nat
      BY PlacesAreFinite DEF IInv
    <2>8. CASE request[c].rep
      <3>1. Places' \subseteq Places \union {n}
        BY <2>3
      <3>2. /\ IsFiniteSet(Places \union {n})
            /\ Cardinality(Places \union {n}) =
                 IF n \in Places THEN Cardinality(Places) ELSE Cardinality(Places) + 1
        BY <2>7, FS_AddElement
      <3>3. /\ IsFiniteSet(Reserved \ {c})
            /\ Cardinality(Reserved \ {c}) = Cardinality(Reserved) - 1
        BY <2>6, <2>7, <2>8, FS_RemoveElement
      <3>4. /\ Cardinality(Places') \in Nat
            /\ Cardinality(Places') <= Cardinality(Places \union {n})
        BY <3>1, <3>2, FS_Subset, FS_CardinalityType
      <3>5. /\ Cardinality(Reserved') \in Nat
            /\ Cardinality(Reserved') <= Cardinality(Reserved \ {c})
        BY <2>5, <3>3, FS_Subset, FS_CardinalityType
      <3> QED BY <2>1, <2>7, <3>2, <3>3, <3>4, <3>5
    <2>9. CASE ~request[c].rep
      <3>1. Places' \subseteq Places /\ Reserved' \subseteq Reserved
        BY <2>3, <2>4, <2>5, <2>9
      <3>2. /\ Cardinality(Places') \in Nat /\ Cardinality(Places') <= Cardinality(Places)
            /\ Cardinality(Reserved') \in Nat /\ Cardinality(Reserved') <= Cardinality(Reserved)
        BY <2>7, <3>1, FS_Subset, FS_CardinalityType
      <3> QED BY <2>1, <2>7, <3>2
    <2> QED BY <2>8, <2>9
  <1> QED BY <1>9, <1>11, <1>12 DEF IInv

-----------------------------------------------------------------------------
(* Refunds and the requests for them.                                      *)
LEMMA UnenrollMoves ==
  ASSUME IInv, Inv', NEW c \in Calls, NEW from, NEW to,
         \/ UnenrollReturn(c, from, to) /\ from \in Returning /\ to \in Unrecorded
            /\ (to \in Settling => from \in Settling)
         \/ \E status : /\ UnenrollSave(c, from, status, to)
                        /\ from \in Unrecorded /\ to \in Plain
                        /\ status = "refund_processing" \/ (status = Status(c) /\ from \in Settling)
         \/ /\ SubmitRefund(c, from, to, "done") \/ SubmitRefund(c, from, "done", to)
            /\ from \notin Unrecorded
            /\ to \in Plain \/ (from = "approve_submit" /\ to = "approve_return")
  PROVE  CallMoves(c)
  <1>1. UNCHANGED purchases => DocsSteady
    BY DocsUnchanged
  <1>2. UNCHANGED sessions => SessionsSteady
    BY SessionsUnchanged
  <1>3. UNCHANGED tickets => TicketsSettled
    BY TicketsUnchanged
  <1>4. UNCHANGED refund => Refunds
    BY RefundsUnchanged
  <1>5. CallFine(c) /\ "done" \in Plain
    BY DEF IInv, Plain
  <1>6. CASE UnenrollReturn(c, from, to) /\ from \in Returning /\ to \in Unrecorded
             /\ (to \in Settling => from \in Settling)
    BY <1>6, MovesBack DEF UnenrollReturn, refundVars
  <1>7. ASSUME NEW status, UnenrollSave(c, from, status, to), from \in Unrecorded, to \in Plain,
               status = "refund_processing" \/ (status = Status(c) /\ from \in Settling)
        PROVE  CallMoves(c)
    <2> DEFINE p == hold[c].purchase
    <2>1. at[c] \in Bound /\ UNCHANGED <<count, hold, notice>>
      BY <1>7 DEF UnenrollSave, Unrecorded, Bound, refundVars, Returning
    <2>2. p \in DOMAIN purchases
      BY <1>5, <2>1 DEF CallFine
    <2>3. SessionsSteady /\ TicketsSettled /\ Refunds
      BY <1>2, <1>3, <1>4, <1>7 DEF UnenrollSave, refundVars
    <2>4. CASE SaveUnenrolled(p, status) /\ Goto(c, to)
      <3>1. status # "pending"
        BY <1>5, <1>7 DEF Status, CallFine, UnenrollSave
      <3>2. DocsSteady /\ p \notin Holders'
        BY <2>2, <2>4, <3>1, DocUnenrolled
      <3> QED BY <1>7, <2>1, <2>3, <2>4, <3>2, GoesPlain
    <2>5. CASE ~Exists(p) /\ Goto(c, "done") /\ UNCHANGED purchases
      <3>1. p \notin Holders'
        BY <2>5 DEF Holders, Exists
      <3> QED BY <1>1, <1>5, <2>1, <2>3, <2>5, <3>1, GoesPlain
    <2> QED BY <1>7, <2>4, <2>5 DEF UnenrollSave
  <1>8. ASSUME SubmitRefund(c, from, to, "done") \/ SubmitRefund(c, from, "done", to),
               from \notin Unrecorded,
               to \in Plain \/ (from = "approve_submit" /\ to = "approve_return")
        PROVE  CallMoves(c)
    <2>1. /\ at[c] = from /\ UNCHANGED <<purchases, sessions, count, hold, notice, tickets>>
          /\ Goto(c, to) \/ Goto(c, "done")
      BY <1>8 DEF SubmitRefund, storeVars
    <2>2. Refunds
      <3>1. refund' = [refund EXCEPT ![Payment(c)] = "pending"] \/ UNCHANGED refund
        BY <1>8 DEF SubmitRefund, Submit
      <3> QED BY <1>4, <3>1 DEF IInv, World, Refunds
    <2>3. DocsSteady /\ SessionsSteady /\ TicketsSettled
      BY <1>1, <1>2, <1>3, <2>1
    <2>4. ASSUME NEW step \in Plain, Goto(c, step) PROVE CallMoves(c)
      BY <1>8, <2>1, <2>2, <2>3, <2>4, GoesPlain
    <2>5. CASE from = "approve_submit" /\ Goto(c, "approve_return")
      <3>1. Framed(c) /\ at'[c] = "approve_return" /\ hold'[c] = hold[c]
        BY <2>1, <2>5, Goes DEF IInv
      <3>2. hold[c].session <= Len(sessions')
        BY <2>3, HoldBounded
      <3> QED BY <2>1, <2>2, <2>3, <2>5, <3>1, <3>2, MovesOwing
              DEF Returning, Bound, Unrecorded, Fresh, Settling
    <2> QED BY <1>5, <1>8, <2>1, <2>4, <2>5
  <1> QED BY <1>6, <1>7, <1>8

LEMMA RefundMoves ==
  ASSUME IInv, Inv', NEW c \in Calls, RefundStep(c)
  PROVE  CallMoves(c)
  <1>1. UNCHANGED purchases => DocsSteady
    BY DocsUnchanged
  <1>2. UNCHANGED sessions => SessionsSteady
    BY SessionsUnchanged
  <1>3. UNCHANGED tickets => TicketsSettled
    BY TicketsUnchanged
  <1>4. UNCHANGED refund => Refunds
    BY RefundsUnchanged
  <1>5. CallFine(c) /\ "done" \in Plain /\ "new" \notin Unrecorded \union Bound
    BY DEF IInv, Plain, Unrecorded, Bound, Returning
  <1>6. ASSUME NEW p \in Of(request[c].user), Keep(c, Read(p)), at[c] = "new",
               NEW step \in {"ask", "refund_return", "leave_return"}, Goto(c, step),
               step \in Settling => purchases[p].status # "pending",
               UNCHANGED <<storeVars, refundVars>>
        PROVE  CallMoves(c)
    <2>1. Framed(c) /\ at'[c] = step /\ hold'[c] = Read(p)
      BY <1>6, GoesWith DEF IInv
    <2>2. p \in DOMAIN purchases /\ Exists(p)
      BY DEF Of
    <2>3. step \notin Unrecorded \union Fresh \union {"create", "undo_return"}
      BY DEF Unrecorded, Fresh
    <2>4. TicketsSettled /\ Refunds /\ UNCHANGED <<purchases, sessions, count, notice>>
      BY <1>3, <1>4, <1>6 DEF storeVars, refundVars
    <2> QED BY <1>5, <1>6, <2>1, <2>2, <2>3, <2>4, MovesReading DEF Read, NoHold
  <1>7. ASSUME NEW p \in Of(request[c].user), Answer(c, p), at[c] = "new",
               UNCHANGED <<storeVars, refundVars>>
        PROVE  CallMoves(c)
    <2>1. "refund_return" \notin Settling
      BY DEF Settling
    <2> QED BY <1>6, <1>7, <2>1 DEF Answer, AskApproval, Refundable
  <1>8. ASSUME Goto(c, "done"), at[c] = "new", UNCHANGED <<hold, storeVars, refundVars>>
        PROVE  CallMoves(c)
    BY <1>1, <1>2, <1>3, <1>4, <1>5, <1>8, GoesPlain DEF storeVars, refundVars
  <1>9. CASE Refund(c)
    BY <1>7, <1>8, <1>9 DEF Refund, Begin
  <1>10. CASE Unenroll(c)
    <2>1. at[c] = "new" /\ UNCHANGED <<storeVars, refundVars>>
      BY <1>10 DEF Unenroll, Begin
    <2>2. ASSUME NEW p \in Of(request[c].user), purchases[p].status = "completed",
                 Keep(c, Read(p)), Goto(c, "leave_return")
          PROVE  CallMoves(c)
      BY <1>6, <2>1, <2>2
    <2> QED BY <1>7, <1>8, <1>10, <2>1, <2>2 DEF Unenroll
  <1>11. CASE Ask(c)
    <2>1. /\ at[c] = "ask" /\ UNCHANGED <<purchases, sessions, count, hold, notice, refund, tickets>>
          /\ Goto(c, "ask_create") \/ Goto(c, "done")
      BY <1>11 DEF Ask, storeVars, refundVars
    <2>2. DocsSteady /\ SessionsSteady /\ TicketsSettled /\ Refunds /\ at[c] \notin Unrecorded
      BY <1>1, <1>2, <1>3, <1>4, <2>1 DEF Unrecorded
    <2>3. CASE Goto(c, "done")
      BY <1>5, <2>1, <2>2, <2>3, GoesPlain
    <2>4. CASE Goto(c, "ask_create")
      <3>1. Framed(c) /\ at'[c] = "ask_create" /\ hold'[c] = hold[c]
        BY <2>1, <2>4, Goes DEF IInv
      <3>2. CallFine(c)'
        BY <1>5, <2>1, <2>2, <3>1, HoldBounded
        DEF CallFine, Settling, Bound, Returning, Unrecorded, Fresh
      <3>3. Quiet(c)
        BY <2>1, <2>2, <3>1 DEF Quiet, CallOwes, Returning
      <3> QED BY <2>1, <2>2, <3>1, <3>2, <3>3 DEF CallMoves
    <2> QED BY <2>1, <2>3, <2>4
  <1>16. CASE CreateTicket(c)
    <2> DEFINE p == hold[c].purchase
               d == NewTicket(p)
    <2>1. /\ at[c] = "ask_create" /\ Goto(c, "done") /\ tickets' = Append(tickets, d)
          /\ UNCHANGED <<purchases, sessions, count, hold, notice, refund>>
      BY <1>16 DEF CreateTicket, storeVars
    <2>2. p \in DOMAIN purchases /\ purchases[p].status # "pending" /\ at[c] \notin Unrecorded
      BY <1>5, <2>1 DEF CallFine, Settling, Unrecorded
    <2>3. p \in Nat /\ tickets \in Seq(Ticket)
      BY <2>2, Typed DEF IInv, Inv, Shapes
    <2>4. d \in Ticket /\ d.purchase = p
      BY <2>3 DEF NewTicket, Ticket
    <2> HIDE DEF d
    <2>5. \A t \in DOMAIN tickets' : tickets'[t] = IF t \in DOMAIN tickets THEN tickets[t] ELSE d
      BY <2>1, <2>3, <2>4, OneMore
    <2>6. \A t \in DOMAIN tickets :
            /\ tickets[t].purchase \in DOMAIN purchases
            /\ purchases[tickets[t].purchase].status # "pending"
      BY DEF IInv, Inv, Names, World
    <2>7. TicketsSettled
      BY <2>2, <2>4, <2>5, <2>6 DEF TicketsSettled
    <2> QED BY <1>1, <1>2, <1>4, <1>5, <2>1, <2>2, <2>7, GoesPlain
  <1>12. CASE RefundRefused(c)
    <2>1. /\ at[c] \notin Unrecorded /\ Goto(c, "done")
          /\ UNCHANGED <<sessions, count, hold, notice, refund, tickets>>
      BY <1>12 DEF RefundRefused, Unrecorded, refundVars
    <2>2. DocsSteady
      <3>1. CASE Exists(hold[c].purchase)
        <4>1. Follows(purchases[hold[c].purchase].status, "refund_failed")
          BY <3>1 DEF Follows, Exists
        <4> QED BY <1>12, <3>1, <4>1, DocStatus DEF RefundRefused
      <3> QED BY <1>1, <1>12, <3>1 DEF RefundRefused
    <2> QED BY <1>2, <1>3, <1>4, <1>5, <2>1, <2>2, GoesPlain
  <1>13. CASE \/ UnenrollReturn(c, "refund_return", "refund_save")
              \/ UnenrollReturn(c, "leave_return", "leave_save")
    BY <1>13, UnenrollMoves DEF Returning, Bound, Unrecorded, Settling
  <1>14. CASE \/ UnenrollSave(c, "refund_save", "refund_processing", "submit")
              \/ UnenrollSave(c, "leave_save", Status(c), "done")
    BY <1>14, UnenrollMoves DEF Unrecorded, Settling, Plain
  <1>15. CASE SubmitRefund(c, "submit", "done", "refused")
    BY <1>15, UnenrollMoves DEF Unrecorded, Plain
  <1> QED BY <1>9, <1>10, <1>11, <1>12, <1>13, <1>14, <1>15, <1>16 DEF RefundStep

LEMMA TicketMoves ==
  ASSUME IInv, Inv', NEW c \in Calls, TicketStep(c)
  PROVE  CallMoves(c)
  <1>1. UNCHANGED purchases => DocsSteady
    BY DocsUnchanged
  <1>2. UNCHANGED sessions => SessionsSteady
    BY SessionsUnchanged
  <1>3. UNCHANGED tickets => TicketsSettled
    BY TicketsUnchanged
  <1>4. UNCHANGED refund => Refunds
    BY RefundsUnchanged
  <1>5. /\ "done" \in Plain /\ "new" \notin Unrecorded \union Bound
        /\ \A t \in DOMAIN tickets : /\ tickets[t] \in Ticket
                                     /\ tickets[t].purchase \in DOMAIN purchases
                                     /\ purchases[tickets[t].purchase].status # "pending"
    BY Typed DEF Plain, Unrecorded, Bound, IInv, Inv, Names, World, Returning
  <1>6. ASSUME NEW step \in Plain, Goto(c, step), at[c] \notin Unrecorded,
               UNCHANGED <<purchases, sessions, count, hold, notice, refund>>, TicketsSettled
        PROVE  CallMoves(c)
    BY <1>1, <1>2, <1>4, <1>6, GoesPlain
  <1>7. ASSUME NEW t \in DOMAIN tickets, Goto(c, "approve_submit") \/ Goto(c, "decide_return")
                 \/ Goto(c, "decide_record"),
               Goto(c, "decide_record") \/ Exists(tickets[t].purchase),
               Keep(c, [Read(tickets[t].purchase) EXCEPT !.ticket = t]), at[c] = "new",
               UNCHANGED <<purchases, sessions, count, notice, refund, tickets>>
        PROVE  CallMoves(c)
    <2> PICK step \in {"approve_submit", "decide_return", "decide_record"} :
               Goto(c, step) /\ (step = "decide_record" \/ Exists(tickets[t].purchase))
      BY <1>7
    <2> DEFINE p == tickets[t].purchase
               h == [Read(p) EXCEPT !.ticket = t]
    <2>1. Framed(c) /\ at'[c] = step /\ hold'[c] = h
      BY <1>7, GoesWith DEF IInv
    <2>2. p \in DOMAIN purchases /\ purchases[p].status # "pending"
      BY <1>5
    <2>3. /\ h.purchase = p /\ h.rep = purchases[p].rep /\ h.unenrolled = purchases[p].unenrolled
          /\ h.session = purchases[p].session
      BY DEF Read, NoHold
    <2>4. /\ step \notin Unrecorded \union Fresh \union {"create", "undo_return"}
          /\ step \in Returning => Exists(p)
      BY DEF Unrecorded, Fresh, Returning, Bound
    <2> HIDE DEF h
    <2> QED BY <1>3, <1>4, <1>5, <1>7, <2>1, <2>2, <2>3, <2>4, MovesReading
  <1>8. ASSUME NEW t, NEW d, tickets' = [tickets EXCEPT ![t] = d],
               t \in DOMAIN tickets => d.purchase = tickets[t].purchase
        PROVE  TicketsSettled
    BY <1>5, <1>8 DEF TicketsSettled
  <1>9. ASSUME NEW t, NEW status, tickets' = [tickets EXCEPT ![t].status = status]
        PROVE  TicketsSettled
    <2> DEFINE d == [tickets[t] EXCEPT !.status = status]
    <2>1. tickets' = [tickets EXCEPT ![t] = d]
      BY <1>9
    <2>2. t \in DOMAIN tickets => d.purchase = tickets[t].purchase
      BY <1>5 DEF Ticket
    <2> HIDE DEF d
    <2> QED BY <1>8, <2>1, <2>2
  <1>10. CASE Approve(c)
    <2> PICK t \in DOMAIN tickets :
          /\ Decides(c, "approve", t)
          /\ \/ /\ Exists(tickets[t].purchase)
                /\ Keep(c, [Read(tickets[t].purchase) EXCEPT !.ticket = t])
                /\ Goto(c, "approve_submit") /\ UNCHANGED tickets
             \/ /\ tickets' = [tickets EXCEPT ![t].status = "expired"]
                /\ Goto(c, "done") /\ UNCHANGED hold
             \/ Goto(c, "done") /\ UNCHANGED <<hold, tickets>>
      BY <1>10 DEF Approve
    <2>1. at[c] = "new" /\ UNCHANGED <<purchases, sessions, count, notice, refund>>
      BY <1>10 DEF Approve, Decides, Begin, storeVars
    <2> QED BY <1>3, <1>5, <1>6, <1>7, <1>9, <2>1
  <1>11. ASSUME NEW from \in {"approve_record", "decide_record"}, NEW status,
                DecideTicket(c, from, status)
         PROVE  CallMoves(c)
    <2> DEFINE t == hold[c].ticket
               after == IF tickets[t].status = "deleted" THEN "deleted" ELSE status
               d == [tickets[t] EXCEPT !.status = after, !.decided = TRUE]
    <2>1. tickets' = [tickets EXCEPT ![t] = d] /\ at[c] \notin Unrecorded
      BY <1>11 DEF DecideTicket, Unrecorded
    <2>2. t \in DOMAIN tickets => d.purchase = tickets[t].purchase
      BY <1>5 DEF Ticket
    <2> HIDE DEF d
    <2>3. TicketsSettled
      BY <1>8, <2>1, <2>2
    <2> QED BY <1>5, <1>6, <1>11, <2>1, <2>3 DEF DecideTicket, storeVars
  <1>12. CASE Reject(c)
    <2> PICK t \in DOMAIN tickets :
               /\ Decides(c, "reject", t)
               /\ tickets' = [tickets EXCEPT ![t].status =
                    IF @ # "pending" THEN @ ELSE IF tickets[t].due THEN "expired" ELSE "rejected"]
      BY <1>12 DEF Reject
    <2> DEFINE status == IF tickets[t].status # "pending" THEN tickets[t].status
                         ELSE IF tickets[t].due THEN "expired" ELSE "rejected"
    <2>1. tickets' = [tickets EXCEPT ![t].status = status]
      OBVIOUS
    <2> HIDE DEF status
    <2>2. TicketsSettled
      BY <1>9, <2>1
    <2> QED BY <1>5, <1>6, <1>12, <2>2 DEF Reject, Decides, Begin, storeVars
  <1>13. CASE Decide(c)
    <2> PICK t \in DOMAIN tickets :
          /\ Decides(c, "decide", t)
          /\ \/ /\ Keep(c, [Read(tickets[t].purchase) EXCEPT !.ticket = t])
                /\ \/ Exists(tickets[t].purchase) /\ Goto(c, "decide_return")
                   \/ Goto(c, "decide_record")
             \/ Goto(c, "done") /\ UNCHANGED hold
      BY <1>13 DEF Decide
    <2>1. at[c] = "new" /\ UNCHANGED <<purchases, sessions, count, notice, refund, tickets>>
      BY <1>13 DEF Decide, Decides, Begin, storeVars, refundVars
    <2> QED BY <1>3, <1>5, <1>6, <1>7, <2>1
  <1>14. CASE \/ UnenrollReturn(c, "approve_return", "approve_save")
              \/ UnenrollReturn(c, "decide_return", "decide_save")
    BY <1>14, UnenrollMoves DEF Returning, Bound, Unrecorded, Settling
  <1>15. CASE \/ UnenrollSave(c, "approve_save", "refund_processing", "approve_record")
              \/ UnenrollSave(c, "decide_save", Status(c), "decide_record")
    BY <1>15, UnenrollMoves DEF Unrecorded, Settling, Plain
  <1>16. CASE SubmitRefund(c, "approve_submit", "approve_return", "done")
    BY <1>16, UnenrollMoves DEF Unrecorded
  <1> QED BY <1>10, <1>11, <1>12, <1>13, <1>14, <1>15, <1>16 DEF TicketStep

-----------------------------------------------------------------------------
(* Steps that move no call and no webhook of a refund.                     *)
LEMMA OthersKeep ==
  ASSUME IInv, Inv', Observed, UNCHANGED <<request, at, hold, count, notice>>,
         DocsSteady, SessionsSteady, TicketsSettled, Refunds
  PROVE  IInv'
  <1>1. Reserved' = Reserved
    BY DEF Reserved
  <1>2. Shrinks
    <2>1. Holders' \subseteq Holders
      BY HoldersShrink
    <2>2. ASSUME NEW p \in Leaving PROVE p \in Leaving'
      BY <2>2, OthersLeave
    <2>3. \A d \in Calls : CallCounts(d)' => hold'[d].purchase \in Places
      BY CallStays
    <2>4. \A s \in DOMAIN sessions' : NoticeCounts(s)' => sessions'[s].purchase \in Places
      BY NoticesOwe
    <2> QED BY <2>1, <2>2, <2>3, <2>4 DEF Shrinks
  <1>3. Covered'
    BY <1>1, <1>2, ShrinksCovers
  <1>4. World'
    BY WorldStays DEF IInv, World
  <1>5. (\A d \in Calls : CallFine(d)') /\ (\A s \in Payments : NoticeFine(s)')
    BY OthersStayFine DEF DocsSteady
  <1> QED BY <1>3, <1>4, <1>5 DEF IInv

(* The webhook of a refund takes a step that gives no place back.          *)
LEMMA NoticeQuietKeeps ==
  ASSUME IInv, Inv', Observed, NEW s \in DOMAIN sessions, NEW to \in Note,
         notice' = [notice EXCEPT ![s] = to],
         UNCHANGED <<request, at, hold, count, sessions, refund, tickets>>,
         DocsSteady, NoticeFine(s)',
         to.step = "return" /\ Owed(to) => notice[s].step = "idle" /\ Paid(s) \in Holders,
         notice[s].step = "save" => collided' \/ Paid(s) \notin Holders'
  PROVE  IInv'
  <1>1. SessionsSteady /\ TicketsSettled /\ Refunds
    BY SessionsUnchanged, TicketsUnchanged, RefundsUnchanged
  <1>2. /\ s \in Payments /\ notice \in [Payments -> Note]
        /\ notice' \in [Payments -> Note] /\ notice'[s] = to
        /\ \A r \in Payments : r # s => notice'[r] = notice[r]
        /\ DOMAIN sessions \subseteq Payments
    BY Lengths DEF IInv, World, Payments
  <1>3. Reserved' = Reserved
    BY DEF Reserved
  <1>4. ASSUME ~collided' PROVE Shrinks
    <2>1. Holders' \subseteq Holders
      BY HoldersShrink
    <2>2. ASSUME NEW p \in Leaving PROVE p \in Leaving' \/ p \notin Holders'
      <3>1. CASE notice[s].step = "save" /\ Paid(s) = p
        BY <1>4, <3>1
      <3>2. CASE ~(notice[s].step = "save" /\ Paid(s) = p)
        BY <1>1, <1>2, <2>2, <3>2, OthersLeave
      <3> QED BY <3>1, <3>2
    <2>3. \A d \in Calls : CallCounts(d)' => hold'[d].purchase \in Places
      BY CallStays
    <2>4. ASSUME NEW r \in DOMAIN sessions', NoticeCounts(r)'
          PROVE  sessions'[r].purchase \in Places
      <3>1. CASE r # s
        BY <1>1, <1>2, <2>4, <3>1, NoticesOwe
      <3>2. CASE r = s
        <4>1. notice[s].step = "idle" /\ Paid(s) \in Holders
          BY <1>2, <2>4, <3>2 DEF NoticeCounts, NoticeOwes
        <4>2. Paid(s)' = Paid(s) /\ ~NoticeOwes(s)
          BY <4>1 DEF Paid, NoticeOwes
        <4>3. Paid(s) \notin Leaving'
          BY <2>4, <3>2, <4>2, NoticeDebtor DEF NoticeCounts, Observed
        <4>4. Paid(s) \notin Leaving
          BY <1>1, <1>2, <4>1, <4>3, OthersLeave
        <4> QED BY <3>2, <4>1, <4>2, <4>4 DEF Places, Paid, Holders
      <3> QED BY <3>1, <3>2
    <2> QED BY <2>1, <2>2, <2>3, <2>4 DEF Shrinks
  <1>5. Covered'
    BY <1>1, <1>3, <1>4, ShrinksCovers
  <1>6. World'
    BY <1>1, <1>2, WorldStays DEF IInv, World
  <1>7. (\A d \in Calls : CallFine(d)') /\ (\A r \in Payments : NoticeFine(r)')
    BY <1>1, <1>2, OthersStayFine DEF DocsSteady
  <1> QED BY <1>5, <1>6, <1>7 DEF IInv

LEMMA NoticeReturnKeeps ==
  ASSUME IInv, Inv', Observed, NEW s \in DOMAIN sessions, NoticeReturn(s)
  PROVE  IInv'
  <1> DEFINE to == [notice[s] EXCEPT !.step = "save"]
             p == Paid(s)
  <1>1. /\ notice[s].step = "return" /\ notice' = [notice EXCEPT ![s] = to]
        /\ UNCHANGED <<request, at, hold, purchases, sessions, refund, tickets>>
        /\ GiveBack(Owed(notice[s]))
    BY DEF NoticeReturn, NoticeStep
  <1>2. /\ s \in Payments /\ notice \in [Payments -> Note] /\ NoticeFine(s)
        /\ DOMAIN sessions \subseteq Payments
    BY Lengths DEF IInv, World, Payments
  <1>3. /\ to \in Note /\ to.step = "save" /\ to.rep = notice[s].rep
        /\ to.unenrolled = notice[s].unenrolled /\ to.again = notice[s].again
    BY <1>2 DEF Note
  <1> HIDE DEF to
  <1>4. /\ notice' \in [Payments -> Note] /\ notice'[s] = to
        /\ \A r \in Payments : r # s => notice'[r] = notice[r]
    BY <1>1, <1>2, <1>3
  <1>5. DocsSteady /\ SessionsSteady /\ TicketsSettled /\ Refunds
    BY <1>1, DocsUnchanged, SessionsUnchanged, TicketsUnchanged, RefundsUnchanged
  <1>6. NoticeFine(s)'
    BY <1>1, <1>2, <1>3, <1>4 DEF NoticeFine, Paid
  <1>7. count' \in Int /\ count' <= Limit
    BY <1>1, Lengths DEF GiveBack, IInv, World
  <1>8. World'
    BY <1>4, <1>5, <1>7, WorldStays
  <1>9. (\A d \in Calls : CallFine(d)') /\ (\A r \in Payments : NoticeFine(r)')
    BY <1>1, <1>4, <1>5, <1>6, OthersStayFine DEF DocsSteady
  <1>10. Reserved' = Reserved
    BY <1>1 DEF Reserved
  <1>11. \A d \in Calls : CallCounts(d)' => hold'[d].purchase \in Places
    BY <1>1, CallStays
  <1>12. ASSUME NEW r \in DOMAIN sessions', NoticeCounts(r)'
         PROVE  sessions'[r].purchase \in Places
    <2>1. r # s
      BY <1>3, <1>4, <1>12 DEF NoticeCounts, NoticeOwes
    <2> QED BY <1>1, <1>2, <1>4, <1>5, <1>12, <2>1, NoticesOwe
  <1>13. Shrinks
    <2>1. Holders' \subseteq Holders
      BY <1>5, HoldersShrink
    <2>2. ASSUME NEW q \in Leaving PROVE q \in Leaving'
      BY <1>1, <1>2, <1>4, <1>5, <2>2, OthersLeave
    <2> QED BY <1>11, <1>12, <2>1, <2>2 DEF Shrinks
  <1>14. Covered'
    <2>1. CASE ~Owed(notice[s])
      BY <1>1, <1>10, <1>13, <2>1, ShrinksCovers DEF GiveBack
    <2>2. CASE Owed(notice[s])
      <3> SUFFICES ASSUME ~collided'
                   PROVE  Cardinality(Places') + Cardinality(Reserved') <= count'
        BY DEF Covered
      <3>1. /\ ~collided /\ count' = count - 1 /\ count' < count
            /\ Cardinality(Places) + Cardinality(Reserved) <= count /\ count \in Int
        BY <1>1, <2>2 DEF Observed, IInv, Covered, World, GiveBack
      <3>2. <<"notice", s>> \in Debtors \ Debtors' /\ PlaceOf(<<"notice", s>>) = p
        <4>1. NoticeOwes(s) /\ ~NoticeOwes(s)'
          BY <1>1, <1>3, <1>4, <2>2 DEF NoticeOwes
        <4> QED BY <4>1, NoticeDebtor
      <3>3. p \in Places
        <4>1. p \in DOMAIN purchases
          BY DEF IInv, Inv, Names, Paid
        <4>2. NoticeCounts(s)
          BY <3>1, <3>2, NoticeDebtor DEF NoticeCounts, Observed
        <4> QED BY <4>1, <4>2 DEF Places
      <3>4. p \notin Places'
        <4>1. p \in Leaving'
          BY <1>1, <1>3, <1>4 DEF Leaving, Paid
        <4>2. ASSUME NEW d \in Calls, CallCounts(d)', hold'[d].purchase = p PROVE FALSE
          <5>1. <<"call", d>> \in Debtors' /\ PlaceOf(<<"call", d>>)' = p
            BY <4>2, CallDebtor DEF CallCounts
          <5> QED BY <3>1, <3>2, <4>2, <5>1 DEF Observed, CallCounts
        <4>3. ASSUME NEW r \in DOMAIN sessions', NoticeCounts(r)', Paid(r)' = p PROVE FALSE
          <5>1. <<"notice", r>> \in Debtors' /\ PlaceOf(<<"notice", r>>)' = p
            BY <4>3, NoticeDebtor DEF NoticeCounts
          <5> QED BY <3>1, <3>2, <4>3, <5>1 DEF Observed, NoticeCounts
        <4>4. p = p'
          BY <1>1 DEF Paid
        <4> QED BY <4>1, <4>2, <4>3, <4>4 DEF Places
      <3>5. Places' \subseteq Places \ {p}
        BY <1>13, <3>4, PlacesShrink
      <3>6. /\ IsFiniteSet(Places) /\ Cardinality(Places) \in Nat
            /\ IsFiniteSet(Reserved) /\ Cardinality(Reserved) \in Nat
        BY PlacesAreFinite DEF IInv
      <3>7. IsFiniteSet(Places \ {p}) /\ Cardinality(Places \ {p}) = Cardinality(Places) - 1
        BY <3>3, <3>6, FS_RemoveElement
      <3>8. Cardinality(Places') \in Nat /\ Cardinality(Places') <= Cardinality(Places) - 1
        BY <3>5, <3>7, FS_Subset, FS_CardinalityType
      <3> QED BY <1>10, <3>1, <3>6, <3>8
    <2> QED BY <2>1, <2>2
  <1> QED BY <1>8, <1>9, <1>14 DEF IInv

LEMMA NoticeKeeps ==
  ASSUME IInv, Inv', Observed, NEW s \in DOMAIN sessions,
         \/ NoticeRead(s) \/ NoticeSave(s) \/ NoticeCodes(s) \/ NoticeOther(s)
         \/ NoticeFail(s) /\ (notice[s].step = "save" => collided')
  PROVE  IInv'
  <1>1. /\ s \in Payments /\ notice \in [Payments -> Note] /\ NoticeFine(s)
        /\ Paid(s) \in DOMAIN purchases /\ purchases[Paid(s)] \in Purchase
    BY Lengths, Typed DEF IInv, Inv, Names, World, Payments, Paid
  <1>2. NoNotice \in Note /\ NoNotice.step = "idle"
    BY DEF NoNotice, Note
  <1>3. UNCHANGED purchases => DocsSteady
    BY DocsUnchanged
  <1>4. ASSUME NEW to \in Note, notice' = [notice EXCEPT ![s] = to],
               to.step \notin {"return", "save"}, DocsSteady,
               UNCHANGED <<request, at, hold, count, sessions, refund, tickets>>,
               notice[s].step = "save" => collided' \/ Paid(s) \notin Holders'
        PROVE  IInv'
    <2>1. NoticeFine(s)'
      BY <1>1, <1>4 DEF NoticeFine
    <2> QED BY <1>4, <2>1, NoticeQuietKeeps
  <1>5. CASE NoticeRead(s)
    <2> DEFINE d == purchases[Paid(s)]
               to == [step |-> "return", rep |-> d.rep, unenrolled |-> d.unenrolled,
                      linked |-> d.linked, again |-> d.status = "refunded"]
    <2>1. to \in Note
      BY <1>1 DEF Note, Purchase
    <2>2. /\ notice[s].step = "idle" /\ notice' = [notice EXCEPT ![s] = to]
          /\ UNCHANGED <<request, at, hold, count, purchases, sessions, refund, tickets>>
          /\ Exists(Paid(s))
      BY <1>5 DEF NoticeRead, NoticeStep, storeVars, Hears
    <2>3. notice'[s] = to
      BY <1>1, <2>2
    <2>4. NoticeFine(s)'
      BY <1>1, <2>2, <2>3 DEF NoticeFine, Paid
    <2>5. Owed(to) => Paid(s) \in Holders
      BY <1>1, <2>2 DEF Owed, Holders
    <2> HIDE DEF to
    <2> QED BY <1>3, <2>1, <2>2, <2>4, <2>5, NoticeQuietKeeps
  <1>6. CASE NoticeSave(s)
    <2>1. /\ notice[s].step = "save"
          /\ UNCHANGED <<request, at, hold, count, sessions, refund, tickets>>
      BY <1>6 DEF NoticeSave, NoticeStep
    <2> DEFINE status == IF notice[s].again THEN purchases[Paid(s)].status ELSE "refunded"
               to == [notice[s] EXCEPT !.step = "codes"]
    <2>2. CASE SaveUnenrolled(Paid(s), status) /\ notice' = [notice EXCEPT ![s] = to]
      <3>1. status # "pending"
        BY <1>1, <2>1 DEF NoticeFine
      <3> HIDE DEF status
      <3>2. DocsSteady /\ Paid(s) \notin Holders'
        BY <1>1, <2>2, <3>1, DocUnenrolled
      <3>3. to \in Note /\ to.step = "codes"
        BY <1>1 DEF Note
      <3> HIDE DEF to
      <3> QED BY <1>4, <2>1, <2>2, <3>2, <3>3
    <2>3. CASE ~Exists(Paid(s)) /\ notice' = [notice EXCEPT ![s] = NoNotice] /\ UNCHANGED purchases
      <3>1. Paid(s) \notin Holders'
        BY <2>1, <2>3 DEF Holders, Exists
      <3> QED BY <1>2, <1>3, <1>4, <2>1, <2>3, <3>1
    <2> QED BY <1>6, <2>2, <2>3 DEF NoticeSave, NoticeStep
  <1>7. CASE NoticeCodes(s)
    <2>1. /\ notice[s].step = "codes" /\ notice' = [notice EXCEPT ![s] = NoNotice]
          /\ UNCHANGED <<request, at, hold, count, sessions, refund, tickets>>
      BY <1>7 DEF NoticeCodes, NoticeStep
    <2>2. DocsSteady
      <3>1. CASE UNCHANGED purchases
        BY <1>3, <3>1
      <3>2. CASE purchases' = [purchases EXCEPT ![Paid(s)].codes = 0]
        <4> DEFINE d == [purchases[Paid(s)] EXCEPT !.codes = 0]
        <4>1. purchases' = [purchases EXCEPT ![Paid(s)] = d]
          BY <3>2
        <4>2. Steady(purchases[Paid(s)], d)
          BY <1>1 DEF Steady, Purchase
        <4> HIDE DEF d
        <4> QED BY <4>1, <4>2, DocChanges
      <3> QED BY <1>7, <3>1, <3>2 DEF NoticeCodes
    <2> QED BY <1>2, <1>4, <2>1, <2>2
  <1>8. CASE NoticeOther(s)
    <2>1. /\ notice[s].step = "idle" /\ notice' = [notice EXCEPT ![s] = NoNotice]
          /\ UNCHANGED <<request, at, hold, count, sessions, refund, tickets>>
          /\ Exists(Paid(s))
      BY <1>8 DEF NoticeOther, NoticeStep
    <2> PICK outcome \in reports[s] \ {"succeeded"} :
               purchases' = [purchases EXCEPT ![Paid(s)].status =
                               IF outcome = "failed" THEN "refund_failed" ELSE "completed"]
      BY <1>8 DEF NoticeOther
    <2> DEFINE status == IF outcome = "failed" THEN "refund_failed" ELSE "completed"
    <2>2. Follows(purchases[Paid(s)].status, status)
      BY <2>1 DEF Follows, Exists
    <2>3. purchases' = [purchases EXCEPT ![Paid(s)].status = status]
      OBVIOUS
    <2> HIDE DEF status
    <2>4. DocsSteady
      BY <2>2, <2>3, DocStatus
    <2> QED BY <1>2, <1>4, <2>1, <2>4
  <1>9. CASE NoticeFail(s) /\ (notice[s].step = "save" => collided')
    BY <1>2, <1>3, <1>4, <1>9 DEF NoticeFail, storeVars
  <1> QED BY <1>5, <1>6, <1>7, <1>8, <1>9

(* The webhooks of the sessions.                                           *)
LEMMA WebhookKeeps ==
  ASSUME IInv, Inv', Observed, NEW s \in DOMAIN sessions, UNCHANGED refundVars,
         Pay(s) \/ HookRead(s) \/ Webhook(s) \/ HookFail(s)
  PROVE  IInv'
  <1> DEFINE p == sessions[s].purchase
  <1>1. /\ p \in DOMAIN purchases /\ purchases[p] \in Purchase /\ sessions[s] \in Session
        /\ sessions' \in Seq(Session) /\ s \in 0 .. Len(sessions) /\ 0 \in 0 .. Len(sessions)
        /\ \A r \in DOMAIN sessions : sessions[r] \in Session
    BY Typed, Lengths DEF IInv, Inv, Names, Shapes
  <1>2. TicketsSettled /\ Refunds /\ UNCHANGED <<notice, request, at, hold, count>>
    BY TicketsUnchanged, RefundsUnchanged
    DEF refundVars, Pay, HookRead, Webhook, HookComplete, HookBundle, HookLink, HookFail, Hook
  <1>3. SessionsSteady
    <2>1. ASSUME NEW hook, sessions' = [sessions EXCEPT ![s].hook = hook]
          PROVE  SessionsSteady
      <3>1. \A r \in DOMAIN sessions : sessions'[r].purchase = sessions[r].purchase
        BY <1>1, <2>1 DEF Session
      <3> QED BY <1>1, <2>1, <3>1, SessionsUnchanged
    <2>2. ASSUME Pay(s) PROVE SessionsSteady
      BY <1>1, <2>2, SessionStatus DEF Pay
    <2> QED BY <2>1, <2>2 DEF HookRead, Webhook, HookComplete, HookBundle, HookLink, HookFail, Hook
  <1>4. Len(sessions') = Len(sessions)
    <2>1. DOMAIN sessions' = DOMAIN sessions
      BY DEF Pay, HookRead, Webhook, HookComplete, HookBundle, HookLink, HookFail, Hook
    <2>2. Len(sessions') \in Nat /\ DOMAIN sessions' = 1 .. Len(sessions')
      BY <1>1, LenProperties
    <2> QED BY <2>1, <2>2, Lengths DEF IInv
  <1>5. DocsSteady
    <2>1. CASE UNCHANGED purchases
      BY <2>1, DocsUnchanged
    <2>2. ASSUME NEW payment \in {s, 0}, Completes(s),
                 purchases' = [purchases EXCEPT ![p] =
                   [purchases[p] EXCEPT !.status = "completed", !.session = s, !.intent = payment,
                                        !.late = FALSE, !.version = purchases[p].version + 1]]
          PROVE  DocsSteady
      <3> DEFINE d == [purchases[p] EXCEPT !.status = "completed", !.session = s, !.intent = payment,
                                           !.late = FALSE, !.version = purchases[p].version + 1]
      <3>1. purchases' = [purchases EXCEPT ![p] = d]
        BY <2>2
      <3>2. /\ d.rep = purchases[p].rep /\ d.unenrolled = purchases[p].unenrolled
            /\ d.status = "completed" /\ d.session = s /\ d.intent = payment
        BY <1>1 DEF Purchase
      <3> HIDE DEF d
      <3>3. purchases[p].status = "pending"
        BY <2>2 DEF Completes
      <3>4. Steady(purchases[p], d)
        BY <1>1, <1>4, <3>2, <3>3 DEF Steady
      <3> QED BY <3>1, <3>4, DocChanges
    <2>3. CASE purchases' = [purchases EXCEPT ![p].codes = @ + 1]
      <3> DEFINE d == [purchases[p] EXCEPT !.codes = @ + 1]
      <3>1. purchases' = [purchases EXCEPT ![p] = d]
        BY <2>3
      <3>2. Steady(purchases[p], d)
        BY <1>1 DEF Steady, Purchase
      <3> HIDE DEF d
      <3> QED BY <3>1, <3>2, DocChanges
    <2>4. CASE purchases' = [purchases EXCEPT ![p].linked = TRUE]
      <3> DEFINE d == [purchases[p] EXCEPT !.linked = TRUE]
      <3>1. purchases' = [purchases EXCEPT ![p] = d]
        BY <2>4
      <3>2. Steady(purchases[p], d)
        BY <1>1 DEF Steady, Purchase
      <3> HIDE DEF d
      <3> QED BY <3>1, <3>2, DocChanges
    <2>5. CASE HookComplete(s)
      BY <2>1, <2>2, <2>5 DEF HookComplete
    <2> QED BY <2>1, <2>3, <2>4, <2>5 DEF Pay, HookRead, Webhook, HookBundle, HookLink, HookFail
  <1> QED BY <1>2, <1>3, <1>5, OthersKeep

LEMMA PeriodKeeps ==
  ASSUME IInv, Inv', Observed, Period, UNCHANGED <<refund, reports, notice>>
  PROVE  IInv'
  <1>1. /\ \A p \in DOMAIN purchases : purchases[p] \in Purchase
        /\ \A s \in DOMAIN sessions : sessions[s] \in Session
        /\ \A t \in DOMAIN tickets : tickets[t] \in Ticket
        /\ purchases' \in Seq(Purchase) /\ sessions' \in Seq(Session)
    BY Typed DEF IInv, Inv, Shapes
  <1>2. DocsSteady
    <2>1. Len(purchases') = Len(purchases) /\ Len(purchases) \in Nat
          /\ DOMAIN purchases' = DOMAIN purchases
      <3>1. DOMAIN purchases' = DOMAIN purchases
        BY DEF Period, Age
      <3>2. Len(purchases') \in Nat /\ DOMAIN purchases' = 1 .. Len(purchases')
        BY <1>1, LenProperties
      <3> QED BY <3>1, <3>2, Lengths DEF IInv
    <2>2. ASSUME NEW p \in DOMAIN purchases PROVE Steady(purchases[p], purchases'[p])
      <3>1. purchases[p] \in Purchase
        BY <1>1
      <3>2. purchases'[p] = [purchases[p] EXCEPT !.old = TRUE, !.late = TRUE]
        BY DEF Period, Age
      <3> QED BY <3>1, <3>2 DEF Steady, Purchase
    <2> QED BY <2>1, <2>2 DEF DocsSteady, DocsKept
  <1>3. SessionsSteady
    <2>1. DOMAIN sessions' = DOMAIN sessions
      BY DEF Period, Age
    <2>2. ASSUME NEW s \in DOMAIN sessions PROVE sessions'[s].purchase = sessions[s].purchase
      <3> DEFINE status == IF sessions[s].status \in {"created", "open"}
                           THEN "expired" ELSE sessions[s].status
      <3>1. sessions'[s] = [sessions[s] EXCEPT !.status = status]
        BY DEF Period, Age
      <3>2. sessions[s] \in Session
        BY <1>1
      <3> HIDE DEF status
      <3> QED BY <3>1, <3>2 DEF Session
    <2> QED BY <1>1, <2>1, <2>2, SessionsUnchanged
  <1>4. TicketsSettled
    <2>1. tickets' = [t \in DOMAIN tickets |-> [tickets[t] EXCEPT !.due = TRUE]]
      BY DEF Period
    <2>2. \A t \in DOMAIN tickets : tickets'[t].purchase = tickets[t].purchase
      BY <1>1, <2>1 DEF Ticket
    <2> QED BY <2>1, <2>2 DEF TicketsSettled, IInv, Inv, Names, World
  <1>5. Refunds
    BY RefundsUnchanged
  <1> QED BY <1>2, <1>3, <1>4, <1>5, OthersKeep DEF Period, Age

(* The clean-ups, and the settlement of a refund.                          *)
LEMMA OtherStepKeeps ==
  ASSUME IInv, Inv', Observed,
         \/ \E p \in DOMAIN purchases : Cleanup(p) /\ UNCHANGED refundVars
         \/ \E t \in DOMAIN tickets : ExpireTicket(t)
         \/ \E s \in DOMAIN sessions : Settle(s)
  PROVE  IInv'
  <1>1. ASSUME NEW p \in DOMAIN purchases, Cleanup(p), UNCHANGED refundVars PROVE IInv'
    <2>1. DocsSteady /\ SessionsSteady /\ TicketsSettled /\ Refunds
      BY <1>1, DocsDeletedSteady, SessionsUnchanged, TicketsUnchanged, RefundsUnchanged
      DEF Cleanup, refundVars
    <2> QED BY <1>1, <2>1, OthersKeep DEF Cleanup, refundVars
  <1>2. ASSUME NEW t \in DOMAIN tickets, ExpireTicket(t) PROVE IInv'
    <2>1. DocsSteady /\ SessionsSteady /\ Refunds
      BY <1>2, DocsUnchanged, SessionsUnchanged, RefundsUnchanged DEF ExpireTicket, purchaseVars
    <2>2. \A u \in DOMAIN tickets : tickets[u] \in Ticket
      BY Typed DEF IInv, Inv
    <2>3. PICK status : tickets' = [tickets EXCEPT ![t].status = status]
      BY <1>2 DEF ExpireTicket
    <2>4. \A u \in DOMAIN tickets : tickets'[u].purchase = tickets[u].purchase
      BY <2>2, <2>3 DEF Ticket
    <2>5. TicketsSettled
      BY <2>3, <2>4 DEF TicketsSettled, IInv, Inv, Names, World
    <2> QED BY <1>2, <2>1, <2>5, OthersKeep DEF ExpireTicket, purchaseVars
  <1>3. ASSUME NEW s \in DOMAIN sessions, Settle(s) PROVE IInv'
    <2>1. DocsSteady /\ SessionsSteady /\ TicketsSettled
      BY <1>3, DocsUnchanged, SessionsUnchanged, TicketsUnchanged DEF Settle, purchaseVars
    <2>2. Refunds
      BY <1>3 DEF Settle, Refunds, IInv, World
    <2> QED BY <1>3, <2>1, <2>2, OthersKeep DEF Settle, purchaseVars
  <1> QED BY <1>1, <1>2, <1>3

(* A call that stops after giving a place back is observed.                *)
LEMMA FailMoves ==
  ASSUME IInv, Inv', NEW c \in Calls, Fail(c), at[c] \in Unrecorded => collided'
  PROVE  CallMoves(c)
  <1>1. /\ at' = [at EXCEPT ![c] = "done"]
        /\ UNCHANGED <<purchases, sessions, count, request, hold, refund, notice, tickets>>
    BY DEF Fail, storeVars, refundVars
  <1>2. DocsSteady /\ SessionsSteady /\ TicketsSettled /\ Refunds
    BY <1>1, DocsUnchanged, SessionsUnchanged, TicketsUnchanged, RefundsUnchanged
  <1>3. Framed(c) /\ at'[c] = "done" /\ hold'[c] = hold[c]
    BY <1>1 DEF Framed, IInv, Inv, Shapes
  <1> QED BY <1>1, <1>2, <1>3, HoldBounded, MovesPlain DEF Plain

-----------------------------------------------------------------------------
LEMMA PlacesStart == Init => IInv
  <1> SUFFICES ASSUME Init PROVE IInv
    OBVIOUS
  <1>0. PICK start \in Scenarios :
          purchases = start.purchases /\ sessions = start.sessions /\ count = start.count
    BY DEF Init, PurchaseInit
  <1>1. /\ \A c \in Calls : at[c] = "new" /\ hold[c] = NoHold
        /\ \A s \in Payments : notice[s] = NoNotice
        /\ notice = [s \in Payments |-> NoNotice] /\ refund = [s \in Payments |-> "none"]
        /\ tickets = <<>> /\ collided = FALSE
    BY DEF Init, PurchaseInit
  <1>2. Inv
    BY Starts
  <1>3. /\ Len(purchases) \in Nat /\ DOMAIN purchases = 1 .. Len(purchases)
        /\ Len(sessions) \in Nat /\ DOMAIN sessions = 1 .. Len(sessions)
        /\ Limit \in Nat /\ MaxSessions \in Nat /\ IsFiniteSet(Calls)
    BY <1>2, Lengths
  <1>4. /\ Len(sessions) <= MaxSessions
        /\ count \in 0 .. Limit
        /\ Cardinality(Holders) <= count
        /\ \A p \in DOMAIN purchases : DocFine(purchases[p])
    BY <1>0, ScenariosAssumption DEF Holders, Exists, DocFine
  <1>5. DOMAIN sessions \subseteq Payments
    BY <1>3, <1>4 DEF Payments
  <1>6. World
    <2>1. NoNotice \in Note
      BY DEF NoNotice, Note
    <2>2. DOMAIN tickets = {}
      BY <1>1
    <2> QED BY <1>1, <1>3, <1>4, <2>1, <2>2 DEF World
  <1>7. \A c \in Calls : CallFine(c)
    BY <1>1, <1>3 DEF CallFine, NoHold, Settling, Bound, Returning, Unrecorded
  <1>8. \A s \in Payments : NoticeFine(s)
    BY <1>1 DEF NoticeFine, NoNotice
  <1>9. Places \subseteq Holders /\ Reserved = {}
    BY <1>1, <1>5
    DEF Places, Reserved, CallCounts, CallOwes, NoticeCounts, NoticeOwes, Returning, NoNotice
  <1>10. Covered
    <2>1. IsFiniteSet(Holders)
      <3>1. Holders \subseteq 1 .. Len(purchases)
        BY <1>3 DEF Holders
      <3>2. IsFiniteSet(1 .. Len(purchases))
        BY <1>3, FS_Interval
      <3> QED BY <3>1, <3>2, FS_Subset
    <2>2. /\ Cardinality(Holders) \in Nat /\ Cardinality(Places) \in Nat
          /\ Cardinality(Places) <= Cardinality(Holders) /\ Cardinality(Reserved) = 0
      BY <1>9, <2>1, FS_Subset, FS_CardinalityType, FS_EmptySet
    <2> QED BY <1>4, <2>2 DEF Covered
  <1> QED BY <1>2, <1>6, <1>7, <1>8, <1>10 DEF IInv

LEMMA PlacesStep == IInv /\ [Next]_vars => IInv'
  <1> SUFFICES ASSUME IInv, [Next]_vars PROVE IInv'
    OBVIOUS
  <1>1. Inv'
    BY StepKeeps DEF IInv
  <1>2. CASE UNCHANGED vars
    <2>1. /\ UNCHANGED <<purchases, sessions, count, request, at, hold, refund, notice, tickets>>
          /\ collided' = collided
      BY <1>2 DEF vars, purchaseVars, refundVars
    <2>2. Observed
      <3>1. Debtors' = Debtors /\ count \in Int /\ forestalled' = forestalled
        BY <1>2, <2>1 DEF Debtors, CallOwes, NoticeOwes, Owed, IInv, World, vars
      <3> QED BY <2>1, <3>1 DEF Observed
    <2>3. DocsSteady /\ SessionsSteady /\ TicketsSettled /\ Refunds
      BY <2>1, DocsUnchanged, SessionsUnchanged, TicketsUnchanged, RefundsUnchanged
    <2> QED BY <1>1, <2>1, <2>2, <2>3, OthersKeep
  <1>3. CASE Progress /\ Observe(FALSE)
    <2>1. Observed
      BY <1>3, Observes
    <2>2. ASSUME NEW c \in Calls, Step(c) PROVE IInv'
      <3>1. CASE RefundStep(c) \/ TicketStep(c)
        BY <1>1, <2>1, <3>1, RefundMoves, TicketMoves, CallKeeps
      <3>2. CASE PurchaseStep(c) /\ UNCHANGED refundVars
        <4>1. CASE Create(c)
          BY <1>1, <2>1, <3>2, <4>1, CreateKeeps
        <4>2. CASE \/ Checkout(c) \/ FindPending(c) \/ ExpireOld(c) \/ ReturnPlace(c)
                   \/ DeleteOld(c) \/ Reserve(c) \/ CreateSession(c) \/ BindSession(c)
                   \/ UndoDelete(c) \/ UndoReturn(c)
          <5>1. CallMoves(c)
            BY <1>1, <3>2, <4>2, CheckoutMoves
          <5> QED BY <1>1, <2>1, <5>1, CallKeeps
        <4>3. CASE \/ Retry(c) \/ ReserveAttempt(c) \/ RetrySession(c) \/ BindAttempt(c)
                   \/ Cancel(c) \/ CancelReturn(c) \/ CancelDelete(c)
                   \/ View(c) \/ ViewFind(c) \/ ViewMatch(c) \/ ViewDelete(c)
          <5>1. CallMoves(c)
            BY <1>1, <3>2, <4>3, RetryMoves
          <5> QED BY <1>1, <2>1, <5>1, CallKeeps
        <4> QED BY <3>2, <4>1, <4>2, <4>3 DEF PurchaseStep
      <3> QED BY <2>2, <3>1, <3>2 DEF Step
    <2>3. ASSUME NEW s \in DOMAIN sessions, UNCHANGED refundVars,
                 Pay(s) \/ HookRead(s) \/ Webhook(s) \/ HookFail(s)
          PROVE  IInv'
      BY <1>1, <2>1, <2>3, WebhookKeeps
    <2>4. ASSUME NEW s \in DOMAIN sessions, NoticeRead(s) \/ Notice(s) \/ NoticeOther(s)
          PROVE  IInv'
      BY <1>1, <2>1, <2>4, NoticeReturnKeeps, NoticeKeeps DEF Notice
    <2>5. ASSUME NEW s \in DOMAIN sessions, Settle(s) PROVE IInv'
      BY <1>1, <2>1, <2>5, OtherStepKeeps
    <2>6. ASSUME NEW p \in DOMAIN purchases, Cleanup(p) /\ UNCHANGED refundVars PROVE IInv'
      BY <1>1, <2>1, <2>6, OtherStepKeeps
    <2>7. ASSUME NEW t \in DOMAIN tickets, ExpireTicket(t) PROVE IInv'
      BY <1>1, <2>1, <2>7, OtherStepKeeps
    <2>8. CASE Period /\ UNCHANGED <<refund, reports, notice>>
      BY <1>1, <2>1, <2>8, PeriodKeeps
    <2> QED BY <1>3, <2>2, <2>3, <2>4, <2>5, <2>6, <2>7, <2>8 DEF Progress
  <1>4. ASSUME NEW c \in Calls, Fail(c), Observe(at[c] \in Unrecorded) PROVE IInv'
    <2>1. Observed /\ (at[c] \in Unrecorded => collided')
      BY <1>4, Observes
    <2> QED BY <1>1, <1>4, <2>1, FailMoves, CallKeeps
  <1>5. ASSUME NEW s \in DOMAIN sessions, NoticeFail(s), Observe(notice[s].step = "save")
        PROVE  IInv'
    <2>1. Observed /\ (notice[s].step = "save" => collided')
      BY <1>5, Observes
    <2> QED BY <1>1, <1>5, <2>1, NoticeKeeps
  <1> QED BY <1>2, <1>3, <1>4, <1>5 DEF Next

(* The variables keep their shapes: documents name sessions that exist, a  *)
(* pending purchase has no payment and has not been unenrolled, and Stripe *)
(* opens no more sessions than the bound.                                  *)
THEOREM PurchaseTypesHold == Spec => []TypeOK
  <1>1. IInv => TypeOK
    <2> SUFFICES ASSUME IInv PROVE TypeOK
      OBVIOUS
    <2>1. /\ \A p \in DOMAIN purchases : purchases[p] \in Purchase /\ DocFine(purchases[p])
          /\ \A s \in DOMAIN sessions :
               sessions[s] \in Session /\ sessions[s].purchase \in DOMAIN purchases
      BY Typed DEF IInv, Inv, Names, World
    <2>2. ASSUME NEW c \in Calls
          PROVE  hold[c] \in Held /\ hold[c].purchase \in 0 .. Len(purchases)
      <3>1. hold[c] \in Held /\ CallFine(c)
        BY DEF IInv, Inv, Shapes
      <3>2. hold[c].purchase \in Nat
        BY <3>1 DEF Held
      <3> QED BY <3>1, <3>2, Lengths DEF CallFine, IInv
    <2> QED BY <2>1, <2>2 DEF TypeOK, DocFine, IInv, World
  <1> QED BY PlacesStart, PlacesStep, <1>1, PTL DEF Spec

(* Whatever buys, cancellations, refunds and reports of Stripe overlap, and*)
(* wherever they stop: the count stays within the limit, and covers every  *)
(* purchase with a place, until a place has been given back a second time  *)
(* by a call that was forestalled, or by a call that stopped before it     *)
(* recorded that.                                                          *)
THEOREM PlacesAreNeverOversold == Spec => []PlacesAreKept
  <1>1. IInv => PlacesAreKept
    <2> SUFFICES ASSUME IInv PROVE PlacesAreKept
      OBVIOUS
    <2>1. /\ IsFiniteSet(Places) /\ Cardinality(Places) \in Nat /\ Cardinality(Reserved) \in Nat
      BY PlacesAreFinite DEF IInv
    <2>2. Holders \ Leaving \subseteq Places
      BY DEF Places, Holders
    <2>3. /\ Cardinality(Holders \ Leaving) \in Nat
          /\ Cardinality(Holders \ Leaving) <= Cardinality(Places)
      BY <2>1, <2>2, FS_Subset, FS_CardinalityType
    <2> QED BY <2>1, <2>3 DEF PlacesAreKept, IInv, World, Covered
  <1> QED BY PlacesStart, PlacesStep, <1>1, PTL DEF Spec
=============================================================================
