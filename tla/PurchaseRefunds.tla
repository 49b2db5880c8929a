--------------------------- MODULE PurchaseRefunds ---------------------------
(***************************************************************************)
(* Refunds of the purchases of a program: by the user within the refund    *)
(* window (controllers/purchase/PurchaseRefundController.ts, controllers/  *)
(* programs/SelfUnenrollController.ts), by the approval of an administra-  *)
(* tor after it (services/RefundRequestService.ts), and as Stripe reports  *)
(* them (handleRefundUpdated of controllers/webhookController.ts).         *)
(*                                                                         *)
(* A payment has the name of its session.  Stripe refuses a refund while   *)
(* another of the payment is pending or has succeeded.  It may repeat its  *)
(* reports and reorder them, but delivers those of one payment one at a    *)
(* time.  A refund request is named in the order of creation.              *)
(***************************************************************************)
EXTENDS ProgramPurchases

VARIABLES
  refund,       \* of each payment, as Stripe knows it
  reports,      \* the states of it that Stripe reports
  notice,       \* the webhook that handles a report
  tickets,      \* the refund requests
  forestalled,  \* observation: who still owes a place that another has given back
  collided      \* observation: a place was given back twice, or by a call that stopped

refundVars == <<refund, reports, notice, tickets>>
vars == <<purchaseVars, refundVars, forestalled, collided>>

Payments == 1 .. MaxSessions
Outcomes == {"succeeded", "failed", "canceled"}
NoNotice == [step |-> "idle", rep |-> FALSE, unenrolled |-> FALSE, linked |-> FALSE, again |-> FALSE]

Init ==
  /\ PurchaseInit
  /\ refund = [s \in Payments |-> "none"]
  /\ reports = [s \in Payments |-> {}]
  /\ notice = [s \in Payments |-> NoNotice]
  /\ tickets = <<>>
  /\ forestalled = {}
  /\ collided = FALSE

-----------------------------------------------------------------------------
(* calculateRefundEligibility: what was paid for and not refunded yet; an  *)
(* administrator decides once the window is over.                          *)
Refundable(p) ==
  purchases[p].status \in {"completed", "refund_failed"} /\ purchases[p].intent # 0

AskApproval(p) == Refundable(p) /\ purchases[p].late

(* createApprovalRequest: unless one is waiting when it looks.             *)
Waiting(p) ==
  {t \in DOMAIN tickets : tickets[t].purchase = p /\ tickets[t].status = "pending" /\ ~tickets[t].due}

NewTicket(p) == [purchase |-> p, status |-> "pending", due |-> FALSE, decided |-> FALSE]

(* What a refund by the user does with the purchase it has read.           *)
Answer(c, p) ==
  \/ ~AskApproval(p) /\ Refundable(p) /\ Keep(c, Read(p)) /\ Goto(c, "refund_return")
  \/ AskApproval(p) /\ Keep(c, Read(p)) /\ Goto(c, "ask")

Refund(c) ==
  /\ Begin(c, "refund")
  /\ \/ \E p \in Of(request[c].user) : Answer(c, p)
     \/ Goto(c, "done") /\ UNCHANGED hold
  /\ UNCHANGED <<storeVars, refundVars>>

(* Whoever leaves the program is unenrolled even if nothing was paid.      *)
Unenroll(c) ==
  /\ Begin(c, "unenroll")
  /\ \/ \E p \in Of(request[c].user) :
          /\ purchases[p].status = "completed" /\ ~purchases[p].unenrolled
          /\ \/ Answer(c, p)
             \/ ~Refundable(p) /\ Keep(c, Read(p)) /\ Goto(c, "leave_return")
     \/ ~Enrolled(request[c].user) /\ Goto(c, "done") /\ UNCHANGED hold
  /\ UNCHANGED <<storeVars, refundVars>>

Ask(c) ==
  /\ at[c] = "ask"
  /\ Goto(c, IF Waiting(hold[c].purchase) = {} THEN "ask_create" ELSE "done")
  /\ UNCHANGED <<storeVars, hold, refundVars>>

CreateTicket(c) ==
  /\ at[c] = "ask_create"
  /\ tickets' = Append(tickets, NewTicket(hold[c].purchase))
  /\ Goto(c, "done")
  /\ UNCHANGED <<storeVars, hold, refund, reports, notice>>

(* Fault: the place goes back every time.                                  *)
FaultOwed(read) == read.rep

(* persistPurchaseUnenrollment: the place goes back unless the document,   *)
(* when it was read, had been unenrolled already; then it is saved.        *)
Owed(read) == read.rep /\ ~read.unenrolled

UnenrollReturn(c, from, to) ==
  /\ at[c] = from
  /\ GiveBack(Owed(hold[c]))
  /\ Goto(c, to)
  /\ UNCHANGED <<purchases, sessions, hold, refundVars>>

SaveUnenrolled(p, status) ==
  /\ Exists(p)
  /\ purchases' = [purchases EXCEPT ![p].status = status, ![p].unenrolled = TRUE]

UnenrollSave(c, from, status, to) ==
  /\ at[c] = from
  /\ \/ SaveUnenrolled(hold[c].purchase, status) /\ Goto(c, to)
     \/ ~Exists(hold[c].purchase) /\ Goto(c, "done") /\ UNCHANGED purchases
  /\ UNCHANGED <<sessions, count, hold, refundVars>>

(* The status that a purchase keeps when only its enrollment ends.         *)
Status(c) == purchases[hold[c].purchase].status

(* processRefund: Stripe takes the refund or refuses it; either way the    *)
(* call may be told that it failed.                                        *)
Payment(c) == purchases[hold[c].purchase].intent

Submit(s) ==
  /\ refund[s] \notin {"pending", "succeeded"}
  /\ refund' = [refund EXCEPT ![s] = "pending"]

SubmitRefund(c, from, submitted, refused) ==
  /\ at[c] = from
  /\ \/ Submit(Payment(c)) /\ \E step \in {submitted, refused} : Goto(c, step)
     \/ UNCHANGED refund /\ Goto(c, refused)
  /\ UNCHANGED <<storeVars, hold, reports, notice, tickets>>

(* The status says so, whatever has happened to it meanwhile.              *)
RefundRefused(c) ==
  /\ at[c] = "refused"
  /\ purchases' = IF Exists(hold[c].purchase)
                  THEN [purchases EXCEPT ![hold[c].purchase].status = "refund_failed"]
                  ELSE purchases
  /\ Goto(c, "done")
  /\ UNCHANGED <<sessions, count, hold, refundVars>>

RefundStep(c) ==
  \/ Refund(c) \/ Unenroll(c) \/ Ask(c) \/ CreateTicket(c)
  \/ UnenrollReturn(c, "refund_return", "refund_save")
  \/ UnenrollSave(c, "refund_save", "refund_processing", "submit")
  \/ SubmitRefund(c, "submit", "done", "refused")
  \/ RefundRefused(c)
  \/ UnenrollReturn(c, "leave_return", "leave_save")
  \/ UnenrollSave(c, "leave_save", Status(c), "done")

-----------------------------------------------------------------------------
(* RefundRequestService, under the lock of the request.                    *)
Locked(t) == \E c \in Calls : hold[c].ticket = t /\ at[c] # "done"

Decides(c, kind, t) ==
  /\ Begin(c, kind)
  /\ ~Locked(t)

(* approve: Stripe first, then the purchase, then the request.             *)
Approve(c) ==
  /\ \E t \in DOMAIN tickets :
       LET p == tickets[t].purchase
           open == tickets[t].status = "pending" /\ ~tickets[t].due IN
       /\ Decides(c, "approve", t)
       /\ \/ /\ open /\ Exists(p) /\ Refundable(p)
             /\ Keep(c, [Read(p) EXCEPT !.ticket = t])
             /\ Goto(c, "approve_submit") /\ UNCHANGED tickets
          \/ /\ tickets[t].status = "pending" /\ tickets[t].due
             /\ tickets' = [tickets EXCEPT ![t].status = "expired"]
             /\ Goto(c, "done") /\ UNCHANGED hold
          \/ /\ tickets[t].status # "pending" \/ (open /\ ~(Exists(p) /\ Refundable(p)))
             /\ Goto(c, "done") /\ UNCHANGED <<hold, tickets>>
  /\ UNCHANGED <<storeVars, refund, reports, notice>>

DecideTicket(c, from, status) ==
  /\ at[c] = from
  /\ LET ticket == tickets[hold[c].ticket] IN
     tickets' = [tickets EXCEPT ![hold[c].ticket] =
       [ticket EXCEPT !.status = IF ticket.status = "deleted" THEN "deleted" ELSE status,
                      !.decided = TRUE]]
  /\ Goto(c, "done")
  /\ UNCHANGED <<storeVars, hold, refund, reports, notice>>

(* reject: its read and its save are taken together.                       *)
Reject(c) ==
  /\ \E t \in DOMAIN tickets :
       /\ Decides(c, "reject", t)
       /\ tickets' = [tickets EXCEPT ![t].status =
            IF @ # "pending" THEN @ ELSE IF tickets[t].due THEN "expired" ELSE "rejected"]
  /\ Goto(c, "done")
  /\ UNCHANGED <<storeVars, hold, refund, reports, notice>>

(* recordUserDecision: the user leaves without a refund, or stays.         *)
Decide(c) ==
  /\ \E t \in DOMAIN tickets :
       /\ Decides(c, "decide", t)
       /\ \/ /\ tickets[t].status = "rejected" /\ ~tickets[t].decided
             /\ Keep(c, [Read(tickets[t].purchase) EXCEPT !.ticket = t])
             /\ \/ Exists(tickets[t].purchase) /\ Goto(c, "decide_return")
                \/ Goto(c, "decide_record")
          \/ ~(tickets[t].status = "rejected" /\ ~tickets[t].decided) /\ Goto(c, "done") /\ UNCHANGED hold
  /\ UNCHANGED <<storeVars, refundVars>>

TicketStep(c) ==
  \/ Approve(c)
  \/ SubmitRefund(c, "approve_submit", "approve_return", "done")
  \/ UnenrollReturn(c, "approve_return", "approve_save")
  \/ UnenrollSave(c, "approve_save", "refund_processing", "approve_record")
  \/ DecideTicket(c, "approve_record", "approved")
  \/ Reject(c) \/ Decide(c)
  \/ UnenrollReturn(c, "decide_return", "decide_save")
  \/ UnenrollSave(c, "decide_save", Status(c), "decide_record")
  \/ DecideTicket(c, "decide_record", "rejected")

(* Expired when somebody looks or the clean-up runs; finished requests are *)
(* deleted after a while.                                                  *)
ExpireTicket(t) ==
  /\ \/ /\ tickets[t].status = "pending" /\ tickets[t].due
        /\ tickets' = [tickets EXCEPT ![t].status = "expired"]
     \/ /\ \/ tickets[t].status \in {"approved", "expired"}
           \/ tickets[t].status = "rejected" /\ tickets[t].decided
        /\ tickets' = [tickets EXCEPT ![t].status = "deleted"]
  /\ UNCHANGED <<purchaseVars, refund, reports, notice>>

-----------------------------------------------------------------------------
(* Stripe settles a refund, and reports it until it is answered.           *)
Settle(s) ==
  /\ refund[s] = "pending"
  /\ \E outcome \in Outcomes :
       /\ refund' = [refund EXCEPT ![s] = outcome]
       /\ reports' = [reports EXCEPT ![s] = @ \union {outcome}]
  /\ UNCHANGED <<purchaseVars, notice, tickets>>

(* handleRefundUpdated.  Success is taken in steps like an unenrollment;   *)
(* failed and canceled overwrite the status at once.                       *)
Paid(s) == sessions[s].purchase

NoticeStep(s, from, to) ==
  /\ notice[s].step = from
  /\ notice' = [notice EXCEPT ![s] = to]
  /\ UNCHANGED <<request, at, hold, period, failures, refund, reports, tickets>>

(* Fault: success counts only while the purchase is being refunded.        *)
FaultHears(s) == Exists(Paid(s)) /\ purchases[Paid(s)].status = "refund_processing"

Hears(s) == Exists(Paid(s))

NoticeRead(s) ==
  /\ "succeeded" \in reports[s] /\ Hears(s)
  /\ NoticeStep(s, "idle",
       [step |-> "return", rep |-> purchases[Paid(s)].rep,
        unenrolled |-> purchases[Paid(s)].unenrolled, linked |-> purchases[Paid(s)].linked,
        again |-> purchases[Paid(s)].status = "refunded"])
  /\ UNCHANGED storeVars

NoticeReturn(s) ==
  /\ NoticeStep(s, "return", [notice[s] EXCEPT !.step = "save"])
  /\ GiveBack(Owed(notice[s]))
  /\ UNCHANGED <<purchases, sessions>>

(* A save writes what differs from what was read: the status of a purchase *)
(* that was refunded already is not written again.                         *)
NoticeSave(s) ==
  /\ \/ /\ SaveUnenrolled(Paid(s), IF notice[s].again THEN purchases[Paid(s)].status ELSE "refunded")
        /\ NoticeStep(s, "save", [notice[s] EXCEPT !.step = "codes"])
     \/ ~Exists(Paid(s)) /\ NoticeStep(s, "save", NoNotice) /\ UNCHANGED purchases
  /\ UNCHANGED <<sessions, count>>

NoticeCodes(s) ==
  /\ NoticeStep(s, "codes", NoNotice)
  /\ purchases' = IF notice[s].linked THEN [purchases EXCEPT ![Paid(s)].codes = 0] ELSE purchases
  /\ UNCHANGED <<sessions, count>>

NoticeOther(s) ==
  /\ Exists(Paid(s))
  /\ \E outcome \in reports[s] \ {"succeeded"} :
       purchases' = [purchases EXCEPT ![Paid(s)].status =
         IF outcome = "failed" THEN "refund_failed" ELSE "completed"]
  /\ NoticeStep(s, "idle", NoNotice)
  /\ UNCHANGED <<sessions, count>>

NoticeFail(s) ==
  /\ notice[s].step # "idle" /\ failures < MaxFailures
  /\ notice' = [notice EXCEPT ![s] = NoNotice]
  /\ failures' = failures + 1
  /\ UNCHANGED <<storeVars, request, at, hold, period, refund, reports, tickets>>

Notice(s) == NoticeReturn(s) \/ NoticeSave(s) \/ NoticeCodes(s)

-----------------------------------------------------------------------------
(* A call of the database fails, or the process dies.                      *)
Fail(c) ==
  /\ at[c] \notin {"new", "done"} /\ failures < MaxFailures
  /\ failures' = failures + 1
  /\ at' = [at EXCEPT ![c] = "done"]
  /\ UNCHANGED <<storeVars, request, hold, period, refundVars>>

Period == Age /\ tickets' = [t \in DOMAIN tickets |-> [tickets[t] EXCEPT !.due = TRUE]]

(* The steps of a call that has read a purchase and will give its place    *)
(* back, or will if Stripe fails; those of one that has given it back and  *)
(* must still record it.                                                   *)
Returning == {"expire", "return", "session", "bind", "undo", "undo_return",
              "cancel_return", "refund_return", "leave_return",
              "approve_submit", "approve_return", "decide_return"}
Unrecorded == {"delete", "cancel_delete", "refund_save", "leave_save", "approve_save", "decide_save"}

(* The purchases that have a place of a class representative, and those    *)
(* whose place has gone back but which do not show it yet.                 *)
Holders ==
  {p \in DOMAIN purchases : Exists(p) /\ purchases[p].rep /\ ~purchases[p].unenrolled}

Leaving ==
  {hold[c].purchase : c \in {d \in Calls : at[d] \in Unrecorded}}
    \union {Paid(s) : s \in {t \in DOMAIN sessions : notice[t].step = "save"}}

(* Who owes a place, and the purchase whose place it is.                   *)
CallOwes(c) == at[c] \in Returning /\ Owed(hold[c])
NoticeOwes(s) == notice[s].step = "return" /\ Owed(notice[s])

Debtors ==
  {<<"call", c>> : c \in {d \in Calls : CallOwes(d)}}
    \union {<<"notice", s>> : s \in {t \in DOMAIN sessions : NoticeOwes(t)}}

PlaceOf(x) == IF x[1] = "call" THEN hold[x[2]].purchase ELSE Paid(x[2])

(* A debtor is forestalled who has read a purchase after another gave back *)
(* its place and before it was recorded, or whose place another gives back *)
(* meanwhile.  When it then gives the place back too, or when a call stops *)
(* before recording what it gave back, the count may fall below the places.*)
Observe(stopped) ==
  LET gone == IF count' < count THEN {PlaceOf(x) : x \in Debtors \ Debtors'} ELSE {} IN
  /\ forestalled' = {x \in Debtors' : x \in forestalled \/ PlaceOf(x)' \in Leaving' \union gone}
  /\ collided' = (\/ collided \/ stopped
                  \/ count' < count /\ \E x \in forestalled : x \notin Debtors')

Step(c) == (PurchaseStep(c) /\ UNCHANGED refundVars) \/ RefundStep(c) \/ TicketStep(c)

Progress ==
  \/ \E c \in Calls : Step(c)
  \/ \E s \in DOMAIN sessions :
       \/ (Pay(s) \/ HookRead(s) \/ Webhook(s) \/ HookFail(s)) /\ UNCHANGED refundVars
       \/ Settle(s) \/ NoticeRead(s) \/ Notice(s) \/ NoticeOther(s)
  \/ \E p \in DOMAIN purchases : Cleanup(p) /\ UNCHANGED refundVars
  \/ \E t \in DOMAIN tickets : ExpireTicket(t)
  \/ Period /\ UNCHANGED <<refund, reports, notice>>

Next ==
  \/ Progress /\ Observe(FALSE)
  \/ \E c \in Calls : Fail(c) /\ Observe(at[c] \in Unrecorded)
  \/ \E s \in DOMAIN sessions : NoticeFail(s) /\ Observe(notice[s].step = "save")

Spec == Init /\ [][Next]_vars

(* Stripe repeats an event until it is answered, and only so many          *)
(* deliveries stop half-way.                                               *)
FairSpec ==
  /\ Spec
  /\ \A s \in Payments :
       /\ WF_vars(s \in DOMAIN sessions /\ (HookRead(s) \/ Webhook(s)) /\ UNCHANGED refundVars /\ Observe(FALSE))
       /\ WF_vars(s \in DOMAIN sessions /\ (NoticeRead(s) \/ Notice(s)) /\ Observe(FALSE))

-----------------------------------------------------------------------------
(* The shapes of the variables.                                            *)
TypeOK ==
  /\ \A p \in DOMAIN purchases :
       LET d == purchases[p] IN
       /\ d \in Purchase
       /\ d.session \in 0 .. Len(sessions) /\ d.intent \in 0 .. Len(sessions)
       /\ d.status = "pending" => d.intent = 0 /\ ~d.unenrolled
  /\ Len(sessions) <= MaxSessions
  /\ \A s \in DOMAIN sessions :
       sessions[s] \in Session /\ sessions[s].purchase \in DOMAIN purchases
  /\ \A c \in Calls : hold[c] \in Held /\ hold[c].purchase \in 0 .. Len(purchases)
  /\ count \in Int
  /\ refund \in [Payments -> {"none", "pending"} \union Outcomes]

(* Places are never oversold: the count stays within the limit, and covers *)
(* every purchase with a place - however checkouts, cancellations, refunds *)
(* and reports overlap, until a place has been given back a second time by *)
(* a call that read the purchase before the first was recorded, or a call  *)
(* has stopped between giving a place back and recording it.               *)
PlacesAreKept ==
  /\ count <= Limit
  /\ ~collided => Cardinality(Holders \ Leaving) <= count

(* "Duplicate webhook delivery cannot duplicate fulfillment": however the  *)
(* events of the sessions of a purchase are repeated and interleaved, at   *)
(* most one bundle code comes of it.                                       *)
FulfilledOnce == \A p \in DOMAIN purchases : purchases[p].codes <= 1

(* What is paid for is completed in the end, by whichever session: no      *)
(* retry, failure or repetition leaves a paid purchase pending (it may     *)
(* have been deleted: see CancelsOnlyPending).                             *)
Unanswered(s) ==
  /\ s \in DOMAIN sessions /\ sessions[s].status = "paid"
  /\ purchases[Paid(s)].status = "pending"
PaidCompletes == \A s \in Payments : Unanswered(s) ~> ~Unanswered(s)

(* Who has the money back is unenrolled in the end, even if the call that  *)
(* asked for the refund stopped right after Stripe took it.                *)
Ended(s) == s \in DOMAIN sessions /\ (~Exists(Paid(s)) \/ purchases[Paid(s)].unenrolled)
ReturnedMoneyEndsEnrollment == \A s \in Payments : refund[s] = "succeeded" ~> Ended(s)

(* "Only allows deleting pending purchases": a cancellation never deletes  *)
(* a purchase that has been paid and completed.                            *)
CancelsOnlyPending ==
  [][\A c \in Calls : CancelDelete(c) =>
       purchases[hold[c].purchase].status \in {"pending", "deleted"}]_vars
=============================================================================
