----------------------------- MODULE EventSignup -----------------------------
(***************************************************************************)
(* Seats of one event: users who sign up, are assigned, moved or removed   *)
(* (controllers/event/RegistrationController.ts), and guests who register  *)
(* (controllers/guest/GuestRegistrationController.ts), with the occupancy  *)
(* of CapacityService and the statistics of the Event pre-save hook.       *)
(*                                                                         *)
(* Each call of the database is one action, and may fail.  Sign-ups and    *)
(* guest registrations run their checks and insert under LockService, a    *)
(* user and a guest under different keys; the other requests take no lock. *)
(* A registration is named by the request that created it.                 *)
(***************************************************************************)
EXTENDS LockService, FiniteSets

CONSTANTS
  KindOf,     \* "signup", "guest", "assign", "move" or "cancel" (also: remove)
  WhoOf,      \* the user or the guest's email
  RoleOf,     \* the role asked for
  FromOf,     \* the role a move leaves
  Roles,
  Capacity,   \* maxParticipants of every role
  MaxRoles,   \* roles a user may sign up for in one event
  Scenarios,  \* the sets of requests that may be made of one event
  MayFail     \* whether calls of the database may fail

ASSUME RequestsAssumption ==
  /\ KindOf \in [Calls -> {"signup", "guest", "assign", "move", "cancel"}]
  /\ RoleOf \in [Calls -> Roles] /\ FromOf \in [Calls -> Roles]
  /\ None \notin Roles
  /\ Capacity \in Nat /\ MaxRoles \in Nat
  /\ Scenarios \subseteq SUBSET Calls
  /\ MayFail \in BOOLEAN

(* The locks are named for the role, sign-ups and guests apart.            *)
ASSUME KeysAssumption ==
  /\ IsFiniteSet(Calls)
  /\ \A r, s \in Calls :
       {KindOf[r], KindOf[s]} \subseteq {"signup", "guest"} =>
         (KeyOf[r] = KeyOf[s] <=> KindOf[r] = KindOf[s] /\ RoleOf[r] = RoleOf[s])

VARIABLES
  stage,      \* the next step of each request, or how it was answered
  seat,       \* the role of the registration each request created
  found,      \* the registration a move has read
  toCount,    \* the collections a request has still to count
  counted,    \* what it counted so far
  loaded,     \* signedUp of the event document it loaded
  signedUp,   \* the statistics in the event document
  together    \* observation: the requests that overlapped each request

eventVars == <<stage, seat, found, toCount, counted, loaded, signedUp, together>>
vars == <<lockVars, eventVars>>

Steps == {"new", "limit", "precheck", "lock", "find", "count", "unique", "save",
          "delete", "tally", "store"}
Answers == {"ok", "refused"}
Stages == Steps \union Answers \union {"absent"}   \* absent: nobody makes the request

Init ==
  /\ LockInit
  /\ \E s \in Scenarios : stage = [r \in Calls |-> IF r \in s THEN "new" ELSE "absent"]
  /\ seat = [r \in Calls |-> None]
  /\ found = [r \in Calls |-> None]
  /\ toCount = [r \in Calls |-> {}]
  /\ counted = [r \in Calls |-> 0]
  /\ loaded = [r \in Calls |-> 0]
  /\ signedUp = 0
  /\ together = [r \in Calls |-> {}]

-----------------------------------------------------------------------------
Table(r) == IF KindOf[r] = "guest" THEN "guests" ELSE "users"

(* Registrations of a collection: of one role, of one person, of both.     *)
Seats(table) == {d \in Calls : seat[d] # None /\ Table(d) = table}
SeatsIn(table, role) == {d \in Seats(table) : seat[d] = role}
SeatsOf(r) == {d \in Seats(Table(r)) : WhoOf[d] = WhoOf[r]}
Same(r, role) == {d \in SeatsOf(r) : seat[d] = role}

Goto(r, step) == stage' = [stage EXCEPT ![r] = step]

(* Fault: a refusal leaves the operation of the lock pending.              *)
FaultAnswer(r, answer) ==
  /\ Goto(r, answer)
  /\ IF Running(r) /\ answer = "ok" THEN Finish(r) ELSE UNCHANGED lockVars

(* The handler ends; under the lock its operation returns or throws.       *)
Answer(r, answer) ==
  /\ Goto(r, answer)
  /\ IF Running(r) THEN Finish(r) ELSE UNCHANGED lockVars

(* A check refuses the request or lets it go on.                           *)
Check(r, refuses, next) ==
  \/ refuses /\ Answer(r, "refused")
  \/ ~refuses /\ Goto(r, next) /\ UNCHANGED lockVars

UnderWay == {r \in Calls : stage[r] \in Steps \ {"new"}}

(* Event.findById and what needs no database.                              *)
Load(r) ==
  /\ stage[r] = "new"
  /\ loaded' = [loaded EXCEPT ![r] = signedUp]
  /\ Goto(r, CASE KindOf[r] = "signup" -> "limit"
               [] KindOf[r] = "guest"  -> "lock"
               [] KindOf[r] = "cancel" -> "delete"
               [] OTHER                -> "find")
  /\ together' = [s \in Calls |->
       IF s = r THEN UnderWay
       ELSE IF s \in UnderWay THEN together[s] \union {r} ELSE together[s]]
  /\ UNCHANGED <<lockVars, seat, found, toCount, counted, signedUp>>

(* Before the lock: the limit of roles per user, then the capacity.        *)
CheckLimit(r) ==
  /\ stage[r] = "limit"
  /\ Check(r, Cardinality(SeatsOf(r)) >= MaxRoles, "precheck")
  /\ UNCHANGED <<seat, found, toCount, counted, loaded, signedUp, together>>

Precheck(r) ==
  /\ stage[r] = "precheck"
  /\ Check(r, Cardinality(SeatsIn("users", RoleOf[r])) >= Capacity, "lock")
  /\ UNCHANGED <<seat, found, toCount, counted, loaded, signedUp, together>>

(* The counts that decide: getRoleOccupancy counts users and guests, in    *)
(* any order; the others count users only.                                 *)
StartCount(r) ==
  /\ toCount' = [toCount EXCEPT ![r] =
       IF KindOf[r] = "guest" THEN {"users", "guests"} ELSE {"users"}]
  /\ counted' = [counted EXCEPT ![r] = 0]
  /\ Goto(r, "count")

(* Fault: off by one.                                                      *)
FaultFull(r, count) == count > Capacity

(* Fault: a sign-up trusts the check it made before it had the lock.       *)
FaultTrustFull(r, count) == KindOf[r] # "signup" /\ count >= Capacity

(* withLock: the operation begins, waits its turn, or never begins.        *)
Lock(r) ==
  /\ stage[r] = "lock"
  /\ \/ (Enter(r) \/ Resume(r)) /\ StartCount(r)
     \/ Wait(r) /\ UNCHANGED <<stage, toCount, counted>>
     \/ TimeOut(r) /\ Goto(r, "refused") /\ UNCHANGED <<toCount, counted>>
  /\ UNCHANGED <<seat, found, loaded, signedUp, together>>

(* One count returns; after the last one the role is full or it is not.    *)
(* getRoleOccupancy takes a count that fails for zero.                     *)
Full(r, count) == count >= Capacity

Swallows(r) == MayFail /\ KindOf[r] = "guest"

Count(r) ==
  /\ stage[r] = "count"
  /\ \E table \in toCount[r], fails \in {FALSE, Swallows(r)} :
       LET count == counted[r] + IF fails THEN 0 ELSE Cardinality(SeatsIn(table, RoleOf[r])) IN
       /\ toCount' = [toCount EXCEPT ![r] = @ \ {table}]
       /\ counted' = [counted EXCEPT ![r] = count]
       /\ IF toCount[r] # {table}
          THEN UNCHANGED <<stage, lockVars>>
          ELSE Check(r, Full(r, count),
                     IF KindOf[r] \in {"signup", "guest"} THEN "find" ELSE "save")
  /\ UNCHANGED <<seat, found, loaded, signedUp, together>>

(* Under the lock: the same user already holds the role.                   *)
FindDuplicate(r) ==
  /\ stage[r] = "find" /\ KindOf[r] = "signup"
  /\ Check(r, Same(r, RoleOf[r]) # {}, "save")
  /\ UNCHANGED <<seat, found, toCount, counted, loaded, signedUp, together>>

(* The same guest does; a guest goes on if this look-up fails.             *)
FindGuest(r) ==
  /\ stage[r] = "find" /\ KindOf[r] = "guest"
  /\ \E fails \in {FALSE, Swallows(r)} :
       Check(r, ~fails /\ Same(r, RoleOf[r]) # {}, "unique")
  /\ UNCHANGED <<seat, found, toCount, counted, loaded, signedUp, together>>

(* validateGuestUniqueness: a guest holds one role of the event.           *)
CheckGuest(r) ==
  /\ stage[r] = "unique"
  /\ Check(r, Cardinality(SeatsOf(r)) >= 1, "save")
  /\ UNCHANGED <<seat, found, toCount, counted, loaded, signedUp, together>>

(* assignUserToRole answers at once if the user already holds the role.    *)
FindAssigned(r) ==
  /\ stage[r] = "find" /\ KindOf[r] = "assign"
  /\ IF Same(r, RoleOf[r]) # {}
     THEN Goto(r, "ok") /\ UNCHANGED <<toCount, counted>>
     ELSE StartCount(r)
  /\ UNCHANGED <<lockVars, seat, found, loaded, signedUp, together>>

(* moveUserBetweenRoles reads the registration it will change.             *)
FindMoved(r) ==
  /\ stage[r] = "find" /\ KindOf[r] = "move"
  /\ \/ /\ Same(r, FromOf[r]) = {}
        /\ Goto(r, "refused")
        /\ UNCHANGED <<found, toCount, counted>>
     \/ \E d \in Same(r, FromOf[r]) :
        /\ found' = [found EXCEPT ![r] = d]
        /\ StartCount(r)
  /\ UNCHANGED <<lockVars, seat, loaded, signedUp, together>>

(* The registration a save writes: a new one, or the one a move has read.  *)
(* The unique index refuses a second registration of a user for a role,    *)
(* and a registration deleted meanwhile cannot be saved.                   *)
Written(r) == IF KindOf[r] = "move" THEN found[r] ELSE r

Refused(r) ==
  \/ Table(r) = "users" /\ Same(r, RoleOf[r]) \ {Written(r)} # {}
  \/ KindOf[r] = "move" /\ seat[found[r]] = None

Write(r) == ~Refused(r) /\ seat' = [seat EXCEPT ![Written(r)] = RoleOf[r]]

Save(r) ==
  /\ stage[r] = "save" /\ KindOf[r] # "guest"
  /\ \/ Refused(r) /\ Answer(r, "refused") /\ UNCHANGED seat
     \/ Write(r) /\ Goto(r, "tally") /\ UNCHANGED lockVars
  /\ UNCHANGED <<found, toCount, counted, loaded, signedUp, together>>

(* A guest's registration is inserted unconditionally and leaves the event *)
(* document alone; the snapshot of the event it carries is not modelled.   *)
SaveGuest(r) ==
  /\ stage[r] = "save" /\ KindOf[r] = "guest"
  /\ Write(r)
  /\ Answer(r, "ok")
  /\ UNCHANGED <<found, toCount, counted, loaded, signedUp, together>>

(* cancelSignup and removeUserFromRole: findOneAndDelete.                  *)
Remove(r) == \E d \in Same(r, RoleOf[r]) : seat' = [seat EXCEPT ![d] = None]

Delete(r) ==
  /\ stage[r] = "delete"
  /\ \/ Same(r, RoleOf[r]) = {} /\ Goto(r, "refused") /\ UNCHANGED seat
     \/ Remove(r) /\ Goto(r, "tally")
  /\ UNCHANGED <<lockVars, found, toCount, counted, loaded, signedUp, together>>

(* event.save: the pre-save hook counts the registrations, and the value   *)
(* is written if it differs from the one the document was loaded with.     *)
Tally(r) ==
  /\ stage[r] = "tally"
  /\ counted' = [counted EXCEPT ![r] = Cardinality(Seats("users"))]
  /\ Goto(r, "store")
  /\ UNCHANGED <<lockVars, seat, found, toCount, loaded, signedUp, together>>

StoreCount(r) == signedUp' = IF counted[r] # loaded[r] THEN counted[r] ELSE signedUp

Store(r) ==
  /\ stage[r] = "store"
  /\ StoreCount(r)
  /\ Answer(r, "ok")
  /\ UNCHANGED <<seat, found, toCount, counted, loaded, together>>

(* A call of the database fails, and with it the request; a write may have *)
(* been applied all the same.  A guest's look-ups fail silently (above).   *)
Fail(r) ==
  /\ MayFail
  /\ stage[r] \in Steps \ {"new", "lock"}
  /\ KindOf[r] = "guest" => stage[r] \notin {"count", "find"}
  /\ Answer(r, "refused")
  /\ \/ UNCHANGED <<seat, signedUp>>
     \/ stage[r] = "save" /\ Write(r) /\ UNCHANGED signedUp
     \/ stage[r] = "delete" /\ Remove(r) /\ UNCHANGED signedUp
     \/ stage[r] = "store" /\ StoreCount(r) /\ UNCHANGED seat
  /\ UNCHANGED <<found, toCount, counted, loaded, together>>

Step(r) ==
  \/ CheckLimit(r) \/ Precheck(r) \/ Lock(r) \/ Count(r) \/ FindDuplicate(r)
  \/ FindGuest(r) \/ CheckGuest(r) \/ FindAssigned(r) \/ FindMoved(r)
  \/ Save(r) \/ SaveGuest(r) \/ Delete(r) \/ Tally(r) \/ Store(r)

Next == \E r \in Calls : Load(r) \/ Step(r) \/ Fail(r)

Spec == Init /\ [][Next]_vars

(* The database answers, promise reactions run and timers fire.            *)
FairSpec == Spec /\ \A r \in Calls : WF_vars(Step(r))

-----------------------------------------------------------------------------
(* The shapes of the variables; only requests that take the lock use it.   *)
TypeOK ==
  /\ LockTypeOK
  /\ stage \in [Calls -> Stages]
  /\ seat \in [Calls -> Roles \union {None}]
  /\ found \in [Calls -> Calls \union {None}]
  /\ toCount \in [Calls -> SUBSET {"users", "guests"}]
  /\ counted \in [Calls -> 0 .. 2 * Cardinality(Calls)]
  /\ loaded \in [Calls -> 0 .. Cardinality(Calls)]
  /\ signedUp \in 0 .. Cardinality(Calls)
  /\ together \in [Calls -> SUBSET Calls]
  /\ \A r \in Calls : Running(r) => stage[r] \in Steps \ {"new", "lock"}

(* "Capacity-safe registration": users and guests together never hold more *)
(* registrations for a role than it has places.                            *)
RoleWithinCapacity ==
  \A role \in Roles :
    Cardinality(SeatsIn("users", role)) + Cardinality(SeatsIn("guests", role)) <= Capacity

(* What holds instead: while users only sign up for a role or leave it,    *)
(* and at most two sign-ups meet, they never hold more of it than its      *)
(* places.  Three can, for the lock lets two of them count together.       *)
SignupsWithinCapacity ==
  \A role \in Roles :
    LET requests == {r \in Calls : stage[r] # "absent" /\ RoleOf[r] = role /\ Table(r) = "users"}
        signups == {r \in requests : KindOf[r] = "signup"} IN
    Cardinality(signups) <= 2 /\ (\A r \in requests : KindOf[r] \in {"signup", "cancel"})
      => Cardinality(SeatsIn("users", role)) <= Capacity

(* The requests that put a registration into the role it has now: the one  *)
(* that created it, or a move, even one whose last calls failed.           *)
Seating(d) ==
  {d} \union {r \in Calls : found[r] = d /\ seat[d] = RoleOf[r]
                            /\ stage[r] \in {"tally", "store"} \union Answers}

(* Users overbook a role only if requests overlapped: as long as requests  *)
(* are answered one after another, every path into a role, locked or not,  *)
(* respects its places.                                                    *)
OverbookingNeedsOverlap ==
  \A role \in Roles :
    Cardinality(SeatsIn("users", role)) > Capacity =>
      \E d, e \in SeatsIn("users", role) :
        d # e /\ \E q \in Seating(d), r \in Seating(e) : q \in together[r]

GuestsFor(role) ==
  {r \in Calls : stage[r] # "absent" /\ KindOf[r] = "guest" /\ RoleOf[r] = role}

(* "One role per event" for a guest's email, and the limit of roles for a  *)
(* user: both are checked before the lock, or under a lock that names the  *)
(* role, so only requests that overlapped can pass them together.  The     *)
(* same role twice, which no index of the database refuses a guest, takes  *)
(* three requests for the role, of which the lock lets two go on together. *)
RoleLimitNeedsOverlap ==
  /\ \A d, e \in Seats("guests") :
       WhoOf[d] = WhoOf[e] /\ d # e =>
         /\ e \in together[d]
         /\ seat[d] = seat[e] => Cardinality(GuestsFor(seat[d])) > 2
  /\ \A s \in Seats("users") :
       LET signups == {d \in SeatsOf(s) : KindOf[d] = "signup"} IN
       Cardinality(signups) > MaxRoles => \E d, e \in signups : e \in together[d]

(* Every request is answered in the end, whatever it waits for.            *)
EveryRequestIsAnswered == \A r \in Calls : stage[r] \in Steps \ {"new"} ~> stage[r] \in Answers
=============================================================================
