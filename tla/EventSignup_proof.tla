-------------------------- MODULE EventSignup_proof --------------------------
(***************************************************************************)
(* Users who only sign up for a role or leave it never hold more of it     *)
(* than its places, whoever else does what with other roles, whichever     *)
(* calls of the database fail, as long as at most two sign-ups meet: what  *)
(* a sign-up counts under the lock stays true until it inserts, because    *)
(* nothing but a sign-up for the same role inserts into the role, and the  *)
(* lock excludes the only other one; the hand-over that lets two run       *)
(* together needs a third that has ended.                                  *)
(*                                                                         *)
(* Any other mix of requests overbooks a role, or passes a limit of roles, *)
(* only if requests overlapped (second part).                              *)
(***************************************************************************)
EXTENDS EventSignup, LockService_proof, FiniteSetTheorems

(* The requests of users that concern a role, and the sign-ups among them. *)
Asked(role) == {r \in Calls : stage[r] # "absent" /\ RoleOf[r] = role /\ Table(r) = "users"}
Signups(role) == {r \in Asked(role) : KindOf[r] = "signup"}

Asking(kind, role) == {r \in Calls : stage[r] # "absent" /\ RoleOf[r] = role /\ KindOf[r] = kind}

OnlySignups(role) ==
  /\ Cardinality(Signups(role)) <= 2
  /\ \A r \in Asked(role) : KindOf[r] \in {"signup", "cancel"}

Taken(role) == Cardinality(SeatsIn("users", role))

(* Requests that take the lock.                                            *)
Locked(r) == KindOf[r] \in {"signup", "guest"}

(* The steps of each kind of request; those under the lock, if it takes    *)
(* one; those at which a sign-up has counted but not inserted.             *)
StepsOf(r) ==
  CASE KindOf[r] = "signup" -> Steps \ {"unique", "delete"}
    [] KindOf[r] = "guest"  -> Steps \ {"limit", "precheck", "delete", "tally", "store"}
    [] KindOf[r] = "cancel" -> {"new", "delete", "tally", "store"}
    [] OTHER                -> Steps \ {"limit", "precheck", "lock", "unique", "delete"}

Enclosed == {"count", "find", "unique", "save", "tally", "store"}
Counted == {"find", "save"}

Shapes ==
  /\ stage \in [Calls -> Stages]
  /\ seat \in [Calls -> Roles \union {None}]
  /\ found \in [Calls -> Calls \union {None}]
  /\ DOMAIN toCount = Calls /\ DOMAIN counted = Calls

Paths ==
  \A r \in Calls :
    /\ stage[r] \in StepsOf(r) \union Answers \union {"absent"}
    /\ call[r] # "new" => Locked(r) /\ stage[r] # "absent"
    /\ Running(r) <=> Locked(r) /\ stage[r] \in Enclosed
    /\ KindOf[r] # "guest" /\ stage[r] = "count" => toCount[r] = {"users"} /\ counted[r] = 0

(* The places of a role are enough, and one is left for whoever has        *)
(* counted.                                                                *)
Room ==
  \A role \in Roles : OnlySignups(role) =>
    /\ Taken(role) <= Capacity
    /\ \A r \in Signups(role) : stage[r] \in Counted => Taken(role) < Capacity

Inv == LockIInv /\ Shapes /\ Paths /\ Room

-----------------------------------------------------------------------------
(* What any step of a request r does to the parts the invariant is about.  *)
Effect(r, next) ==
  /\ stage[r] # "absent"
  /\ stage' = [stage EXCEPT ![r] = next]
  /\ \/ UNCHANGED lockVars /\ (Locked(r) => (next \in Enclosed <=> stage[r] \in Enclosed))
     \/ next \in Answers /\ Finish(r)
     \/ stage[r] = "lock" /\ (Enter(r) \/ Resume(r)) /\ next = "count"
     \/ stage[r] = "lock" /\ (Wait(r) \/ TimeOut(r)) /\ next \in {"lock", "refused"}
  /\ DOMAIN toCount' = Calls /\ DOMAIN counted' = Calls
  /\ \A s \in Calls \ {r} : toCount'[s] = toCount[s] /\ counted'[s] = counted[s]
  /\ KindOf[r] # "guest" /\ next = "count" => toCount'[r] = {"users"} /\ counted'[r] = 0
  /\ KindOf[r] = "signup" /\ next \in Counted =>
       stage[r] \in Counted \/ Taken(RoleOf[r]) < Capacity
  /\ found' \in [Calls -> Calls \union {None}]

(* The seats it leaves alone, frees, or takes.                             *)
SeatEffect(r, next) ==
  /\ seat' \in [Calls -> Roles \union {None}]
  /\ \A d \in Calls :
       \/ seat'[d] = seat[d]
       \/ seat'[d] = None
       \/ /\ stage[r] = "save" /\ next \notin Counted
          /\ d = Written(r) /\ seat'[d] = RoleOf[r]

LEMMA SeatsSame ==
  ASSUME Inv, UNCHANGED seat, NEW r, NEW next
  PROVE  SeatEffect(r, next)
  BY DEF Inv, Shapes, SeatEffect

LEMMA SeatsWritten ==
  ASSUME Inv, NEW r \in Calls, Write(r), stage[r] = "save", NEW next, next \notin Counted
  PROVE  SeatEffect(r, next)
  BY RequestsAssumption DEF Inv, Shapes, SeatEffect, Write

LEMMA SeatsRemoved ==
  ASSUME Inv, NEW r \in Calls, Remove(r), NEW next
  PROVE  SeatEffect(r, next)
  BY DEF Inv, Shapes, SeatEffect, Remove

-----------------------------------------------------------------------------
(* At most two sign-ups: two that run at once would need a third that has  *)
(* ended.                                                                  *)
LEMMA ThreeAreMore ==
  ASSUME NEW S, IsFiniteSet(S), NEW a \in S, NEW b \in S, NEW c \in S,
         a # b, b # c, a # c
  PROVE  Cardinality(S) > 2
  <1>1. IsFiniteSet({a}) /\ Cardinality({a}) = 1
    BY FS_Singleton
  <1>2. IsFiniteSet({a} \union {b}) /\ Cardinality({a} \union {b}) = 2
    <2>1. Cardinality({a} \union {b}) = Cardinality({a}) + 1
      <3>1. b \notin {a}
        OBVIOUS
      <3> QED BY <1>1, <3>1, FS_AddElement
    <2>2. IsFiniteSet({a} \union {b})
      BY <1>1, FS_AddElement
    <2> QED BY <1>1, <2>1, <2>2
  <1>3. Cardinality({a} \union {b} \union {c}) = 3
    <2>1. c \notin {a} \union {b}
      OBVIOUS
    <2>2. Cardinality({a} \union {b} \union {c}) = Cardinality({a} \union {b}) + 1
      BY <1>2, <2>1, FS_AddElement
    <2> QED BY <1>2, <2>2
  <1>4. Cardinality({a} \union {b} \union {c}) <= Cardinality(S) /\ Cardinality(S) \in Nat
    BY FS_Subset, FS_CardinalityType
  <1> QED BY <1>3, <1>4

LEMMA TwoExclude ==
  ASSUME Inv, NEW kind \in {"signup", "guest"}, NEW role,
         Cardinality(Asking(kind, role)) <= 2,
         NEW a \in Asking(kind, role), NEW b \in Asking(kind, role), Running(a), Running(b)
  PROVE  a = b
  <1> SUFFICES ASSUME a # b PROVE FALSE
    OBVIOUS
  <1>1. a \in Calls /\ b \in Calls /\ KeyOf[a] = KeyOf[b]
    BY KeysAssumption DEF Asking
  <1>2. \E e \in Calls : KeyOf[e] = KeyOf[a] /\ call[e] = "ended"
    BY <1>1 DEF Inv, LockIInv, RunnerIsTheEntry
  <1> PICK e \in Calls : KeyOf[e] = KeyOf[a] /\ call[e] = "ended"
    BY <1>2
  <1>3. e # a /\ e # b
    BY DEF Running
  <1>4. Locked(e) /\ stage[e] # "absent"
    BY DEF Inv, Paths
  <1>5. KindOf[e] = kind /\ RoleOf[e] = role
    BY <1>1, <1>4, KeysAssumption DEF Asking, Locked
  <1>6. e \in Asking(kind, role)
    BY <1>4, <1>5 DEF Asking
  <1>7. IsFiniteSet(Asking(kind, role))
    BY KeysAssumption, FS_Subset DEF Asking
  <1>8. Cardinality(Asking(kind, role)) > 2
    BY <1>3, <1>6, <1>7, ThreeAreMore
  <1>9. Cardinality(Asking(kind, role)) \in Nat
    BY <1>7, FS_CardinalityType
  <1> QED BY <1>8, <1>9

-----------------------------------------------------------------------------
(* Whatever has such effects keeps the invariant.                          *)
LEMMA EffectKeeps ==
  ASSUME Inv, NEW r \in Calls, NEW next \in StepsOf(r) \union Answers,
         Effect(r, next), SeatEffect(r, next)
  PROVE  Inv'
  <1> USE DEF Inv
  <1>1. next \in Stages /\ next # "absent"
    BY DEF StepsOf, Stages, Steps, Answers
  <1>2. Shapes'
    BY <1>1 DEF Shapes, Effect, SeatEffect
  <1>3. LockIInv'
    <2>1. [LockNext]_lockVars
      BY DEF Effect, LockNext
    <2> QED BY <2>1, LockStepPreserves
  <1>4. \A s \in Calls \ {r} : stage'[s] = stage[s] /\ call'[s] = call[s]
    BY DEF Effect, Shapes, LockIInv, LockTypeOK, lockVars, Finish, Enter, Resume, Wait, TimeOut,
           Execute
  <1>5. stage'[r] = next
    BY DEF Effect, Shapes
  <1>6. Paths'
    <2> SUFFICES ASSUME NEW s \in Calls
                 PROVE  /\ stage'[s] \in StepsOf(s) \union Answers \union {"absent"}
                        /\ call'[s] # "new" => Locked(s) /\ stage'[s] # "absent"
                        /\ call'[s] = "running" <=> Locked(s) /\ stage'[s] \in Enclosed
                        /\ KindOf[s] # "guest" /\ stage'[s] = "count" =>
                             toCount'[s] = {"users"} /\ counted'[s] = 0
      BY DEF Paths, Running, StepsOf, Locked
    <2>1. CASE s # r
      BY <1>4, <2>1 DEF Paths, Effect, Running
    <2>2. CASE s = r
      <3>1. stage'[r] \in StepsOf(r) \union Answers /\ stage'[r] # "absent"
        BY <1>1, <1>5
      <3>2. KindOf[r] # "guest" /\ stage'[r] = "count" =>
              toCount'[r] = {"users"} /\ counted'[r] = 0
        BY <1>5 DEF Effect
      <3>3. CASE UNCHANGED lockVars /\ (Locked(r) => (next \in Enclosed <=> stage[r] \in Enclosed))
        BY <1>5, <2>2, <3>1, <3>2, <3>3 DEF Paths, lockVars, Running
      <3>4. CASE next \in Answers /\ Finish(r)
        <4>1. next \notin Enclosed /\ call[r] # "new" /\ call'[r] = "ended"
          BY <3>4 DEF Answers, Enclosed, Finish, Running, LockIInv, LockTypeOK
        <4> QED BY <1>5, <2>2, <3>1, <3>2, <4>1 DEF Paths
      <3>5. CASE stage[r] = "lock" /\ (Enter(r) \/ Resume(r)) /\ next = "count"
        <4>1. Locked(r) /\ "count" \in Enclosed
          BY <3>5 DEF Paths, StepsOf, Answers, Locked, Enclosed
        <4>2. call'[r] = "running"
          BY <3>5 DEF Enter, Resume, Execute, LockIInv, LockTypeOK
        <4> QED BY <1>5, <2>2, <3>1, <3>2, <3>5, <4>1, <4>2
      <3>6. CASE stage[r] = "lock" /\ (Wait(r) \/ TimeOut(r)) /\ next \in {"lock", "refused"}
        <4>1. Locked(r)
          BY <3>6 DEF Paths, StepsOf, Answers, Locked
        <4>2. next \notin Enclosed /\ call'[r] \in {"waiting", "timed out"}
          BY <3>6 DEF Enclosed, Wait, TimeOut, LockIInv, LockTypeOK
        <4> QED BY <1>5, <2>2, <3>1, <3>2, <4>1, <4>2
      <3> QED BY <3>3, <3>4, <3>5, <3>6 DEF Effect
    <2> QED BY <2>1, <2>2
  <1>7. ASSUME NEW role
        PROVE  Asked(role)' = Asked(role) /\ Signups(role)' = Signups(role)
               /\ OnlySignups(role)' = OnlySignups(role)
    <2>1. \A s \in Calls : stage'[s] = "absent" <=> stage[s] = "absent"
      BY <1>1, <1>4, <1>5 DEF Effect
    <2>2. Asked(role)' = Asked(role)
      BY <2>1 DEF Asked, Table
    <2> QED BY <2>2 DEF Signups, OnlySignups
  <1>8. \A role : /\ IsFiniteSet(SeatsIn("users", role)) /\ IsFiniteSet(SeatsIn("users", role)')
                  /\ Taken(role) \in Nat /\ Taken(role)' \in Nat
    <2>1. \A role : /\ SeatsIn("users", role) \subseteq Calls
                    /\ SeatsIn("users", role)' \subseteq Calls
      BY DEF SeatsIn, Seats
    <2> QED BY <2>1, KeysAssumption, FS_Subset, FS_CardinalityType DEF Taken
  <1>9. ASSUME NEW role \in Roles, OnlySignups(role)
        PROVE  /\ Taken(role)' <= Capacity
               /\ \A s \in Signups(role) : stage'[s] \in Counted => Taken(role)' < Capacity
    <2>0. Capacity \in Nat /\ role # None
      BY RequestsAssumption
    <2>1. CASE SeatsIn("users", role)' \subseteq SeatsIn("users", role)
      <3>1. Taken(role)' <= Taken(role)
        BY <1>8, <2>1, FS_Subset DEF Taken
      <3>2. ASSUME NEW s \in Signups(role), stage'[s] \in Counted
            PROVE  Taken(role) < Capacity
        <4>1. s \in Calls /\ KindOf[s] = "signup" /\ RoleOf[s] = role
          BY DEF Signups, Asked
        <4>2. CASE s = r
          BY <1>5, <1>9, <3>2, <4>1, <4>2 DEF Effect, Room
        <4>3. CASE s # r
          BY <1>4, <1>9, <3>2, <4>1, <4>3 DEF Room
        <4> QED BY <4>2, <4>3
      <3>3. Taken(role) <= Capacity
        BY <1>9 DEF Room
      <3> QED BY <1>8, <2>0, <3>1, <3>2, <3>3
    <2>2. CASE ~(SeatsIn("users", role)' \subseteq SeatsIn("users", role))
      <3>1. PICK d \in Calls : seat'[d] = role /\ seat[d] # role /\ Table(d) = "users"
        BY <2>0, <2>2 DEF SeatsIn, Seats, Table
      <3>2. stage[r] = "save" /\ next \notin Counted /\ d = Written(r) /\ RoleOf[r] = role
        BY <2>0, <3>1 DEF SeatEffect
      <3>3. Table(r) = "users"
        BY <3>1, <3>2 DEF Written, Table
      <3>4. r \in Signups(role) /\ d = r
        <4>1. r \in Asked(role)
          BY <3>2, <3>3 DEF Asked
        <4>2. KindOf[r] \in {"signup", "cancel"}
          BY <1>9, <4>1 DEF OnlySignups
        <4>3. KindOf[r] # "cancel"
          BY <3>2 DEF Paths, StepsOf, Answers
        <4> QED BY <3>2, <4>1, <4>2, <4>3 DEF Signups, Written
      <3>5. Running(r) /\ Taken(role) < Capacity
        BY <1>9, <3>2, <3>4 DEF Paths, Locked, Enclosed, Counted, Room, Signups
      <3>6. SeatsIn("users", role)' \subseteq SeatsIn("users", role) \union {r}
        BY <2>0, <3>4, <3>2 DEF SeatsIn, Seats, SeatEffect, Table
      <3>7. Taken(role)' <= Taken(role) + 1
        <4>1. /\ IsFiniteSet(SeatsIn("users", role) \union {r})
              /\ Cardinality(SeatsIn("users", role) \union {r}) <= Taken(role) + 1
          <5>1. IsFiniteSet(SeatsIn("users", role)) /\ Cardinality(SeatsIn("users", role)) \in Nat
            BY <1>8 DEF Taken
          <5> QED BY <5>1, FS_AddElement DEF Taken
        <4>2. Taken(role)' <= Cardinality(SeatsIn("users", role) \union {r})
          BY <3>6, <4>1, FS_Subset DEF Taken
        <4>3. Cardinality(SeatsIn("users", role) \union {r}) \in Nat
          BY <4>1, FS_CardinalityType
        <4> QED BY <1>8, <4>1, <4>2, <4>3
      <3>8. ASSUME NEW s \in Signups(role), stage'[s] \in Counted
            PROVE  FALSE
        <4>1. s \in Calls /\ KindOf[s] = "signup"
          BY DEF Signups, Asked
        <4>2. s # r
          BY <1>5, <3>2, <3>8
        <4>3. Running(s)
          BY <1>4, <3>8, <4>1, <4>2 DEF Paths, Locked, Counted, Enclosed
        <4>4. Signups(role) = Asking("signup", role)
          BY DEF Signups, Asked, Asking, Table
        <4> QED BY <1>9, <3>4, <3>5, <4>2, <4>3, <4>4, TwoExclude DEF OnlySignups
      <3> QED BY <1>8, <2>0, <3>5, <3>7, <3>8
    <2> QED BY <2>1, <2>2
  <1>10. Room'
    BY <1>7, <1>9 DEF Room
  <1> QED BY <1>2, <1>3, <1>6, <1>10

-----------------------------------------------------------------------------
(* Each step has such effects.                                             *)
Keeps(r) ==
  \E next \in StepsOf(r) \union Answers : Effect(r, next) /\ SeatEffect(r, next)

(* A step that only goes on, without the lock.                             *)
LEMMA GoesOn ==
  ASSUME Inv, NEW r \in Calls, stage[r] # "absent", NEW next \in StepsOf(r) \union Answers,
         Goto(r, next), UNCHANGED <<lockVars, found, toCount, counted>>, SeatEffect(r, next),
         Locked(r) => (next \in Enclosed <=> stage[r] \in Enclosed),
         KindOf[r] # "guest" => next # "count",
         KindOf[r] = "signup" /\ next \in Counted =>
           stage[r] \in Counted \/ Taken(RoleOf[r]) < Capacity
  PROVE  Keeps(r)
  <1>1. Effect(r, next)
    BY DEF Inv, Shapes, Goto, Effect, lockVars, Enclosed
  <1> QED BY <1>1 DEF Keeps

LEMMA Answered ==
  ASSUME Inv, NEW r \in Calls, stage[r] # "absent", NEW answer \in Answers, Answer(r, answer),
         UNCHANGED <<found, toCount, counted>>, SeatEffect(r, answer)
  PROVE  Keeps(r)
  <1>1. answer \notin Enclosed /\ answer # "count" /\ answer \notin Counted
    BY DEF Answers, Enclosed, Counted
  <1>2. ~Running(r) /\ Locked(r) => stage[r] \notin Enclosed
    BY DEF Inv, Paths
  <1>3. Effect(r, answer)
    BY <1>1, <1>2 DEF Inv, Shapes, Answer, Goto, Effect, lockVars
  <1> QED BY <1>3 DEF Keeps

(* A check refuses, or lets the request go on.                             *)
LEMMA Checks ==
  ASSUME Inv, NEW r \in Calls, stage[r] # "absent", NEW next \in StepsOf(r), NEW refuses,
         Check(r, refuses, next),
         UNCHANGED <<seat, found, toCount, counted>>,
         Locked(r) => (next \in Enclosed <=> stage[r] \in Enclosed),
         KindOf[r] # "guest" => next # "count",
         KindOf[r] = "signup" /\ next \in Counted => stage[r] \in Counted
  PROVE  Keeps(r)
  <1>1. CASE Answer(r, "refused")
    BY <1>1, Answered, SeatsSame DEF Answers
  <1>2. CASE Goto(r, next) /\ UNCHANGED lockVars
    BY <1>2, GoesOn, SeatsSame
  <1> QED BY <1>1, <1>2 DEF Check

LEMMA CountStarts ==
  ASSUME Inv, NEW r \in Calls, StartCount(r), KindOf[r] # "guest"
  PROVE  /\ DOMAIN toCount' = Calls /\ DOMAIN counted' = Calls
         /\ \A s \in Calls \ {r} : toCount'[s] = toCount[s] /\ counted'[s] = counted[s]
         /\ toCount'[r] = {"users"} /\ counted'[r] = 0
  BY DEF Inv, Shapes, StartCount

LEMMA StepHasEffect ==
  ASSUME Inv, NEW r \in Calls, Load(r) \/ Step(r) \/ Fail(r)
  PROVE  Keeps(r)
  <1> USE DEF Inv
  <1>1. /\ stage[r] \in StepsOf(r) \union Answers \union {"absent"}
        /\ KindOf[r] \in {"signup", "guest", "assign", "move", "cancel"}
        /\ RoleOf[r] \in Roles /\ found \in [Calls -> Calls \union {None}]
    BY RequestsAssumption DEF Paths, Shapes
  <1>2. \A s \in Steps : s \notin Answers /\ s # "absent"
    BY DEF Steps, Answers
  <1>3. CASE Load(r)
    <2> DEFINE next == CASE KindOf[r] = "signup" -> "limit"
                         [] KindOf[r] = "guest"  -> "lock"
                         [] KindOf[r] = "cancel" -> "delete"
                         [] OTHER                -> "find"
    <2>1. /\ next \in StepsOf(r) /\ next # "count"
          /\ Locked(r) => next \in {"limit", "lock"}
      BY <1>1 DEF StepsOf, Steps, Locked
    <2>2. /\ "limit" \notin Enclosed /\ "limit" \notin Counted
          /\ "lock" \notin Enclosed /\ "lock" \notin Counted /\ "new" \notin Enclosed
      BY DEF Enclosed, Counted
    <2>3. /\ stage[r] = "new" /\ Goto(r, next)
          /\ UNCHANGED <<lockVars, seat, found, toCount, counted>>
      BY <1>3 DEF Load
    <2> HIDE DEF next
    <2>4. /\ Locked(r) => next \notin Enclosed /\ next \notin Counted /\ stage[r] \notin Enclosed
          /\ KindOf[r] = "signup" => Locked(r)
      BY <2>1, <2>2, <2>3 DEF Locked
    <2>5. SeatEffect(r, next)
      BY <2>3, SeatsSame
    <2>6. next \in StepsOf(r) \union Answers
      BY <2>1
    <2>7. UNCHANGED <<lockVars, found, toCount, counted>>
      BY <2>3
    <2>8. stage[r] # "absent" /\ (KindOf[r] # "guest" => next # "count")
      BY <2>1, <2>3
    <2>9. /\ Locked(r) => (next \in Enclosed <=> stage[r] \in Enclosed)
          /\ KindOf[r] = "signup" /\ next \in Counted =>
               stage[r] \in Counted \/ Taken(RoleOf[r]) < Capacity
      BY <2>4
    <2> QED BY <2>3, <2>5, <2>6, <2>7, <2>8, <2>9, GoesOn
  <1>4. CASE CheckLimit(r)
    <2>1. stage[r] = "limit" /\ "precheck" \in StepsOf(r)
      BY <1>1, <1>4 DEF CheckLimit, StepsOf, Steps, Answers
    <2> QED BY <1>4, <2>1, Checks DEF CheckLimit, Enclosed, Counted
  <1>5. CASE Precheck(r)
    <2>1. stage[r] = "precheck" /\ "lock" \in StepsOf(r)
      BY <1>1, <1>5 DEF Precheck, StepsOf, Steps, Answers
    <2> QED BY <1>5, <2>1, Checks DEF Precheck, Enclosed, Counted
  <1>6. CASE Lock(r)
    <2>1. /\ stage[r] = "lock" /\ UNCHANGED <<seat, found>>
          /\ "lock" \in StepsOf(r) /\ "count" \in StepsOf(r) /\ "refused" \in Answers
      BY <1>1, <1>6 DEF Lock, StepsOf, Steps, Answers
    <2>2. \A next : SeatEffect(r, next)
      BY <2>1, SeatsSame
    <2>3. CASE (Enter(r) \/ Resume(r)) /\ StartCount(r)
      <3>1. Effect(r, "count")
        BY <1>1, <2>1, <2>3 DEF Effect, StartCount, Goto, Shapes, Counted
      <3> QED BY <2>1, <2>2, <3>1 DEF Keeps
    <2>4. CASE Wait(r) /\ UNCHANGED <<stage, toCount, counted>>
      <3>1. stage' = [stage EXCEPT ![r] = "lock"]
        BY <2>1, <2>4 DEF Shapes
      <3>2. Effect(r, "lock")
        BY <1>1, <2>1, <2>4, <3>1 DEF Effect, Shapes, Counted
      <3> QED BY <2>1, <2>2, <3>2 DEF Keeps
    <2>5. CASE TimeOut(r) /\ Goto(r, "refused") /\ UNCHANGED <<toCount, counted>>
      <3>1. Effect(r, "refused")
        BY <1>1, <2>1, <2>5 DEF Effect, Goto, Shapes, Counted
      <3> QED BY <2>1, <2>2, <3>1 DEF Keeps
    <2> QED BY <1>6, <2>3, <2>4, <2>5 DEF Lock
  <1>7. CASE Count(r)
    <2>1. /\ stage[r] = "count" /\ UNCHANGED <<seat, found>>
          /\ \A next : SeatEffect(r, next)
      BY <1>7, SeatsSame DEF Count
    <2>2. PICK table \in toCount[r], fails \in {FALSE, Swallows(r)} :
            LET count == counted[r] + IF fails THEN 0 ELSE Cardinality(SeatsIn(table, RoleOf[r])) IN
            /\ toCount' = [toCount EXCEPT ![r] = @ \ {table}]
            /\ counted' = [counted EXCEPT ![r] = count]
            /\ IF toCount[r] # {table}
               THEN UNCHANGED <<stage, lockVars>>
               ELSE Check(r, Full(r, count),
                          IF KindOf[r] \in {"signup", "guest"} THEN "find" ELSE "save")
      BY <1>7 DEF Count
    <2> DEFINE count == counted[r] + IF fails THEN 0 ELSE Cardinality(SeatsIn(table, RoleOf[r]))
               next == IF KindOf[r] \in {"signup", "guest"} THEN "find" ELSE "save"
    <2>3. /\ DOMAIN toCount' = Calls /\ DOMAIN counted' = Calls
          /\ \A s \in Calls \ {r} : toCount'[s] = toCount[s] /\ counted'[s] = counted[s]
      BY <2>2 DEF Shapes
    <2>4. KindOf[r] # "guest" =>
            /\ toCount[r] = {"users"} /\ table = "users" /\ counted[r] = 0
            /\ fails = FALSE
      BY <2>1, <2>2 DEF Paths, Swallows
    <2>5. KindOf[r] # "guest" => count = Taken(RoleOf[r])
      <3>1. IsFiniteSet(SeatsIn("users", RoleOf[r]))
        BY KeysAssumption, FS_Subset DEF SeatsIn, Seats
      <3>2. Cardinality(SeatsIn("users", RoleOf[r])) \in Nat
        BY <3>1, FS_CardinalityType
      <3> QED BY <2>4, <3>2 DEF Taken
    <2>6. CASE toCount[r] # {table}
      <3>1. KindOf[r] = "guest" /\ stage' = [stage EXCEPT ![r] = "count"] /\ UNCHANGED lockVars
        BY <2>1, <2>2, <2>4, <2>6 DEF Shapes
      <3>2. Effect(r, "count")
        BY <1>1, <2>1, <2>3, <3>1 DEF Effect, Counted
      <3>3. "count" \in StepsOf(r) \union Answers
        BY <1>1, <2>1
      <3> QED BY <2>1, <3>2, <3>3 DEF Keeps
    <2>7. CASE toCount[r] = {table} /\ Answer(r, "refused")
      <3>1. ~Running(r) => ~Locked(r)
        BY <2>1 DEF Paths, Enclosed
      <3>2. Effect(r, "refused")
        BY <1>1, <2>1, <2>3, <2>7, <3>1
        DEF Effect, Answer, Goto, Answers, Enclosed, Counted
      <3> QED BY <2>1, <3>2 DEF Keeps, Answers
    <2>8. CASE toCount[r] = {table} /\ ~Full(r, count) /\ Goto(r, next) /\ UNCHANGED lockVars
      <3>1. next \in StepsOf(r)
        BY <1>1, <2>1 DEF StepsOf, Steps, Answers
      <3>2. KindOf[r] # "guest" => Taken(RoleOf[r]) < Capacity
        <4>1. ASSUME KindOf[r] # "guest"
              PROVE  ~(Taken(RoleOf[r]) >= Capacity) /\ Taken(RoleOf[r]) \in Nat
          <5>1. IsFiniteSet(SeatsIn("users", RoleOf[r]))
            BY KeysAssumption, FS_Subset DEF SeatsIn, Seats
          <5> QED BY <2>5, <2>8, <4>1, <5>1, FS_CardinalityType DEF Full, Taken
        <4> QED BY <4>1, RequestsAssumption
      <3>3. next # "count" /\ next \in Enclosed
        BY DEF Enclosed
      <3>4. Goto(r, next) /\ UNCHANGED lockVars
        BY <2>8
      <3> HIDE DEF next
      <3>5. stage[r] \in Enclosed /\ stage[r] # "absent" /\ stage' = [stage EXCEPT ![r] = next]
        BY <2>1, <3>4 DEF Enclosed, Goto
      <3>6. Effect(r, next)
        BY <1>1, <2>1, <2>3, <3>2, <3>3, <3>4, <3>5 DEF Effect
      <3> QED BY <2>1, <3>1, <3>6 DEF Keeps
    <2> QED BY <2>2, <2>6, <2>7, <2>8 DEF Check
  <1>8. CASE FindDuplicate(r)
    <2>1. stage[r] = "find" /\ "save" \in StepsOf(r)
      BY <1>8 DEF FindDuplicate, StepsOf, Steps
    <2> QED BY <1>8, <2>1, Checks DEF FindDuplicate, Enclosed, Counted
  <1>9. CASE FindGuest(r)
    <2>1. stage[r] = "find" /\ "unique" \in StepsOf(r) /\ KindOf[r] = "guest"
      BY <1>9 DEF FindGuest, StepsOf, Steps
    <2> QED BY <1>9, <2>1, Checks DEF FindGuest, Enclosed
  <1>10. CASE CheckGuest(r)
    <2>1. stage[r] = "unique" /\ "save" \in StepsOf(r) /\ KindOf[r] # "signup"
      BY <1>1, <1>10 DEF CheckGuest, StepsOf, Steps, Answers
    <2> QED BY <1>10, <2>1, Checks DEF CheckGuest, Enclosed
  <1>11. CASE FindAssigned(r) \/ FindMoved(r)
    <2>1. /\ stage[r] = "find" /\ KindOf[r] \in {"assign", "move"} /\ ~Locked(r)
          /\ UNCHANGED <<lockVars, seat>> /\ \A next : SeatEffect(r, next)
          /\ "count" \in StepsOf(r) /\ "ok" \in Answers /\ "refused" \in Answers
      BY <1>11, SeatsSame DEF FindAssigned, FindMoved, StepsOf, Steps, Answers, Locked
    <2>2. CASE (Goto(r, "ok") \/ Goto(r, "refused")) /\ UNCHANGED <<found, toCount, counted>>
      BY <2>1, <2>2, GoesOn
    <2>3. CASE StartCount(r) /\ found' \in [Calls -> Calls \union {None}]
      <3>1. Effect(r, "count")
        BY <2>1, <2>3, CountStarts DEF Effect, StartCount, Goto
      <3> QED BY <2>1, <3>1 DEF Keeps
    <2>4. ASSUME NEW d \in Same(r, FromOf[r]), found' = [found EXCEPT ![r] = d]
          PROVE  found' \in [Calls -> Calls \union {None}]
      BY <1>1, <2>4 DEF Same, SeatsOf, Seats
    <2> QED BY <1>1, <1>11, <2>2, <2>3, <2>4 DEF FindAssigned, FindMoved
  <1>12. CASE Save(r)
    <2>1. /\ stage[r] = "save" /\ KindOf[r] # "guest" /\ "refused" \in Answers
          /\ "tally" \notin Counted /\ "tally" # "count"
          /\ stage[r] \in Enclosed /\ "tally" \in Enclosed
      BY <1>12 DEF Save, Answers, Counted, Enclosed
    <2>2. "tally" \in StepsOf(r)
      BY <1>1, <2>1 DEF StepsOf, Steps, Answers
    <2>3. CASE Answer(r, "refused") /\ UNCHANGED seat
      BY <1>12, <2>1, <2>3, Answered, SeatsSame DEF Save
    <2>4. CASE Write(r) /\ Goto(r, "tally") /\ UNCHANGED lockVars
      <3>1. SeatEffect(r, "tally")
        BY <2>1, <2>4, SeatsWritten
      <3> QED BY <1>12, <2>1, <2>2, <2>4, <3>1, GoesOn DEF Save
    <2> QED BY <1>12, <2>3, <2>4 DEF Save
  <1>13. CASE SaveGuest(r)
    <2>1. stage[r] = "save" /\ "ok" \in Answers /\ "ok" \notin Counted
      BY <1>13 DEF SaveGuest, Answers, Counted
    <2>2. SeatEffect(r, "ok")
      BY <1>13, <2>1, SeatsWritten DEF SaveGuest
    <2> QED BY <1>13, <2>1, <2>2, Answered DEF SaveGuest
  <1>14. CASE Delete(r)
    <2>1. /\ stage[r] = "delete" /\ KindOf[r] = "cancel" /\ "refused" \in Answers
          /\ "tally" \in StepsOf(r) /\ ~Locked(r)
      BY <1>1, <1>14 DEF Delete, StepsOf, Steps, Answers, Locked
    <2>2. \A next : SeatEffect(r, next)
      BY <1>14, SeatsSame, SeatsRemoved DEF Delete
    <2> QED BY <1>14, <2>1, <2>2, GoesOn DEF Delete
  <1>15. CASE Tally(r)
    <2>1. /\ stage[r] = "tally" /\ "store" \in StepsOf(r) /\ stage[r] \in Enclosed
          /\ "store" \notin Counted /\ "store" # "count" /\ "store" \in Enclosed
      BY <1>1, <1>15 DEF Tally, StepsOf, Steps, Answers, Counted, Enclosed
    <2>2. SeatEffect(r, "store")
      BY <1>15, SeatsSame DEF Tally
    <2>3. Effect(r, "store")
      BY <1>1, <1>15, <2>1 DEF Tally, Effect, Goto, Shapes
    <2> QED BY <2>1, <2>2, <2>3 DEF Keeps
  <1>16. CASE Store(r)
    <2>1. stage[r] = "store" /\ "ok" \in Answers
      BY <1>16 DEF Store, Answers
    <2> QED BY <1>16, <2>1, SeatsSame, Answered DEF Store
  <1>17. CASE Fail(r)
    <2>1. stage[r] # "absent" /\ "refused" \in Answers /\ "refused" \notin Counted
      BY <1>17 DEF Fail, Steps, Answers, Counted
    <2>2. SeatEffect(r, "refused")
      BY <1>17, <2>1, SeatsSame, SeatsWritten, SeatsRemoved DEF Fail
    <2> QED BY <1>17, <2>1, <2>2, Answered DEF Fail
  <1> QED
    BY <1>3, <1>4, <1>5, <1>6, <1>7, <1>8, <1>9, <1>10, <1>11, <1>12, <1>13, <1>14, <1>15, <1>16,
       <1>17 DEF Step

-----------------------------------------------------------------------------
LEMMA Starts == Init => Inv
  <1> SUFFICES ASSUME Init PROVE Inv
    OBVIOUS
  <1>1. LockIInv
    BY LockInitEstablishes DEF Init
  <1>2. Shapes
    BY DEF Init, Shapes, Stages, Steps
  <1>3. Paths
    BY DEF Init, LockInit, Paths, StepsOf, Steps, Enclosed, Running
  <1>4. \A role \in Roles : SeatsIn("users", role) = {}
    BY RequestsAssumption DEF Init, SeatsIn, Seats
  <1>5. \A role \in Roles : Taken(role) = 0
    BY <1>4, FS_EmptySet DEF Taken
  <1>6. \A r \in Calls : stage[r] \notin Counted
    BY DEF Init, Counted
  <1>7. Room
    BY <1>5, <1>6, RequestsAssumption DEF Room, Signups, Asked
  <1> QED BY <1>1, <1>2, <1>3, <1>7 DEF Inv

LEMMA StepKeeps == Inv /\ [Next]_vars => Inv'
  <1> SUFFICES ASSUME Inv, [Next]_vars PROVE Inv'
    OBVIOUS
  <1>1. CASE UNCHANGED vars
    BY <1>1
    DEF vars, lockVars, eventVars, Inv, LockIInv, LockTypeOK, NoLeakedKey, RunnerIsTheEntry,
        Running, Shapes, Paths, Room, OnlySignups, Signups, Asked, Taken, SeatsIn, Seats
  <1>2. CASE Next
    <2> PICK r \in Calls : Load(r) \/ Step(r) \/ Fail(r)
      BY <1>2 DEF Next
    <2> QED BY StepHasEffect, EffectKeeps DEF Keeps
  <1> QED BY <1>1, <1>2

(* As long as users only sign up for a role or leave it, and at most two   *)
(* sign-ups meet, the role is never overbooked by users, for any numbers   *)
(* of places, roles and requests.                                          *)
THEOREM SignupsRespectCapacity == Spec => []SignupsWithinCapacity
  <1>1. Inv => SignupsWithinCapacity
    BY DEF Inv, Room, OnlySignups, Taken, Signups, Asked, SignupsWithinCapacity
  <1> QED BY Starts, StepKeeps, <1>1, PTL DEF Spec

-----------------------------------------------------------------------------
(* What only overlapping requests can do.  An invariant for it cannot      *)
(* speak of all the registrations of a role: one of an overlapping pair    *)
(* may be removed, and the rest must still be few.  It speaks of every set *)
(* of registrations no two of which came of requests that overlapped: such *)
(* a set respects the limit, and a request that has passed its check has   *)
(* room beside every such set that no request it overlapped made.          *)
Final == {"tally", "store"} \union Answers

(* Who overlapped whom: all those under way at once.                       *)
Met ==
  /\ together \in [Calls -> SUBSET Calls]
  /\ \A r \in Calls : \A q \in together[r] : q # r /\ r \in together[q] /\ stage[q] # "new"
  /\ \A q, r \in UnderWay : q # r => q \in together[r]

(* Who holds a seat has made its last decision; guests never move.         *)
Notes ==
  \A r \in Calls :
    /\ seat[r] # None => stage[r] \in Final
    /\ Table(r) = "guests" => seat[r] \in {None, RoleOf[r]}
    /\ found[r] # None => Table(found[r]) = "users"

Meet(d, e) == \E q \in Seating(d), r \in Seating(e) : q \in together[r]
Apart(S) == \A d, e \in S : d # e => ~Meet(d, e)

(* The steps at which a request of a user has found room for it.           *)
HasCounted(r, step) ==
  \/ KindOf[r] = "signup" /\ step \in {"find", "save"}
  \/ KindOf[r] \in {"assign", "move"} /\ step = "save"

RoomApart ==
  /\ \A role \in Roles : \A S \in SUBSET SeatsIn("users", role) :
       Apart(S) => Cardinality(S) <= Capacity
  /\ \A r \in Calls : HasCounted(r, stage[r]) =>
       \A S \in SUBSET SeatsIn("users", RoleOf[r]) :
         Apart(S) /\ (\A d \in S : \A q \in Seating(d) : q \notin together[r])
           => Cardinality(S) < Capacity

(* The same for the roles one user signed up for.                          *)
PastLimit == {"precheck", "lock", "count", "find", "save"}

SignupSeats(who) == {d \in Seats("users") : KindOf[d] = "signup" /\ WhoOf[d] = who}
Strangers(S) == \A d, e \in S : d # e => e \notin together[d]

LimitApart ==
  /\ \A who : \A S \in SUBSET SignupSeats(who) : Strangers(S) => Cardinality(S) <= MaxRoles
  /\ \A r \in Calls : KindOf[r] = "signup" /\ stage[r] \in PastLimit =>
       \A S \in SUBSET SignupSeats(WhoOf[r]) :
         Strangers(S) /\ (\A d \in S : d \notin together[r]) => Cardinality(S) < MaxRoles

(* A guest who is about to insert knows of no registration but of those    *)
(* whose requests it overlapped, which were in the same role only if three *)
(* asked for it.                                                           *)
GuestsApart ==
  /\ \A d, e \in Seats("guests") :
       WhoOf[d] = WhoOf[e] /\ d # e =>
         /\ e \in together[d]
         /\ seat[d] = seat[e] => Cardinality(GuestsFor(seat[d])) > 2
  /\ \A r \in Calls : KindOf[r] = "guest" /\ stage[r] = "save" =>
       \A e \in SeatsOf(r) :
         /\ e \in together[r]
         /\ seat[e] = RoleOf[r] => Cardinality(GuestsFor(RoleOf[r])) > 2

Sums ==
  /\ toCount \in [Calls -> SUBSET {"users", "guests"}]
  /\ counted \in [Calls -> 0 .. 2 * Cardinality(Calls)]
  /\ loaded \in [Calls -> 0 .. Cardinality(Calls)]
  /\ signedUp \in 0 .. Cardinality(Calls)
  /\ \A r \in Calls :
       /\ stage[r] \in {"count", "store"} => counted[r] <= Cardinality(Calls)
       /\ stage[r] = "count" /\ toCount[r] = {"users", "guests"} => counted[r] = 0

Overlaps == Met /\ Notes /\ RoomApart /\ LimitApart /\ GuestsApart
IInv == Inv /\ Sums /\ Overlaps

-----------------------------------------------------------------------------
(* What any step of a request r does to the parts these invariants are     *)
(* about.                                                                  *)
Meets(r) ==
  [s \in Calls |->
     IF s = r THEN UnderWay
     ELSE IF s \in UnderWay THEN together[s] \union {r} ELSE together[s]]

Finds(r) ==
  /\ stage[r] = "find" /\ KindOf[r] = "move"
  /\ \E d \in Seats("users") : found' = [found EXCEPT ![r] = d]

Removes(r) ==
  /\ stage[r] = "delete"
  /\ \E d \in Calls : seat' = [seat EXCEPT ![d] = None]

(* A check was passed on the registrations as they are.                    *)
Decides(r, next) ==
  /\ HasCounted(r, next) =>
       \/ HasCounted(r, stage[r]) /\ stage[r] # "save"
       \/ UNCHANGED seat /\ Taken(RoleOf[r]) < Capacity
  /\ KindOf[r] = "signup" /\ next \in PastLimit =>
       \/ stage[r] \in PastLimit
       \/ UNCHANGED seat /\ Cardinality(SeatsOf(r)) < MaxRoles
  /\ KindOf[r] = "guest" /\ next = "save" => UNCHANGED seat /\ SeatsOf(r) = {}

Event(r, next) ==
  /\ stage[r] \in Steps /\ next \in (Steps \ {"new"}) \union Answers
  /\ stage' = [stage EXCEPT ![r] = next]
  /\ stage[r] \in {"tally", "store"} => next \in Final
  /\ together' = IF stage[r] = "new" THEN Meets(r) ELSE together
  /\ UNCHANGED found \/ Finds(r)
  /\ UNCHANGED seat \/ Removes(r) \/ (stage[r] = "save" /\ next \in Final /\ Write(r))
  /\ Decides(r, next)

LEMMA StagesDiffer ==
  /\ "new" \notin Answers /\ "absent" \notin Answers /\ "absent" \notin Steps
  /\ Steps \intersect Answers = {}
  /\ "save" \notin Final /\ "find" \notin Final /\ "new" \notin Final /\ "delete" \notin Final
  /\ "count" \notin Final /\ "unique" \notin Final
  /\ Final \subseteq Steps \union Answers
  BY DEF Steps, Answers, Final

(* A count of the users of a role that lets a request go on found room.    *)
LEMMA CountFindsRoom ==
  ASSUME Inv, NEW r \in Calls, Count(r), KindOf[r] # "guest"
  PROVE  \/ Goto(r, "refused")
         \/ /\ Goto(r, IF KindOf[r] = "signup" THEN "find" ELSE "save")
            /\ Taken(RoleOf[r]) < Capacity
  <1>1. stage[r] = "count"
    BY DEF Count
  <1>2. toCount[r] = {"users"} /\ counted[r] = 0 /\ ~Swallows(r)
    BY <1>1 DEF Inv, Paths, Swallows
  <1>3. IsFiniteSet(SeatsIn("users", RoleOf[r]))
    BY KeysAssumption, FS_Subset DEF SeatsIn, Seats
  <1>4. Taken(RoleOf[r]) \in Nat
    BY <1>3, FS_CardinalityType DEF Taken
  <1>5. counted[r] + Cardinality(SeatsIn("users", RoleOf[r])) = Taken(RoleOf[r])
    BY <1>2, <1>4 DEF Taken
  <1>6. \A fails \in {FALSE, Swallows(r)} : fails = FALSE
    BY <1>2 DEF Swallows
  <1>7. Check(r, Full(r, Taken(RoleOf[r])),
              IF KindOf[r] \in {"signup", "guest"} THEN "find" ELSE "save")
    BY <1>2, <1>5, <1>6 DEF Count
  <1>8. ~Full(r, Taken(RoleOf[r])) => Taken(RoleOf[r]) < Capacity
    BY <1>4, RequestsAssumption DEF Full
  <1> QED BY <1>7, <1>8 DEF Check, Answer

LEMMA SeatsAreFinite ==
  /\ \A r : IsFiniteSet(SeatsOf(r)) /\ Cardinality(SeatsOf(r)) \in Nat
  /\ \A table : IsFiniteSet(Seats(table)) /\ Cardinality(Seats(table)) \in Nat
  /\ \A table, role : IsFiniteSet(SeatsIn(table, role)) /\ Cardinality(SeatsIn(table, role)) \in Nat
  <1>1. /\ \A r : SeatsOf(r) \subseteq Calls
        /\ \A table : Seats(table) \subseteq Calls
        /\ \A table, role : SeatsIn(table, role) \subseteq Calls
    BY DEF SeatsOf, Seats, SeatsIn
  <1> QED BY <1>1, KeysAssumption, FS_Subset, FS_CardinalityType

LEMMA QuietStep ==
  ASSUME NEW r \in Calls, NEW next \in (Steps \ {"new"}) \union Answers,
         stage[r] \in Steps \ {"new", "tally", "store"}, stage' = [stage EXCEPT ![r] = next],
         UNCHANGED <<seat, found, together>>, Decides(r, next)
  PROVE  Event(r, next)
  BY DEF Event

LEMMA NothingDecided ==
  ASSUME NEW r \in Calls, NEW next, next \in {"refused", "ok", "tally", "store", "delete", "unique",
                                              "limit"}
  PROVE  Decides(r, next)
  BY DEF Decides, HasCounted, PastLimit

(* Each step is such an event.                                             *)
Happens(r) == \E next : Event(r, next)

LEMMA StepHappens ==
  ASSUME Inv, NEW r \in Calls, Load(r) \/ Step(r) \/ Fail(r)
  PROVE  Happens(r)
  <1>1. /\ stage \in [Calls -> Stages]
        /\ stage[r] \in StepsOf(r) \union Answers \union {"absent"}
        /\ KindOf[r] \in {"signup", "guest", "assign", "move", "cancel"}
    BY RequestsAssumption DEF Inv, Paths, Shapes
  <1>2. /\ {"limit", "precheck", "lock", "find", "count", "unique", "save", "delete", "tally",
            "store"} \subseteq Steps \ {"new"}
        /\ {"limit", "precheck", "lock", "find", "count", "unique", "save", "delete"}
             \subseteq Steps \ {"new", "tally", "store"}
        /\ "ok" \in Answers /\ "refused" \in Answers
        /\ "tally" \in Final /\ "store" \in Final /\ Answers \subseteq Final
    BY DEF Steps, Answers, Final
  <1>3. CASE Load(r)
    <2> DEFINE next == CASE KindOf[r] = "signup" -> "limit"
                         [] KindOf[r] = "guest"  -> "lock"
                         [] KindOf[r] = "cancel" -> "delete"
                         [] OTHER                -> "find"
    <2>1. /\ stage[r] = "new" /\ stage' = [stage EXCEPT ![r] = next] /\ together' = Meets(r)
          /\ UNCHANGED <<seat, found>>
      BY <1>3 DEF Load, Goto, Meets
    <2>2. next \in {"limit", "lock", "delete", "find"}
      OBVIOUS
    <2>3. /\ KindOf[r] = "signup" => next = "limit"
          /\ KindOf[r] \in {"assign", "move"} => next = "find"
      OBVIOUS
    <2> HIDE DEF next
    <2>4. Decides(r, next)
      BY <2>2, <2>3 DEF Decides, HasCounted, PastLimit
    <2>5. "new" \in Steps
      BY DEF Steps
    <2> QED BY <1>2, <2>1, <2>2, <2>4, <2>5 DEF Event, Happens
  <1>4. CASE CheckLimit(r)
    <2>1. stage[r] = "limit" /\ UNCHANGED <<seat, found, together>>
      BY <1>4 DEF CheckLimit
    <2>2. CASE Goto(r, "refused")
      BY <1>2, <2>1, <2>2, NothingDecided, QuietStep DEF Goto, Happens
    <2>3. CASE Goto(r, "precheck") /\ ~(Cardinality(SeatsOf(r)) >= MaxRoles)
      <3>1. Cardinality(SeatsOf(r)) < MaxRoles
        BY <2>3, SeatsAreFinite, RequestsAssumption
      <3>2. Decides(r, "precheck")
        BY <2>1, <3>1 DEF Decides, HasCounted
      <3> QED BY <1>2, <2>1, <2>3, <3>2, QuietStep DEF Goto, Happens
    <2> QED BY <1>4, <2>2, <2>3 DEF CheckLimit, Check, Answer
  <1>5. CASE Precheck(r)
    <2>1. stage[r] = "precheck" /\ UNCHANGED <<seat, found, together>>
      BY <1>5 DEF Precheck
    <2>2. CASE Goto(r, "refused")
      BY <1>2, <2>1, <2>2, NothingDecided, QuietStep DEF Goto, Happens
    <2>3. CASE Goto(r, "lock")
      <3>1. Decides(r, "lock")
        BY <2>1 DEF Decides, HasCounted, PastLimit
      <3> QED BY <1>2, <2>1, <2>3, <3>1, QuietStep DEF Goto, Happens
    <2> QED BY <1>5, <2>2, <2>3 DEF Precheck, Check, Answer
  <1>6. CASE Lock(r)
    <2>1. stage[r] = "lock" /\ UNCHANGED <<seat, found, together>>
      BY <1>6 DEF Lock
    <2>2. \A next \in {"lock", "count"} : Decides(r, next)
      BY <2>1 DEF Decides, HasCounted, PastLimit
    <2>3. \E next \in {"lock", "count", "refused"} : stage' = [stage EXCEPT ![r] = next]
      <3>1. stage = [stage EXCEPT ![r] = "lock"]
        BY <1>1, <2>1
      <3> QED BY <1>6, <3>1 DEF Lock, StartCount, Goto
    <2> QED BY <1>2, <2>1, <2>2, <2>3, NothingDecided, QuietStep DEF Happens
  <1>7. CASE Count(r)
    <2>1. stage[r] = "count" /\ UNCHANGED <<seat, found, together>>
      BY <1>7 DEF Count
    <2>2. CASE KindOf[r] = "guest"
      <3>1. \E next \in {"count", "find", "refused"} : stage' = [stage EXCEPT ![r] = next]
        <4>1. stage = [stage EXCEPT ![r] = "count"]
          BY <1>1, <2>1
        <4> QED BY <1>7, <2>2, <4>1 DEF Count, Check, Answer, Goto
      <3>2. \A next \in {"count", "find", "refused"} : Decides(r, next)
        BY <2>2 DEF Decides, HasCounted
      <3> QED BY <1>2, <2>1, <3>1, <3>2, QuietStep DEF Happens
    <2>3. CASE KindOf[r] # "guest" /\ Goto(r, "refused")
      BY <1>2, <2>1, <2>3, NothingDecided, QuietStep DEF Goto, Happens
    <2>4. ASSUME KindOf[r] # "guest", NEW next \in {"find", "save"}, Goto(r, next),
                 Taken(RoleOf[r]) < Capacity
          PROVE  Happens(r)
      <3>1. Decides(r, next)
        BY <2>1, <2>4 DEF Decides, PastLimit
      <3> QED BY <1>2, <2>1, <2>4, <3>1, QuietStep DEF Goto, Happens
    <2> QED BY <1>7, <2>2, <2>3, <2>4, CountFindsRoom
  <1>8. CASE FindDuplicate(r)
    <2>1. stage[r] = "find" /\ KindOf[r] = "signup" /\ UNCHANGED <<seat, found, together>>
      BY <1>8 DEF FindDuplicate
    <2>2. CASE Goto(r, "refused")
      BY <1>2, <2>1, <2>2, NothingDecided, QuietStep DEF Goto, Happens
    <2>3. CASE Goto(r, "save")
      <3>1. Decides(r, "save")
        BY <2>1 DEF Decides, HasCounted, PastLimit
      <3> QED BY <1>2, <2>1, <2>3, <3>1, QuietStep DEF Goto, Happens
    <2> QED BY <1>8, <2>2, <2>3 DEF FindDuplicate, Check, Answer
  <1>9. CASE FindGuest(r)
    <2>1. stage[r] = "find" /\ UNCHANGED <<seat, found, together>>
      BY <1>9 DEF FindGuest
    <2>2. Goto(r, "refused") \/ Goto(r, "unique")
      BY <1>9 DEF FindGuest, Check, Answer
    <2> QED BY <1>2, <2>1, <2>2, NothingDecided, QuietStep DEF Goto, Happens
  <1>10. CASE CheckGuest(r)
    <2>1. stage[r] = "unique" /\ UNCHANGED <<seat, found, together>>
      BY <1>10 DEF CheckGuest
    <2>2. CASE Goto(r, "refused")
      BY <1>2, <2>1, <2>2, NothingDecided, QuietStep DEF Goto, Happens
    <2>3. CASE Goto(r, "save") /\ ~(Cardinality(SeatsOf(r)) >= 1)
      <3>1. KindOf[r] = "guest"
        BY <1>1, <2>1 DEF StepsOf, Answers
      <3>2. Cardinality(SeatsOf(r)) = 0
        BY <2>3, SeatsAreFinite
      <3>3. SeatsOf(r) = {}
        BY <3>2, SeatsAreFinite, FS_EmptySet
      <3>4. Decides(r, "save")
        BY <2>1, <3>1, <3>3 DEF Decides, HasCounted
      <3> QED BY <1>2, <2>1, <2>3, <3>4, QuietStep DEF Goto, Happens
    <2> QED BY <1>10, <2>2, <2>3 DEF CheckGuest, Check, Answer
  <1>11. CASE FindAssigned(r) \/ FindMoved(r)
    <2>1. /\ stage[r] = "find" /\ KindOf[r] \in {"assign", "move"}
          /\ UNCHANGED <<seat, together>>
      BY <1>11 DEF FindAssigned, FindMoved
    <2>2. \E next \in {"count", "ok", "refused"} : stage' = [stage EXCEPT ![r] = next]
      BY <1>11 DEF FindAssigned, FindMoved, StartCount, Goto
    <2>3. UNCHANGED found \/ Finds(r)
      <3>1. CASE FindAssigned(r)
        BY <3>1 DEF FindAssigned
      <3>2. CASE FindMoved(r)
        <4>1. KindOf[r] = "move" /\ Same(r, FromOf[r]) \subseteq Seats("users")
          BY <3>2 DEF FindMoved, Same, SeatsOf, Table
        <4> QED BY <2>1, <3>2, <4>1 DEF FindMoved, Finds
      <3> QED BY <1>11, <3>1, <3>2
    <2>4. \A next \in {"count", "ok", "refused"} : Decides(r, next)
      BY <2>1 DEF Decides, HasCounted
    <2> QED BY <1>2, <2>1, <2>2, <2>3, <2>4 DEF Event, Happens
  <1>12. CASE Save(r) \/ SaveGuest(r)
    <2>1. stage[r] = "save" /\ UNCHANGED <<found, together>>
      BY <1>12 DEF Save, SaveGuest
    <2>2. /\ UNCHANGED seat \/ Write(r)
          /\ \E next \in {"tally", "ok", "refused"} : Goto(r, next)
      BY <1>12 DEF Save, SaveGuest, Answer
    <2> QED BY <1>2, <2>1, <2>2, NothingDecided DEF Event, Goto, Happens
  <1>13. CASE Delete(r)
    <2>1. stage[r] = "delete" /\ UNCHANGED <<found, together>>
      BY <1>13 DEF Delete
    <2>2. UNCHANGED seat \/ Removes(r)
      BY <1>13, <2>1 DEF Delete, Remove, Removes, Same, SeatsOf, Seats
    <2>3. Goto(r, "refused") \/ Goto(r, "tally")
      BY <1>13 DEF Delete
    <2> QED BY <1>2, <2>1, <2>2, <2>3, NothingDecided DEF Event, Goto, Happens
  <1>14. CASE Tally(r) \/ Store(r)
    <2>1. stage[r] \in {"tally", "store"} /\ UNCHANGED <<seat, found, together>>
      BY <1>14 DEF Tally, Store
    <2>2. Goto(r, "store") \/ Goto(r, "ok")
      BY <1>14 DEF Tally, Store, Answer
    <2> QED BY <1>2, <2>1, <2>2, NothingDecided DEF Event, Goto, Happens
  <1>15. CASE Fail(r)
    <2>1. /\ stage[r] \in Steps \ {"new"} /\ Goto(r, "refused")
          /\ UNCHANGED <<found, together>>
      BY <1>15 DEF Fail, Answer
    <2>2. UNCHANGED seat \/ (stage[r] = "save" /\ Write(r)) \/ Removes(r)
      BY <1>15 DEF Fail, Remove, Removes, Same, SeatsOf, Seats
    <2> QED BY <1>2, <2>1, <2>2, NothingDecided DEF Event, Goto, Happens
  <1> QED
    BY <1>3, <1>4, <1>5, <1>6, <1>7, <1>8, <1>9, <1>10, <1>11, <1>12, <1>13, <1>14, <1>15
    DEF Step

-----------------------------------------------------------------------------
(* The consequences of an event that the invariants need.                  *)
LEMMA StagesGoOn ==
  ASSUME Inv, NEW r \in Calls, NEW next, Event(r, next)
  PROVE  /\ \A s \in Calls \ {r} : stage'[s] = stage[s]
         /\ stage'[r] = next /\ next \notin {"new", "absent"} /\ stage[r] # "absent"
         /\ \A s \in Calls : stage[s] \in Final => stage'[s] \in Final
         /\ \A role : GuestsFor(role)' = GuestsFor(role)
  <1>1. /\ \A s \in Calls \ {r} : stage'[s] = stage[s]
        /\ stage'[r] = next
    BY DEF Inv, Shapes, Event
  <1>2. next \notin {"new", "absent"} /\ stage[r] # "absent"
    BY StagesDiffer DEF Event
  <1>3. stage[r] \in Final => next \in Final
    BY StagesDiffer DEF Event, Final
  <1> QED BY <1>1, <1>2, <1>3 DEF GuestsFor

LEMMA SeatSteps ==
  ASSUME Inv, NEW r \in Calls, NEW next, Event(r, next), NEW d \in Calls
  PROVE  \/ seat'[d] = seat[d]
         \/ seat'[d] = None
         \/ /\ stage[r] = "save" /\ next \in Final /\ d = Written(r) /\ seat'[d] = RoleOf[r]
            /\ \/ d = r
               \/ KindOf[r] = "move" /\ found[r] = d /\ seat[d] # None
            /\ UNCHANGED found
  <1>1. seat \in [Calls -> Roles \union {None}]
    BY DEF Inv, Shapes
  <1>2. CASE UNCHANGED seat
    BY <1>2
  <1>3. CASE Removes(r)
    BY <1>1, <1>3 DEF Removes
  <1>4. CASE stage[r] = "save" /\ next \in Final /\ Write(r)
    <2>1. UNCHANGED found
      BY <1>4 DEF Event, Finds
    <2> QED BY <1>1, <1>4, <2>1 DEF Write, Refused, Written
  <1> QED BY <1>2, <1>3, <1>4 DEF Event

LEMMA TogetherGrows ==
  ASSUME Inv, Met, NEW r \in Calls, NEW next, Event(r, next)
  PROVE  \A s \in Calls : together[s] \subseteq together'[s]
  <1>1. CASE stage[r] # "new"
    BY <1>1 DEF Event
  <1>2. CASE stage[r] = "new"
    <2>1. together[r] = {}
      <3>1. \A q \in together[r] : q \in Calls /\ r \in together[q]
        BY DEF Met
      <3> QED BY <1>2, <3>1 DEF Met
    <2>2. together' = Meets(r)
      BY <1>2 DEF Event
    <2> QED BY <2>1, <2>2 DEF Meets
  <1> QED BY <1>1, <1>2

LEMMA SeatingGrows ==
  ASSUME Inv, NEW r \in Calls, NEW next, Event(r, next), NEW d \in Calls, seat'[d] = seat[d]
  PROVE  Seating(d) \subseteq Seating(d)'
  <1> SUFFICES ASSUME NEW q \in Seating(d), q # d
               PROVE  q \in Seating(d)'
    BY DEF Seating
  <1>1. q \in Calls /\ found[q] = d /\ seat[d] = RoleOf[q] /\ stage[q] \in Final
    BY DEF Seating, Final
  <1>2. stage'[q] \in Final
    BY <1>1, StagesGoOn
  <1>3. found'[q] = found[q]
    <2>1. CASE UNCHANGED found
      BY <2>1
    <2>2. CASE Finds(r)
      <3>1. q # r
        BY <1>1, <2>2, StagesDiffer DEF Finds
      <3> QED BY <2>2, <3>1, <1>1 DEF Finds, Inv, Shapes
    <2> QED BY <2>1, <2>2 DEF Event
  <1> QED BY <1>1, <1>2, <1>3 DEF Seating, Final

LEMMA ApartBefore ==
  ASSUME Inv, Met, NEW r \in Calls, NEW next, Event(r, next),
         NEW S \in SUBSET Calls, \A d \in S : seat'[d] = seat[d], Apart(S)'
  PROVE  Apart(S)
  <1> SUFFICES ASSUME NEW d \in S, NEW e \in S, d # e, Meet(d, e)
               PROVE  FALSE
    BY DEF Apart
  <1>1. Seating(d) \subseteq Seating(d)' /\ Seating(e) \subseteq Seating(e)'
    BY SeatingGrows
  <1>2. PICK q \in Seating(d), p \in Seating(e) : q \in together[p]
    BY DEF Meet
  <1>3. p \in Calls
    BY DEF Seating
  <1>4. q \in together'[p]
    BY <1>2, <1>3, TogetherGrows
  <1>5. Meet(d, e)'
    BY <1>1, <1>2, <1>4 DEF Meet
  <1> QED BY <1>5 DEF Apart

-----------------------------------------------------------------------------
(* Each part is kept.                                                      *)
LEMMA MetKept ==
  ASSUME Inv, Met, NEW r \in Calls, NEW next, Event(r, next)
  PROVE  Met'
  <1>1. CASE stage[r] # "new"
    <2>1. UNCHANGED together
      BY <1>1 DEF Event
    <2>2. UnderWay' \subseteq UnderWay
      BY <1>1, StagesGoOn DEF UnderWay, Event
    <2>3. \A q \in Calls : stage[q] # "new" => stage'[q] # "new"
      BY StagesGoOn
    <2> QED BY <2>1, <2>2, <2>3 DEF Met
  <1>2. CASE stage[r] = "new"
    <2>1. together' = Meets(r)
      BY <1>2 DEF Event
    <2>2. UnderWay' \subseteq UnderWay \union {r} /\ r \notin UnderWay
      BY <1>2, StagesGoOn DEF UnderWay
    <2>3. \A q \in Calls : stage[q] # "new" => stage'[q] # "new"
      BY StagesGoOn
    <2>4. \A q \in Calls : r \notin together[q] /\ q \notin together[r]
      BY <1>2 DEF Met
    <2>5. together' \in [Calls -> SUBSET Calls]
      BY <2>1 DEF Met, Meets, UnderWay
    <2>6. ASSUME NEW s \in Calls, NEW q \in together'[s]
          PROVE  q # s /\ s \in together'[q] /\ stage'[q] # "new"
      <3>1. q \in Calls
        BY <2>5, <2>6
      <3>2. CASE s = r
        BY <2>1, <2>2, <2>3, <2>6, <3>1, <3>2 DEF Meets, UnderWay
      <3>3. CASE s # r /\ q = r
        BY <2>1, <2>2, <2>4, <2>6, <3>3, StagesGoOn DEF Meets
      <3>4. CASE s # r /\ q # r
        <4>1. q \in together[s]
          BY <2>1, <2>6, <3>4 DEF Meets
        <4> QED BY <2>1, <2>3, <3>1, <3>4, <4>1 DEF Met, Meets
      <3> QED BY <3>2, <3>3, <3>4
    <2>7. ASSUME NEW q \in UnderWay', NEW s \in UnderWay', q # s
          PROVE  q \in together'[s]
      <3>1. q \in Calls /\ s \in Calls
        BY DEF UnderWay
      <3> QED BY <2>1, <2>2, <2>7, <3>1 DEF Met, Meets
    <2> QED BY <2>5, <2>6, <2>7 DEF Met
  <1> QED BY <1>1, <1>2

LEMMA NotesKept ==
  ASSUME Inv, Notes, NEW r \in Calls, NEW next, Event(r, next)
  PROVE  Notes'
  <1> SUFFICES ASSUME NEW d \in Calls
               PROVE  /\ seat'[d] # None => stage'[d] \in Final
                      /\ Table(d) = "guests" => seat'[d] \in {None, RoleOf[d]}
                      /\ found'[d] # None => Table(found'[d]) = "users"
    BY DEF Notes, Table
  <1>1. found'[d] # None => Table(found'[d]) = "users"
    <2>1. CASE UNCHANGED found
      BY <2>1 DEF Notes
    <2>2. CASE Finds(r)
      BY <2>2 DEF Finds, Notes, Seats, Inv, Shapes
    <2> QED BY <2>1, <2>2 DEF Event
  <1>2. CASE seat'[d] = seat[d] \/ seat'[d] = None
    BY <1>1, <1>2, StagesGoOn DEF Notes
  <1>3. CASE d = r /\ next \in Final /\ seat'[d] = RoleOf[r]
    BY <1>1, <1>3, StagesGoOn
  <1>4. CASE found[r] = d /\ seat[d] # None
    <2>1. Table(d) # "guests" /\ stage'[d] \in Final
      BY <1>4, CallsAssumption, StagesGoOn DEF Notes
    <2> QED BY <1>1, <2>1
  <1> QED BY <1>2, <1>3, <1>4, SeatSteps

(* The places of a role: an entry is of a request that found room beside   *)
(* every set whose requests it did not overlap.                            *)
LEMMA OneMore ==
  ASSUME NEW S, IsFiniteSet(S), NEW w, NEW N \in Nat, Cardinality(S \ {w}) < N
  PROVE  Cardinality(S) <= N
  <1>1. CASE w \in S
    <2>1. Cardinality(S \ {w}) = Cardinality(S) - 1 /\ Cardinality(S) \in Nat
      BY <1>1, FS_RemoveElement, FS_CardinalityType
    <2> QED BY <2>1
  <1>2. CASE w \notin S
    <2>1. S \ {w} = S /\ Cardinality(S) \in Nat
      BY <1>2, FS_CardinalityType
    <2> QED BY <2>1
  <1> QED BY <1>1, <1>2

LEMMA Entries ==
  ASSUME Inv, NEW r \in Calls, NEW next, Event(r, next),
         NEW role \in Roles, NEW d \in SeatsIn("users", role)'
  PROVE  \/ d \in SeatsIn("users", role) /\ seat'[d] = seat[d]
         \/ /\ stage[r] = "save" /\ next \in Final /\ d = Written(r) /\ role = RoleOf[r]
            /\ r \in Seating(d)' /\ HasCounted(r, stage[r])
  <1>1. d \in Calls /\ seat'[d] = role /\ role # None /\ Table(d) = "users"
    BY RequestsAssumption DEF SeatsIn, Seats, Table
  <1>2. CASE seat'[d] = seat[d]
    BY <1>1, <1>2 DEF SeatsIn, Seats
  <1>3. CASE /\ stage[r] = "save" /\ next \in Final /\ d = Written(r) /\ seat'[d] = RoleOf[r]
             /\ d = r \/ (KindOf[r] = "move" /\ found[r] = d)
             /\ UNCHANGED found
    <2>1. r \in Seating(d)'
      BY <1>3, StagesGoOn DEF Seating, Final
    <2>2. KindOf[r] # "guest"
      BY <1>1, <1>3 DEF Table
    <2>3. HasCounted(r, "save")
      <3>1. KindOf[r] # "cancel"
        BY <1>3 DEF Inv, Paths, StepsOf, Answers
      <3> QED BY <2>2, <3>1, RequestsAssumption DEF HasCounted
    <2> QED BY <1>1, <1>3, <2>1, <2>3
  <1> QED BY <1>1, <1>2, <1>3, SeatSteps

LEMMA RoomApartKept ==
  ASSUME Inv, Met, RoomApart, NEW r \in Calls, NEW next, Event(r, next)
  PROVE  RoomApart'
  <1>1. \A role : SeatsIn("users", role) \subseteq Calls /\ SeatsIn("users", role)' \subseteq Calls
    BY DEF SeatsIn, Seats
  <1>2. ASSUME NEW role \in Roles, NEW S \in SUBSET SeatsIn("users", role)', Apart(S)'
        PROVE  Cardinality(S) <= Capacity
    <2>1. CASE \A d \in S : d \in SeatsIn("users", role) /\ seat'[d] = seat[d]
      <3>1. Apart(S)
        BY <1>1, <1>2, <2>1, ApartBefore
      <3> QED BY <2>1, <3>1 DEF RoomApart
    <2>2. ASSUME NEW w \in S, ~(w \in SeatsIn("users", role) /\ seat'[w] = seat[w])
          PROVE  Cardinality(S) <= Capacity
      <3>1. /\ stage[r] = "save" /\ w = Written(r) /\ role = RoleOf[r]
            /\ r \in Seating(w)' /\ HasCounted(r, stage[r])
        BY <2>2, Entries
      <3> DEFINE T == S \ {w}
      <3>2. \A d \in T : d \in SeatsIn("users", role) /\ seat'[d] = seat[d]
        BY <3>1, Entries
      <3>3. Apart(T)
        <4>1. Apart(T)'
          BY <1>2 DEF Apart
        <4> QED BY <1>1, <3>2, <4>1, ApartBefore
      <3>4. ASSUME NEW d \in T, NEW q \in Seating(d), q \in together[r]
            PROVE  FALSE
        <4>1. q \in Seating(d)' /\ q \in together'[r]
          BY <1>1, <3>2, <3>4, SeatingGrows, TogetherGrows
        <4>2. Meet(d, w)'
          BY <3>1, <4>1 DEF Meet
        <4> QED BY <1>2, <4>2 DEF Apart
      <3>5. Cardinality(T) < Capacity
        BY <3>1, <3>2, <3>3, <3>4 DEF RoomApart
      <3>6. IsFiniteSet(S)
        BY <1>1, KeysAssumption, FS_Subset
      <3> QED BY <3>5, <3>6, OneMore, RequestsAssumption
    <2> QED BY <2>1, <2>2
  <1>3. ASSUME NEW t \in Calls, HasCounted(t, stage'[t]),
               NEW S \in SUBSET SeatsIn("users", RoleOf[t])', Apart(S)',
               \A d \in S : \A q \in Seating(d)' : q \notin together'[t]
        PROVE  Cardinality(S) < Capacity
    <2>0. RoleOf[t] \in Roles /\ RoleOf[r] \in Roles
      BY RequestsAssumption
    <2>1. CASE HasCounted(t, stage[t])
      <3>1. ASSUME NEW d \in S
            PROVE  d \in SeatsIn("users", RoleOf[t]) /\ seat'[d] = seat[d]
        <4> SUFFICES ASSUME ~(d \in SeatsIn("users", RoleOf[t]) /\ seat'[d] = seat[d])
                     PROVE  FALSE
          OBVIOUS
        <4>1. stage[r] = "save" /\ next \in Final /\ r \in Seating(d)'
          BY <2>0, Entries
        <4>2. t # r
          BY <1>3, <4>1, StagesGoOn, StagesDiffer DEF HasCounted
        <4>3. r \in UnderWay /\ t \in UnderWay
          BY <2>1, <4>1 DEF UnderWay, HasCounted, Steps
        <4>4. r \in together[t]
          BY <4>2, <4>3 DEF Met
        <4> QED BY <1>3, <4>1, <4>4, TogetherGrows
      <3>2. Apart(S)
        BY <1>1, <1>3, <3>1, ApartBefore
      <3>3. \A d \in S : \A q \in Seating(d) : q \notin together[t]
        BY <1>1, <1>3, <3>1, SeatingGrows, TogetherGrows
      <3> QED BY <2>1, <3>1, <3>2, <3>3 DEF RoomApart
    <2>2. CASE ~HasCounted(t, stage[t])
      <3>1. t = r /\ HasCounted(r, next)
        BY <1>3, <2>2, StagesGoOn
      <3>2. UNCHANGED seat /\ Taken(RoleOf[r]) < Capacity
        BY <2>2, <3>1 DEF Event, Decides
      <3>3. S \subseteq SeatsIn("users", RoleOf[r])
        BY <3>1, <3>2 DEF SeatsIn, Seats, Table
      <3>4. Cardinality(S) <= Taken(RoleOf[r]) /\ Cardinality(S) \in Nat /\ Taken(RoleOf[r]) \in Nat
        BY <3>3, SeatsAreFinite, FS_Subset, FS_CardinalityType DEF Taken
      <3> QED BY <3>2, <3>4, RequestsAssumption
    <2> QED BY <2>1, <2>2
  <1>4. \A t \in Calls : HasCounted(t, stage'[t]) <=> HasCounted(t, stage[t])'
    BY DEF HasCounted
  <1> QED BY <1>2, <1>3, <1>4 DEF RoomApart

(* The limit of roles: the same, without moves.                            *)
LEMMA NewSignups ==
  ASSUME Inv, NEW r \in Calls, NEW next, Event(r, next), NEW who, NEW d \in SignupSeats(who)'
  PROVE  \/ d \in SignupSeats(who)
         \/ d = r /\ stage[r] = "save" /\ next \in Final /\ KindOf[r] = "signup" /\ WhoOf[r] = who
  <1>1. /\ d \in Calls /\ seat'[d] # None /\ Table(d) = "users"
        /\ KindOf[d] = "signup" /\ WhoOf[d] = who
    BY DEF SignupSeats, Seats, Table
  <1> QED BY <1>1, SeatSteps DEF SignupSeats, Seats

LEMMA LimitApartKept ==
  ASSUME Inv, Met, LimitApart, NEW r \in Calls, NEW next, Event(r, next)
  PROVE  LimitApart'
  <1>1. \A who : SignupSeats(who)' \subseteq Calls
    BY DEF SignupSeats, Seats
  <1>2. ASSUME NEW S \in SUBSET Calls, Strangers(S)'
        PROVE  Strangers(S)
    BY <1>2, TogetherGrows DEF Strangers
  <1>3. ASSUME NEW who, NEW S \in SUBSET SignupSeats(who)', Strangers(S)'
        PROVE  Cardinality(S) <= MaxRoles
    <2>1. Strangers(S)
      BY <1>1, <1>2, <1>3
    <2>2. CASE S \subseteq SignupSeats(who)
      BY <2>1, <2>2 DEF LimitApart
    <2>3. CASE ~(S \subseteq SignupSeats(who))
      <3>1. r \in S /\ stage[r] = "save" /\ KindOf[r] = "signup" /\ WhoOf[r] = who
        BY <2>3, NewSignups
      <3> DEFINE T == S \ {r}
      <3>2. T \subseteq SignupSeats(who)
        BY NewSignups
      <3>3. Strangers(T) /\ \A d \in T : d \notin together[r]
        BY <2>1, <3>1 DEF Strangers
      <3>4. stage[r] \in PastLimit
        BY <3>1 DEF PastLimit
      <3>5. Cardinality(T) < MaxRoles
        BY <3>1, <3>2, <3>3, <3>4 DEF LimitApart
      <3>6. IsFiniteSet(S)
        BY <1>1, KeysAssumption, FS_Subset
      <3> QED BY <3>5, <3>6, OneMore, RequestsAssumption
    <2> QED BY <2>2, <2>3
  <1>4. ASSUME NEW t \in Calls, KindOf[t] = "signup", stage'[t] \in PastLimit,
               NEW S \in SUBSET SignupSeats(WhoOf[t])', Strangers(S)',
               \A d \in S : d \notin together'[t]
        PROVE  Cardinality(S) < MaxRoles
    <2>1. CASE stage[t] \in PastLimit
      <3>1. ASSUME NEW d \in S
            PROVE  d \in SignupSeats(WhoOf[t])
        <4> SUFFICES ASSUME d \notin SignupSeats(WhoOf[t])
                     PROVE  FALSE
          OBVIOUS
        <4>1. d = r /\ stage[r] = "save" /\ next \in Final
          BY NewSignups
        <4>2. t # r
          BY <1>4, <4>1, StagesGoOn, StagesDiffer DEF PastLimit, Final, Answers
        <4>3. r \in UnderWay /\ t \in UnderWay
          BY <2>1, <4>1 DEF UnderWay, PastLimit, Steps
        <4>4. r \in together[t]
          BY <4>2, <4>3 DEF Met
        <4> QED BY <1>4, <4>1, <4>4, TogetherGrows
      <3>2. Strangers(S) /\ \A d \in S : d \notin together[t]
        BY <1>1, <1>2, <1>4, TogetherGrows
      <3> QED BY <1>4, <2>1, <3>1, <3>2 DEF LimitApart
    <2>2. CASE stage[t] \notin PastLimit
      <3>1. t = r /\ next \in PastLimit
        BY <1>4, <2>2, StagesGoOn
      <3>2. UNCHANGED seat /\ Cardinality(SeatsOf(r)) < MaxRoles
        BY <1>4, <2>2, <3>1 DEF Event, Decides
      <3>3. S \subseteq SeatsOf(r)
        BY <1>4, <3>1, <3>2 DEF SignupSeats, SeatsOf, Seats, Table
      <3>4. /\ Cardinality(S) <= Cardinality(SeatsOf(r)) /\ Cardinality(S) \in Nat
            /\ Cardinality(SeatsOf(r)) \in Nat
        BY <3>3, SeatsAreFinite, FS_Subset, FS_CardinalityType
      <3> QED BY <3>2, <3>4, RequestsAssumption
    <2> QED BY <2>1, <2>2
  <1> QED BY <1>3, <1>4 DEF LimitApart

(* Guests: two that insert into one role together would need the hand-over *)
(* of the lock by a third.                                                 *)
LEMMA NewGuests ==
  ASSUME Inv, Notes, NEW r \in Calls, NEW next, Event(r, next), NEW d \in Seats("guests")'
  PROVE  \/ d \in Seats("guests") /\ seat'[d] = seat[d]
         \/ /\ d = r /\ stage[r] = "save" /\ next \in Final /\ KindOf[r] = "guest"
            /\ seat'[r] = RoleOf[r]
  <1>1. d \in Calls /\ seat'[d] # None /\ KindOf[d] = "guest" /\ Table(d) # "users"
    BY DEF Seats, Table
  <1>2. CASE seat'[d] = seat[d]
    BY <1>1, <1>2 DEF Seats, Table
  <1>3. CASE found[r] = d
    BY <1>1, <1>3, CallsAssumption DEF Notes
  <1> QED BY <1>1, <1>2, <1>3, SeatSteps

LEMMA ThreeGuests ==
  ASSUME Inv, NEW r \in Calls, NEW t \in Calls, r # t, stage[r] = "save", stage[t] = "save",
         KindOf[r] = "guest", KindOf[t] = "guest", RoleOf[r] = RoleOf[t]
  PROVE  Cardinality(GuestsFor(RoleOf[t])) > 2
  <1>1. GuestsFor(RoleOf[t]) = Asking("guest", RoleOf[t])
    BY DEF GuestsFor, Asking
  <1>2. r \in Asking("guest", RoleOf[t]) /\ t \in Asking("guest", RoleOf[t])
    BY DEF Asking
  <1>3. Running(r) /\ Running(t)
    BY DEF Inv, Paths, Locked, Enclosed
  <1>4. ~(Cardinality(Asking("guest", RoleOf[t])) <= 2)
    BY <1>2, <1>3, TwoExclude
  <1>5. Cardinality(Asking("guest", RoleOf[t])) \in Nat
    BY KeysAssumption, FS_Subset, FS_CardinalityType DEF Asking
  <1> QED BY <1>1, <1>4, <1>5

LEMMA GuestsApartKept ==
  ASSUME Inv, Met, Notes, GuestsApart, NEW r \in Calls, NEW next, Event(r, next)
  PROVE  GuestsApart'
  <1>1. \A role : GuestsFor(role)' = GuestsFor(role)
    BY StagesGoOn
  <1>2. ASSUME NEW d \in Seats("guests")', NEW e \in Seats("guests")',
               WhoOf[d] = WhoOf[e], d # e
        PROVE  /\ e \in together'[d]
               /\ seat'[d] = seat'[e] => Cardinality(GuestsFor(seat'[d])) > 2
    <2>0. d \in Calls /\ e \in Calls
      BY DEF Seats
    <2>1. CASE /\ d \in Seats("guests") /\ seat'[d] = seat[d]
               /\ e \in Seats("guests") /\ seat'[e] = seat[e]
      BY <1>2, <2>0, <2>1, TogetherGrows DEF GuestsApart
    <2>2. ASSUME NEW x \in Seats("guests"), seat'[x] = seat[x], WhoOf[x] = WhoOf[r],
                 stage[r] = "save", KindOf[r] = "guest", seat'[r] = RoleOf[r]
          PROVE  /\ x \in together'[r] /\ r \in together'[x]
                 /\ seat'[x] = seat'[r] => Cardinality(GuestsFor(RoleOf[r])) > 2
      <3>1. x \in Calls /\ x \in SeatsOf(r)
        BY <2>2 DEF SeatsOf, Seats, Table
      <3>2. x \in together[r] /\ r \in together[x]
        BY <2>2, <3>1 DEF GuestsApart, Met
      <3> QED BY <2>2, <3>1, <3>2, TogetherGrows DEF GuestsApart
    <2> QED BY <1>2, <2>1, <2>2, NewGuests
  <1>3. ASSUME NEW t \in Calls, KindOf[t] = "guest", stage'[t] = "save", NEW e \in SeatsOf(t)'
        PROVE  /\ e \in together'[t]
               /\ seat'[e] = RoleOf[t] => Cardinality(GuestsFor(RoleOf[t])) > 2
    <2>0. e \in Seats("guests")' /\ WhoOf[e] = WhoOf[t] /\ e \in Calls
      BY <1>3 DEF SeatsOf, Table, Seats
    <2>1. CASE t = r
      <3>1. next = "save"
        BY <1>3, <2>1, StagesGoOn
      <3>2. UNCHANGED seat /\ SeatsOf(r) = {}
        BY <1>3, <2>1, <3>1 DEF Event, Decides
      <3>3. SeatsOf(r)' = SeatsOf(r)
        BY <3>2 DEF SeatsOf, Seats, Table
      <3> QED BY <2>1, <3>2, <3>3
    <2>2. CASE t # r /\ e \in Seats("guests") /\ seat'[e] = seat[e]
      <3>1. stage[t] = "save" /\ e \in SeatsOf(t)
        BY <1>3, <2>0, <2>2, StagesGoOn DEF SeatsOf, Table
      <3> QED BY <1>3, <2>2, <3>1, TogetherGrows DEF GuestsApart
    <2>3. CASE /\ t # r /\ e = r /\ stage[r] = "save" /\ KindOf[r] = "guest"
               /\ seat'[r] = RoleOf[r]
      <3>1. stage[t] = "save"
        BY <1>3, <2>3, StagesGoOn
      <3>2. r \in UnderWay /\ t \in UnderWay
        BY <2>3, <3>1 DEF UnderWay, Steps
      <3>3. r \in together'[t]
        BY <2>3, <3>2, TogetherGrows DEF Met
      <3> QED BY <1>3, <2>3, <3>1, <3>3, ThreeGuests
    <2> QED BY <2>0, <2>1, <2>2, <2>3, NewGuests
  <1> QED BY <1>1, <1>2, <1>3 DEF GuestsApart

(* The numbers a request keeps count requests.                             *)
LEMMA SumsKept ==
  ASSUME Inv, Sums, NEW r \in Calls, Load(r) \/ Step(r) \/ Fail(r)
  PROVE  Sums'
  <1> DEFINE N == Cardinality(Calls)
  <1>1. N \in Nat
    BY KeysAssumption, FS_CardinalityType
  <1>2. /\ \A table, role : Cardinality(SeatsIn(table, role)) \in 0 .. N
        /\ \A table : Cardinality(Seats(table)) \in 0 .. N
    <2>1. /\ \A table : Seats(table) \subseteq Calls
          /\ \A table, role : SeatsIn(table, role) \subseteq Calls
      BY DEF Seats, SeatsIn
    <2> QED BY <1>1, <2>1, SeatsAreFinite, KeysAssumption, FS_Subset
  <1>3. stage \in [Calls -> Stages] /\ RoleOf[r] \in Roles
    BY RequestsAssumption DEF Inv, Shapes
  <1> HIDE DEF N
  <1>4. ASSUME NEW next, stage' = [stage EXCEPT ![r] = next], next \notin {"count", "store"},
               UNCHANGED <<toCount, counted>>,
               loaded' \in [Calls -> 0 .. N], signedUp' \in 0 .. N
        PROVE  Sums'
    BY <1>3, <1>4 DEF Sums, N
  <1>5. ASSUME StartCount(r), UNCHANGED <<loaded, signedUp>>
        PROVE  Sums'
    <2>1. \A s \in Calls \ {r} : /\ stage'[s] = stage[s] /\ counted'[s] = counted[s]
                                 /\ toCount'[s] = toCount[s]
      BY <1>3, <1>5 DEF StartCount, Goto, Sums
    <2>2. counted'[r] = 0 /\ toCount'[r] \subseteq {"users", "guests"}
      BY <1>5 DEF StartCount, Sums
    <2>3. toCount' \in [Calls -> SUBSET {"users", "guests"}] /\ counted' \in [Calls -> 0 .. 2 * N]
      BY <1>1, <1>5 DEF StartCount, Sums, N
    <2> QED BY <1>1, <1>5, <2>1, <2>2, <2>3 DEF Sums, N
  <1>6. CASE Load(r)
    <2>1. \E next \in {"limit", "lock", "delete", "find"} : stage' = [stage EXCEPT ![r] = next]
      BY <1>6 DEF Load, Goto
    <2>2. loaded' \in [Calls -> 0 .. N] /\ UNCHANGED <<toCount, counted, signedUp>>
      BY <1>6 DEF Load, Sums, N
    <2>3. signedUp' \in 0 .. N
      BY <2>2 DEF Sums, N
    <2> QED BY <1>4, <2>1, <2>2, <2>3
  <1>7. ASSUME UNCHANGED <<toCount, counted, loaded, signedUp>>,
               \E next : Goto(r, next) /\ next \notin {"count", "store"}
        PROVE  Sums'
    <2>1. loaded' \in [Calls -> 0 .. N] /\ signedUp' \in 0 .. N
      BY <1>7 DEF Sums, N
    <2> QED BY <1>4, <1>7, <2>1 DEF Goto
  <1>8. CASE CheckLimit(r) \/ Precheck(r)
    BY <1>7, <1>8 DEF CheckLimit, Precheck, Check, Answer
  <1>9. CASE FindDuplicate(r) \/ FindGuest(r) \/ CheckGuest(r)
    BY <1>7, <1>9 DEF FindDuplicate, FindGuest, CheckGuest, Check, Answer
  <1>10. CASE Save(r) \/ SaveGuest(r) \/ Delete(r)
    BY <1>7, <1>10 DEF Save, SaveGuest, Delete, Answer
  <1>11. CASE Lock(r)
    <2>1. CASE UNCHANGED <<stage, toCount, counted>>
      BY <1>11, <2>1 DEF Lock, Sums
    <2> QED BY <1>5, <1>7, <1>11, <2>1 DEF Lock
  <1>12. CASE FindAssigned(r) \/ FindMoved(r)
    BY <1>5, <1>7, <1>12 DEF FindAssigned, FindMoved
  <1>13. CASE Count(r)
    <2>1. stage[r] = "count" /\ UNCHANGED <<loaded, signedUp>>
      BY <1>13 DEF Count
    <2>2. PICK table \in toCount[r], fails \in {FALSE, Swallows(r)} :
            LET count == counted[r] + IF fails THEN 0 ELSE Cardinality(SeatsIn(table, RoleOf[r])) IN
            /\ toCount' = [toCount EXCEPT ![r] = @ \ {table}]
            /\ counted' = [counted EXCEPT ![r] = count]
            /\ IF toCount[r] # {table}
               THEN UNCHANGED <<stage, lockVars>>
               ELSE Check(r, Full(r, count),
                          IF KindOf[r] \in {"signup", "guest"} THEN "find" ELSE "save")
      BY <1>13 DEF Count
    <2> DEFINE more == IF fails THEN 0 ELSE Cardinality(SeatsIn(table, RoleOf[r]))
    <2>3. more \in 0 .. N /\ counted[r] \in 0 .. N
      BY <1>1, <1>2, <2>1 DEF Sums, N
    <2>4. toCount[r] # {table} => toCount[r] = {"users", "guests"} /\ counted[r] = 0
      BY <2>1, <2>2 DEF Sums
    <2>5. /\ toCount' = [toCount EXCEPT ![r] = @ \ {table}]
          /\ counted' = [counted EXCEPT ![r] = counted[r] + more]
          /\ toCount[r] # {table} => UNCHANGED stage
          /\ toCount[r] = {table} =>
               \E next \in {"find", "save", "refused"} : stage' = [stage EXCEPT ![r] = next]
      BY <2>2 DEF Check, Answer, Goto
    <2> HIDE DEF more
    <2>6. counted[r] + more \in 0 .. 2 * N /\ (toCount[r] # {table} => counted[r] + more <= N)
      BY <1>1, <2>3, <2>4
    <2>7. toCount' \in [Calls -> SUBSET {"users", "guests"}] /\ counted' \in [Calls -> 0 .. 2 * N]
      BY <2>5, <2>6 DEF Sums, N
    <2>8. \A s \in Calls \ {r} : /\ stage'[s] = stage[s] /\ counted'[s] = counted[s]
                                 /\ toCount'[s] = toCount[s]
      BY <1>3, <2>5 DEF Sums
    <2>9. /\ stage'[r] \in {"count", "store"} => counted'[r] <= N
          /\ toCount'[r] # {"users", "guests"}
      <3>1. counted'[r] = counted[r] + more /\ toCount'[r] = toCount[r] \ {table}
        BY <2>5 DEF Sums
      <3>2. stage'[r] \in {"count", "store"} => toCount[r] # {table}
        BY <1>3, <2>5
      <3>3. table \in {"users", "guests"}
        BY <2>2 DEF Sums
      <3> QED BY <2>6, <3>1, <3>2, <3>3
    <2> QED BY <2>1, <2>7, <2>8, <2>9 DEF Sums, N
  <1>14. CASE Tally(r)
    <2>1. /\ counted' = [counted EXCEPT ![r] = Cardinality(Seats("users"))]
          /\ stage' = [stage EXCEPT ![r] = "store"] /\ UNCHANGED <<toCount, loaded, signedUp>>
      BY <1>14 DEF Tally, Goto
    <2>2. Cardinality(Seats("users")) \in 0 .. N
      BY <1>2
    <2>3. counted' \in [Calls -> 0 .. 2 * N]
      BY <1>1, <2>1, <2>2 DEF Sums, N
    <2>4. \A s \in Calls \ {r} : stage'[s] = stage[s] /\ counted'[s] = counted[s]
      BY <1>3, <2>1 DEF Sums
    <2>5. counted'[r] <= N /\ stage'[r] # "count"
      BY <1>1, <1>3, <2>1, <2>2 DEF Sums
    <2> QED BY <2>1, <2>3, <2>4, <2>5 DEF Sums, N
  <1>15. ASSUME stage[r] = "store", StoreCount(r)
         PROVE  signedUp' \in 0 .. N
    <2>1. counted[r] \in 0 .. N
      BY <1>1, <1>15 DEF Sums, N
    <2> QED BY <1>15, <2>1 DEF StoreCount, Sums, N
  <1>16. CASE Store(r)
    <2>1. stage' = [stage EXCEPT ![r] = "ok"] /\ UNCHANGED <<toCount, counted, loaded>>
      BY <1>16 DEF Store, Answer, Goto
    <2>2. loaded' \in [Calls -> 0 .. N] /\ signedUp' \in 0 .. N
      BY <1>15, <1>16, <2>1 DEF Store, Sums, N
    <2>3. UNCHANGED <<toCount, counted>>
      BY <2>1
    <2>4. "ok" \notin {"count", "store"}
      OBVIOUS
    <2> QED BY <1>4, <2>1, <2>2, <2>3, <2>4
  <1>17. CASE Fail(r)
    <2>1. stage' = [stage EXCEPT ![r] = "refused"] /\ UNCHANGED <<toCount, counted, loaded>>
      BY <1>17 DEF Fail, Answer, Goto
    <2>2. signedUp' \in 0 .. N
      BY <1>15, <1>17 DEF Fail, Sums, N
    <2>3. loaded' \in [Calls -> 0 .. N] /\ UNCHANGED <<toCount, counted>>
      BY <2>1 DEF Sums, N
    <2>4. "refused" \notin {"count", "store"}
      OBVIOUS
    <2> QED BY <1>4, <2>1, <2>2, <2>3, <2>4
  <1> QED
    BY <1>6, <1>8, <1>9, <1>10, <1>11, <1>12, <1>13, <1>14, <1>16, <1>17 DEF Step

-----------------------------------------------------------------------------
LEMMA OverlapsStart == Init => IInv
  <1> SUFFICES ASSUME Init PROVE IInv
    OBVIOUS
  <1>1. Inv
    BY Starts
  <1>2. \A table : Seats(table) = {}
    BY DEF Init, Seats
  <1>3. /\ \A r \in Calls : stage[r] \in {"new", "absent"} /\ SeatsOf(r) = {}
        /\ \A who : SignupSeats(who) = {}
        /\ \A table, role : SeatsIn(table, role) = {}
    BY <1>2 DEF Init, SeatsOf, SignupSeats, SeatsIn
  <1>4. Cardinality({}) = 0
    BY FS_EmptySet
  <1>5. Sums
    <2>1. Cardinality(Calls) \in Nat
      BY KeysAssumption, FS_CardinalityType
    <2> QED BY <1>3, <2>1 DEF Init, Sums
  <1>6. Met
    <2>1. UnderWay = {}
      BY <1>3 DEF UnderWay, Steps
    <2> QED BY <2>1 DEF Init, Met
  <1>7. Notes
    BY DEF Init, Notes
  <1>8. RoomApart
    BY <1>3, <1>4, RequestsAssumption DEF RoomApart, HasCounted
  <1>9. LimitApart
    <2>1. \A who : \A S \in SUBSET SignupSeats(who) : S = {}
      BY <1>3
    <2>2. \A r \in Calls : stage[r] \notin PastLimit
      BY <1>3 DEF PastLimit
    <2>3. ASSUME NEW who, NEW S \in SUBSET SignupSeats(who)
          PROVE  Cardinality(S) <= MaxRoles
      <3>1. S = {}
        BY <2>1
      <3>2. Cardinality(S) = 0
        BY <1>4, <3>1
      <3> QED BY <3>2, RequestsAssumption
    <2> QED BY <2>2, <2>3 DEF LimitApart
  <1>10. GuestsApart
    BY <1>2, <1>3 DEF GuestsApart
  <1> QED BY <1>1, <1>5, <1>6, <1>7, <1>8, <1>9, <1>10 DEF IInv, Overlaps

LEMMA OverlapsKeep == IInv /\ [Next]_vars => IInv'
  <1> SUFFICES ASSUME IInv, [Next]_vars PROVE IInv'
    OBVIOUS
  <1>1. Inv'
    BY StepKeeps DEF IInv
  <1>2. CASE UNCHANGED vars
    <2>1. UNCHANGED <<stage, seat, found, toCount, counted, loaded, signedUp, together>>
      BY <1>2 DEF vars, eventVars
    <2>2. Sums'
      BY <2>1 DEF IInv, Sums
    <2>3. Met' /\ Notes'
      BY <2>1 DEF IInv, Overlaps, Met, Notes, UnderWay, Table
    <2>4. /\ \A d : Seating(d)' = Seating(d)
          /\ \A table : Seats(table)' = Seats(table)
          /\ \A r, role : GuestsFor(role)' = GuestsFor(role)
      BY <2>1 DEF Seating, Seats, Table, GuestsFor
    <2>5. RoomApart'
      <3>1. \A S : Apart(S)' <=> Apart(S)
        BY <2>1, <2>4 DEF Apart, Meet
      <3>2. \A role : SeatsIn("users", role)' = SeatsIn("users", role)
        BY <2>1, <2>4 DEF SeatsIn
      <3> QED BY <2>1, <2>4, <3>1, <3>2 DEF IInv, Overlaps, RoomApart, HasCounted
    <2>6. LimitApart'
      <3>1. \A S : Strangers(S)' <=> Strangers(S)
        BY <2>1 DEF Strangers
      <3>2. \A who : SignupSeats(who)' = SignupSeats(who)
        BY <2>4 DEF SignupSeats
      <3> QED BY <2>1, <3>1, <3>2 DEF IInv, Overlaps, LimitApart
    <2>7. GuestsApart'
      BY <2>1, <2>4 DEF IInv, Overlaps, GuestsApart, SeatsOf, Table
    <2> QED BY <1>1, <2>2, <2>3, <2>5, <2>6, <2>7 DEF IInv, Overlaps
  <1>3. CASE Next
    <2> PICK r \in Calls : Load(r) \/ Step(r) \/ Fail(r)
      BY <1>3 DEF Next
    <2>1. PICK next : Event(r, next)
      BY StepHappens DEF IInv, Happens
    <2>2. Sums'
      BY SumsKept DEF IInv
    <2>3. Met' /\ Notes' /\ RoomApart' /\ LimitApart' /\ GuestsApart'
      BY <2>1, MetKept, NotesKept, RoomApartKept, LimitApartKept, GuestsApartKept
      DEF IInv, Overlaps
    <2> QED BY <1>1, <2>2, <2>3 DEF IInv, Overlaps
  <1> QED BY <1>2, <1>3

LEMMA OverlapsHold == Spec => []IInv
  BY OverlapsStart, OverlapsKeep, PTL DEF Spec

(* The variables keep their shapes; whoever runs under the lock is at one  *)
(* of the steps of the operation it guards.                                *)
THEOREM SignupTypesHold == Spec => []TypeOK
  <1>1. IInv => TypeOK
    <2> SUFFICES ASSUME IInv PROVE TypeOK
      OBVIOUS
    <2>1. LockTypeOK
      BY DEF IInv, Inv, LockIInv
    <2>2. \A r \in Calls : Running(r) => stage[r] \in Steps \ {"new", "lock"}
      BY DEF IInv, Inv, Paths, Enclosed, Steps
    <2> QED BY <2>1, <2>2 DEF IInv, Inv, Shapes, Sums, Overlaps, Met, TypeOK
  <1> QED BY <1>1, OverlapsHold, PTL

(* Whatever mix of sign-ups, assignments, moves and removals is made of an *)
(* event, users overbook a role only if two of the requests that seated    *)
(* them were under way at once: no sequence of requests answered one after *)
(* another takes a place too many.                                         *)
THEOREM OverbookingTakesOverlap == Spec => []OverbookingNeedsOverlap
  <1>1. IInv => OverbookingNeedsOverlap
    <2> SUFFICES ASSUME IInv, NEW role \in Roles,
                        Cardinality(SeatsIn("users", role)) > Capacity
                 PROVE  \E d, e \in SeatsIn("users", role) : d # e /\ Meet(d, e)
      BY DEF OverbookingNeedsOverlap, Meet
    <2>1. ~(Cardinality(SeatsIn("users", role)) <= Capacity)
      BY SeatsAreFinite, RequestsAssumption
    <2>2. ~Apart(SeatsIn("users", role))
      BY <2>1 DEF IInv, Overlaps, RoomApart
    <2> QED BY <2>2 DEF Apart
  <1> QED BY <1>1, OverlapsHold, PTL

(* A guest's email holds two places of an event only if their requests     *)
(* overlapped, and the same role twice only if three guests' requests were *)
(* made for it; a user signs up for more roles than the limit only by      *)
(* requests that overlapped.                                               *)
THEOREM RoleLimitTakesOverlap == Spec => []RoleLimitNeedsOverlap
  <1>1. IInv => RoleLimitNeedsOverlap
    <2> SUFFICES ASSUME IInv PROVE RoleLimitNeedsOverlap
      OBVIOUS
    <2>1. ASSUME NEW s \in Seats("users"),
                 Cardinality({d \in SeatsOf(s) : KindOf[d] = "signup"}) > MaxRoles
          PROVE  \E d, e \in {d \in SeatsOf(s) : KindOf[d] = "signup"} : e \in together[d]
      <3> DEFINE S == {d \in SeatsOf(s) : KindOf[d] = "signup"}
      <3>1. S = SignupSeats(WhoOf[s])
        BY DEF SeatsOf, SignupSeats, Seats
      <3>2. Cardinality(S) \in Nat
        BY SeatsAreFinite, FS_Subset, FS_CardinalityType
      <3>3. ~(Cardinality(S) <= MaxRoles)
        BY <2>1, <3>2, RequestsAssumption
      <3>4. ~Strangers(S)
        BY <3>1, <3>3 DEF IInv, Overlaps, LimitApart
      <3> QED BY <3>4 DEF Strangers
    <2> QED BY <2>1 DEF IInv, Overlaps, GuestsApart, RoleLimitNeedsOverlap
  <1> QED BY <1>1, OverlapsHold, PTL
=============================================================================
