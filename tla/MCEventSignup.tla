---------------------------- MODULE MCEventSignup ----------------------------
(* Requests for the seats of one event, and which of them come together.   *)
EXTENDS EventSignup, TLC

CONSTANTS a, b, c, d, e, f, g, h, i, j, k, ann, bob, eve, r1, r2

Request(kind, who, role, from) == [kind |-> kind, who |-> who, role |-> role, from |-> from]

Requests ==
  (a :> Request("signup", ann, r1, r1)) @@ (b :> Request("signup", bob, r1, r1)) @@
  (c :> Request("cancel", ann, r1, r1)) @@ (d :> Request("assign", ann, r1, r1)) @@
  (e :> Request("move", ann, r2, r1))   @@ (f :> Request("assign", bob, r2, r2)) @@
  (g :> Request("guest", eve, r1, r1))  @@ (h :> Request("guest", eve, r1, r1)) @@
  (k :> Request("guest", eve, r1, r1))  @@ (i :> Request("guest", eve, r2, r2)) @@
  (j :> Request("signup", ann, r2, r2))

MCCalls == UNION Scenarios
MCKindOf == [r \in MCCalls |-> Requests[r].kind]
MCWhoOf == [r \in MCCalls |-> Requests[r].who]
MCRoleOf == [r \in MCCalls |-> Requests[r].role]
MCFromOf == [r \in MCCalls |-> Requests[r].from]

(* "signup:event:role" and "guest-signup:event:role".                      *)
MCKeyOf == [r \in MCCalls |->
  <<IF Requests[r].kind = "guest" THEN "guest-signup" ELSE "signup", Requests[r].role>>]
MCKeys == {MCKeyOf[r] : r \in MCCalls}

Pair == {a, b, c}    \* two users for the last place of a role, one of whom cancels
Twice == {a, g, h}   \* one guest who sends the form twice, beside a user
Thrice == {g, h, k}  \* one who sends it three times
Both == {a, d, c}    \* one user who signs up, is assigned and cancels
Moved == {a, e, f}   \* a move into a role to which another user is assigned
Left == {a, e, c}    \* a move and a cancellation of one registration

Guests == {g, i}     \* one guest who asks for two roles
Users == {a, j, c}   \* one user who does, and cancels one of them

Passing == {Pair, Twice, Thrice, Both, Moved, Left, Guests, Users}
LastPlace == {{a, g}}     \* a user and a guest for the last place of a role
=============================================================================
