------------------------ MODULE MCIdempotentCommands ------------------------
(* Three calls with one key: two copies of a request and another request.  *)
EXTENDS IdempotentCommands, TLC

CONSTANTS a, b, c, p1, p2

MCRequestOf == a :> p1 @@ b :> p1 @@ c :> p2
Copies == Permutations({a, b})
=============================================================================
