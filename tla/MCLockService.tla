---------------------------- MODULE MCLockService ----------------------------
(* Calls that contend for one key, beside calls on another.                *)
EXTENDS LockService, TLC

CONSTANTS a, b, c, d, e, k1, k2

MCKeyOf == (a :> k1) @@ (b :> k1) @@ (c :> k1) @@ (d :> k1) @@ (e :> k2)
MCThree == (a :> k1) @@ (b :> k1) @@ (c :> k1)
MCCalls == DOMAIN MCKeyOf
MCThreeCalls == DOMAIN MCThree
=============================================================================
