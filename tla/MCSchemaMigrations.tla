-------------------------- MODULE MCSchemaMigrations --------------------------
(* An instance of SchemaMigrations: three commands that meet, and every    *)
(* pair of commands that change anything.                                  *)
EXTENDS SchemaMigrations
CONSTANTS r1, r2, r3

ChangingCommands == {c \in AllCommands : c.name # "status"}
ThreeCommands ==
  [r \in Runs |-> CASE r = r1 -> [name |-> "apply", target |-> Count]
                   [] r = r2 -> [name |-> "rollback", target |-> 1]
                   [] r = r3 -> [name |-> "resume", target |-> Count]]
PairsOfCommands ==
  {c \in [Runs -> AllCommands] : /\ c[r3].name = "status"
                                 /\ {c[r1], c[r2]} \subseteq ChangingCommands}
MCAssignments == {ThreeCommands} \cup PairsOfCommands
===============================================================================
