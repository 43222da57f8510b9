------------------------- MODULE MCRoleAssignments -------------------------
(* Instances of RoleAssignments for TLC, with one project: its roles are   *)
(* all but the global role rs, and its specification maps groups to rq.    *)
EXTENDS RoleAssignments, TLC

CONSTANTS rq, rs

MCProjectOf  == [r \in Role |-> IF r = rs THEN None ELSE CHOOSE x \in Project : TRUE]
MCSpecGroups == Group \X ({rq} \cap Role)
Symmetric    == Permutations(Handler)
=============================================================================
