--------------------------- MODULE MCRoleSubjects ---------------------------
(***************************************************************************)
(* Instances of RoleAssignments side by side, over the variables of one:    *)
(* the initial state chooses an instance and only that one takes steps.     *)
(* "user": one user with a project role and a global role, two requests,    *)
(* the sync, expiry in Redis and a restart.  "loader": one request and a    *)
(* goroutine that reloads the project.  "both": a user and a group whose    *)
(* bindings share one annotation.                                           *)
(***************************************************************************)
EXTENDS RoleAssignments, TLC

CONSTANTS user1, group1, proj1, roleP, roleS, hand1, hand2, load1

VARIABLE side

MCProjectOf == [r \in {roleP, roleS} |-> IF r = roleS THEN None ELSE proj1]

\* No specification maps a group, and what "both" names is there.
ASSUME SubjectsAssumption ==
  SpecGroups = {} /\ roleP \in Role /\ proj1 \in Project

OfUser == INSTANCE RoleAssignments WITH Group <- {}, Loader <- {}
OfLoader == INSTANCE RoleAssignments WITH Group <- {}, Handler <- {hand1}
OfBoth == INSTANCE RoleAssignments WITH
  Role <- {roleP}, ProjectOf <- [r \in {roleP} |-> proj1], Loader <- {}, MaxRestarts <- 0

SideInit == \/ side = "user" /\ OfUser!Init
            \/ side = "loader" /\ OfLoader!Init
            \/ side = "both" /\ OfBoth!Init
SideNext == \/ side = "user" /\ OfUser!Next /\ UNCHANGED side
            \/ side = "loader" /\ OfLoader!Next /\ UNCHANGED side
            \/ side = "both" /\ OfBoth!Next /\ UNCHANGED side
SideSpec == SideInit /\ [][SideNext]_<<vars, side>>

Symmetric == Permutations({hand1, hand2})

(* In every instance, a removed role is in none of Casbin, Redis and the      *)
(* annotation, and a granted one is in the annotation and held in Casbin.     *)
RolesHoldInAll ==
  CASE side = "user" -> OfUser!RevokedStaysRevoked /\ OfUser!GrantedIsDurable
    [] side = "loader" -> OfLoader!RevokedStaysRevoked /\ OfLoader!GrantedIsDurable
    [] side = "both" -> OfBoth!RevokedStaysRevoked /\ OfBoth!GrantedIsDurable
=============================================================================
