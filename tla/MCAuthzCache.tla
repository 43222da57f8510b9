---------------------------- MODULE MCAuthzCache ----------------------------
(* Small instances of AuthzCache for TLC: every role is one project's, and *)
(* a user's other spelling is the other element of User, if there is one.  *)
EXTENDS AuthzCache, TLC

MCProjects == {Role}
MCAltForm ==
  [x \in User |-> IF User = {x} THEN x ELSE CHOOSE y \in User : y # x]
Symmetric == Permutations(Reader) \cup Permutations(Writer)
=============================================================================
