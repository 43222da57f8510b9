------------------------- MODULE RoleSubjectsProofs -------------------------
(***************************************************************************)
(* The instances of MCRoleSubjects are instances of RoleAssignments, so    *)
(* the invariant of RoleAssignmentsProofs holds in each of them: it is     *)
(* kept by the steps of the instance that was chosen.                      *)
(***************************************************************************)
EXTENDS MCRoleSubjects, TLAPS

OfUserP == INSTANCE RoleAssignmentsProofs WITH Group <- {}, Loader <- {}
OfLoaderP == INSTANCE RoleAssignmentsProofs WITH Group <- {}, Handler <- {hand1}
OfBothP == INSTANCE RoleAssignmentsProofs WITH
  Role <- {roleP}, ProjectOf <- [r \in {roleP} |-> proj1], Loader <- {}, MaxRestarts <- 0

SideInv ==
  \/ side = "user" /\ OfUserP!GInv
  \/ side = "loader" /\ OfLoaderP!GInv
  \/ side = "both" /\ OfBothP!GInv

\* The constants of an instance are among those that AssignmentsAssumption is about.
LEMMA Smaller ==
  ASSUME NEW E, NEW S, S \subseteq E,
         None \notin [rev : Nat, binds : SUBSET E],
         None \notin [Project -> [rev : Nat, binds : SUBSET E] \cup {None}],
         None \notin [project : Project, copy : [rev : Nat, binds : SUBSET E] \cup {None}]
  PROVE  /\ None \notin [rev : Nat, binds : SUBSET S]
         /\ None \notin [Project -> [rev : Nat, binds : SUBSET S] \cup {None}]
         /\ None \notin [project : Project, copy : [rev : Nat, binds : SUBSET S] \cup {None}]
<1>1. [rev : Nat, binds : SUBSET S] \subseteq [rev : Nat, binds : SUBSET E]
  OBVIOUS
<1> QED
  BY <1>1

LEMMA UserAssumption == OfUserP!AssignmentsAssumption
<1>1. OfUserP!Edge \subseteq Edge
  BY SubjectsAssumption DEF OfUserP!Edge, OfUserP!Subject, Edge, Subject
<1> QED
  BY <1>1, Smaller, AssignmentsAssumption, SubjectsAssumption
     DEF OfUserP!AssignmentsAssumption, AssignmentsAssumption

LEMMA LoaderAssumption == OfLoaderP!AssignmentsAssumption
<1>1. OfLoaderP!Edge \subseteq Edge
  BY SubjectsAssumption DEF OfLoaderP!Edge, OfLoaderP!Subject, Edge, Subject
<1> QED
  BY <1>1, Smaller, AssignmentsAssumption, SubjectsAssumption
     DEF OfLoaderP!AssignmentsAssumption, AssignmentsAssumption

LEMMA BothAssumption == OfBothP!AssignmentsAssumption
<1>1. OfBothP!Edge \subseteq Edge
  BY SubjectsAssumption DEF OfBothP!Edge, OfBothP!Subject, Edge, Subject
<1> QED
  BY <1>1, Smaller, AssignmentsAssumption, SubjectsAssumption
     DEF OfBothP!AssignmentsAssumption, AssignmentsAssumption

\* The instance of RoleAssignmentsProofs has the steps and properties of OfUser.
LEMMA SameUser ==
  /\ OfUser!Init => OfUserP!Init
  /\ OfUser!Next => OfUserP!Next
  /\ OfUserP!RevokedStaysRevoked => OfUser!RevokedStaysRevoked
  /\ OfUserP!GrantedIsDurable => OfUser!GrantedIsDurable
<1>1. OfUser!Init => OfUserP!Init
  BY DEF OfUser!Init, OfUserP!Init, OfUser!Subject, OfUserP!Subject, OfUser!Idle, OfUserP!Idle
<1>2. OfUser!Next => OfUserP!Next
  BY Zenon DEF OfUser!Next, OfUserP!Next,
     OfUser!Subject, OfUserP!Subject, OfUser!Edge, OfUserP!Edge, OfUser!Idle,
     OfUserP!Idle, OfUser!Copy, OfUserP!Copy, OfUser!Job, OfUserP!Job, OfUser!Of,
     OfUserP!Of, OfUser!Held, OfUserP!Held, OfUser!EdgesOf, OfUserP!EdgesOf,
     OfUser!Binds, OfUserP!Binds, OfUser!GroupEdgesOf, OfUserP!GroupEdgesOf,
     OfUser!Loaded, OfUserP!Loaded, OfUser!Target, OfUserP!Target, OfUser!Asked,
     OfUserP!Asked, OfUser!HalfDone, OfUserP!HalfDone, OfUser!Fails, OfUserP!Fails,
     OfUser!Begin, OfUserP!Begin, OfUser!Assign, OfUserP!Assign, OfUser!Remove,
     OfUserP!Remove, OfUser!Login, OfUserP!Login, OfUser!InCasbin, OfUserP!InCasbin,
     OfUser!AfterRedis, OfUserP!AfterRedis, OfUser!InRedis, OfUserP!InRedis,
     OfUser!InRedisFails, OfUserP!InRedisFails, OfUser!Known, OfUserP!Known,
     OfUser!Succeed, OfUserP!Succeed, OfUser!WriteBinding, OfUserP!WriteBinding,
     OfUser!Annotate, OfUserP!Annotate, OfUser!AnnotateKnown, OfUserP!AnnotateKnown,
     OfUser!AnnotateConflicts, OfUserP!AnnotateConflicts, OfUser!AnnotateFails,
     OfUserP!AnnotateFails, OfUser!Reloaded, OfUserP!Reloaded, OfUser!Disturbed,
     OfUserP!Disturbed, OfUser!ReloadReads, OfUserP!ReloadReads, OfUser!ReloadApplies,
     OfUserP!ReloadApplies, OfUser!SyncLists, OfUserP!SyncLists, OfUser!SyncApplies,
     OfUserP!SyncApplies, OfUser!SyncFails, OfUserP!SyncFails, OfUser!Restore,
     OfUserP!Restore, OfUser!RestoreFails, OfUserP!RestoreFails, OfUser!Restart,
     OfUserP!Restart, OfUser!Expire, OfUserP!Expire, OfUser!KubeCreate,
     OfUserP!KubeCreate, OfUser!KubeDelete, OfUserP!KubeDelete, OfUser!KubeEdit,
     OfUserP!KubeEdit, OfUser!HandlerStep, OfUserP!HandlerStep, OfUser!storeVars,
     OfUserP!storeVars, OfUser!lifeVars, OfUserP!lifeVars, OfUser!pastVars,
     OfUserP!pastVars, OfUser!vars, OfUserP!vars
<1>3. OfUserP!RevokedStaysRevoked => OfUser!RevokedStaysRevoked
  BY DEF OfUserP!RevokedStaysRevoked, OfUser!RevokedStaysRevoked, OfUserP!Binds, OfUser!Binds
<1>4. OfUserP!GrantedIsDurable => OfUser!GrantedIsDurable
  BY DEF OfUserP!GrantedIsDurable, OfUser!GrantedIsDurable, OfUserP!Binds, OfUser!Binds
<1> QED
  BY <1>1, <1>2, <1>3, <1>4

\* The instance of RoleAssignmentsProofs has the steps and properties of OfLoader.
LEMMA SameLoader ==
  /\ OfLoader!Init => OfLoaderP!Init
  /\ OfLoader!Next => OfLoaderP!Next
  /\ OfLoaderP!RevokedStaysRevoked => OfLoader!RevokedStaysRevoked
  /\ OfLoaderP!GrantedIsDurable => OfLoader!GrantedIsDurable
<1>1. OfLoader!Init => OfLoaderP!Init
  BY DEF OfLoader!Init, OfLoaderP!Init, OfLoader!Subject, OfLoaderP!Subject, OfLoader!Idle, OfLoaderP!Idle
<1>2. OfLoader!Next => OfLoaderP!Next
  BY Zenon DEF OfLoader!Next, OfLoaderP!Next,
     OfLoader!Subject, OfLoaderP!Subject, OfLoader!Edge, OfLoaderP!Edge, OfLoader!Idle,
     OfLoaderP!Idle, OfLoader!Copy, OfLoaderP!Copy, OfLoader!Job, OfLoaderP!Job,
     OfLoader!Of, OfLoaderP!Of, OfLoader!Held, OfLoaderP!Held, OfLoader!EdgesOf,
     OfLoaderP!EdgesOf, OfLoader!Binds, OfLoaderP!Binds, OfLoader!GroupEdgesOf,
     OfLoaderP!GroupEdgesOf, OfLoader!Loaded, OfLoaderP!Loaded, OfLoader!Target,
     OfLoaderP!Target, OfLoader!Asked, OfLoaderP!Asked, OfLoader!HalfDone,
     OfLoaderP!HalfDone, OfLoader!Fails, OfLoaderP!Fails, OfLoader!Begin,
     OfLoaderP!Begin, OfLoader!Assign, OfLoaderP!Assign, OfLoader!Remove,
     OfLoaderP!Remove, OfLoader!Login, OfLoaderP!Login, OfLoader!InCasbin,
     OfLoaderP!InCasbin, OfLoader!AfterRedis, OfLoaderP!AfterRedis, OfLoader!InRedis,
     OfLoaderP!InRedis, OfLoader!InRedisFails, OfLoaderP!InRedisFails, OfLoader!Known,
     OfLoaderP!Known, OfLoader!Succeed, OfLoaderP!Succeed, OfLoader!WriteBinding,
     OfLoaderP!WriteBinding, OfLoader!Annotate, OfLoaderP!Annotate,
     OfLoader!AnnotateKnown, OfLoaderP!AnnotateKnown, OfLoader!AnnotateConflicts,
     OfLoaderP!AnnotateConflicts, OfLoader!AnnotateFails, OfLoaderP!AnnotateFails,
     OfLoader!Reloaded, OfLoaderP!Reloaded, OfLoader!Disturbed, OfLoaderP!Disturbed,
     OfLoader!ReloadReads, OfLoaderP!ReloadReads, OfLoader!ReloadApplies,
     OfLoaderP!ReloadApplies, OfLoader!SyncLists, OfLoaderP!SyncLists,
     OfLoader!SyncApplies, OfLoaderP!SyncApplies, OfLoader!SyncFails,
     OfLoaderP!SyncFails, OfLoader!Restore, OfLoaderP!Restore, OfLoader!RestoreFails,
     OfLoaderP!RestoreFails, OfLoader!Restart, OfLoaderP!Restart, OfLoader!Expire,
     OfLoaderP!Expire, OfLoader!KubeCreate, OfLoaderP!KubeCreate, OfLoader!KubeDelete,
     OfLoaderP!KubeDelete, OfLoader!KubeEdit, OfLoaderP!KubeEdit, OfLoader!HandlerStep,
     OfLoaderP!HandlerStep, OfLoader!storeVars, OfLoaderP!storeVars, OfLoader!lifeVars,
     OfLoaderP!lifeVars, OfLoader!pastVars, OfLoaderP!pastVars, OfLoader!vars,
     OfLoaderP!vars
<1>3. OfLoaderP!RevokedStaysRevoked => OfLoader!RevokedStaysRevoked
  BY DEF OfLoaderP!RevokedStaysRevoked, OfLoader!RevokedStaysRevoked, OfLoaderP!Binds, OfLoader!Binds
<1>4. OfLoaderP!GrantedIsDurable => OfLoader!GrantedIsDurable
  BY DEF OfLoaderP!GrantedIsDurable, OfLoader!GrantedIsDurable, OfLoaderP!Binds, OfLoader!Binds
<1> QED
  BY <1>1, <1>2, <1>3, <1>4

\* The instance of RoleAssignmentsProofs has the steps and properties of OfBoth.
LEMMA SameBoth ==
  /\ OfBoth!Init => OfBothP!Init
  /\ OfBoth!Next => OfBothP!Next
  /\ OfBothP!RevokedStaysRevoked => OfBoth!RevokedStaysRevoked
  /\ OfBothP!GrantedIsDurable => OfBoth!GrantedIsDurable
<1>1. OfBoth!Init => OfBothP!Init
  BY DEF OfBoth!Init, OfBothP!Init, OfBoth!Subject, OfBothP!Subject, OfBoth!Idle, OfBothP!Idle
<1>2. OfBoth!Next => OfBothP!Next
  BY Zenon DEF OfBoth!Next, OfBothP!Next,
     OfBoth!Subject, OfBothP!Subject, OfBoth!Edge, OfBothP!Edge, OfBoth!Idle,
     OfBothP!Idle, OfBoth!Copy, OfBothP!Copy, OfBoth!Job, OfBothP!Job, OfBoth!Of,
     OfBothP!Of, OfBoth!Held, OfBothP!Held, OfBoth!EdgesOf, OfBothP!EdgesOf,
     OfBoth!Binds, OfBothP!Binds, OfBoth!GroupEdgesOf, OfBothP!GroupEdgesOf,
     OfBoth!Loaded, OfBothP!Loaded, OfBoth!Target, OfBothP!Target, OfBoth!Asked,
     OfBothP!Asked, OfBoth!HalfDone, OfBothP!HalfDone, OfBoth!Fails, OfBothP!Fails,
     OfBoth!Begin, OfBothP!Begin, OfBoth!Assign, OfBothP!Assign, OfBoth!Remove,
     OfBothP!Remove, OfBoth!Login, OfBothP!Login, OfBoth!InCasbin, OfBothP!InCasbin,
     OfBoth!AfterRedis, OfBothP!AfterRedis, OfBoth!InRedis, OfBothP!InRedis,
     OfBoth!InRedisFails, OfBothP!InRedisFails, OfBoth!Known, OfBothP!Known,
     OfBoth!Succeed, OfBothP!Succeed, OfBoth!WriteBinding, OfBothP!WriteBinding,
     OfBoth!Annotate, OfBothP!Annotate, OfBoth!AnnotateKnown, OfBothP!AnnotateKnown,
     OfBoth!AnnotateConflicts, OfBothP!AnnotateConflicts, OfBoth!AnnotateFails,
     OfBothP!AnnotateFails, OfBoth!Reloaded, OfBothP!Reloaded, OfBoth!Disturbed,
     OfBothP!Disturbed, OfBoth!ReloadReads, OfBothP!ReloadReads, OfBoth!ReloadApplies,
     OfBothP!ReloadApplies, OfBoth!SyncLists, OfBothP!SyncLists, OfBoth!SyncApplies,
     OfBothP!SyncApplies, OfBoth!SyncFails, OfBothP!SyncFails, OfBoth!Restore,
     OfBothP!Restore, OfBoth!RestoreFails, OfBothP!RestoreFails, OfBoth!Restart,
     OfBothP!Restart, OfBoth!Expire, OfBothP!Expire, OfBoth!KubeCreate,
     OfBothP!KubeCreate, OfBoth!KubeDelete, OfBothP!KubeDelete, OfBoth!KubeEdit,
     OfBothP!KubeEdit, OfBoth!HandlerStep, OfBothP!HandlerStep, OfBoth!storeVars,
     OfBothP!storeVars, OfBoth!lifeVars, OfBothP!lifeVars, OfBoth!pastVars,
     OfBothP!pastVars, OfBoth!vars, OfBothP!vars
<1>3. OfBothP!RevokedStaysRevoked => OfBoth!RevokedStaysRevoked
  BY DEF OfBothP!RevokedStaysRevoked, OfBoth!RevokedStaysRevoked, OfBothP!Binds, OfBoth!Binds
<1>4. OfBothP!GrantedIsDurable => OfBoth!GrantedIsDurable
  BY DEF OfBothP!GrantedIsDurable, OfBoth!GrantedIsDurable, OfBothP!Binds, OfBoth!Binds
<1> QED
  BY <1>1, <1>2, <1>3, <1>4

LEMMA SideInvInit == SideInit => SideInv
  BY SameUser, SameLoader, SameBoth, UserAssumption, LoaderAssumption, BothAssumption,
     OfUserP!GInvInit, OfLoaderP!GInvInit, OfBothP!GInvInit DEF SideInit, SideInv

LEMMA SideInvStep == SideInv /\ [SideNext]_<<vars, side>> => SideInv'
<1> SUFFICES ASSUME SideInv, [SideNext]_<<vars, side>>
             PROVE  SideInv'
  OBVIOUS
<1>1. side' = side
  BY DEF SideNext
<1>2. CASE side = "user"
  <2>1. OfUserP!GInv /\ [OfUserP!Next]_(OfUserP!vars)
    BY <1>2, SameUser DEF SideInv, SideNext, vars, OfUserP!vars, storeVars, lifeVars, pastVars,
       OfUserP!storeVars, OfUserP!lifeVars, OfUserP!pastVars
  <2> QED
    BY <1>1, <1>2, <2>1, OfUserP!GInvStep, UserAssumption DEF SideInv
<1>3. CASE side = "loader"
  <2>1. OfLoaderP!GInv /\ [OfLoaderP!Next]_(OfLoaderP!vars)
    BY <1>3, SameLoader DEF SideInv, SideNext, vars, OfLoaderP!vars, storeVars, lifeVars, pastVars,
       OfLoaderP!storeVars, OfLoaderP!lifeVars, OfLoaderP!pastVars
  <2> QED
    BY <1>1, <1>3, <2>1, OfLoaderP!GInvStep, LoaderAssumption DEF SideInv
<1>4. CASE side = "both"
  <2>1. OfBothP!GInv /\ [OfBothP!Next]_(OfBothP!vars)
    BY <1>4, SameBoth DEF SideInv, SideNext, vars, OfBothP!vars, storeVars, lifeVars, pastVars,
       OfBothP!storeVars, OfBothP!lifeVars, OfBothP!pastVars
  <2> QED
    BY <1>1, <1>4, <2>1, OfBothP!GInvStep, BothAssumption DEF SideInv
<1> QED
  BY <1>2, <1>3, <1>4 DEF SideInv

(* In each instance, for any subjects, roles, requests, writes, restarts   *)
(* and failures: what role_binding_handler.go removed is in none of the    *)
(* three places, and what it granted is in the annotation and in Casbin.   *)
THEOREM HeldInAll == SideSpec => []RolesHoldInAll
<1>1. SideInit => SideInv
  BY SideInvInit
<1>2. SideInv => RolesHoldInAll
  BY SameUser, SameLoader, SameBoth, UserAssumption, LoaderAssumption, BothAssumption,
     OfUserP!GInvHolds, OfLoaderP!GInvHolds, OfBothP!GInvHolds DEF SideInv, RolesHoldInAll
<1> QED
  BY <1>1, <1>2, SideInvStep, PTL DEF SideSpec
=============================================================================
