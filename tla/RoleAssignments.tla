-------------------------- MODULE RoleAssignments --------------------------
(***************************************************************************)
(* Who holds which role: the grouping edges of Casbin and the two places   *)
(* they are persisted in.                                                  *)
(*                                                                         *)
(* An assignment or removal over REST (handlers/role_binding_handler.go)   *)
(* reads the project, changes Casbin under the policy lock, saves the      *)
(* subject's roles in Redis, and last writes the binding to an annotation  *)
(* of the project, with the resource version it read at first.  A login    *)
(* replaces the roles of a user in Casbin and Redis.  Loads of a project,  *)
(* by SyncPolicies or for one project, replace its group edges and add the *)
(* bindings of the annotation; they never remove the edge of a user.       *)
(* After a restart Casbin is rebuilt from the projects, then from Redis.   *)
(*                                                                         *)
(* The roles and group mappings of a project's specification are fixed and *)
(* valid here (ProjectPolicies lets them vary), and one replica runs.      *)
(***************************************************************************)
EXTENDS Naturals, FiniteSets

CONSTANTS
  User, Group,   \* subjects of grouping edges
  Project,       \* project names
  Role,          \* project roles proj:P:R and global roles
  ProjectOf,     \* the project of a role, None for a global role
  SpecGroups,    \* <<group, role>> mappings that specifications contain
  Handler,       \* goroutines serving role requests and logins
  Loader,        \* goroutines that reload one project: the watcher, REST handlers
  None,          \* no project
  MaxRev,        \* bound: writes to Kubernetes in one behaviour
  MaxRestarts,   \* bound: restarts of the server in one behaviour
  MaxFailures    \* bound: failed calls of Kubernetes or Redis in one behaviour

Subject == User \cup Group
Edge    == Subject \X Role

ASSUME AssignmentsAssumption ==
  /\ ProjectOf \in [Role -> Project \cup {None}]
  /\ SpecGroups \subseteq {e \in Group \X Role : ProjectOf[e[2]] # None}
  /\ User \cap Group = {}
  /\ MaxRev \in Nat /\ MaxRestarts \in Nat /\ MaxFailures \in Nat
  /\ None \notin Project
  /\ None \notin [rev : Nat, binds : SUBSET Edge]
  /\ None \notin [Project -> [rev : Nat, binds : SUBSET Edge] \cup {None}]
  /\ None \notin [project : Project, copy : [rev : Nat, binds : SUBSET Edge] \cup {None}]

VARIABLES
  edges,      \* Casbin: subject -> role
  stored,     \* Redis: the roles saved for each subject, {} if none
  crd,        \* Kubernetes: version and role-bindings annotation of each project
  rev,        \* Kubernetes: the last resource version
  handler,    \* the request each handler works on
  reload,     \* the copy of one project each loader is about to load
  snapshot,   \* the list SyncPolicies is about to apply
  phase,      \* sync and restore while the server starts, then up
  restarts, failures,
  revoked,    \* history: edges whose removal was the last request for them to end
  granted,    \* history: edges whose assignment was the last request for them to end
  excused     \* history: edges disturbed by an overlap, an outdated load or a failure

storeVars == <<edges, stored, crd, rev>>
lifeVars  == <<phase, restarts, failures>>
pastVars  == <<revoked, granted, excused>>
vars == <<storeVars, handler, reload, snapshot, lifeVars, pastVars>>

Idle == [step |-> "idle"]
Copy == [rev : 1..MaxRev, binds : SUBSET Edge]
Job  == [step : {"casbin", "redis", "annotate"}, op : {"assign", "remove"},
         subject : Subject, roles : SUBSET Role, copy : Copy, save : SUBSET Role]
     \cup [step : {"casbin", "redis"}, op : {"login"},
           subject : User, roles : SUBSET Role, save : SUBSET Role]

-----------------------------------------------------------------------------
Of(s, R)   == {s} \X R
Held(E, s) == {r \in Role : <<s, r>> \in E}
EdgesOf(p) == {e \in Edge : ProjectOf[e[2]] = p}
Binds(copy) == IF copy = None THEN {} ELSE copy.binds

\* removeProjectPoliciesLocked: the group edges of a project.
GroupEdgesOf(p) == {e \in EdgesOf(p) : e[1] \in Group}

\* Mutant: a load restores the groups of the specification only.
LoadedSpecOnly(p, copy) == IF copy = None THEN {} ELSE SpecGroups \cap EdgesOf(p)

\* loadProjectPoliciesLocked: the edges a load of the copy adds.
Loaded(p, copy) ==
  IF copy = None THEN {} ELSE (SpecGroups \cap EdgesOf(p)) \cup copy.binds

\* The project whose annotation a request is about.
Target(j) == ProjectOf[CHOOSE r \in j.roles : TRUE]
Asked(j)  == Of(j.subject, j.roles)

\* Edges of requests that have changed Casbin and not yet ended.
HalfDone ==
  UNION {Asked(handler[h]) : h \in {g \in Handler : handler[g].step \in {"redis", "annotate"}}}

Init ==
  /\ edges = {} /\ stored = [s \in Subject |-> {}]
  /\ crd = [p \in Project |-> None] /\ rev = 0
  /\ handler = [h \in Handler |-> Idle]
  /\ reload = [l \in Loader |-> None] /\ snapshot = None
  /\ phase = "sync" /\ restarts = 0 /\ failures = 0
  /\ revoked = {} /\ granted = {} /\ excused = {}

Fails == failures < MaxFailures /\ failures' = failures + 1

-----------------------------------------------------------------------------
(* Requests *)

\* Requests on one subject that overlap excuse what becomes of its edges.
Begin(h, j) ==
  /\ phase = "up" /\ handler[h] = Idle
  /\ handler' = [handler EXCEPT ![h] = j]
  /\ excused' = IF \E g \in Handler : handler[g] # Idle /\ handler[g].subject = j.subject
                THEN excused \cup Of(j.subject, Role)
                ELSE excused \ Asked(j)
  /\ UNCHANGED <<storeVars, reload, snapshot, lifeVars>>

\* Mutant: a project that is not found is not refused.
AssignUnchecked(h, s, r) ==
  /\ ProjectOf[r] # None
  /\ Begin(h, [step |-> "casbin", op |-> "assign", subject |-> s, roles |-> {r},
               copy |-> crd[ProjectOf[r]], save |-> {}])
  /\ revoked' = revoked \ {<<s, r>>} /\ granted' = granted \ Of(s, Role)

\* AssignUserRole, AssignGroupRole: the project has to exist.
Assign(h, s, r) ==
  /\ ProjectOf[r] # None /\ crd[ProjectOf[r]] # None
  /\ Begin(h, [step |-> "casbin", op |-> "assign", subject |-> s, roles |-> {r},
               copy |-> crd[ProjectOf[r]], save |-> {}])
  /\ revoked' = revoked \ {<<s, r>>} /\ granted' = granted \ Of(s, Role)

\* RemoveUserRole, RemoveGroupRole
Remove(h, s, r) ==
  /\ ProjectOf[r] # None /\ crd[ProjectOf[r]] # None
  /\ Begin(h, [step |-> "casbin", op |-> "remove", subject |-> s, roles |-> {r},
               copy |-> crd[ProjectOf[r]], save |-> {}])
  /\ revoked' = revoked \ {<<s, r>>} /\ granted' = granted \ {<<s, r>>}

\* An OIDC login whose groups map to roles: they replace those of the user.
Login(h, u, R) ==
  /\ Begin(h, [step |-> "casbin", op |-> "login", subject |-> u, roles |-> R,
               save |-> {}])
  /\ revoked' = revoked \ Of(u, R) /\ granted' = granted \ Of(u, Role)

\* assignUserRolesInCasbin and removeUserRoleInCasbin, under the policy lock;
\* the roles that a removal leaves are read under the same lock.
InCasbin(h) ==
  LET j == handler[h] IN
  /\ j.step = "casbin"
  /\ edges' = IF j.op = "remove" THEN edges \ Asked(j)
              ELSE (edges \ Of(j.subject, Role)) \cup Asked(j)
  /\ handler' = [handler EXCEPT ![h] =
       [j EXCEPT !.step = "redis", !.save = Held(edges', j.subject)]]
  /\ UNCHANGED <<stored, crd, rev, reload, snapshot, lifeVars, pastVars>>

\* A login ends with Redis, other requests go on with the annotation.
AfterRedis(h) ==
  handler' = [handler EXCEPT ![h] =
    IF handler[h].op = "login" THEN Idle ELSE [handler[h] EXCEPT !.step = "annotate"]]

\* Mutant: the roles left by a removal are not saved.
InRedisOnlyGrants(h) ==
  /\ handler[h].step = "redis"
  /\ stored' = IF handler[h].op = "remove" THEN stored
               ELSE [stored EXCEPT ![handler[h].subject] = handler[h].save]
  /\ AfterRedis(h)
  /\ UNCHANGED <<edges, crd, rev, reload, snapshot, lifeVars, pastVars>>

\* SaveUserRoles, after the lock is released: the key is replaced.
InRedis(h) ==
  /\ handler[h].step = "redis"
  /\ stored' = [stored EXCEPT ![handler[h].subject] = handler[h].save]
  /\ AfterRedis(h)
  /\ UNCHANGED <<edges, crd, rev, reload, snapshot, lifeVars, pastVars>>

\* The save fails: logged, and the request goes on.
InRedisFails(h) ==
  /\ handler[h].step = "redis" /\ Fails
  /\ excused' = excused \cup Of(handler[h].subject, Role)
  /\ AfterRedis(h)
  /\ UNCHANGED <<storeVars, reload, snapshot, phase, restarts, revoked, granted>>

\* An assignment that the annotation shows already is not written again.
Known(j) == j.op = "assign" /\ Asked(j) \subseteq j.copy.binds

\* Whatever became of the annotation, the caller is told of success.
Succeed(h) ==
  LET j == handler[h] IN
  /\ handler' = [handler EXCEPT ![h] = Idle]
  /\ revoked' = IF j.op = "remove" THEN revoked \cup Asked(j) ELSE revoked
  /\ granted' = IF j.op = "assign" THEN granted \cup Asked(j) ELSE granted

\* Mutant: a removal writes the list as it was read.
WriteBindingUnfiltered(j) ==
  /\ rev < MaxRev /\ rev' = rev + 1
  /\ crd' = [crd EXCEPT ![Target(j)] = [rev |-> rev + 1, binds |->
       IF j.op = "assign" THEN j.copy.binds \cup Asked(j) ELSE j.copy.binds]]

\* UpdateProject with the list of the copy, the binding appended or filtered out.
WriteBinding(j) ==
  /\ rev < MaxRev /\ rev' = rev + 1
  /\ crd' = [crd EXCEPT ![Target(j)] = [rev |-> rev + 1, binds |->
       IF j.op = "assign" THEN j.copy.binds \cup Asked(j) ELSE j.copy.binds \ Asked(j)]]

\* Mutant: the annotation is written whatever became of the project meanwhile.
AnnotateBlindly(h) ==
  LET j == handler[h] IN
  /\ j.step = "annotate" /\ ~Known(j) /\ crd[Target(j)] # None
  /\ WriteBinding(j)
  /\ Succeed(h)
  /\ UNCHANGED <<edges, stored, reload, snapshot, lifeVars, excused>>

\* addRoleBindingToProject, removeRoleBindingFromProject: the update carries
\* the version that was read at the beginning.
Annotate(h) ==
  LET j == handler[h] IN
  /\ j.step = "annotate" /\ ~Known(j) /\ crd[Target(j)] = j.copy
  /\ WriteBinding(j)
  /\ Succeed(h)
  /\ UNCHANGED <<edges, stored, reload, snapshot, lifeVars, excused>>

\* The copy shows the binding already; it may have been removed since.
AnnotateKnown(h) ==
  LET j == handler[h] IN
  /\ j.step = "annotate" /\ Known(j)
  /\ Succeed(h)
  /\ excused' = IF crd[Target(j)] = j.copy THEN excused ELSE excused \cup Asked(j)
  /\ UNCHANGED <<storeVars, reload, snapshot, lifeVars>>

\* Somebody else wrote the project, or it is gone: the update is refused, which
\* is only logged.
AnnotateConflicts(h) ==
  LET j == handler[h] IN
  /\ j.step = "annotate" /\ ~Known(j) /\ crd[Target(j)] # j.copy
  /\ Succeed(h)
  /\ excused' = excused \cup Asked(j)
  /\ UNCHANGED <<storeVars, reload, snapshot, lifeVars>>

\* The API server does not answer: logged as well.
AnnotateFails(h) ==
  LET j == handler[h] IN
  /\ j.step = "annotate" /\ ~Known(j) /\ Fails
  /\ Succeed(h)
  /\ excused' = excused \cup Asked(j)
  /\ UNCHANGED <<storeVars, reload, snapshot, phase, restarts>>

-----------------------------------------------------------------------------
(* Loads.  A copy of p that is None stands for the news that p is deleted. *)

\* The edges of the projects in P after their copies are loaded.
Reloaded(P, copies) ==
  (edges \ UNION {GroupEdgesOf(p) : p \in P}) \cup UNION {Loaded(p, copies[p]) : p \in P}

\* What the load of a copy disturbs: bindings that it shows and the project
\* does not, or the reverse, and those of requests between Casbin and the end.
Disturbed(P, copies) ==
  {e \in Edge : /\ ProjectOf[e[2]] \in P
               /\ \/ e \in HalfDone
                  \/ (e \in Binds(copies[ProjectOf[e[2]]])) # (e \in Binds(crd[ProjectOf[e[2]]]))}

ReloadReads(l, p) ==
  /\ phase = "up" /\ reload[l] = None
  /\ reload' = [reload EXCEPT ![l] = [project |-> p, copy |-> crd[p]]]
  /\ UNCHANGED <<storeVars, handler, snapshot, lifeVars, pastVars>>

\* LoadProjectPolicies or RemoveProjectPolicies
ReloadApplies(l) ==
  LET p == reload[l].project copies == [q \in {p} |-> reload[l].copy] IN
  /\ reload[l] # None
  /\ edges' = Reloaded({p}, copies)
  /\ excused' = excused \cup Disturbed({p}, copies)
  /\ reload' = [reload EXCEPT ![l] = None]
  /\ UNCHANGED <<stored, crd, rev, handler, snapshot, lifeVars, revoked, granted>>

SyncLists ==
  /\ phase \in {"sync", "up"} /\ snapshot = None
  /\ snapshot' = crd
  /\ UNCHANGED <<storeVars, handler, reload, lifeVars, pastVars>>

SyncApplies ==
  /\ snapshot # None
  /\ edges' = Reloaded(Project, snapshot)
  /\ excused' = excused \cup Disturbed(Project, snapshot)
  /\ snapshot' = None
  /\ phase' = IF phase = "sync" THEN "restore" ELSE phase
  /\ UNCHANGED <<stored, crd, rev, handler, reload, restarts, failures, revoked, granted>>

-----------------------------------------------------------------------------
(* The server's life, and the world around it *)

\* The startup sync fails: logged, and the startup goes on.
SyncFails ==
  /\ phase = "sync" /\ snapshot = None /\ Fails
  /\ phase' = "restore"
  /\ excused' = Edge
  /\ UNCHANGED <<storeVars, handler, reload, snapshot, restarts, revoked, granted>>

\* RestorePersistedRoles adds what Redis holds; the gate opens.
Restore ==
  /\ phase = "restore"
  /\ edges' = edges \cup {e \in Edge : e[2] \in stored[e[1]]}
  /\ phase' = "up"
  /\ UNCHANGED <<stored, crd, rev, handler, reload, snapshot, restarts, failures, pastVars>>

\* Redis does not answer: nothing is restored, and the gate opens.
RestoreFails ==
  /\ phase = "restore" /\ Fails
  /\ phase' = "up"
  /\ UNCHANGED <<storeVars, handler, reload, snapshot, restarts, pastVars>>

\* The process dies and starts again.
Restart ==
  /\ restarts < MaxRestarts /\ restarts' = restarts + 1
  /\ phase' = "sync" /\ edges' = {}
  /\ handler' = [h \in Handler |-> Idle]
  /\ reload' = [l \in Loader |-> None] /\ snapshot' = None
  /\ UNCHANGED <<stored, crd, rev, failures, pastVars>>

\* Redis drops a key whose time to live is over.
Expire(s) ==
  /\ stored[s] # {}
  /\ stored' = [stored EXCEPT ![s] = {}]
  /\ UNCHANGED <<edges, crd, rev, handler, reload, snapshot, lifeVars, pastVars>>

\* A project is created, without bindings.
KubeCreate(p) ==
  /\ crd[p] = None /\ rev < MaxRev /\ rev' = rev + 1
  /\ crd' = [crd EXCEPT ![p] = [rev |-> rev + 1, binds |-> {}]]
  /\ UNCHANGED <<edges, stored, handler, reload, snapshot, lifeVars, pastVars>>

\* Its bindings go with a project; what becomes of its edges is left open.
KubeDelete(p) ==
  /\ crd[p] # None
  /\ crd' = [crd EXCEPT ![p] = None]
  /\ granted' = granted \ EdgesOf(p)
  /\ UNCHANGED <<edges, stored, rev, handler, reload, snapshot, lifeVars, revoked, excused>>

\* Somebody edits the project otherwise: the version moves, the bindings stay.
KubeEdit(p) ==
  /\ crd[p] # None /\ rev < MaxRev /\ rev' = rev + 1
  /\ crd' = [crd EXCEPT ![p].rev = rev + 1]
  /\ UNCHANGED <<edges, stored, handler, reload, snapshot, lifeVars, pastVars>>

HandlerStep(h) ==
  InCasbin(h) \/ InRedis(h) \/ Annotate(h) \/ AnnotateKnown(h) \/ AnnotateConflicts(h)

Next ==
  \/ \E h \in Handler, s \in Subject, r \in Role : Assign(h, s, r) \/ Remove(h, s, r)
  \/ \E h \in Handler, u \in User, R \in (SUBSET Role) \ {{}} : Login(h, u, R)
  \/ \E h \in Handler : HandlerStep(h) \/ InRedisFails(h) \/ AnnotateFails(h)
  \/ \E l \in Loader : ReloadApplies(l) \/ \E p \in Project : ReloadReads(l, p)
  \/ SyncLists \/ SyncApplies \/ SyncFails
  \/ Restore \/ RestoreFails \/ Restart
  \/ \E s \in Subject : Expire(s)
  \/ \E p \in Project : KubeCreate(p) \/ KubeDelete(p) \/ KubeEdit(p)

\* The startup goes on and the syncer's ticker does; nobody else owes a step.
Spec == Init /\ [][Next]_vars /\ WF_vars(SyncLists) /\ WF_vars(SyncApplies) /\ WF_vars(Restore)

-----------------------------------------------------------------------------
(* Properties *)

TypeOK ==
  /\ edges \in SUBSET Edge
  /\ stored \in [Subject -> SUBSET Role]
  /\ crd \in [Project -> Copy \cup {None}]
  /\ rev \in 0..MaxRev
  /\ handler \in [Handler -> Job \cup {Idle}]
  /\ reload \in [Loader -> [project : Project, copy : Copy \cup {None}] \cup {None}]
  /\ snapshot \in [Project -> Copy \cup {None}] \cup {None}
  /\ phase \in {"sync", "restore", "up"}
  /\ restarts \in 0..MaxRestarts /\ failures \in 0..MaxFailures
  /\ revoked \in SUBSET Edge /\ granted \in SUBSET Edge /\ excused \in SUBSET Edge

(* A role that was removed from a subject over REST, and not given again,  *)
(* is in none of the three places and comes back from none of them, across *)
(* reloads, expiry and restarts: unless requests on that subject           *)
(* overlapped, a load was under way, or a store failed; and unless the     *)
(* specification of the project itself grants the role to the group.       *)
RevokedStaysRevoked ==
  \A e \in revoked \ (excused \cup SpecGroups) :
    /\ e \notin edges
    /\ e[2] \notin stored[e[1]]
    /\ e \notin Binds(crd[ProjectOf[e[2]]])

(* A role that was given over REST and not replaced since is held whenever *)
(* requests are served, across reloads, expiry in Redis and restarts: with *)
(* the same exceptions, and that of a startup sync that failed.            *)
GrantedIsDurable ==
  \A e \in granted \ excused :
    /\ e \in Binds(crd[ProjectOf[e[2]]])
    /\ phase = "up" => e \in edges

(* Two requests on one project do not undo each other: a write of the      *)
(* annotation changes a single binding of what is there at that moment,    *)
(* though the list was read several steps earlier.                         *)
NoLostBinding ==
  [][\A p \in Project : crd[p] # None /\ crd'[p] # None =>
       \/ Binds(crd'[p]) = Binds(crd[p])
       \/ \E e \in Edge : Binds(crd'[p]) \in {Binds(crd[p]) \cup {e}, Binds(crd[p]) \ {e}}]_vars

(* "The watcher will sync from CRD annotations for persistence across      *)
(* restarts" (role_binding_handler.go:135): again and again Casbin holds   *)
(* every binding of the annotation and every group of the specification,   *)
(* though a login or an assignment elsewhere drops them in between.        *)
BindingsReturn ==
  \A p \in Project :
    []<>(crd[p] = None \/ (SpecGroups \cap EdgesOf(p)) \cup Binds(crd[p]) \subseteq edges)

(* "LoadProjectPolicies would be redundant (the mapping is already gone)"  *)
(* (role_binding_handler.go:428): when nothing is under way and nothing    *)
(* failed, a removed role is gone.                                         *)
RemovedIsGone ==
  (failures = 0 /\ phase = "up" /\ \A h \in Handler : handler[h] = Idle) =>
    revoked \cap edges \subseteq SpecGroups
=============================================================================
