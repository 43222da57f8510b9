-------------------------- MODULE ProjectPolicies --------------------------
(***************************************************************************)
(* How Project resources become Casbin rules (internal/rbac).              *)
(*                                                                         *)
(* Kubernetes holds the projects.  Three parts of the server copy them     *)
(* into Casbin: the REST handlers right after their own write, the project *)
(* watcher when the informer reports a change, and SyncPolicies at startup *)
(* and every ten minutes.  Each of them reads a project first and takes    *)
(* the policy lock later, so each of them may install a copy that is no    *)
(* longer current, or remove the rules of a project that exists again.     *)
(*                                                                         *)
(* A project's specification is abstracted to the sequence of lines that   *)
(* loadProjectPoliciesLocked adds to Casbin, role by role: policies and    *)
(* group mappings.  Bad stands for a role or policy that is rejected; the  *)
(* load stops there, and nothing validates policies when they are written. *)
(* User bindings are not part of this module: a load never removes them.   *)
(***************************************************************************)
EXTENDS Naturals, Sequences

CONSTANTS
  Project,       \* project names
  Line,          \* rules and group mappings a project can ask for
  Bad,           \* a line that is rejected
  Specs,         \* project specifications: sequences of lines
  Handler,       \* goroutines serving project requests
  None,          \* no project, nothing to do
  MaxRev,        \* bound: writes to Kubernetes in one behaviour
  MaxRestarts,   \* bound: restarts of the server in one behaviour
  MaxFailures    \* bound: failed calls of the Kubernetes API in one behaviour

ASSUME PoliciesAssumption ==
  /\ Bad \notin Line
  /\ Specs \subseteq Seq(Line \cup {Bad})
  /\ MaxRev \in Nat /\ MaxRestarts \in Nat /\ MaxFailures \in Nat
  /\ None \notin [rev : Nat, spec : Specs]
  /\ None \notin [project : Project, copy : [rev : Nat, spec : Specs]]

\* A project as one read of the Kubernetes API returns it.
Copy == [rev : 1..MaxRev, spec : Specs]

VARIABLES
  crd,            \* Kubernetes: the projects that exist
  rev,            \* Kubernetes: the last resource version
  rules,          \* Casbin: the lines installed for each project
  loadedProjects, \* projects whose last load succeeded and that SyncPolicies removes
  events,         \* informer: changes of each project not yet handled
  watcher,        \* the copy the watcher's handler is about to load
  snapshot,       \* the list SyncPolicies is about to apply
  handler,        \* what each request has still to do
  phase,          \* boot until the startup sync is over
  restarts, failures,
  written,        \* history: every specification a project ever had
  astray          \* history: projects last changed on the strength of outdated
                  \* information, or whose event was lost

apiVars    == <<crd, rev, written>>
casbinVars == <<rules, loadedProjects>>
lifeVars   == <<phase, restarts, failures>>
vars == <<apiVars, casbinVars, events, watcher, snapshot, handler, lifeVars, astray>>

Idle == [op |-> "idle"]
Work == {Idle}
          \cup [op : {"load"}, project : Project, copy : Copy]
          \cup [op : {"delete"}, project : Project]

-----------------------------------------------------------------------------
(* loadProjectPoliciesLocked and removeProjectPoliciesLocked *)

Valid(s) == \A i \in DOMAIN s : s[i] # Bad

\* The lines added before the first one that is rejected.
Loaded(s) == {s[i] : i \in {j \in DOMAIN s : \A k \in 1..j : s[k] # Bad}}

\* Mutant: the old lines stay.
LoadAdds(p, s) ==
  /\ rules' = [rules EXCEPT ![p] = @ \cup Loaded(s)]
  /\ loadedProjects' = IF Valid(s) THEN loadedProjects \cup {p} ELSE loadedProjects

\* The project's old lines are removed first; the project counts as loaded
\* when all its lines were added, and stays so if it did before.
Load(p, s) ==
  /\ rules' = [rules EXCEPT ![p] = Loaded(s)]
  /\ loadedProjects' = IF Valid(s) THEN loadedProjects \cup {p} ELSE loadedProjects

\* Mutant: the project is forgotten, its lines are not removed.
RemoveForgets(p) ==
  /\ loadedProjects' = loadedProjects \ {p}
  /\ UNCHANGED rules

\* RemoveProjectPolicies
Remove(p) ==
  /\ rules' = [rules EXCEPT ![p] = {}]
  /\ loadedProjects' = loadedProjects \ {p}

\* History: p was loaded from a copy.
LoadedFrom(p, copy) ==
  astray' = IF copy = crd[p] THEN astray \ {p} ELSE astray \cup {p}

-----------------------------------------------------------------------------
Init ==
  /\ crd = [p \in Project |-> None] /\ rev = 0
  /\ rules = [p \in Project |-> {}] /\ loadedProjects = {}
  /\ events = [p \in Project |-> <<>>]
  /\ watcher = None /\ snapshot = None
  /\ handler = [h \in Handler |-> Idle]
  /\ phase = "boot" /\ restarts = 0 /\ failures = 0
  /\ written = [p \in Project |-> {}] /\ astray = {}

-----------------------------------------------------------------------------
(* Kubernetes: a write is given the next resource version, and the informer *)
(* of a running server hears of it.                                         *)

Notify(p, e) ==
  events' = IF phase = "up" THEN [events EXCEPT ![p] = Append(@, e)] ELSE events

ApiFails == /\ failures < MaxFailures /\ failures' = failures + 1
            /\ UNCHANGED <<phase, restarts>>

Put(p, s) ==
  /\ rev < MaxRev /\ rev' = rev + 1
  /\ crd' = [crd EXCEPT ![p] = [rev |-> rev + 1, spec |-> s]]
  /\ written' = [written EXCEPT ![p] = @ \cup {s}]
  /\ Notify(p, "set")

Drop(p) ==
  /\ crd[p] # None
  /\ crd' = [crd EXCEPT ![p] = None]
  /\ Notify(p, "gone")
  /\ UNCHANGED <<rev, written>>

\* Anybody with access to the cluster: kubectl, GitOps, another replica.
KubeWrite(p, s) ==
  /\ Put(p, s)
  /\ UNCHANGED <<casbinVars, watcher, snapshot, handler, lifeVars, astray>>

KubeDelete(p) ==
  /\ Drop(p)
  /\ UNCHANGED <<casbinVars, watcher, snapshot, handler, lifeVars, astray>>

-----------------------------------------------------------------------------
(* REST handlers, served once the startup sync is over *)

Do(h, work) == handler' = [handler EXCEPT ![h] = work]

\* CreateProject, or UpdateProject whose resource version was still current:
\* the handler keeps the copy that the API server returned.
HandlerWrites(h, p, s) ==
  /\ phase = "up" /\ handler[h] = Idle
  /\ Put(p, s)
  /\ Do(h, [op |-> "load", project |-> p, copy |-> [rev |-> rev + 1, spec |-> s]])
  /\ UNCHANGED <<casbinVars, watcher, snapshot, lifeVars, astray>>

\* reloadProjectPolicies
HandlerLoads(h) ==
  /\ handler[h].op = "load"
  /\ Load(handler[h].project, handler[h].copy.spec)
  /\ LoadedFrom(handler[h].project, handler[h].copy)
  /\ Do(h, Idle)
  /\ UNCHANGED <<apiVars, events, watcher, snapshot, lifeVars>>

\* DeleteProject removes the rules of an existing project first ...
HandlerRemoves(h, p) ==
  /\ phase = "up" /\ handler[h] = Idle /\ crd[p] # None
  /\ Remove(p)
  /\ Do(h, [op |-> "delete", project |-> p])
  /\ UNCHANGED <<apiVars, events, watcher, snapshot, lifeVars, astray>>

\* ... and then the project, which may be gone already.
HandlerDeletes(h) ==
  /\ handler[h].op = "delete"
  /\ IF crd[handler[h].project] # None
     THEN Drop(handler[h].project)
     ELSE UNCHANGED <<apiVars, events>>
  /\ Do(h, Idle)
  /\ UNCHANGED <<casbinVars, watcher, snapshot, lifeVars, astray>>

\* The API server refuses the deletion: the project stays, without its rules.
HandlerDeleteFails(h) ==
  /\ handler[h].op = "delete"
  /\ ApiFails
  /\ astray' = astray \cup {handler[h].project}
  /\ Do(h, Idle)
  /\ UNCHANGED <<apiVars, casbinVars, events, watcher, snapshot>>

-----------------------------------------------------------------------------
(* The project watcher: one event at a time *)

Handled(p) == events' = [events EXCEPT ![p] = Tail(@)]

\* Mutant: an update is not followed by a read of the project.
WatcherReadsNothing(p) ==
  /\ watcher = None /\ events[p] # <<>> /\ Head(events[p]) = "set"
  /\ Handled(p)
  /\ UNCHANGED <<apiVars, casbinVars, watcher, snapshot, handler, lifeVars, astray>>

\* Mutant: the answer is used without asking whether the project was found.
WatcherReadsBlindly(p) ==
  /\ watcher = None /\ events[p] # <<>> /\ Head(events[p]) = "set"
  /\ Handled(p)
  /\ watcher' = [project |-> p, copy |-> crd[p]]
  /\ UNCHANGED <<apiVars, casbinVars, snapshot, handler, lifeVars, astray>>

\* onAdd and onUpdate read the project anew (GetProject); one that is gone is
\* left to its own event.
WatcherReads(p) ==
  /\ watcher = None /\ events[p] # <<>> /\ Head(events[p]) = "set"
  /\ Handled(p)
  /\ watcher' = IF crd[p] = None THEN None ELSE [project |-> p, copy |-> crd[p]]
  /\ UNCHANGED <<apiVars, casbinVars, snapshot, handler, lifeVars, astray>>

\* The read fails, which is logged, and the event is over.
WatcherReadFails(p) ==
  /\ watcher = None /\ events[p] # <<>> /\ Head(events[p]) = "set"
  /\ ApiFails
  /\ Handled(p)
  /\ astray' = astray \cup {p}
  /\ UNCHANGED <<apiVars, casbinVars, watcher, snapshot, handler>>

WatcherLoads ==
  /\ watcher # None
  /\ Load(watcher.project, watcher.copy.spec)
  /\ LoadedFrom(watcher.project, watcher.copy)
  /\ watcher' = None
  /\ UNCHANGED <<apiVars, events, snapshot, handler, lifeVars>>

\* onDelete; the project may exist again, with its own event to come.
WatcherRemoves(p) ==
  /\ watcher = None /\ events[p] # <<>> /\ Head(events[p]) = "gone"
  /\ Handled(p)
  /\ Remove(p)
  /\ UNCHANGED <<apiVars, watcher, snapshot, handler, lifeVars, astray>>

-----------------------------------------------------------------------------
(* SyncPolicies: list, then apply everything under one hold of the lock.   *)
(* A list that fails changes nothing.                                      *)

SyncLists ==
  /\ snapshot = None
  /\ snapshot' = crd
  /\ UNCHANGED <<apiVars, casbinVars, events, watcher, handler, lifeVars, astray>>

\* Mutant: nothing is applied when one project of the list is rejected.
SyncAppliesAllOrNothing ==
  /\ snapshot # None
  /\ rules' = IF \A p \in Project : snapshot[p] # None => Valid(snapshot[p].spec)
              THEN [p \in Project |->
                      IF snapshot[p] # None THEN Loaded(snapshot[p].spec)
                      ELSE IF p \in loadedProjects THEN {} ELSE rules[p]]
              ELSE rules
  /\ snapshot' = None
  /\ UNCHANGED <<apiVars, loadedProjects, events, watcher, handler, lifeVars, astray>>

\* The projects of the list are loaded, whether or not another one fails, and
\* those of loadedProjects that are not on it are removed.
SyncApplies ==
  /\ snapshot # None
  /\ rules' = [p \in Project |->
       IF snapshot[p] # None THEN Loaded(snapshot[p].spec)
       ELSE IF p \in loadedProjects THEN {} ELSE rules[p]]
  /\ loadedProjects' =
       {p \in Project : snapshot[p] # None /\ (Valid(snapshot[p].spec) \/ p \in loadedProjects)}
  /\ astray' = (astray \ {p \in Project : snapshot[p] # None})
                 \cup {p \in Project : snapshot[p] # crd[p]}
  /\ snapshot' = None
  /\ UNCHANGED <<apiVars, events, watcher, handler, lifeVars>>

-----------------------------------------------------------------------------
(* The server's life *)

\* The startup sync is over, or failed: the informer starts with what exists.
GoUp ==
  /\ phase = "boot" /\ snapshot = None
  /\ phase' = "up"
  /\ events' = [p \in Project |-> IF crd[p] = None THEN <<>> ELSE <<"set">>]
  /\ astray' = {p \in Project : crd[p] = None /\ rules[p] # {}}
  /\ UNCHANGED <<apiVars, casbinVars, watcher, snapshot, handler, restarts, failures>>

\* The process dies and starts again: Casbin is in memory only.
Restart ==
  /\ restarts < MaxRestarts /\ restarts' = restarts + 1
  /\ phase' = "boot"
  /\ rules' = [p \in Project |-> {}] /\ loadedProjects' = {}
  /\ events' = [p \in Project |-> <<>>]
  /\ watcher' = None /\ snapshot' = None
  /\ handler' = [h \in Handler |-> Idle]
  /\ astray' = {}
  /\ UNCHANGED <<apiVars, failures>>

Next ==
  \/ \E p \in Project : (\E s \in Specs : KubeWrite(p, s)) \/ KubeDelete(p)
  \/ \E h \in Handler, p \in Project :
       (\E s \in Specs : HandlerWrites(h, p, s)) \/ HandlerRemoves(h, p)
  \/ \E h \in Handler : HandlerLoads(h) \/ HandlerDeletes(h) \/ HandlerDeleteFails(h)
  \/ \E p \in Project : WatcherReads(p) \/ WatcherReadFails(p) \/ WatcherRemoves(p)
  \/ WatcherLoads
  \/ SyncLists \/ SyncApplies
  \/ GoUp \/ Restart

\* The syncer's ticker goes on and some lists succeed; handlers, the watcher
\* and the startup owe nothing.
Spec == Init /\ [][Next]_vars /\ WF_vars(SyncLists) /\ WF_vars(SyncApplies)

-----------------------------------------------------------------------------
(* Properties *)

TypeOK ==
  /\ crd \in [Project -> Copy \cup {None}]
  /\ rev \in 0..MaxRev
  /\ rules \in [Project -> SUBSET Line]
  /\ loadedProjects \in SUBSET Project
  /\ events \in [Project -> Seq({"set", "gone"})]
  /\ watcher \in [project : Project, copy : Copy] \cup {None}
  /\ snapshot \in [Project -> Copy \cup {None}] \cup {None}
  /\ handler \in [Handler -> Work]
  /\ phase \in {"boot", "up"}
  /\ restarts \in 0..MaxRestarts /\ failures \in 0..MaxFailures
  /\ written \in [Project -> SUBSET Specs]
  /\ astray \in SUBSET Project

\* Casbin holds what the project asks for now.
InStep(p) == rules[p] = IF crd[p] = None THEN {} ELSE Loaded(crd[p].spec)

\* Casbin holds what a specification with a rejected line left behind.
HalfLoaded(p) == \E s \in written[p] : ~Valid(s) /\ rules[p] = Loaded(s)

\* Something that concerns p has still to happen.
Pending(p) ==
  \/ phase = "boot"
  \/ events[p] # <<>>
  \/ watcher # None /\ watcher.project = p
  \/ \E h \in Handler : handler[h] # Idle /\ handler[h].project = p

(* The lines of a project in Casbin are those of one specification it had, *)
(* or none: loads by handlers, watcher and syncer never mix two revisions, *)
(* whatever order they come in.                                            *)
SingleVersion ==
  \A p \in Project : rules[p] = {} \/ \E s \in written[p] : rules[p] = Loaded(s)

(* Lines in Casbin belong to a project of loadedProjects, so that the next *)
(* SyncPolicies removes them if the project is gone, unless they are what  *)
(* a rejected specification left behind.                                   *)
LeftoversAreTracked ==
  \A p \in Project : rules[p] # {} => p \in loadedProjects \/ HalfLoaded(p)

(* Casbin differs from a project only while an event or a request for it   *)
(* is under way, or because the last to change its rules acted on a copy   *)
(* or a list that was outdated by then, or because a call of the API       *)
(* failed.                                                                 *)
BehindIsExplained ==
  \A p \in Project : InStep(p) \/ Pending(p) \/ p \in astray

(* "10min catches any missed watch events" (policy_sync.go:15): once the   *)
(* projects stop changing, Casbin comes to hold what they ask for and      *)
(* stays so, whatever handlers, watcher and stale syncs did before; what a *)
(* rejected specification of a deleted project left behind aside.          *)
EventuallyInStep ==
  \A p \in Project : <>[](InStep(p) \/ (crd[p] = None /\ HalfLoaded(p)))
=============================================================================
