--------------------------- MODULE InstanceAccess ---------------------------
(***************************************************************************)
(* How a request for instances is authorized (api/middleware/authz.go and         *)
(* deployment_validator.go, services/authorization_service.go,                    *)
(* rbac/permission_service.go, handlers/instance_crud.go): the middleware asks the  *)
(* policies, or leaves it to the handler; the handler reads the projects of the     *)
(* caller, their destinations and the instances one after the other, while          *)
(* administrators change projects and policies.                                    *)
(***************************************************************************)
EXTENDS Naturals, FiniteSets

CONSTANTS Project, Namespace,
          MaxInstances,       \* bound: instances, in the order of the list
          PageSize,
          MaxEdits,           \* bound: changes of projects, policies and instances
          None

Anywhere == "*"               \* as a destination
Cluster == "cluster"          \* the namespace of a cluster-scoped instance
Index == 1..MaxInstances

VARIABLES projects,           \* per project: None or its destinations
          readable, creatable,\* the projects the policies let the caller get, and create in
          admin,              \* the caller has "*", "*"
          grouped,            \* the projects with a role for a group of the caller
          synced,             \* IsPolicySynced
          instances,          \* per index: None or the instance
          visit,              \* None or the request under way
          granted,            \* the namespaces the caller has had since the request began
          owned,              \* the projects likewise
          leaked, miscounted,
          edits

policy == <<projects, readable, creatable, admin, grouped, synced>>
ghosts == <<leaked, miscounted>>
vars == <<policy, instances, visit, granted, owned, ghosts, edits>>

Readable == {p \in Project : projects[p] # None /\ (admin \/ p \in readable)}

(* MatchNamespaceInList.                                                            *)
MatchNamespaceInList(n, ns) == n \in ns \/ Anywhere \in ns

DestsOf(ps) == UNION {IF projects[p] = None THEN {} ELSE projects[p] : p \in ps}

Init ==
  /\ projects \in [Project -> {None} \cup SUBSET (Namespace \cup {Anywhere})]
  /\ readable = {} /\ creatable = {} /\ admin = FALSE /\ grouped = {} /\ synced = FALSE
  /\ instances = [i \in Index |-> None] /\ visit = None /\ granted = {} /\ owned = {}
  /\ leaked = FALSE /\ miscounted = FALSE /\ edits = 0

Visit(op) == [op |-> op, at |-> "begin", todo |-> {}, ns |-> {}, items |-> {}, all |-> {},
              project |-> None, target |-> None, dests |-> None]

End == visit' = None /\ granted' = {} /\ owned' = {}
Go(v) == visit' = v /\ UNCHANGED <<granted, owned>>

-----------------------------------------------------------------------------
(* CasbinAuthz: 503 until the policies are loaded.  Lists and counts pass: their handlers       *)
(* filter.  Another request that the policies refuse ends here.                        *)
Enter ==
  /\ visit = None /\ synced
  /\ \E op \in {"list", "count", "get"} : visit' = Visit(op)
  /\ granted' = DestsOf(Readable \cup grouped) /\ owned' = Readable
  /\ UNCHANGED <<policy, instances, ghosts, edits>>

(* The creation of an instance passes to the DeploymentValidator.                       *)
EnterCreate ==
  /\ visit = None /\ synced
  /\ \E p \in Project, n \in Namespace :
       visit' = [Visit("create") EXCEPT !.project = p, !.target = n]
  /\ granted' = DestsOf(Readable) /\ owned' = Readable
  /\ UNCHANGED <<policy, instances, ghosts, edits>>

(* GetUserNamespacesWithGroups: the projects the policies let the caller get ...          *)
ReadProjects ==
  /\ visit # None /\ visit.op # "create" /\ visit.at = "begin"
  /\ \/ Readable # {} /\ Go([visit EXCEPT !.at = "collect", !.todo = Readable])
     \/ Go([visit EXCEPT !.at = "legacy"]) /\ (Readable = {} \/ edits < MaxEdits)
  /\ UNCHANGED <<policy, instances, ghosts, edits>>

\* Mutant: with no accessible project the destinations of all projects are taken.
LegacyOfAll ==
  /\ visit # None /\ visit.op # "create" /\ visit.at = "legacy"
  /\ Go([visit EXCEPT !.at = "read", !.ns = DestsOf(Project)])
  /\ UNCHANGED <<policy, instances, ghosts, edits>>

(* ... or, when that is none or fails, those of the caller and of its groups in the projects'     *)
(* roles, whatever the policies of the roles are ...                                    *)
Legacy ==
  /\ visit # None /\ visit.op # "create" /\ visit.at = "legacy"
  /\ Go([visit EXCEPT !.at = "read", !.ns = DestsOf(Readable \cup grouped)])
  /\ UNCHANGED <<policy, instances, ghosts, edits>>

(* ... and the destinations of each, read one by one; a project that is gone is left out.   *)
Collect ==
  /\ visit # None /\ visit.at = "collect"
  /\ IF visit.todo = {} \/ Anywhere \in visit.ns THEN Go([visit EXCEPT !.at = "read", !.todo = {}])
     ELSE \E p \in visit.todo :
            Go([visit EXCEPT !.todo = @ \ {p}, !.ns = @ \cup DestsOf({p})])
  /\ UNCHANGED <<policy, instances, ghosts, edits>>

Existing == {i \in Index : instances[i] # None}
Page(s) == {i \in s : Cardinality({j \in s : j < i}) < PageSize}

(* The tracker: a page of the list, all for the count, one instance.                     *)
ReadInstances ==
  /\ visit # None /\ visit.at = "read"
  /\ LET read == [i \in Existing |-> instances[i]]
         items == CASE visit.op = "list"  -> {{[at |-> i, is |-> read[i]] : i \in Page(Existing)}}
                    [] visit.op = "count" -> {{[at |-> i, is |-> read[i]] : i \in Existing}}
                    [] OTHER -> {{[at |-> i, is |-> read[i]]} : i \in Existing}
     IN \/ \E s \in items :
             Go([visit EXCEPT !.at = "filter", !.items = s,
                              !.all = {[at |-> i, is |-> read[i]] : i \in Existing}])
        \/ items = {} /\ End
  /\ UNCHANGED <<policy, instances, ghosts, edits>>

\* Mutant: cluster-scoped instances are shown to every caller.
AccessFilterOfNamespaces(inst, ns, ps) ==
  inst.ns = Cluster \/ MatchNamespaceInList(inst.ns, ns)

(* buildInstanceAccessFilter, authorizeInstanceAccess.                                *)
AccessFilter(inst, ns, ps) ==
  IF inst.ns = Cluster THEN inst.project \in ps ELSE MatchNamespaceInList(inst.ns, ns)

(* The projects are read again, and filter what was read; a list counts what is left on its    *)
(* page.                                                                          *)
Respond ==
  /\ visit # None /\ visit.at = "filter" /\ End
  /\ LET shown == {x \in visit.items : AccessFilter(x.is, visit.ns, Readable)}
         total == {x \in visit.all : AccessFilter(x.is, visit.ns, Readable)}
     IN /\ leaked' = (leaked \/ \E x \in shown :
              IF x.is.ns = Cluster THEN x.is.project \notin owned
              ELSE ~MatchNamespaceInList(x.is.ns, granted))
        /\ miscounted' = (miscounted \/ (visit.op = "list" /\ Cardinality(shown) # Cardinality(total)))
  /\ UNCHANGED <<policy, instances, edits>>

-----------------------------------------------------------------------------
(* DeploymentValidator: the project must exist; a caller with "*", "*" needs no more ...       *)
ReadProject ==
  /\ visit # None /\ visit.op = "create" /\ visit.at = "begin"
  /\ IF projects[visit.project] = None THEN End
     ELSE Go([visit EXCEPT !.at = IF admin THEN "create" ELSE "permit",
                           !.dests = projects[visit.project]])
  /\ UNCHANGED <<policy, instances, ghosts, edits>>

(* ... others need the permission, and a destination, unless the project has none.          *)
Permit ==
  /\ visit # None /\ visit.at = "permit"
  /\ IF /\ visit.project \in creatable
        /\ visit.dests # {} => MatchNamespaceInList(visit.target, visit.dests)
     THEN Go([visit EXCEPT !.at = "create"]) ELSE End
  /\ UNCHANGED <<policy, instances, ghosts, edits>>

CreateInstance ==
  /\ visit # None /\ visit.at = "create" /\ End
  /\ \/ \E i \in Index : instances[i] = None
                         /\ instances' = [instances EXCEPT ![i] = [ns |-> visit.target,
                                                                   project |-> visit.project]]
     \/ UNCHANGED instances                     \* refused by the API server
  /\ UNCHANGED <<policy, ghosts, edits>>

-----------------------------------------------------------------------------
(* Policies are loaded; administrators change projects, roles and groups; other clients      *)
(* create and delete instances.                                                      *)
Load == ~synced /\ synced' = TRUE
        /\ UNCHANGED <<projects, readable, creatable, admin, grouped, instances, visit, granted,
                       owned, ghosts, edits>>

Edit ==
  /\ edits < MaxEdits /\ edits' = edits + 1
  /\ \/ \E p \in Project, d \in {None} \cup SUBSET (Namespace \cup {Anywhere}) :
          projects' = [projects EXCEPT ![p] = d]
          /\ UNCHANGED <<readable, creatable, admin, grouped, instances>>
     \/ \E ps \in SUBSET Project :
          \/ readable' = ps /\ UNCHANGED <<projects, creatable, admin, grouped, instances>>
          \/ creatable' = ps /\ UNCHANGED <<projects, readable, admin, grouped, instances>>
          \/ grouped' = ps /\ UNCHANGED <<projects, readable, creatable, admin, instances>>
     \/ admin' = ~admin /\ UNCHANGED <<projects, readable, creatable, grouped, instances>>
     \/ \E i \in Index :
          /\ IF instances[i] # None THEN instances' = [instances EXCEPT ![i] = None]
             ELSE \E n \in Namespace \cup {Cluster}, p \in Project :
                    instances' = [instances EXCEPT ![i] = [ns |-> n, project |-> p]]
          /\ UNCHANGED <<projects, readable, creatable, admin, grouped>>
  /\ IF visit = None THEN UNCHANGED <<granted, owned>>
     ELSE LET ps == {p \in Project : projects'[p] # None /\ (admin' \/ p \in readable')}
              ds == UNION {IF projects'[p] = None THEN {} ELSE projects'[p] : p \in owned \cup ps \cup grouped'}
          IN granted' = granted \cup ds /\ owned' = owned \cup ps
  /\ UNCHANGED <<synced, visit, ghosts>>

Next ==
  \/ Enter \/ EnterCreate \/ ReadProjects \/ Legacy \/ Collect \/ ReadInstances \/ Respond
  \/ ReadProject \/ Permit \/ CreateInstance \/ Load \/ Edit

Spec == Init /\ [][Next]_vars

-----------------------------------------------------------------------------
TypeOK ==
  /\ projects \in [Project -> {None} \cup SUBSET (Namespace \cup {Anywhere})]
  /\ {readable, creatable, grouped} \subseteq SUBSET Project /\ {admin, synced} \subseteq BOOLEAN
  /\ \A i \in Index : instances[i] # None =>
       instances[i].ns \in Namespace \cup {Cluster} /\ instances[i].project \in Project
  /\ edits \in 0..MaxEdits

(* What is shown belongs to a project that the caller had at some time since the request began, or   *)
(* lies in a namespace that was one of its destinations since then, however projects and policies   *)
(* changed between the readings ("Filters results based on user's project namespaces",            *)
(* ListInstances).  The two need not have held at once: a destination added after the access was   *)
(* taken away is still read.                                                          *)
ShownIsGranted == ~leaked

(* The total of a list is the number of instances that the caller has access to ("Use the shared   *)
(* access filter to match ListInstances behavior", GetCount).                             *)
CountMatchesList == ~miscounted
=============================================================================
