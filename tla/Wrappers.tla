------------------------------ MODULE Wrappers ------------------------------
(***************************************************************************)
(* Projects created through a wrapper RGD.                                 *)
(*                                                                         *)
(* A ConfigMap names the wrapper RGD for Kind Project                      *)
(* (services/wrapper/store.go); every replica holds the entry its watcher  *)
(* read last (watcher.go).  While there is one, CreateProject creates an   *)
(* instance of that RGD, from which kro makes the project with a marker    *)
(* annotation; updates and deletions of a marked project go to the         *)
(* instance of its name of the RGD that is registered by then              *)
(* (handlers/project_wrapper_routing.go), or to the project itself.        *)
(*                                                                         *)
(* One project name.  The ConfigMap can hold one Kind only, so that the    *)
(* two reads of a change of the registry have no effect of their own.      *)
(***************************************************************************)
EXTENDS Naturals, FiniteSets

CONSTANTS
  Wrapper,    \* wrapper RGDs
  Client,     \* requests for the project
  None,
  MaxSwitches, \* bound: changes of the registry and of the catalog
  MaxAsks,     \* bound: requests
  MaxMisses    \* bound: failed reads

VARIABLES
  registry,   \* ConfigMap: a wrapper, None for no entry, or "gone", "broken"
  unread,     \* a change of the ConfigMap that the watcher has not loaded
  entry,      \* watcher: the last valid entry, None for none
  resolvable, \* RGD watcher: the wrappers whose kind is known
  made,       \* kro instances: for each wrapper the destinations in its spec, None for no instance
  project,    \* the Project: who owns it and its destinations
  client,     \* the request each client works on
  switched,   \* history: the registry was changed, or the read of a marker failed
  astray,     \* history: a request acted on another instance than the owner's
  undead,     \* history: a project came back after its deletion
  switches, asks, misses

vars == <<registry, unread, entry, resolvable, made, project, client, switched,
          astray, undead, switches, asks, misses>>
history == <<astray, undead>>
Away    == [at |-> "idle"]
Owner   == Wrapper \cup {None}     \* None: created directly, no marker
-----------------------------------------------------------------------------
Init ==
  /\ registry \in Wrapper \cup {None, "gone"}
  /\ entry = IF registry \in Wrapper THEN registry ELSE None
  /\ unread = FALSE /\ resolvable = Wrapper
  /\ made = [w \in Wrapper |-> None] /\ project = None
  /\ client = [c \in Client |-> Away]
  /\ switched = FALSE /\ astray = FALSE /\ undead = FALSE
  /\ switches = 0 /\ asks = 0 /\ misses = 0

(* List, what a change of the registry starts from: the ConfigMap that is  *)
(* missing is an empty list, one that cannot be parsed an error.           *)
Listed == IF registry = "gone" THEN None ELSE registry

(* writeEntries creates the ConfigMap when it is missing.                  *)
WriteEntries(r) == registry' = r /\ unread' = TRUE

Switch ==
  /\ switches < MaxSwitches /\ switches' = switches + 1 /\ switched' = TRUE
  /\ UNCHANGED <<entry, resolvable, made, project, client, history, asks, misses>>

(* PutWrapper replaces the entry of its Kind; DeleteWrapper needs one.     *)
PutWrapper(w) == Listed # "broken" /\ WriteEntries(w) /\ Switch
DeleteWrapper == Listed \in Wrapper /\ WriteEntries(None) /\ Switch

(* Somebody else writes the ConfigMap; its deletion is an event that the   *)
(* watcher ignores.                                                        *)
KubeEdit ==
  /\ \/ registry # "broken" /\ WriteEntries("broken")
     \/ registry # "gone" /\ registry' = "gone" /\ UNCHANGED unread
  /\ Switch

(* loadEntries: what cannot be parsed leaves the last valid entry.         *)
LoadEntries(r) == IF r = "broken" THEN entry ELSE IF r \in Wrapper THEN r ELSE None

Reload ==
  /\ unread /\ unread' = FALSE /\ entry' = LoadEntries(registry)
  /\ UNCHANGED <<registry, resolvable, made, project, client, switched, history, switches, asks, misses>>

(* The RGD leaves the catalog, or returns to it.                           *)
Readiness ==
  /\ switches < MaxSwitches /\ switches' = switches + 1
  /\ \E w \in Wrapper :
       resolvable' = IF w \in resolvable THEN resolvable \ {w} ELSE resolvable \cup {w}
  /\ UNCHANGED <<registry, unread, entry, made, project, client, switched, history, asks, misses>>

(* kro makes the project of an instance, keeps it like the instance, and   *)
(* deletes it with the instance.                                           *)
Materialize(w) ==
  /\ made[w] # None
  /\ ~(project # None /\ (project.owner # w \/ project.dests = made[w]))
  /\ project' = [owner |-> w, dests |-> made[w]]
  /\ UNCHANGED <<registry, unread, entry, resolvable, made, client, switched, history, switches, asks, misses>>

Collect(w) ==
  /\ made[w] = None /\ project # None /\ project.owner = w
  /\ project' = None
  /\ UNCHANGED <<registry, unread, entry, resolvable, made, client, switched, history, switches, asks, misses>>
-----------------------------------------------------------------------------
Others == UNCHANGED <<registry, unread, entry, resolvable, switches>>

\* Mutant: a marked project is updated and deleted like any other.
DirectRoute(p) == None

(* updateProjectViaWrapper, deleteProjectViaWrapper: a marked project is   *)
(* handled by the instance of the wrapper that is registered now, and      *)
(* directly when none is.                                                  *)
Route(p) == IF p.owner = None THEN None ELSE entry

(* A request reads the project.  The read that looks for the marker before *)
(* a deletion may fail, and the project then counts as unmarked.           *)
Ask(c) ==
  /\ client[c] = Away /\ asks < MaxAsks /\ asks' = asks + 1
  /\ \/ \E d \in BOOLEAN :
          /\ project = None
          /\ client' = [client EXCEPT ![c] = [at |-> "create", via |-> entry, dests |-> d]]
          /\ UNCHANGED <<switched, misses>>
     \/ \E d \in BOOLEAN :
          /\ project # None
          /\ client' = [client EXCEPT ![c] =
               [at |-> "update", via |-> Route(project), dests |-> d, of |-> project]]
          /\ UNCHANGED <<switched, misses>>
     \/ /\ project # None
        /\ client' = [client EXCEPT ![c] = [at |-> "delete", via |-> Route(project), of |-> project]]
        /\ UNCHANGED <<switched, misses>>
     \/ /\ project # None /\ misses < MaxMisses /\ misses' = misses + 1 /\ switched' = TRUE
        /\ client' = [client EXCEPT ![c] = [at |-> "delete", via |-> None, of |-> project]]
  /\ Others /\ UNCHANGED <<made, project, history>>

Done(c)  == client' = [client EXCEPT ![c] = Away] /\ Others /\ UNCHANGED <<asks, misses>>
Refused(c) ==    \* misconfigured wrapper, conflict or not found
  /\ client[c] # Away
  /\ IF client[c].via = None
     THEN CASE client[c].at = "create" -> project # None
            [] client[c].at = "update" -> project # client[c].of
            [] OTHER -> project = None
     ELSE client[c].via \notin resolvable \/ ((client[c].at = "create") <=> (made[client[c].via] # None))
  /\ Done(c) /\ UNCHANGED <<made, project, switched, history>>

(* CreateViaWrapper, or CreateProject: a name that exists is a conflict.   *)
Create(c) ==
  /\ client[c].at = "create"
  /\ LET w == client[c].via d == client[c].dests IN
     /\ IF w = None
        THEN project = None /\ project' = [owner |-> None, dests |-> d] /\ made' = made
        ELSE w \in resolvable /\ made[w] = None /\ made' = [made EXCEPT ![w] = d] /\ UNCHANGED project
  /\ Done(c) /\ UNCHANGED <<switched, history>>

(* updateRequestToInstanceSpec always sends destinations, the empty list   *)
(* for a request without; applyUpdateToProject leaves them as they are.    *)
SentDests(asked) == asked

(* UpdateViaWrapper patches the instance; UpdateProject writes the project *)
(* with the version that was read.                                         *)
Update(c) ==
  /\ client[c].at = "update"
  /\ LET w == client[c].via d == client[c].dests IN
     /\ IF w = None
        THEN /\ project = client[c].of
             /\ project' = [project EXCEPT !.dests = @ \/ d] /\ made' = made
        ELSE /\ w \in resolvable /\ made[w] # None
             /\ made' = [made EXCEPT ![w] = SentDests(d)] /\ project' = project
     /\ astray' = (astray \/ w # client[c].of.owner)
  /\ Done(c) /\ UNCHANGED <<switched, undead>>

(* DeleteViaWrapper deletes the instance; DeleteProject the project, which *)
(* comes back when an instance has made it.                                *)
Delete(c) ==
  /\ client[c].at = "delete"
  /\ LET w == client[c].via IN
     /\ IF w = None
        THEN project # None /\ project' = None /\ made' = made
        ELSE w \in resolvable /\ made[w] # None /\ made' = [made EXCEPT ![w] = None] /\ project' = project
     /\ astray' = (astray \/ w # client[c].of.owner)
     /\ undead' = (undead \/ (w = None /\ \E v \in Wrapper : project.owner = v /\ made[v] # None))
  /\ Done(c) /\ UNCHANGED switched

Next ==
  \/ \E w \in Wrapper : PutWrapper(w)
  \/ DeleteWrapper \/ KubeEdit \/ Reload \/ Readiness
  \/ \E w \in Wrapper : Materialize(w) \/ Collect(w)
  \/ \E c \in Client : Ask(c) \/ Refused(c) \/ Create(c) \/ Update(c) \/ Delete(c)

Spec == Init /\ [][Next]_vars
-----------------------------------------------------------------------------
(* The registry, the instances and the requests are well formed.           *)
TypeOK ==
  /\ registry \in Wrapper \cup {None, "gone", "broken"} /\ entry \in Owner
  /\ resolvable \subseteq Wrapper /\ unread \in BOOLEAN
  /\ made \in [Wrapper -> BOOLEAN \cup {None}]
  /\ project = None \/ (project.owner \in Owner /\ project.dests \in BOOLEAN)
  /\ \A c \in Client : client[c] = Away \/ (client[c].at \in {"create", "update", "delete"} /\ client[c].via \in Owner)
  /\ {switched, astray, undead} \subseteq BOOLEAN
  /\ switches \in 0..MaxSwitches /\ asks \in 0..MaxAsks /\ misses \in 0..MaxMisses

(* "Subsequent PATCH / DELETE operations route through the same wrapper    *)
(* instance" (website/docs/administration/wrapper-rgds.md:28): they do     *)
(* while the registry is not changed and the marker can be read.           *)
SameInstance == astray => switched

(* A deleted project does not come back, under the same conditions: what   *)
(* made it was deleted.                                                    *)
StaysDeleted == undead => switched
=============================================================================
