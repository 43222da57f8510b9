------------------------------ MODULE Catalog ------------------------------
(***************************************************************************)
(* The catalog of ResourceGraphDefinitions (kro/watcher/rgd_watcher.go and *)
(* cache.go): the handlers of the informer keep a map of entries, an index  *)
(* of them and the graphs that kro built.  The callback of the instance      *)
(* tracker (app/app.go) writes entries as well, to put a count into them:     *)
(* it reads an entry, counts, and sets what it read.                        *)
(***************************************************************************)
EXTENDS Naturals, FiniteSets

CONSTANTS Rgd,
          Manifest,           \* what an RGD may declare: [gate, deps, project]
          Kind, Project,
          Counter,            \* goroutines of instance informers that run the callback
          Resyncs,            \* whether the informer resyncs within the run
          MaxRv,              \* bound: writes to the RGDs
          None

VARIABLES rgds,               \* the RGDs of the cluster, None or [rv, spec]
          lastRv,             \* the last resource version that was given
          delivered,          \* what the informer has delivered of each
          handler,            \* the event its goroutine handles
          rgdCache,           \* RGDCache.rgds: None or [rv, spec, deps]
          dependsOnIndex,     \* RGDCache.dependsOnKindIndex, as pairs
          projectIndex,       \* RGDCache.projectIndex, as pairs
          graphs,             \* graphCache: the version a graph was built of, or 0
          counter,            \* the entries each counter has read and will set
          putBack             \* RGDs whose entry a counter replaced by an older one

vars == <<rgds, lastRv, delivered, handler, rgdCache, dependsOnIndex, projectIndex, graphs,
          counter, putBack>>

Idle == [at |-> "idle"]

(* The annotation may be spelled "yes"; only the exact "true" is listed.       *)
Included(o) == o # None /\ o.spec.gate \in {"true", "yes"}

Init ==
  /\ rgds = [r \in Rgd |-> None]
  /\ lastRv = 0
  /\ delivered = rgds
  /\ handler = Idle
  /\ rgdCache = [r \in Rgd |-> None]
  /\ dependsOnIndex = {} /\ projectIndex = {}
  /\ graphs = [r \in Rgd |-> 0]
  /\ counter = [c \in Counter |-> {}]
  /\ putBack = {}

-----------------------------------------------------------------------------
(* RGDCache.Set and Delete: the keys of the old entry leave the indexes, those *)
(* of the new one enter them, in one critical section.                        *)
ProjectOf(e) == IF e.spec.project = None THEN {} ELSE {e.spec.project}

Unindexed(r) ==
  IF rgdCache[r] = None THEN [deps |-> dependsOnIndex, projects |-> projectIndex]
  ELSE [deps |-> dependsOnIndex \ {<<k, r>> : k \in rgdCache[r].deps},
        projects |-> projectIndex \ {<<p, r>> : p \in ProjectOf(rgdCache[r])}]

Set(r, e) ==
  /\ rgdCache' = [rgdCache EXCEPT ![r] = e]
  /\ dependsOnIndex' = Unindexed(r).deps \cup {<<k, r>> : k \in e.deps}
  /\ projectIndex' = Unindexed(r).projects \cup {<<p, r>> : p \in ProjectOf(e)}

Delete(r) ==
  /\ rgdCache' = [rgdCache EXCEPT ![r] = None]
  /\ dependsOnIndex' = Unindexed(r).deps
  /\ projectIndex' = Unindexed(r).projects

-----------------------------------------------------------------------------
(* Other clients write RGDs.                                                 *)
Apply(r) ==
  \E m \in Manifest :
    /\ lastRv < MaxRv /\ lastRv' = lastRv + 1
    /\ rgds' = [rgds EXCEPT ![r] = [rv |-> lastRv + 1, spec |-> m]]
    /\ UNCHANGED <<delivered, handler, rgdCache, dependsOnIndex, projectIndex, graphs, counter, putBack>>

Remove(r) ==
  /\ rgds[r] # None /\ rgds' = [rgds EXCEPT ![r] = None]
  /\ UNCHANGED <<lastRv, delivered, handler, rgdCache, dependsOnIndex, projectIndex, graphs, counter, putBack>>

(* The informer hands the next event to the handlers; a resync repeats the     *)
(* object that was delivered.                                                 *)
Deliver(r) ==
  /\ handler = Idle
  /\ delivered[r] # rgds[r] \/ (Resyncs /\ rgds[r] # None)
  /\ handler' = [at |-> "event", rgd |-> r, old |-> delivered[r], new |-> rgds[r]]
  /\ delivered' = [delivered EXCEPT ![r] = rgds[r]]
  /\ UNCHANGED <<rgds, lastRv, rgdCache, dependsOnIndex, projectIndex, graphs, counter, putBack>>

-----------------------------------------------------------------------------
(* handleDelete, and handleUpdate of an RGD that leaves the catalog.           *)
HandleGone ==
  /\ handler.at = "event" /\ handler.old # None /\ ~Included(handler.new)
  /\ Delete(handler.rgd)
  /\ graphs' = [graphs EXCEPT ![handler.rgd] = 0]
  /\ putBack' = putBack \ {handler.rgd}
  /\ handler' = Idle
  /\ UNCHANGED <<rgds, lastRv, delivered, counter>>

(* handleAdd of an RGD that is not in the catalog.                            *)
IgnoreAdd ==
  /\ handler.at = "event" /\ handler.old = None /\ ~Included(handler.new)
  /\ handler' = Idle
  /\ UNCHANGED <<rgds, lastRv, delivered, rgdCache, dependsOnIndex, projectIndex, graphs, counter, putBack>>

IsResync == handler.old # None /\ handler.old.rv = handler.new.rv

(* buildAndCacheGraph: the graph of the new version, or of none when kro cannot *)
(* build it; either way the kinds are extracted into the new entry.             *)
BuildAndCacheGraph ==
  /\ handler.at = "event" /\ Included(handler.new) /\ ~IsResync
  /\ \E g \in {0, handler.new.rv} : graphs' = [graphs EXCEPT ![handler.rgd] = g]
  /\ handler' = [at |-> "set", rgd |-> handler.rgd,
                 entry |-> [rv |-> handler.new.rv, spec |-> handler.new.spec,
                            deps |-> handler.new.spec.deps]]
  /\ UNCHANGED <<rgds, lastRv, delivered, rgdCache, dependsOnIndex, projectIndex, counter, putBack>>

(* A resync converts the object again, without its graph: the kinds of the new  *)
(* entry stay empty.                                                          *)
HandleResync ==
  /\ handler.at = "event" /\ Included(handler.new) /\ IsResync
  /\ handler' = [at |-> "set", rgd |-> handler.rgd,
                 entry |-> [rv |-> handler.new.rv, spec |-> handler.new.spec, deps |-> {}]]
  /\ UNCHANGED <<rgds, lastRv, delivered, rgdCache, dependsOnIndex, projectIndex, graphs, counter, putBack>>

\* Mutant: an RGD that is known already is not set again.
HandlerSetsOnce ==
  /\ handler.at = "set"
  /\ IF rgdCache[handler.rgd] = None THEN Set(handler.rgd, handler.entry)
     ELSE UNCHANGED <<rgdCache, dependsOnIndex, projectIndex>>
  /\ putBack' = putBack \ {handler.rgd}
  /\ handler' = Idle
  /\ UNCHANGED <<rgds, lastRv, delivered, graphs, counter>>

HandlerSets ==
  /\ handler.at = "set"
  /\ Set(handler.rgd, handler.entry)
  /\ putBack' = putBack \ {handler.rgd}
  /\ handler' = Idle
  /\ UNCHANGED <<rgds, lastRv, delivered, graphs, counter>>

-----------------------------------------------------------------------------
(* updateRGDInstanceCount reads one entry, updateAllRGDInstanceCounts all.     *)
Entries(S) == {[rgd |-> r, entry |-> rgdCache[r]] : r \in {q \in S : rgdCache[q] # None}}

UpdateRGDInstanceCount(c) ==
  \E S \in {{r} : r \in Rgd} \cup {Rgd} :
    /\ counter[c] = {} /\ Entries(S) # {}
    /\ counter' = [counter EXCEPT ![c] = Entries(S)]
    /\ UNCHANGED <<rgds, lastRv, delivered, handler, rgdCache, dependsOnIndex, projectIndex, graphs, putBack>>

CounterSets(c) ==
  \E x \in counter[c] :
    /\ Set(x.rgd, x.entry)
    /\ putBack' = IF rgdCache[x.rgd] = x.entry THEN putBack ELSE putBack \cup {x.rgd}
    /\ counter' = [counter EXCEPT ![c] = @ \ {x}]
    /\ UNCHANGED <<rgds, lastRv, delivered, handler, graphs>>

WatcherStep == HandleGone \/ IgnoreAdd \/ BuildAndCacheGraph \/ HandleResync \/ HandlerSets

Next ==
  \/ \E r \in Rgd : Apply(r) \/ Remove(r) \/ Deliver(r)
  \/ WatcherStep
  \/ \E c \in Counter : UpdateRGDInstanceCount(c) \/ CounterSets(c)

Spec == Init /\ [][Next]_vars

-----------------------------------------------------------------------------
(* RGDCache.List: the entries that an index yields, filtered by all options.   *)
ListOptions == [kind : Kind \cup {None}, projects : SUBSET Project, includePublic : BOOLEAN]

MatchesFilter(e, opts) ==
  /\ e.spec.gate = "true"
  /\ opts.includePublic \/ opts.projects # {} =>
       \/ (opts.includePublic /\ e.spec.project = None)
       \/ e.spec.project \in opts.projects
  /\ opts.kind # None => opts.kind \in e.deps

\* Mutant: the projects narrow the candidates even when public RGDs are wanted.
CandidateKeysOfProjects(opts) ==
  {r \in Rgd :
     /\ opts.kind # None => <<opts.kind, r>> \in dependsOnIndex
     /\ opts.projects # {} => \E p \in opts.projects : <<p, r>> \in projectIndex}

CandidateKeys(opts) ==
  {r \in Rgd :
     /\ opts.kind # None => <<opts.kind, r>> \in dependsOnIndex
     /\ opts.projects # {} /\ ~opts.includePublic =>
          \E p \in opts.projects : <<p, r>> \in projectIndex}

List(opts) ==
  {r \in CandidateKeys(opts) : rgdCache[r] # None /\ MatchesFilter(rgdCache[r], opts)}

-----------------------------------------------------------------------------
TypeOK ==
  /\ lastRv \in 0 .. MaxRv
  /\ \A r \in Rgd :
       /\ rgds[r] = None \/ rgds[r].rv \in 1 .. lastRv
       /\ rgdCache[r] # None => rgdCache[r].deps \in SUBSET Kind
  /\ handler.at \in {"idle", "event", "set"}
  /\ \A r \in Rgd : graphs[r] \in 0 .. lastRv
  /\ putBack \subseteq Rgd

(* A list that goes through the indexes finds what a scan of all entries finds, *)
(* for every combination of kind, projects and public RGDs.                     *)
ListIsScan ==
  \A opts \in ListOptions :
    List(opts) = {r \in Rgd : rgdCache[r] # None /\ MatchesFilter(rgdCache[r], opts)}

(* What the catalog should hold of an RGD once its events are handled.          *)
Handled(r) == handler = Idle /\ delivered[r] = rgds[r]

(* When the events of an RGD are handled, the catalog has the version that is    *)
(* in the cluster and its graph, or nothing, unless a counter put an older entry *)
(* back; the kinds are those of that version or were lost in a resync.           *)
CatalogExplained ==
  \A r \in Rgd : Handled(r) /\ r \notin putBack =>
    IF Included(rgds[r])
    THEN /\ rgdCache[r] # None /\ rgdCache[r].rv = rgds[r].rv
         /\ rgdCache[r].deps = rgds[r].spec.deps \/ (Resyncs /\ rgdCache[r].deps = {})
         /\ graphs[r] \in {0, rgds[r].rv}
    ELSE rgdCache[r] = None /\ graphs[r] = 0
=============================================================================
