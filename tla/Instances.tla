----------------------------- MODULE Instances -----------------------------
(***************************************************************************)
(* The instance tracker (kro/watcher/instance_tracker.go, instance_cache.go) *)
(* Every RGD of the catalog has a handler on the informer of its kind, with   *)
(* a goroutine of its own; RGDs of one kind share the informer.  The cache    *)
(* has a lock, but what is read from it, or from an event, is used after the  *)
(* lock is released: by the handlers, by the callback of the RGD watcher and   *)
(* by DeleteInstance.                                                       *)
(***************************************************************************)
EXTENDS Naturals, FiniteSets

CONSTANTS Rgd, Instance,
          MaxRv,              \* bound: writes to the instances
          MaxChanges,         \* bound: changes of the catalog
          MaxFaults,          \* bound: failing discoveries
          None

VARIABLES insts,              \* the instances of the cluster: None or [rv, rgd]
          lastRv,             \* the last resource version that was given
          inCatalog,          \* the RGDs in the catalog
          status,             \* per RGD, the version of its status
          informers,          \* registered handlers: <<RGD, how its resource was found>>
          delivered,          \* per RGD, the instances its handler was told of
          handler,            \* per RGD, what its goroutine does
          instCache,          \* the cache: None or [rv, rgd, status]
          tracker,            \* what the goroutine of the RGD watcher does in the callbacks
          request,            \* a request that deletes an instance
          raced,              \* instances whose entry was written by a racing step
          changes, faults

vars == <<insts, lastRv, inCatalog, status, informers, delivered, handler, instCache, tracker,
          request, raced, changes, faults>>

Idle == [at |-> "idle"]
Nothing == [i \in Instance |-> None]

Init ==
  /\ insts = Nothing /\ lastRv = 0
  /\ inCatalog = {} /\ status = [r \in Rgd |-> 0]
  /\ informers = {} /\ delivered = [r \in Rgd |-> Nothing]
  /\ handler = [r \in Rgd |-> Idle]
  /\ instCache = Nothing
  /\ tracker = Idle /\ request = Idle
  /\ raced = {} /\ changes = 0 /\ faults = 0

-----------------------------------------------------------------------------
(* kro and other clients create, change, relabel and delete instances.          *)
WriteInstance(i) ==
  \E r \in Rgd \cup {None} :
    /\ lastRv < MaxRv /\ lastRv' = lastRv + 1
    /\ insts' = [insts EXCEPT ![i] = [rv |-> lastRv + 1, rgd |-> r]]
    /\ UNCHANGED <<inCatalog, status, informers, delivered, handler, instCache, tracker, request,
                   raced, changes, faults>>

RemoveInstance(i) ==
  /\ insts[i] # None /\ insts' = [insts EXCEPT ![i] = None]
  /\ UNCHANGED <<lastRv, inCatalog, status, informers, delivered, handler, instCache, tracker,
                 request, raced, changes, faults>>

-----------------------------------------------------------------------------
(* One event of the informer goes to the handler of an RGD; a resync repeats    *)
(* the object.                                                                *)
Deliver(r, i) ==
  /\ <<r, "mapped">> \in informers /\ handler[r] = Idle
  /\ delivered[r][i] # None \/ insts[i] # None
  /\ handler' = [handler EXCEPT ![r] =
                   [at |-> "event", inst |-> i, old |-> delivered[r][i], new |-> insts[i]]]
  /\ delivered' = [delivered EXCEPT ![r][i] = insts[i]]
  /\ UNCHANGED <<insts, lastRv, inCatalog, status, informers, instCache, tracker, request, raced,
                 changes, faults>>

BelongsToRGD(o, r) == o.rgd = r

(* handleInstanceDelete, whichever RGD the entry is of.                         *)
HandleInstanceDelete(r) ==
  LET i == handler[r].inst IN
  /\ handler[r].at = "event" /\ handler[r].new = None
  /\ instCache' = [instCache EXCEPT ![i] = None]
  /\ raced' = IF insts[i] = None THEN raced \ {i} ELSE raced \cup {i}
  /\ handler' = [handler EXCEPT ![r] = Idle]
  /\ UNCHANGED <<insts, lastRv, inCatalog, status, informers, delivered, tracker, request, changes, faults>>

(* handleInstanceAdd and handleInstanceUpdate of another RGD's instance: an entry *)
(* that was this RGD's is looked up and deleted in two steps.                    *)
NotMine(r) ==
  LET h == handler[r] IN
  /\ h.at = "event" /\ h.new # None /\ ~BelongsToRGD(h.new, r)
  /\ handler' = [handler EXCEPT ![r] =
                   IF h.old # None /\ instCache[h.inst] # None /\ instCache[h.inst].rgd = r
                   THEN [at |-> "leave", inst |-> h.inst] ELSE Idle]
  /\ UNCHANGED <<insts, lastRv, inCatalog, status, informers, delivered, instCache, tracker,
                 request, raced, changes, faults>>

Leave(r) ==
  LET i == handler[r].inst IN
  /\ handler[r].at = "leave"
  /\ instCache' = [instCache EXCEPT ![i] = None]
  /\ raced' = IF instCache[i] # None /\ instCache[i].rgd # r THEN raced \cup {i} ELSE raced
  /\ handler' = [handler EXCEPT ![r] = Idle]
  /\ UNCHANGED <<insts, lastRv, inCatalog, status, informers, delivered, tracker, request, changes, faults>>

(* unstructuredToInstance: the entry takes the status of the RGD as it is now.   *)
Convert(r) ==
  LET h == handler[r] IN
  /\ h.at = "event" /\ h.new # None /\ BelongsToRGD(h.new, r)
  /\ handler' = [handler EXCEPT ![r] =
                   [at |-> "set", inst |-> h.inst,
                    entry |-> [rv |-> h.new.rv, rgd |-> r,
                               status |-> IF r \in inCatalog THEN status[r] ELSE 0]]]
  /\ UNCHANGED <<insts, lastRv, inCatalog, status, informers, delivered, instCache, tracker,
                 request, raced, changes, faults>>

(* cache.Set: a race when the handler was removed (and perhaps registered anew),  *)
(* the instance is another RGD's or gone by now, or the status has changed since. *)
Current(i, r, e) ==
  /\ <<r, "mapped">> \in informers /\ delivered[r][i] # None
  /\ insts[i] # None /\ insts[i].rgd = r
  /\ e.status = status[r]

HandlerSets(r) ==
  LET h == handler[r] IN
  /\ h.at = "set"
  /\ instCache' = [instCache EXCEPT ![h.inst] = h.entry]
  /\ raced' = IF Current(h.inst, r, h.entry) THEN raced \ {h.inst} ELSE raced \cup {h.inst}
  /\ handler' = [handler EXCEPT ![r] = Idle]
  /\ UNCHANGED <<insts, lastRv, inCatalog, status, informers, delivered, tracker, request, changes, faults>>

HandlerStep(r) == HandleInstanceDelete(r) \/ NotMine(r) \/ Leave(r) \/ Convert(r) \/ HandlerSets(r)

-----------------------------------------------------------------------------
(* The RGD watcher sets or deletes an RGD and runs the callbacks.                *)
CatalogChanges(r) ==
  /\ tracker = Idle /\ changes < MaxChanges /\ changes' = changes + 1
  /\ \/ /\ inCatalog' = inCatalog \cup {r}
        /\ status' = [status EXCEPT ![r] = IF r \in inCatalog THEN @ + 1 ELSE @]
     \/ r \in inCatalog /\ inCatalog' = inCatalog \ {r} /\ UNCHANGED status
  /\ tracker' = [at |-> "ensure", rgd |-> r]
  /\ UNCHANGED <<insts, lastRv, informers, delivered, handler, instCache, request, raced, faults>>

(* handleRGDChange: a handler for every RGD; when discovery fails the name of the *)
(* resource is guessed, and the handler with the right name is removed below.     *)
EnsureInformers ==
  \E S \in SUBSET inCatalog :
    /\ tracker.at = "ensure"
    /\ S # {} => faults < MaxFaults
    /\ faults' = IF S = {} THEN faults ELSE faults + 1
    /\ LET keys == {<<r, IF r \in S THEN "guessed" ELSE "mapped">> : r \in inCatalog}
       IN /\ informers' = informers \cup keys
          /\ tracker' = [at |-> "purge", rgd |-> tracker.rgd, todo |-> informers \ keys]
          /\ delivered' = [r \in Rgd |-> IF <<r, "mapped">> \in keys \ informers
                                         THEN Nothing ELSE delivered[r]]
    /\ UNCHANGED <<insts, lastRv, inCatalog, status, handler, instCache, request, raced, changes>>

\* Mutant: the handler is removed, its instances stay.
RemoveInformerOnly(k) ==
  /\ tracker.at = "purge" /\ k \in tracker.todo
  /\ informers' = informers \ {k}
  /\ tracker' = [tracker EXCEPT !.todo = @ \ {k}]
  /\ UNCHANGED <<insts, lastRv, inCatalog, status, delivered, handler, instCache, request, raced,
                 changes, faults>>

RemoveInformer(k) ==
  /\ tracker.at = "purge" /\ k \in tracker.todo
  /\ informers' = informers \ {k}
  /\ tracker' = [at |-> "deleteByRGD", key |-> k, rgd |-> tracker.rgd, todo |-> tracker.todo \ {k}]
  /\ UNCHANGED <<insts, lastRv, inCatalog, status, delivered, handler, instCache, request, raced,
                 changes, faults>>

(* DeleteByRGD takes all entries of the RGD, those of its other handler too.     *)
DeleteByRGD ==
  LET mine == {i \in Instance : instCache[i] # None /\ instCache[i].rgd = tracker.key[1]} IN
  /\ tracker.at = "deleteByRGD"
  /\ instCache' = [i \in Instance |-> IF i \in mine THEN None ELSE instCache[i]]
  /\ raced' = IF tracker.key[1] \in inCatalog THEN raced \cup mine ELSE raced
  /\ tracker' = [at |-> "purge", rgd |-> tracker.rgd, todo |-> tracker.todo]
  /\ UNCHANGED <<insts, lastRv, inCatalog, status, informers, delivered, handler, request, changes, faults>>

(* updateInstancesRGDStatus: the entries of the RGD are read, then set one by one. *)
ReadForStatus ==
  LET r == tracker.rgd
      old == {i \in Instance : /\ instCache[i] # None /\ instCache[i].rgd = r
                               /\ instCache[i].status # status[r]}
  IN /\ tracker.at = "purge" /\ tracker.todo = {}
     /\ tracker' = IF r \in inCatalog /\ old # {}
                   THEN [at |-> "status", rgd |-> r, copies |-> {<<i, instCache[i]>> : i \in old}]
                   ELSE Idle
     /\ UNCHANGED <<insts, lastRv, inCatalog, status, informers, delivered, handler, instCache,
                    request, raced, changes, faults>>

SetStatus ==
  \E c \in tracker.copies :
    /\ instCache' = [instCache EXCEPT ![c[1]] = [c[2] EXCEPT !.status = status[tracker.rgd]]]
    /\ raced' = IF instCache[c[1]] # c[2] THEN raced \cup {c[1]} ELSE raced
    /\ tracker' = IF tracker.copies = {c} THEN Idle ELSE [tracker EXCEPT !.copies = @ \ {c}]
    /\ UNCHANGED <<insts, lastRv, inCatalog, status, informers, delivered, handler, request,
                   changes, faults>>

TrackerStep ==
  \/ EnsureInformers
  \/ \E k \in informers : RemoveInformer(k)
  \/ DeleteByRGD
  \/ ReadForStatus
  \/ tracker.at = "status" /\ SetStatus

-----------------------------------------------------------------------------
(* DeleteInstance: the instance is deleted in the cluster, or marked and kept by  *)
(* its finalizers, and then taken out of the cache whatever it is by now.         *)
DeleteInCluster(i) ==
  /\ request = Idle /\ insts[i] # None
  /\ \/ insts' = [insts EXCEPT ![i] = None] /\ UNCHANGED lastRv
     \/ /\ lastRv < MaxRv /\ lastRv' = lastRv + 1
        /\ insts' = [insts EXCEPT ![i].rv = lastRv + 1]
  /\ request' = [at |-> "deleted", inst |-> i]
  /\ UNCHANGED <<inCatalog, status, informers, delivered, handler, instCache, tracker, raced,
                 changes, faults>>

DeleteFromCache ==
  /\ request.at = "deleted"
  /\ instCache' = [instCache EXCEPT ![request.inst] = None]
  /\ raced' = IF insts[request.inst] # None THEN raced \cup {request.inst} ELSE raced
  /\ request' = Idle
  /\ UNCHANGED <<insts, lastRv, inCatalog, status, informers, delivered, handler, tracker, changes, faults>>

Next ==
  \/ \E i \in Instance : WriteInstance(i) \/ RemoveInstance(i) \/ DeleteInCluster(i)
  \/ DeleteFromCache
  \/ \E r \in Rgd : (\E i \in Instance : Deliver(r, i)) \/ HandlerStep(r) \/ CatalogChanges(r)
  \/ TrackerStep

Spec == Init /\ [][Next]_vars

-----------------------------------------------------------------------------
TypeOK ==
  /\ \A i \in Instance : insts[i] = None \/ insts[i].rv \in 1 .. lastRv
  /\ lastRv \in 0 .. MaxRv /\ inCatalog \subseteq Rgd
  /\ informers \subseteq Rgd \X {"mapped", "guessed"}
  /\ \A r \in Rgd : handler[r].at \in {"idle", "event", "leave", "set"}
  /\ tracker.at \in {"idle", "ensure", "purge", "deleteByRGD", "status"}
  /\ raced \subseteq Instance

Quiet ==
  /\ tracker = Idle /\ request = Idle
  /\ \A r \in Rgd : handler[r] = Idle /\ (<<r, "mapped">> \in informers => delivered[r] = insts)

(* When every event is handled, the cache has each instance of an RGD whose        *)
(* handler is registered, at its version and with the status of its RGD, and no     *)
(* other, unless one of the named races wrote the entry last.                       *)
CacheExplained ==
  Quiet => \A i \in Instance \ raced :
    IF insts[i] # None /\ <<insts[i].rgd, "mapped">> \in informers
    THEN instCache[i] = [rv |-> insts[i].rv, rgd |-> insts[i].rgd, status |-> status[insts[i].rgd]]
    ELSE instCache[i] = None
=============================================================================
