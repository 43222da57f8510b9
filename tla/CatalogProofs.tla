---------------------------- MODULE CatalogProofs ----------------------------
(***************************************************************************)
(* The caches that informers feed, as MCServices composes them: the catalog *)
(* of RGDs with its indexes, the instances, and the revisions; the forms    *)
(* that are made of RGDs; and the types of all components.                  *)
(***************************************************************************)
EXTENDS ServicesProofs, FiniteSetTheorems, TLAPS

-----------------------------------------------------------------------------
(* Catalog *)

Declaration == [rv : 1 .. lastRv, spec : Declared]
RgdEntry == [rv : Nat, spec : Declared, deps : SUBSET Kind]

CatTypes ==
  /\ lastRv \in 0 .. MaxRv
  /\ rgds \in [Graph -> Declaration \cup {None}]
  /\ delivered \in [Graph -> Declaration \cup {None}]
  /\ rgdCache \in [Graph -> RgdEntry \cup {None}]
  /\ graphs \in [Graph -> 0 .. lastRv]
  /\ counter \in [Counter -> SUBSET [rgd : Graph, entry : RgdEntry]]
  /\ putBack \in SUBSET Graph

HandlerTypes ==
  \/ handler = Cat!Idle
  \/ /\ handler \in [at : {"event"}, rgd : Graph, old : Declaration \cup {None},
                     new : Declaration \cup {None}]
     /\ handler.old # None \/ handler.new # None
  \/ handler \in [at : {"set"}, rgd : Graph, entry : RgdEntry]

\* The indexes are those of the entries.
Indexed ==
  /\ dependsOnIndex \subseteq Kind \X Graph /\ projectIndex \subseteq Project \X Graph
  /\ \A k \in Kind, r \in Graph :
       <<k, r>> \in dependsOnIndex <=> rgdCache[r] # None /\ k \in rgdCache[r].deps
  /\ \A p \in Project, r \in Graph :
       <<p, r>> \in projectIndex <=> rgdCache[r] # None /\ p \in Cat!ProjectOf(rgdCache[r])

(* A resource version is given once, to one RGD as it is then.  An object   *)
(* that is delivered again comes of a resync.                               *)
VersionsDiffer ==
  /\ \A r \in Graph : rgds[r] # None /\ delivered[r] # None /\ rgds[r].rv = delivered[r].rv
                        => rgds[r] = delivered[r]
  /\ handler.at = "event" =>
       /\ handler.new = delivered[handler.rgd]
       /\ handler.old # None /\ handler.new # None /\ handler.old.rv = handler.new.rv
            => handler.old = handler.new /\ Resyncs

\* The kinds of an entry are those of its version, or were lost in a resync.
EntryOf(e, o) == e.rv = o.rv /\ (e.deps = o.spec.deps \/ (Resyncs /\ e.deps = {}))

\* The cache and the graph are what the handling of an object leaves.
EntryIs(r, o) ==
  IF Cat!Included(o) THEN rgdCache[r] # None /\ EntryOf(rgdCache[r], o) ELSE rgdCache[r] = None
GraphIs(r, o) == graphs[r] \in (IF Cat!Included(o) THEN {0, o.rv} ELSE {0})

(* What was delivered is handled, or the handler goes on from what it had   *)
(* handled before; a counter may have put an older entry back.              *)
Handles(r) == handler # Cat!Idle /\ handler.rgd = r

CatalogFollows ==
  \A r \in Graph :
    /\ Handles(r) /\ handler.at = "event" =>
         /\ GraphIs(r, handler.old)
         /\ r \notin putBack => EntryIs(r, handler.old)
    /\ Handles(r) /\ handler.at = "set" =>
         /\ GraphIs(r, delivered[r])
         /\ Cat!Included(delivered[r]) /\ EntryOf(handler.entry, delivered[r])
    /\ ~Handles(r) =>
         /\ GraphIs(r, delivered[r])
         /\ r \notin putBack => EntryIs(r, delivered[r])

CatInv == CatTypes /\ HandlerTypes /\ Indexed /\ VersionsDiffer /\ CatalogFollows

LEMMA CatInvInit == AllInit => CatInv
<1> SUFFICES ASSUME Cat!Init PROVE CatInv
  BY DEF AllInit
<1>1. CatTypes /\ HandlerTypes /\ Indexed
  BY ServicesAssumption DEF Cat!Init, Cat!Idle, CatTypes, HandlerTypes, Indexed
<1>2. VersionsDiffer /\ CatalogFollows
  BY DEF Cat!Init, Cat!Idle, Cat!Included, VersionsDiffer, CatalogFollows, Handles, GraphIs, EntryIs
<1> QED
  BY <1>1, <1>2 DEF CatInv

LEMMA NoneIsNoEntry ==
  /\ None \notin RgdEntry
  /\ CatTypes => None \notin Declaration
  /\ CatTypes' => None \notin Declaration'
  BY ServicesAssumption DEF RgdEntry, Declaration, CatTypes

(* RGDCache.Set and Delete keep the indexes in step with the entries. *)
LEMMA SetIndexes ==
  ASSUME CatInv, NEW r \in Graph, NEW e \in RgdEntry, Cat!Set(r, e)
  PROVE  /\ rgdCache' = [rgdCache EXCEPT ![r] = e] /\ rgdCache' \in [Graph -> RgdEntry \cup {None}]
         /\ Indexed'
<1>1. /\ rgdCache \in [Graph -> RgdEntry \cup {None}] /\ Indexed
      /\ rgdCache' = [rgdCache EXCEPT ![r] = e]
  BY DEF CatInv, CatTypes, Cat!Set
<1>2. \A q \in Graph : rgdCache'[q] = IF q = r THEN e ELSE rgdCache[q]
  BY <1>1
<1>3. e.deps \in SUBSET Kind /\ Cat!ProjectOf(e) \in SUBSET Project /\ e # None
  BY ServicesAssumption, NoneIsNoEntry DEF RgdEntry, Cat!ProjectOf
<1>4. /\ dependsOnIndex' \subseteq Kind \X Graph
      /\ \A k \in Kind, q \in Graph :
           <<k, q>> \in dependsOnIndex' <=> IF q = r THEN k \in e.deps ELSE <<k, q>> \in dependsOnIndex
  BY <1>1, <1>3 DEF Cat!Set, Cat!Unindexed, Indexed
<1>5. /\ projectIndex' \subseteq Project \X Graph
      /\ \A p \in Project, q \in Graph :
           <<p, q>> \in projectIndex' <=>
             IF q = r THEN p \in Cat!ProjectOf(e) ELSE <<p, q>> \in projectIndex
  BY <1>1, <1>3 DEF Cat!Set, Cat!Unindexed, Indexed
<1>6. Indexed'
  BY <1>1, <1>2, <1>3, <1>4, <1>5 DEF Indexed
<1> QED
  BY <1>1, <1>6

LEMMA DeleteIndexes ==
  ASSUME CatInv, NEW r \in Graph, Cat!Delete(r)
  PROVE  /\ rgdCache' = [rgdCache EXCEPT ![r] = None] /\ rgdCache' \in [Graph -> RgdEntry \cup {None}]
         /\ Indexed'
<1>1. /\ rgdCache \in [Graph -> RgdEntry \cup {None}] /\ Indexed
      /\ rgdCache' = [rgdCache EXCEPT ![r] = None]
  BY DEF CatInv, CatTypes, Cat!Delete
<1>2. \A q \in Graph : rgdCache'[q] = IF q = r THEN None ELSE rgdCache[q]
  BY <1>1
<1>3. /\ dependsOnIndex' \subseteq Kind \X Graph
      /\ \A k \in Kind, q \in Graph :
           <<k, q>> \in dependsOnIndex' <=> q # r /\ <<k, q>> \in dependsOnIndex
  BY <1>1 DEF Cat!Delete, Cat!Unindexed, Indexed
<1>4. /\ projectIndex' \subseteq Project \X Graph
      /\ \A p \in Project, q \in Graph :
           <<p, q>> \in projectIndex' <=> q # r /\ <<p, q>> \in projectIndex
  BY <1>1 DEF Cat!Delete, Cat!Unindexed, Indexed
<1>5. Indexed'
  BY <1>1, <1>2, <1>3, <1>4 DEF Indexed
<1> QED
  BY <1>1, <1>5

LEMMA CatInvStep == CatInv /\ [Cat!Next]_(Cat!vars) => CatInv'
<1> SUFFICES ASSUME CatInv, [Cat!Next]_(Cat!vars)
             PROVE  CatInv'
  OBVIOUS
<1>0. CatTypes /\ HandlerTypes /\ Indexed /\ VersionsDiffer /\ CatalogFollows
  BY DEF CatInv
<1>1. ASSUME NEW r \in Graph, Cat!Apply(r) PROVE CatInv'
  <2>1. PICK m \in Declared :
          /\ lastRv < MaxRv /\ lastRv' = lastRv + 1
          /\ rgds' = [rgds EXCEPT ![r] = [rv |-> lastRv + 1, spec |-> m]]
          /\ UNCHANGED <<delivered, handler, rgdCache, dependsOnIndex, projectIndex, graphs,
                         counter, putBack>>
    BY <1>1 DEF Cat!Apply
  <2>2. /\ lastRv \in Nat /\ MaxRv \in Nat /\ Declaration \subseteq Declaration'
        /\ [rv |-> lastRv + 1, spec |-> m] \in Declaration'
    BY <1>0, <2>1, ServicesAssumption DEF CatTypes, Declaration
  <2>3. CatTypes'
    BY <1>0, <2>1, <2>2 DEF CatTypes
  <2>4. HandlerTypes'
    BY <1>0, <2>1, <2>2 DEF HandlerTypes
  <2>5. VersionsDiffer'
    <3>1. \A q \in Graph : delivered[q] # None => delivered[q].rv # lastRv + 1
      BY <1>0, <2>2 DEF CatTypes, Declaration
    <3>2. rgds'[r].rv = lastRv + 1 /\ \A q \in Graph : q # r => rgds'[q] = rgds[q]
      BY <1>0, <2>1 DEF CatTypes
    <3> QED
      BY <1>0, <2>1, <3>1, <3>2 DEF VersionsDiffer
  <2>6. Indexed' /\ CatalogFollows'
    BY <1>0, <2>1 DEF Indexed, CatalogFollows, Handles, GraphIs, EntryIs
  <2> QED
    BY <2>3, <2>4, <2>5, <2>6 DEF CatInv
<1>2. ASSUME NEW r \in Graph, Cat!Remove(r) PROVE CatInv'
  <2>1. /\ rgds' = [rgds EXCEPT ![r] = None]
        /\ UNCHANGED <<lastRv, delivered, handler, rgdCache, dependsOnIndex, projectIndex, graphs,
                       counter, putBack>>
    BY <1>2 DEF Cat!Remove
  <2>2. CatTypes' /\ HandlerTypes' /\ VersionsDiffer'
    BY <1>0, <2>1 DEF CatTypes, HandlerTypes, VersionsDiffer, Declaration
  <2>3. Indexed' /\ CatalogFollows'
    BY <1>0, <2>1 DEF Indexed, CatalogFollows, Handles, GraphIs, EntryIs
  <2> QED
    BY <2>2, <2>3 DEF CatInv
<1>3. ASSUME NEW r \in Graph, Cat!Deliver(r) PROVE CatInv'
  <2>1. /\ handler = Cat!Idle
        /\ delivered[r] # rgds[r] \/ (Resyncs /\ rgds[r] # None)
        /\ handler' = [at |-> "event", rgd |-> r, old |-> delivered[r], new |-> rgds[r]]
        /\ delivered' = [delivered EXCEPT ![r] = rgds[r]]
        /\ UNCHANGED <<rgds, lastRv, rgdCache, dependsOnIndex, projectIndex, graphs, counter, putBack>>
    BY <1>3 DEF Cat!Deliver
  <2>2. CatTypes' /\ HandlerTypes'
    BY <1>0, <2>1 DEF CatTypes, HandlerTypes, Declaration
  <2>3. \A q \in Graph : delivered'[q] = IF q = r THEN rgds[r] ELSE delivered[q]
    BY <1>0, <2>1 DEF CatTypes
  <2>4. VersionsDiffer'
    BY <1>0, <2>1, <2>3 DEF VersionsDiffer
  <2>5. Indexed'
    BY <1>0, <2>1 DEF Indexed
  <2>6. CatalogFollows'
    BY <1>0, <2>1, <2>3 DEF CatalogFollows, Handles, GraphIs, EntryIs, Cat!Idle
  <2> QED
    BY <2>2, <2>4, <2>5, <2>6 DEF CatInv
<1>4. CASE Cat!HandleGone
  <2>0. PICK r \in Graph : r = handler.rgd
    BY <1>0, <1>4 DEF HandlerTypes, Cat!Idle, Cat!HandleGone
  <2>1. /\ handler.at = "event" /\ handler.old # None /\ ~Cat!Included(handler.new)
        /\ Cat!Delete(r)
        /\ graphs' = [graphs EXCEPT ![r] = 0]
        /\ putBack' = putBack \ {r} /\ handler' = Cat!Idle
        /\ UNCHANGED <<rgds, lastRv, delivered, counter>>
    BY <1>4, <2>0 DEF Cat!HandleGone
  <2>2. r \in Graph /\ handler # Cat!Idle
    BY <1>0, <2>1 DEF HandlerTypes, Cat!Idle
  <2>3. /\ rgdCache' = [rgdCache EXCEPT ![r] = None]
        /\ rgdCache' \in [Graph -> RgdEntry \cup {None}] /\ Indexed'
    BY <2>1, <2>2, DeleteIndexes
  <2>4. CatTypes' /\ HandlerTypes'
    BY <1>0, <2>0, <2>1, <2>2, <2>3 DEF CatTypes, HandlerTypes, Declaration
  <2>5. VersionsDiffer'
    BY <1>0, <2>1 DEF VersionsDiffer, Cat!Idle
  <2>6. CatalogFollows'
    <3>1. ASSUME NEW q \in Graph, q # r
          PROVE  /\ GraphIs(q, delivered[q])' /\ (q \notin putBack' => EntryIs(q, delivered[q])')
      <4>1. rgdCache'[q] = rgdCache[q] /\ graphs'[q] = graphs[q] /\ ~Handles(q)
            /\ (q \in putBack' <=> q \in putBack)
        BY <1>0, <2>0, <2>1, <2>2, <2>3, <3>1 DEF CatTypes, Handles
      <4> QED
        BY <1>0, <2>1, <4>1 DEF CatalogFollows, GraphIs, EntryIs
    <3>2. GraphIs(r, delivered[r])' /\ EntryIs(r, delivered[r])'
      <4>1. ~Cat!Included(delivered[r]) /\ rgdCache'[r] = None /\ graphs'[r] = 0
        BY <1>0, <2>0, <2>1, <2>2, <2>3 DEF CatTypes, VersionsDiffer
      <4> QED
        BY <2>1, <4>1 DEF GraphIs, EntryIs
    <3>3. \A q \in Graph : ~Handles(q)'
      BY <2>1 DEF Handles
    <3>4. \A q \in Graph : /\ GraphIs(q, delivered[q])'
                           /\ q \notin putBack' => EntryIs(q, delivered[q])'
      BY <3>1, <3>2 DEF GraphIs, EntryIs
    <3> QED
      BY <3>3, <3>4 DEF CatalogFollows
  <2> QED
    BY <2>3, <2>4, <2>5, <2>6 DEF CatInv
<1>5. CASE Cat!IgnoreAdd
  <2>1. /\ handler.at = "event" /\ handler.old = None /\ ~Cat!Included(handler.new)
        /\ handler' = Cat!Idle
        /\ UNCHANGED <<rgds, lastRv, delivered, rgdCache, dependsOnIndex, projectIndex, graphs,
                       counter, putBack>>
    BY <1>5 DEF Cat!IgnoreAdd
  <2>2. handler.rgd \in Graph /\ handler # Cat!Idle /\ ~Cat!Included(None)
    BY <1>0, <2>1 DEF HandlerTypes, Cat!Idle, Cat!Included
  <2>3. CatTypes' /\ HandlerTypes' /\ Indexed'
    BY <1>0, <2>1 DEF CatTypes, HandlerTypes, Declaration, Indexed
  <2>4. VersionsDiffer'
    BY <1>0, <2>1 DEF VersionsDiffer, Cat!Idle
  <2>5. CatalogFollows'
    BY <1>0, <2>1, <2>2 DEF CatalogFollows, Handles, GraphIs, EntryIs, VersionsDiffer
  <2> QED
    BY <2>3, <2>4, <2>5 DEF CatInv
<1>6. CASE Cat!BuildAndCacheGraph
  <2> DEFINE r == handler.rgd
             e == [rv |-> handler.new.rv, spec |-> handler.new.spec, deps |-> handler.new.spec.deps]
  <2>1. /\ handler.at = "event" /\ Cat!Included(handler.new)
        /\ \E gr \in {0, handler.new.rv} : graphs' = [graphs EXCEPT ![r] = gr]
        /\ handler' = [at |-> "set", rgd |-> r, entry |-> e]
        /\ UNCHANGED <<rgds, lastRv, delivered, rgdCache, dependsOnIndex, projectIndex, counter, putBack>>
    BY <1>6 DEF Cat!BuildAndCacheGraph
  <2>2. /\ r \in Graph /\ handler # Cat!Idle /\ handler.new \in Declaration
        /\ handler.new = delivered[r] /\ lastRv \in Nat
    BY <1>0, <2>1 DEF HandlerTypes, Cat!Idle, Cat!Included, VersionsDiffer, CatTypes
  <2>3. e \in RgdEntry /\ EntryOf(e, handler.new) /\ handler.new.rv \in 1 .. lastRv
    BY <2>2, ServicesAssumption DEF Declaration, RgdEntry, EntryOf
  <2> HIDE DEF e, r
  <2>4. CatTypes' /\ HandlerTypes'
    BY <1>0, <2>1, <2>2, <2>3 DEF CatTypes, HandlerTypes, Declaration
  <2>5. Indexed' /\ VersionsDiffer'
    BY <1>0, <2>1 DEF Indexed, VersionsDiffer
  <2>6. handler'.at = "set" /\ handler'.rgd = r /\ handler'.entry = e /\ handler' # Cat!Idle
    BY <2>1 DEF Cat!Idle
  <2>7. \A q \in Graph : q # r => graphs'[q] = graphs[q]
    BY <1>0, <2>1 DEF CatTypes
  <2>8. graphs'[r] \in {0, delivered[r].rv}
    BY <1>0, <2>1, <2>2 DEF CatTypes
  <2>9. CatalogFollows'
    BY <1>0, <2>1, <2>2, <2>3, <2>6, <2>7, <2>8 DEF CatalogFollows, Handles, GraphIs, EntryIs,
           EntryOf, r
  <2> QED
    BY <2>4, <2>5, <2>9 DEF CatInv
<1>7. CASE Cat!HandleResync
  <2> DEFINE r == handler.rgd
             e == [rv |-> handler.new.rv, spec |-> handler.new.spec, deps |-> {}]
  <2>1. /\ handler.at = "event" /\ Cat!Included(handler.new) /\ Cat!IsResync
        /\ handler' = [at |-> "set", rgd |-> r, entry |-> e]
        /\ UNCHANGED <<rgds, lastRv, delivered, rgdCache, dependsOnIndex, projectIndex, graphs,
                       counter, putBack>>
    BY <1>7 DEF Cat!HandleResync
  <2>2. /\ r \in Graph /\ handler # Cat!Idle /\ handler.new \in Declaration
        /\ handler.new = delivered[r] /\ handler.old = handler.new /\ Resyncs
    BY <1>0, <2>1 DEF HandlerTypes, Cat!Idle, Cat!Included, VersionsDiffer, Cat!IsResync
  <2>3. e \in RgdEntry /\ EntryOf(e, handler.new)
    BY <2>2, ServicesAssumption DEF Declaration, RgdEntry, EntryOf
  <2> HIDE DEF e, r
  <2>4. CatTypes' /\ HandlerTypes'
    BY <1>0, <2>1, <2>2, <2>3 DEF CatTypes, HandlerTypes, Declaration
  <2>5. Indexed' /\ VersionsDiffer'
    BY <1>0, <2>1 DEF Indexed, VersionsDiffer
  <2>6. handler'.at = "set" /\ handler'.rgd = r /\ handler'.entry = e /\ handler' # Cat!Idle
    BY <2>1 DEF Cat!Idle
  <2>7. CatalogFollows'
    BY <1>0, <2>1, <2>2, <2>3, <2>6 DEF CatalogFollows, Handles, GraphIs, EntryIs, EntryOf, r
  <2> QED
    BY <2>4, <2>5, <2>7 DEF CatInv
<1>8. CASE Cat!HandlerSets
  <2>0. PICK r \in Graph, e \in RgdEntry : r = handler.rgd /\ e = handler.entry
    BY <1>0, <1>8 DEF HandlerTypes, Cat!Idle, Cat!HandlerSets
  <2>1. /\ handler.at = "set" /\ Cat!Set(r, e)
        /\ putBack' = putBack \ {r} /\ handler' = Cat!Idle
        /\ UNCHANGED <<rgds, lastRv, delivered, graphs, counter>>
    BY <1>8, <2>0 DEF Cat!HandlerSets
  <2>2. r \in Graph /\ handler # Cat!Idle /\ e \in RgdEntry /\ e # None
    BY <1>0, <2>0, <2>1, NoneIsNoEntry DEF HandlerTypes, Cat!Idle
  <2>3. /\ rgdCache' = [rgdCache EXCEPT ![r] = e]
        /\ rgdCache' \in [Graph -> RgdEntry \cup {None}] /\ Indexed'
    BY <2>1, <2>2, SetIndexes
  <2>4. GraphIs(r, delivered[r]) /\ Cat!Included(delivered[r]) /\ EntryOf(e, delivered[r])
    BY <1>0, <2>0, <2>1, <2>2 DEF CatalogFollows, Handles
  <2>5. CatTypes' /\ HandlerTypes'
    BY <1>0, <2>0, <2>1, <2>2, <2>3 DEF CatTypes, HandlerTypes, Declaration
  <2>6. VersionsDiffer'
    BY <1>0, <2>1 DEF VersionsDiffer, Cat!Idle
  <2>7. CatalogFollows'
    <3>1. ASSUME NEW q \in Graph, q # r
          PROVE  /\ GraphIs(q, delivered[q])' /\ (q \notin putBack' => EntryIs(q, delivered[q])')
      <4>1. rgdCache'[q] = rgdCache[q] /\ ~Handles(q) /\ (q \in putBack' <=> q \in putBack)
        BY <1>0, <2>0, <2>1, <2>2, <2>3, <3>1 DEF CatTypes, Handles
      <4> QED
        BY <1>0, <2>1, <4>1 DEF CatalogFollows, GraphIs, EntryIs
    <3>2. GraphIs(r, delivered[r])' /\ EntryIs(r, delivered[r])'
      <4>1. rgdCache'[r] = e
        BY <1>0, <2>2, <2>3 DEF CatTypes
      <4> QED
        BY <2>1, <2>2, <2>4, <4>1 DEF GraphIs, EntryIs, EntryOf
    <3>3. \A q \in Graph : ~Handles(q)'
      BY <2>1 DEF Handles
    <3>4. \A q \in Graph : /\ GraphIs(q, delivered[q])'
                           /\ q \notin putBack' => EntryIs(q, delivered[q])'
      BY <3>1, <3>2 DEF GraphIs, EntryIs
    <3> QED
      BY <3>3, <3>4 DEF CatalogFollows
  <2> QED
    BY <2>3, <2>5, <2>6, <2>7 DEF CatInv
<1>9. ASSUME NEW c \in Counter, Cat!UpdateRGDInstanceCount(c) PROVE CatInv'
  <2>1. PICK S \in SUBSET Graph :
          /\ counter' = [counter EXCEPT ![c] = Cat!Entries(S)]
          /\ UNCHANGED <<rgds, lastRv, delivered, handler, rgdCache, dependsOnIndex, projectIndex,
                         graphs, putBack>>
    <3>1. \A S \in {{r} : r \in Graph} \cup {Graph} : S \in SUBSET Graph
      OBVIOUS
    <3> QED
      BY <1>9, <3>1 DEF Cat!UpdateRGDInstanceCount
  <2>2. Cat!Entries(S) \in SUBSET [rgd : Graph, entry : RgdEntry]
    BY <1>0 DEF CatTypes, Cat!Entries
  <2>3. CatTypes' /\ HandlerTypes' /\ Indexed' /\ VersionsDiffer'
    BY <1>0, <2>1, <2>2 DEF CatTypes, HandlerTypes, Declaration, Indexed, VersionsDiffer
  <2>4. CatalogFollows'
    BY <1>0, <2>1 DEF CatalogFollows, Handles, GraphIs, EntryIs
  <2> QED
    BY <2>3, <2>4 DEF CatInv
<1>10. ASSUME NEW c \in Counter, Cat!CounterSets(c) PROVE CatInv'
  <2>1. PICK x \in counter[c] :
          /\ Cat!Set(x.rgd, x.entry)
          /\ putBack' = IF rgdCache[x.rgd] = x.entry THEN putBack ELSE putBack \cup {x.rgd}
          /\ counter' = [counter EXCEPT ![c] = @ \ {x}]
          /\ UNCHANGED <<rgds, lastRv, delivered, handler, graphs>>
    BY <1>10 DEF Cat!CounterSets
  <2>2. x.rgd \in Graph /\ x.entry \in RgdEntry
    BY <1>0 DEF CatTypes
  <2>3. /\ rgdCache' = [rgdCache EXCEPT ![x.rgd] = x.entry]
        /\ rgdCache' \in [Graph -> RgdEntry \cup {None}] /\ Indexed'
    BY <2>1, <2>2, SetIndexes
  <2>4. CatTypes' /\ HandlerTypes' /\ VersionsDiffer'
    BY <1>0, <2>1, <2>2, <2>3 DEF CatTypes, HandlerTypes, Declaration, VersionsDiffer
  <2>5. CatalogFollows'
    <3>1. \A q \in Graph \ putBack' : rgdCache'[q] = rgdCache[q] /\ q \notin putBack
      BY <1>0, <2>1, <2>2, <2>3 DEF CatTypes
    <3> QED
      BY <1>0, <2>1, <3>1 DEF CatalogFollows, Handles, GraphIs, EntryIs
  <2> QED
    BY <2>3, <2>4, <2>5 DEF CatInv
<1>11. CASE UNCHANGED Cat!vars
  BY <1>0, <1>11 DEF Cat!vars, CatInv, CatTypes, HandlerTypes, Declaration, Indexed, VersionsDiffer,
                     CatalogFollows, Handles, GraphIs, EntryIs
<1> QED
  BY <1>1, <1>2, <1>3, <1>4, <1>5, <1>6, <1>7, <1>8, <1>9, <1>10, <1>11
     DEF Cat!Next, Cat!WatcherStep

(* A list through the indexes is a scan, and what is handled is in the      *)
(* catalog.                                                                 *)
LEMMA CatalogIsExplained == CatInv => Cat!CatalogExplained /\ Cat!ListIsScan
<1> SUFFICES ASSUME CatInv
             PROVE  Cat!CatalogExplained /\ Cat!ListIsScan
  OBVIOUS
<1>0. CatTypes /\ Indexed /\ CatalogFollows
  BY DEF CatInv
<1>1. Cat!CatalogExplained
  BY <1>0 DEF Cat!CatalogExplained, Cat!Handled, CatalogFollows, Handles, GraphIs, EntryIs, EntryOf
<1>2. Cat!ListIsScan
  <2> SUFFICES ASSUME NEW opts \in Cat!ListOptions, NEW r \in Graph, rgdCache[r] # None,
                      Cat!MatchesFilter(rgdCache[r], opts)
               PROVE  r \in Cat!CandidateKeys(opts)
    BY DEF Cat!ListIsScan, Cat!List, Cat!CandidateKeys
  <2>1. opts.projects \in SUBSET Project /\ opts.kind \in Kind \cup {None}
        /\ opts.includePublic \in BOOLEAN
    BY DEF Cat!ListOptions
  <2>2. opts.kind # None => <<opts.kind, r>> \in dependsOnIndex
    BY <1>0, <2>1 DEF Cat!MatchesFilter, Indexed
  <2>3. ASSUME opts.projects # {}, ~opts.includePublic
        PROVE  \E p \in opts.projects : <<p, r>> \in projectIndex
    <3>1. rgdCache[r].spec.project \in opts.projects
      BY <2>3 DEF Cat!MatchesFilter
    <3>2. rgdCache[r].spec.project \in Cat!ProjectOf(rgdCache[r])
      BY <2>1, <3>1, ServicesAssumption DEF Cat!ProjectOf
    <3> QED
      BY <1>0, <2>1, <3>1, <3>2 DEF Indexed
  <2> QED
    BY <2>2, <2>3 DEF Cat!CandidateKeys
<1> QED
  BY <1>1, <1>2

-----------------------------------------------------------------------------
(* Instances *)

Object == [rv : 1 .. lastOf, rgd : Graph \cup {None}]
Cached == [rv : Nat, rgd : Graph, status : Nat]
Informer == Graph \X {"mapped", "guessed"}

WorkerTypes(r) ==
  \/ worker[r] = Ins!Idle
  \/ worker[r] \in [at : {"event"}, inst : Instance, old : Object \cup {None},
                    new : Object \cup {None}]
  \/ worker[r] \in [at : {"leave"}, inst : Instance]
  \/ worker[r] \in [at : {"set"}, inst : Instance, entry : Cached]

TrackerTypes ==
  \/ tracker = Ins!Idle
  \/ tracker \in [at : {"ensure"}, rgd : Graph]
  \/ tracker \in [at : {"purge"}, rgd : Graph, todo : SUBSET Informer]
  \/ tracker \in [at : {"deleteByRGD"}, key : Informer, rgd : Graph, todo : SUBSET Informer]
  \/ tracker \in [at : {"status"}, rgd : Graph, copies : SUBSET (Instance \X Cached)]

InsTypes ==
  /\ lastOf \in 0 .. MaxRv
  /\ insts \in [Instance -> Object \cup {None}]
  /\ told \in [Graph -> [Instance -> Object \cup {None}]]
  /\ instCache \in [Instance -> Cached \cup {None}]
  /\ inCatalog \in SUBSET Graph /\ statusOf \in [Graph -> Nat]
  /\ informers \in SUBSET Informer /\ raced \in SUBSET Instance
  /\ DOMAIN worker = Graph /\ \A r \in Graph : WorkerTypes(r)
  /\ TrackerTypes
  /\ \/ request = Ins!Idle
     \/ request \in [at : {"deleted"}, inst : Instance]

\* The goroutine of an RGD works on an instance.
WorksOn(r, i) == worker[r].at # "idle" /\ worker[r].inst = i

(* What is delivered while a goroutine works on an event is what it was     *)
(* told, or the handler was registered anew.                                *)
ToldIs ==
  \A r \in Graph, i \in Instance :
    WorksOn(r, i) /\ told[r][i] # None =>
      /\ worker[r].at = "event" => told[r][i] = worker[r].new
      /\ worker[r].at = "leave" => told[r][i].rgd # r
      /\ worker[r].at = "set" => told[r][i].rgd = r /\ told[r][i].rv = worker[r].entry.rv

EntriesSet == \A r \in Graph : worker[r].at = "set" => worker[r].entry.rgd = r

\* The handlers that are to be removed are registered still; the others are of the catalog.
Removing(r) == tracker.at \in {"purge", "deleteByRGD"} /\ <<r, "mapped">> \in tracker.todo
Pending(r)  == tracker.at = "deleteByRGD" /\ tracker.key[1] = r

Purged ==
  /\ tracker.at \in {"purge", "deleteByRGD"} =>
       \A k \in informers : k \in tracker.todo \/ k[1] \in inCatalog
  /\ tracker.at = "status" =>
       \A c \in tracker.copies : c[2].rgd = tracker.rgd

\* An entry of an RGD is of the object that its handler has handled last.
HandledIs(r, i, e) ==
  \/ WorksOn(r, i) /\ worker[r].at \in {"leave", "set"}
  \/ /\ WorksOn(r, i) /\ worker[r].at = "event"
     /\ worker[r].old # None /\ worker[r].old.rgd = r /\ worker[r].old.rv = e.rv
  \/ /\ ~WorksOn(r, i)
     /\ told[r][i] # None /\ told[r][i].rgd = r /\ told[r][i].rv = e.rv

EntriesHandled ==
  \A i \in Instance \ raced, r \in Graph :
    instCache[i] # None /\ instCache[i].rgd = r /\ ~Pending(r) =>
      <<r, "mapped">> \in informers /\ HandledIs(r, i, instCache[i])

\* An instance that was handled as it is has an entry.
HandledEntered ==
  \A i \in Instance \ raced, r \in Graph :
    /\ insts[i] # None /\ insts[i].rgd = r
    /\ <<r, "mapped">> \in informers /\ ~Removing(r)
    /\ ~WorksOn(r, i) /\ told[r][i] = insts[i]
    => instCache[i] # None /\ instCache[i].rgd = r

\* A status that is not the one of the RGD will be set.
StatusDue(i, e) ==
  /\ tracker.at # "idle" /\ tracker.rgd = e.rgd
  /\ tracker.at = "status" => <<i, e>> \in tracker.copies

StatusSet ==
  \A i \in Instance \ raced :
    instCache[i] # None =>
      \/ instCache[i].status = statusOf[instCache[i].rgd]
      \/ StatusDue(i, instCache[i])

InsInv ==
  /\ InsTypes /\ ToldIs /\ EntriesSet /\ Purged
  /\ EntriesHandled /\ HandledEntered /\ StatusSet

LEMMA NoneIsNoObject ==
  /\ None \notin Cached
  /\ InsTypes => None \notin Object
  /\ InsTypes' => None \notin Object'
  BY ServicesAssumption DEF Cached, Object, InsTypes

LEMMA InsInvInit == AllInit => InsInv
<1> SUFFICES ASSUME Ins!Init PROVE InsInv
  BY DEF AllInit
<1>1. InsTypes
  BY ServicesAssumption DEF Ins!Init, Ins!Idle, Ins!Nothing, InsTypes, WorkerTypes, TrackerTypes
<1>2. ToldIs /\ EntriesSet /\ Purged
  BY DEF Ins!Init, Ins!Idle, Ins!Nothing, ToldIs, EntriesSet, Purged, WorksOn
<1>3. EntriesHandled /\ HandledEntered /\ StatusSet
  BY DEF Ins!Init, Ins!Idle, Ins!Nothing, EntriesHandled, HandledEntered, StatusSet
<1> QED
  BY <1>1, <1>2, <1>3 DEF InsInv

(* A client changes one instance: what was handled of it is old. *)
LEMMA InstanceChanges ==
  ASSUME InsInv, NEW i \in Instance, NEW o,
         insts' = [insts EXCEPT ![i] = o], lastOf' \in lastOf .. MaxRv,
         o = None \/ (o \in Object' /\ o.rv = lastOf + 1),
         UNCHANGED <<inCatalog, statusOf, informers, told, worker, instCache, tracker, raced,
                     changes, faults>>,
         request' = Ins!Idle \/ request' \in [at : {"deleted"}, inst : Instance]
  PROVE  InsInv'
<1>0. InsTypes /\ ToldIs /\ EntriesSet /\ Purged /\ EntriesHandled /\ HandledEntered /\ StatusSet
  BY DEF InsInv
<1>1. /\ lastOf \in Nat /\ MaxRv \in Nat /\ Object \subseteq Object'
      /\ \A j \in Instance : insts'[j] = IF j = i THEN o ELSE insts[j]
  BY <1>0, ServicesAssumption DEF InsTypes, Object
<1>2. InsTypes'
  <2>1. \A r \in Graph : WorkerTypes(r)'
    BY <1>0, <1>1 DEF InsTypes, WorkerTypes
  <2> QED
    BY <1>0, <1>1, <2>1 DEF InsTypes, TrackerTypes
<1>3. ToldIs' /\ EntriesSet' /\ Purged' /\ EntriesHandled' /\ StatusSet'
  BY <1>0 DEF ToldIs, EntriesSet, Purged, EntriesHandled, StatusSet, WorksOn, Pending, HandledIs,
         StatusDue
<1>4. HandledEntered'
  <2>1. \A r \in Graph : o # None => told[r][i] # o
    BY <1>0, <1>1 DEF InsTypes, Object
  <2> QED
    BY <1>0, <1>1, <2>1 DEF HandledEntered, WorksOn, Removing
<1> QED
  BY <1>2, <1>3, <1>4 DEF InsInv

(* A goroutine takes a step that leaves the cache alone. *)
LEMMA WorkerGoes ==
  ASSUME InsTypes, NEW r \in Graph, NEW w, worker' = [worker EXCEPT ![r] = w]
  PROVE  /\ DOMAIN worker' = Graph
         /\ \A q \in Graph : worker'[q] = IF q = r THEN w ELSE worker[q]
         /\ w \in [at : {"event"}, inst : Instance, old : Object \cup {None}, new : Object \cup {None}]
              \/ w \in [at : {"leave"}, inst : Instance] \/ w = Ins!Idle
              \/ w \in [at : {"set"}, inst : Instance, entry : Cached]
              => (UNCHANGED lastOf => \A q \in Graph : WorkerTypes(q)')
<1>1. DOMAIN worker' = Graph /\ \A q \in Graph : worker'[q] = IF q = r THEN w ELSE worker[q]
  BY DEF InsTypes
<1> QED
  BY <1>1 DEF InsTypes, WorkerTypes, Object

LEMMA DeliverStep ==
  ASSUME InsInv, NEW r \in Graph, NEW i \in Instance, Ins!Deliver(r, i)
  PROVE  InsInv'
<1>0. InsTypes /\ ToldIs /\ EntriesSet /\ Purged /\ EntriesHandled /\ HandledEntered /\ StatusSet
  BY DEF InsInv
<1> DEFINE w == [at |-> "event", inst |-> i, old |-> told[r][i], new |-> insts[i]]
<1>1. /\ worker[r] = Ins!Idle
      /\ worker' = [worker EXCEPT ![r] = w]
      /\ told' = [told EXCEPT ![r][i] = insts[i]]
      /\ UNCHANGED <<insts, lastOf, inCatalog, statusOf, informers, instCache, tracker, request,
                     raced, changes, faults>>
  BY DEF Ins!Deliver
<1>2. w \in [at : {"event"}, inst : Instance, old : Object \cup {None}, new : Object \cup {None}]
  BY <1>0 DEF InsTypes
<1>3. /\ w.at = "event" /\ w.inst = i /\ w.old = told[r][i] /\ w.new = insts[i]
  OBVIOUS
<1> HIDE DEF w
<1>4. /\ DOMAIN worker' = Graph /\ \A q \in Graph : WorkerTypes(q)'
      /\ \A q \in Graph : worker'[q] = IF q = r THEN w ELSE worker[q]
  BY <1>0, <1>1, <1>2, WorkerGoes
<1>5. /\ told' \in [Graph -> [Instance -> Object \cup {None}]]
      /\ \A q \in Graph, j \in Instance :
           told'[q][j] = IF q = r /\ j = i THEN insts[i] ELSE told[q][j]
  BY <1>0, <1>1 DEF InsTypes
<1>6. InsTypes'
  BY <1>0, <1>1, <1>4, <1>5 DEF InsTypes, TrackerTypes, Object
<1>7. /\ \A j \in Instance : ~WorksOn(r, j) /\ (WorksOn(r, j)' <=> j = i)
      /\ \A q \in Graph, j \in Instance : q # r => (WorksOn(q, j)' <=> WorksOn(q, j))
  BY <1>1, <1>3, <1>4 DEF WorksOn, Ins!Idle
<1>8. ToldIs' /\ EntriesSet' /\ Purged' /\ StatusSet'
  <2>1. ToldIs'
    BY <1>0, <1>3, <1>4, <1>5, <1>7 DEF ToldIs
  <2> QED
    BY <1>0, <1>1, <1>3, <1>4, <2>1 DEF EntriesSet, Purged, StatusSet, StatusDue
<1>9. EntriesHandled'
  <2> SUFFICES ASSUME NEW j \in Instance \ raced, NEW q \in Graph,
                      instCache[j] # None, instCache[j].rgd = q, ~Pending(q)
               PROVE  <<q, "mapped">> \in informers /\ HandledIs(q, j, instCache[j])'
    BY <1>1 DEF EntriesHandled, Pending, HandledIs, WorksOn
  <2>1. <<q, "mapped">> \in informers /\ HandledIs(q, j, instCache[j])
    BY <1>0 DEF EntriesHandled
  <2> QED
    BY <1>1, <1>3, <1>4, <1>5, <1>7, <2>1 DEF HandledIs
<1>10. HandledEntered'
  BY <1>0, <1>1, <1>5, <1>7 DEF HandledEntered, Removing
<1> QED
  BY <1>6, <1>8, <1>9, <1>10 DEF InsInv

(* A goroutine works on an instance, or ends; the others go on. *)
LEMMA OthersWork ==
  ASSUME NEW r \in Graph, NEW w, NEW i \in Instance, WorksOn(r, i), worker[r].inst = i,
         \A q \in Graph : worker'[q] = IF q = r THEN w ELSE worker[q],
         w = Ins!Idle \/ (w.at # "idle" /\ w.inst = i)
  PROVE  /\ \A j \in Instance : WorksOn(r, j) <=> j = i
         /\ \A j \in Instance : WorksOn(r, j)' <=> j = i /\ w # Ins!Idle
         /\ \A q \in Graph, j \in Instance : q # r => (WorksOn(q, j)' <=> WorksOn(q, j))
  BY DEF WorksOn, Ins!Idle

(* The entry of an instance that is taken away explains itself. *)
LEMMA EntryGone ==
  ASSUME InsInv, NEW i \in Instance, instCache' = [instCache EXCEPT ![i] = None],
         raced' \in SUBSET Instance, raced \ {i} \subseteq raced',
         UNCHANGED <<statusOf, tracker>>
  PROVE  /\ instCache' \in [Instance -> Cached \cup {None}]
         /\ \A j \in Instance : instCache'[j] = IF j = i THEN None ELSE instCache[j]
         /\ StatusSet'
<1>1. instCache \in [Instance -> Cached \cup {None}] /\ StatusSet
  BY DEF InsInv, InsTypes
<1>2. /\ instCache' \in [Instance -> Cached \cup {None}]
      /\ \A j \in Instance : instCache'[j] = IF j = i THEN None ELSE instCache[j]
  BY <1>1
<1>3. \A j \in Instance \ raced' : instCache'[j] # None => j \notin raced /\ instCache'[j] = instCache[j]
  BY <1>2
<1> QED
  BY <1>1, <1>2, <1>3 DEF StatusSet, StatusDue

LEMMA DeletedStep ==
  ASSUME InsInv, NEW r \in Graph, Ins!HandleInstanceDelete(r) PROVE InsInv'
<1>0. InsTypes /\ ToldIs /\ EntriesSet /\ Purged /\ EntriesHandled /\ HandledEntered /\ StatusSet
  BY DEF InsInv
<1>1. PICK i \in Instance :
        /\ worker[r].inst = i /\ worker[r].at = "event" /\ worker[r].new = None
        /\ instCache' = [instCache EXCEPT ![i] = None]
        /\ raced' = IF insts[i] = None THEN raced \ {i} ELSE raced \cup {i}
        /\ worker' = [worker EXCEPT ![r] = Ins!Idle]
        /\ UNCHANGED <<insts, lastOf, inCatalog, statusOf, informers, told, tracker, request,
                       changes, faults>>
  <2>1. worker[r].at = "event" => worker[r].inst \in Instance
    BY <1>0 DEF InsTypes, WorkerTypes, Ins!Idle
  <2> QED
    BY <2>1 DEF Ins!HandleInstanceDelete
<1>2. /\ DOMAIN worker' = Graph /\ \A q \in Graph : WorkerTypes(q)'
      /\ \A q \in Graph : worker'[q] = IF q = r THEN Ins!Idle ELSE worker[q]
  BY <1>0, <1>1, WorkerGoes
<1>3. /\ \A j \in Instance : WorksOn(r, j) <=> j = i
      /\ \A j \in Instance : ~WorksOn(r, j)'
      /\ \A q \in Graph, j \in Instance : q # r => (WorksOn(q, j)' <=> WorksOn(q, j))
  BY <1>1, <1>2, OthersWork DEF WorksOn
<1>4. raced' \in SUBSET Instance /\ raced \ {i} \subseteq raced'
  BY <1>0, <1>1 DEF InsTypes
<1>5. /\ instCache' \in [Instance -> Cached \cup {None}]
      /\ \A j \in Instance : instCache'[j] = IF j = i THEN None ELSE instCache[j]
      /\ StatusSet'
  BY <1>1, <1>4, EntryGone
<1>6. InsTypes'
  BY <1>0, <1>1, <1>2, <1>4, <1>5 DEF InsTypes, TrackerTypes, Object
<1>7. ToldIs' /\ EntriesSet' /\ Purged'
  BY <1>0, <1>1, <1>2, <1>3 DEF ToldIs, EntriesSet, Purged, Ins!Idle
<1>8. EntriesHandled'
  <2> SUFFICES ASSUME NEW j \in Instance \ raced', NEW q \in Graph, j # i, j \notin raced,
                      instCache[j] # None, instCache[j].rgd = q, ~Pending(q)
               PROVE  <<q, "mapped">> \in informers /\ HandledIs(q, j, instCache[j])'
    BY <1>1, <1>4, <1>5 DEF EntriesHandled, Pending, HandledIs, WorksOn
  <2>1. <<q, "mapped">> \in informers /\ HandledIs(q, j, instCache[j])
    BY <1>0 DEF EntriesHandled
  <2> QED
    BY <1>1, <1>2, <1>3, <1>5, <2>1 DEF HandledIs
<1>9. HandledEntered'
  <2> SUFFICES ASSUME NEW j \in Instance \ raced', NEW q \in Graph,
                      insts[j] # None, insts[j].rgd = q, <<q, "mapped">> \in informers,
                      ~Removing(q), ~WorksOn(q, j)', told[q][j] = insts[j]
               PROVE  instCache'[j] # None /\ instCache'[j].rgd = q
    BY <1>1 DEF HandledEntered, Removing
  <2>1. j # i /\ j \notin raced
    BY <1>1, <1>4
  <2>2. ~WorksOn(q, j)
    BY <1>3, <2>1
  <2> QED
    BY <1>0, <1>5, <2>1, <2>2 DEF HandledEntered
<1> QED
  BY <1>5, <1>6, <1>7, <1>8, <1>9 DEF InsInv

LEMMA NotMineStep ==
  ASSUME InsInv, NEW r \in Graph, Ins!NotMine(r) PROVE InsInv'
<1>0. InsTypes /\ ToldIs /\ EntriesSet /\ Purged /\ EntriesHandled /\ HandledEntered /\ StatusSet
  BY DEF InsInv
<1>1. PICK i \in Instance : worker[r].inst = i
  BY <1>0 DEF Ins!NotMine, InsTypes, WorkerTypes, Ins!Idle
<1> DEFINE w == IF worker[r].old # None /\ instCache[i] # None /\ instCache[i].rgd = r
                THEN [at |-> "leave", inst |-> i] ELSE Ins!Idle
<1>2. /\ worker[r].at = "event" /\ worker[r].new # None
      /\ worker[r].new.rgd # r
      /\ w = Ins!Idle <=> ~(/\ worker[r].old # None /\ instCache[i] # None
                            /\ instCache[i].rgd = r)
      /\ worker' = [worker EXCEPT ![r] = w]
      /\ UNCHANGED <<insts, lastOf, inCatalog, statusOf, informers, told, instCache, tracker,
                     request, raced, changes, faults>>
  BY <1>1 DEF Ins!NotMine, Ins!BelongsToRGD, Ins!Idle
<1>3. w = Ins!Idle \/ (w \in [at : {"leave"}, inst : Instance] /\ w.at = "leave" /\ w.inst = i)
  OBVIOUS
<1> HIDE DEF w
<1>4. /\ DOMAIN worker' = Graph /\ \A q \in Graph : WorkerTypes(q)'
      /\ \A q \in Graph : worker'[q] = IF q = r THEN w ELSE worker[q]
  BY <1>0, <1>1, <1>2, <1>3, WorkerGoes
<1>5. /\ \A j \in Instance : WorksOn(r, j) <=> j = i
      /\ \A j \in Instance : WorksOn(r, j)' <=> j = i /\ w # Ins!Idle
      /\ \A q \in Graph, j \in Instance : q # r => (WorksOn(q, j)' <=> WorksOn(q, j))
  BY <1>1, <1>2, <1>3, <1>4, OthersWork DEF WorksOn
<1>6. told[r][i] # None => told[r][i].rgd # r
  BY <1>0, <1>1, <1>2, <1>5 DEF ToldIs
<1>7. InsTypes'
  BY <1>0, <1>1, <1>2, <1>4 DEF InsTypes, TrackerTypes, Object
<1>8. ToldIs' /\ EntriesSet' /\ Purged' /\ StatusSet'
  <2>1. ToldIs'
    BY <1>0, <1>1, <1>2, <1>3, <1>4, <1>5, <1>6 DEF ToldIs
  <2> QED
    BY <1>0, <1>1, <1>2, <1>3, <1>4, <2>1 DEF EntriesSet, Purged, StatusSet, StatusDue, Ins!Idle
<1>9. EntriesHandled'
  <2> SUFFICES ASSUME NEW j \in Instance \ raced, NEW q \in Graph,
                      instCache[j] # None, instCache[j].rgd = q, ~Pending(q)
               PROVE  <<q, "mapped">> \in informers /\ HandledIs(q, j, instCache[j])'
    BY <1>1, <1>2 DEF EntriesHandled, Pending, HandledIs, WorksOn
  <2>1. <<q, "mapped">> \in informers /\ HandledIs(q, j, instCache[j])
    BY <1>0 DEF EntriesHandled
  <2>2. CASE q # r \/ j # i
    BY <1>1, <1>2, <1>4, <1>5, <2>1, <2>2 DEF HandledIs
  <2>3. CASE q = r /\ j = i
    <3>1. worker[r].old # None
      BY <1>1, <1>2, <1>5, <2>1, <2>3 DEF HandledIs
    <3>2. w # Ins!Idle
      BY <1>1, <1>2, <2>3, <3>1
    <3> QED
      BY <1>1, <1>2, <1>3, <1>4, <1>5, <2>1, <2>3, <3>2 DEF HandledIs
  <2> QED
    BY <2>2, <2>3
<1>10. HandledEntered'
  BY <1>0, <1>1, <1>2, <1>5, <1>6 DEF HandledEntered, Removing
<1> QED
  BY <1>7, <1>8, <1>9, <1>10 DEF InsInv

LEMMA LeaveStep ==
  ASSUME InsInv, NEW r \in Graph, Ins!Leave(r) PROVE InsInv'
<1>0. InsTypes /\ ToldIs /\ EntriesSet /\ Purged /\ EntriesHandled /\ HandledEntered /\ StatusSet
  BY DEF InsInv
<1>1. PICK i \in Instance :
        /\ worker[r].inst = i /\ worker[r].at = "leave"
        /\ instCache' = [instCache EXCEPT ![i] = None]
        /\ raced' = IF instCache[i] # None /\ instCache[i].rgd # r THEN raced \cup {i} ELSE raced
        /\ worker' = [worker EXCEPT ![r] = Ins!Idle]
        /\ UNCHANGED <<insts, lastOf, inCatalog, statusOf, informers, told, tracker, request,
                       changes, faults>>
  <2>1. worker[r].at = "leave" => worker[r].inst \in Instance
    BY <1>0 DEF InsTypes, WorkerTypes, Ins!Idle
  <2> QED
    BY <2>1 DEF Ins!Leave
<1>2. /\ DOMAIN worker' = Graph /\ \A q \in Graph : WorkerTypes(q)'
      /\ \A q \in Graph : worker'[q] = IF q = r THEN Ins!Idle ELSE worker[q]
  BY <1>0, <1>1, WorkerGoes
<1>3. /\ \A j \in Instance : WorksOn(r, j) <=> j = i
      /\ \A j \in Instance : ~WorksOn(r, j)'
      /\ \A q \in Graph, j \in Instance : q # r => (WorksOn(q, j)' <=> WorksOn(q, j))
  BY <1>1, <1>2, OthersWork DEF WorksOn
<1>4. raced' \in SUBSET Instance /\ raced \subseteq raced'
  BY <1>0, <1>1 DEF InsTypes
<1>5. /\ instCache' \in [Instance -> Cached \cup {None}]
      /\ \A j \in Instance : instCache'[j] = IF j = i THEN None ELSE instCache[j]
      /\ StatusSet'
  BY <1>1, <1>4, EntryGone
<1>6. InsTypes'
  BY <1>0, <1>1, <1>2, <1>4, <1>5 DEF InsTypes, TrackerTypes, Object
<1>7. ToldIs' /\ EntriesSet' /\ Purged'
  BY <1>0, <1>1, <1>2, <1>3 DEF ToldIs, EntriesSet, Purged, Ins!Idle
<1>8. EntriesHandled'
  <2> SUFFICES ASSUME NEW j \in Instance \ raced', NEW q \in Graph, j # i, j \notin raced,
                      instCache[j] # None, instCache[j].rgd = q, ~Pending(q)
               PROVE  <<q, "mapped">> \in informers /\ HandledIs(q, j, instCache[j])'
    BY <1>1, <1>4, <1>5 DEF EntriesHandled, Pending, HandledIs, WorksOn
  <2>1. <<q, "mapped">> \in informers /\ HandledIs(q, j, instCache[j])
    BY <1>0 DEF EntriesHandled
  <2> QED
    BY <1>1, <1>2, <1>3, <1>5, <2>1 DEF HandledIs
<1>9. HandledEntered'
  <2> SUFFICES ASSUME NEW j \in Instance \ raced', NEW q \in Graph,
                      insts[j] # None, insts[j].rgd = q, <<q, "mapped">> \in informers,
                      ~Removing(q), ~WorksOn(q, j)', told[q][j] = insts[j]
               PROVE  instCache'[j] # None /\ instCache'[j].rgd = q
    BY <1>1 DEF HandledEntered, Removing
  <2>1. ~(q = r /\ j = i)
    BY <1>0, <1>1, <1>3 DEF ToldIs
  <2>2. ~WorksOn(q, j) /\ j \notin raced
    BY <1>3, <1>4, <2>1
  <2>3. instCache[j] # None /\ instCache[j].rgd = q
    BY <1>0, <2>2 DEF HandledEntered
  <2>4. j # i
    BY <1>1, <2>1, <2>3
  <2> QED
    BY <1>5, <2>3, <2>4
<1> QED
  BY <1>5, <1>6, <1>7, <1>8, <1>9 DEF InsInv

LEMMA ConvertStep ==
  ASSUME InsInv, NEW r \in Graph, Ins!Convert(r) PROVE InsInv'
<1>0. InsTypes /\ ToldIs /\ EntriesSet /\ Purged /\ EntriesHandled /\ HandledEntered /\ StatusSet
  BY DEF InsInv
<1>1. PICK i \in Instance, w \in [at : {"set"}, inst : Instance, entry : Cached] :
        /\ worker[r].inst = i /\ worker[r].at = "event" /\ worker[r].new # None
        /\ worker[r].new.rgd = r
        /\ w.at = "set" /\ w.inst = i /\ w.entry.rgd = r /\ w.entry.rv = worker[r].new.rv
        /\ worker' = [worker EXCEPT ![r] = w]
        /\ UNCHANGED <<insts, lastOf, inCatalog, statusOf, informers, told, instCache, tracker,
                       request, raced, changes, faults>>
  <2> DEFINE e == [rv |-> worker[r].new.rv, rgd |-> r,
                   status |-> IF r \in inCatalog THEN statusOf[r] ELSE 0]
  <2>1. worker[r].at = "event" => worker[r].inst \in Instance /\ worker[r].new \in Object \cup {None}
    BY <1>0 DEF InsTypes, WorkerTypes, Ins!Idle
  <2>2. worker[r].at = "event" /\ worker[r].new # None => e \in Cached
    BY <1>0, <2>1 DEF InsTypes, Cached, Object
  <2>3. e.rv = worker[r].new.rv /\ e.rgd = r
    OBVIOUS
  <2>4. /\ worker[r].at = "event" /\ worker[r].new # None /\ worker[r].new.rgd = r
        /\ worker' = [worker EXCEPT ![r] = [at |-> "set", inst |-> worker[r].inst, entry |-> e]]
        /\ UNCHANGED <<insts, lastOf, inCatalog, statusOf, informers, told, instCache, tracker,
                       request, raced, changes, faults>>
    BY DEF Ins!Convert, Ins!BelongsToRGD
  <2> HIDE DEF e
  <2> QED
    BY <2>1, <2>2, <2>3, <2>4
<1>2. /\ DOMAIN worker' = Graph /\ \A q \in Graph : WorkerTypes(q)'
      /\ \A q \in Graph : worker'[q] = IF q = r THEN w ELSE worker[q]
  BY <1>0, <1>1, WorkerGoes
<1>3. /\ \A j \in Instance : WorksOn(r, j) <=> j = i
      /\ \A j \in Instance : WorksOn(r, j)' <=> j = i
      /\ \A q \in Graph, j \in Instance : q # r => (WorksOn(q, j)' <=> WorksOn(q, j))
  BY <1>1, <1>2 DEF WorksOn
<1>4. InsTypes'
  BY <1>0, <1>1, <1>2 DEF InsTypes, TrackerTypes, Object
<1>5. ToldIs' /\ EntriesSet' /\ Purged' /\ StatusSet'
  <2>1. ToldIs'
    BY <1>0, <1>1, <1>2, <1>3 DEF ToldIs
  <2> QED
    BY <1>0, <1>1, <1>2, <2>1 DEF EntriesSet, Purged, StatusSet, StatusDue
<1>6. EntriesHandled'
  <2> SUFFICES ASSUME NEW j \in Instance \ raced, NEW q \in Graph,
                      instCache[j] # None, instCache[j].rgd = q, ~Pending(q)
               PROVE  <<q, "mapped">> \in informers /\ HandledIs(q, j, instCache[j])'
    BY <1>1 DEF EntriesHandled, Pending, HandledIs, WorksOn
  <2>1. <<q, "mapped">> \in informers /\ HandledIs(q, j, instCache[j])
    BY <1>0 DEF EntriesHandled
  <2> QED
    BY <1>1, <1>2, <1>3, <2>1 DEF HandledIs
<1>7. HandledEntered'
  BY <1>0, <1>1, <1>3 DEF HandledEntered, Removing
<1> QED
  BY <1>4, <1>5, <1>6, <1>7 DEF InsInv

LEMMA SetsStep ==
  ASSUME InsInv, NEW r \in Graph, Ins!HandlerSets(r) PROVE InsInv'
<1>0. InsTypes /\ ToldIs /\ EntriesSet /\ Purged /\ EntriesHandled /\ HandledEntered /\ StatusSet
  BY DEF InsInv
<1>1. PICK i \in Instance, e \in Cached :
        /\ worker[r].inst = i /\ worker[r].at = "set" /\ worker[r].entry = e
        /\ instCache' = [instCache EXCEPT ![i] = e]
        /\ raced' = IF Ins!Current(i, r, e) THEN raced \ {i} ELSE raced \cup {i}
        /\ worker' = [worker EXCEPT ![r] = Ins!Idle]
        /\ UNCHANGED <<insts, lastOf, inCatalog, statusOf, informers, told, tracker, request,
                       changes, faults>>
  <2>1. worker[r].at = "set" => worker[r].inst \in Instance /\ worker[r].entry \in Cached
    BY <1>0 DEF InsTypes, WorkerTypes, Ins!Idle
  <2> QED
    BY <2>1 DEF Ins!HandlerSets
<1>2. /\ DOMAIN worker' = Graph /\ \A q \in Graph : WorkerTypes(q)'
      /\ \A q \in Graph : worker'[q] = IF q = r THEN Ins!Idle ELSE worker[q]
  BY <1>0, <1>1, WorkerGoes
<1>3. /\ \A j \in Instance : WorksOn(r, j) <=> j = i
      /\ \A j \in Instance : ~WorksOn(r, j)'
      /\ \A q \in Graph, j \in Instance : q # r => (WorksOn(q, j)' <=> WorksOn(q, j))
  BY <1>1, <1>2, OthersWork DEF WorksOn
<1>4. /\ raced' \in SUBSET Instance /\ e.rgd = r /\ e # None
      /\ \A j \in Instance : j # i => (j \in raced' <=> j \in raced)
      /\ i \notin raced' => Ins!Current(i, r, e)
  BY <1>0, <1>1, NoneIsNoObject DEF InsTypes, EntriesSet
<1>5. /\ instCache' \in [Instance -> Cached \cup {None}]
      /\ \A j \in Instance : instCache'[j] = IF j = i THEN e ELSE instCache[j]
  BY <1>0, <1>1 DEF InsTypes
<1>6. InsTypes'
  BY <1>0, <1>1, <1>2, <1>4, <1>5 DEF InsTypes, TrackerTypes, Object
<1>7. ToldIs' /\ EntriesSet' /\ Purged' /\ StatusSet'
  <2>1. ToldIs' /\ EntriesSet' /\ Purged'
    BY <1>0, <1>1, <1>2, <1>3 DEF ToldIs, EntriesSet, Purged, Ins!Idle
  <2>2. i \notin raced' => e.status = statusOf[r]
    BY <1>4 DEF Ins!Current
  <2> QED
    BY <1>0, <1>1, <1>4, <1>5, <2>1, <2>2 DEF StatusSet, StatusDue
<1>8. EntriesHandled'
  <2> SUFFICES ASSUME NEW j \in Instance \ raced', NEW q \in Graph,
                      instCache'[j] # None, instCache'[j].rgd = q, ~Pending(q)
               PROVE  <<q, "mapped">> \in informers /\ HandledIs(q, j, instCache[j])'
    BY <1>1 DEF EntriesHandled, Pending, HandledIs, WorksOn
  <2>1. CASE j = i
    <3>1. q = r /\ Ins!Current(i, r, e) /\ instCache'[j] = e
      BY <1>4, <1>5, <2>1
    <3>2. told[r][i] # None /\ told[r][i].rgd = r /\ told[r][i].rv = e.rv
      BY <1>0, <1>1, <1>3, <3>1 DEF ToldIs, Ins!Current
    <3> QED
      BY <1>1, <1>3, <2>1, <3>1, <3>2 DEF HandledIs, Ins!Current
  <2>2. CASE j # i
    <3>1. <<q, "mapped">> \in informers /\ HandledIs(q, j, instCache[j])
      BY <1>0, <1>4, <1>5, <2>2 DEF EntriesHandled
    <3> QED
      BY <1>1, <1>2, <1>3, <1>5, <2>2, <3>1 DEF HandledIs
  <2> QED
    BY <2>1, <2>2
<1>9. HandledEntered'
  <2> SUFFICES ASSUME NEW j \in Instance \ raced', NEW q \in Graph,
                      insts[j] # None, insts[j].rgd = q, <<q, "mapped">> \in informers,
                      ~Removing(q), ~WorksOn(q, j)', told[q][j] = insts[j]
               PROVE  instCache'[j] # None /\ instCache'[j].rgd = q
    BY <1>1 DEF HandledEntered, Removing
  <2>1. CASE j = i
    BY <1>4, <1>5, <2>1 DEF Ins!Current
  <2>2. CASE j # i
    BY <1>0, <1>3, <1>4, <1>5, <2>2 DEF HandledEntered
  <2> QED
    BY <2>1, <2>2
<1> QED
  BY <1>6, <1>7, <1>8, <1>9 DEF InsInv

(* What is at the place of the goroutine of the RGD watcher. *)
LEMMA TrackerIs ==
  ASSUME TrackerTypes
  PROVE  /\ tracker.at \in {"idle", "ensure", "purge", "deleteByRGD", "status"}
         /\ tracker = Ins!Idle <=> tracker.at = "idle"
         /\ tracker.at # "idle" => tracker.rgd \in Graph
         /\ tracker.at \in {"purge", "deleteByRGD"} => tracker.todo \in SUBSET Informer
         /\ tracker.at = "deleteByRGD" => tracker.key \in Informer
         /\ tracker.at = "status" => tracker.copies \in SUBSET (Instance \X Cached)
  BY DEF TrackerTypes, Ins!Idle

(* The step of a tracker leaves goroutines and requests alone. *)
LEMMA TrackerKeeps ==
  ASSUME InsInv, UNCHANGED <<insts, lastOf, worker, request>>,
         told' \in [Graph -> [Instance -> Object \cup {None}]],
         instCache' \in [Instance -> Cached \cup {None}],
         inCatalog' \in SUBSET Graph, statusOf' \in [Graph -> Nat],
         informers' \in SUBSET Informer, raced' \in SUBSET Instance, TrackerTypes',
         \A r \in Graph, i \in Instance : told'[r][i] \in {told[r][i], None}
  PROVE  InsTypes' /\ ToldIs' /\ EntriesSet'
<1>0. InsTypes /\ ToldIs /\ EntriesSet
  BY DEF InsInv
<1>1. InsTypes'
  BY <1>0 DEF InsTypes, WorkerTypes, Object
<1>2. EntriesSet'
  BY <1>0 DEF EntriesSet
<1>3. ToldIs'
  BY <1>0 DEF ToldIs, WorksOn
<1> QED
  BY <1>1, <1>2, <1>3

LEMMA CatalogChangesStep ==
  ASSUME InsInv, NEW r \in Graph, Ins!CatalogChanges(r) PROVE InsInv'
<1>0. InsTypes /\ ToldIs /\ EntriesSet /\ Purged /\ EntriesHandled /\ HandledEntered /\ StatusSet
  BY DEF InsInv
<1>1. /\ tracker = Ins!Idle /\ tracker' = [at |-> "ensure", rgd |-> r]
      /\ UNCHANGED <<insts, lastOf, informers, told, worker, instCache, request, raced>>
      /\ inCatalog' \in SUBSET Graph /\ statusOf' \in [Graph -> Nat]
      /\ \A q \in Graph : q # r => statusOf'[q] = statusOf[q]
  BY <1>0 DEF Ins!CatalogChanges, InsTypes
<1>2. /\ tracker'.at = "ensure" /\ tracker'.rgd = r /\ TrackerTypes' /\ tracker.at = "idle"
  BY <1>1 DEF TrackerTypes, Ins!Idle
<1>3. InsTypes' /\ ToldIs' /\ EntriesSet'
  <2>1. \A q \in Graph, i \in Instance : told'[q][i] \in {told[q][i], None}
    BY <1>1
  <2> QED
    BY <1>0, <1>1, <1>2, <2>1, TrackerKeeps DEF InsTypes
<1>4. Purged' /\ EntriesHandled' /\ HandledEntered'
  BY <1>0, <1>1, <1>2 DEF Purged, EntriesHandled, HandledEntered, HandledIs, WorksOn, Pending,
         Removing
<1>5. StatusSet'
  BY <1>0, <1>1, <1>2, NoneIsNoObject DEF StatusSet, StatusDue, InsTypes, Cached
<1> QED
  BY <1>3, <1>4, <1>5 DEF InsInv

LEMMA EnsureStep ==
  ASSUME InsInv, Ins!EnsureInformers PROVE InsInv'
<1>0. InsTypes /\ ToldIs /\ EntriesSet /\ Purged /\ EntriesHandled /\ HandledEntered /\ StatusSet
      /\ TrackerTypes
  BY DEF InsInv, InsTypes
<1>1. PICK S \in SUBSET inCatalog :
        LET keys == {<<r, IF r \in S THEN "guessed" ELSE "mapped">> : r \in inCatalog} IN
        /\ tracker.at = "ensure"
        /\ informers' = informers \cup keys
        /\ tracker' = [at |-> "purge", rgd |-> tracker.rgd, todo |-> informers \ keys]
        /\ told' = [r \in Graph |-> IF <<r, "mapped">> \in keys \ informers
                                    THEN Ins!Nothing ELSE told[r]]
        /\ UNCHANGED <<insts, lastOf, inCatalog, statusOf, worker, instCache, request, raced>>
  BY DEF Ins!EnsureInformers
<1> DEFINE keys == {<<r, IF r \in S THEN "guessed" ELSE "mapped">> : r \in inCatalog}
<1>2. /\ tracker.at = "ensure" /\ informers' = informers \cup keys
      /\ tracker' = [at |-> "purge", rgd |-> tracker.rgd, todo |-> informers \ keys]
      /\ told' = [r \in Graph |-> IF <<r, "mapped">> \in keys \ informers
                                  THEN Ins!Nothing ELSE told[r]]
      /\ UNCHANGED <<insts, lastOf, inCatalog, statusOf, worker, instCache, request, raced>>
  BY <1>1
<1>3. keys \in SUBSET Informer /\ \A k \in keys : k[1] \in inCatalog
  BY <1>0 DEF InsTypes, Informer
<1> HIDE DEF keys
<1>4. /\ tracker'.at = "purge" /\ tracker'.rgd = tracker.rgd /\ tracker'.todo = informers \ keys
      /\ TrackerTypes' /\ tracker.rgd \in Graph
  BY <1>0, <1>2, <1>3, TrackerIs DEF TrackerTypes, InsTypes
<1>5. /\ told' \in [Graph -> [Instance -> Object \cup {None}]]
      /\ \A q \in Graph, i \in Instance :
           told'[q][i] = IF <<q, "mapped">> \in keys \ informers THEN None ELSE told[q][i]
  BY <1>0, <1>2 DEF InsTypes, Ins!Nothing
<1>6. InsTypes' /\ ToldIs' /\ EntriesSet'
  <2>1. informers' \in SUBSET Informer
    BY <1>0, <1>2, <1>3 DEF InsTypes
  <2> QED
    BY <1>0, <1>2, <1>4, <1>5, <2>1, TrackerKeeps DEF InsTypes
<1>7. Purged'
  BY <1>2, <1>3, <1>4 DEF Purged
<1>8. EntriesHandled'
  <2> SUFFICES ASSUME NEW i \in Instance \ raced, NEW q \in Graph,
                      instCache[i] # None, instCache[i].rgd = q
               PROVE  <<q, "mapped">> \in informers' /\ HandledIs(q, i, instCache[i])'
    BY <1>2 DEF EntriesHandled, Pending, HandledIs, WorksOn
  <2>1. <<q, "mapped">> \in informers /\ HandledIs(q, i, instCache[i])
    BY <1>0, <1>2 DEF EntriesHandled, Pending
  <2> QED
    BY <1>2, <1>5, <2>1 DEF HandledIs, WorksOn
<1>9. HandledEntered'
  <2> SUFFICES ASSUME NEW i \in Instance \ raced, NEW q \in Graph,
                      insts[i] # None, insts[i].rgd = q, <<q, "mapped">> \in informers',
                      ~Removing(q)', ~WorksOn(q, i), told'[q][i] = insts[i]
               PROVE  instCache[i] # None /\ instCache[i].rgd = q
    BY <1>2 DEF HandledEntered, WorksOn
  <2>1. <<q, "mapped">> \in informers /\ told[q][i] = insts[i]
    BY <1>2, <1>5
  <2> QED
    BY <1>0, <1>2, <2>1 DEF HandledEntered, Removing
<1>10. StatusSet'
  BY <1>0, <1>2, <1>4 DEF StatusSet, StatusDue
<1> QED
  BY <1>6, <1>7, <1>8, <1>9, <1>10 DEF InsInv

LEMMA RemoveInformerStep ==
  ASSUME InsInv, NEW k \in informers, Ins!RemoveInformer(k) PROVE InsInv'
<1>0. InsTypes /\ ToldIs /\ EntriesSet /\ Purged /\ EntriesHandled /\ HandledEntered /\ StatusSet
      /\ TrackerTypes
  BY DEF InsInv, InsTypes
<1>1. /\ tracker.at = "purge" /\ k \in tracker.todo
      /\ informers' = informers \ {k}
      /\ tracker' = [at |-> "deleteByRGD", key |-> k, rgd |-> tracker.rgd, todo |-> tracker.todo \ {k}]
      /\ UNCHANGED <<insts, lastOf, inCatalog, statusOf, told, worker, instCache, request, raced>>
  BY DEF Ins!RemoveInformer
<1>2. /\ tracker'.at = "deleteByRGD" /\ tracker'.key = k /\ tracker'.rgd = tracker.rgd
      /\ tracker'.todo = tracker.todo \ {k} /\ TrackerTypes' /\ k \in Informer
  BY <1>0, <1>1, TrackerIs DEF TrackerTypes, InsTypes
<1>3. InsTypes' /\ ToldIs' /\ EntriesSet'
  <2>1. \A q \in Graph, i \in Instance : told'[q][i] \in {told[q][i], None}
    BY <1>1
  <2> QED
    BY <1>0, <1>1, <1>2, <2>1, TrackerKeeps DEF InsTypes
<1>4. Purged'
  BY <1>0, <1>1, <1>2 DEF Purged
<1>5. EntriesHandled'
  <2> SUFFICES ASSUME NEW i \in Instance \ raced, NEW q \in Graph,
                      instCache[i] # None, instCache[i].rgd = q, k[1] # q
               PROVE  <<q, "mapped">> \in informers' /\ HandledIs(q, i, instCache[i])'
    BY <1>1, <1>2 DEF EntriesHandled, Pending, HandledIs, WorksOn
  <2>1. <<q, "mapped">> \in informers /\ HandledIs(q, i, instCache[i])
    BY <1>0, <1>1 DEF EntriesHandled, Pending
  <2> QED
    BY <1>1, <2>1 DEF HandledIs, WorksOn
<1>6. HandledEntered'
  <2> SUFFICES ASSUME NEW i \in Instance \ raced, NEW q \in Graph,
                      insts[i] # None, insts[i].rgd = q, <<q, "mapped">> \in informers',
                      ~Removing(q)', ~WorksOn(q, i), told[q][i] = insts[i]
               PROVE  instCache[i] # None /\ instCache[i].rgd = q
    BY <1>1 DEF HandledEntered, WorksOn
  <2>1. <<q, "mapped">> \in informers /\ ~Removing(q)
    BY <1>1, <1>2 DEF Removing
  <2> QED
    BY <1>0, <2>1 DEF HandledEntered
<1>7. StatusSet'
  BY <1>0, <1>1, <1>2 DEF StatusSet, StatusDue
<1> QED
  BY <1>3, <1>4, <1>5, <1>6, <1>7 DEF InsInv

LEMMA DeleteByRGDStep ==
  ASSUME InsInv, Ins!DeleteByRGD PROVE InsInv'
<1>0. InsTypes /\ ToldIs /\ EntriesSet /\ Purged /\ EntriesHandled /\ HandledEntered /\ StatusSet
      /\ TrackerTypes
  BY DEF InsInv, InsTypes
<1> DEFINE mine == {i \in Instance : instCache[i] # None /\ instCache[i].rgd = tracker.key[1]}
<1>1. /\ tracker.at = "deleteByRGD"
      /\ instCache' = [i \in Instance |-> IF i \in mine THEN None ELSE instCache[i]]
      /\ raced' = IF tracker.key[1] \in inCatalog THEN raced \cup mine ELSE raced
      /\ tracker' = [at |-> "purge", rgd |-> tracker.rgd, todo |-> tracker.todo]
      /\ UNCHANGED <<insts, lastOf, inCatalog, statusOf, informers, told, worker, request>>
  BY DEF Ins!DeleteByRGD
<1>2. /\ tracker'.at = "purge" /\ tracker'.rgd = tracker.rgd /\ tracker'.todo = tracker.todo
      /\ TrackerTypes' /\ tracker.key \in Informer
  BY <1>0, <1>1, TrackerIs DEF TrackerTypes
<1>3. /\ instCache' \in [Instance -> Cached \cup {None}] /\ raced' \in SUBSET Instance
      /\ raced \subseteq raced'
      /\ \A i \in Instance : /\ instCache'[i] # None => /\ instCache'[i] = instCache[i]
                                                       /\ instCache[i].rgd # tracker.key[1]
                             /\ instCache[i] # None /\ instCache'[i] = None =>
                                  /\ instCache[i].rgd = tracker.key[1]
                                  /\ tracker.key[1] \in inCatalog => i \in raced'
  BY <1>0, <1>1 DEF InsTypes
<1> HIDE DEF mine
<1>4. InsTypes' /\ ToldIs' /\ EntriesSet'
  <2>1. \A q \in Graph, i \in Instance : told'[q][i] \in {told[q][i], None}
    BY <1>1
  <2> QED
    BY <1>0, <1>1, <1>2, <1>3, <2>1, TrackerKeeps DEF InsTypes
<1>5. Purged'
  BY <1>0, <1>1, <1>2 DEF Purged
<1>6. EntriesHandled'
  <2> SUFFICES ASSUME NEW i \in Instance \ raced', NEW q \in Graph,
                      instCache'[i] # None, instCache'[i].rgd = q
               PROVE  <<q, "mapped">> \in informers /\ HandledIs(q, i, instCache[i])'
    BY <1>1 DEF EntriesHandled, Pending, HandledIs, WorksOn
  <2>1. instCache'[i] = instCache[i] /\ i \notin raced /\ ~Pending(q)
    BY <1>3 DEF Pending
  <2>2. <<q, "mapped">> \in informers /\ HandledIs(q, i, instCache[i])
    BY <1>0, <2>1 DEF EntriesHandled
  <2> QED
    BY <1>1, <2>1, <2>2 DEF HandledIs, WorksOn
<1>7. HandledEntered'
  <2> SUFFICES ASSUME NEW i \in Instance \ raced', NEW q \in Graph,
                      insts[i] # None, insts[i].rgd = q, <<q, "mapped">> \in informers,
                      ~Removing(q)', ~WorksOn(q, i), told[q][i] = insts[i]
               PROVE  instCache'[i] # None /\ instCache'[i].rgd = q
    BY <1>1 DEF HandledEntered, WorksOn
  <2>1. ~Removing(q) /\ i \notin raced
    BY <1>1, <1>2, <1>3 DEF Removing
  <2>2. instCache[i] # None /\ instCache[i].rgd = q
    BY <1>0, <2>1 DEF HandledEntered
  <2>3. q \in inCatalog
    BY <1>0, <1>1, <2>1 DEF Purged, Removing
  <2> QED
    BY <1>3, <2>2, <2>3
<1>8. StatusSet'
  BY <1>0, <1>1, <1>2, <1>3 DEF StatusSet, StatusDue
<1> QED
  BY <1>4, <1>5, <1>6, <1>7, <1>8 DEF InsInv

LEMMA ReadForStatusStep ==
  ASSUME InsInv, Ins!ReadForStatus PROVE InsInv'
<1>0. InsTypes /\ ToldIs /\ EntriesSet /\ Purged /\ EntriesHandled /\ HandledEntered /\ StatusSet
      /\ TrackerTypes
  BY DEF InsInv, InsTypes
<1> DEFINE r == tracker.rgd
           due == {i \in Instance : /\ instCache[i] # None /\ instCache[i].rgd = r
                                    /\ instCache[i].status # statusOf[r]}
           copies == {<<i, instCache[i]>> : i \in due}
<1>1. /\ tracker.at = "purge" /\ tracker.todo = {}
      /\ tracker' = IF r \in inCatalog /\ due # {}
                    THEN [at |-> "status", rgd |-> r, copies |-> copies] ELSE Ins!Idle
      /\ UNCHANGED <<insts, lastOf, inCatalog, statusOf, informers, told, worker, instCache,
                     request, raced>>
  BY DEF Ins!ReadForStatus
<1>2. copies \in SUBSET (Instance \X Cached) /\ r \in Graph /\ \A c \in copies : c[2].rgd = r
  BY <1>0, <1>1, TrackerIs DEF InsTypes
<1>3. \A i \in Instance : i \in due => <<i, instCache[i]>> \in copies
  OBVIOUS
<1>4. \A i \in Instance : instCache[i] # None /\ instCache[i].rgd = r
                            /\ instCache[i].status # statusOf[r] => i \in due
  OBVIOUS
<1>5. due \subseteq Instance /\ \A i \in due : instCache[i] # None /\ instCache[i].rgd = r
  OBVIOUS
<1> HIDE DEF due, copies, r
<1>6. /\ tracker'.at \in {"idle", "status"} /\ TrackerTypes'
      /\ tracker'.at = "status" => tracker'.rgd = r /\ tracker'.copies = copies
      /\ tracker'.at = "idle" => r \notin inCatalog \/ due = {}
  BY <1>1, <1>2 DEF TrackerTypes, Ins!Idle
<1>7. InsTypes' /\ ToldIs' /\ EntriesSet'
  <2>1. \A q \in Graph, i \in Instance : told'[q][i] \in {told[q][i], None}
    BY <1>1
  <2> QED
    BY <1>0, <1>1, <1>6, <2>1, TrackerKeeps DEF InsTypes
<1>8. Purged'
  BY <1>2, <1>6 DEF Purged
<1>9. EntriesHandled' /\ HandledEntered'
  BY <1>0, <1>1, <1>6 DEF EntriesHandled, HandledEntered, HandledIs, WorksOn, Pending, Removing
<1>10. StatusSet'
  <2> SUFFICES ASSUME NEW i \in Instance \ raced, instCache[i] # None,
                      instCache[i].status # statusOf[instCache[i].rgd]
               PROVE  StatusDue(i, instCache[i])'
    BY <1>1 DEF StatusSet
  <2>1. instCache[i].rgd = r
    BY <1>0, <1>1 DEF StatusSet, StatusDue, r
  <2>2. i \in due /\ <<i, instCache[i]>> \in copies
    BY <1>3, <1>4, <2>1
  <2>3. r \in inCatalog
    <3>1. <<r, "mapped">> \in informers
      BY <1>0, <1>1, <1>2, <2>1 DEF EntriesHandled, Pending
    <3> QED
      BY <1>0, <1>1, <3>1 DEF Purged
  <2>4. tracker'.at = "status"
    BY <1>6, <2>2, <2>3
  <2> QED
    BY <1>1, <1>6, <2>1, <2>2, <2>4 DEF StatusDue
<1> QED
  BY <1>7, <1>8, <1>9, <1>10 DEF InsInv

LEMMA SetStatusStep ==
  ASSUME InsInv, tracker.at = "status", Ins!SetStatus PROVE InsInv'
<1>0. InsTypes /\ ToldIs /\ EntriesSet /\ Purged /\ EntriesHandled /\ HandledEntered /\ StatusSet
      /\ TrackerTypes
  BY DEF InsInv, InsTypes
<1>1. PICK c \in tracker.copies :
        /\ instCache' = [instCache EXCEPT ![c[1]] = [c[2] EXCEPT !.status = statusOf[tracker.rgd]]]
        /\ raced' = IF instCache[c[1]] # c[2] THEN raced \cup {c[1]} ELSE raced
        /\ tracker' = IF tracker.copies = {c} THEN Ins!Idle ELSE [tracker EXCEPT !.copies = @ \ {c}]
        /\ UNCHANGED <<insts, lastOf, inCatalog, statusOf, informers, told, worker, request>>
  BY DEF Ins!SetStatus
<1>2. PICK i \in Instance, e \in Cached : c = <<i, e>>
  BY <1>0, TrackerIs
<1> DEFINE n == [e EXCEPT !.status = statusOf[tracker.rgd]]
<1>3. /\ tracker.rgd \in Graph /\ e.rgd = tracker.rgd
  BY <1>0, <1>1, <1>2, TrackerIs DEF Purged
<1>4. /\ n \in Cached /\ n.rgd = e.rgd /\ n.rv = e.rv /\ n.status = statusOf[e.rgd] /\ n # None
  BY <1>0, <1>3, NoneIsNoObject DEF InsTypes, Cached
<1>5. /\ instCache' = [instCache EXCEPT ![i] = n]
      /\ raced' = IF instCache[i] # e THEN raced \cup {i} ELSE raced
  BY <1>1, <1>2
<1> HIDE DEF n
<1>6. /\ instCache' \in [Instance -> Cached \cup {None}] /\ raced' \in SUBSET Instance
      /\ raced \subseteq raced' /\ (i \notin raced' => instCache[i] = e)
      /\ \A j \in Instance : instCache'[j] = IF j = i THEN n ELSE instCache[j]
  BY <1>0, <1>4, <1>5 DEF InsTypes
<1>7. /\ TrackerTypes' /\ tracker'.at \in {"idle", "status"}
      /\ tracker'.at = "status" => /\ tracker'.rgd = tracker.rgd
                                   /\ tracker'.copies = tracker.copies \ {c}
      /\ tracker'.at = "idle" => tracker.copies = {c}
  <2>1. tracker \in [at : {"status"}, rgd : Graph, copies : SUBSET (Instance \X Cached)]
    BY <1>0 DEF TrackerTypes, Ins!Idle
  <2> QED
    BY <1>1, <2>1 DEF TrackerTypes, Ins!Idle
<1>8. InsTypes' /\ ToldIs' /\ EntriesSet'
  <2>1. \A q \in Graph, j \in Instance : told'[q][j] \in {told[q][j], None}
    BY <1>1
  <2> QED
    BY <1>0, <1>1, <1>6, <1>7, <2>1, TrackerKeeps DEF InsTypes
<1>9. Purged'
  BY <1>0, <1>7 DEF Purged
<1>10. EntriesHandled'
  <2> SUFFICES ASSUME NEW j \in Instance \ raced', NEW q \in Graph,
                      instCache'[j] # None, instCache'[j].rgd = q
               PROVE  <<q, "mapped">> \in informers /\ HandledIs(q, j, instCache[j])'
    BY <1>1 DEF EntriesHandled, Pending, HandledIs, WorksOn
  <2>1. j \notin raced /\ instCache[j] # None /\ instCache[j].rgd = q /\ instCache'[j].rv = instCache[j].rv
    BY <1>4, <1>6, NoneIsNoObject
  <2>2. <<q, "mapped">> \in informers /\ HandledIs(q, j, instCache[j])
    BY <1>0, <2>1 DEF EntriesHandled, Pending
  <2> QED
    BY <1>1, <2>1, <2>2 DEF HandledIs, WorksOn
<1>11. HandledEntered'
  <2> SUFFICES ASSUME NEW j \in Instance \ raced', NEW q \in Graph,
                      insts[j] # None, insts[j].rgd = q, <<q, "mapped">> \in informers,
                      ~WorksOn(q, j), told[q][j] = insts[j]
               PROVE  instCache'[j] # None /\ instCache'[j].rgd = q
    BY <1>1 DEF HandledEntered, WorksOn
  <2>1. instCache[j] # None /\ instCache[j].rgd = q
    BY <1>0, <1>6 DEF HandledEntered, Removing
  <2> QED
    BY <1>4, <1>6, <2>1
<1>12. StatusSet'
  <2> SUFFICES ASSUME NEW j \in Instance \ raced', instCache'[j] # None,
                      instCache'[j].status # statusOf[instCache'[j].rgd]
               PROVE  StatusDue(j, instCache[j])'
    BY <1>1 DEF StatusSet
  <2>1. j # i
    BY <1>4, <1>6
  <2>2. instCache'[j] = instCache[j] /\ StatusDue(j, instCache[j])
    BY <1>0, <1>6, <2>1 DEF StatusSet
  <2>3. <<j, instCache[j]>> \in tracker.copies \ {c} /\ instCache[j].rgd = tracker.rgd
    BY <1>2, <2>1, <2>2 DEF StatusDue
  <2> QED
    BY <1>7, <2>2, <2>3 DEF StatusDue
<1> QED
  BY <1>8, <1>9, <1>10, <1>11, <1>12 DEF InsInv

LEMMA DeleteFromCacheStep ==
  ASSUME InsInv, Ins!DeleteFromCache PROVE InsInv'
<1>0. InsTypes /\ ToldIs /\ EntriesSet /\ Purged /\ EntriesHandled /\ HandledEntered /\ StatusSet
  BY DEF InsInv
<1>1. PICK i \in Instance :
        /\ instCache' = [instCache EXCEPT ![i] = None]
        /\ raced' = IF insts[i] # None THEN raced \cup {i} ELSE raced
        /\ request' = Ins!Idle
        /\ UNCHANGED <<insts, lastOf, inCatalog, statusOf, informers, told, worker, tracker,
                       changes, faults>>
  <2>1. request.at = "deleted" => request.inst \in Instance
    BY <1>0 DEF InsTypes, Ins!Idle
  <2> QED
    BY <2>1 DEF Ins!DeleteFromCache
<1>2. raced' \in SUBSET Instance /\ raced \subseteq raced'
  BY <1>0, <1>1 DEF InsTypes
<1>3. /\ instCache' \in [Instance -> Cached \cup {None}]
      /\ \A j \in Instance : instCache'[j] = IF j = i THEN None ELSE instCache[j]
      /\ StatusSet'
  BY <1>1, <1>2, EntryGone
<1>4. InsTypes'
  BY <1>0, <1>1, <1>2, <1>3 DEF InsTypes, WorkerTypes, TrackerTypes, Object
<1>5. ToldIs' /\ EntriesSet' /\ Purged'
  BY <1>0, <1>1 DEF ToldIs, EntriesSet, Purged, WorksOn
<1>6. EntriesHandled'
  BY <1>0, <1>1, <1>2, <1>3 DEF EntriesHandled, Pending, HandledIs, WorksOn
<1>7. HandledEntered'
  BY <1>0, <1>1, <1>2, <1>3 DEF HandledEntered, Removing, WorksOn
<1> QED
  BY <1>3, <1>4, <1>5, <1>6, <1>7 DEF InsInv

LEMMA InsInvStep == InsInv /\ [Ins!Next]_(Ins!vars) => InsInv'
<1> SUFFICES ASSUME InsInv, [Ins!Next]_(Ins!vars)
             PROVE  InsInv'
  OBVIOUS
<1>0. InsTypes /\ lastOf \in Nat /\ MaxRv \in Nat /\ lastOf <= MaxRv
  BY ServicesAssumption DEF InsInv, InsTypes
<1>1. ASSUME NEW i \in Instance, Ins!WriteInstance(i) PROVE InsInv'
  <2>1. PICK r \in Graph \cup {None} :
          /\ lastOf < MaxRv /\ lastOf' = lastOf + 1
          /\ insts' = [insts EXCEPT ![i] = [rv |-> lastOf + 1, rgd |-> r]]
          /\ UNCHANGED <<inCatalog, statusOf, informers, told, worker, instCache, tracker, request,
                         raced, changes, faults>>
    BY <1>1 DEF Ins!WriteInstance
  <2>2. lastOf' \in lastOf .. MaxRv /\ [rv |-> lastOf + 1, rgd |-> r] \in Object'
    BY <1>0, <2>1 DEF Object
  <2>3. request' = Ins!Idle \/ request' \in [at : {"deleted"}, inst : Instance]
    BY <1>0, <2>1 DEF InsTypes
  <2> QED
    BY <2>1, <2>2, <2>3, InstanceChanges
<1>2. ASSUME NEW i \in Instance, Ins!RemoveInstance(i) PROVE InsInv'
  <2>2. /\ insts' = [insts EXCEPT ![i] = None]
        /\ UNCHANGED <<lastOf, inCatalog, statusOf, informers, told, worker, instCache, tracker,
                       request, raced, changes, faults>>
    BY <1>2 DEF Ins!RemoveInstance
  <2>1. request' = Ins!Idle \/ request' \in [at : {"deleted"}, inst : Instance]
    BY <1>0, <2>2 DEF InsTypes
  <2>3. lastOf' \in lastOf .. MaxRv
    BY <1>0, <2>2
  <2> QED
    BY <2>1, <2>2, <2>3, InstanceChanges
<1>3. ASSUME NEW i \in Instance, Ins!DeleteInCluster(i) PROVE InsInv'
  <2>1. /\ insts[i] # None /\ request' = [at |-> "deleted", inst |-> i]
        /\ \/ insts' = [insts EXCEPT ![i] = None] /\ UNCHANGED lastOf
           \/ /\ lastOf < MaxRv /\ lastOf' = lastOf + 1
              /\ insts' = [insts EXCEPT ![i].rv = lastOf + 1]
        /\ UNCHANGED <<inCatalog, statusOf, informers, told, worker, instCache, tracker, raced,
                       changes, faults>>
    BY <1>3 DEF Ins!DeleteInCluster
  <2>2. request' \in [at : {"deleted"}, inst : Instance]
    BY <2>1
  <2>3. CASE insts' = [insts EXCEPT ![i] = None] /\ UNCHANGED lastOf
    <3>1. lastOf' \in lastOf .. MaxRv
      BY <1>0, <2>3
    <3> QED
      BY <2>1, <2>2, <2>3, <3>1, InstanceChanges
  <2>4. CASE /\ lastOf < MaxRv /\ lastOf' = lastOf + 1
             /\ insts' = [insts EXCEPT ![i].rv = lastOf + 1]
    <3> DEFINE o == [insts[i] EXCEPT !.rv = lastOf + 1]
    <3>1. insts[i] \in Object
      BY <1>0, <2>1 DEF InsTypes
    <3>2. o \in Object' /\ o.rv = lastOf + 1 /\ lastOf' \in lastOf .. MaxRv
      BY <1>0, <2>4, <3>1 DEF Object
    <3>3. insts' = [insts EXCEPT ![i] = o]
      BY <2>4
    <3> HIDE DEF o
    <3> QED
      BY <2>1, <2>2, <3>2, <3>3, InstanceChanges
  <2> QED
    BY <2>1, <2>3, <2>4
<1>4. CASE UNCHANGED Ins!vars
  BY <1>4 DEF Ins!vars, InsInv, InsTypes, WorkerTypes, TrackerTypes, Object, ToldIs, EntriesSet,
         Purged,
              EntriesHandled, HandledEntered, StatusSet, WorksOn, Pending, Removing, HandledIs, StatusDue
<1>5. ASSUME NEW r \in Graph, Ins!HandlerStep(r) PROVE InsInv'
  BY <1>5, DeletedStep, NotMineStep, LeaveStep, ConvertStep, SetsStep DEF Ins!HandlerStep
<1>6. CASE Ins!TrackerStep
  BY <1>6, EnsureStep, RemoveInformerStep, DeleteByRGDStep, ReadForStatusStep, SetStatusStep
     DEF Ins!TrackerStep
<1> QED
  BY <1>1, <1>2, <1>3, <1>4, <1>5, <1>6, DeliverStep, CatalogChangesStep, DeleteFromCacheStep
     DEF Ins!Next

(* When nothing is under way, the cache is what was told. *)
LEMMA InstancesAreExplained == InsInv => Ins!CacheExplained
<1> SUFFICES ASSUME InsInv, Ins!Quiet, NEW i \in Instance \ raced
             PROVE  IF insts[i] # None /\ <<insts[i].rgd, "mapped">> \in informers
                    THEN instCache[i] = [rv |-> insts[i].rv, rgd |-> insts[i].rgd,
                                         status |-> statusOf[insts[i].rgd]]
                    ELSE instCache[i] = None
  BY DEF Ins!CacheExplained
<1>0. InsTypes /\ EntriesHandled /\ HandledEntered /\ StatusSet
  BY DEF InsInv
<1>1. /\ tracker.at = "idle"
      /\ \A r \in Graph : worker[r].at = "idle"
      /\ \A r \in Graph : <<r, "mapped">> \in informers => told[r] = insts
  <2>1. tracker = Ins!Idle /\ \A r \in Graph : worker[r] = Ins!Idle
    BY DEF Ins!Quiet
  <2>2. \A r \in Graph : <<r, "mapped">> \in informers => told[r] = insts
    BY DEF Ins!Quiet
  <2> QED
    BY <2>1, <2>2 DEF Ins!Idle
<1>2. instCache[i] # None =>
        /\ instCache[i] \in Cached /\ instCache[i].rgd \in Graph
        /\ <<instCache[i].rgd, "mapped">> \in informers
        /\ insts[i] # None /\ insts[i].rgd = instCache[i].rgd /\ insts[i].rv = instCache[i].rv
        /\ instCache[i].status = statusOf[instCache[i].rgd]
  <2> SUFFICES ASSUME instCache[i] # None
               PROVE  /\ instCache[i] \in Cached /\ instCache[i].rgd \in Graph
                      /\ <<instCache[i].rgd, "mapped">> \in informers
                      /\ insts[i] # None /\ insts[i].rgd = instCache[i].rgd
                      /\ insts[i].rv = instCache[i].rv
                      /\ instCache[i].status = statusOf[instCache[i].rgd]
    OBVIOUS
  <2>1. instCache[i] \in Cached /\ instCache[i].rgd \in Graph
    BY <1>0 DEF InsTypes, Cached
  <2>2. /\ <<instCache[i].rgd, "mapped">> \in informers
        /\ HandledIs(instCache[i].rgd, i, instCache[i])
    BY <1>0, <1>1, <2>1 DEF EntriesHandled, Pending
  <2> QED
    BY <1>0, <1>1, <2>1, <2>2 DEF HandledIs, WorksOn, StatusSet, StatusDue
<1>3. ASSUME insts[i] # None, <<insts[i].rgd, "mapped">> \in informers
      PROVE  instCache[i] # None
  <2>1. insts[i].rgd \in Graph
    BY <1>0, <1>3 DEF InsTypes, Informer
  <2> QED
    BY <1>0, <1>1, <1>3, <2>1 DEF HandledEntered, Removing, WorksOn
<1> QED
  BY <1>2, <1>3 DEF Cached

-----------------------------------------------------------------------------
(* Revisions *)

LEMMA RevCardinality == \A S : Rev!Cardinality(S) = Cardinality(S)
  BY Zenon DEF Rev!Cardinality, Cardinality, IsFiniteSet

(* The elements of a finite set by the size of a key: each place is taken   *)
(* once, in the order of the keys.                                          *)
Rank(S, f, a) == Cardinality({b \in S : f[b] > f[a]})

LEMMA Ranks ==
  ASSUME NEW S, IsFiniteSet(S), NEW f \in [S -> Int], \A a, b \in S : f[a] = f[b] => a = b
  PROVE  /\ Cardinality(S) \in Nat
         /\ \A a \in S : Rank(S, f, a) \in 0 .. Cardinality(S) - 1
         /\ \A a, b \in S : f[a] > f[b] <=> Rank(S, f, a) < Rank(S, f, b)
         /\ \A n \in 0 .. Cardinality(S) - 1 : \E a \in S : Rank(S, f, a) = n
<1>1. Cardinality(S) \in Nat
  BY FS_CardinalityType
<1>2. ASSUME NEW a \in S PROVE Rank(S, f, a) \in 0 .. Cardinality(S) - 1
  <2> DEFINE A == {b \in S : f[b] > f[a]}
  <2>1. A \in SUBSET S /\ a \notin A
    OBVIOUS
  <2>2. IsFiniteSet(A) /\ Cardinality(A) \in Nat /\ Cardinality(A) <= Cardinality(S)
        /\ Cardinality(A) # Cardinality(S)
    BY <2>1, FS_Subset, FS_CardinalityType
  <2> QED
    BY <1>1, <2>2 DEF Rank
<1>3. ASSUME NEW a \in S, NEW b \in S, f[a] > f[b] PROVE Rank(S, f, a) < Rank(S, f, b)
  <2> DEFINE A == {c \in S : f[c] > f[a]}
             B == {c \in S : f[c] > f[b]}
  <2>1. A \in SUBSET B /\ B \in SUBSET S /\ a \in B /\ a \notin A
    <3>1. \A c \in S : f[c] \in Int
      OBVIOUS
    <3>2. \A c \in S : f[c] > f[a] => f[c] > f[b]
      BY <1>3, <3>1
    <3> QED
      BY <1>3, <3>2
  <2> HIDE DEF A, B
  <2>2. IsFiniteSet(B) /\ Cardinality(B) \in Nat
    BY <2>1, FS_Subset, FS_CardinalityType
  <2>3. IsFiniteSet(A) /\ Cardinality(A) \in Nat /\ Cardinality(A) <= Cardinality(B)
        /\ Cardinality(A) # Cardinality(B)
    BY <2>1, <2>2, FS_Subset, FS_CardinalityType
  <2> QED
    BY <2>2, <2>3 DEF Rank, A, B
<1>4. ASSUME NEW a \in S, NEW b \in S, Rank(S, f, a) < Rank(S, f, b) PROVE f[a] > f[b]
  <2>1. f[a] \in Int /\ f[b] \in Int /\ Rank(S, f, a) \in Int /\ Rank(S, f, b) \in Int
    BY <1>2
  <2>2. ~(f[b] > f[a])
    BY <1>3, <1>4, <2>1
  <2>3. f[a] # f[b]
    BY <1>4, <2>1
  <2> QED
    BY <2>1, <2>2, <2>3
<1>5. ASSUME NEW n \in 0 .. Cardinality(S) - 1 PROVE \E a \in S : Rank(S, f, a) = n
  <2> DEFINE places == 0 .. Cardinality(S) - 1
             g == [a \in S |-> Rank(S, f, a)]
  <2>1. IsFiniteSet(places) /\ Cardinality(places) = Cardinality(S)
    BY <1>1, FS_Interval
  <2>2. g \in Injection(S, places)
    <3>1. g \in [S -> places]
      BY <1>2
    <3>2. ASSUME NEW a \in S, NEW b \in S, g[a] = g[b] PROVE a = b
      <4>1. f[a] \in Int /\ f[b] \in Int /\ Rank(S, f, a) = Rank(S, f, b) /\ Rank(S, f, a) \in Int
        BY <1>2, <3>2
      <4>2. ~(f[a] > f[b]) /\ ~(f[b] > f[a])
        BY <1>3, <4>1
      <4> QED
        BY <4>1, <4>2
    <3> QED
      BY <3>1, <3>2 DEF Injection, IsInjective
  <2>3. g \in Surjection(S, places)
    BY <1>1, <2>1, <2>2, FS_Injection
  <2> QED
    BY <2>3 DEF Surjection
<1> QED
  BY <1>1, <1>2, <1>3, <1>4, <1>5

Descends(s) == \A i, j \in DOMAIN s : i < j => s[i].number > s[j].number

(* sort.Slice of entries with different numbers. *)
LEMMA SortedIs ==
  ASSUME NEW S, IsFiniteSet(S), \A v \in S : v.number \in Int,
         \A v, w \in S : v.number = w.number => v = w
  PROVE  /\ Rev!Sorted(S) \in Seq(S) /\ Rev!ToSet(Rev!Sorted(S)) = S
         /\ Descends(Rev!Sorted(S))
<1> DEFINE f == [v \in S |-> v.number]
           N == Cardinality(S)
           At(j) == CHOOSE v \in S : Rank(S, f, v) = j - 1
<1>1. f \in [S -> Int] /\ \A v, w \in S : f[v] = f[w] => v = w
  OBVIOUS
<1>2. /\ N \in Nat /\ \A v \in S : Rank(S, f, v) \in 0 .. N - 1
      /\ \A v, w \in S : f[v] > f[w] <=> Rank(S, f, v) < Rank(S, f, w)
      /\ \A n \in 0 .. N - 1 : \E v \in S : Rank(S, f, v) = n
  BY <1>1, Ranks
<1>3. Rev!Sorted(S) = [j \in 1 .. N |-> At(j)]
  <2> DEFINE C(j) == CHOOSE v \in S : Rev!Cardinality({w \in S : w.number > v.number}) = j - 1
  <2>1. \A v \in S : Rank(S, f, v) = Rev!Cardinality({w \in S : w.number > v.number})
    <3> TAKE v \in S
    <3>1. {w \in S : w.number > v.number} = {w \in S : f[w] > f[v]}
      OBVIOUS
    <3> QED
      BY <3>1, RevCardinality DEF Rank
  <2>2. \A j : At(j) = C(j)
    BY <2>1
  <2>3. Rev!Sorted(S) = [j \in 1 .. Rev!Cardinality(S) |-> C(j)]
    BY DEF Rev!Sorted
  <2>4. Rev!Cardinality(S) = N
    BY RevCardinality
  <2> HIDE DEF At, C, N
  <2> QED
    BY <2>2, <2>3, <2>4
<1> HIDE DEF f, N
<1>4. \A j \in 1 .. N : At(j) \in S /\ Rank(S, f, At(j)) = j - 1
  <2> TAKE j \in 1 .. N
  <2>1. j - 1 \in 0 .. N - 1
    BY <1>2
  <2> QED
    BY <1>2, <2>1
<1>5. \A v \in S : \E j \in 1 .. N : At(j) = v
  <2> TAKE v \in S
  <2> DEFINE j == Rank(S, f, v) + 1
  <2>1. j \in 1 .. N /\ j - 1 = Rank(S, f, v)
    BY <1>2
  <2>2. At(j) \in S /\ Rank(S, f, At(j)) = Rank(S, f, v)
    BY <1>4, <2>1
  <2>3. ~(f[At(j)] > f[v]) /\ ~(f[v] > f[At(j)])
    BY <1>2, <2>1, <2>2
  <2>4. f[At(j)] \in Int /\ f[v] \in Int
    BY <1>1, <2>2
  <2>5. At(j) = v
    BY <1>1, <2>2, <2>3, <2>4
  <2> QED
    BY <2>1, <2>5
<1>6. \A i, j \in 1 .. N : i < j => At(i).number > At(j).number
  <2> TAKE i, j \in 1 .. N
  <2> HAVE i < j
  <2>1. Rank(S, f, At(i)) < Rank(S, f, At(j))
    BY <1>2, <1>4
  <2> QED
    BY <1>2, <1>4, <2>1 DEF f
<1> HIDE DEF At
<1>7. Rev!Sorted(S) \in Seq(S) /\ DOMAIN Rev!Sorted(S) = 1 .. N
  BY <1>2, <1>3, <1>4
<1>8. Rev!ToSet(Rev!Sorted(S)) = S
  BY <1>3, <1>4, <1>5 DEF Rev!ToSet
<1>9. Descends(Rev!Sorted(S))
  BY <1>3, <1>6, <1>7 DEF Descends
<1> QED
  BY <1>7, <1>8, <1>9

(* The loop over a list that drops the entries of one number. *)
LEMMA WithoutIs ==
  ASSUME NEW T, NEW s \in Seq(T), NEW n
  PROVE  /\ Rev!Without(s, n) \in Seq(T)
         /\ Rev!ToSet(Rev!Without(s, n)) = {v \in Rev!ToSet(s) : v.number # n}
         /\ Descends(s) => Descends(Rev!Without(s, n))
<1> DEFINE K == {i \in DOMAIN s : s[i].number # n}
           f == [i \in K |-> -i]
           N == Cardinality(K)
           Nth(j) == CHOOSE i \in K : Rank(K, f, i) = j - 1
<1>1. /\ K \subseteq 1 .. Len(s) /\ Len(s) \in Nat /\ DOMAIN s = 1 .. Len(s) /\ K \subseteq Int
      /\ \A i \in DOMAIN s : s[i] \in T
  OBVIOUS
<1>2. IsFiniteSet(K)
  <2>1. IsFiniteSet(1 .. Len(s))
    BY <1>1, FS_Interval
  <2> HIDE DEF K
  <2> QED
    BY <1>1, <2>1, FS_Subset
<1>3. f \in [K -> Int] /\ \A i, j \in K : f[i] = f[j] => i = j
  BY <1>1
<1>4. /\ N \in Nat /\ \A i \in K : Rank(K, f, i) \in 0 .. N - 1
      /\ \A i, j \in K : f[i] > f[j] <=> Rank(K, f, i) < Rank(K, f, j)
      /\ \A m \in 0 .. N - 1 : \E i \in K : Rank(K, f, i) = m
  BY <1>2, <1>3, Ranks
<1>5. Rev!Without(s, n) = [j \in 1 .. N |-> s[Nth(j)]]
  <2> DEFINE C(j) == CHOOSE i \in K : Rev!Cardinality({h \in K : h < i}) = j - 1
  <2>1. \A i \in K : Rank(K, f, i) = Rev!Cardinality({h \in K : h < i})
    <3> TAKE i \in K
    <3>1. {h \in K : h < i} = {h \in K : f[h] > f[i]}
      BY <1>1
    <3> QED
      BY <3>1, RevCardinality DEF Rank
  <2>2. \A j : Nth(j) = C(j)
    BY <2>1
  <2>3. Rev!Without(s, n) = [j \in 1 .. Rev!Cardinality(K) |-> s[C(j)]]
    BY DEF Rev!Without
  <2>4. Rev!Cardinality(K) = N
    BY RevCardinality
  <2> HIDE DEF Nth, C, N
  <2> QED
    BY <2>2, <2>3, <2>4
<1> HIDE DEF N
<1>6. \A j \in 1 .. N : Nth(j) \in K /\ Rank(K, f, Nth(j)) = j - 1
  <2> HIDE DEF f, K
  <2> TAKE j \in 1 .. N
  <2>1. j - 1 \in 0 .. N - 1
    BY <1>4
  <2> QED
    BY <1>4, <2>1
<1>7. \A i \in K : \E j \in 1 .. N : Nth(j) = i
  <2> TAKE i \in K
  <2> DEFINE j == Rank(K, f, i) + 1
  <2>1. f[i] \in Int
    BY <1>3
  <2> HIDE DEF f, K
  <2>2. j \in 1 .. N /\ j - 1 = Rank(K, f, i)
    BY <1>4
  <2>3. Nth(j) \in K /\ Rank(K, f, Nth(j)) = Rank(K, f, i)
    BY <1>6, <2>2
  <2>4. ~(f[Nth(j)] > f[i]) /\ ~(f[i] > f[Nth(j)]) /\ f[Nth(j)] \in Int
    BY <1>3, <1>4, <2>2, <2>3
  <2>5. Nth(j) = i
    BY <1>3, <2>1, <2>3, <2>4
  <2> QED
    BY <2>2, <2>5
<1>8. \A i, j \in 1 .. N : i < j => Nth(i) < Nth(j)
  <2> TAKE i, j \in 1 .. N
  <2> HAVE i < j
  <2>1. f[Nth(i)] > f[Nth(j)] /\ Nth(i) \in K /\ Nth(j) \in K
    <3> HIDE DEF f, K
    <3> QED
      BY <1>4, <1>6
  <2> HIDE DEF Nth
  <2> QED
    BY <1>1, <2>1
<1> HIDE DEF Nth, f
<1>9. Rev!Without(s, n) \in Seq(T) /\ DOMAIN Rev!Without(s, n) = 1 .. N
  <2>1. \A j \in 1 .. N : s[Nth(j)] \in T
    BY <1>1, <1>6
  <2> HIDE DEF K
  <2> QED
    BY <1>4, <1>5, <2>1
<1>10. Rev!ToSet(Rev!Without(s, n)) = {v \in Rev!ToSet(s) : v.number # n}
  <2>1. \A j \in 1 .. N : s[Nth(j)] \in Rev!ToSet(s) /\ s[Nth(j)].number # n
    BY <1>6 DEF Rev!ToSet
  <2>2. \A v \in Rev!ToSet(s) : v.number # n => \E j \in 1 .. N : v = s[Nth(j)]
    BY <1>7 DEF Rev!ToSet
  <2>3. Rev!ToSet(Rev!Without(s, n)) = {s[Nth(j)] : j \in 1 .. N}
    BY <1>5 DEF Rev!ToSet
  <2> QED
    BY <2>1, <2>2, <2>3
<1>11. Descends(s) => Descends(Rev!Without(s, n))
  BY <1>5, <1>6, <1>8, <1>9 DEF Descends
<1> QED
  BY <1>9, <1>10, <1>11

Revision == [name : Graph, number : 1 .. MaxRevision, birth : 1 .. MaxBirths]

RevTypes ==
  /\ born \in [Graph -> 1 .. MaxBirths]
  /\ revs \in SUBSET Revision /\ heard \in SUBSET Revision
  /\ lists \in [Graph -> Seq(Revision)]
  /\ DOMAIN comparing = Rev!Caller

\* What a comparison has read are revisions of its name and numbers.
OfNumbers(x, read) ==
  /\ read \in Seq(Revision)
  /\ Len(read) >= 1 => read[1].name = x.name /\ read[1].number = x.old
  /\ Len(read) >= 2 => read[2].name = x.name /\ read[2].number = x.new

Comparison == [name : Graph, old : 1 .. MaxRevision, new : 1 .. MaxRevision, read : Seq(Revision)]

Compared ==
  /\ \A c \in Rev!Caller : comparing[c] # Rev!NotComparing =>
       /\ comparing[c] \in Comparison /\ comparing[c].old < comparing[c].new
       /\ Len(comparing[c].read) <= 2 /\ OfNumbers(comparing[c], comparing[c].read)
  /\ \A d \in diffs : /\ d.name \in Graph /\ d.old < d.new
                      /\ Len(d.of) = 2 /\ OfNumbers(d, d.of)

RevInv == RevTypes /\ Compared /\ Rev!NewestFirst

LEMMA RevInvInit == AllInit => RevInv
<1> SUFFICES ASSUME Rev!Init PROVE RevInv
  BY DEF AllInit
<1>1. RevTypes
  BY ServicesAssumption DEF Rev!Init, RevTypes
<1>2. Compared
  BY DEF Rev!Init, Compared
<1>3. Rev!NewestFirst
  BY DEF Rev!Init, Rev!NewestFirst, Rev!ToSet
<1> QED
  BY <1>1, <1>2, <1>3 DEF RevInv

\* The list of a name holds what was heard of it, each number once.
LEMMA ListOf ==
  ASSUME RevTypes, Rev!NewestFirst, NEW g \in Graph
  PROVE  /\ lists[g] \in Seq(Revision) /\ Descends(lists[g])
         /\ Rev!ToSet(lists[g]) = {v \in heard : v.name = g}
         /\ IsFiniteSet(Rev!ToSet(lists[g]))
         /\ \A v, w \in Rev!ToSet(lists[g]) : v.number = w.number => v = w
<1> DEFINE s == lists[g]
<1>1. /\ s \in Seq(Revision) /\ Len(s) \in Nat /\ DOMAIN s = 1 .. Len(s)
      /\ \A i \in DOMAIN s : s[i].number \in Int
  <2>1. s \in Seq(Revision)
    BY DEF RevTypes
  <2> HIDE DEF s
  <2>2. Len(s) \in Nat /\ DOMAIN s = 1 .. Len(s) /\ \A i \in DOMAIN s : s[i] \in Revision
    BY <2>1
  <2>3. \A v \in Revision : v.number \in Int
    BY DEF Revision
  <2> QED
    BY <2>1, <2>2, <2>3
<1>2. Rev!ToSet(s) = {v \in heard : v.name = g}
  BY DEF Rev!NewestFirst
<1>3. Descends(s)
  BY <1>1 DEF Rev!NewestFirst, Descends
<1> HIDE DEF s
<1>4. IsFiniteSet(Rev!ToSet(s))
  <2>1. IsFiniteSet(DOMAIN s)
    BY <1>1, FS_Interval
  <2>2. s \in Surjection(DOMAIN s, Rev!ToSet(s))
    BY <1>1 DEF Surjection, Rev!ToSet
  <2> QED
    BY <2>1, <2>2, FS_Surjection
<1>5. ASSUME NEW v \in Rev!ToSet(s), NEW w \in Rev!ToSet(s), v.number = w.number
      PROVE  v = w
  <2>1. PICK i \in DOMAIN s, j \in DOMAIN s : v = s[i] /\ w = s[j]
    BY DEF Rev!ToSet
  <2>2. ~(i < j) /\ ~(j < i)
    BY <1>1, <1>3, <1>5, <2>1 DEF Descends
  <2> QED
    BY <1>1, <2>1, <2>2
<1> QED
  BY <1>1, <1>2, <1>3, <1>4, <1>5 DEF s

\* A list that is put in the place of the one of a name.
LEMMA ListReplaced ==
  ASSUME RevTypes, Rev!NewestFirst, NEW g \in Graph, NEW s \in Seq(Revision), Descends(s),
         heard' \in SUBSET Revision, lists' = [lists EXCEPT ![g] = s],
         Rev!ToSet(s) = {v \in heard' : v.name = g},
         \A h \in Graph \ {g} : {v \in heard' : v.name = h} = {v \in heard : v.name = h}
  PROVE  lists' \in [Graph -> Seq(Revision)] /\ Rev!NewestFirst'
<1>1. lists' \in [Graph -> Seq(Revision)]
  BY DEF RevTypes
<1>2. ASSUME NEW h \in Graph
      PROVE  /\ Rev!ToSet(lists'[h]) = {v \in heard' : v.name = h}
             /\ \A i, j \in 1 .. Len(lists'[h]) : i < j => lists'[h][i].number > lists'[h][j].number
  <2>1. CASE h = g
    <3>1. lists'[h] = s /\ DOMAIN s = 1 .. Len(s)
      BY <2>1 DEF RevTypes
    <3> QED
      BY <2>1, <3>1 DEF Descends
  <2>2. CASE h # g
    <3>1. lists'[h] = lists[h]
      BY <2>2 DEF RevTypes
    <3> QED
      BY <2>2, <3>1 DEF Rev!NewestFirst
  <2> QED
    BY <2>1, <2>2
<1>3. Rev!ToSet(lists)' = Rev!ToSet(lists')
  BY DEF Rev!ToSet
<1> QED
  BY <1>1, <1>2 DEF Rev!NewestFirst, Rev!ToSet

\* A revision takes the place of the one of its number.
LEMMA HearOfStep ==
  ASSUME RevInv, NEW v \in revs, Rev!HearOf(v)
  PROVE  RevInv'
<1>0. RevTypes /\ Compared /\ Rev!NewestFirst
  BY DEF RevInv
<1> DEFINE s == lists[v.name]
           W == Rev!Without(s, v.number)
           S == Rev!ToSet(W) \cup {v}
<1>1. /\ v \in Revision /\ v.name \in Graph /\ v.number \in Int
      /\ heard' = (heard \ {w \in heard : w.name = v.name /\ w.number = v.number}) \cup {v}
      /\ lists' = [lists EXCEPT ![v.name] = Rev!Sorted(S)]
      /\ UNCHANGED <<born, revs, diffs>>
  BY <1>0 DEF Rev!HearOf, Rev!AddToCache, Rev!Named, RevTypes, Revision
<1>2. /\ s \in Seq(Revision) /\ Descends(s) /\ Rev!ToSet(s) = {w \in heard : w.name = v.name}
      /\ IsFiniteSet(Rev!ToSet(s)) /\ \A w, x \in Rev!ToSet(s) : w.number = x.number => w = x
  BY <1>0, <1>1, ListOf
<1>3. Rev!ToSet(W) = {w \in Rev!ToSet(s) : w.number # v.number}
  BY <1>2, WithoutIs
<1> HIDE DEF W
<1>4. S = {w \in heard' : w.name = v.name}
  BY <1>1, <1>2, <1>3
<1>5. /\ IsFiniteSet(S) /\ S \subseteq Revision /\ \A w \in S : w.number \in Int
      /\ \A w, x \in S : w.number = x.number => w = x
  <2>1. IsFiniteSet(Rev!ToSet(W))
    <3>1. Rev!ToSet(W) \in SUBSET Rev!ToSet(s)
      BY <1>3
    <3> QED
      BY <1>2, <3>1, FS_Subset
  <2>2. IsFiniteSet(S)
    BY <2>1, FS_AddElement
  <2>3. S \subseteq Revision
    BY <1>0, <1>1, <1>2, <1>3 DEF RevTypes
  <2> QED
    BY <1>2, <1>3, <2>2, <2>3 DEF Revision
<1> HIDE DEF S
<1>6. Rev!Sorted(S) \in Seq(Revision) /\ Rev!ToSet(Rev!Sorted(S)) = S /\ Descends(Rev!Sorted(S))
  <2>1. Rev!Sorted(S) \in Seq(S) /\ Rev!ToSet(Rev!Sorted(S)) = S /\ Descends(Rev!Sorted(S))
    BY <1>5, SortedIs
  <2> QED
    BY <1>5, <2>1
<1>7. heard' \in SUBSET Revision
  BY <1>0, <1>1 DEF RevTypes
<1>8. \A h \in Graph \ {v.name} : {w \in heard' : w.name = h} = {w \in heard : w.name = h}
  BY <1>1
<1>9. lists' \in [Graph -> Seq(Revision)] /\ Rev!NewestFirst'
  <2> DEFINE t == Rev!Sorted(S)
  <2>1. t \in Seq(Revision) /\ Descends(t) /\ Rev!ToSet(t) = {w \in heard' : w.name = v.name}
        /\ lists' = [lists EXCEPT ![v.name] = t]
    BY <1>1, <1>4, <1>6
  <2> HIDE DEF t
  <2> QED
    BY <1>0, <1>1, <1>7, <1>8, <2>1, ListReplaced
<1>10. RevTypes'
  BY <1>0, <1>1, <1>7, <1>9 DEF RevTypes, Revision, Rev!HearOf
<1>11. Compared'
  <2> DEFINE x == [name |-> v.name, old |-> v.number - 1, new |-> v.number, read |-> <<>>]
  <2>1. v.number > 1 => x \in Comparison /\ x.old < x.new /\ Len(x.read) <= 2 /\ OfNumbers(x, x.read)
    <3>1. MaxRevision \in Nat
      BY ServicesAssumption
    <3>2. v.name \in Graph /\ v.number \in 1 .. MaxRevision
      BY <1>1 DEF Revision
    <3>3. v.number > 1 => v.number - 1 \in 1 .. MaxRevision /\ v.number - 1 < v.number
      BY <3>1, <3>2
    <3>4. <<>> \in Seq(Revision) /\ Len(<<>>) = 0
      OBVIOUS
    <3> QED
      BY <3>2, <3>3, <3>4 DEF Comparison, OfNumbers
  <2>2. \/ comparing' = comparing
        \/ v.number > 1 /\ comparing' = [comparing EXCEPT !["watcher"] = x]
    BY DEF Rev!HearOf
  <2> HIDE DEF x
  <2>3. \A c \in Rev!Caller : comparing'[c] = comparing[c] \/ (v.number > 1 /\ comparing'[c] = x)
    BY <1>0, <2>2 DEF RevTypes
  <2>4. \A c \in Rev!Caller : comparing'[c] # Rev!NotComparing =>
          /\ comparing'[c] \in Comparison /\ comparing'[c].old < comparing'[c].new
          /\ Len(comparing'[c].read) <= 2 /\ OfNumbers(comparing'[c], comparing'[c].read)
    BY <1>0, <2>1, <2>3 DEF Compared
  <2> QED
    BY <1>0, <1>1, <2>4 DEF Compared, Comparison, Revision, OfNumbers
<1> QED
  BY <1>9, <1>10, <1>11 DEF RevInv

LEMMA HearOfRemovalStep ==
  ASSUME RevInv, NEW v \in heard, Rev!HearOfRemoval(v)
  PROVE  RevInv'
<1>0. RevTypes /\ Compared /\ Rev!NewestFirst
  BY DEF RevInv
<1> DEFINE s == lists[v.name]
           t == Rev!Without(s, v.number)
<1>1. /\ v \in Revision /\ v.name \in Graph /\ heard' = heard \ {v}
      /\ lists' = [lists EXCEPT ![v.name] = t]
      /\ UNCHANGED <<born, revs, diffs, comparing>>
  BY <1>0 DEF Rev!HearOfRemoval, Rev!RemoveFromCache, RevTypes, Revision
<1>2. /\ s \in Seq(Revision) /\ Descends(s) /\ Rev!ToSet(s) = {w \in heard : w.name = v.name}
      /\ \A w, x \in Rev!ToSet(s) : w.number = x.number => w = x
  BY <1>0, <1>1, ListOf
<1>3. /\ t \in Seq(Revision) /\ Descends(t)
      /\ Rev!ToSet(t) = {w \in Rev!ToSet(s) : w.number # v.number}
  BY <1>2, WithoutIs
<1> HIDE DEF t
<1>4. Rev!ToSet(t) = {w \in heard' : w.name = v.name}
  BY <1>1, <1>2, <1>3
<1>5. heard' \in SUBSET Revision
  BY <1>0, <1>1 DEF RevTypes
<1>6. \A h \in Graph \ {v.name} : {w \in heard' : w.name = h} = {w \in heard : w.name = h}
  BY <1>1
<1>7. lists' \in [Graph -> Seq(Revision)] /\ Rev!NewestFirst'
  BY <1>0, <1>1, <1>3, <1>4, <1>5, <1>6, ListReplaced
<1>8. RevTypes' /\ Compared'
  BY <1>0, <1>1, <1>5, <1>7 DEF RevTypes, Compared, Revision, Comparison, OfNumbers
<1> QED
  BY <1>7, <1>8 DEF RevInv

\* A step leaves the lists, or all comparisons, or all differences but some.
LEMMA ListsKept == ASSUME Rev!NewestFirst, UNCHANGED <<heard, lists>> PROVE Rev!NewestFirst'
  BY DEF Rev!NewestFirst, Rev!ToSet

IsComparison(x) ==
  x \in Comparison /\ x.old < x.new /\ Len(x.read) <= 2 /\ OfNumbers(x, x.read)
IsDiff(d) == d.name \in Graph /\ d.old < d.new /\ Len(d.of) = 2 /\ OfNumbers(d, d.of)

LEMMA ComparedAre ==
  Compared <=> /\ \A c \in Rev!Caller : comparing[c] # Rev!NotComparing => IsComparison(comparing[c])
               /\ \A d \in diffs : IsDiff(d)
  BY DEF Compared, IsComparison, IsDiff

LEMMA ComparedKept ==
  ASSUME Compared,
         \A c \in Rev!Caller : comparing'[c] # Rev!NotComparing =>
           comparing'[c] = comparing[c] \/ IsComparison(comparing'[c]),
         \A d \in diffs' : d \in diffs \/ IsDiff(d)
  PROVE  Compared'
<1>1. /\ \A c \in Rev!Caller : comparing'[c] # Rev!NotComparing => IsComparison(comparing'[c])
      /\ \A d \in diffs' : IsDiff(d)
  BY ComparedAre
<1> QED
  BY <1>1 DEF Compared, IsComparison, IsDiff, Comparison, Revision, OfNumbers

LEMMA ComparisonStep ==
  ASSUME RevInv, NEW c \in Rev!Caller, Rev!GetRevision(c)
  PROVE  RevInv'
<1>0. RevTypes /\ Compared /\ Rev!NewestFirst
  BY DEF RevInv
<1> DEFINE x == comparing[c]
           n == IF x.read = <<>> THEN x.old ELSE x.new
<1>1. /\ x \in Comparison /\ x.old < x.new /\ Len(x.read) < 2 /\ OfNumbers(x, x.read)
      /\ UNCHANGED <<born, revs, heard, lists, diffs>>
  BY <1>0 DEF Rev!GetRevision, Compared
<1>2. CASE comparing' = [comparing EXCEPT ![c] = Rev!NotComparing]
  <2>1. \A d \in Rev!Caller : comparing'[d] = comparing[d] \/ comparing'[d] = Rev!NotComparing
    BY <1>0, <1>2 DEF RevTypes
  <2>2. \A d \in Rev!Caller : comparing'[d] # Rev!NotComparing => comparing'[d] = comparing[d]
    BY <2>1
  <2>3. Compared'
    BY <1>0, <1>1, <2>2, ComparedKept
  <2>4. RevTypes'
    BY <1>0, <1>1, <1>2 DEF RevTypes, Revision
  <2> QED
    BY <1>0, <1>1, <2>3, <2>4, ListsKept DEF RevInv
<1>3. ASSUME NEW i \in DOMAIN lists[x.name], lists[x.name][i].number = n,
             comparing' = [comparing EXCEPT ![c].read = Append(@, lists[x.name][i])]
      PROVE  RevInv'
  <2> DEFINE v == lists[x.name][i]
             y == [x EXCEPT !.read = Append(x.read, v)]
  <2>1. v \in Revision /\ v.name = x.name /\ v.number = n
    <3>1. x.name \in Graph
      BY <1>1 DEF Comparison
    <3>2. lists[x.name] \in Seq(Revision) /\ v \in Rev!ToSet(lists[x.name])
      BY <1>0, <1>3, <3>1 DEF RevTypes, Rev!ToSet
    <3>3. Rev!ToSet(lists[x.name]) = {w \in heard : w.name = x.name}
      BY <1>0, <3>1 DEF Rev!NewestFirst
    <3> QED
      BY <1>0, <1>3, <3>2, <3>3 DEF RevTypes
  <2>2. comparing' = [comparing EXCEPT ![c] = y]
    BY <1>3
  <2> HIDE DEF v
  <2>3. /\ x.read \in Seq(Revision) /\ Len(x.read) \in Nat
        /\ Append(x.read, v) \in Seq(Revision) /\ Len(Append(x.read, v)) = Len(x.read) + 1
        /\ Append(x.read, v)[Len(x.read) + 1] = v
        /\ \A j \in 1 .. Len(x.read) : Append(x.read, v)[j] = x.read[j]
    BY <1>1, <2>1 DEF Comparison
  <2>4. /\ y \in Comparison /\ y.name = x.name /\ y.old = x.old /\ y.new = x.new
        /\ y.read = Append(x.read, v)
    BY <1>1, <2>3 DEF Comparison
  <2> HIDE DEF y
  <2>5. OfNumbers(y, y.read) /\ Len(y.read) <= 2
    <3>0. Len(x.read) = 0 \/ Len(x.read) = 1
      <4>1. Len(x.read) \in Nat /\ Len(x.read) < 2
        BY <1>1, <2>3
      <4>2. \A m \in Nat : m < 2 => m = 0 \/ m = 1
        OBVIOUS
      <4> QED
        BY <4>1, <4>2
    <3>1. CASE Len(x.read) = 0
      <4>1. x.read = <<>>
        BY <2>3, <3>1
      <4> QED
        BY <2>1, <2>3, <2>4, <3>1, <4>1 DEF OfNumbers
    <3>2. CASE Len(x.read) = 1
      <4>1. x.read # <<>>
        BY <2>3, <3>2
      <4> QED
        BY <1>1, <2>1, <2>3, <2>4, <3>2, <4>1 DEF OfNumbers
    <3> QED
      BY <3>0, <3>1, <3>2
  <2>6. \A d \in Rev!Caller : comparing'[d] = comparing[d] \/ comparing'[d] = y
    BY <1>0, <2>2 DEF RevTypes
  <2>7. IsComparison(y)
    BY <1>1, <2>4, <2>5 DEF IsComparison
  <2>8. Compared'
    BY <1>0, <1>1, <2>6, <2>7, ComparedKept
  <2>9. RevTypes'
    BY <1>0, <1>1, <2>2 DEF RevTypes, Revision
  <2> QED
    BY <1>0, <1>1, <2>8, <2>9, ListsKept DEF RevInv
<1>4. \/ comparing' = [comparing EXCEPT ![c] = Rev!NotComparing]
      \/ \E i \in DOMAIN lists[x.name] :
           /\ lists[x.name][i].number = n
           /\ comparing' = [comparing EXCEPT ![c].read = Append(@, lists[x.name][i])]
  BY DEF Rev!GetRevision
<1> QED
  BY <1>2, <1>3, <1>4

LEMMA RevInvStep == RevInv /\ [Rev!Next]_(Rev!vars) => RevInv'
<1> SUFFICES ASSUME RevInv, [Rev!Next]_(Rev!vars) PROVE RevInv'
  OBVIOUS
<1>0. RevTypes /\ Compared /\ Rev!NewestFirst
  BY DEF RevInv
<1>1. ASSUME NEW g \in Graph, Rev!IssueRevision(g) PROVE RevInv'
  <2>1. PICK n \in 1 .. MaxRevision :
          /\ revs' = revs \cup {[name |-> g, number |-> n, birth |-> born[g]]}
          /\ UNCHANGED <<born, heard, lists, diffs, comparing>>
    BY <1>1 DEF Rev!IssueRevision
  <2>2. [name |-> g, number |-> n, birth |-> born[g]] \in Revision
    BY <1>0 DEF RevTypes, Revision
  <2>3. revs' \in SUBSET Revision
    BY <1>0, <2>1, <2>2 DEF RevTypes
  <2>4. RevTypes'
    BY <1>0, <2>1, <2>3 DEF RevTypes, Revision
  <2> QED
    BY <1>0, <2>1, <2>4, ComparedKept, ListsKept DEF RevInv
<1>2. ASSUME NEW g \in Graph, Rev!Recreate(g) PROVE RevInv'
  <2>1. born' \in [Graph -> 1 .. MaxBirths]
    <3>1. MaxBirths \in Nat /\ born[g] \in 1 .. MaxBirths /\ born[g] < MaxBirths
      BY <1>0, <1>2, ServicesAssumption DEF RevTypes, Rev!Recreate
    <3>2. born[g] + 1 \in 1 .. MaxBirths
      BY <3>1
    <3> QED
      BY <1>0, <1>2, <3>2 DEF RevTypes, Rev!Recreate
  <2>2. revs' \in SUBSET Revision /\ UNCHANGED <<heard, lists, diffs, comparing>>
    BY <1>0, <1>2 DEF RevTypes, Rev!Recreate
  <2>3. RevTypes'
    BY <1>0, <2>1, <2>2 DEF RevTypes, Revision
  <2> QED
    BY <1>0, <2>2, <2>3, ComparedKept, ListsKept DEF RevInv
<1>3. ASSUME NEW g \in Graph, NEW a \in 1 .. MaxRevision, NEW b \in 1 .. MaxRevision,
             Rev!GetDiff(g, a, b)
      PROVE  RevInv'
  <2> DEFINE x == [name |-> g, old |-> a, new |-> b, read |-> <<>>]
  <2>1. IsComparison(x)
    BY <1>3 DEF Rev!GetDiff, Comparison, OfNumbers, IsComparison
  <2>2. comparing' = [comparing EXCEPT !["request"] = x] /\ UNCHANGED <<born, revs, heard, lists, diffs>>
    BY <1>3 DEF Rev!GetDiff
  <2> HIDE DEF x
  <2>3. \A d \in Rev!Caller : comparing'[d] = comparing[d] \/ comparing'[d] = x
    BY <1>0, <2>2 DEF RevTypes
  <2>4. Compared'
    BY <1>0, <2>1, <2>2, <2>3, ComparedKept
  <2>5. RevTypes'
    BY <1>0, <2>2 DEF RevTypes, Revision
  <2> QED
    BY <1>0, <2>2, <2>4, <2>5, ListsKept DEF RevInv
<1>4. ASSUME NEW c \in Rev!Caller, Rev!KeepDiff(c) PROVE RevInv'
  <2> DEFINE x == comparing[c]
             e == [name |-> x.name, old |-> x.old, new |-> x.new, of |-> x.read]
  <2>1. /\ x \in Comparison /\ x.old < x.new /\ Len(x.read) = 2 /\ OfNumbers(x, x.read)
        /\ UNCHANGED <<born, revs, heard, lists>>
    BY <1>0, <1>4 DEF Rev!KeepDiff, Compared
  <2>2. diffs' \subseteq diffs \cup {e} /\ comparing' = [comparing EXCEPT ![c] = Rev!NotComparing]
    BY <1>4 DEF Rev!KeepDiff, Rev!DiffKey
  <2>3. IsDiff(e)
    BY <2>1 DEF Comparison, OfNumbers, IsDiff
  <2> HIDE DEF e
  <2>4. \A d \in Rev!Caller : comparing'[d] = comparing[d] \/ comparing'[d] = Rev!NotComparing
    BY <1>0, <2>2 DEF RevTypes
  <2>5. Compared'
    BY <1>0, <2>2, <2>3, <2>4, ComparedKept
  <2>6. RevTypes'
    BY <1>0, <2>1, <2>2 DEF RevTypes, Revision
  <2> QED
    BY <1>0, <2>1, <2>5, <2>6, ListsKept DEF RevInv
<1>5. ASSUME NEW d \in diffs, Rev!Evict(d) PROVE RevInv'
  <2>1. diffs' \subseteq diffs /\ UNCHANGED <<born, revs, heard, lists, comparing>>
    BY <1>5 DEF Rev!Evict
  <2>2. RevTypes'
    BY <1>0, <2>1 DEF RevTypes, Revision
  <2> QED
    BY <1>0, <2>1, <2>2, ComparedKept, ListsKept DEF RevInv
<1>6. CASE UNCHANGED Rev!vars
  <2>1. UNCHANGED <<born, revs, heard, lists, diffs, comparing>>
    BY <1>6 DEF Rev!vars
  <2>2. RevTypes'
    BY <1>0, <2>1 DEF RevTypes, Revision
  <2> QED
    BY <1>0, <2>1, <2>2, ComparedKept, ListsKept DEF RevInv
<1> QED
  BY <1>1, <1>2, <1>3, <1>4, <1>5, <1>6, HearOfStep, HearOfRemovalStep, ComparisonStep DEF Rev!Next

LEMMA RevisionsAreExplained == RevInv => Rev!NewestFirst /\ Rev!DiffsAreOfTheirKey
  BY DEF RevInv, Compared, OfNumbers, Rev!DiffsAreOfTheirKey

-----------------------------------------------------------------------------
(* FormSchemas *)

(* The form that is open is the schema enriched from a graph of the RGD.    *)
FormIsEnriched ==
  form # None =>
    /\ form.byKro \in BOOLEAN
    /\ LET e == Enrich(GraphOf(rgd, form.byKro), crdOf)
       IN form.sections = e.sections /\ form.pickers = e.pickers /\ form.failed = e.failed

FormsInv == TypeOK /\ FormIsEnriched

LEMMA FormEnriched == FormsInv /\ [Next]_vars => FormIsEnriched'
<1> SUFFICES ASSUME FormsInv, [Next]_vars PROVE FormIsEnriched'
  OBVIOUS
<1>1. CASE Open
  <2> DEFINE e == Enrich(GraphOf(rgd, built), crdOf)
  <2> HIDE DEF e
  <2>1. /\ form' = [sections |-> e.sections, pickers |-> e.pickers, marked |-> e.marked,
                    failed |-> e.failed, byKro |-> built]
        /\ UNCHANGED <<rgd, crdOf, built>>
    BY <1>1 DEF Open, e
  <2>2. built \in BOOLEAN
    BY DEF FormsInv, TypeOK
  <2>3. e = Enrich(GraphOf(rgd', form'.byKro), crdOf')
    BY <2>1 DEF e
  <2> QED
    BY <2>1, <2>2, <2>3 DEF FormIsEnriched
<1>2. CASE UNCHANGED <<rgd, crdOf, form>>
  BY <1>2 DEF FormsInv, FormIsEnriched
<1> QED
  BY <1>1, <1>2 DEF Next, Rebuild, Fill, vars

\* The resources of a graph are those that were written.
LEMMA ResourcesAre ==
  ASSUME NEW r \in Manifest, NEW byKro \in BOOLEAN, NEW g, g = GraphOf(r, byKro)
  PROVE  /\ DOMAIN g.resources = DOMAIN r
         /\ \A i \in DOMAIN r :
              /\ g.resources[i].fields = r[i].fields /\ g.resources[i].cond = r[i].cond
              /\ g.resources[i].kind = r[i].kind /\ g.resources[i].name = r[i].name
              /\ g.resources[i].ns = r[i].ns
              /\ g.resources[i].isTemplate = (r[i].form = "template")
              /\ g.resources[i].joined = (~byKro /\ Len(r[i].cond) > 1)
<1>2. CASE byKro
  <2>1. g.resources = [i \in DOMAIN r |-> Adapted(r, i)]
    BY <1>2 DEF GraphOf, AdaptedGraph
  <2>2. ASSUME NEW i \in DOMAIN r
        PROVE  /\ Adapted(r, i).fields = Parsed(r, i).fields /\ Adapted(r, i).cond = Parsed(r, i).cond
               /\ Adapted(r, i).kind = Parsed(r, i).kind /\ Adapted(r, i).name = Parsed(r, i).name
               /\ Adapted(r, i).ns = Parsed(r, i).ns
               /\ Adapted(r, i).isTemplate = Parsed(r, i).isTemplate
               /\ Adapted(r, i).joined = FALSE
    <3> DEFINE P == Parsed(r, i)
               deps == KroDependsOn(r, i)
    <3>1. DOMAIN P = {"kind", "isTemplate", "fields", "cond", "joined", "each", "name", "ns",
                      "dependsOn"}
      BY DEF Parsed
    <3>2. Adapted(r, i) = [P EXCEPT !.joined = FALSE, !.dependsOn = deps]
      BY DEF Adapted
    <3> HIDE DEF P, deps
    <3>3. /\ Adapted(r, i).fields = P.fields /\ Adapted(r, i).cond = P.cond
          /\ Adapted(r, i).kind = P.kind /\ Adapted(r, i).name = P.name
          /\ Adapted(r, i).ns = P.ns /\ Adapted(r, i).isTemplate = P.isTemplate
          /\ Adapted(r, i).joined = FALSE
      BY <3>1, <3>2
    <3> QED
      BY <3>3 DEF P
  <2>3. ASSUME NEW i \in DOMAIN r
        PROVE  /\ Parsed(r, i).fields = r[i].fields /\ Parsed(r, i).cond = r[i].cond
               /\ Parsed(r, i).kind = r[i].kind /\ Parsed(r, i).name = r[i].name
               /\ Parsed(r, i).ns = r[i].ns
               /\ Parsed(r, i).isTemplate = (r[i].form = "template")
    BY DEF Parsed, SchemaFields
  <2>4. DOMAIN g.resources = DOMAIN r /\ \A i \in DOMAIN r : g.resources[i] = Adapted(r, i)
    BY <2>1
  <2>5. \A i \in DOMAIN r : (~byKro /\ Len(r[i].cond) > 1) = FALSE
    BY <1>2
  <2>6. \A i \in DOMAIN r : g.resources[i].joined = (~byKro /\ Len(r[i].cond) > 1)
    BY <2>2, <2>4, <2>5
  <2>7. \A i \in DOMAIN r : g.resources[i].isTemplate = (r[i].form = "template")
    BY <2>2, <2>3, <2>4
  <2> QED
    BY <2>2, <2>3, <2>4, <2>6, <2>7
<1>3. CASE ~byKro
  <2>1. g.resources = [i \in DOMAIN r |-> Parsed(r, i)]
    BY <1>3 DEF GraphOf, ParsedGraph
  <2> QED
    BY <1>3, <2>1 DEF Parsed, SchemaFields
<1> QED
  BY <1>2, <1>3

\* Of some positions in a sequence one is the first.
LEMMA FirstIs ==
  ASSUME NEW n \in Nat, NEW S \in SUBSET (1 .. n), S # {}
  PROVE  \E i \in S : \A j \in S : i <= j
<1> DEFINE f == [i \in S |-> -i]
<1>1. IsFiniteSet(S)
  <2>1. IsFiniteSet(1 .. n)
    BY FS_Interval
  <2> QED
    BY <2>1, FS_Subset
<1>2. f \in [S -> Int] /\ \A a, b \in S : f[a] = f[b] => a = b
  OBVIOUS
<1>3. Cardinality(S) \in Nat /\ Cardinality(S) # 0
  BY <1>1, FS_CardinalityType, FS_EmptySet
<1>4. 0 \in 0 .. Cardinality(S) - 1
  BY <1>3
<1> HIDE DEF f
<1>5. PICK a \in S : Rank(S, f, a) = 0
  BY <1>1, <1>2, <1>4, Ranks
<1>6. {b \in S : f[b] > f[a]} = {}
  <2>1. IsFiniteSet({b \in S : f[b] > f[a]})
    BY <1>1, FS_Subset
  <2> QED
    BY <1>5, <2>1, FS_EmptySet DEF Rank
<1>7. \A j \in S : f[j] = -j /\ j \in Nat
  BY DEF f
<1>8. ASSUME NEW j \in S PROVE a <= j
  <2>1. ~(f[j] > f[a])
    BY <1>6
  <2> QED
    BY <1>7, <2>1
<1> QED
  BY <1>8

\* A section is of the fields of conditions, and no resource that is always there uses what it affects.
LEMMA SectionsSpare ==
  ASSUME NEW g, NEW i \in Always(g), NEW p \in g.resources[i].fields, NEW s \in Sections(g)
  PROVE  p[1] \notin s.affected
<1>1. p[1] \in {q[1] : q \in NonConditionalFields(g)}
  BY DEF NonConditionalFields
<1>2. \A j : p[1] \notin Affected(g, j)
  BY <1>1 DEF Affected
<1>3. PICK f : s = Section(g, f)
  BY DEF Sections
<1>4. \E is : s.affected = UNION {Affected(g, j) : j \in is}
  BY <1>3 DEF Section
<1> QED
  BY <1>2, <1>4

LEMMA FormSections ==
  ASSUME FormsInv, form # None
  PROVE  /\ form.byKro \in BOOLEAN
         /\ form.sections \in {{}, Sections(GraphOf(rgd, form.byKro))}
<1> DEFINE g == GraphOf(rgd, form.byKro)
<1>1. form.byKro \in BOOLEAN /\ form.sections = Enrich(g, crdOf).sections
  BY DEF FormsInv, FormIsEnriched
<1> HIDE DEF g
<1>2. Enrich(g, crdOf).sections \in {{}, Sections(g)}
  BY DEF Enrich
<1> QED
  BY <1>1, <1>2 DEF g

LEMMA NeededShown == FormsInv => NeededIsShown
<1> SUFFICES ASSUME FormsInv, form # None, NEW i \in DOMAIN rgd, rgd[i].cond = <<>>,
                    NEW p \in rgd[i].fields
             PROVE  Visible(p[1], form.sections, values)
  BY DEF NeededIsShown, UsedIsShown
<1> DEFINE g == GraphOf(rgd, form.byKro)
<1>1. rgd \in Manifest /\ form.byKro \in BOOLEAN /\ form.sections \in {{}, Sections(g)}
  BY FormSections DEF FormsInv, TypeOK
<1> HIDE DEF g
<1>2. i \in Always(g) /\ p \in g.resources[i].fields
  BY <1>1, ResourcesAre DEF g, Always
<1>3. \A s \in form.sections : p[1] \notin s.affected
  BY <1>1, <1>2, SectionsSpare
<1> QED
  BY <1>3 DEF Visible

(* A field that a plain condition names has the section of that condition:  *)
(* all that share the field have the same.                                  *)
LEMMA PlainSection ==
  ASSUME NEW r \in Manifest, NEW byKro \in BOOLEAN, NEW g, g = GraphOf(r, byKro),
         NEW i \in DOMAIN r, NEW t \in Terms(r[i].cond),
         \A j \in DOMAIN r : r[j].cond # r[i].cond =>
           CondFields(r[j].cond) \cap CondFields(r[i].cond) = {}
  PROVE  /\ Section(g, t.field) \in Sections(g)
         /\ Section(g, t.field).field = t.field
         /\ Section(g, t.field).rules =
              IF ClientEvaluable(g.resources[i]) THEN Terms(r[i].cond) ELSE None
         /\ Section(g, t.field).expected = ExpectedValue(g.resources[i])
         /\ Affected(g, i) \subseteq Section(g, t.field).affected
<1> DEFINE is == {j \in Conditional(g) : t.field \in CondFields(g.resources[j].cond)}
           first == CHOOSE j \in is : \A k \in is : j <= k
<1>1. /\ DOMAIN g.resources = DOMAIN r
      /\ \A j \in DOMAIN r : /\ g.resources[j].cond = r[j].cond
                             /\ g.resources[j].joined = (~byKro /\ Len(r[j].cond) > 1)
  BY ResourcesAre
<1>2. t.field \in CondFields(r[i].cond)
  BY DEF CondFields
<1>3. r[i].cond # <<>>
  BY DEF Terms, TermsOf
<1>4. i \in is
  BY <1>1, <1>2, <1>3 DEF Conditional, Always
<1>5. r \in Seq(Resource)
  BY FormsAssumption
<1>6. Len(r) \in Nat /\ is \in SUBSET (1 .. Len(r))
  BY <1>1, <1>5 DEF Conditional
<1> HIDE DEF is
<1>7. \E j \in is : \A k \in is : j <= k
  BY <1>4, <1>6, FirstIs
<1>8. first \in is
  BY <1>7
<1> HIDE DEF first
<1>9. first \in DOMAIN r /\ t.field \in CondFields(r[first].cond)
  BY <1>1, <1>8 DEF is, Conditional
<1>10. r[first].cond = r[i].cond
  BY <1>2, <1>9
<1>11. /\ g.resources[first].cond = g.resources[i].cond
       /\ g.resources[first].joined = g.resources[i].joined
  BY <1>1, <1>9, <1>10
<1>12. /\ ClientEvaluable(g.resources[first]) = ClientEvaluable(g.resources[i])
       /\ ExpectedValue(g.resources[first]) = ExpectedValue(g.resources[i])
       /\ g.resources[first].cond = r[i].cond
  BY <1>1, <1>11 DEF ClientEvaluable, ExpectedValue
<1>13. Section(g, t.field) =
         [field |-> t.field,
          rules |-> IF ClientEvaluable(g.resources[first]) THEN Terms(g.resources[first].cond) ELSE None,
          expected |-> ExpectedValue(g.resources[first]),
          affected |-> UNION {Affected(g, j) : j \in is}]
  BY DEF Section, is, first
<1>14. t.field \in UNION {CondFields(g.resources[j].cond) : j \in Conditional(g)}
  BY <1>4 DEF is
<1> QED
  BY <1>4, <1>12, <1>13, <1>14 DEF Sections

LEMMA IncludedShown == FormsInv => IncludedIsShown
<1> SUFFICES ASSUME FormsInv, form # None, NEW i \in DOMAIN rgd, Plain(i), Included(rgd[i], values),
                    NEW p \in rgd[i].fields
             PROVE  Visible(p[1], form.sections, values)
  BY DEF IncludedIsShown, UsedIsShown
<1> DEFINE g == GraphOf(rgd, form.byKro)
           cond == rgd[i].cond
<1>1. rgd \in Manifest /\ form.byKro \in BOOLEAN /\ form.sections \in {{}, Sections(g)}
  BY FormSections DEF FormsInv, TypeOK
<1>2. CASE cond = <<>>
  BY <1>2, NeededShown DEF NeededIsShown, UsedIsShown
<1>3. CASE form.sections = {}
  BY <1>3 DEF Visible
<1>4. CASE p[1] \in {q[1] : q \in NonConditionalFields(g)}
  <2>1. \E j \in Always(g) : \E q \in g.resources[j].fields : p[1] = q[1]
    BY <1>4 DEF NonConditionalFields
  <2>2. \A s \in Sections(g) : p[1] \notin s.affected
    BY <2>1, SectionsSpare
  <2> QED
    BY <1>1, <2>2 DEF Visible
<1>5. CASE /\ cond # <<>> /\ form.sections = Sections(g)
           /\ p[1] \notin {q[1] : q \in NonConditionalFields(g)}
  <2> HIDE DEF g
  <2>1. /\ g.resources[i].fields = rgd[i].fields /\ g.resources[i].cond = cond
        /\ \A k \in DOMAIN cond : cond[k].op = "all"
    BY <1>1, ResourcesAre DEF g, Plain
  <2> DEFINE Comparisons == [field : STRING, value : BOOLEAN]
             Conditions == [op : {"all", "any", "none"}, terms : Seq(Comparisons)]
  <2> HIDE DEF Comparisons
  <2>2. /\ \A k \in DOMAIN cond : cond[k].terms \in Seq(Comparisons)
        /\ cond # <<>> => 1 \in DOMAIN cond
        /\ None # Terms(cond) /\ None \notin BOOLEAN
    <3>1. rgd \in Seq(Resource)
      BY <1>1, FormsAssumption
    <3>2. rgd[i] \in Resource
      BY <3>1
    <3>3. cond \in Seq(Conditions)
      BY <3>2 DEF Resource, Comparisons
    <3> HIDE DEF Conditions
    <3>4. \A k \in DOMAIN cond : cond[k] \in Conditions
      BY <3>3
    <3>5. \A k \in DOMAIN cond : cond[k].terms \in Seq(Comparisons)
      BY <3>4 DEF Conditions
    <3>6. cond # <<>> => 1 \in DOMAIN cond
      BY <3>3
    <3> QED
      BY <1>1, <3>5, <3>6, FormsAssumption
  <2>3. \A t \in Terms(cond) : t.value \in BOOLEAN /\ (t.field \in values) = t.value
    <3> SUFFICES ASSUME NEW t \in Terms(cond)
                 PROVE  t.value \in BOOLEAN /\ (t.field \in values) = t.value
      OBVIOUS
    <3>1. PICK k \in DOMAIN cond : \E m \in DOMAIN cond[k].terms : t = cond[k].terms[m]
      BY DEF Terms, TermsOf
    <3>2. Holds(cond[k], values) /\ cond[k].op = "all"
      BY <2>1, <3>1 DEF Included
    <3>3. t.value \in BOOLEAN
      <4>1. cond[k].terms \in Seq(Comparisons)
        BY <2>2, <3>1
      <4>2. t \in Comparisons
        BY <3>1, <4>1
      <4> QED
        BY <4>2 DEF Comparisons
    <3> QED
      BY <3>1, <3>2, <3>3 DEF Holds
  <2>4. Terms(cond) # {}
    <3>1. 1 \in DOMAIN cond /\ cond[1].terms # <<>>
      BY <1>5, <2>2 DEF Plain
    <3>2. cond[1].terms \in Seq(Comparisons)
      BY <2>2, <3>1
    <3>3. 1 \in DOMAIN cond[1].terms
      BY <3>1, <3>2
    <3>4. cond[1].terms[1] \in Terms(cond)
      <4> DEFINE c == cond[1]
      <4>1. c \in {cond[k] : k \in DOMAIN cond} /\ c.terms[1] \in {c.terms[k] : k \in DOMAIN c.terms}
        BY <3>1, <3>3
      <4> HIDE DEF c
      <4>2. c.terms[1] \in Terms(cond)
        BY <4>1 DEF Terms, TermsOf
      <4> QED
        BY <4>2 DEF c
    <3> QED
      BY <3>4
  <2>5. {c \in {cond[k] : k \in DOMAIN cond} : c.op # "none"} = {cond[k] : k \in DOMAIN cond}
    BY <2>1
  <2>6. ExpectedValue(g.resources[i]) =
          IF \E t \in Terms(cond) : t.value THEN TRUE
          ELSE IF \E t \in Terms(cond) : ~t.value THEN FALSE ELSE None
    BY <2>1, <2>5 DEF ExpectedValue, Terms
  <2>7. PICK t \in Terms(cond) : t.value = ExpectedValue(g.resources[i])
    BY <2>3, <2>4, <2>6
  <2> DEFINE s == Section(g, t.field)
  <2>8. /\ s \in Sections(g) /\ s.field = t.field /\ s.expected = t.value
        /\ s.rules = (IF ClientEvaluable(g.resources[i]) THEN Terms(cond) ELSE None)
        /\ Affected(g, i) \subseteq s.affected
    BY <1>1, <2>7, PlainSection DEF g, Plain
  <2> HIDE DEF s
  <2>9. p[1] \in s.affected
    BY <1>5, <2>1, <2>8 DEF Affected
  <2>10. Met(s, values)
    <3>1. CASE ClientEvaluable(g.resources[i])
      BY <2>2, <2>3, <2>8, <3>1 DEF Met
    <3>2. CASE ~ClientEvaluable(g.resources[i])
      <4>1. s.expected # None
        BY <2>2, <2>3, <2>8
      <4> QED
        BY <2>3, <2>8, <3>2, <4>1 DEF Met
    <3> QED
      BY <3>1, <3>2
  <2> QED
    BY <1>5, <2>8, <2>9, <2>10 DEF Visible
<1> QED
  BY <1>1, <1>2, <1>3, <1>4, <1>5

LEMMA ProvidedPicked == FormsInv => ProvidedHasPicker
<1> SUFFICES ASSUME FormsInv, form # None, ~form.failed,
                    NEW s \in GraphOf(rgd, form.byKro).secrets,
                    s.type = "provided", rgd[s.at].ns # <<>>
             PROVE  [path |-> <<"externalRef", s.id>>, kind |-> "Secret"] \in form.pickers
  BY DEF ProvidedHasPicker
<1> DEFINE g == GraphOf(rgd, form.byKro)
           i == s.at
<1>1. /\ rgd \in Manifest /\ form.byKro \in BOOLEAN
      /\ form.pickers = Enrich(g, crdOf).pickers /\ ~Enrich(g, crdOf).failed
  BY DEF FormsInv, TypeOK, FormIsEnriched
<1>2. /\ i \in DOMAIN rgd /\ rgd[i].form = "externalRef" /\ rgd[i].kind = "Secret"
      /\ s.type = SecretType(rgd[i], s.id)
  <2>1. CASE form.byKro
    BY <2>1 DEF GraphOf, AdaptedGraph, GraphSecrets
  <2>2. CASE ~form.byKro
    BY <2>2 DEF GraphOf, ParsedGraph, ParsedSecrets
  <2> QED
    BY <1>1, <2>1, <2>2
<1>3. /\ rgd[i].name = <<"field", "externalRef", s.id, "name">>
      /\ rgd[i].ns = <<"field", "externalRef", s.id, "namespace">>
  <2>1. Passthrough(rgd[i], s.id)
    BY <1>2 DEF SecretType
  <2> QED
    BY <2>1 DEF Passthrough
<1>4. \A leaf : LET e == <<"field", "externalRef", s.id, leaf>>
                IN Len(e) > 2 /\ e[1] = "field" /\ Parent(e) = <<"externalRef", s.id>>
  <2> SUFFICES ASSUME NEW leaf, NEW e, e = <<"field", "externalRef", s.id, leaf>>
               PROVE  Len(e) > 2 /\ e[1] = "field" /\ Parent(e) = <<"externalRef", s.id>>
    OBVIOUS
  <2>1. Len(e) = 4 /\ e[1] = "field" /\ e[2] = "externalRef" /\ e[3] = s.id
    OBVIOUS
  <2>2. Parent(e) = SubSeq(e, 2, 3)
    BY <2>1 DEF Parent
  <2>3. SubSeq(e, 2, 3) = <<e[2], e[3]>>
    <3>1. SubSeq(e, 2, 3) \in Seq({e[2], e[3]}) /\ Len(SubSeq(e, 2, 3)) = 2
      BY <2>1
    <3>2. SubSeq(e, 2, 3)[1] = e[2] /\ SubSeq(e, 2, 3)[2] = e[3]
      BY <2>1
    <3>3. SubSeq(e, 2, 3) = [k \in 1 .. 2 |-> IF k = 1 THEN e[2] ELSE e[3]]
      BY <3>1, <3>2
    <3>4. <<e[2], e[3]>> = [k \in 1 .. 2 |-> IF k = 1 THEN e[2] ELSE e[3]]
      OBVIOUS
    <3> QED
      BY <3>3, <3>4
  <2> QED
    BY <2>1, <2>2, <2>3
<1> HIDE DEF g
<1>5. /\ i \in DOMAIN g.resources /\ ~g.resources[i].isTemplate /\ g.resources[i].kind = "Secret"
      /\ g.resources[i].name = rgd[i].name /\ g.resources[i].ns = rgd[i].ns
  <2>1. /\ i \in DOMAIN g.resources /\ g.resources[i].isTemplate = (rgd[i].form = "template")
        /\ g.resources[i].kind = rgd[i].kind
        /\ g.resources[i].name = rgd[i].name /\ g.resources[i].ns = rgd[i].ns
    BY <1>1, <1>2, ResourcesAre DEF g
  <2> QED
    BY <1>2, <2>1
<1>6. [path |-> <<"externalRef", s.id>>, kind |-> "Secret"] \in Pickers(g)
  BY <1>3, <1>4, <1>5 DEF Pickers
<1>7. ~Enrich(g, crdOf).failed => Pickers(g) \subseteq Enrich(g, crdOf).pickers
  BY DEF Enrich
<1> QED
  BY <1>1, <1>6, <1>7

LEMMA EdgesFound == FormsInv => EdgesAgree
<1> SUFFICES ASSUME FormsInv, Accepted(rgd), NEW i \in DOMAIN rgd, NEW j \in DOMAIN rgd, i # j
             PROVE  /\ rgd[j].id \in rgd[i].roots => j \in KroDependsOn(rgd, i) \cap DependsOn(rgd, i)
                    /\ j \in DependsOn(rgd, i) /\ rgd[j].id \notin rgd[i].texts
                         => j \in KroDependsOn(rgd, i)
  BY DEF EdgesAgree, GraphOf, AdaptedGraph, ParsedGraph, Adapted, Parsed
<1>1. /\ \A k \in DOMAIN rgd : InternalID(rgd[k]) = rgd[k].id
      /\ \A k, l \in DOMAIN rgd : rgd[k].id = rgd[l].id => k = l
  BY DEF Accepted, InternalID
<1>2. DOMAIN rgd \subseteq Nat
  <2>1. rgd \in Seq(Resource)
    BY FormsAssumption DEF FormsInv, TypeOK
  <2> QED
    BY <2>1
<1>3. \A k \in DOMAIN rgd : Named(rgd, rgd[k].id) = {k}
  BY <1>1, <1>2 DEF Named
<1>4. \A k, id : k \in Named(rgd, id) => k \in DOMAIN rgd /\ rgd[k].id = id
  BY <1>1 DEF Named
<1>5. ASSUME rgd[j].id \in rgd[i].roots
      PROVE  j \in KroDependsOn(rgd, i) \cap DependsOn(rgd, i)
  BY <1>1, <1>3, <1>5 DEF KroDependsOn, DependsOn, IsResourceRef
<1>6. ASSUME j \in DependsOn(rgd, i), rgd[j].id \notin rgd[i].texts
      PROVE  j \in KroDependsOn(rgd, i)
  BY <1>4, <1>6 DEF KroDependsOn, DependsOn, IsResourceRef
<1> QED
  BY <1>5, <1>6

LEMMA SecretsFound == FormsInv => SecretsAgree
<1> SUFFICES ASSUME FormsInv, Accepted(rgd)
             PROVE  {s \in ParsedSecrets(rgd) : rgd[s.at].name # <<>>} = GraphSecrets(rgd)
  BY DEF SecretsAgree, GraphOf, AdaptedGraph, ParsedGraph
<1>1. \A i \in DOMAIN rgd : InternalID(rgd[i]) = rgd[i].id
  BY DEF Accepted, InternalID
<1> QED
  BY <1>1 DEF ParsedSecrets, GraphSecrets

-----------------------------------------------------------------------------
(* What informers feed holds what they delivered, or a reason is known: the *)
(* entries that RGDCache.Set and Delete keep with their indexes, those of   *)
(* handleInstanceAdd, handleInstanceUpdate and handleInstanceDelete, and    *)
(* the revisions of addToCache and removeFromCache with the differences     *)
(* that GetDiff keeps.                                                      *)
THEOREM CachesStayExplained == AllSpec => []CachesAreExplained
<1>1. AllNext => [Cat!Next]_(Cat!vars) /\ [Ins!Next]_(Ins!vars) /\ [Rev!Next]_(Rev!vars)
  BY DEF AllNext, catalogVars, instancesVars, revisionsVars, Cat!vars, Ins!vars, Rev!vars
<1>2. UNCHANGED allVars => [Cat!Next]_(Cat!vars) /\ [Ins!Next]_(Ins!vars) /\ [Rev!Next]_(Rev!vars)
  BY DEF allVars, catalogVars, instancesVars, revisionsVars, Cat!vars, Ins!vars, Rev!vars
<1>3. CatInv /\ InsInv /\ RevInv => CachesAreExplained
  BY CatalogIsExplained, InstancesAreExplained, RevisionsAreExplained DEF CachesAreExplained
<1> QED
  BY CatInvInit, CatInvStep, InsInvInit, InsInvStep, RevInvInit, RevInvStep, <1>1, <1>2, <1>3, PTL
     DEF AllSpec

-----------------------------------------------------------------------------
(* Types: what the invariants of the components leave open is kept by their *)
(* steps.                                                                   *)

LEMMA FormTypesStep == TypeOK /\ [Next]_vars => TypeOK'
<1> SUFFICES ASSUME TypeOK, [Next]_vars PROVE TypeOK'
  OBVIOUS
<1>1. CASE Rebuild
  <2>1. built' \in BOOLEAN
    BY <1>1 DEF Rebuild, TypeOK
  <2> QED
    BY <1>1, <2>1 DEF Rebuild, TypeOK
<1>2. CASE Open
  <2> DEFINE g == GraphOf(rgd, built)
             e == Enrich(g, crdOf)
  <2>1. e.failed \in BOOLEAN /\ e.marked \subseteq crdOf
    <3> HIDE DEF g
    <3> QED
      BY DEF Enrich, Marked
  <2> HIDE DEF e
  <2>2. /\ form' = [sections |-> e.sections, pickers |-> e.pickers, marked |-> e.marked,
                    failed |-> e.failed, byKro |-> built]
        /\ UNCHANGED <<rgd, crdOf, built>> /\ values' = {}
    BY <1>2 DEF Open, e
  <2> QED
    BY <2>1, <2>2 DEF TypeOK
<1>3. CASE Fill
  <2>1. UNCHANGED <<rgd, crdOf, built, form>>
    BY <1>3 DEF Fill
  <2>2. PICK f \in {p[1] : p \in {q \in crdOf : Len(q) = 1}} :
          values' = IF f \in values THEN values \ {f} ELSE values \cup {f}
    BY <1>3 DEF Fill
  <2>3. values' \subseteq {p[1] : p \in crdOf}
    BY <2>2 DEF TypeOK
  <2> QED
    BY <2>1, <2>3 DEF TypeOK
<1>4. CASE UNCHANGED vars
  BY <1>4 DEF vars, TypeOK
<1> QED
  BY <1>1, <1>2, <1>3, <1>4 DEF Next

SchBounds == crd \in 0 .. MaxCrd /\ crdAge \in 0 .. Sch!OldestAge /\ broken \in 0 .. MaxBroken

LEMMA SchBoundsStep == SchBounds /\ [Sch!Next]_(Sch!vars) => SchBounds'
<1> SUFFICES ASSUME SchBounds, [Sch!Next]_(Sch!vars) PROVE SchBounds'
  OBVIOUS
<1>0. MaxCrd \in Nat /\ MaxBroken \in Nat /\ Sch!OldestAge \in Nat
  BY ServicesAssumption, BoundsAssumption DEF Sch!OldestAge
<1>1. CASE Sch!WriteCRD
  BY <1>0, <1>1 DEF Sch!WriteCRD, SchBounds
<1>2. CASE Sch!Pass
  BY <1>0, <1>2 DEF Sch!Pass, SchBounds
<1>3. ASSUME NEW q \in Request, Sch!ListCRDs(q) PROVE SchBounds'
  BY <1>0, <1>3 DEF Sch!ListCRDs, SchBounds
<1>4. CASE UNCHANGED <<crd, crdAge, broken>>
  BY <1>4 DEF SchBounds
<1> QED
  BY <1>1, <1>2, <1>3, <1>4
     DEF Sch!Next, Sch!vars, Sch!InvalidateCache, Sch!Ask, Sch!AskAgain, Sch!StoreSchema, Sch!GetSchema

LEMMA SchemasTyped == SchInv /\ SchBounds => Sch!TypeOK
  BY DEF SchInv, SchTypes, SchBounds, Sch!TypeOK, Entry, Outcome, Visit, Sch!Nothing, Sch!Waiting

ListBounds == labels \in [Lists!Rgd -> {None, Lists!Public} \cup Project]

LEMMA ListBoundsStep == ListBounds /\ [Lists!Next]_(Lists!vars) => ListBounds'
  BY DEF ListBounds, Lists!Next, Lists!vars, Lists!Begin, Lists!GetCached, Lists!ListFromProvider,
         Lists!KeepList, Lists!Answer, Lists!Leave, Lists!Move, Lists!Tick

LEMMA ListsTyped == ListsInv /\ ListBounds => Lists!TypeOK
<1> SUFFICES ASSUME ListTypes, ListBounds PROVE Lists!TypeOK
  BY DEF ListsInv
<1>1. ASSUME NEW ps \in SUBSET Project, shelf[ps] # None
      PROVE  shelf[ps].items \subseteq Lists!Rgd /\ shelf[ps].age < ListTTL
  BY <1>1, ServicesAssumption DEF ListTypes, Shelved
<1>2. ASSUME NEW u \in User, walk[u] # None PROVE walk[u].age <= Latency
  BY <1>2, ServicesAssumption DEF ListTypes, Walk
<1> QED
  BY <1>1, <1>2 DEF ListTypes, ListBounds, Lists!TypeOK

DecBounds == since \in 0 .. (Dec!Settled + 1) /\ outages \in 0 .. MaxOutages

LEMMA DecBoundsStep == DecBounds /\ [Dec!Next]_(Dec!vars) => DecBounds'
<1> SUFFICES ASSUME DecBounds, [Dec!Next]_(Dec!vars) PROVE DecBounds'
  OBVIOUS
<1>0. MaxOutages \in Nat /\ Dec!Settled \in Nat
  BY ServicesAssumption, BoundsAssumption DEF Dec!Settled, Dec!Longest
<1>1. CASE Dec!Change
  BY <1>0, <1>1 DEF Dec!Change, Dec!links, DecBounds
<1>2. CASE Dec!Tick
  BY <1>0, <1>2 DEF Dec!Tick, Dec!links, DecBounds
<1>3. ASSUME NEW r \in Replica, Dec!Link(r) PROVE DecBounds'
  BY <1>0, <1>3 DEF Dec!Link, Dec!loads, DecBounds
<1>4. CASE UNCHANGED <<since, outages>>
  BY <1>4 DEF DecBounds
<1> QED
  BY <1>1, <1>2, <1>3, <1>4
     DEF Dec!Next, Dec!vars, Dec!Load, Dec!Clear, Dec!Get, Dec!Set, Dec!Recover, Dec!EmptyFallback,
         Dec!loads, Dec!links

LEMMA DecisionsTyped == DecInv /\ DecBounds => Dec!TypeOK
  BY DEF DecInv, DecTypes, DecBounds, Dec!TypeOK

DepBounds ==
  /\ desired \in Version \cup {None} /\ syncs \in 0 .. MaxSyncs
  /\ IsFiniteSet(slips) /\ Cardinality(slips) <= MaxFaults

LEMMA DepCardinality == \A S : Dep!Cardinality(S) = Cardinality(S)
  BY Zenon DEF Dep!Cardinality, Cardinality, IsFiniteSet

\* A call that failed is one more of them.
LEMMA FaultCounted ==
  ASSUME DepBounds, NEW q \in Request, NEW pc, NEW harmless, Dep!GotoAfterFault(q, pc, harmless)
  PROVE  IsFiniteSet(slips') /\ Cardinality(slips') <= MaxFaults
<1>1. /\ slips' = slips \cup {ask[q].pc} /\ ask[q].pc \notin slips
      /\ Cardinality(slips) < MaxFaults /\ IsFiniteSet(slips)
  BY DepCardinality DEF Dep!GotoAfterFault, DepBounds
<1>2. Cardinality(slips) \in Nat /\ MaxFaults \in Nat
  BY <1>1, BoundsAssumption, FS_CardinalityType
<1>3. IsFiniteSet(slips') /\ Cardinality(slips') = Cardinality(slips) + 1
  BY <1>1, FS_AddElement
<1> QED
  BY <1>1, <1>2, <1>3

LEMMA DepBoundsStep == DepInv /\ DepBounds /\ [Dep!Next]_(Dep!vars) => DepBounds'
<1> SUFFICES ASSUME DepInv, DepBounds, [Dep!Next]_(Dep!vars) PROVE DepBounds'
  OBVIOUS
<1>1. CASE UNCHANGED <<desired, slips, syncs>>
  BY <1>1 DEF DepBounds
<1>2. CASE /\ UNCHANGED <<desired, syncs>>
           /\ IsFiniteSet(slips') /\ Cardinality(slips') <= MaxFaults
  BY <1>2 DEF DepBounds
<1>3. ASSUME NEW q \in Request, Dep!StoreDrift(q) PROVE DepBounds'
  <2>1. ask[q].spec \in Version \cup {None}
    BY <1>3 DEF DepInv, DepTypes, Dep!StoreDrift, Asked, Dep!Idle
  <2>2. CASE slips' = slips
    BY <1>3, <2>1, <2>2 DEF Dep!StoreDrift, DepBounds
  <2>3. CASE UNCHANGED desired /\ Dep!GotoAfterFault(q, "done", TRUE)
    BY <1>2, <1>3, <2>3, FaultCounted DEF Dep!StoreDrift
  <2> QED
    BY <1>3, <2>2, <2>3 DEF Dep!StoreDrift
<1>4. CASE Dep!ClearReconciled
  BY <1>4 DEF Dep!ClearReconciled, DepBounds
<1>5. CASE Dep!Disturb
  <2>1. syncs' \in 0 .. MaxSyncs
    BY <1>5, BoundsAssumption DEF Dep!Disturb, DepBounds
  <2> QED
    BY <1>5, <2>1 DEF Dep!Disturb, DepBounds
<1>6. ASSUME NEW q \in Request,
             Dep!CreateInstance(q) \/ Dep!UpdateInstance(q) \/ Dep!DeleteInstance(q)
      PROVE  DepBounds'
  BY <1>1, <1>6 DEF Dep!CreateInstance, Dep!UpdateInstance, Dep!DeleteInstance, Dep!Arrive
<1>7. ASSUME NEW q \in Request,
             Dep!Deploy(q) \/ Dep!PatchKubernetesSpec(q) \/ Dep!DeleteFile(q) \/ Dep!DeleteObject(q)
      PROVE  DepBounds'
  <2>1. /\ UNCHANGED <<desired, syncs>>
        /\ slips' = slips \/ \E pc, harmless : Dep!GotoAfterFault(q, pc, harmless)
    BY <1>7 DEF Dep!Deploy, Dep!DirectDeploy, Dep!Apply, Dep!PatchExisting, Dep!PushToGit,
                Dep!CommitFile, Dep!CommitFails, Dep!Rollback, Dep!PatchKubernetesSpec,
                Dep!DeleteFile, Dep!DeleteObject
  <2> QED
    BY <1>1, <1>2, <2>1, FaultCounted
<1>8. CASE UNCHANGED Dep!vars
  BY <1>1, <1>8 DEF Dep!vars
<1> QED
  BY <1>3, <1>4, <1>5, <1>6, <1>7, <1>8 DEF Dep!Next, Dep!GitOpsSync, Dep!LabelRepository

LEMMA DeploymentsTyped == DepInv /\ DepBounds => Dep!TypeOK
  BY DepCardinality DEF DepInv, DepTypes, DepBounds, Asked, Dep!TypeOK

HisBounds == lastStatus \in [Replica -> His!Health \cup {None}] /\ errors \in 0 .. MaxSlips

LEMMA HisBoundsStep == HisInv /\ HisBounds /\ [His!Next]_(His!vars) => HisBounds'
<1> SUFFICES ASSUME HisInv, HisBounds, [His!Next]_(His!vars) PROVE HisBounds'
  OBVIOUS
<1>0. health \in His!Health /\ MaxSlips \in Nat
  BY BoundsAssumption DEF HisInv, HisTypes
<1>1. errors' = errors \/ (errors < MaxSlips /\ errors' = errors + 1)
  BY DEF His!Next, His!vars, His!Create, His!HealthChanges, His!Delete, His!Callback, His!Restart,
         His!Step, His!GetHistory, His!SaveHistory, His!CreateHistoryFromInstance, His!Bury,
         His!ClearActive
<1>2. \/ lastStatus' = lastStatus
      \/ \E r \in Replica, h \in {health, None} : lastStatus' = [lastStatus EXCEPT ![r] = h]
  BY DEF His!Next, His!vars, His!Create, His!HealthChanges, His!Delete, His!Callback, His!Restart,
         His!ToldAdd, His!ToldUpdate, His!ToldDelete,
         His!Step, His!GetHistory, His!SaveHistory, His!CreateHistoryFromInstance, His!Bury,
         His!ClearActive, His!replicas
<1>3. errors' \in 0 .. MaxSlips
  BY <1>0, <1>1 DEF HisBounds
<1>4. lastStatus' \in [Replica -> His!Health \cup {None}]
  BY <1>0, <1>2 DEF HisBounds
<1> QED
  BY <1>3, <1>4 DEF HisBounds

LEMMA HistoriesTyped == HisInv /\ HisBounds => His!TypeOK
<1> SUFFICES ASSUME HisTypes, HisBounds PROVE His!TypeOK
  BY DEF HisInv
<1>1. life \in 0 .. MaxLives /\ birth \in 0 .. MaxLives
  BY ServicesAssumption DEF HisTypes
<1> QED
  BY <1>1 DEF HisTypes, HisBounds, History, His!TypeOK

RepoBounds == moved \subseteq 1 .. MaxConfigs /\ failures \in 0 .. MaxFailures

LEMMA RepoBoundsStep == RepoInv /\ RepoBounds /\ [Repos!Next]_(Repos!vars) => RepoBounds'
<1> SUFFICES ASSUME RepoInv, RepoBounds, [Repos!Next]_(Repos!vars) PROVE RepoBounds'
  OBVIOUS
<1>1. failures' = failures \/ (failures < MaxFailures /\ failures' = failures + 1)
  BY DEF Repos!Next, Repos!vars, Repos!OtherClient, Repos!Arrive, Repos!CreateRepositoryConfig,
         Repos!GetRepositoryConfig, Repos!CheckAccess, Repos!AfterCheck,
         Repos!UpdateRepositorySecret, Repos!UpdateRepositoryMetadata,
         Repos!DeleteRepositoryConfig, Repos!Refuse, Repos!Fault
<1>2. failures' \in 0 .. MaxFailures
  BY <1>1, BoundsAssumption DEF RepoBounds
<1>3. \/ moved' = moved
      \/ \E q \in Request : /\ stage[q] = "credentials" /\ configs[order[q].body.id] # None
                            /\ moved' = moved \cup {configs[order[q].body.id].uid}
  BY DEF Repos!Next, Repos!vars, Repos!OtherClient, Repos!Arrive, Repos!CreateRepositoryConfig,
         Repos!GetRepositoryConfig, Repos!CheckAccess, Repos!AfterCheck,
         Repos!UpdateRepositorySecret, Repos!UpdateRepositoryMetadata,
         Repos!DeleteRepositoryConfig, Repos!Refuse, Repos!Fault, Repos!ghosts, Repos!Body
<1>4. ASSUME NEW q \in Request, stage[q] = "credentials", configs[order[q].body.id] # None
      PROVE  configs[order[q].body.id].uid \in 1 .. MaxConfigs
  <2>1. order[q] # None /\ order[q].body.op \in {"update", "delete"}
    BY <1>4 DEF RepoInv, Handled, Seeing
  <2>2. order[q].body \in Repos!Bodies
    BY <2>1 DEF RepoInv, RepoTypes
  <2>3. order[q].body.id \in Repo
    BY <2>1, <2>2 DEF Repos!Bodies
  <2> QED
    BY <1>4, <2>3 DEF RepoInv, RepoTypes, Repos!Configs
<1>5. moved' \subseteq 1 .. MaxConfigs
  BY <1>3, <1>4 DEF RepoBounds
<1> QED
  BY <1>2, <1>5 DEF RepoBounds

LEMMA RepositoriesTyped == RepoInv /\ RepoBounds => Repos!TypeOK
  BY DEF RepoInv, RepoTypes, RepoBounds, Seeing, Repos!TypeOK

TestBounds == {tested, saved, retested} \subseteq BOOLEAN \cup {None}

LEMMA TestBoundsStep == TestBounds /\ [Tests!Next]_(Tests!vars) => TestBounds'
<1> SUFFICES ASSUME TestBounds, [Tests!Next]_(Tests!vars) PROVE TestBounds'
  OBVIOUS
<1>1. CASE Tests!TestConnectionWithCredentials
  <2>1. tested' = TRUE \/ tested' = FALSE
    BY <1>1, Zenon DEF Tests!TestConnectionWithCredentials
  <2> QED
    BY <1>1, <2>1 DEF Tests!TestConnectionWithCredentials, TestBounds
<1>2. CASE Tests!CreateRepositoryConfig
  <2>1. saved' = TRUE \/ saved' = FALSE
    BY <1>2, Zenon DEF Tests!CreateRepositoryConfig, Tests!Accepts
  <2> QED
    BY <1>2, <2>1 DEF Tests!CreateRepositoryConfig, TestBounds
<1>3. CASE Tests!TestRepositoryConnection
  <2>1. retested' = TRUE \/ retested' = FALSE
    BY <1>3, Zenon DEF Tests!TestRepositoryConnection, Tests!UsesSavedToken
  <2> QED
    BY <1>3, <2>1 DEF Tests!TestRepositoryConnection, TestBounds
<1>4. CASE UNCHANGED Tests!vars
  BY <1>4 DEF Tests!vars, TestBounds
<1> QED
  BY <1>1, <1>2, <1>3, <1>4 DEF Tests!Next

LEMMA TestsTyped == TestsInv /\ TestBounds => Tests!TypeOK
  BY DEF TestsInv, TestBounds, Tests!TypeOK

Errand(x) == x = Wrap!Away \/ (x.at \in {"create", "update", "delete"} /\ x.via \in Wrap!Owner)

WrapBounds ==
  /\ registry \in Wrapper \cup {None, "gone", "broken"} /\ entry \in Wrap!Owner
  /\ resolvable \subseteq Wrapper /\ unread \in BOOLEAN
  /\ \A q \in Request : Errand(client[q])
  /\ switches \in 0 .. MaxSwitches /\ asks \in 0 .. MaxAsks /\ misses \in 0 .. MaxMisses

LEMMA WrapBoundsStep == WrapInv /\ WrapBounds /\ [Wrap!Next]_(Wrap!vars) => WrapBounds'
<1> SUFFICES ASSUME WrapInv, WrapBounds, [Wrap!Next]_(Wrap!vars) PROVE WrapBounds'
  OBVIOUS
<1>0. MaxSwitches \in Nat /\ MaxAsks \in Nat /\ MaxMisses \in Nat
  BY BoundsAssumption
<1>1. CASE Wrap!Switch /\ registry' \in Wrapper \cup {None, "gone", "broken"} /\ unread' \in BOOLEAN
  <2>1. switches' \in 0 .. MaxSwitches
    BY <1>0, <1>1 DEF Wrap!Switch, WrapBounds
  <2> QED
    BY <1>1, <2>1 DEF Wrap!Switch, WrapBounds, Errand
<1>2. ASSUME NEW w \in Wrapper, Wrap!PutWrapper(w) PROVE WrapBounds'
  BY <1>1, <1>2 DEF Wrap!PutWrapper, Wrap!WriteEntries
<1>3. CASE Wrap!DeleteWrapper
  BY <1>1, <1>3 DEF Wrap!DeleteWrapper, Wrap!WriteEntries
<1>4. CASE Wrap!KubeEdit
  BY <1>1, <1>4 DEF Wrap!KubeEdit, Wrap!WriteEntries, WrapBounds
<1>5. CASE Wrap!Reload
  <2>1. entry' \in Wrap!Owner
    BY <1>5 DEF Wrap!Reload, Wrap!LoadEntries, Wrap!Owner, WrapBounds
  <2> QED
    BY <1>5, <2>1 DEF Wrap!Reload, WrapBounds, Errand
<1>6. CASE Wrap!Readiness
  <2>1. switches' \in 0 .. MaxSwitches
    BY <1>0, <1>6 DEF Wrap!Readiness, WrapBounds
  <2>2. resolvable' \subseteq Wrapper
    BY <1>6 DEF Wrap!Readiness, WrapBounds
  <2> QED
    BY <1>6, <2>1, <2>2 DEF Wrap!Readiness, WrapBounds, Errand
<1>7. ASSUME NEW w \in Wrapper, Wrap!Materialize(w) \/ Wrap!Collect(w) PROVE WrapBounds'
  BY <1>7 DEF Wrap!Materialize, Wrap!Collect, WrapBounds, Errand
<1>8. ASSUME NEW q \in Request, Wrap!Ask(q) PROVE WrapBounds'
  <2>1. asks' \in 0 .. MaxAsks
    BY <1>0, <1>8 DEF Wrap!Ask, WrapBounds
  <2>2. misses' \in 0 .. MaxMisses
    BY <1>0, <1>8 DEF Wrap!Ask, WrapBounds
  <2>3. entry \in Wrap!Owner /\ None \in Wrap!Owner /\ (project # None => Wrap!Route(project) \in Wrap!Owner)
    BY DEF WrapBounds, Wrap!Route, Wrap!Owner
  <2>4. \E x : client' = [client EXCEPT ![q] = x] /\ Errand(x)
    BY <1>8, <2>3 DEF Wrap!Ask, Errand
  <2>5. \A r \in Request : Errand(client'[r])
    BY <2>4 DEF WrapInv, WrapTypes, WrapBounds
  <2> QED
    BY <1>8, <2>1, <2>2, <2>5 DEF Wrap!Ask, Wrap!Others, WrapBounds, Errand
<1>9. ASSUME NEW q \in Request, Wrap!Done(q) PROVE WrapBounds'
  <2>1. \A r \in Request : Errand(client'[r])
    BY <1>9 DEF Wrap!Done, Errand, WrapInv, WrapTypes, WrapBounds
  <2> QED
    BY <1>9, <2>1 DEF Wrap!Done, Wrap!Others, WrapBounds, Errand
<1>10. CASE UNCHANGED Wrap!vars
  BY <1>10 DEF Wrap!vars, WrapBounds, Errand
<1> QED
  BY <1>2, <1>3, <1>4, <1>5, <1>6, <1>7, <1>8, <1>9, <1>10
     DEF Wrap!Next, Wrap!Refused, Wrap!Create, Wrap!Update, Wrap!Delete

LEMMA WrappersTyped == WrapInv /\ WrapBounds => Wrap!TypeOK
  BY DEF WrapInv, WrapTypes, WrapBounds, ProjectOf, Errand, Wrap!Owner, Wrap!TypeOK

\* Until it is registered nothing is sent to a client.
HubBounds ==
  /\ Len(broadcast) <= BroadcastBuffer
  /\ send = [c \in Browser |-> send[c]]
  /\ \A c \in Browser : /\ Len(send[c]) <= SendBuffer
                        /\ serving[c] \in {"none", "registering"} => send[c] = <<>>
  /\ subs \in [Browser -> SUBSET Hub!Topic]
  /\ once \in [Browser -> {"new", "busy", "over"}]
  /\ crashed \in BOOLEAN
  /\ published \in 0 .. MaxPublished /\ spoken \in 0 .. MaxHeard

LEMMA HubBoundsStep == HubInv /\ HubBounds /\ [Hub!Next]_(Hub!vars) => HubBounds'
<1> SUFFICES ASSUME HubInv, HubBounds, [Hub!Next]_(Hub!vars) PROVE HubBounds'
  OBVIOUS
<1>0. /\ MaxPublished \in Nat /\ MaxHeard \in Nat /\ BroadcastBuffer \in Nat /\ SendBuffer \in Nat \ {0}
      /\ HubTypes /\ Sent /\ Order
  BY BoundsAssumption DEF HubInv
<1>1. ASSUME NEW c \in Browser, Hub!Connect(c) PROVE HubBounds'
  BY <1>0, <1>1 DEF Hub!Connect, Hub!boundVars, HubBounds, HubTypes
<1>2. ASSUME NEW c \in Browser, Hub!PeerLeaves(c) PROVE HubBounds'
  BY <1>0, <1>2 DEF Hub!PeerLeaves, Hub!boundVars, HubBounds, HubTypes
<1>3. ASSUME NEW c \in Browser, Hub!Receive(c) PROVE HubBounds'
  <2>1. spoken' \in 0 .. MaxHeard
    BY <1>0, <1>3 DEF Hub!Receive, HubBounds
  <2>2. subs' \in [Browser -> SUBSET Hub!Topic]
    BY <1>0, <1>3 DEF Hub!Receive, HubBounds
  <2> QED
    BY <1>3, <2>1, <2>2 DEF Hub!Receive, HubBounds
<1>4. ASSUME NEW c \in Browser, Hub!HubRegister(c) PROVE HubBounds'
  <2>1. serving[c] = "registering" /\ send[c] = <<>>
    BY <1>4 DEF Hub!HubRegister, HubBounds
  <2>2. Len(Append(send[c], Hub!ReplyMessage)) <= SendBuffer
    BY <1>0, <2>1
  <2>3. \A d \in Browser : send'[d] = send[d] \/ (d = c /\ send'[d] = Append(send[c], Hub!ReplyMessage))
    BY <1>0, <1>4 DEF Hub!HubRegister, Sent
  <2>4. \A d \in Browser : serving'[d] = IF d = c THEN "registered" ELSE serving[d]
    BY <1>0, <1>4 DEF Hub!HubRegister, HubTypes
  <2>5. \A d \in Browser : /\ Len(send'[d]) <= SendBuffer
                           /\ serving'[d] \in {"none", "registering"} => send'[d] = <<>>
    BY <2>2, <2>3, <2>4 DEF HubBounds
  <2> QED
    BY <1>4, <2>5 DEF Hub!HubRegister, Hub!boundVars, HubBounds
<1>5. ASSUME NEW c \in Browser, Hub!StartPumps(c) PROVE HubBounds'
  BY <1>0, <1>5 DEF Hub!StartPumps, Hub!boundVars, HubBounds, HubTypes
<1>6. ASSUME NEW c \in Browser, Hub!ReadFails(c) PROVE HubBounds'
  BY <1>6 DEF Hub!ReadFails, Hub!boundVars, HubBounds
<1>7. ASSUME NEW c \in Browser, NEW p \in Hub!Pump, pump[c][p] # "off"
      PROVE  serving[c] \notin {"none", "registering"}
  BY <1>0, <1>7 DEF Order
<1>8. ASSUME NEW c \in Browser, Hub!SendReply(c) \/ Hub!SendError(c) PROVE HubBounds'
  <2>1. serving[c] \notin {"none", "registering"}
    <3>1. "reader" \in Hub!Pump /\ pump[c]["reader"] # "off"
      BY <1>8 DEF Hub!SendReply, Hub!SendError, Hub!Pump
    <3> QED
      BY <1>7, <3>1
  <2>2. crashed' \in BOOLEAN /\ UNCHANGED <<broadcast, serving, subs, once, published, spoken>>
    BY <1>8 DEF Hub!SendReply, Hub!SendError, Hub!boundVars, HubBounds
  <2>3. \/ send' = send
        \/ Len(send[c]) < SendBuffer /\ send' = [send EXCEPT ![c] = Append(@, Hub!ReplyMessage)]
    <3>1. CASE Hub!SendReply(c)
      BY <3>1 DEF Hub!SendReply
    <3>2. CASE Hub!SendError(c)
      <4>1. send = [d \in Browser |-> send[d]]
        BY DEF HubBounds
      <4>2. [send EXCEPT ![c] = @] = send
        BY <4>1
      <4> QED
        BY <3>2, <4>2 DEF Hub!SendError
    <3> QED
      BY <1>8, <3>1, <3>2
  <2>4. \A d \in Browser : /\ Len(send'[d]) <= SendBuffer
                           /\ serving'[d] \in {"none", "registering"} => send'[d] = <<>>
    <3>1. CASE send' = send
      BY <2>2, <3>1 DEF HubBounds
    <3>2. CASE Len(send[c]) < SendBuffer /\ send' = [send EXCEPT ![c] = Append(@, Hub!ReplyMessage)]
      <4>1. Len(Append(send[c], Hub!ReplyMessage)) <= SendBuffer
        BY <1>0, <3>2 DEF Sent
      <4>2. \A d \in Browser : send'[d] = IF d = c THEN Append(send[c], Hub!ReplyMessage) ELSE send[d]
        BY <1>0, <3>2 DEF Sent
      <4> QED
        BY <2>1, <2>2, <4>1, <4>2 DEF HubBounds
    <3> QED
      BY <2>3, <3>1, <3>2
  <2>5. send' = [d \in Browser |-> send'[d]]
    BY <2>3 DEF HubBounds
  <2> QED
    BY <2>2, <2>4, <2>5 DEF HubBounds
<1>9. ASSUME NEW c \in Browser, Hub!WriteNext(c) PROVE HubBounds'
  <2>1. send[c] # <<>> /\ send' = [send EXCEPT ![c] = Tail(@)]
    BY <1>9 DEF Hub!WriteNext
  <2>2. Len(Tail(send[c])) <= Len(send[c]) /\ Len(send[c]) \in Nat /\ Len(Tail(send[c])) \in Nat
    BY <1>0, <2>1 DEF Sent
  <2>3. \A d \in Browser : send'[d] = IF d = c THEN Tail(send[c]) ELSE send[d]
    BY <1>0, <2>1 DEF Sent
  <2>4. \A d \in Browser : Len(send'[d]) <= SendBuffer
    <3>1. \A d \in Browser : Len(send[d]) <= SendBuffer
      BY DEF HubBounds
    <3>2. Len(Tail(send[c])) <= SendBuffer
      BY <1>0, <2>2, <3>1
    <3> QED
      BY <2>3, <3>1, <3>2
  <2>5. \A d \in Browser : serving[d] \in {"none", "registering"} => send'[d] = <<>>
    BY <2>1, <2>3 DEF HubBounds
  <2> QED
    BY <1>9, <2>4, <2>5 DEF Hub!WriteNext, Hub!boundVars, HubBounds
<1>10. ASSUME NEW c \in Browser, Hub!WriteStops(c) PROVE HubBounds'
  BY <1>10 DEF Hub!WriteStops, Hub!boundVars, HubBounds
<1>11. ASSUME NEW c \in Browser, NEW p \in Hub!Pump, Hub!PumpStep(c, p) PROVE HubBounds'
  <2>1. once' \in [Browser -> {"new", "busy", "over"}]
    BY <1>11 DEF Hub!PumpStep, Hub!CloseFirst, Hub!HubUnregister, Hub!CloseConn, Hub!CloseSecond, HubBounds
  <2> QED
    BY <1>11, <2>1 DEF Hub!PumpStep, Hub!CloseFirst, Hub!HubUnregister, Hub!CloseConn,
                       Hub!CloseSecond, Hub!boundVars, HubBounds
<1>12. ASSUME NEW m \in Hub!Update, Hub!Publish(m) PROVE HubBounds'
  <2>1. published' \in 0 .. MaxPublished
    BY <1>0, <1>12 DEF Hub!Publish, HubBounds
  <2>2. Len(broadcast') <= BroadcastBuffer
    BY <1>0, <1>12 DEF Hub!Publish, HubBounds, HubTypes
  <2> QED
    BY <1>12, <2>1, <2>2 DEF Hub!Publish, Hub!clientVars, HubBounds
<1>13. CASE Hub!HubBroadcast
  <2>1. Len(broadcast') <= BroadcastBuffer
    BY <1>0, <1>13 DEF Hub!HubBroadcast, HubBounds, HubTypes
  <2>2. ASSUME NEW c \in Browser
        PROVE  /\ Len(send'[c]) <= SendBuffer
               /\ serving[c] \in {"none", "registering"} => send'[c] = <<>>
    <3> DEFINE m == Head(broadcast)
    <3>1. \/ send'[c] = send[c]
          \/ c \in clients /\ Len(send[c]) < SendBuffer /\ send'[c] = Append(send[c], m)
      BY <1>13 DEF Hub!HubBroadcast
    <3>2. send[c] \in Seq(OwnMessage(c))
      BY <1>0 DEF Sent
    <3> HIDE DEF m
    <3>3. c \in clients => serving[c] \in {"registered", "done"}
      BY <1>0 DEF Order
    <3>4. CASE send'[c] = send[c]
      BY <3>4 DEF HubBounds
    <3>5. CASE c \in clients /\ Len(send[c]) < SendBuffer /\ send'[c] = Append(send[c], m)
      BY <1>0, <3>2, <3>3, <3>5
    <3> QED
      BY <3>1, <3>4, <3>5
  <2> QED
    BY <1>13, <2>1, <2>2 DEF Hub!HubBroadcast, Hub!boundVars, HubBounds
<1>14. CASE Hub!HubStop
  BY <1>14 DEF Hub!HubStop, Hub!boundVars, HubBounds
<1>15. CASE UNCHANGED Hub!vars
  BY <1>15 DEF Hub!vars, Hub!clientVars, Hub!boundVars, HubBounds
<1> QED
  BY <1>1, <1>2, <1>3, <1>4, <1>5, <1>6, <1>8, <1>9, <1>10, <1>11, <1>12, <1>13, <1>14, <1>15
     DEF Hub!Next, Hub!HandlerStep, Hub!ReaderStep, Hub!WriterStep

LEMMA HubTyped == HubInv /\ HubBounds => Hub!TypeOK
<1> SUFFICES ASSUME HubTypes, Sent, HubBounds PROVE Hub!TypeOK
  BY DEF HubInv
<1>1. send \in [Browser -> Seq(Hub!Message)]
  <2>1. \A c \in Browser : OwnMessage(c) \subseteq Hub!Message
    BY DEF OwnMessage
  <2>2. \A c \in Browser : send[c] \in Seq(Hub!Message)
    BY <2>1 DEF Sent
  <2> QED
    BY <2>2 DEF HubBounds
<1> QED
  BY <1>1 DEF HubTypes, HubBounds, Hub!TypeOK

\* All invariants of the components, and the types beside them.
Components ==
  /\ CatInv /\ InsInv /\ RevInv /\ SchInv /\ ListsInv /\ DecInv /\ DepInv /\ HisInv
  /\ RepoInv /\ TestsInv /\ WrapInv /\ HubInv
Bounds ==
  /\ TypeOK /\ SchBounds /\ ListBounds /\ DecBounds /\ DepBounds /\ HisBounds
  /\ RepoBounds /\ TestBounds /\ WrapBounds /\ HubBounds

LEMMA ComponentsInit == AllInit => Components
  BY CatInvInit, InsInvInit, RevInvInit, SchInvInit, ListsInvInit, DecInvInit, DepInvInit,
     HisInvInit, RepoInvInit, TestsInvInit, WrapInvInit, HubInvInit DEF Components

LEMMA BoundsInit == AllInit => Bounds
<1> SUFFICES ASSUME AllInit PROVE Bounds
  OBVIOUS
<1> USE ServicesAssumption, BoundsAssumption
<1>1. TypeOK
  <2>1. rgd \in Manifest /\ crdOf \in Crd /\ built \in {FALSE, Accepted(rgd)} /\ form = None /\ values = {}
    BY DEF AllInit, Init
  <2>2. Accepted(rgd) \in BOOLEAN
    BY DEF Accepted
  <2> QED
    BY <2>1, <2>2 DEF TypeOK
<1>2. SchBounds
  BY DEF AllInit, Sch!Init, SchBounds, Sch!OldestAge
<1>3. ListBounds
  BY DEF AllInit, Lists!Init, ListBounds
<1>4. DecBounds
  BY DEF AllInit, Dec!Init, DecBounds, Dec!Settled, Dec!Longest
<1>5. DepBounds
  BY FS_EmptySet DEF AllInit, Dep!Init, DepBounds
<1>6. HisBounds
  BY DEF AllInit, His!Init, HisBounds
<1>7. RepoBounds
  BY DEF AllInit, Repos!Init, RepoBounds
<1>8. TestBounds
  BY DEF AllInit, Tests!Init, TestBounds
<1>9. WrapBounds
  <2>1. Wrap!Init /\ MaxSwitches \in Nat /\ MaxAsks \in Nat /\ MaxMisses \in Nat
    BY DEF AllInit
  <2>2. registry \in Wrapper \cup {None, "gone"} /\ entry \in Wrap!Owner
    BY <2>1 DEF Wrap!Init, Wrap!Owner
  <2>3. \A q \in Request : Errand(client[q])
    BY <2>1 DEF Wrap!Init, Errand
  <2>4. switches \in 0 .. MaxSwitches /\ asks \in 0 .. MaxAsks /\ misses \in 0 .. MaxMisses
    BY <2>1 DEF Wrap!Init
  <2>5. resolvable \subseteq Wrapper /\ unread \in BOOLEAN
    BY <2>1 DEF Wrap!Init
  <2> QED
    BY <2>2, <2>3, <2>4, <2>5 DEF WrapBounds
<1>10. HubBounds
  <2>1. /\ Hub!Init /\ MaxPublished \in Nat /\ MaxHeard \in Nat
        /\ BroadcastBuffer \in Nat /\ SendBuffer \in Nat \ {0}
    BY DEF AllInit
  <2>2. Len(broadcast) = 0 /\ Len(<<>>) = 0
    BY <2>1 DEF Hub!Init
  <2>3. send = [c \in Browser |-> <<>>]
    BY <2>1 DEF Hub!Init
  <2>4. /\ send = [c \in Browser |-> send[c]]
        /\ \A c \in Browser : Len(send[c]) <= SendBuffer /\ send[c] = <<>>
    BY <2>1, <2>2, <2>3
  <2>5. /\ subs \in [Browser -> SUBSET Hub!Topic]
        /\ once \in [Browser -> {"new", "busy", "over"}] /\ crashed \in BOOLEAN
    BY <2>1 DEF Hub!Init
  <2>6. published \in 0 .. MaxPublished /\ spoken \in 0 .. MaxHeard
    BY <2>1 DEF Hub!Init
  <2>7. Len(broadcast) <= BroadcastBuffer
    BY <2>1, <2>2
  <2>8. \A c \in Browser : /\ Len(send[c]) <= SendBuffer
                            /\ serving[c] \in {"none", "registering"} => send[c] = <<>>
    BY <2>4
  <2> QED
    BY <2>4, <2>5, <2>6, <2>7, <2>8, Zenon DEF HubBounds
<1> QED
  BY <1>1, <1>2, <1>3, <1>4, <1>5, <1>6, <1>7, <1>8, <1>9, <1>10 DEF Bounds

\* Every step is one of each component, or leaves it alone.
ComponentSteps ==
  /\ [Next]_vars /\ [Cat!Next]_(Cat!vars) /\ [Ins!Next]_(Ins!vars) /\ [Rev!Next]_(Rev!vars)
  /\ [Sch!Next]_(Sch!vars) /\ [Lists!Next]_(Lists!vars) /\ [Dec!Next]_(Dec!vars)
  /\ [Dep!Next]_(Dep!vars) /\ [His!Next]_(His!vars) /\ [Repos!Next]_(Repos!vars)
  /\ [Tests!Next]_(Tests!vars) /\ [Wrap!Next]_(Wrap!vars) /\ [Hub!Next]_(Hub!vars)

LEMMA AllStep == [AllNext]_allVars => ComponentSteps
<1> USE DEF formsVars, catalogVars, instancesVars, revisionsVars, schemasVars, listsVars,
            decisionsVars, deployVars, historyVars, reposVars, testsVars, wrappersVars, hubsVars,
            Cat!vars, Ins!vars, Rev!vars, Sch!vars, Lists!vars, Dec!vars, Dep!vars,
            His!vars, Repos!vars, Tests!vars, Wrap!vars, Hub!vars, Hub!clientVars, Hub!boundVars
<1>1. AllNext => ComponentSteps
  BY DEF AllNext, ComponentSteps
<1>2. UNCHANGED allVars => ComponentSteps
  BY DEF allVars, ComponentSteps
<1> QED
  BY <1>1, <1>2

LEMMA ComponentsStep == Components /\ ComponentSteps => Components'
  BY CatInvStep, InsInvStep, RevInvStep, SchInvStep, ListsInvStep, DecInvStep, DepInvStep,
     HisInvStep, RepoInvStep, TestsInvStep, WrapInvStep, HubInvStep DEF Components, ComponentSteps

LEMMA BoundsStep == Components /\ Bounds /\ ComponentSteps => Bounds'
  BY FormTypesStep, SchBoundsStep, ListBoundsStep, DecBoundsStep, DepBoundsStep, HisBoundsStep,
     RepoBoundsStep, TestBoundsStep, WrapBoundsStep, HubBoundsStep DEF Components, Bounds, ComponentSteps

LEMMA CatalogTyped == CatInv => Cat!TypeOK
<1> SUFFICES ASSUME CatTypes, HandlerTypes PROVE Cat!TypeOK
  BY DEF CatInv
<1>1. \A r \in Graph : /\ rgds[r] = None \/ rgds[r].rv \in 1 .. lastRv
                       /\ rgdCache[r] # None => rgdCache[r].deps \in SUBSET Kind
  BY DEF CatTypes, Declaration, RgdEntry
<1>2. handler.at \in {"idle", "event", "set"}
  BY DEF HandlerTypes, Cat!Idle
<1> QED
  BY <1>1, <1>2 DEF CatTypes, Cat!TypeOK

LEMMA InstancesTyped == InsInv => Ins!TypeOK
<1> SUFFICES ASSUME InsTypes PROVE Ins!TypeOK
  BY DEF InsInv
<1>1. \A i \in Instance : insts[i] = None \/ insts[i].rv \in 1 .. lastOf
  BY DEF InsTypes, Object
<1>2. \A r \in Graph : worker[r].at \in {"idle", "event", "leave", "set"}
  BY DEF InsTypes, WorkerTypes, Ins!Idle
<1>3. tracker.at \in {"idle", "ensure", "purge", "deleteByRGD", "status"}
  BY DEF InsTypes, TrackerTypes, Ins!Idle
<1> QED
  BY <1>1, <1>2, <1>3 DEF InsTypes, Informer, Ins!TypeOK

LEMMA RevisionsTyped == RevInv => Rev!TypeOK
  BY DEF RevInv, RevTypes, Compared, Revision, Rev!TypeOK

(* Every variable of the catalog, of forms, instances, caches, deployments,  *)
(* histories, repositories, wrappers and the hub keeps its type, and what    *)
(* the code limits its limit: the buffers of send and broadcast, and the     *)
(* age of what a cache holds.                                               *)
THEOREM ServicesTyped == AllSpec => []AllTypesOK
<1>1. Components /\ Bounds => AllTypesOK
  BY CatalogTyped, InstancesTyped, RevisionsTyped, SchemasTyped, ListsTyped, DecisionsTyped,
     DeploymentsTyped, HistoriesTyped, RepositoriesTyped, TestsTyped, WrappersTyped, HubTyped
     DEF Components, Bounds, AllTypesOK
<1>2. Components /\ Bounds /\ [AllNext]_allVars => Components' /\ Bounds'
  BY AllStep, ComponentsStep, BoundsStep
<1> QED
  BY ComponentsInit, BoundsInit, <1>1, <1>2, PTL DEF AllSpec

LEMMA FormsInvInit == AllInit => FormsInv
  BY BoundsInit DEF AllInit, Init, Bounds, FormsInv, FormIsEnriched

LEMMA FormsInvStep == FormsInv /\ [AllNext]_allVars => FormsInv'
  BY AllStep, FormTypesStep, FormEnriched DEF ComponentSteps, FormsInv

(* Sections and pickers of EnrichSchemaFromResources with the rules of      *)
(* useFieldVisibility: what a resource uses that is there is shown, and a   *)
(* provided secret is picked, for manifests of any resources and either     *)
(* graph.                                                                   *)
THEOREM FormsAlwaysShow == AllSpec => []FormsShowNeeded
<1>1. FormsInv => FormsShowNeeded
  BY NeededShown, IncludedShown, ProvidedPicked DEF FormsShowNeeded
<1> QED
  BY FormsInvInit, FormsInvStep, <1>1, PTL DEF AllSpec

(* The parser of ParseRGDResources and the graph of GetResourceGraph find   *)
(* the same dependencies and secrets of every manifest that kro accepts.    *)
THEOREM ParsersAlwaysAgree == AllSpec => []ParsersAgree
<1>1. FormsInv => ParsersAgree
  BY EdgesFound, SecretsFound DEF ParsersAgree
<1> QED
  BY FormsInvInit, FormsInvStep, <1>1, PTL DEF AllSpec
=============================================================================
