--------------------------- MODULE MCPolicySync -----------------------------
(***************************************************************************)
(* The background sync, a WebSocket connection, and startup and shutdown:  *)
(* the goroutines that must come to an end or to their turn.  They share   *)
(* no state and are checked side by side: the initial state chooses one    *)
(* and only that one takes steps.                                          *)
(***************************************************************************)
EXTENDS PolicySync, Sequences

CONSTANTS c1, ours, None, Rgd, Call, MaxMoves, MaxSlow

VARIABLES part,
          hub, clients, broadcast, handler, pump, send, shut, subs, once, conn,
          crashed, published, heard,
          phase, watcher, stopping, event, known, tracked, registered, busy, released,
          excuse, moved, slow

\* One connection, whose peer may leave at any moment.
Hub == INSTANCE WsHub WITH
  Client <- {c1}, Project <- {ours}, Member <- [c \in {c1} |-> {ours}], Admin <- {},
  MaxConnections <- 1, SendBuffer <- 1, BroadcastBuffer <- 1, MaxPublished <- 1,
  MaxHeard <- 2, closed <- shut
Life == INSTANCE Lifecycle WITH
  life <- watcher, closed <- released

\* A request is none of the goroutines that busy names.
ASSUME LifeAssumption ==
  /\ MaxMoves \in Nat /\ MaxSlow \in Nat
  /\ Call \cap {"revision", "repo", "tracker"} = {}

hubsVars == <<hub, clients, broadcast, handler, pump, send, shut, subs, once, conn,
    crashed, published, heard>>
lifeVars == <<phase, watcher, stopping, event, known, tracked, registered, busy,
    released, excuse, moved, slow>>
syncVars == vars
allVars == <<part, syncVars, hubsVars, lifeVars>>

AllInit ==
  /\ part \in {"sync", "hubs", "life"}
  /\ Init
  /\ Hub!Init
  /\ Life!Init

AllNext ==
  \/ part = "sync" /\ Next
     /\ UNCHANGED <<part, hubsVars, lifeVars>>
  \/ part = "hubs" /\ Hub!Next
     /\ UNCHANGED <<part, syncVars, lifeVars>>
  \/ part = "life" /\ Life!Next
     /\ UNCHANGED <<part, syncVars, hubsVars>>

AllSpec ==
  /\ AllInit /\ [][AllNext]_allVars
  /\ \A l \in Loop : WF_syncVars(part = "sync" /\ Synced(l))
  /\ \A l \in Loop : WF_syncVars(part = "sync" /\ Enters(l))
  /\ \A l \in Loop : WF_syncVars(part = "sync" /\ Leaves(l))
  /\ \A l \in Loop : SF_syncVars(part = "sync" /\ TakesTrigger(l))
  /\ \A l \in Loop : SF_syncVars(part = "sync" /\ SeesStop(l))
  /\ \A c \in {c1} : WF_hubsVars(part = "hubs" /\ ~crashed /\ Hub!HandlerStep(c))
  /\ \A c \in {c1} : WF_hubsVars(part = "hubs" /\ ~crashed /\ Hub!ReaderStep(c))
  /\ \A c \in {c1} : WF_hubsVars(part = "hubs" /\ ~crashed /\ Hub!WriterStep(c))
  /\ \A c \in {c1}, p \in {"reader", "writer"} : WF_hubsVars(part = "hubs" /\ ~crashed /\ Hub!PumpStep(c, p))
  /\ WF_lifeVars(part = "life" /\ Life!StartupStep)
  /\ WF_lifeVars(part = "life" /\ Life!Begin("rgd"))
  /\ WF_lifeVars(part = "life" /\ Life!NotifyChange)
  /\ WF_lifeVars(part = "life" /\ Life!Resync)

(* The types of all components. *)
AllTypesOK ==
  /\ part = "sync" => TypeOK
  /\ part = "hubs" => Hub!TypeOK
  /\ part = "life" => Life!TypeOK

(* WsHub: while the hub runs, a connection whose peer is gone is closed and *)
(* forgotten.                                                               *)
GoneIsClosed == Hub!GoneIsClosed

(* Lifecycle: once the audit recorder or the Redis client is closed, only   *)
(* what outlasted its time limit may still use it.                          *)
ShutdownIsQuiet ==
  /\ part = "life" => Life!AuditIsQuiet /\ Life!RedisIsQuiet

(* Lifecycle: an RGD that arrives while the tracker registers is tracked    *)
(* later.                                                                   *)
EventuallyTracked == Life!EventuallyTracked
=============================================================================
