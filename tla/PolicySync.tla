----------------------------- MODULE PolicySync -----------------------------
(***************************************************************************)
(* The life of the background sync (rbac/policy_sync.go): Start, Stop and  *)
(* TriggerSync of policySyncService, called in any order.                  *)
(*                                                                         *)
(* Start runs the loop itself, in the goroutine that called it.  It makes  *)
(* new channels and stores them in the service; the loop reads the fields  *)
(* one after the other, and without the lock, each time it enters its      *)
(* select; a loop that was syncing when the service was stopped and        *)
(* started again waits on the new channels.  A generation stands for the   *)
(* pair of channels that one Start made.                                   *)
(***************************************************************************)
EXTENDS Naturals, FiniteSets

CONSTANTS
  Loop,          \* goroutines that call Start
  MaxStarts      \* bound: calls of Start that find the service stopped

ASSUME SyncAssumption == MaxStarts \in Nat

VARIABLES
  running,       \* s.running
  gen,           \* s.stopCh and s.triggerCh: the generation they belong to
  closed,        \* generations whose stopCh is closed
  trigger,       \* generations whose triggerCh holds a request
  loop,          \* where each goroutine is
  waits, asks,   \* the generations of the stopCh and triggerCh a loop's select waits on
  cancelled,     \* the context
  panicked       \* a closed channel was closed again

serviceVars == <<running, gen, closed, trigger>>
selectVars  == <<waits, asks>>
vars == <<serviceVars, loop, selectVars, cancelled, panicked>>

Init ==
  /\ running = FALSE /\ gen = 0 /\ closed = {} /\ trigger = {}
  /\ loop = [l \in Loop |-> "idle"] 
  /\ waits = [l \in Loop |-> 0] /\ asks = [l \in Loop |-> 0]
  /\ cancelled = FALSE /\ panicked = FALSE

Goes(l, from, to) == loop[l] = from /\ loop' = [loop EXCEPT ![l] = to]

-----------------------------------------------------------------------------
(* Start *)

\* Mutant: the channels of the stopped service are used again.
StartKeepsChannels(l) ==
  /\ ~running /\ gen < MaxStarts
  /\ Goes(l, "idle", "syncing")
  /\ running' = TRUE
  /\ gen' = IF gen = 0 THEN 1 ELSE gen
  /\ UNCHANGED <<closed, trigger, selectVars, cancelled, panicked>>

\* Mutant: a service that runs already is started all the same.
StartUnchecked(l) ==
  /\ Goes(l, "idle", "syncing")
  /\ running' = TRUE
  /\ gen' = gen + 1
  /\ UNCHANGED <<closed, trigger, selectVars, cancelled, panicked>>

\* A service that runs already is left alone; this goroutine starts it, and
\* begins with a sync.
Start(l) ==
  /\ ~running /\ gen < MaxStarts
  /\ Goes(l, "idle", "syncing")
  /\ running' = TRUE
  /\ gen' = gen + 1
  /\ UNCHANGED <<closed, trigger, selectVars, cancelled, panicked>>

\* doSync is over: the loop enters the select and reads s.stopCh ...
Synced(l) ==
  /\ Goes(l, "syncing", "entering")
  /\ waits' = [waits EXCEPT ![l] = gen]
  /\ UNCHANGED <<serviceVars, asks, cancelled, panicked>>

\* ... and then s.triggerCh.
Enters(l) ==
  /\ Goes(l, "entering", "select")
  /\ asks' = [asks EXCEPT ![l] = gen]
  /\ UNCHANGED <<serviceVars, waits, cancelled, panicked>>

Ticks(l) ==
  /\ Goes(l, "select", "syncing")
  /\ UNCHANGED <<serviceVars, selectVars, cancelled, panicked>>

TakesTrigger(l) ==
  /\ asks[l] \in trigger
  /\ Goes(l, "select", "syncing")
  /\ trigger' = trigger \ {asks[l]}
  /\ UNCHANGED <<running, gen, closed, selectVars, cancelled, panicked>>

\* The stop channel is closed, or the context cancelled.
SeesStop(l) ==
  /\ cancelled \/ waits[l] \in closed
  /\ Goes(l, "select", "leaving")
  /\ UNCHANGED <<serviceVars, selectVars, cancelled, panicked>>

\* Mutant: a loop that the context ends leaves without a word.
LeavesSilently(l) ==
  /\ Goes(l, "leaving", "idle")
  /\ UNCHANGED <<serviceVars, selectVars, cancelled, panicked>>

\* setNotRunning, whichever generation the service has by now.
Leaves(l) ==
  /\ Goes(l, "leaving", "idle")
  /\ running' = FALSE
  /\ UNCHANGED <<gen, closed, trigger, selectVars, cancelled, panicked>>

-----------------------------------------------------------------------------
(* The callers *)

\* Stop; for a service that does not run it is a no-op.  stopOnce is as new as
\* the channel it guards.
Stop ==
  /\ running
  /\ running' = FALSE
  /\ closed' = closed \cup {gen}
  /\ panicked' = (panicked \/ gen \in closed)
  /\ UNCHANGED <<gen, trigger, loop, selectVars, cancelled>>

\* TriggerSync: a request that is pending already stands for this one too.
TriggerSync ==
  /\ trigger' = trigger \cup {gen}
  /\ UNCHANGED <<running, gen, closed, loop, selectVars, cancelled, panicked>>

Cancel ==
  /\ ~cancelled /\ cancelled' = TRUE
  /\ UNCHANGED <<serviceVars, loop, selectVars, panicked>>

LoopStep(l) ==
  \/ Start(l) \/ Synced(l) \/ Enters(l) \/ Ticks(l) \/ TakesTrigger(l)
  \/ SeesStop(l) \/ Leaves(l)

Next == (\E l \in Loop : LoopStep(l)) \/ Stop \/ TriggerSync \/ Cancel

\* A sync ends, and a loop leaves when it can and does what it has begun.  Among
\* the cases that are ready select takes one at random, so each gets its turn.
Spec ==
  /\ Init /\ [][Next]_vars
  /\ \A l \in Loop : /\ WF_vars(Synced(l)) /\ WF_vars(Enters(l)) /\ WF_vars(Leaves(l))
                     /\ SF_vars(TakesTrigger(l)) /\ SF_vars(SeesStop(l))

-----------------------------------------------------------------------------
(* Properties *)

TypeOK ==
  /\ running \in BOOLEAN /\ gen \in 0..MaxStarts
  /\ closed \in SUBSET (1..MaxStarts) /\ trigger \in SUBSET (0..MaxStarts)
  /\ loop \in [Loop -> {"idle", "syncing", "entering", "select", "leaving"}]
  /\ waits \in [Loop -> 0..MaxStarts] /\ asks \in [Loop -> 0..MaxStarts]
  /\ cancelled \in BOOLEAN /\ panicked \in BOOLEAN

(* "preventing panic from concurrent Stop() calls" (policy_sync.go:80): no *)
(* order of Start and Stop closes a stop channel twice, though Start makes *)
(* the stopOnce that guards it anew.                                       *)
NoDoubleClose == ~panicked

(* A request for a sync is not lost: while the service runs some loop      *)
(* comes to take it, also when it arrived in the middle of a sync, and     *)
(* whichever loops earlier starts have left behind.                        *)
TriggerIsServed == running /\ gen \in trigger ~> gen \notin trigger \/ ~running
=============================================================================
