------------------------- MODULE PolicySyncProofs -------------------------
(***************************************************************************)
(* Proofs about PolicySync, for any number of goroutines and starts, and   *)
(* about Lifecycle, which MCPolicySync checks next to it, for any watched  *)
(* definitions, requests and time limits; and the types of the two and of  *)
(* the connection.                                                         *)
(***************************************************************************)
EXTENDS MCPolicySync, TLAPS

(* A service that runs has a stop channel of its own that nobody closed:   *)
(* stops close the channel of the current start, and later starts make     *)
(* later ones.                                                             *)
OpenWhileRunning ==
  /\ closed \subseteq 1..gen
  /\ running => gen \in Nat \ {0} /\ gen \notin closed

Inv == TypeOK /\ OpenWhileRunning /\ NoDoubleClose

LEMMA InvInit == Init => Inv
<1> SUFFICES ASSUME Init PROVE Inv
  OBVIOUS
<1>1. 0 \in 0..MaxStarts
  BY SyncAssumption
<1>2. TypeOK
  BY <1>1 DEF Init, TypeOK
<1> QED
  BY <1>2 DEF Init, Inv, OpenWhileRunning, NoDoubleClose

\* Where a goroutine goes.
LEMMA GoesType ==
  ASSUME TypeOK, NEW l \in Loop, NEW from,
         NEW to \in {"idle", "syncing", "entering", "select", "leaving"}, Goes(l, from, to)
  PROVE  loop' \in [Loop -> {"idle", "syncing", "entering", "select", "leaving"}]
  BY DEF Goes, TypeOK

LEMMA TypeStep ==
  ASSUME Inv, [Next]_vars
  PROVE  TypeOK'
<1> USE DEF Inv
<1>1. ASSUME NEW l \in Loop, Start(l)
      PROVE  TypeOK'
  <2>1. gen' \in 0..MaxStarts
    BY <1>1, SyncAssumption DEF Start, TypeOK
  <2> QED
    BY <1>1, <2>1, GoesType DEF Start, TypeOK, selectVars
<1>2. ASSUME NEW l \in Loop, Synced(l)
      PROVE  TypeOK'
  BY <1>2, GoesType DEF Synced, TypeOK, serviceVars
<1>3. ASSUME NEW l \in Loop, Enters(l)
      PROVE  TypeOK'
  BY <1>3, GoesType DEF Enters, TypeOK, serviceVars
<1>4. ASSUME NEW l \in Loop, Ticks(l) \/ SeesStop(l)
      PROVE  TypeOK'
  BY <1>4, GoesType DEF Ticks, SeesStop, TypeOK, serviceVars, selectVars
<1>5. ASSUME NEW l \in Loop, TakesTrigger(l) \/ Leaves(l)
      PROVE  TypeOK'
  BY <1>5, GoesType DEF TakesTrigger, Leaves, TypeOK, selectVars
<1>6. CASE Stop
  <2>1. gen \in 1..MaxStarts
    BY <1>6, SyncAssumption DEF Stop, TypeOK, OpenWhileRunning
  <2> QED
    BY <1>6, <2>1 DEF Stop, TypeOK, selectVars, NoDoubleClose
<1>7. CASE TriggerSync \/ Cancel
  BY <1>7 DEF TriggerSync, Cancel, TypeOK, serviceVars, selectVars
<1>8. CASE UNCHANGED vars
  BY <1>8 DEF vars, serviceVars, selectVars, TypeOK
<1> QED
  BY <1>1, <1>2, <1>3, <1>4, <1>5, <1>6, <1>7, <1>8 DEF Next, LoopStep

LEMMA OpenStep ==
  ASSUME Inv, [Next]_vars
  PROVE  OpenWhileRunning' /\ NoDoubleClose'
<1> USE DEF OpenWhileRunning, NoDoubleClose
<1>0. gen \in Nat /\ OpenWhileRunning /\ NoDoubleClose
  BY SyncAssumption DEF Inv, TypeOK
<1>1. ASSUME NEW l \in Loop, Start(l)
      PROVE  OpenWhileRunning' /\ NoDoubleClose'
  <2>1. gen' = gen + 1 /\ closed' = closed /\ panicked' = panicked
    BY <1>1 DEF Start
  <2>2. gen + 1 \in Nat \ {0} /\ gen + 1 \notin 1..gen /\ 1..gen \subseteq 1..(gen + 1)
    BY <1>0
  <2> QED
    BY <1>0, <2>1, <2>2
<1>2. CASE Stop
  <2>1. gen \in 1..gen
    BY <1>0, <1>2 DEF Stop
  <2> QED
    BY <1>0, <1>2, <2>1 DEF Stop
<1>3. ASSUME UNCHANGED <<gen, closed, panicked>>, running' => running
      PROVE  OpenWhileRunning' /\ NoDoubleClose'
  BY <1>0, <1>3
<1>4. \/ \E l \in Loop : Start(l)
      \/ Stop
      \/ UNCHANGED <<gen, closed, panicked>> /\ (running' => running)
  BY DEF Next, LoopStep, Synced, Enters, Ticks, TakesTrigger, SeesStop, Leaves,
     TriggerSync, Cancel, vars, serviceVars, selectVars
<1> QED
  BY <1>1, <1>2, <1>3, <1>4

LEMMA InvStep == Inv /\ [Next]_vars => Inv'
  BY TypeStep, OpenStep DEF Inv

(* Type correctness of the service and its loops. *)
THEOREM TypeCorrect == Spec => []TypeOK
<1>1. Inv => TypeOK
  BY DEF Inv
<1> QED
  BY <1>1, InvInit, InvStep, PTL DEF Spec

(* No order of Start, Stop and the ends of loops closes a stop channel of  *)
(* policySyncService twice.                                                *)
THEOREM ClosedOnce == Spec => []NoDoubleClose
<1>1. Inv => NoDoubleClose
  BY DEF Inv
<1> QED
  BY <1>1, InvInit, InvStep, PTL DEF Spec

-----------------------------------------------------------------------------
(* Shutting down.  The phases that follow each step of shutdownServices.   *)

PastWaitRgd      == {"redis", "exited"}
PastStopRgd      == {"wait rgd"} \cup PastWaitRgd
PastTracker      == {"stop rgd"} \cup PastStopRgd
PastWaitRevision == {"tracker"} \cup PastTracker
PastStopRevision == {"wait revision"} \cup PastWaitRevision
PastAudit        == {"stop revision"} \cup PastStopRevision
PastWaitRepo     == {"audit"} \cup PastAudit
PastStopRepo     == {"wait repo"} \cup PastWaitRepo
PastHttp         == {"stop repo"} \cup PastStopRepo

PastStop == [rgd |-> PastStopRgd, revision |-> PastStopRevision, repo |-> PastStopRepo]
PastWait == [rgd |-> PastWaitRgd, revision |-> PastWaitRevision, repo |-> PastWaitRepo]

\* A goroutine that was told to stop ends or is excused.
WatchersStop ==
  /\ watcher \in [Life!Watcher -> {"off", "launched", "up", "ended"}]
  /\ watcher["repo"] # "launched"
  /\ phase = "rgd" => watcher["rgd"] = "off"
  /\ phase \in {"rgd", "revision"} => watcher["revision"] = "off"
  /\ \A w \in Life!Watcher :
       /\ phase \in PastStop[w] =>
            /\ watcher[w] = "launched" => w \in excuse
            /\ watcher[w] = "up" => w \in stopping \cup excuse
       /\ phase \in PastWait[w] => (watcher[w] = "up" => w \in excuse)

\* Only goroutines that run are busy, and after the server's only those of
\* requests that were given up.
BusyExplained ==
  /\ \A w \in {"repo", "revision"} : w \in busy => watcher[w] = "up"
  /\ event # None => watcher["rgd"] = "up"
  /\ phase \in PastHttp => busy \cap Call \subseteq excuse
  /\ phase \in PastTracker =>
       "tracker" \in stopping /\ ("tracker" \in busy => "tracker" \in excuse)

ClosedInOrder ==
  /\ "audit" \in released => phase \in PastAudit
  /\ "redis" \in released => phase = "exited"

LifeInv == WatchersStop /\ BusyExplained /\ ClosedInOrder

\* What follows each step.
LEMMA Order ==
  ASSUME NEW p, Life!At(p)
  PROVE  \/ p = "rgd" /\ phase' = "revision"
         \/ p = "revision" /\ phase' = "repo"
         \/ p = "repo" /\ phase' = "list"
         \/ p = "list" /\ phase' = "register"
         \/ p = "register" /\ phase' = "ready"
         \/ p = "http" /\ phase' = "stop repo"
         \/ p = "stop repo" /\ phase' = "wait repo"
         \/ p = "wait repo" /\ phase' = "audit"
         \/ p = "audit" /\ phase' = "stop revision"
         \/ p = "stop revision" /\ phase' = "wait revision"
         \/ p = "wait revision" /\ phase' = "tracker"
         \/ p = "tracker" /\ phase' = "stop rgd"
         \/ p = "stop rgd" /\ phase' = "wait rgd"
         \/ p = "wait rgd" /\ phase' = "redis"
         \/ p = "redis" /\ phase' = "exited"
<1> DEFINE S == Life!Startup
           D == Life!Shutdown
<1>1. /\ S[1] = "rgd" /\ S[2] = "revision" /\ S[3] = "repo" /\ S[4] = "list"
      /\ S[5] = "register" /\ S[6] = "ready" /\ Len(S) = 6
  BY DEF Life!Startup
<1>2. /\ D[1] = "http" /\ D[2] = "stop repo" /\ D[3] = "wait repo" /\ D[4] = "audit"
      /\ D[5] = "stop revision" /\ D[6] = "wait revision" /\ D[7] = "tracker"
      /\ D[8] = "stop rgd" /\ D[9] = "wait rgd" /\ D[10] = "redis" /\ D[11] = "exited"
      /\ Len(D) = 11
  BY DEF Life!Shutdown
<1>3. \/ \E i \in 1..(Len(S) - 1) : S[i] = p /\ phase' = S[i + 1]
      \/ \E i \in 1..(Len(D) - 1) : D[i] = p /\ phase' = D[i + 1]
  BY DEF Life!At
<1> HIDE DEF S, D
<1>6. CASE \E i \in 1..(Len(S) - 1) : S[i] = p /\ phase' = S[i + 1]
  <2>1. PICK i \in 1..5 : S[i] = p /\ phase' = S[i + 1]
    BY <1>1, <1>6
  <2>2. \/ (i = 1 /\ i + 1 = 2)
        \/ (i = 2 /\ i + 1 = 3)
        \/ (i = 3 /\ i + 1 = 4)
        \/ (i = 4 /\ i + 1 = 5)
        \/ (i = 5 /\ i + 1 = 6)
    BY <2>1
  <2> QED
    BY <1>1, <2>1, <2>2, Zenon
<1>7. CASE \E i \in 1..(Len(D) - 1) : D[i] = p /\ phase' = D[i + 1]
  <2>1. PICK i \in 1..10 : D[i] = p /\ phase' = D[i + 1]
    <3>1. Len(D) = 11
      BY <1>2
    <3>2. Len(D) - 1 = 10
      BY <3>1
    <3> QED
      BY <1>7, <3>2
  <2>2. \/ (i = 1 /\ i + 1 = 2)
        \/ (i = 2 /\ i + 1 = 3)
        \/ (i = 3 /\ i + 1 = 4)
        \/ (i = 4 /\ i + 1 = 5)
        \/ (i = 5 /\ i + 1 = 6)
        \/ (i = 6 /\ i + 1 = 7)
        \/ (i = 7 /\ i + 1 = 8)
        \/ (i = 8 /\ i + 1 = 9)
        \/ (i = 9 /\ i + 1 = 10)
        \/ (i = 10 /\ i + 1 = 11)
    BY <2>1
  <2> QED
    BY <1>2, <2>1, <2>2, Zenon
<1> QED
  BY <1>3, <1>6, <1>7

LEMMA LifeInvInit == AllInit => LifeInv
  BY DEF AllInit, Life!Init, LifeInv, WatchersStop, BusyExplained, ClosedInOrder, PastStop,
     PastWait, PastHttp, PastStopRepo, PastWaitRepo, PastAudit, PastStopRevision,
     PastWaitRevision, PastTracker, PastStopRgd, PastWaitRgd, Life!Watcher

LEMMA StepNames ==
  /\ Life!Watcher = {"rgd", "revision", "repo"}
  /\ Life!StopOf["rgd"] = "stop rgd" /\ Life!StopOf["revision"] = "stop revision"
  /\ Life!StopOf["repo"] = "stop repo"
  /\ Life!WaitOf["rgd"] = "wait rgd" /\ Life!WaitOf["revision"] = "wait revision"
  /\ Life!WaitOf["repo"] = "wait repo"
  BY DEF Life!Watcher, Life!StopOf, Life!WaitOf

\* Phases are passed in order.
LEMMA Passed ==
  ASSUME NEW p, Life!At(p)
  PROVE  /\ p = phase
         /\ \A w \in Life!Watcher :
              /\ phase' \in PastStop[w] => phase \in PastStop[w] \/ p = Life!StopOf[w]
              /\ phase' \in PastWait[w] => phase \in PastWait[w] \/ p = Life!WaitOf[w]
              /\ p = Life!WaitOf[w] => phase \in PastStop[w]
         /\ phase' \in PastHttp => phase \in PastHttp \/ p = "http"
         /\ phase' \in PastTracker => phase \in PastTracker \/ p = "tracker"
         /\ phase \in PastAudit \/ p = "audit" => phase' \in PastAudit
         /\ phase # "exited" /\ (p = "redis" => phase' = "exited")
         /\ phase' # "rgd" /\ (phase' = "revision" => p = "rgd")
         /\ p \in {"rgd", "revision", "repo", "list", "register"} =>
              phase' \notin PastHttp \cup PastAudit \cup {"exited"}
<1>1. p = phase
  BY DEF Life!At
<1>4. /\ PastStop["rgd"] = PastStopRgd /\ PastStop["revision"] = PastStopRevision
      /\ PastStop["repo"] = PastStopRepo
      /\ PastWait["rgd"] = PastWaitRgd /\ PastWait["revision"] = PastWaitRevision
      /\ PastWait["repo"] = PastWaitRepo
  BY DEF PastStop, PastWait
<1> USE DEF PastHttp, PastStopRepo, PastWaitRepo, PastAudit,
     PastStopRevision, PastWaitRevision, PastTracker, PastStopRgd, PastWaitRgd
<1>5. /\ phase' \in PastStopRgd => phase \in PastStopRgd \/ p = "stop rgd"
      /\ phase' \in PastStopRevision => phase \in PastStopRevision \/ p = "stop revision"
      /\ phase' \in PastStopRepo => phase \in PastStopRepo \/ p = "stop repo"
  BY <1>1, Order
<1>6. /\ phase' \in PastWaitRgd => phase \in PastWaitRgd \/ p = "wait rgd"
      /\ phase' \in PastWaitRevision => phase \in PastWaitRevision \/ p = "wait revision"
      /\ phase' \in PastWaitRepo => phase \in PastWaitRepo \/ p = "wait repo"
  BY <1>1, Order
<1>7. /\ p = "wait rgd" => phase \in PastStopRgd
      /\ p = "wait revision" => phase \in PastStopRevision
      /\ p = "wait repo" => phase \in PastStopRepo
  BY <1>1
<1>8. /\ phase' \in PastHttp => phase \in PastHttp \/ p = "http"
      /\ phase' \in PastTracker => phase \in PastTracker \/ p = "tracker"
      /\ phase \in PastAudit \/ p = "audit" => phase' \in PastAudit
  BY <1>1, Order
<1>9. /\ phase # "exited" /\ (p = "redis" => phase' = "exited")
      /\ phase' # "rgd" /\ (phase' = "revision" => p = "rgd")
      /\ p \in {"rgd", "revision", "repo", "list", "register"} =>
           phase' \notin PastHttp \cup PastAudit \cup {"exited"}
  BY <1>1, Order
<1> QED
  BY <1>1, <1>4, <1>5, <1>6, <1>7, <1>8, <1>9, StepNames

\* What is past the stop or the wait of a watcher is past the end of the server.
LEMMA PastHttpFirst ==
  /\ \A w \in Life!Watcher : PastStop[w] \subseteq PastHttp /\ PastWait[w] \subseteq PastStop[w]
  /\ PastTracker \subseteq PastHttp
  BY DEF PastStop, PastWait, PastHttp, PastStopRepo, PastWaitRepo, PastAudit,
     PastStopRevision, PastWaitRevision, PastTracker, PastStopRgd, PastWaitRgd, Life!Watcher

\* The steps of Run and shutdownServices.
LEMMA PhaseSteps ==
  ASSUME LifeInv, Life!StartupStep \/ Life!Signal \/ Life!ShutdownStep
  PROVE  LifeInv'
<1> USE DEF LifeInv, WatchersStop, BusyExplained, ClosedInOrder,
     Life!Quiet, Life!Starts, Life!InTime, Life!Overdue
<1>0. {"rgd", "revision", "repo"} = Life!Watcher
  BY DEF Life!Watcher
<1>1. ASSUME NEW p \in {"rgd", "revision", "repo", "list", "register"}, Life!At(p),
             UNCHANGED <<event, busy, stopping, excuse, released>>,
             \/ watcher' = watcher
             \/ p \in {"rgd", "revision"} /\ watcher' = [watcher EXCEPT ![p] = "launched"]
             \/ p = "repo" /\ watcher' = [watcher EXCEPT ![p] = "up"]
      PROVE  LifeInv'
  <2>1. phase = p /\ phase' \notin PastHttp \cup PastAudit \cup {"exited"}
    BY <1>1, Passed
  <2>2. phase' \notin PastTracker /\ \A w \in Life!Watcher : phase' \notin PastStop[w] \cup PastWait[w]
    BY <2>1, PastHttpFirst
  <2>3. WatchersStop'
    BY <1>0, <1>1, <2>1, <2>2, Passed
  <2>4. /\ \A w \in {"repo", "revision"} : w \in busy => watcher'[w] = "up"
        /\ event # None => watcher'["rgd"] = "up"
    <3>1. CASE watcher' = watcher
      BY <3>1
    <3>2. CASE p \in {"rgd", "revision"} /\ watcher' = [watcher EXCEPT ![p] = "launched"]
      BY <1>0, <2>1, <3>2
    <3>3. CASE p = "repo" /\ watcher' = [watcher EXCEPT ![p] = "up"]
      BY <1>0, <3>3
    <3> QED
      BY <1>1, <3>1, <3>2, <3>3
  <2>5. BusyExplained'
    BY <1>1, <2>1, <2>2, <2>4
  <2>6. phase \notin PastAudit /\ phase # "exited"
    BY <2>1 DEF PastAudit, PastStopRevision, PastWaitRevision, PastTracker, PastStopRgd, PastWaitRgd
  <2> QED
    BY <1>1, <2>3, <2>5, <2>6
<1>2. CASE Life!StartupStep
  BY <1>1, <1>2 DEF Life!StartupStep, Life!Launch, Life!LaunchRepo, Life!ListKnown, Life!Register
<1>3. CASE Life!Signal
  <2>1. phase = "ready" /\ phase' = "http" /\ phase' \notin PastHttp
        /\ phase \notin PastAudit \cup {"exited"}
    BY <1>3 DEF Life!Signal, PastHttp, PastStopRepo, PastWaitRepo, PastAudit,
       PastStopRevision, PastWaitRevision, PastTracker, PastStopRgd, PastWaitRgd
  <2> QED
    BY <1>0, <1>3, <2>1, PastHttpFirst DEF Life!Signal
<1>4. CASE Life!ShutdownServer
  <2>1. /\ Life!At("http") /\ phase = "http"
        /\ UNCHANGED <<event, busy, stopping, watcher, released>>
        /\ excuse \subseteq excuse' /\ busy \cap Call \subseteq excuse'
    BY <1>4 DEF Life!ShutdownServer, Life!At
  <2>2. \A w \in Life!Watcher : Life!StopOf[w] # "http" /\ Life!WaitOf[w] # "http"
    BY StepNames
  <2>3. WatchersStop'
    BY <2>1, <2>2, Passed
  <2>4. BusyExplained'
    BY <2>1, Passed
  <2> QED
    BY <2>1, <2>3, <2>4, Passed
<1>5. CASE Life!StopTracker
  <2>1. /\ Life!At("tracker") /\ UNCHANGED <<event, busy, watcher, released>>
        /\ stopping \subseteq stopping' /\ "tracker" \in stopping'
        /\ excuse' = excuse \cup (busy \cap {"tracker"})
    BY <1>5 DEF Life!StopTracker
  <2>2. /\ \A v \in Life!Watcher : Life!StopOf[v] # "tracker" /\ Life!WaitOf[v] # "tracker"
    BY StepNames
  <2>3. WatchersStop'
    BY <2>1, <2>2, Passed
  <2>4. BusyExplained'
    BY <2>1, <2>2, Passed
  <2> QED
    BY <2>1, <2>2, <2>3, <2>4, Passed
<1>6. CASE Life!Close("audit") \/ Life!Close("redis")
  <2>1. PICK r \in {"audit", "redis"} : Life!Close(r)
    BY <1>6
  <2>2. /\ Life!At(r) /\ UNCHANGED <<event, busy, watcher, stopping, excuse>>
        /\ released' = released \cup {r}
    BY <2>1 DEF Life!Close
  <2>3. \A v \in Life!Watcher : Life!StopOf[v] # r /\ Life!WaitOf[v] # r
    BY StepNames
  <2>4. WatchersStop'
    BY <2>2, <2>3, Passed
  <2>5. BusyExplained'
    BY <2>2, <2>3, Passed
  <2>6. ClosedInOrder'
    BY <2>2, Passed
  <2> QED
    BY <2>4, <2>5, <2>6
<1>7. ASSUME NEW w \in Life!Watcher, Life!StopWatcher(w)
      PROVE  LifeInv'
  <2> DEFINE p == Life!StopOf[w]
  <2>1. /\ Life!At(p) /\ UNCHANGED <<event, busy, watcher, released>>
        /\ excuse \subseteq excuse' /\ stopping \subseteq stopping'
        /\ watcher[w] = "up" => w \in stopping'
        /\ watcher[w] = "launched" => w \in excuse'
    BY <1>7 DEF Life!StopWatcher
  <2>2. /\ \A v \in Life!Watcher : Life!WaitOf[v] # p /\ (v # w => Life!StopOf[v] # p)
        /\ p \notin {"http", "tracker", "audit", "redis"}
    BY StepNames
  <2> HIDE DEF p
  <2>3. WatchersStop'
    BY <2>1, <2>2, Passed
  <2>4. BusyExplained'
    BY <2>1, <2>2, Passed
  <2> QED
    BY <2>1, <2>2, <2>3, <2>4, Passed
<1>8. ASSUME NEW w \in Life!Watcher, Life!AwaitWatcher(w)
      PROVE  LifeInv'
  <2> DEFINE p == Life!WaitOf[w]
  <2>1. /\ Life!At(p) /\ UNCHANGED <<event, busy, watcher, released, stopping>>
        /\ excuse \subseteq excuse'
        /\ watcher[w] = "up" /\ w \in stopping => w \in excuse'
    BY <1>8 DEF Life!AwaitWatcher
  <2>2. /\ \A v \in Life!Watcher : Life!StopOf[v] # p /\ (v # w => Life!WaitOf[v] # p)
        /\ p \notin {"http", "tracker", "audit", "redis"}
    BY StepNames
  <2> HIDE DEF p
  <2>3. WatchersStop'
    BY <2>1, <2>2, Passed DEF p
  <2>4. BusyExplained'
    BY <2>1, <2>2, Passed
  <2> QED
    BY <2>1, <2>2, <2>3, <2>4, Passed
<1> QED
  BY <1>2, <1>3, <1>4, <1>5, <1>6, <1>7, <1>8 DEF Life!ShutdownStep

\* The steps of watchers, callbacks and requests.
LEMMA BusySteps ==
  ASSUME LifeInv, Life!Next \/ UNCHANGED Life!vars
  PROVE  LifeInv' \/ Life!StartupStep \/ Life!Signal \/ Life!ShutdownStep
<1> USE LifeAssumption DEF LifeInv, WatchersStop, BusyExplained, ClosedInOrder,
     Life!Watcher, Life!Quiet, Life!Starts
<1>1. CASE Life!HandleChange \/ Life!Resync \/ Life!NotifyChange
  BY <1>1 DEF Life!HandleChange, Life!Resync, Life!NotifyChange
<1>2. ASSUME NEW w \in {"rgd", "revision"}, Life!Begin(w)
      PROVE  LifeInv'
  <2>1. /\ watcher' = [watcher EXCEPT ![w] = "up"] /\ watcher[w] = "launched"
        /\ UNCHANGED <<phase, event, busy, stopping, excuse, released>>
    BY <1>2 DEF Life!Begin
  <2>2. \A v \in Life!Watcher : watcher'[v] = IF v = w THEN "up" ELSE watcher[v]
    BY <2>1
  <2>3. BusyExplained' /\ ClosedInOrder'
    BY <2>1, <2>2
  <2>4. WatchersStop'
    BY <2>1, <2>2, PastHttpFirst
  <2> QED
    BY <2>3, <2>4
<1>3. ASSUME NEW w \in Life!Watcher, Life!End(w)
      PROVE  LifeInv'
  BY <1>3 DEF Life!End
<1>4. ASSUME NEW w \in {"revision", "repo", "tracker"}, Life!CallbackBegins(w)
      PROVE  LifeInv'
  BY <1>4 DEF Life!CallbackBegins
<1>5. ASSUME NEW q \in Call, Life!RequestBegins(q)
      PROVE  LifeInv'
  <2>1. phase \notin PastHttp /\ phase \notin PastTracker
    BY <1>5 DEF Life!RequestBegins, PastHttp, PastStopRepo, PastWaitRepo, PastAudit,
       PastStopRevision, PastWaitRevision, PastTracker, PastStopRgd, PastWaitRgd
  <2> QED
    BY <1>5, <2>1 DEF Life!RequestBegins
<1>6. ASSUME NEW b \in busy, Life!Finish(b)
      PROVE  LifeInv'
  BY <1>6 DEF Life!Finish
<1>7. CASE UNCHANGED Life!vars
  BY <1>7 DEF Life!vars
<1> QED
  BY <1>1, <1>2, <1>3, <1>4, <1>5, <1>6, <1>7 DEF Life!Next

LEMMA LifeInvStep == LifeInv /\ [AllNext]_allVars => LifeInv'
<1> SUFFICES ASSUME LifeInv, [AllNext]_allVars
             PROVE  LifeInv'
  OBVIOUS
<1>1. Life!Next \/ UNCHANGED Life!vars
  BY DEF AllNext, allVars, lifeVars, Life!vars
<1> QED
  BY <1>1, PhaseSteps, BusySteps

(* However many watchers, requests and waits there are: when               *)
(* shutdownServices closes the audit recorder or the Redis client, only    *)
(* what outlasted its time limit, or was never told to stop, may use it.   *)
THEOREM QuietAtShutdown == AllSpec => []ShutdownIsQuiet
<1>1. LifeInv => ShutdownIsQuiet
  BY DEF LifeInv, BusyExplained, WatchersStop, ClosedInOrder, ShutdownIsQuiet,
     Life!AuditIsQuiet, Life!RedisIsQuiet, PastStop, PastWait, PastHttp, PastStopRepo,
     PastWaitRepo, PastAudit, PastStopRevision, PastWaitRevision, PastTracker, PastStopRgd,
     PastWaitRgd, Life!Watcher
<1> QED
  BY <1>1, LifeInvInit, LifeInvStep, PTL DEF AllSpec
-----------------------------------------------------------------------------
(* The types of the composition. *)

\* Startup and shutdown, beside what LifeInv says of the watchers.
LifeTypes ==
  /\ phase \in Life!Phase
  /\ stopping \subseteq Life!Watcher \cup {"tracker"} /\ event \in Rgd \cup {None}
  /\ known \subseteq Rgd /\ tracked \subseteq Rgd /\ registered \in BOOLEAN
  /\ busy \subseteq {"revision", "repo", "tracker"} \cup Call
  /\ released \subseteq {"audit", "redis"}
  /\ excuse \subseteq Life!Watcher \cup {"tracker"} \cup Call
  /\ moved \in 0 .. MaxMoves /\ slow \in 0 .. MaxSlow

\* The phase of the start, and those that a step may lead to.
LEMMA Phases ==
  /\ {"rgd", "revision", "repo", "list", "register", "ready"} \subseteq Life!Phase
  /\ {"http", "stop repo", "wait repo", "audit", "stop revision", "wait revision"} \subseteq Life!Phase
  /\ {"tracker", "stop rgd", "wait rgd", "redis", "exited"} \subseteq Life!Phase
<1> DEFINE S == Life!Startup
           D == Life!Shutdown
<1>1. /\ S[1] = "rgd" /\ S[2] = "revision" /\ S[3] = "repo" /\ S[4] = "list"
      /\ S[5] = "register" /\ S[6] = "ready"
  BY DEF Life!Startup
<1>2. /\ D[1] = "http" /\ D[2] = "stop repo" /\ D[3] = "wait repo" /\ D[4] = "audit"
      /\ D[5] = "stop revision" /\ D[6] = "wait revision" /\ D[7] = "tracker"
      /\ D[8] = "stop rgd" /\ D[9] = "wait rgd" /\ D[10] = "redis" /\ D[11] = "exited"
  BY DEF Life!Shutdown
<1>3. /\ \A i \in 1 .. 6 : S[i] \in Life!Phase
      /\ \A i \in 1 .. 11 : D[i] \in Life!Phase
  BY DEF Life!Phase
<1> HIDE DEF S, D
<1>4. {S[1], S[2], S[3], S[4], S[5], S[6]} \subseteq Life!Phase
  BY <1>3
<1>5. {D[1], D[2], D[3], D[4], D[5], D[6]} \subseteq Life!Phase
  BY <1>3
<1>6. {D[7], D[8], D[9], D[10], D[11]} \subseteq Life!Phase
  BY <1>3
<1> QED
  BY <1>1, <1>2, <1>4, <1>5, <1>6

LEMMA LifeTypesStep == LifeTypes /\ [Life!Next]_(Life!vars) => LifeTypes'
<1> SUFFICES ASSUME LifeTypes, [Life!Next]_(Life!vars) PROVE LifeTypes'
  OBVIOUS
<1> USE LifeAssumption DEF LifeTypes, Life!Quiet, Life!Starts, Life!InTime
<1>1. ASSUME NEW p, Life!At(p) PROVE phase' \in Life!Phase
  <2>1. \/ phase' \in {"revision", "repo", "list", "register", "ready"}
        \/ phase' \in {"http", "stop repo", "wait repo", "audit", "stop revision", "wait revision"}
        \/ phase' \in {"tracker", "stop rgd", "wait rgd", "redis", "exited"}
    BY <1>1, Order
  <2> QED
    BY <2>1, Phases
<1>2. ASSUME NEW who \in SUBSET (Life!Watcher \cup {"tracker"} \cup Call), Life!Overdue(who)
      PROVE  slow' \in 0 .. MaxSlow /\ excuse' \subseteq Life!Watcher \cup {"tracker"} \cup Call
  BY <1>2 DEF Life!Overdue
<1>3. CASE Life!StartupStep \/ Life!Signal
  <2>1. phase' \in Life!Phase
    BY <1>1, <1>3, Phases DEF Life!StartupStep, Life!Signal, Life!Launch, Life!LaunchRepo,
                              Life!ListKnown, Life!Register
  <2> QED
    BY <1>3, <2>1 DEF Life!StartupStep, Life!Signal, Life!Launch, Life!LaunchRepo,
                      Life!ListKnown, Life!Register
<1>4. CASE Life!ShutdownServer
  BY <1>1, <1>2, <1>4 DEF Life!ShutdownServer
<1>5. CASE Life!StopTracker
  BY <1>1, <1>5 DEF Life!StopTracker
<1>6. ASSUME NEW r \in {"audit", "redis"}, Life!Close(r) PROVE LifeTypes'
  BY <1>1, <1>6 DEF Life!Close
<1>7. ASSUME NEW w \in Life!Watcher, Life!StopWatcher(w) PROVE LifeTypes'
  BY <1>1, <1>7 DEF Life!StopWatcher
<1>8. ASSUME NEW w \in Life!Watcher, Life!AwaitWatcher(w) PROVE LifeTypes'
  BY <1>1, <1>2, <1>8 DEF Life!AwaitWatcher
<1>9. CASE Life!HandleChange
  <2>1. event' \in Rgd /\ known' \subseteq Rgd /\ moved' \in 0 .. MaxMoves
    BY <1>9 DEF Life!HandleChange
  <2> QED
    BY <1>9, <2>1 DEF Life!HandleChange
<1>10. CASE Life!Resync \/ Life!NotifyChange
  BY <1>10 DEF Life!Resync, Life!NotifyChange
<1>11. ASSUME NEW w, Life!Begin(w) \/ Life!End(w) PROVE LifeTypes'
  BY <1>11 DEF Life!Begin, Life!End
<1>12. ASSUME NEW w \in {"revision", "repo", "tracker"}, Life!CallbackBegins(w) PROVE LifeTypes'
  BY <1>12 DEF Life!CallbackBegins
<1>13. ASSUME NEW q \in Call, Life!RequestBegins(q) PROVE LifeTypes'
  BY <1>13 DEF Life!RequestBegins
<1>14. ASSUME NEW b \in busy, Life!Finish(b) PROVE LifeTypes'
  BY <1>14 DEF Life!Finish
<1>15. CASE UNCHANGED Life!vars
  BY <1>15 DEF Life!vars
<1> QED
  BY <1>3, <1>4, <1>5, <1>6, <1>7, <1>8, <1>9, <1>10, <1>11, <1>12, <1>13, <1>14, <1>15
     DEF Life!Next, Life!ShutdownStep

\* A client has no messages before it is registered, and one pump of each
\* kind after that.
LinkInv ==
  /\ Hub!TypeOK
  /\ \A c \in {c1} : handler[c] \in {"none", "registering"} => send[c] = <<>>
  /\ \A c \in {c1}, p \in Hub!Pump : pump[c][p] # "off" => handler[c] = "done"
  /\ clients # {} => handler[c1] \in {"registered", "done"}

LEMMA LinkInvInit == AllInit => LinkInv
<1> SUFFICES ASSUME Hub!Init PROVE LinkInv
  BY DEF AllInit
<1>1. broadcast \in Seq(Hub!Update) /\ Len(broadcast) = 0
  BY DEF Hub!Init
<1>2. /\ send = [c \in {c1} |-> <<>>]
      /\ <<>> \in Seq(Hub!Message) /\ Len(<<>>) = 0
  BY DEF Hub!Init
<1>3. /\ send \in [{c1} -> Seq(Hub!Message)]
      /\ \A c \in {c1} : Len(send[c]) = 0 /\ send[c] = <<>>
  BY <1>2
<1>4. pump \in [{c1} -> [Hub!Pump -> Hub!PumpState]]
  BY DEF Hub!Init, Hub!PumpState
<1>5. /\ hub = "running" /\ clients = {} /\ crashed = FALSE /\ published = 0 /\ heard = 0
      /\ handler \in [{c1} -> {"none", "registering", "registered", "done"}]
      /\ shut \in [{c1} -> BOOLEAN] /\ subs \in [{c1} -> SUBSET Hub!Topic]
      /\ once \in [{c1} -> {"new", "busy", "over"}] /\ conn \in [{c1} -> {"up", "gone", "closed"}]
  BY DEF Hub!Init
<1>6. /\ Len(broadcast) <= 1 /\ \A c \in {c1} : Len(send[c]) <= 1
      /\ published \in 0 .. 1 /\ heard \in 0 .. 2
  BY <1>1, <1>3, <1>5
<1>7. Hub!TypeOK
  BY <1>1, <1>3, <1>4, <1>5, <1>6 DEF Hub!TypeOK
<1> QED
  BY <1>3, <1>7 DEF LinkInv, Hub!Init

\* A pump that runs takes a step.
LEMMA LinkGoes ==
  ASSUME LinkInv, NEW c \in {c1}, NEW p \in Hub!Pump, NEW s \in Hub!PumpState, s # "off",
         pump[c][p] # "off", Hub!Go(c, p, s),
         UNCHANGED <<hub, broadcast, handler, subs, published, heard>>,
         clients' \subseteq clients, shut' \in [{c1} -> BOOLEAN],
         send' = send, crashed' = crashed,
         once' \in [{c1} -> {"new", "busy", "over"}], conn' \in [{c1} -> {"up", "gone", "closed"}]
  PROVE  LinkInv'
<1>1. pump' \in [{c1} -> [Hub!Pump -> Hub!PumpState]]
  BY DEF LinkInv, Hub!TypeOK, Hub!Go
<1>2. \A d \in {c1}, r \in Hub!Pump : pump'[d][r] # "off" => handler[d] = "done"
  BY DEF LinkInv, Hub!TypeOK, Hub!Go
<1>3. Hub!TypeOK'
  BY <1>1 DEF LinkInv, Hub!TypeOK
<1> QED
  BY <1>2, <1>3 DEF LinkInv

LEMMA LinkInvStep == LinkInv /\ [Hub!Next]_(Hub!vars) => LinkInv'
<1> SUFFICES ASSUME LinkInv, [Hub!Next]_(Hub!vars) PROVE LinkInv'
  OBVIOUS
<1>0. "reader" \in Hub!Pump /\ "writer" \in Hub!Pump /\ Hub!TypeOK
      /\ {"reading", "replying", "erroring", "closing", "unregister", "closeconn", "ended", "select"}
           \subseteq Hub!PumpState
  BY DEF Hub!Pump, Hub!PumpState, LinkInv
<1>1. ASSUME NEW c \in {c1}, Hub!Connect(c) PROVE LinkInv'
  BY <1>0, <1>1 DEF Hub!Connect, Hub!boundVars, Hub!TypeOK, LinkInv
<1>2. ASSUME NEW c \in {c1}, Hub!PeerLeaves(c) PROVE LinkInv'
  BY <1>0, <1>2 DEF Hub!PeerLeaves, Hub!boundVars, Hub!TypeOK, LinkInv
<1>3. ASSUME NEW c \in {c1}, Hub!HubRegister(c) PROVE LinkInv'
  <2>1. /\ handler[c] = "registering" /\ send[c] = <<>> /\ c = c1
        /\ \A p \in Hub!Pump : pump[c][p] = "off"
    BY <1>0, <1>3 DEF Hub!HubRegister, Hub!TypeOK, LinkInv
  <2>2. /\ handler' = [handler EXCEPT ![c] = "registered"] /\ clients' \subseteq {c1}
        /\ shut' \in [{c1} -> BOOLEAN]
        /\ UNCHANGED <<hub, broadcast, pump, subs, once, conn, crashed, published, heard>>
    BY <1>0, <1>3 DEF Hub!HubRegister, Hub!boundVars, Hub!TypeOK
  <2>3. Hub!ReplyMessage \in Hub!Message
    BY DEF Hub!ReplyMessage, Hub!Message, Hub!Reply
  <2>4. Append(send[c], Hub!ReplyMessage) \in Seq(Hub!Message) /\ Len(Append(send[c], Hub!ReplyMessage)) = 1
    BY <2>1, <2>3
  <2>5. send' \in [{c1} -> Seq(Hub!Message)] /\ \A d \in {c1} : Len(send'[d]) <= 1
    <3>1. send' = send \/ send' = [send EXCEPT ![c] = Append(@, Hub!ReplyMessage)]
      BY <1>3 DEF Hub!HubRegister
    <3>2. send \in [{c1} -> Seq(Hub!Message)] /\ \A d \in {c1} : Len(send[d]) <= 1
      BY <1>0 DEF Hub!TypeOK
    <3>3. \A d \in {c1} : d = c
      BY <2>1
    <3> QED
      BY <2>4, <3>1, <3>2, <3>3
  <2>6. handler' \in [{c1} -> {"none", "registering", "registered", "done"}]
        /\ \A d \in {c1} : handler'[d] = "registered"
    BY <1>0, <2>1, <2>2 DEF Hub!TypeOK
  <2>7. Hub!TypeOK'
    BY <1>0, <2>2, <2>5, <2>6 DEF Hub!TypeOK
  <2>8. \A d \in {c1}, p \in Hub!Pump : pump'[d][p] = "off"
    BY <2>1, <2>2
  <2> QED
    BY <2>6, <2>7, <2>8 DEF LinkInv
<1>4. ASSUME NEW c \in {c1}, Hub!StartPumps(c) PROVE LinkInv'
  <2>1. [reader |-> "reading", writer |-> "select"] \in [Hub!Pump -> Hub!PumpState]
    BY DEF Hub!Pump, Hub!PumpState
  <2>2. /\ handler' = [handler EXCEPT ![c] = "done"]
        /\ pump' = [pump EXCEPT ![c] = [reader |-> "reading", writer |-> "select"]]
        /\ UNCHANGED <<hub, clients, broadcast, send, shut, subs, once, conn, crashed, published, heard>>
    BY <1>4 DEF Hub!StartPumps, Hub!boundVars
  <2>3. Hub!TypeOK'
    BY <1>0, <2>1, <2>2 DEF Hub!TypeOK
  <2>4. \A d \in {c1} : handler'[d] = "done"
    BY <1>0, <2>2 DEF Hub!TypeOK
  <2> QED
    BY <2>3, <2>4 DEF LinkInv
<1>5. ASSUME NEW c \in {c1}, Hub!ReadFails(c) PROVE LinkInv'
  BY <1>0, <1>5, LinkGoes DEF Hub!ReadFails, Hub!boundVars, Hub!TypeOK
<1>6. ASSUME NEW c \in {c1}, Hub!WriteStops(c) PROVE LinkInv'
  BY <1>0, <1>6, LinkGoes DEF Hub!WriteStops, Hub!boundVars, Hub!TypeOK
<1>7. ASSUME NEW c \in {c1}, Hub!Receive(c) PROVE LinkInv'
  <2>1. subs' \in [{c1} -> SUBSET Hub!Topic] /\ heard' \in 0 .. 2
    BY <1>0, <1>7 DEF Hub!Receive, Hub!TypeOK
  <2>2. pump' = pump \/ \E s \in {"replying", "erroring"} : Hub!Go(c, "reader", s)
    BY <1>7 DEF Hub!Receive
  <2>3. pump[c]["reader"] # "off" /\ handler[c] = "done"
    BY <1>0, <1>7 DEF Hub!Receive, LinkInv
  <2>4. /\ pump' \in [{c1} -> [Hub!Pump -> Hub!PumpState]]
        /\ \A d \in {c1} : handler[d] = "done"
    BY <1>0, <2>2, <2>3 DEF Hub!Go, Hub!TypeOK
  <2>5. UNCHANGED <<hub, clients, broadcast, handler, send, shut, once, conn, crashed, published>>
    BY <1>7 DEF Hub!Receive
  <2>6. Hub!TypeOK'
    BY <1>0, <2>1, <2>4, <2>5 DEF Hub!TypeOK
  <2> QED
    BY <2>4, <2>5, <2>6 DEF LinkInv
<1>8. ASSUME NEW c \in {c1}, Hub!SendReply(c) \/ Hub!SendError(c) PROVE LinkInv'
  <2>1. pump[c]["reader"] # "off" /\ handler[c] = "done"
    BY <1>0, <1>8 DEF Hub!SendReply, Hub!SendError, LinkInv
  <2>2. /\ UNCHANGED <<hub, clients, broadcast, handler, shut, subs, once, conn, published, heard>>
        /\ pump' = pump \/ Hub!Go(c, "reader", "reading")
        /\ crashed' \in BOOLEAN
    BY <1>0, <1>8 DEF Hub!SendReply, Hub!SendError, Hub!boundVars, Hub!TypeOK
  <2>3. pump' \in [{c1} -> [Hub!Pump -> Hub!PumpState]]
    BY <1>0, <2>2 DEF Hub!Go, Hub!TypeOK
  <2>4. Hub!ReplyMessage \in Hub!Message
    BY DEF Hub!ReplyMessage, Hub!Message, Hub!Reply
  <2>5. Len(send[c]) < 1 =>
          /\ Append(send[c], Hub!ReplyMessage) \in Seq(Hub!Message)
          /\ Len(Append(send[c], Hub!ReplyMessage)) <= 1
    BY <1>0, <2>4 DEF Hub!TypeOK
  <2>6. \/ send' = send
        \/ Len(send[c]) < 1 /\ send' = [send EXCEPT ![c] = Append(@, Hub!ReplyMessage)]
    <3>1. CASE Hub!SendReply(c)
      BY <3>1 DEF Hub!SendReply
    <3>2. CASE Hub!SendError(c)
      <4>1. [send EXCEPT ![c] = @] = send
        BY <1>0 DEF Hub!TypeOK
      <4> QED
        BY <3>2, <4>1 DEF Hub!SendError
    <3> QED
      BY <1>8, <3>1, <3>2
  <2>7. send' \in [{c1} -> Seq(Hub!Message)] /\ \A d \in {c1} : Len(send'[d]) <= 1
    BY <1>0, <2>5, <2>6 DEF Hub!TypeOK
  <2>8. Hub!TypeOK'
    BY <1>0, <2>2, <2>3, <2>7 DEF Hub!TypeOK
  <2> QED
    BY <2>1, <2>2, <2>8 DEF LinkInv
<1>9. ASSUME NEW c \in {c1}, Hub!WriteNext(c) PROVE LinkInv'
  <2>1. /\ send[c] \in Seq(Hub!Message) /\ send[c] # <<>> /\ Len(send[c]) <= 1
        /\ send' = [send EXCEPT ![c] = Tail(@)]
        /\ UNCHANGED <<hub, clients, broadcast, handler, shut, subs, once, conn, crashed, published, heard>>
    BY <1>0, <1>9 DEF Hub!WriteNext, Hub!boundVars, Hub!TypeOK
  <2>2. Tail(send[c]) \in Seq(Hub!Message) /\ Len(Tail(send[c])) <= 1
    BY <2>1
  <2>3. send' \in [{c1} -> Seq(Hub!Message)] /\ \A d \in {c1} : Len(send'[d]) <= 1
    BY <1>0, <2>1, <2>2 DEF Hub!TypeOK
  <2>4. pump' = pump \/ Hub!Go(c, "writer", "closing")
    BY <1>9 DEF Hub!WriteNext
  <2>5. pump' \in [{c1} -> [Hub!Pump -> Hub!PumpState]]
    BY <1>0, <2>4 DEF Hub!Go, Hub!TypeOK
  <2>6. \A d \in {c1} : handler[d] = "done"
    BY <1>0, <1>9 DEF Hub!WriteNext, LinkInv
  <2>7. Hub!TypeOK'
    BY <1>0, <2>1, <2>3, <2>5 DEF Hub!TypeOK
  <2> QED
    BY <2>1, <2>6, <2>7 DEF LinkInv
<1>10. ASSUME NEW c \in {c1}, NEW p \in Hub!Pump, Hub!PumpStep(c, p) PROVE LinkInv'
  <2>1. pump[c][p] # "off" /\ send' = send /\ crashed' = crashed
        /\ UNCHANGED <<hub, broadcast, handler, subs, published, heard>>
    BY <1>10 DEF Hub!PumpStep, Hub!CloseFirst, Hub!HubUnregister, Hub!CloseConn, Hub!CloseSecond,
                 Hub!boundVars
  <2>2. clients' \subseteq clients /\ shut' \in [{c1} -> BOOLEAN]
    BY <1>0, <1>10 DEF Hub!PumpStep, Hub!CloseFirst, Hub!HubUnregister, Hub!CloseConn,
                       Hub!CloseSecond, Hub!TypeOK
  <2>3. once' \in [{c1} -> {"new", "busy", "over"}] /\ conn' \in [{c1} -> {"up", "gone", "closed"}]
    BY <1>0, <1>10 DEF Hub!PumpStep, Hub!CloseFirst, Hub!HubUnregister, Hub!CloseConn,
                       Hub!CloseSecond, Hub!TypeOK
  <2>4. PICK s \in {"unregister", "closeconn", "ended"} : Hub!Go(c, p, s)
    BY <1>10 DEF Hub!PumpStep, Hub!CloseFirst, Hub!HubUnregister, Hub!CloseConn, Hub!CloseSecond
  <2> QED
    BY <1>0, <2>1, <2>2, <2>3, <2>4, LinkGoes
<1>11. ASSUME NEW m \in Hub!Update, Hub!Publish(m) PROVE LinkInv'
  <2>1. broadcast' \in Seq(Hub!Update) /\ Len(broadcast') <= 1 /\ published' \in 0 .. 1
    BY <1>0, <1>11 DEF Hub!Publish, Hub!TypeOK
  <2>2. Hub!TypeOK'
    BY <1>0, <1>11, <2>1 DEF Hub!Publish, Hub!clientVars, Hub!TypeOK
  <2> QED
    BY <1>11, <2>2 DEF Hub!Publish, Hub!clientVars, LinkInv
<1>12. CASE Hub!HubBroadcast
  <2>1. /\ Head(broadcast) \in Hub!Message
        /\ broadcast' \in Seq(Hub!Update) /\ Len(broadcast') <= 1
    BY <1>0, <1>12 DEF Hub!HubBroadcast, Hub!TypeOK, Hub!Message
  <2> DEFINE m == Head(broadcast)
  <2>2. \A c \in {c1} :
          \/ send'[c] = send[c]
          \/ c \in clients /\ Len(send[c]) < 1 /\ send'[c] = Append(send[c], m)
    BY <1>12 DEF Hub!HubBroadcast
  <2>3. send' = [c \in {c1} |-> send'[c]]
    BY <1>12 DEF Hub!HubBroadcast
  <2> HIDE DEF m
  <2>4. \A c \in {c1} : /\ send'[c] \in Seq(Hub!Message) /\ Len(send'[c]) <= 1
                        /\ handler[c] \in {"none", "registering"} => send'[c] = <<>>
    <3>1. SUFFICES ASSUME NEW c \in {c1}
                   PROVE  /\ send'[c] \in Seq(Hub!Message) /\ Len(send'[c]) <= 1
                          /\ handler[c] \in {"none", "registering"} => send'[c] = <<>>
      OBVIOUS
    <3>2. CASE send'[c] = send[c]
      BY <1>0, <3>2 DEF Hub!TypeOK, LinkInv
    <3>3. CASE c \in clients /\ Len(send[c]) < 1 /\ send'[c] = Append(send[c], m)
      <4>1. m \in Hub!Message /\ send[c] \in Seq(Hub!Message)
        BY <1>0, <2>1 DEF m, Hub!TypeOK
      <4>2. handler[c] \in {"registered", "done"}
        BY <3>3 DEF LinkInv
      <4> QED
        BY <3>3, <4>1, <4>2
    <3> QED
      BY <2>2, <3>2, <3>3
  <2>5. send' \in [{c1} -> Seq(Hub!Message)]
    BY <2>3, <2>4
  <2>6. UNCHANGED <<hub, clients, handler, pump, shut, subs, once, conn, crashed, published, heard>>
    BY <1>12 DEF Hub!HubBroadcast, Hub!boundVars
  <2>7. Hub!TypeOK'
    BY <1>0, <2>1, <2>4, <2>5, <2>6 DEF Hub!TypeOK
  <2> QED
    BY <2>4, <2>6, <2>7 DEF LinkInv
<1>13. CASE Hub!HubStop
  BY <1>0, <1>13 DEF Hub!HubStop, Hub!boundVars, Hub!TypeOK, LinkInv
<1>14. CASE UNCHANGED Hub!vars
  BY <1>0, <1>14 DEF Hub!vars, Hub!clientVars, Hub!boundVars, Hub!TypeOK, LinkInv
<1> QED
  BY <1>1, <1>2, <1>3, <1>4, <1>5, <1>6, <1>7, <1>8, <1>9, <1>10, <1>11, <1>12, <1>13, <1>14
     DEF Hub!Next, Hub!HandlerStep, Hub!ReaderStep, Hub!WriterStep

(* The variables of the sync, of a connection and of the server's          *)
(* lifecycle keep their types; no buffer of the connection overflows.      *)
THEOREM BackgroundTyped == AllSpec => []AllTypesOK
<1> DEFINE I == Inv /\ LifeInv /\ LifeTypes /\ LinkInv
<1>1. AllInit => I
  <2> SUFFICES ASSUME AllInit PROVE LifeTypes
    BY InvInit, LifeInvInit, LinkInvInit DEF AllInit
  <2>1. phase \in Life!Phase
    BY Phases DEF AllInit, Life!Init
  <2>2. moved \in 0 .. MaxMoves /\ slow \in 0 .. MaxSlow
    BY LifeAssumption DEF AllInit, Life!Init
  <2>3. /\ stopping = {} /\ event = None /\ known = {} /\ tracked = {} /\ registered = FALSE
        /\ busy = {} /\ released = {} /\ excuse = {}
    BY DEF AllInit, Life!Init
  <2> QED
    BY <2>1, <2>2, <2>3 DEF LifeTypes
<1>2. I /\ [AllNext]_allVars => I'
  <2> SUFFICES ASSUME I, [AllNext]_allVars PROVE I'
    OBVIOUS
  <2>1. [Next]_vars /\ [Hub!Next]_(Hub!vars) /\ [Life!Next]_(Life!vars)
    BY DEF AllNext, allVars, syncVars, hubsVars, lifeVars, Life!vars, Hub!vars, Hub!clientVars, Hub!boundVars
  <2> QED
    BY <2>1, InvStep, LifeInvStep, LifeTypesStep, LinkInvStep
<1>3. I => AllTypesOK
  BY DEF Inv, LifeInv, WatchersStop, LifeTypes, LinkInv, AllTypesOK, Life!TypeOK
<1> QED
  BY <1>1, <1>2, <1>3, PTL DEF AllSpec

=============================================================================
