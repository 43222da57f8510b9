----------------------- MODULE ProjectPoliciesProofs -----------------------
(***************************************************************************)
(* Proofs about ProjectPolicies, for any number of projects, handlers,     *)
(* specifications, writes, restarts and failures.                          *)
(***************************************************************************)
EXTENDS ProjectPolicies, SequenceTheorems, TLAPS

\* A load installs lines only, never the mark of a rejected one.
LEMMA LoadedLines ==
  ASSUME NEW s \in Specs
  PROVE  Loaded(s) \subseteq Line
<1>1. s \in Seq(Line \cup {Bad})
  BY PoliciesAssumption
<1>2. ASSUME NEW j \in DOMAIN s, \A k \in 1..j : s[k] # Bad
      PROVE  s[j] \in Line
  BY <1>1, <1>2
<1> QED
  BY <1>2 DEF Loaded

-----------------------------------------------------------------------------
(* Types *)

\* A write to Kubernetes keeps the types of what it changes.
LEMMA PutType ==
  ASSUME TypeOK, NEW p \in Project, NEW s \in Specs, Put(p, s)
  PROVE  /\ crd' \in [Project -> Copy \cup {None}]
         /\ rev' \in 0..MaxRev
         /\ written' \in [Project -> SUBSET Specs]
         /\ events' \in [Project -> Seq({"set", "gone"})]
         /\ [rev |-> rev + 1, spec |-> s] \in Copy
<1>1. rev + 1 \in 1..MaxRev /\ rev' \in 0..MaxRev
  BY PoliciesAssumption DEF Put, TypeOK
<1>2. [rev |-> rev + 1, spec |-> s] \in Copy
  BY <1>1 DEF Copy
<1>3. events' \in [Project -> Seq({"set", "gone"})]
  BY DEF Put, Notify, TypeOK
<1>4. crd' \in [Project -> Copy \cup {None}] /\ written' \in [Project -> SUBSET Specs]
  BY <1>2 DEF Put, TypeOK
<1> QED
  BY <1>1, <1>2, <1>3, <1>4

LEMMA DropType ==
  ASSUME TypeOK, NEW p \in Project, Drop(p)
  PROVE  /\ crd' \in [Project -> Copy \cup {None}]
         /\ rev' \in 0..MaxRev
         /\ written' \in [Project -> SUBSET Specs]
         /\ events' \in [Project -> Seq({"set", "gone"})]
  BY DEF Drop, Notify, TypeOK

LEMMA LoadType ==
  ASSUME TypeOK, NEW p \in Project, NEW s \in Specs, Load(p, s)
  PROVE  rules' \in [Project -> SUBSET Line] /\ loadedProjects' \in SUBSET Project
  BY LoadedLines DEF Load, TypeOK

LEMMA RemoveType ==
  ASSUME TypeOK, NEW p \in Project, Remove(p)
  PROVE  rules' \in [Project -> SUBSET Line] /\ loadedProjects' \in SUBSET Project
  BY DEF Remove, TypeOK

\* What a handler has to load or delete.
LEMMA WorkType ==
  ASSUME TypeOK, NEW h \in Handler
  PROVE  /\ handler[h].op = "load" =>
              handler[h].project \in Project /\ handler[h].copy \in Copy
         /\ handler[h].op = "delete" => handler[h].project \in Project
         /\ handler[h] # Idle => handler[h].project \in Project
<1>1. handler[h] \in Work
  BY DEF TypeOK
<1> QED
  BY <1>1 DEF Work, Idle

LEMMA DoType ==
  ASSUME TypeOK, NEW h \in Handler, NEW w \in Work, Do(h, w)
  PROVE  handler' \in [Handler -> Work]
  BY DEF Do, TypeOK

LEMMA HandledType ==
  ASSUME TypeOK, NEW p \in Project, events[p] # <<>>, Handled(p)
  PROVE  events' \in [Project -> Seq({"set", "gone"})]
  BY DEF Handled, TypeOK

LEMMA FailType ==
  ASSUME TypeOK, ApiFails
  PROVE  phase' \in {"boot", "up"} /\ restarts' \in 0..MaxRestarts /\ failures' \in 0..MaxFailures
  BY PoliciesAssumption DEF ApiFails, TypeOK

LEMMA TypeStep ==
  ASSUME TypeOK, [Next]_vars
  PROVE  TypeOK'
<1> Idle \in Work
  BY DEF Work
<1>1. ASSUME NEW p \in Project, NEW s \in Specs, KubeWrite(p, s)
      PROVE  TypeOK'
  BY <1>1, PutType DEF KubeWrite, TypeOK, casbinVars, lifeVars
<1>2. ASSUME NEW p \in Project, KubeDelete(p)
      PROVE  TypeOK'
  BY <1>2, DropType DEF KubeDelete, TypeOK, casbinVars, lifeVars
<1>3. ASSUME NEW h \in Handler, NEW p \in Project, NEW s \in Specs, HandlerWrites(h, p, s)
      PROVE  TypeOK'
  <2>1. Put(p, s) /\ Do(h, [op |-> "load", project |-> p,
                            copy |-> [rev |-> rev + 1, spec |-> s]])
    BY <1>3 DEF HandlerWrites
  <2>2. [op |-> "load", project |-> p, copy |-> [rev |-> rev + 1, spec |-> s]] \in Work
    BY <2>1, PutType DEF Work
  <2>3. handler' \in [Handler -> Work]
    BY <2>1, <2>2, DoType
  <2> QED
    BY <1>3, <2>1, <2>3, PutType DEF HandlerWrites, TypeOK, casbinVars, lifeVars
<1>4. ASSUME NEW h \in Handler, HandlerLoads(h)
      PROVE  TypeOK'
  <2>1. handler[h].project \in Project /\ handler[h].copy \in Copy
    BY <1>4, WorkType DEF HandlerLoads
  <2>2. handler[h].copy.spec \in Specs
    BY <2>1 DEF Copy
  <2>3. rules' \in [Project -> SUBSET Line] /\ loadedProjects' \in SUBSET Project
    BY <1>4, <2>1, <2>2, LoadType DEF HandlerLoads
  <2>4. astray' \in SUBSET Project
    BY <1>4, <2>1 DEF HandlerLoads, LoadedFrom, TypeOK
  <2>5. handler' \in [Handler -> Work]
    BY <1>4, DoType DEF HandlerLoads
  <2> QED
    BY <1>4, <2>3, <2>4, <2>5 DEF HandlerLoads, TypeOK, apiVars, lifeVars
<1>5. ASSUME NEW h \in Handler, NEW p \in Project, HandlerRemoves(h, p)
      PROVE  TypeOK'
  <2>1. [op |-> "delete", project |-> p] \in Work
    BY DEF Work
  <2>2. handler' \in [Handler -> Work]
    BY <1>5, <2>1, DoType DEF HandlerRemoves
  <2> QED
    BY <1>5, <2>2, RemoveType DEF HandlerRemoves, TypeOK, apiVars, lifeVars
<1>6. ASSUME NEW h \in Handler, HandlerDeletes(h)
      PROVE  TypeOK'
  <2>1. handler[h].project \in Project
    BY <1>6, WorkType DEF HandlerDeletes
  <2>2. handler' \in [Handler -> Work]
    BY <1>6, DoType DEF HandlerDeletes
  <2>3. CASE Drop(handler[h].project)
    BY <1>6, <2>1, <2>2, <2>3, DropType DEF HandlerDeletes, TypeOK, casbinVars, lifeVars
  <2>4. CASE UNCHANGED <<apiVars, events>>
    BY <1>6, <2>2, <2>4 DEF HandlerDeletes, TypeOK, apiVars, casbinVars, lifeVars
  <2> QED
    BY <1>6, <2>3, <2>4 DEF HandlerDeletes
<1>7. ASSUME NEW h \in Handler, HandlerDeleteFails(h)
      PROVE  TypeOK'
  <2>1. handler[h].project \in Project
    BY <1>7, WorkType DEF HandlerDeleteFails
  <2>2. handler' \in [Handler -> Work]
    BY <1>7, DoType DEF HandlerDeleteFails
  <2> QED
    BY <1>7, <2>1, <2>2, FailType DEF HandlerDeleteFails, TypeOK, apiVars, casbinVars
<1>8. ASSUME NEW p \in Project, WatcherReads(p)
      PROVE  TypeOK'
  <2>1. events' \in [Project -> Seq({"set", "gone"})]
    BY <1>8, HandledType DEF WatcherReads
  <2>2. crd[p] \in Copy \cup {None}
    BY DEF TypeOK
  <2>3. watcher' \in [project : Project, copy : Copy] \cup {None}
    BY <1>8, <2>2 DEF WatcherReads
  <2> QED
    BY <1>8, <2>1, <2>3 DEF WatcherReads, TypeOK, apiVars, casbinVars, lifeVars
<1>9. ASSUME NEW p \in Project, WatcherReadFails(p)
      PROVE  TypeOK'
  <2>1. events' \in [Project -> Seq({"set", "gone"})]
    BY <1>9, HandledType DEF WatcherReadFails
  <2> QED
    BY <1>9, <2>1, FailType DEF WatcherReadFails, TypeOK, apiVars, casbinVars
<1>10. ASSUME NEW p \in Project, WatcherRemoves(p)
       PROVE  TypeOK'
  <2>1. events' \in [Project -> Seq({"set", "gone"})]
    BY <1>10, HandledType DEF WatcherRemoves
  <2> QED
    BY <1>10, <2>1, RemoveType DEF WatcherRemoves, TypeOK, apiVars, lifeVars
<1>11. ASSUME WatcherLoads
       PROVE  TypeOK'
  <2>1. watcher.project \in Project /\ watcher.copy.spec \in Specs
    BY <1>11 DEF WatcherLoads, TypeOK, Copy
  <2>2. rules' \in [Project -> SUBSET Line] /\ loadedProjects' \in SUBSET Project
    BY <1>11, <2>1, LoadType DEF WatcherLoads
  <2>3. astray' \in SUBSET Project
    BY <1>11, <2>1 DEF WatcherLoads, LoadedFrom, TypeOK
  <2> QED
    BY <1>11, <2>2, <2>3 DEF WatcherLoads, TypeOK, apiVars, lifeVars
<1>12. ASSUME SyncLists
       PROVE  TypeOK'
  BY <1>12 DEF SyncLists, TypeOK, apiVars, casbinVars, lifeVars
<1>13. ASSUME SyncApplies
       PROVE  TypeOK'
  <2>1. snapshot \in [Project -> Copy \cup {None}]
    BY <1>13 DEF SyncApplies, TypeOK
  <2>2. \A p \in Project : snapshot[p] # None => Loaded(snapshot[p].spec) \subseteq Line
    BY <2>1, LoadedLines DEF Copy
  <2>3. rules' \in [Project -> SUBSET Line]
    BY <1>13, <2>2 DEF SyncApplies, TypeOK
  <2> QED
    BY <1>13, <2>3 DEF SyncApplies, TypeOK, apiVars, lifeVars
<1>14. ASSUME GoUp
       PROVE  TypeOK'
  <2>1. <<>> \in Seq({"set", "gone"}) /\ <<"set">> \in Seq({"set", "gone"})
    OBVIOUS
  <2>2. events' \in [Project -> Seq({"set", "gone"})]
    BY <1>14, <2>1 DEF GoUp
  <2>3. astray' \in SUBSET Project
    BY <1>14 DEF GoUp
  <2> QED
    BY <1>14, <2>2, <2>3 DEF GoUp, TypeOK, apiVars, casbinVars
<1>15. ASSUME Restart
       PROVE  TypeOK'
  BY <1>15, PoliciesAssumption DEF Restart, TypeOK, apiVars
<1>16. ASSUME UNCHANGED vars
       PROVE  TypeOK'
  BY <1>16 DEF vars, TypeOK, apiVars, casbinVars, lifeVars
<1> QED
  BY <1>1, <1>2, <1>3, <1>4, <1>5, <1>6, <1>7, <1>8, <1>9, <1>10, <1>11, <1>12,
     <1>13, <1>14, <1>15, <1>16 DEF Next

(* Every variable keeps its type, whatever the bounds.                     *)
THEOREM TypeCorrect == Spec => []TypeOK
<1>1. Init => TypeOK
  BY PoliciesAssumption DEF Init, TypeOK, Work
<1> QED
  BY <1>1, TypeStep, PTL DEF Spec

-----------------------------------------------------------------------------
(* Copies that are still to be loaded *)

\* Whatever copy of a project is in somebody's hands, the project once had
\* that specification.
CopiesAreWritten ==
  /\ \A p \in Project : crd[p] # None => crd[p].spec \in written[p]
  /\ watcher # None => watcher.copy.spec \in written[watcher.project]
  /\ snapshot # None =>
       \A p \in Project : snapshot[p] # None => snapshot[p].spec \in written[p]
  /\ \A h \in Handler :
       handler[h].op = "load" => handler[h].copy.spec \in written[handler[h].project]

\* The event that comes last says whether the project exists.
LastEventIsCurrent ==
  phase = "up" =>
    \A p \in Project : events[p] # <<>> =>
      events[p][Len(events[p])] = IF crd[p] = None THEN "gone" ELSE "set"

\* Before the server is up, it serves nobody and hears of nothing.
QuietAtBoot ==
  phase = "boot" =>
    (\A h \in Handler : handler[h] = Idle) /\ (\A p \in Project : events[p] = <<>>)

\* For a project that is gone, events and outdated loads are the only reasons
\* to find lines of it.
GoneIsExplained ==
  \A p \in Project : crd[p] = None =>
    InStep(p) \/ phase = "boot" \/ events[p] # <<>> \/ p \in astray

Inv ==
  /\ TypeOK /\ CopiesAreWritten /\ SingleVersion /\ LeftoversAreTracked
  /\ LastEventIsCurrent /\ QuietAtBoot /\ GoneIsExplained /\ BehindIsExplained

\* Specifications are added to the history of a project, never taken from it.
LEMMA HistoryGrows ==
  ASSUME TypeOK, [Next]_vars
  PROVE  \A p \in Project : written[p] \subseteq written'[p]
<1>1. ASSUME NEW p \in Project, NEW s \in Specs, Put(p, s)
      PROVE  \A q \in Project : written[q] \subseteq written'[q]
  BY <1>1 DEF Put, TypeOK
<1>2. ASSUME UNCHANGED written
      PROVE  \A q \in Project : written[q] \subseteq written'[q]
  BY <1>2
<1> QED
  BY <1>1, <1>2 DEF Next, KubeWrite, KubeDelete, HandlerWrites, HandlerLoads, HandlerRemoves,
     HandlerDeletes, HandlerDeleteFails, WatcherReads, WatcherReadFails, WatcherRemoves,
     WatcherLoads, SyncLists, SyncApplies, GoUp, Restart, Drop, vars, apiVars

\* The written specification is in the history, and so are all the others.
LEMMA PutCopies ==
  ASSUME TypeOK, CopiesAreWritten, NEW p \in Project, NEW s \in Specs, Put(p, s)
  PROVE  /\ \A q \in Project : crd'[q] # None => crd'[q].spec \in written'[q]
         /\ s \in written'[p]
BY DEF Put, TypeOK, CopiesAreWritten

LEMMA DropCopies ==
  ASSUME TypeOK, CopiesAreWritten, NEW p \in Project, Drop(p)
  PROVE  \A q \in Project : crd'[q] # None => crd'[q].spec \in written'[q]
BY DEF Drop, TypeOK, CopiesAreWritten

LEMMA CopiesStep ==
  ASSUME TypeOK, CopiesAreWritten, [Next]_vars
  PROVE  CopiesAreWritten'
<1>0. \A p \in Project : written[p] \subseteq written'[p]
  BY HistoryGrows
<1>a. \A h \in Handler : handler[h].op = "load" => handler[h].project \in Project
  BY WorkType
<1>b. watcher # None => watcher.project \in Project
  BY DEF TypeOK
\* A step that writes no project and takes no new copy.
<1>c. ASSUME UNCHANGED crd,
             watcher' = watcher \/ watcher' = None,
             snapshot' = snapshot \/ snapshot' = None,
             \A h \in Handler : handler'[h] = handler[h] \/ handler'[h].op # "load"
      PROVE  CopiesAreWritten'
  BY <1>0, <1>a, <1>b, <1>c DEF CopiesAreWritten
<1>d. \A h \in Handler, w \in Work :
        Do(h, w) => \A g \in Handler : handler'[g] = IF g = h THEN w ELSE handler[g]
  BY DEF Do, TypeOK
<1>e. Idle \in Work /\ Idle.op = "idle"
  BY DEF Work, Idle
<1>1. ASSUME NEW p \in Project, NEW s \in Specs, KubeWrite(p, s)
      PROVE  CopiesAreWritten'
  BY <1>0, <1>a, <1>b, <1>1, PutCopies DEF KubeWrite, CopiesAreWritten
<1>2. ASSUME NEW p \in Project, KubeDelete(p)
      PROVE  CopiesAreWritten'
  BY <1>0, <1>a, <1>b, <1>2, DropCopies DEF KubeDelete, CopiesAreWritten
<1>3. ASSUME NEW h \in Handler, NEW p \in Project, NEW s \in Specs, HandlerWrites(h, p, s)
      PROVE  CopiesAreWritten'
  <2> DEFINE w == [op |-> "load", project |-> p, copy |-> [rev |-> rev + 1, spec |-> s]]
  <2>1. Put(p, s) /\ Do(h, w)
    BY <1>3 DEF HandlerWrites
  <2>2. w \in Work
    BY <2>1, PutType DEF Work
  <2>3. \A g \in Handler : handler'[g] = IF g = h THEN w ELSE handler[g]
    BY <2>1, <2>2, <1>d
  <2>4. \A g \in Handler :
          handler'[g].op = "load" => handler'[g].copy.spec \in written'[handler'[g].project]
    BY <2>1, <2>3, <1>0, <1>a, PutCopies DEF CopiesAreWritten
  <2> HIDE DEF w
  <2> QED
    BY <1>0, <1>b, <1>3, <2>1, <2>4, PutCopies DEF HandlerWrites, CopiesAreWritten
<1>4. ASSUME NEW h \in Handler, HandlerLoads(h)
      PROVE  CopiesAreWritten'
  BY <1>4, <1>c, <1>d, <1>e DEF HandlerLoads, apiVars
<1>5. ASSUME NEW h \in Handler, NEW p \in Project, HandlerRemoves(h, p)
      PROVE  CopiesAreWritten'
  <2>1. [op |-> "delete", project |-> p] \in Work
    BY DEF Work
  <2> QED
    BY <1>5, <2>1, <1>c, <1>d DEF HandlerRemoves, apiVars
<1>6. ASSUME NEW h \in Handler, HandlerDeletes(h)
      PROVE  CopiesAreWritten'
  <2>1. handler[h].project \in Project
    BY <1>6, WorkType DEF HandlerDeletes
  <2>2. \A g \in Handler : handler'[g] = handler[g] \/ handler'[g].op # "load"
    BY <1>6, <1>d, <1>e DEF HandlerDeletes
  <2>3. CASE Drop(handler[h].project)
    BY <1>6, <2>1, <2>2, <2>3, <1>0, <1>a, <1>b, DropCopies DEF HandlerDeletes, CopiesAreWritten
  <2>4. CASE UNCHANGED apiVars
    BY <1>6, <2>2, <2>4, <1>c DEF HandlerDeletes, apiVars
  <2> QED
    BY <1>6, <2>3, <2>4 DEF HandlerDeletes
<1>7. ASSUME NEW h \in Handler, HandlerDeleteFails(h)
      PROVE  CopiesAreWritten'
  BY <1>7, <1>c, <1>d, <1>e DEF HandlerDeleteFails, apiVars
<1>8. ASSUME NEW p \in Project, WatcherReads(p)
      PROVE  CopiesAreWritten'
  <2>1. watcher' # None =>
          watcher'.copy.spec \in written'[watcher'.project]
    BY <1>8, <1>0 DEF WatcherReads, CopiesAreWritten
  <2> QED
    BY <1>8, <2>1, <1>0, <1>a DEF WatcherReads, CopiesAreWritten, apiVars
<1>9. ASSUME NEW p \in Project, WatcherReadFails(p) \/ WatcherRemoves(p)
      PROVE  CopiesAreWritten'
  BY <1>9, <1>c DEF WatcherReadFails, WatcherRemoves, apiVars
<1>10. ASSUME WatcherLoads \/ SyncApplies \/ GoUp
       PROVE  CopiesAreWritten'
  BY <1>10, <1>c DEF WatcherLoads, SyncApplies, GoUp, apiVars
<1>11. ASSUME SyncLists
       PROVE  CopiesAreWritten'
  BY <1>11, <1>0, <1>a, <1>b DEF SyncLists, CopiesAreWritten, apiVars
<1>12. ASSUME Restart
       PROVE  CopiesAreWritten'
  BY <1>12, <1>c, <1>e DEF Restart, apiVars
<1>13. ASSUME UNCHANGED vars
       PROVE  CopiesAreWritten'
  BY <1>13, <1>c DEF vars, apiVars
<1> QED
  BY <1>1, <1>2, <1>3, <1>4, <1>5, <1>6, <1>7, <1>8, <1>9, <1>10, <1>11, <1>12, <1>13
     DEF Next

-----------------------------------------------------------------------------
(* What is installed *)

\* Loading a specification the project had leaves it with that one alone, and
\* tracked unless a line was rejected.
LEMMA LoadRules ==
  ASSUME TypeOK, SingleVersion, LeftoversAreTracked, NEW p \in Project,
         NEW s \in written[p], Load(p, s), UNCHANGED written
  PROVE  SingleVersion' /\ LeftoversAreTracked'
BY DEF TypeOK, SingleVersion, LeftoversAreTracked, HalfLoaded, Load

LEMMA RemoveRules ==
  ASSUME TypeOK, SingleVersion, LeftoversAreTracked, NEW p \in Project,
         Remove(p), UNCHANGED written
  PROVE  SingleVersion' /\ LeftoversAreTracked'
BY DEF TypeOK, SingleVersion, LeftoversAreTracked, HalfLoaded, Remove

\* A longer history explains what a shorter one did.
LEMMA KeepRules ==
  ASSUME SingleVersion, LeftoversAreTracked, UNCHANGED casbinVars,
         \A p \in Project : written[p] \subseteq written'[p]
  PROVE  SingleVersion' /\ LeftoversAreTracked'
BY DEF SingleVersion, LeftoversAreTracked, HalfLoaded, casbinVars

LEMMA RulesStep ==
  ASSUME TypeOK, CopiesAreWritten, SingleVersion, LeftoversAreTracked, [Next]_vars
  PROVE  SingleVersion' /\ LeftoversAreTracked'
<1>0. \A p \in Project : written[p] \subseteq written'[p]
  BY HistoryGrows
<1>1. ASSUME UNCHANGED casbinVars
      PROVE  SingleVersion' /\ LeftoversAreTracked'
  BY <1>0, <1>1, KeepRules
<1>2. ASSUME NEW h \in Handler, HandlerLoads(h)
      PROVE  SingleVersion' /\ LeftoversAreTracked'
  <2>1. handler[h].project \in Project
    BY <1>2, WorkType DEF HandlerLoads
  <2>2. handler[h].copy.spec \in written[handler[h].project]
    BY <1>2 DEF HandlerLoads, CopiesAreWritten
  <2> QED
    BY <1>2, <2>1, <2>2, LoadRules DEF HandlerLoads, apiVars
<1>3. ASSUME NEW h \in Handler, NEW p \in Project, HandlerRemoves(h, p)
      PROVE  SingleVersion' /\ LeftoversAreTracked'
  BY <1>3, RemoveRules DEF HandlerRemoves, apiVars
<1>4. ASSUME NEW p \in Project, WatcherRemoves(p)
      PROVE  SingleVersion' /\ LeftoversAreTracked'
  BY <1>4, RemoveRules DEF WatcherRemoves, apiVars
<1>5. ASSUME WatcherLoads
      PROVE  SingleVersion' /\ LeftoversAreTracked'
  <2>1. watcher.project \in Project /\ watcher.copy.spec \in written[watcher.project]
    BY <1>5 DEF WatcherLoads, TypeOK, CopiesAreWritten
  <2> QED
    BY <1>5, <2>1, LoadRules DEF WatcherLoads, apiVars
<1>6. ASSUME SyncApplies
      PROVE  SingleVersion' /\ LeftoversAreTracked'
  <2>1. \A p \in Project : snapshot[p] # None => snapshot[p].spec \in written[p]
    BY <1>6 DEF SyncApplies, CopiesAreWritten
  <2>2. written' = written
    BY <1>6 DEF SyncApplies, apiVars
  <2>3. SUFFICES ASSUME NEW p \in Project
        PROVE  /\ rules'[p] = {} \/ \E s \in written[p] : rules'[p] = Loaded(s)
               /\ rules'[p] # {} =>
                    \/ p \in loadedProjects'
                    \/ \E s \in written[p] : ~Valid(s) /\ rules'[p] = Loaded(s)
    BY <2>2 DEF SingleVersion, LeftoversAreTracked, HalfLoaded
  <2>4. CASE snapshot[p] # None
    <3>1. rules'[p] = Loaded(snapshot[p].spec)
      BY <1>6, <2>4 DEF SyncApplies
    <3>2. Valid(snapshot[p].spec) => p \in loadedProjects'
      BY <1>6, <2>4 DEF SyncApplies
    <3> QED
      BY <2>1, <2>4, <3>1, <3>2
  <2>5. CASE snapshot[p] = None
    BY <1>6, <2>5 DEF SyncApplies, SingleVersion, LeftoversAreTracked, HalfLoaded
  <2> QED
    BY <2>4, <2>5
<1>7. ASSUME Restart
      PROVE  SingleVersion' /\ LeftoversAreTracked'
  BY <1>7 DEF Restart, SingleVersion, LeftoversAreTracked
<1> QED
  BY <1>1, <1>2, <1>3, <1>4, <1>5, <1>6, <1>7 DEF Next, KubeWrite, KubeDelete,
     HandlerWrites, HandlerDeletes, HandlerDeleteFails, WatcherReads, WatcherReadFails,
     SyncLists, GoUp, vars

-----------------------------------------------------------------------------
(* Events and requests *)

\* Put and Drop leave an event of their own at the end, if the server is up.
LEMMA NotifyEnds ==
  ASSUME TypeOK, LastEventIsCurrent, UNCHANGED phase, NEW p \in Project,
         NEW e \in {"set", "gone"}, Notify(p, e),
         \A q \in Project \ {p} : crd'[q] = crd[q],
         crd'[p] = None <=> e = "gone"
  PROVE  /\ LastEventIsCurrent'
         /\ phase = "up" => events'[p] # <<>>
         /\ \A q \in Project : events[q] # <<>> => events'[q] # <<>>
<1>1. CASE phase = "up"
  <2>1. \A q \in Project : events'[q] = IF q = p THEN Append(events[p], e) ELSE events[q]
    BY <1>1 DEF Notify, TypeOK
  <2>2. events[p] \in Seq({"set", "gone"})
    BY DEF TypeOK
  <2>3. Append(events[p], e) # <<>> /\ Append(events[p], e)[Len(Append(events[p], e))] = e
    BY <2>2
  <2> QED
    BY <1>1, <2>1, <2>3 DEF LastEventIsCurrent
<1>2. CASE phase # "up"
  BY <1>2 DEF Notify, LastEventIsCurrent
<1> QED
  BY <1>1, <1>2

LEMMA PutEnds ==
  ASSUME TypeOK, LastEventIsCurrent, UNCHANGED phase,
         NEW p \in Project, NEW s \in Specs, Put(p, s)
  PROVE  /\ LastEventIsCurrent'
         /\ phase = "up" => events'[p] # <<>>
         /\ \A q \in Project : events[q] # <<>> => events'[q] # <<>>
         /\ \A q \in Project \ {p} : crd'[q] = crd[q]
<1>1. crd'[p] = [rev |-> rev + 1, spec |-> s] /\ \A q \in Project \ {p} : crd'[q] = crd[q]
  BY DEF Put, TypeOK
<1>2. [rev |-> rev + 1, spec |-> s] # None
  BY PoliciesAssumption DEF TypeOK
<1> QED
  BY <1>1, <1>2, NotifyEnds DEF Put

LEMMA DropEnds ==
  ASSUME TypeOK, LastEventIsCurrent, UNCHANGED phase, NEW p \in Project, Drop(p)
  PROVE  /\ LastEventIsCurrent'
         /\ phase = "up" => events'[p] # <<>>
         /\ \A q \in Project : events[q] # <<>> => events'[q] # <<>>
         /\ \A q \in Project \ {p} : crd'[q] = crd[q]
<1>1. crd'[p] = None /\ \A q \in Project \ {p} : crd'[q] = crd[q]
  BY DEF Drop, TypeOK
<1> QED
  BY <1>1, NotifyEnds DEF Drop

\* Taking the head of a sequence off leaves its end alone.
LEMMA TailEnds ==
  ASSUME NEW S, NEW s \in Seq(S), s # <<>>
  PROVE  IF Tail(s) = <<>> THEN s[Len(s)] = Head(s)
                           ELSE Tail(s)[Len(Tail(s))] = s[Len(s)]
<1>1. Len(s) \in Nat \ {0} /\ Len(Tail(s)) = Len(s) - 1
  BY EmptySeq
<1>2. Tail(s) \in Seq(S) /\ \A i \in 1..(Len(s) - 1) : Tail(s)[i] = s[i + 1]
  BY <1>1, HeadTailProperties
<1>3. CASE Tail(s) = <<>>
  <2>1. \A n \in Nat \ {0} : n - 1 = 0 => n = 1
    OBVIOUS
  <2>2. Len(Tail(s)) = 0
    <3>1. Len(<<>>) = 0
      OBVIOUS
    <3> QED
      BY <1>3, <3>1, Zenon
  <2>3. Len(s) = 1
    BY <1>1, <2>1, <2>2
  <2> QED
    BY <1>3, <2>3
<1>4. CASE Tail(s) # <<>>
  <2>1. Len(Tail(s)) # 0
    BY <1>2, <1>4, EmptySeq
  <2>2. Len(s) - 1 \in 1..(Len(s) - 1) /\ (Len(s) - 1) + 1 = Len(s)
    BY <1>1, <2>1
  <2> QED
    BY <1>1, <1>2, <1>4, <2>2
<1> QED
  BY <1>3, <1>4

\* An event that was handled leaves the last one in place; if it contradicts
\* what the project is now, there is another one.
LEMMA HandledEnds ==
  ASSUME TypeOK, LastEventIsCurrent, phase = "up", UNCHANGED crd, NEW p \in Project,
         events[p] # <<>>, Handled(p)
  PROVE  /\ LastEventIsCurrent'
         /\ \A q \in Project \ {p} : events'[q] = events[q]
         /\ Head(events[p]) # (IF crd[p] = None THEN "gone" ELSE "set") => events'[p] # <<>>
<1>1. \A q \in Project : events'[q] = IF q = p THEN Tail(events[p]) ELSE events[q]
  BY DEF Handled, TypeOK
<1>2. events[p] \in Seq({"set", "gone"})
  BY DEF TypeOK
<1>3. events[p][Len(events[p])] = IF crd[p] = None THEN "gone" ELSE "set"
  BY DEF LastEventIsCurrent
<1>4. IF Tail(events[p]) = <<>> THEN events[p][Len(events[p])] = Head(events[p])
                                ELSE Tail(events[p])[Len(Tail(events[p]))] = events[p][Len(events[p])]
  BY <1>2, TailEnds
<1> QED
  BY <1>1, <1>3, <1>4 DEF LastEventIsCurrent

LEMMA EventsStep ==
  ASSUME TypeOK, LastEventIsCurrent, QuietAtBoot, [Next]_vars
  PROVE  LastEventIsCurrent' /\ QuietAtBoot'
<1>a. phase \in {"boot", "up"}
  BY DEF TypeOK
\* Before the server is up, changes of a project are not heard of.
<1>b. ASSUME NEW p \in Project, NEW e \in {"set", "gone"}, Notify(p, e),
             UNCHANGED <<handler, phase>>
      PROVE  QuietAtBoot'
  BY <1>a, <1>b DEF Notify, QuietAtBoot
<1>c. ASSUME UNCHANGED <<crd, events, phase>>
      PROVE  LastEventIsCurrent'
  BY <1>c DEF LastEventIsCurrent
<1>d. ASSUME UNCHANGED <<events, phase>>, phase = "up" \/ UNCHANGED handler
      PROVE  QuietAtBoot'
  BY <1>d DEF QuietAtBoot
<1>e. \A p \in Project : events[p] # <<>> => phase = "up"
  BY <1>a DEF QuietAtBoot
<1>f. \A h \in Handler : handler[h] # Idle => phase = "up"
  BY <1>a DEF QuietAtBoot
<1>g. \A h \in Handler : handler[h].op # "idle" => phase = "up"
  BY <1>f DEF Idle
<1>1. ASSUME NEW p \in Project, NEW s \in Specs, KubeWrite(p, s)
      PROVE  LastEventIsCurrent' /\ QuietAtBoot'
  BY <1>1, <1>b, PutEnds DEF KubeWrite, Put, lifeVars
<1>2. ASSUME NEW p \in Project, KubeDelete(p)
      PROVE  LastEventIsCurrent' /\ QuietAtBoot'
  BY <1>2, <1>b, DropEnds DEF KubeDelete, Drop, lifeVars
<1>3. ASSUME NEW h \in Handler, NEW p \in Project, NEW s \in Specs, HandlerWrites(h, p, s)
      PROVE  LastEventIsCurrent' /\ QuietAtBoot'
  <2>1. Put(p, s) /\ phase' = phase /\ phase = "up"
    BY <1>3 DEF HandlerWrites, lifeVars
  <2>2. QuietAtBoot'
    BY <2>1 DEF QuietAtBoot
  <2> QED
    BY <2>1, <2>2, PutEnds
<1>4. ASSUME NEW h \in Handler, HandlerLoads(h)
      PROVE  LastEventIsCurrent' /\ QuietAtBoot'
  BY <1>4, <1>c, <1>d, <1>g DEF HandlerLoads, apiVars, lifeVars
<1>5. ASSUME NEW h \in Handler, NEW p \in Project, HandlerRemoves(h, p)
      PROVE  LastEventIsCurrent' /\ QuietAtBoot'
  BY <1>5, <1>c, <1>d DEF HandlerRemoves, apiVars, lifeVars
<1>6. ASSUME NEW h \in Handler, HandlerDeletes(h)
      PROVE  LastEventIsCurrent' /\ QuietAtBoot'
  <2>1. phase = "up" /\ phase' = phase /\ handler[h].project \in Project
    BY <1>6, <1>g, WorkType DEF HandlerDeletes, lifeVars
  <2>2. QuietAtBoot'
    BY <2>1 DEF QuietAtBoot
  <2>3. CASE Drop(handler[h].project)
    BY <2>1, <2>2, <2>3, DropEnds
  <2>4. CASE UNCHANGED <<apiVars, events>>
    BY <2>1, <2>2, <2>4, <1>c DEF apiVars
  <2> QED
    BY <1>6, <2>3, <2>4 DEF HandlerDeletes
<1>7. ASSUME NEW h \in Handler, HandlerDeleteFails(h)
      PROVE  LastEventIsCurrent' /\ QuietAtBoot'
  BY <1>7, <1>c, <1>d, <1>g DEF HandlerDeleteFails, ApiFails, apiVars
<1>8. ASSUME NEW p \in Project, WatcherReads(p) \/ WatcherReadFails(p) \/ WatcherRemoves(p)
      PROVE  LastEventIsCurrent' /\ QuietAtBoot'
  <2>1. events[p] # <<>> /\ Handled(p) /\ UNCHANGED <<crd, phase>>
    BY <1>8 DEF WatcherReads, WatcherReadFails, WatcherRemoves, ApiFails, apiVars, lifeVars
  <2>2. phase = "up"
    BY <2>1, <1>e
  <2> QED
    BY <2>1, <2>2, HandledEnds DEF QuietAtBoot
<1>9. ASSUME WatcherLoads \/ SyncLists \/ SyncApplies
      PROVE  LastEventIsCurrent' /\ QuietAtBoot'
  BY <1>9, <1>c, <1>d DEF WatcherLoads, SyncLists, SyncApplies, apiVars, lifeVars
<1>10. ASSUME GoUp
       PROVE  LastEventIsCurrent' /\ QuietAtBoot'
  <2>1. \A p \in Project : events'[p] = IF crd[p] = None THEN <<>> ELSE <<"set">>
    BY <1>10 DEF GoUp
  <2>2. Len(<<"set">>) = 1 /\ <<"set">>[1] = "set"
    OBVIOUS
  <2>3. LastEventIsCurrent'
    BY <1>10, <2>1, <2>2 DEF GoUp, LastEventIsCurrent, apiVars
  <2> QED
    BY <1>10, <2>3 DEF GoUp, QuietAtBoot
<1>11. ASSUME Restart
       PROVE  LastEventIsCurrent' /\ QuietAtBoot'
  BY <1>11 DEF Restart, LastEventIsCurrent, QuietAtBoot
<1>12. ASSUME UNCHANGED vars
       PROVE  LastEventIsCurrent' /\ QuietAtBoot'
  BY <1>12, <1>c, <1>d DEF vars, apiVars, lifeVars
<1> QED
  BY <1>1, <1>2, <1>3, <1>4, <1>5, <1>6, <1>7, <1>8, <1>9, <1>10, <1>11, <1>12 DEF Next

-----------------------------------------------------------------------------
(* Why a project can be out of step *)

Explained(p) ==
  \/ InStep(p) \/ p \in astray \/ events[p] # <<>> \/ phase = "boot"
  \/ crd[p] # None /\ Pending(p)

LEMMA ExplainedBoth ==
  (\A p \in Project : Explained(p)) <=> GoneIsExplained /\ BehindIsExplained
BY DEF Explained, GoneIsExplained, BehindIsExplained, Pending

\* A step that does not touch a project explains it as before.
LEMMA Untouched ==
  ASSUME NEW p \in Project, Explained(p),
         crd'[p] = crd[p], rules'[p] = rules[p], phase' = phase,
         p \in astray => p \in astray',
         events[p] # <<>> => events'[p] # <<>>,
         crd[p] # None =>
           /\ watcher # None /\ watcher.project = p =>
                watcher' # None /\ watcher'.project = p
           /\ \A h \in Handler : handler[h] # Idle /\ handler[h].project = p =>
                handler'[h] # Idle /\ handler'[h].project = p
  PROVE  Explained(p)'
BY DEF Explained, InStep, Pending

\* Loading a copy puts the project in step, or astray.
LEMMA LoadExplains ==
  ASSUME TypeOK, NEW p \in Project, NEW copy \in Copy, UNCHANGED crd,
         Load(p, copy.spec), LoadedFrom(p, copy)
  PROVE  /\ Explained(p)'
         /\ \A q \in Project \ {p} :
              rules'[q] = rules[q] /\ (q \in astray => q \in astray')
<1>1. copy # None
  BY PoliciesAssumption DEF Copy
<1>2. CASE copy = crd[p]
  BY <1>1, <1>2 DEF Load, LoadedFrom, Explained, InStep, TypeOK
<1>3. CASE copy # crd[p]
  BY <1>3 DEF Load, LoadedFrom, Explained, TypeOK
<1> QED
  BY <1>2, <1>3

LEMMA ExplainedStep ==
  ASSUME TypeOK, LastEventIsCurrent, QuietAtBoot, \A p \in Project : Explained(p),
         [Next]_vars, NEW q \in Project
  PROVE  Explained(q)'
<1>a. phase \in {"boot", "up"}
  BY DEF TypeOK
<1>b. \A p \in Project : events[p] # <<>> => phase = "up"
  BY <1>a DEF QuietAtBoot
<1>c. \A h \in Handler, w \in Work :
        Do(h, w) => \A g \in Handler : handler'[g] = IF g = h THEN w ELSE handler[g]
  BY DEF Do, TypeOK
<1>d. Idle \in Work
  BY DEF Work
<1>e. ASSUME events'[q] # <<>> PROVE Explained(q)'
  BY <1>e DEF Explained
<1>f. ASSUME phase' = "boot" PROVE Explained(q)'
  BY <1>f DEF Explained
<1>g. ASSUME q \in astray' PROVE Explained(q)'
  BY <1>g DEF Explained
<1>1. ASSUME NEW p \in Project, NEW s \in Specs, KubeWrite(p, s)
      PROVE  Explained(q)'
  <2>1. Put(p, s) /\ phase' = phase /\ UNCHANGED <<rules, watcher, handler, astray>>
    BY <1>1 DEF KubeWrite, lifeVars, casbinVars
  <2>2. CASE q = p
    BY <1>a, <1>e, <1>f, <2>1, <2>2, PutEnds
  <2>3. CASE q # p
    BY <2>1, <2>3, PutEnds, Untouched
  <2> QED
    BY <2>2, <2>3
<1>2. ASSUME NEW p \in Project, KubeDelete(p)
      PROVE  Explained(q)'
  <2>1. Drop(p) /\ phase' = phase /\ UNCHANGED <<rules, watcher, handler, astray>>
    BY <1>2 DEF KubeDelete, lifeVars, casbinVars
  <2>2. CASE q = p
    BY <1>a, <1>e, <1>f, <2>1, <2>2, DropEnds
  <2>3. CASE q # p
    BY <2>1, <2>3, DropEnds, Untouched
  <2> QED
    BY <2>2, <2>3
<1>3. ASSUME NEW h \in Handler, NEW p \in Project, NEW s \in Specs, HandlerWrites(h, p, s)
      PROVE  Explained(q)'
  <2>1. /\ Put(p, s) /\ phase = "up" /\ phase' = phase /\ handler[h] = Idle
        /\ UNCHANGED <<rules, watcher, astray>>
    BY <1>3 DEF HandlerWrites, lifeVars, casbinVars
  <2>2. \A g \in Handler \ {h} : handler'[g] = handler[g]
    BY <1>3 DEF HandlerWrites, Do, TypeOK
  <2>3. CASE q = p
    BY <1>e, <2>1, <2>3, PutEnds
  <2>4. CASE q # p
    BY <2>1, <2>2, <2>4, PutEnds, Untouched
  <2> QED
    BY <2>3, <2>4
<1>4. ASSUME NEW h \in Handler, HandlerLoads(h)
      PROVE  Explained(q)'
  <2> DEFINE p == handler[h].project
  <2>1. p \in Project /\ handler[h].copy \in Copy
    BY <1>4, WorkType DEF HandlerLoads
  <2>2. /\ Load(p, handler[h].copy.spec) /\ LoadedFrom(p, handler[h].copy)
        /\ UNCHANGED <<crd, events, watcher, phase>>
    BY <1>4 DEF HandlerLoads, apiVars, lifeVars
  <2>3. \A g \in Handler \ {h} : handler'[g] = handler[g]
    BY <1>4 DEF HandlerLoads, Do, TypeOK
  <2>4. CASE q = p
    BY <2>1, <2>2, <2>4, LoadExplains
  <2>5. CASE q # p
    BY <2>1, <2>2, <2>3, <2>5, LoadExplains, Untouched
  <2> QED
    BY <2>4, <2>5
<1>5. ASSUME NEW h \in Handler, NEW p \in Project, HandlerRemoves(h, p)
      PROVE  Explained(q)'
  <2>1. /\ Remove(p) /\ crd[p] # None /\ handler[h] = Idle
        /\ UNCHANGED <<crd, events, watcher, phase, astray>>
    BY <1>5 DEF HandlerRemoves, apiVars, lifeVars
  <2>2. [op |-> "delete", project |-> p] \in Work
    BY DEF Work
  <2>3. \A g \in Handler :
          handler'[g] = IF g = h THEN [op |-> "delete", project |-> p] ELSE handler[g]
    BY <1>5, <2>2, <1>c DEF HandlerRemoves
  <2>4. CASE q = p
    <3>1. handler'[h] # Idle /\ handler'[h].project = p
      BY <2>3 DEF Idle
    <3> QED
      BY <2>1, <2>4, <3>1 DEF Explained, Pending
  <2>5. CASE q # p
    BY <2>1, <2>3, <2>5, Untouched DEF Remove, TypeOK
  <2> QED
    BY <2>4, <2>5
<1>6. ASSUME NEW h \in Handler, HandlerDeletes(h)
      PROVE  Explained(q)'
  <2> DEFINE p == handler[h].project
  <2>1. /\ p \in Project /\ phase = "up" /\ phase' = phase
        /\ UNCHANGED <<rules, watcher, astray>>
    BY <1>6, <1>a, WorkType DEF HandlerDeletes, lifeVars, casbinVars, QuietAtBoot, Idle
  <2>2. \A g \in Handler \ {h} : handler'[g] = handler[g]
    BY <1>6 DEF HandlerDeletes, Do, TypeOK
  <2>3. CASE crd[p] # None
    <3>1. Drop(p)
      BY <1>6, <2>3 DEF HandlerDeletes
    <3>2. CASE q = p
      BY <1>e, <2>1, <3>1, <3>2, DropEnds
    <3>3. CASE q # p
      BY <2>1, <2>2, <3>1, <3>3, DropEnds, Untouched
    <3> QED
      BY <3>2, <3>3
  <2>4. CASE crd[p] = None
    <3>1. UNCHANGED <<crd, events>>
      BY <1>6, <2>4 DEF HandlerDeletes, apiVars
    <3> QED
      BY <2>1, <2>2, <2>4, <3>1, Untouched
  <2> QED
    BY <2>3, <2>4
<1>7. ASSUME NEW h \in Handler, HandlerDeleteFails(h)
      PROVE  Explained(q)'
  <2> DEFINE p == handler[h].project
  <2>1. p \in Project /\ UNCHANGED <<crd, rules, events, watcher, phase>> /\ astray' = astray \cup {p}
    BY <1>7, WorkType DEF HandlerDeleteFails, ApiFails, apiVars, casbinVars
  <2>2. \A g \in Handler \ {h} : handler'[g] = handler[g]
    BY <1>7 DEF HandlerDeleteFails, Do, TypeOK
  <2>3. CASE q = p
    BY <1>g, <2>1, <2>3
  <2>4. CASE q # p
    BY <2>1, <2>2, <2>4, Untouched
  <2> QED
    BY <2>3, <2>4
<1>8. ASSUME NEW p \in Project, WatcherReads(p)
      PROVE  Explained(q)'
  <2>1. /\ Handled(p) /\ events[p] # <<>> /\ Head(events[p]) = "set" /\ watcher = None
        /\ phase = "up" /\ UNCHANGED <<crd, rules, handler, phase, astray>>
    BY <1>8, <1>b DEF WatcherReads, apiVars, casbinVars, lifeVars
  <2>2. CASE q # p
    BY <2>1, <2>2, HandledEnds, Untouched
  <2>3. CASE q = p /\ crd[p] = None
    <3>1. events'[p] # <<>>
      BY <2>1, <2>3, HandledEnds
    <3> QED
      BY <2>3, <3>1, <1>e
  <2>4. CASE q = p /\ crd[p] # None
    <3>1. watcher' = [project |-> p, copy |-> crd[p]]
      BY <1>8, <2>4 DEF WatcherReads
    <3>2. crd[p] \in [rev : Nat, spec : Specs]
      BY <2>4 DEF TypeOK, Copy
    <3>3. watcher' # None
      BY <3>1, <3>2, PoliciesAssumption
    <3> QED
      BY <2>1, <2>4, <3>1, <3>3 DEF Explained, Pending
  <2> QED
    BY <2>2, <2>3, <2>4
<1>9. ASSUME NEW p \in Project, WatcherReadFails(p)
      PROVE  Explained(q)'
  <2>1. /\ Handled(p) /\ events[p] # <<>> /\ phase = "up"
        /\ UNCHANGED <<crd, rules, watcher, handler, phase>> /\ astray' = astray \cup {p}
    BY <1>9, <1>b DEF WatcherReadFails, ApiFails, apiVars, casbinVars
  <2>2. CASE q = p
    BY <1>g, <2>1, <2>2
  <2>3. CASE q # p
    BY <2>1, <2>3, HandledEnds, Untouched
  <2> QED
    BY <2>2, <2>3
<1>10. ASSUME NEW p \in Project, WatcherRemoves(p)
       PROVE  Explained(q)'
  <2>1. /\ Handled(p) /\ events[p] # <<>> /\ Head(events[p]) = "gone" /\ Remove(p)
        /\ phase = "up" /\ UNCHANGED <<crd, watcher, handler, phase, astray>>
    BY <1>10, <1>b DEF WatcherRemoves, apiVars, lifeVars
  <2>2. CASE q # p
    BY <2>1, <2>2, HandledEnds, Untouched DEF Remove, TypeOK
  <2>3. CASE q = p /\ crd[p] # None
    <3>1. events'[p] # <<>>
      BY <2>1, <2>3, HandledEnds
    <3> QED
      BY <2>3, <3>1, <1>e
  <2>4. CASE q = p /\ crd[p] = None
    BY <2>1, <2>4 DEF Explained, InStep, Remove, TypeOK
  <2> QED
    BY <2>2, <2>3, <2>4
<1>11. ASSUME WatcherLoads
       PROVE  Explained(q)'
  <2> DEFINE p == watcher.project
  <2>1. p \in Project /\ watcher.copy \in Copy
    BY <1>11 DEF WatcherLoads, TypeOK
  <2>2. /\ Load(p, watcher.copy.spec) /\ LoadedFrom(p, watcher.copy)
        /\ UNCHANGED <<crd, events, handler, phase>>
    BY <1>11 DEF WatcherLoads, apiVars, lifeVars
  <2>3. CASE q = p
    BY <2>1, <2>2, <2>3, LoadExplains
  <2>4. CASE q # p
    BY <2>1, <2>2, <2>4, LoadExplains, Untouched
  <2> QED
    BY <2>3, <2>4
<1>12. ASSUME SyncLists
       PROVE  Explained(q)'
  BY <1>12, Untouched DEF SyncLists, apiVars, casbinVars, lifeVars
<1>13. ASSUME SyncApplies
       PROVE  Explained(q)'
  <2>1. UNCHANGED <<crd, events, watcher, handler, phase>>
    BY <1>13 DEF SyncApplies, apiVars, lifeVars
  <2>2. rules'[q] = IF snapshot[q] # None THEN Loaded(snapshot[q].spec)
                    ELSE IF q \in loadedProjects THEN {} ELSE rules[q]
    BY <1>13 DEF SyncApplies
  <2>3. CASE snapshot[q] # crd[q]
    BY <1>13, <1>g, <2>3 DEF SyncApplies
  <2>4. CASE snapshot[q] = crd[q] /\ (crd[q] # None \/ q \in loadedProjects)
    BY <2>1, <2>2, <2>4 DEF Explained, InStep
  <2>5. CASE snapshot[q] = crd[q] /\ crd[q] = None /\ q \notin loadedProjects
    <3>1. q \in astray => q \in astray'
      BY <1>13, <2>5 DEF SyncApplies
    <3> QED
      BY <2>1, <2>2, <2>5, <3>1, Untouched
  <2> QED
    BY <2>3, <2>4, <2>5
<1>14. ASSUME GoUp
       PROVE  Explained(q)'
  <2>1. CASE crd[q] # None
    <3>1. events'[q] = <<"set">>
      BY <1>14, <2>1 DEF GoUp
    <3>2. <<"set">> # <<>>
      OBVIOUS
    <3> QED
      BY <1>e, <3>1, <3>2
  <2>2. CASE crd[q] = None
    BY <1>14, <2>2 DEF GoUp, Explained, InStep, apiVars, casbinVars
  <2> QED
    BY <2>1, <2>2
<1>15. ASSUME Restart
       PROVE  Explained(q)'
  BY <1>15, <1>f DEF Restart
<1>16. ASSUME UNCHANGED vars
       PROVE  Explained(q)'
  BY <1>16, Untouched DEF vars, apiVars, casbinVars, lifeVars
<1> QED
  BY <1>1, <1>2, <1>3, <1>4, <1>5, <1>6, <1>7, <1>8, <1>9, <1>10, <1>11, <1>12,
     <1>13, <1>14, <1>15, <1>16 DEF Next

-----------------------------------------------------------------------------
(* The invariant *)

LEMMA InvStart == Init => Inv
<1> SUFFICES ASSUME Init PROVE Inv
  OBVIOUS
<1>1. TypeOK
  BY PoliciesAssumption DEF Init, TypeOK, Work
<1>2. \A h \in Handler : handler[h] = Idle /\ Idle.op = "idle"
  BY DEF Init, Idle
<1>3. CopiesAreWritten /\ QuietAtBoot
  BY <1>2 DEF Init, CopiesAreWritten, QuietAtBoot
<1> QED
  BY <1>1, <1>3 DEF Init, Inv, SingleVersion, LeftoversAreTracked, LastEventIsCurrent,
     GoneIsExplained, BehindIsExplained, Pending

LEMMA InvStep == Inv /\ [Next]_vars => Inv'
<1> SUFFICES ASSUME Inv, [Next]_vars PROVE Inv'
  OBVIOUS
<1>1. TypeOK' /\ CopiesAreWritten'
  BY TypeStep, CopiesStep DEF Inv
<1>2. SingleVersion' /\ LeftoversAreTracked'
  BY RulesStep DEF Inv
<1>3. LastEventIsCurrent' /\ QuietAtBoot'
  BY EventsStep DEF Inv
<1>4. \A p \in Project : Explained(p)
  BY ExplainedBoth DEF Inv
<1>5. \A p \in Project : Explained(p)'
  BY <1>4, ExplainedStep DEF Inv
<1>6. GoneIsExplained' /\ BehindIsExplained'
  BY <1>5 DEF Explained, GoneIsExplained, BehindIsExplained, Pending
<1> QED
  BY <1>1, <1>2, <1>3, <1>6 DEF Inv

(* The lines of a project are those of one specification it had, or none.  *)
THEOREM OneVersion == Spec => []SingleVersion
<1>1. Inv => SingleVersion
  BY DEF Inv
<1> QED
  BY <1>1, InvStart, InvStep, PTL DEF Spec

(* Lines are tracked by loadedProjects unless a rejected specification     *)
(* left them behind.                                                       *)
THEOREM Tracked == Spec => []LeftoversAreTracked
<1>1. Inv => LeftoversAreTracked
  BY DEF Inv
<1> QED
  BY <1>1, InvStart, InvStep, PTL DEF Spec

(* Casbin is behind a project only while something about it is under way,  *)
(* or after somebody acted on outdated information or a call failed.       *)
THEOREM BehindForAReason == Spec => []BehindIsExplained
<1>1. Inv => BehindIsExplained
  BY DEF Inv
<1> QED
  BY <1>1, InvStart, InvStep, PTL DEF Spec
=============================================================================
