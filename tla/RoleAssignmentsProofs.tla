----------------------- MODULE RoleAssignmentsProofs -----------------------
(***************************************************************************)
(* Proofs about RoleAssignments, for any number of subjects, projects,     *)
(* roles, handlers, loaders, writes, restarts and failures.                *)
(***************************************************************************)
EXTENDS RoleAssignments, TLAPS

\* What a busy handler works on.
LEMMA JobType ==
  ASSUME TypeOK, NEW h \in Handler, handler[h].step # "idle"
  PROVE  /\ handler[h] \in Job
         /\ handler[h].step \in {"casbin", "redis", "annotate"}
         /\ handler[h].op \in {"assign", "remove", "login"}
         /\ handler[h].subject \in Subject
         /\ handler[h].roles \in SUBSET Role /\ handler[h].save \in SUBSET Role
         /\ Asked(handler[h]) \in SUBSET Edge
         /\ handler[h].op # "login" => handler[h].copy \in Copy
         /\ handler[h].step = "annotate" => handler[h].op # "login"
<1>1. handler[h] \in Job
  BY DEF TypeOK, Idle
<1>2. handler[h].subject \in Subject /\ handler[h].roles \in SUBSET Role
  BY <1>1 DEF Job, Subject
<1>3. Asked(handler[h]) \in SUBSET Edge
  BY <1>2 DEF Asked, Of, Edge
<1> QED
  BY <1>1, <1>2, <1>3 DEF Job

\* A handler is idle exactly when its step says so.
LEMMA IdleStep ==
  ASSUME TypeOK, NEW h \in Handler
  PROVE  handler[h] = Idle <=> handler[h].step = "idle"
<1>1. handler[h] \in Job \/ handler[h] = Idle
  BY DEF TypeOK
<1>2. \A j \in Job : j.step # "idle"
  BY DEF Job
<1> QED
  BY <1>1, <1>2 DEF Idle

LEMMA SpecGroupsAreEdges == SpecGroups \subseteq Edge
  BY AssignmentsAssumption DEF Edge, Subject

-----------------------------------------------------------------------------
(* Types *)

\* What a load leaves in Casbin, and what it excuses, are edges.
LEMMA ReloadedType ==
  ASSUME TypeOK, NEW P \in SUBSET Project, NEW copies,
         \A p \in P : copies[p] \in Copy \cup {None}
  PROVE  /\ Reloaded(P, copies) \in SUBSET Edge
         /\ excused \cup Disturbed(P, copies) \in SUBSET Edge
<1>1. ASSUME NEW p \in P
      PROVE  Loaded(p, copies[p]) \subseteq Edge
  BY SpecGroupsAreEdges DEF Loaded, Copy
<1> QED
  BY <1>1 DEF Reloaded, Disturbed, TypeOK

LEMMA BeginType ==
  ASSUME TypeOK, NEW h \in Handler, NEW j \in Job, Begin(h, j)
  PROVE  /\ handler' \in [Handler -> Job \cup {Idle}]
         /\ excused' \in SUBSET Edge
<1>1. j.subject \in Subject
  BY DEF Job, Subject
<1>2. Of(j.subject, Role) \in SUBSET Edge
  BY <1>1 DEF Of, Edge
<1> QED
  BY <1>2 DEF Begin, TypeOK

LEMMA WriteBindingType ==
  ASSUME TypeOK, NEW j \in Job, Asked(j) \in SUBSET Edge, j.copy \in Copy, WriteBinding(j)
  PROVE  /\ crd' \in [Project -> Copy \cup {None}] /\ rev' \in 0..MaxRev
<1>1. rev + 1 \in 1..MaxRev /\ rev' = rev + 1
  BY AssignmentsAssumption DEF WriteBinding, TypeOK
<1>2. j.copy.binds \in SUBSET Edge
  BY DEF Copy
<1> DEFINE new == [rev |-> rev + 1, binds |->
         IF j.op = "assign" THEN j.copy.binds \cup Asked(j) ELSE j.copy.binds \ Asked(j)]
<1>3. new \in Copy
  BY <1>1, <1>2 DEF Copy
<1>4. crd' = [crd EXCEPT ![Target(j)] = new]
  BY DEF WriteBinding
<1>5. rev' \in 0..MaxRev
  BY <1>1, AssignmentsAssumption
<1> HIDE DEF new
<1> QED
  BY <1>3, <1>4, <1>5 DEF TypeOK

LEMMA SucceedType ==
  ASSUME TypeOK, NEW h \in Handler, handler[h].step # "idle", Succeed(h)
  PROVE  /\ handler' \in [Handler -> Job \cup {Idle}]
         /\ revoked' \in SUBSET Edge /\ granted' \in SUBSET Edge
         /\ excused \cup Asked(handler[h]) \in SUBSET Edge
  BY JobType DEF Succeed, TypeOK

LEMMA FailsType ==
  ASSUME TypeOK, Fails
  PROVE  failures' \in 0..MaxFailures
  BY AssignmentsAssumption DEF Fails, TypeOK

LEMMA AfterRedisType ==
  ASSUME TypeOK, NEW h \in Handler, handler[h].step = "redis", AfterRedis(h)
  PROVE  handler' \in [Handler -> Job \cup {Idle}]
<1>1. handler[h] \in Job
  BY JobType
<1>2. handler[h].op # "login" => [handler[h] EXCEPT !.step = "annotate"] \in Job
  BY <1>1 DEF Job
<1> QED
  BY <1>1, <1>2 DEF AfterRedis, TypeOK

\* The requests that begin are jobs.
LEMMA NewJobs ==
  ASSUME TypeOK
  PROVE  /\ \A s \in Subject, r \in Role, o \in {"assign", "remove"} :
              ProjectOf[r] # None /\ crd[ProjectOf[r]] # None =>
                [step |-> "casbin", op |-> o, subject |-> s, roles |-> {r},
                 copy |-> crd[ProjectOf[r]], save |-> {}] \in Job
         /\ \A u \in User, R \in SUBSET Role :
              [step |-> "casbin", op |-> "login", subject |-> u, roles |-> R,
               save |-> {}] \in Job
<1>1. ASSUME NEW r \in Role, ProjectOf[r] # None, crd[ProjectOf[r]] # None
      PROVE  crd[ProjectOf[r]] \in Copy
  BY <1>1, AssignmentsAssumption DEF TypeOK
<1> QED
  BY <1>1 DEF Job

LEMMA TypeStep ==
  ASSUME TypeOK, [Next]_vars
  PROVE  TypeOK'
<1>1. ASSUME NEW h \in Handler, NEW s \in Subject, NEW r \in Role,
             Assign(h, s, r) \/ Remove(h, s, r)
      PROVE  TypeOK'
  <2>1. PICK o \in {"assign", "remove"} :
          Begin(h, [step |-> "casbin", op |-> o, subject |-> s, roles |-> {r},
                    copy |-> crd[ProjectOf[r]], save |-> {}])
    BY <1>1 DEF Assign, Remove
  <2>2. [step |-> "casbin", op |-> o, subject |-> s, roles |-> {r},
         copy |-> crd[ProjectOf[r]], save |-> {}] \in Job
    BY <1>1, NewJobs DEF Assign, Remove
  <2>3. handler' \in [Handler -> Job \cup {Idle}] /\ excused' \in SUBSET Edge
    BY <2>1, <2>2, BeginType
  <2>4. UNCHANGED <<storeVars, reload, snapshot, lifeVars>>
    BY <2>1 DEF Begin
  <2>5. revoked' \in SUBSET Edge /\ granted' \in SUBSET Edge
    BY <1>1 DEF Assign, Remove, TypeOK
  <2> QED
    BY <2>3, <2>4, <2>5 DEF TypeOK, storeVars, lifeVars
<1>2. ASSUME NEW h \in Handler, NEW u \in User, NEW R \in SUBSET Role, Login(h, u, R)
      PROVE  TypeOK'
  <2>1. handler' \in [Handler -> Job \cup {Idle}] /\ excused' \in SUBSET Edge
    BY <1>2, NewJobs, BeginType DEF Login
  <2>2. UNCHANGED <<storeVars, reload, snapshot, lifeVars>>
    BY <1>2 DEF Login, Begin
  <2> QED
    BY <1>2, <2>1, <2>2 DEF Login, TypeOK, storeVars, lifeVars
<1>3. ASSUME NEW h \in Handler, InCasbin(h)
      PROVE  TypeOK'
  <2>1. handler[h].step = "casbin"
    BY <1>3 DEF InCasbin
  <2>2. /\ handler[h] \in Job /\ Asked(handler[h]) \in SUBSET Edge
        /\ handler[h].subject \in Subject
    BY <2>1, JobType
  <2>3. edges' \in SUBSET Edge
    BY <1>3, <2>2 DEF InCasbin, TypeOK
  <2>4. [handler[h] EXCEPT !.step = "redis", !.save = Held(edges', handler[h].subject)] \in Job
    BY <2>2 DEF Job, Held
  <2> QED
    BY <1>3, <2>3, <2>4 DEF InCasbin, TypeOK, lifeVars, pastVars
<1>4. ASSUME NEW h \in Handler, InRedis(h)
      PROVE  TypeOK'
  <2>1. /\ handler[h].step = "redis" /\ AfterRedis(h)
        /\ stored' = [stored EXCEPT ![handler[h].subject] = handler[h].save]
    BY <1>4 DEF InRedis
  <2>2. stored' \in [Subject -> SUBSET Role]
    BY <2>1, JobType DEF TypeOK
  <2> QED
    BY <1>4, <2>1, <2>2, AfterRedisType DEF InRedis, TypeOK, lifeVars, pastVars
<1>5. ASSUME NEW h \in Handler, InRedisFails(h)
      PROVE  TypeOK'
  <2>1. handler[h].step = "redis" /\ AfterRedis(h) /\ Fails
    BY <1>5 DEF InRedisFails
  <2>2. excused' \in SUBSET Edge
    BY <1>5, <2>1, JobType DEF InRedisFails, TypeOK, Of, Edge
  <2> QED
    BY <1>5, <2>1, <2>2, AfterRedisType, FailsType DEF InRedisFails, TypeOK, storeVars
<1>6. ASSUME NEW h \in Handler, Annotate(h)
      PROVE  TypeOK'
  <2>1. handler[h].step = "annotate" /\ WriteBinding(handler[h]) /\ Succeed(h)
    BY <1>6 DEF Annotate
  <2>2. crd' \in [Project -> Copy \cup {None}] /\ rev' \in 0..MaxRev
    BY <2>1, JobType, WriteBindingType
  <2> QED
    BY <1>6, <2>1, <2>2, SucceedType DEF Annotate, TypeOK, lifeVars
<1>7. ASSUME NEW h \in Handler, AnnotateKnown(h) \/ AnnotateConflicts(h)
      PROVE  TypeOK'
  <2>1. /\ handler[h].step = "annotate" /\ Succeed(h)
        /\ excused' \in {excused, excused \cup Asked(handler[h])}
        /\ UNCHANGED <<storeVars, reload, snapshot, lifeVars>>
    BY <1>7 DEF AnnotateKnown, AnnotateConflicts
  <2> QED
    BY <2>1, SucceedType DEF TypeOK, storeVars, lifeVars
<1>8. ASSUME NEW h \in Handler, AnnotateFails(h)
      PROVE  TypeOK'
  <2>1. /\ handler[h].step = "annotate" /\ Succeed(h) /\ Fails
        /\ excused' = excused \cup Asked(handler[h])
        /\ UNCHANGED <<storeVars, reload, snapshot, phase, restarts>>
    BY <1>8 DEF AnnotateFails
  <2> QED
    BY <2>1, SucceedType, FailsType DEF TypeOK, storeVars
<1>9. ASSUME NEW l \in Loader, ReloadApplies(l)
      PROVE  TypeOK'
  <2> DEFINE p == reload[l].project
             copies == [q \in {p} |-> reload[l].copy]
  <2>1. p \in Project /\ reload[l].copy \in Copy \cup {None}
    BY <1>9 DEF ReloadApplies, TypeOK
  <2>2. /\ Reloaded({p}, copies) \in SUBSET Edge
        /\ excused \cup Disturbed({p}, copies) \in SUBSET Edge
    <3> HIDE DEF p
    <3> QED
      BY <2>1, ReloadedType
  <2> QED
    BY <1>9, <2>2 DEF ReloadApplies, TypeOK, lifeVars
<1>10. ASSUME NEW l \in Loader, NEW p \in Project, ReloadReads(l, p)
       PROVE  TypeOK'
  BY <1>10 DEF ReloadReads, TypeOK, storeVars, lifeVars, pastVars
<1>11. CASE SyncLists
  BY <1>11 DEF SyncLists, TypeOK, storeVars, lifeVars, pastVars
<1>12. CASE SyncApplies
  <2>1. /\ Reloaded(Project, snapshot) \in SUBSET Edge
        /\ excused \cup Disturbed(Project, snapshot) \in SUBSET Edge
    BY <1>12, ReloadedType DEF SyncApplies, TypeOK
  <2> QED
    BY <1>12, <2>1 DEF SyncApplies, TypeOK
<1>13. CASE SyncFails
  BY <1>13, FailsType DEF SyncFails, TypeOK, storeVars
<1>14. CASE Restore
  BY <1>14 DEF Restore, TypeOK, pastVars
<1>15. CASE RestoreFails
  BY <1>15, FailsType DEF RestoreFails, TypeOK, storeVars, pastVars
<1>16. CASE Restart
  BY <1>16, AssignmentsAssumption DEF Restart, TypeOK, pastVars
<1>17. ASSUME NEW s \in Subject, Expire(s)
       PROVE  TypeOK'
  BY <1>17 DEF Expire, TypeOK, lifeVars, pastVars
<1>18. ASSUME NEW p \in Project, KubeCreate(p)
       PROVE  TypeOK'
  <2>1. rev + 1 \in 1..MaxRev /\ rev' = rev + 1
    BY <1>18, AssignmentsAssumption DEF KubeCreate, TypeOK
  <2>2. [rev |-> rev + 1, binds |-> {}] \in Copy
    BY <2>1 DEF Copy
  <2> QED
    BY <1>18, <2>1, <2>2, AssignmentsAssumption DEF KubeCreate, TypeOK, lifeVars, pastVars
<1>19. ASSUME NEW p \in Project, KubeDelete(p)
       PROVE  TypeOK'
  BY <1>19 DEF KubeDelete, TypeOK, lifeVars
<1>20. ASSUME NEW p \in Project, KubeEdit(p)
       PROVE  TypeOK'
  <2>1. rev + 1 \in 1..MaxRev /\ rev' = rev + 1
    BY <1>20, AssignmentsAssumption DEF KubeEdit, TypeOK
  <2>2. crd[p] \in Copy
    BY <1>20 DEF KubeEdit, TypeOK
  <2>3. [crd[p] EXCEPT !.rev = rev + 1] \in Copy
    BY <2>1, <2>2 DEF Copy
  <2> QED
    BY <1>20, <2>1, <2>3, AssignmentsAssumption DEF KubeEdit, TypeOK, lifeVars, pastVars
<1>21. CASE UNCHANGED vars
  BY <1>21 DEF vars, storeVars, lifeVars, pastVars, TypeOK
<1> QED
  BY <1>1, <1>2, <1>3, <1>4, <1>5, <1>6, <1>7, <1>8, <1>9, <1>10, <1>11, <1>12, <1>13,
     <1>14, <1>15, <1>16, <1>17, <1>18, <1>19, <1>20, <1>21 DEF Next, HandlerStep

LEMMA TypeInit == Init => TypeOK
  BY AssignmentsAssumption DEF Init, TypeOK

(* Type correctness. *)
THEOREM TypeCorrect == Spec => []TypeOK
<1>1. Init => TypeOK
  BY TypeInit
<1>2. TypeOK /\ [Next]_vars => TypeOK'
  BY TypeStep
<1> QED
  BY <1>1, <1>2, PTL DEF Spec

-----------------------------------------------------------------------------
(* The inductive invariant *)

Busy(h) == handler[h] # Idle

\* Annotations, copies of them and requests are about edges of their project.
PlacedBinds  == \A p \in Project : Binds(crd[p]) \subseteq EdgesOf(p)
PlacedReload ==
  \A l \in Loader : reload[l] # None => Binds(reload[l].copy) \subseteq EdgesOf(reload[l].project)
PlacedList   == snapshot # None => \A p \in Project : Binds(snapshot[p]) \subseteq EdgesOf(p)
PlacedJobs   ==
  \A h \in Handler : Busy(h) /\ handler[h].op # "login" =>
    \E r \in Role : handler[h].roles = {r} /\ ProjectOf[r] \in Project
PlacedPast   == \A e \in revoked : ProjectOf[e[2]] \in Project
Placed == PlacedBinds /\ PlacedReload /\ PlacedList /\ PlacedJobs /\ PlacedPast

\* Requests are served only when the startup is over.
QuietAtStart == phase # "up" => \A h \in Handler : ~Busy(h)

\* Requests on one subject that overlap excuse all its edges.
OverlapsExcused ==
  \A g, h \in Handler : g # h /\ Busy(g) /\ Busy(h) /\ handler[g].subject = handler[h].subject =>
    Of(handler[h].subject, Role) \subseteq excused

\* No request under way is about an edge that counts as revoked.
NotAskedFor ==
  \A e \in revoked \ excused, h \in Handler : Busy(h) => e \notin Asked(handler[h])

\* No request is about to save a revoked role.
NotSaved ==
  \A e \in revoked \ (excused \cup SpecGroups), h \in Handler :
    handler[h].step = "redis" /\ handler[h].subject = e[1] => e[2] \notin handler[h].save

\* How far a removal has come: out of Casbin, then out of Redis.
RemovalUnderWay ==
  \A h \in Handler : Busy(h) /\ handler[h].op = "remove" =>
    \A e \in Asked(handler[h]) \ (excused \cup SpecGroups) :
      /\ handler[h].step \in {"redis", "annotate"} => e \notin edges
      /\ handler[h].step = "redis" => e[2] \notin handler[h].save
      /\ handler[h].step = "annotate" => e[2] \notin stored[e[1]]

Rest == /\ Placed /\ QuietAtStart /\ OverlapsExcused
        /\ NotAskedFor /\ NotSaved /\ RemovalUnderWay /\ RevokedStaysRevoked
IInv == TypeOK /\ Rest

\* When an edge is one of a subject.
LEMMA InOf ==
  ASSUME NEW e \in Edge
  PROVE  /\ e[1] \in Subject /\ e[2] \in Role
         /\ \A s, R : e \in Of(s, R) <=> e[1] = s /\ e[2] \in R
<1>1. PICK t \in Subject, r \in Role : e = <<t, r>>
  BY DEF Edge
<1> QED
  BY <1>1 DEF Of

\* A step that leaves the requests, the stores and what was revoked alone and
\* excuses more leaves the invariant alone.
LEMMA Undisturbed ==
  ASSUME IInv, excused \subseteq excused',
         UNCHANGED <<edges, stored, handler, revoked>>,
         PlacedBinds', PlacedReload', PlacedList', QuietAtStart',
         \A p \in Project : Binds(crd'[p]) \subseteq Binds(crd[p])
  PROVE  Rest'
<1>1. PlacedJobs' /\ PlacedPast'
  BY DEF IInv, Rest, Placed, PlacedJobs, PlacedPast, Busy
<1>2. OverlapsExcused'
  BY DEF IInv, Rest, OverlapsExcused, Busy
<1>3. NotAskedFor' /\ NotSaved'
  BY DEF IInv, Rest, NotAskedFor, NotSaved, Busy, Asked
<1>4. RemovalUnderWay'
  BY DEF IInv, Rest, RemovalUnderWay, Busy, Asked
<1>5. RevokedStaysRevoked'
  BY DEF IInv, Rest, Placed, PlacedPast, RevokedStaysRevoked
<1> QED
  BY <1>1, <1>2, <1>3, <1>4, <1>5 DEF Rest, Placed

\* A request begins.
LEMMA BeginSafe ==
  ASSUME IInv, NEW h \in Handler, NEW j \in Job, Begin(h, j), j.step = "casbin",
         revoked' = revoked \ Asked(j),
         j.op # "login" => \E r \in Role : j.roles = {r} /\ ProjectOf[r] \in Project
  PROVE  Rest'
<1>0. /\ handler[h] = Idle /\ handler'[h] = j /\ j # Idle /\ phase = "up"
      /\ \A g \in Handler : g # h => handler'[g] = handler[g]
      /\ UNCHANGED <<edges, stored, crd, reload, snapshot, phase>>
  <2>1. handler' = [handler EXCEPT ![h] = j]
    BY DEF Begin
  <2>2. j # Idle
    BY DEF Idle
  <2> QED
    BY <2>1, <2>2 DEF Begin, IInv, TypeOK, storeVars, lifeVars
<1>1. /\ revoked \in SUBSET Edge /\ j.subject \in Subject
      /\ \A e \in Edge : e \in Asked(j) <=> e[1] = j.subject /\ e[2] \in j.roles
  BY InOf DEF IInv, TypeOK, Asked, Job, Subject
<1> DEFINE overlap == \E g \in Handler : handler[g] # Idle /\ handler[g].subject = j.subject
<1>2. /\ overlap  => excused' = excused \cup Of(j.subject, Role)
      /\ ~overlap => excused' = excused \ Asked(j)
  BY DEF Begin
<1>3. \A g \in Handler : g # h /\ Busy(g) /\ ~overlap => handler[g].subject # j.subject
  BY DEF Busy
<1>4. \A e \in Edge : e \in excused /\ e \notin excused' => e \in Asked(j) /\ ~overlap
  BY <1>2
<1>5. \A e \in revoked' : e \in revoked /\ e \in Edge /\ e \notin Asked(j)
  BY <1>1
<1>6. \A g \in Handler : g # h => (Busy(g)' <=> Busy(g))
  BY <1>0 DEF Busy
<1>7. Placed'
  <2>1. PlacedBinds' /\ PlacedReload' /\ PlacedList' /\ PlacedPast'
    BY <1>0, <1>5 DEF IInv, Rest, Placed, PlacedBinds, PlacedReload, PlacedList, PlacedPast
  <2>2. PlacedJobs'
    BY <1>0, <1>6 DEF IInv, Rest, Placed, PlacedJobs
  <2> QED
    BY <2>1, <2>2 DEF Placed
<1>8. QuietAtStart'
  BY <1>0 DEF QuietAtStart
<1>9. OverlapsExcused'
  <2> SUFFICES ASSUME NEW f \in Handler, NEW g \in Handler, f # g, Busy(f)', Busy(g)',
                      handler'[f].subject = handler'[g].subject,
                      NEW e \in Of(handler'[g].subject, Role)
               PROVE  e \in excused'
    BY DEF OverlapsExcused
  <2>1. CASE f = h \/ g = h
    BY <2>1, <1>0, <1>2, <1>3, <1>6
  <2>2. CASE f # h /\ g # h
    <3>1. Busy(f) /\ Busy(g) /\ handler[f].subject = handler[g].subject
      BY <2>2, <1>0, <1>6
    <3>2. e \in Of(handler[g].subject, Role) /\ e \in excused
      BY <2>2, <3>1, <1>0 DEF IInv, Rest, OverlapsExcused
    <3>3. handler[g].subject \in Subject
      BY <3>1, JobType, IdleStep DEF Busy, IInv
    <3>4. e \in Edge
      BY <3>2, <3>3 DEF Of, Edge
    <3>5. e[1] = handler[g].subject
      BY <3>2, <3>4, InOf
    <3> QED
      BY <2>2, <3>1, <3>2, <3>4, <3>5, <1>1, <1>3, <1>4
  <2> QED
    BY <2>1, <2>2
<1>10. NotAskedFor'
  <2> SUFFICES ASSUME NEW e \in revoked', e \notin excused', NEW g \in Handler, Busy(g)'
               PROVE  e \notin Asked(handler'[g])
    BY DEF NotAskedFor, Asked
  <2>1. e \notin excused /\ e \in revoked
    BY <1>4, <1>5
  <2> QED
    BY <2>1, <1>0, <1>5, <1>6 DEF IInv, Rest, NotAskedFor
<1>11. NotSaved'
  <2> SUFFICES ASSUME NEW e \in revoked', e \notin excused', e \notin SpecGroups,
                      NEW g \in Handler, handler'[g].step = "redis", handler'[g].subject = e[1]
               PROVE  e[2] \notin handler'[g].save
    BY DEF NotSaved
  <2>1. e \notin excused /\ e \in revoked
    BY <1>4, <1>5
  <2> QED
    BY <2>1, <1>0 DEF IInv, Rest, NotSaved
<1>12. RemovalUnderWay'
  <2> SUFFICES ASSUME NEW g \in Handler, Busy(g)', handler'[g].op = "remove",
                      NEW e \in Asked(handler'[g]), e \notin excused', e \notin SpecGroups
               PROVE  /\ handler'[g].step \in {"redis", "annotate"} => e \notin edges'
                      /\ handler'[g].step = "redis" => e[2] \notin handler'[g].save
                      /\ handler'[g].step = "annotate" => e[2] \notin stored'[e[1]]
    BY DEF RemovalUnderWay, Asked
  <2>1. CASE g = h
    BY <2>1, <1>0
  <2>2. CASE g # h
    <3>1. Busy(g) /\ handler'[g] = handler[g]
      BY <2>2, <1>0, <1>6
    <3>2. e \in Edge /\ e[1] = handler[g].subject
      BY <3>1, JobType, IdleStep, InOf DEF Busy, IInv, Asked
    <3>3. e \notin excused
      BY <2>2, <3>1, <3>2, <1>1, <1>3, <1>4
    <3> QED
      BY <3>1, <3>3, <1>0 DEF IInv, Rest, RemovalUnderWay
  <2> QED
    BY <2>1, <2>2
<1>13. RevokedStaysRevoked'
  <2> SUFFICES ASSUME NEW e \in revoked', e \notin excused', e \notin SpecGroups
               PROVE  e \notin edges' /\ e[2] \notin stored'[e[1]] /\ e \notin Binds(crd'[ProjectOf[e[2]]])
    BY DEF RevokedStaysRevoked
  <2>1. e \notin excused /\ e \in revoked
    BY <1>4, <1>5
  <2> QED
    BY <2>1, <1>0 DEF IInv, Rest, RevokedStaysRevoked
<1> QED
  BY <1>7, <1>8, <1>9, <1>10, <1>11, <1>12, <1>13 DEF Rest

\* What a busy handler is about.
LEMMA JobEdges ==
  ASSUME IInv, NEW h \in Handler, handler[h].step # "idle"
  PROVE  /\ Busy(h) /\ handler[h].subject \in Subject
         /\ Asked(handler[h]) \in SUBSET Edge
         /\ \A e \in Edge :
              /\ e \in Asked(handler[h]) <=> e[1] = handler[h].subject /\ e[2] \in handler[h].roles
              /\ e \in Of(handler[h].subject, Role) <=> e[1] = handler[h].subject
<1>1. /\ Busy(h) /\ handler[h].subject \in Subject /\ Asked(handler[h]) \in SUBSET Edge
  BY JobType, IdleStep DEF IInv, Busy
<1> QED
  BY <1>1, InOf DEF Asked

\* Two requests that overlap on the subject of an edge excuse it.
LEMMA OverlapExcuses ==
  ASSUME IInv, NEW g \in Handler, NEW h \in Handler, g # h, Busy(g), Busy(h),
         NEW e \in Edge, e[1] = handler[g].subject, e[1] = handler[h].subject
  PROVE  e \in excused
<1>1. e \in Of(handler[h].subject, Role)
  BY InOf
<1> QED
  BY <1>1 DEF IInv, Rest, OverlapsExcused

\* The change of Casbin.
LEMMA InCasbinSafe ==
  ASSUME IInv, NEW h \in Handler, InCasbin(h)
  PROVE  Rest'
<1> DEFINE j == handler[h]
<1>1. /\ j.step = "casbin" /\ Busy(h) /\ j \in Job /\ j.subject \in Subject
      /\ Asked(j) \in SUBSET Edge /\ handler \in [Handler -> Job \cup {Idle}]
      /\ revoked \in SUBSET Edge
  <2>1. j.step = "casbin"
    BY DEF InCasbin
  <2> QED
    BY <2>1, JobType, JobEdges DEF IInv, TypeOK
<1>2. /\ handler'[h].step = "redis" /\ handler'[h].op = j.op
      /\ handler'[h].subject = j.subject /\ handler'[h].roles = j.roles
      /\ handler'[h].save = Held(edges', j.subject) /\ Asked(handler'[h]) = Asked(j)
      /\ handler'[h] # Idle
      /\ \A g \in Handler : g # h => handler'[g] = handler[g]
  BY <1>1 DEF InCasbin, Job, Asked, Idle
<1>3. UNCHANGED <<stored, crd, reload, snapshot, phase, revoked, excused>>
  BY DEF InCasbin, lifeVars, pastVars
<1>4. \A g \in Handler : Busy(g)' <=> Busy(g)
  BY <1>1, <1>2 DEF Busy
<1>5. \A g \in Handler : Asked(handler'[g]) = Asked(handler[g]) /\ handler'[g].subject = handler[g].subject
  BY <1>2
<1>6. \A e \in edges' : e \in edges \/ (e \in Asked(j) /\ j.op # "remove")
  BY DEF InCasbin
<1>7. j.op = "remove" => edges' \cap Asked(j) = {}
  BY DEF InCasbin
<1>8. \A e \in Edge : e[1] = j.subject /\ e[2] \in handler'[h].save => e \in edges'
  <2> SUFFICES ASSUME NEW e \in Edge, e[1] = j.subject, e[2] \in handler'[h].save
               PROVE  e \in edges'
    OBVIOUS
  <2>1. e = <<e[1], e[2]>>
    BY DEF Edge
  <2> QED
    BY <2>1, <1>2 DEF Held
<1>9. Placed'
  BY <1>2, <1>3, <1>4 DEF IInv, Rest, Placed, PlacedBinds, PlacedReload, PlacedList, PlacedJobs, PlacedPast
<1>10. QuietAtStart' /\ OverlapsExcused' /\ NotAskedFor'
  BY <1>3, <1>4, <1>5 DEF IInv, Rest, QuietAtStart, OverlapsExcused, NotAskedFor
<1>11. RevokedStaysRevoked'
  <2> SUFFICES ASSUME NEW e \in revoked \ (excused \cup SpecGroups)
               PROVE  e \notin edges'
    BY <1>3 DEF IInv, Rest, RevokedStaysRevoked
  <2>1. e \notin edges /\ e \notin Asked(j)
    BY <1>1 DEF IInv, Rest, RevokedStaysRevoked, NotAskedFor
  <2> QED
    BY <2>1, <1>6
<1>12. NotSaved'
  <2> SUFFICES ASSUME NEW e \in revoked \ (excused \cup SpecGroups), NEW g \in Handler,
                      handler'[g].step = "redis", handler'[g].subject = e[1]
               PROVE  e[2] \notin handler'[g].save
    BY <1>3 DEF NotSaved
  <2>1. CASE g = h
    <3>1. e \notin edges'
      BY <1>3, <1>11 DEF RevokedStaysRevoked
    <3> QED
      BY <2>1, <3>1, <1>1, <1>2, <1>8
  <2>2. CASE g # h
    BY <2>2, <1>2 DEF IInv, Rest, NotSaved
  <2> QED
    BY <2>1, <2>2
<1>13. RemovalUnderWay'
  <2> SUFFICES ASSUME NEW g \in Handler, Busy(g)', handler'[g].op = "remove",
                      NEW e \in Asked(handler'[g]), e \notin excused, e \notin SpecGroups
               PROVE  /\ handler'[g].step \in {"redis", "annotate"} => e \notin edges'
                      /\ handler'[g].step = "redis" => e[2] \notin handler'[g].save
                      /\ handler'[g].step = "annotate" => e[2] \notin stored[e[1]]
    BY <1>3 DEF RemovalUnderWay, Asked
  <2>1. CASE g = h
    <3>1. e \notin edges' /\ e \in Edge /\ e[1] = j.subject
      BY <2>1, <1>1, <1>2, <1>7, InOf DEF Asked
    <3> QED
      BY <2>1, <3>1, <1>2, <1>8
  <2>2. CASE g # h
    <3>1. /\ Busy(g) /\ handler'[g] = handler[g]
      BY <2>2, <1>2, <1>4
    <3>2. e \in Edge /\ e[1] = handler[g].subject
      BY <3>1, JobType, IdleStep, InOf DEF Busy, IInv, Asked
    <3>3. e[1] # j.subject
      BY <2>2, <3>1, <3>2, <1>1, OverlapExcuses
    <3>4. e \notin Asked(j)
      BY <3>2, <3>3, InOf DEF Asked
    <3> QED
      BY <3>1, <3>4, <1>6 DEF IInv, Rest, RemovalUnderWay
  <2> QED
    BY <2>1, <2>2
<1> QED
  BY <1>9, <1>10, <1>11, <1>12, <1>13 DEF Rest

\* The step past Redis: saved, or failed and excused.
LEMMA AfterRedisSafe ==
  ASSUME IInv, NEW h \in Handler, handler[h].step = "redis", AfterRedis(h),
         UNCHANGED <<edges, crd, reload, snapshot, phase, revoked>>,
         \/ /\ stored' = [stored EXCEPT ![handler[h].subject] = handler[h].save]
            /\ excused' = excused
         \/ /\ stored' = stored
            /\ excused' = excused \cup Of(handler[h].subject, Role)
  PROVE  Rest'
<1> DEFINE j == handler[h]
<1>1. /\ Busy(h) /\ j \in Job /\ j.subject \in Subject /\ revoked \in SUBSET Edge
      /\ handler \in [Handler -> Job \cup {Idle}] /\ stored \in [Subject -> SUBSET Role]
  BY JobType, JobEdges DEF IInv, TypeOK
<1>2. \A g \in Handler : g # h => handler'[g] = handler[g]
  BY <1>1 DEF AfterRedis
<1>3. \/ handler'[h] = Idle
      \/ /\ handler'[h].step = "annotate" /\ handler'[h].op = j.op
         /\ handler'[h].subject = j.subject /\ handler'[h].roles = j.roles
         /\ Asked(handler'[h]) = Asked(j) /\ j.op # "login"
  BY <1>1 DEF AfterRedis, Job, Asked
<1>4. \A g \in Handler : Busy(g)' =>
        /\ Busy(g) /\ handler'[g].subject = handler[g].subject
        /\ Asked(handler'[g]) = Asked(handler[g]) /\ handler'[g].op = handler[g].op
        /\ handler'[g].roles = handler[g].roles
  BY <1>1, <1>2, <1>3 DEF Busy
<1>5. excused \subseteq excused'
  OBVIOUS
<1>6. \A e \in Edge : /\ e[1] # j.subject => stored'[e[1]] = stored[e[1]]
                      /\ e[1] = j.subject => \/ stored'[e[1]] = j.save
                                             \/ e \in excused'
  BY <1>1, InOf
<1>7. Placed'
  BY <1>4 DEF IInv, Rest, Placed, PlacedBinds, PlacedReload, PlacedList, PlacedJobs, PlacedPast
<1>8. QuietAtStart' /\ OverlapsExcused' /\ NotAskedFor'
  BY <1>4, <1>5 DEF IInv, Rest, QuietAtStart, OverlapsExcused, NotAskedFor
<1>9. RevokedStaysRevoked'
  <2> SUFFICES ASSUME NEW e \in revoked \ (excused' \cup SpecGroups)
               PROVE  e[2] \notin stored'[e[1]]
    BY <1>5 DEF IInv, Rest, RevokedStaysRevoked
  <2>1. CASE e[1] = j.subject
    <3>1. e[2] \notin j.save
      BY <2>1, <1>5 DEF IInv, Rest, NotSaved
    <3> QED
      BY <2>1, <3>1, <1>1, <1>6
  <2>2. CASE e[1] # j.subject
    BY <2>2, <1>1, <1>5, <1>6 DEF IInv, Rest, RevokedStaysRevoked
  <2> QED
    BY <2>1, <2>2
<1>10. NotSaved'
  <2> SUFFICES ASSUME NEW e \in revoked \ (excused' \cup SpecGroups), NEW g \in Handler,
                      handler'[g].step = "redis", handler'[g].subject = e[1]
               PROVE  e[2] \notin handler'[g].save
    BY DEF NotSaved
  <2>1. g # h
    BY <1>3 DEF Idle
  <2> QED
    BY <2>1, <1>2, <1>5 DEF IInv, Rest, NotSaved
<1>11. RemovalUnderWay'
  <2> SUFFICES ASSUME NEW g \in Handler, Busy(g)', handler'[g].op = "remove",
                      NEW e \in Asked(handler'[g]), e \notin excused', e \notin SpecGroups
               PROVE  /\ handler'[g].step \in {"redis", "annotate"} => e \notin edges
                      /\ handler'[g].step = "redis" => e[2] \notin handler'[g].save
                      /\ handler'[g].step = "annotate" => e[2] \notin stored'[e[1]]
    BY DEF RemovalUnderWay, Asked
  <2>1. /\ Busy(g) /\ handler[g].op = "remove" /\ e \in Asked(handler[g]) /\ e \notin excused
        /\ handler[g].step # "idle"
    BY <1>1, <1>4, <1>5, IdleStep DEF IInv, Busy
  <2>2. e \in Edge /\ e[1] = handler[g].subject
    BY <2>1, JobEdges
  <2>3. CASE g = h
    <3>1. e \notin edges /\ e[2] \notin j.save
      BY <2>1, <2>3 DEF IInv, Rest, RemovalUnderWay
    <3>2. handler'[g].step = "annotate"
      BY <2>3, <1>3 DEF Busy
    <3> QED
      BY <2>2, <2>3, <3>1, <3>2, <1>6
  <2>4. CASE g # h
    <3>1. e[1] # j.subject
      BY <2>1, <2>2, <2>4, <1>1, OverlapExcuses
    <3> QED
      BY <2>1, <2>2, <2>4, <3>1, <1>2, <1>6 DEF IInv, Rest, RemovalUnderWay
  <2> QED
    BY <2>3, <2>4
<1> QED
  BY <1>7, <1>8, <1>9, <1>10, <1>11 DEF Rest

\* A request ends, if neither an edge revoked before nor the one it removed is
\* left in the annotation, or else is excused.
LEMMA SucceedSafe ==
  ASSUME IInv, NEW h \in Handler, handler[h].step = "annotate", Succeed(h),
         UNCHANGED <<edges, stored, reload, snapshot, phase>>,
         excused \subseteq excused', PlacedBinds',
         \A e \in revoked' \ (excused' \cup SpecGroups) :
           (e \in revoked => e \notin Binds(crd[ProjectOf[e[2]]])) =>
             e \notin Binds(crd'[ProjectOf[e[2]]])
  PROVE  Rest'
<1> DEFINE j == handler[h]
<1>1. /\ Busy(h) /\ j.subject \in Subject /\ Asked(j) \in SUBSET Edge /\ j.op # "login"
      /\ revoked \in SUBSET Edge /\ handler \in [Handler -> Job \cup {Idle}]
  BY JobType, JobEdges DEF IInv, TypeOK
<1>2. /\ handler'[h] = Idle
      /\ \A g \in Handler : g # h => handler'[g] = handler[g]
  BY <1>1 DEF Succeed
<1>3. \A g \in Handler : Busy(g)' => g # h /\ Busy(g) /\ handler'[g] = handler[g]
  BY <1>2 DEF Busy
<1>4. \A e \in revoked' : \/ e \in revoked
                          \/ e \in Asked(j) /\ j.op = "remove"
  BY DEF Succeed
<1>5. \A e \in Asked(j) : e \in Edge /\ e[1] = j.subject /\ e[2] \in j.roles
  BY <1>1, JobEdges
<1>6. Placed'
  <2>1. PlacedReload' /\ PlacedList'
    BY DEF IInv, Rest, Placed, PlacedReload, PlacedList
  <2>2. PlacedJobs'
    BY <1>3 DEF IInv, Rest, Placed, PlacedJobs
  <2>3. PICK r \in Role : j.roles = {r} /\ ProjectOf[r] \in Project
    BY <1>1 DEF IInv, Rest, Placed, PlacedJobs
  <2>4. PlacedPast'
    BY <2>3, <1>4, <1>5 DEF IInv, Rest, Placed, PlacedPast
  <2> QED
    BY <2>1, <2>2, <2>4 DEF Placed
<1>7. QuietAtStart' /\ OverlapsExcused'
  BY <1>3 DEF IInv, Rest, QuietAtStart, OverlapsExcused
<1>8. ASSUME NEW e \in revoked', e \notin excused', e \notin revoked
      PROVE  /\ e \in Asked(j) /\ j.op = "remove" /\ e \notin excused
             /\ \A g \in Handler : g # h /\ Busy(g) => handler[g].subject # e[1]
  <2>1. e \in Asked(j) /\ j.op = "remove" /\ e \notin excused
    BY <1>4, <1>8
  <2> QED
    BY <2>1, <1>1, <1>5, OverlapExcuses
<1>9. NotAskedFor'
  <2> SUFFICES ASSUME NEW e \in revoked', e \notin excused', NEW g \in Handler, Busy(g)'
               PROVE  e \notin Asked(handler'[g])
    BY DEF NotAskedFor, Asked
  <2>1. g # h /\ Busy(g) /\ handler'[g] = handler[g]
    BY <1>3
  <2>2. CASE e \in revoked
    BY <2>1, <2>2 DEF IInv, Rest, NotAskedFor
  <2>3. CASE e \notin revoked
    BY <2>1, <2>3, <1>5, <1>8, JobEdges, IdleStep DEF IInv, Busy
  <2> QED
    BY <2>2, <2>3
<1>10. NotSaved'
  <2> SUFFICES ASSUME NEW e \in revoked', e \notin excused', e \notin SpecGroups,
                      NEW g \in Handler, handler'[g].step = "redis", handler'[g].subject = e[1]
               PROVE  e[2] \notin handler'[g].save
    BY DEF NotSaved
  <2>1. g # h /\ Busy(g) /\ handler'[g] = handler[g]
    BY <1>2, <1>3 DEF Idle, Busy
  <2>2. e \in revoked
    BY <2>1, <1>8
  <2> QED
    BY <2>1, <2>2 DEF IInv, Rest, NotSaved
<1>11. RemovalUnderWay'
  BY <1>3 DEF IInv, Rest, RemovalUnderWay, Asked
<1>12. RevokedStaysRevoked'
  <2> SUFFICES ASSUME NEW e \in revoked', e \notin excused', e \notin SpecGroups
               PROVE  /\ e \notin edges /\ e[2] \notin stored[e[1]]
                      /\ e \notin Binds(crd'[ProjectOf[e[2]]])
    BY DEF RevokedStaysRevoked
  <2>1. CASE e \in revoked
    BY <2>1 DEF IInv, Rest, RevokedStaysRevoked
  <2>2. CASE e \notin revoked
    BY <2>2, <1>1, <1>8 DEF IInv, Rest, RemovalUnderWay
  <2> QED
    BY <2>1, <2>2
<1> QED
  BY <1>6, <1>7, <1>9, <1>10, <1>11, <1>12 DEF Rest

\* A write of the annotation changes one binding of the project it is about.
LEMMA WriteChangesOne ==
  ASSUME IInv, NEW h \in Handler, Annotate(h)
  PROVE  \E r \in Role :
           LET j == handler[h] p == ProjectOf[r] e == <<j.subject, r>> IN
           /\ p \in Project /\ Asked(j) = {e} /\ e \in EdgesOf(p) /\ crd[p] \in Copy
           /\ \A q \in Project : q # p => crd'[q] = crd[q]
           /\ crd'[p] \in Copy
           /\ Binds(crd'[p]) = IF j.op = "assign" THEN Binds(crd[p]) \cup {e}
                                                  ELSE Binds(crd[p]) \ {e}
<1> DEFINE j == handler[h]
<1>1. /\ j.step = "annotate" /\ j.op # "login" /\ Busy(h) /\ j.copy \in Copy
      /\ j.subject \in Subject
  <2>1. j.step = "annotate"
    BY DEF Annotate
  <2> QED
    BY <2>1, JobType, JobEdges DEF IInv
<1>2. PICK r \in Role : j.roles = {r} /\ ProjectOf[r] \in Project
  BY <1>1 DEF IInv, Rest, Placed, PlacedJobs
<1> DEFINE p == ProjectOf[r]
           e == <<j.subject, r>>
<1>3. Target(j) = p
  BY <1>2 DEF Target
<1>4. Asked(j) = {e} /\ e \in EdgesOf(p)
  BY <1>1, <1>2 DEF Asked, Of, EdgesOf, Edge
<1>5. crd[p] = j.copy /\ crd \in [Project -> Copy \cup {None}] /\ rev' = rev + 1
  BY <1>3 DEF Annotate, WriteBinding, IInv, TypeOK
<1> DEFINE new == [rev |-> rev + 1, binds |->
         IF j.op = "assign" THEN j.copy.binds \cup Asked(j) ELSE j.copy.binds \ Asked(j)]
<1>6. crd' = [crd EXCEPT ![p] = new]
  BY <1>3 DEF Annotate, WriteBinding
<1>7. crd'[p] = new /\ \A q \in Project : q # p => crd'[q] = crd[q]
  BY <1>2, <1>5, <1>6
<1>8. new \in Copy
  <2>1. rev \in 0..MaxRev /\ rev < MaxRev /\ MaxRev \in Nat
    BY AssignmentsAssumption DEF Annotate, WriteBinding, IInv, TypeOK
  <2>2. e \in Edge /\ j.copy.binds \in SUBSET Edge
    BY <1>1, <1>2 DEF Edge, Copy
  <2>3. rev + 1 \in 1..MaxRev
    BY <2>1
  <2> QED
    BY <2>2, <2>3, <1>4 DEF Copy
<1>9. \A c \in Copy : c # None
  BY AssignmentsAssumption DEF Copy
<1>10. Binds(crd[p]) = j.copy.binds /\ Binds(crd'[p]) = new.binds
  BY <1>1, <1>5, <1>7, <1>8, <1>9 DEF Binds
<1> QED
  BY <1>1, <1>2, <1>4, <1>5, <1>7, <1>8, <1>10

\* A load of copies into Casbin.
LEMMA LoadSafe ==
  ASSUME IInv, NEW P \in SUBSET Project, NEW copies,
         \A p \in P : Binds(copies[p]) \subseteq EdgesOf(p),
         edges' = Reloaded(P, copies), excused' = excused \cup Disturbed(P, copies),
         UNCHANGED <<stored, crd, handler, revoked>>,
         PlacedReload', PlacedList', QuietAtStart'
  PROVE  Rest'
<1>1. revoked \in SUBSET Edge /\ excused \subseteq excused'
  BY DEF IInv, TypeOK
<1>2. ASSUME NEW e \in Edge, e \in edges', e \notin edges, e \notin SpecGroups
      PROVE  /\ ProjectOf[e[2]] \in P
             /\ e \in Binds(copies[ProjectOf[e[2]]])
  <2>1. PICK p \in P : e \in Loaded(p, copies[p])
    BY <1>2 DEF Reloaded
  <2>2. e \in Binds(copies[p])
    BY <2>1, <1>2 DEF Loaded, Binds
  <2>3. ProjectOf[e[2]] = p
    BY <2>2 DEF EdgesOf
  <2> QED
    BY <2>2, <2>3
<1>3. Placed'
  BY DEF IInv, Rest, Placed, PlacedBinds, PlacedJobs, PlacedPast, Busy
<1>4. OverlapsExcused' /\ NotAskedFor' /\ NotSaved'
  BY <1>1 DEF IInv, Rest, OverlapsExcused, NotAskedFor, NotSaved, Busy, Asked
<1>5. RevokedStaysRevoked'
  <2> SUFFICES ASSUME NEW e \in revoked, e \notin excused', e \notin SpecGroups
               PROVE  e \notin edges'
    BY <1>1 DEF IInv, Rest, RevokedStaysRevoked
  <2>1. e \notin edges /\ e \notin Binds(crd[ProjectOf[e[2]]])
    BY <1>1 DEF IInv, Rest, RevokedStaysRevoked
  <2>2. e \notin Disturbed(P, copies)
    OBVIOUS
  <2> QED
    BY <2>1, <2>2, <1>1, <1>2 DEF Disturbed
<1>6. RemovalUnderWay'
  <2> SUFFICES ASSUME NEW g \in Handler, Busy(g), handler[g].op = "remove",
                      NEW e \in Asked(handler[g]), e \notin excused', e \notin SpecGroups,
                      handler[g].step \in {"redis", "annotate"}
               PROVE  e \notin edges'
    BY <1>1 DEF IInv, Rest, RemovalUnderWay, Busy, Asked
  <2>1. e \in Edge /\ e \in HalfDone /\ e \notin edges
    BY <1>1, JobEdges DEF HalfDone, IInv, Rest, RemovalUnderWay
  <2>2. e \notin Disturbed(P, copies)
    OBVIOUS
  <2> QED
    BY <2>1, <2>2, <1>2 DEF Disturbed
<1> QED
  BY <1>3, <1>4, <1>5, <1>6 DEF Rest

-----------------------------------------------------------------------------
(* The invariant holds *)

LEMMA RestInit == Init => Rest
<1> SUFFICES ASSUME Init PROVE Rest
  OBVIOUS
<1>1. \A h \in Handler : handler[h] = Idle
  BY DEF Init
<1>2. Placed
  BY <1>1 DEF Init, Placed, PlacedBinds, PlacedReload, PlacedList, PlacedJobs, PlacedPast, Busy, Binds
<1>3. QuietAtStart /\ OverlapsExcused /\ RemovalUnderWay
  BY <1>1 DEF QuietAtStart, OverlapsExcused, RemovalUnderWay, Busy
<1>4. NotAskedFor /\ NotSaved /\ RevokedStaysRevoked
  BY DEF Init, NotAskedFor, NotSaved, RevokedStaysRevoked
<1> QED
  BY <1>2, <1>3, <1>4 DEF Rest

LEMMA RestStep ==
  ASSUME IInv, [Next]_vars
  PROVE  Rest'
<1> USE DEF Placed, PlacedBinds, PlacedReload, PlacedList
<1>1. ASSUME NEW h \in Handler, NEW s \in Subject, NEW r \in Role,
             Assign(h, s, r) \/ Remove(h, s, r)
      PROVE  Rest'
  <2>1. PICK o \in {"assign", "remove"} :
          Begin(h, [step |-> "casbin", op |-> o, subject |-> s, roles |-> {r},
                    copy |-> crd[ProjectOf[r]], save |-> {}])
    BY <1>1 DEF Assign, Remove
  <2> DEFINE j == [step |-> "casbin", op |-> o, subject |-> s, roles |-> {r},
                   copy |-> crd[ProjectOf[r]], save |-> {}]
  <2>2. ProjectOf[r] \in Project /\ j \in Job
    BY <1>1, NewJobs, AssignmentsAssumption DEF Assign, Remove, IInv
  <2>3. revoked' = revoked \ Asked(j)
    BY <1>1 DEF Assign, Remove, Asked, Of
  <2>4. j.step = "casbin" /\ j.roles = {r} /\ Begin(h, j)
    BY <2>1
  <2> HIDE DEF j
  <2> QED
    BY <2>2, <2>3, <2>4, BeginSafe
<1>2. ASSUME NEW h \in Handler, NEW u \in User, NEW R \in SUBSET Role, Login(h, u, R)
      PROVE  Rest'
  <2> DEFINE j == [step |-> "casbin", op |-> "login", subject |-> u, roles |-> R, save |-> {}]
  <2>1. j \in Job /\ Begin(h, j) /\ revoked' = revoked \ Asked(j)
        /\ j.step = "casbin" /\ j.op = "login"
    BY <1>2, NewJobs DEF IInv, Login, Asked
  <2> HIDE DEF j
  <2> QED
    BY <2>1, BeginSafe
<1>3. ASSUME NEW h \in Handler, InCasbin(h)
      PROVE  Rest'
  BY <1>3, InCasbinSafe
<1>4. ASSUME NEW h \in Handler, InRedis(h) \/ InRedisFails(h)
      PROVE  Rest'
  BY <1>4, AfterRedisSafe DEF InRedis, InRedisFails, storeVars, lifeVars, pastVars
<1>5. ASSUME NEW h \in Handler, Annotate(h)
      PROVE  Rest'
  <2> DEFINE j == handler[h]
  <2>1. PICK r \in Role :
          /\ ProjectOf[r] \in Project /\ Asked(j) = {<<j.subject, r>>}
          /\ <<j.subject, r>> \in EdgesOf(ProjectOf[r])
          /\ \A q \in Project : q # ProjectOf[r] => crd'[q] = crd[q]
          /\ Binds(crd'[ProjectOf[r]]) =
               IF j.op = "assign" THEN Binds(crd[ProjectOf[r]]) \cup {<<j.subject, r>>}
                                  ELSE Binds(crd[ProjectOf[r]]) \ {<<j.subject, r>>}
    BY <1>5, WriteChangesOne
  <2>2. /\ j.step = "annotate" /\ Succeed(h) /\ excused' = excused
        /\ UNCHANGED <<edges, stored, reload, snapshot, phase>>
    BY <1>5 DEF Annotate, lifeVars
  <2>3. Busy(h) /\ j.op \in {"assign", "remove"} /\ revoked \in SUBSET Edge
    BY <2>2, JobType, JobEdges DEF IInv, TypeOK
  <2>4. PlacedBinds'
    BY <2>1 DEF IInv, Rest
  <2>5. ASSUME NEW e \in revoked', e \notin excused,
               e \in revoked => e \notin Binds(crd[ProjectOf[e[2]]])
        PROVE  e \notin Binds(crd'[ProjectOf[e[2]]])
    <3>1. CASE e \in revoked
      <4>1. e \notin Asked(j) /\ ProjectOf[e[2]] \in Project
        BY <2>3, <2>5, <3>1 DEF IInv, Rest, NotAskedFor, PlacedPast
      <4> QED
        BY <4>1, <2>1, <2>5, <3>1
    <3>2. CASE e \notin revoked
      <4>1. e = <<j.subject, r>> /\ j.op = "remove"
        BY <3>2, <2>1, <2>2 DEF Succeed
      <4> QED
        BY <4>1, <2>1
    <3> QED
      BY <3>1, <3>2
  <2> QED
    BY <2>2, <2>4, <2>5, SucceedSafe DEF IInv, Rest
<1>6. ASSUME NEW h \in Handler, AnnotateKnown(h)
      PROVE  Rest'
  <2>1. /\ handler[h].step = "annotate" /\ Succeed(h) /\ excused \subseteq excused'
        /\ handler[h].op = "assign"
        /\ UNCHANGED <<edges, stored, crd, reload, snapshot, phase>>
    BY <1>6 DEF AnnotateKnown, Known, storeVars, lifeVars
  <2>2. PlacedBinds' /\ revoked' = revoked
    BY <2>1 DEF IInv, Rest, Succeed
  <2> QED
    BY <2>1, <2>2, SucceedSafe DEF IInv, Rest
<1>7. ASSUME NEW h \in Handler, AnnotateConflicts(h) \/ AnnotateFails(h)
      PROVE  Rest'
  <2>1. /\ handler[h].step = "annotate" /\ Succeed(h)
        /\ excused' = excused \cup Asked(handler[h])
        /\ UNCHANGED <<edges, stored, crd, reload, snapshot, phase>>
    BY <1>7 DEF AnnotateConflicts, AnnotateFails, storeVars, lifeVars
  <2>2. PlacedBinds' /\ \A e \in revoked' \ excused' : e \in revoked
    BY <2>1 DEF IInv, Rest, Succeed
  <2> QED
    BY <2>1, <2>2, SucceedSafe DEF IInv, Rest
<1>8. ASSUME NEW l \in Loader, ReloadApplies(l)
      PROVE  Rest'
  <2> DEFINE p == reload[l].project
             copies == [q \in {p} |-> reload[l].copy]
  <2>1. /\ edges' = Reloaded({p}, copies) /\ excused' = excused \cup Disturbed({p}, copies)
        /\ UNCHANGED <<stored, crd, handler, snapshot, phase, revoked>>
        /\ reload' = [reload EXCEPT ![l] = None] /\ reload[l] # None
    BY <1>8 DEF ReloadApplies, lifeVars
  <2>2. p \in Project /\ reload \in [Loader -> [project : Project, copy : Copy \cup {None}] \cup {None}]
    BY <2>1 DEF IInv, TypeOK
  <2>3. Binds(copies[p]) \subseteq EdgesOf(p)
    BY <2>1 DEF IInv, Rest
  <2>4. PlacedReload' /\ PlacedList' /\ QuietAtStart'
    BY <2>1, <2>2 DEF IInv, Rest, QuietAtStart, Busy
  <2> HIDE DEF p, copies
  <2>5. \A q \in {p} : Binds(copies[q]) \subseteq EdgesOf(q)
    BY <2>3
  <2> QED
    BY <2>1, <2>2, <2>4, <2>5, LoadSafe
<1>9. ASSUME NEW l \in Loader, NEW p \in Project, ReloadReads(l, p)
      PROVE  Rest'
  <2>1. /\ UNCHANGED <<edges, stored, crd, handler, snapshot, phase, revoked, excused>>
        /\ reload' = [reload EXCEPT ![l] = [project |-> p, copy |-> crd[p]]]
    BY <1>9 DEF ReloadReads, storeVars, lifeVars, pastVars
  <2>2. PlacedReload'
    BY <2>1 DEF IInv, Rest, TypeOK
  <2> QED
    BY <2>1, <2>2, Undisturbed DEF IInv, Rest, QuietAtStart, Busy
<1>10. CASE SyncLists
  BY <1>10, Undisturbed DEF SyncLists, storeVars, lifeVars, pastVars, IInv, Rest, QuietAtStart, Busy
<1>11. CASE SyncApplies
  <2>1. /\ edges' = Reloaded(Project, snapshot)
        /\ excused' = excused \cup Disturbed(Project, snapshot)
        /\ UNCHANGED <<stored, crd, handler, reload, revoked>>
        /\ snapshot # None /\ snapshot' = None /\ (phase' = "up" <=> phase = "up")
    BY <1>11 DEF SyncApplies
  <2>2. PlacedReload' /\ PlacedList' /\ QuietAtStart'
    BY <2>1 DEF IInv, Rest, QuietAtStart, Busy
  <2>3. \A p \in Project : Binds(snapshot[p]) \subseteq EdgesOf(p)
    BY <2>1 DEF IInv, Rest
  <2> QED
    BY <2>1, <2>2, <2>3, LoadSafe
<1>12. CASE SyncFails
  <2>1. excused \subseteq excused' /\ UNCHANGED <<storeVars, handler, reload, snapshot, revoked>>
    BY <1>12 DEF SyncFails, IInv, TypeOK
  <2>2. QuietAtStart'
    BY <1>12 DEF SyncFails, IInv, Rest, QuietAtStart, Busy
  <2> QED
    BY <2>1, <2>2, Undisturbed DEF storeVars, IInv, Rest
<1>13. CASE Restore
  <2>1. /\ phase = "restore" /\ phase' = "up"
        /\ edges' = edges \cup {e \in Edge : e[2] \in stored[e[1]]}
        /\ UNCHANGED <<stored, crd, handler, reload, snapshot, revoked, excused>>
    BY <1>13 DEF Restore, pastVars
  <2>2. \A h \in Handler : handler[h] = Idle /\ ~Busy(h)'
    BY <2>1 DEF IInv, Rest, QuietAtStart, Busy
  <2>3. Placed' /\ QuietAtStart' /\ OverlapsExcused' /\ NotAskedFor' /\ RemovalUnderWay'
    BY <2>1, <2>2 DEF IInv, Rest, PlacedJobs, PlacedPast, QuietAtStart, OverlapsExcused,
       NotAskedFor, RemovalUnderWay
  <2>4. NotSaved' /\ RevokedStaysRevoked'
    BY <2>1 DEF IInv, Rest, NotSaved, RevokedStaysRevoked
  <2> QED
    BY <2>3, <2>4 DEF Rest
<1>14. CASE RestoreFails
  BY <1>14, Undisturbed DEF RestoreFails, storeVars, pastVars, IInv, Rest, QuietAtStart
<1>15. CASE Restart
  <2>1. /\ edges' = {} /\ snapshot' = None
        /\ \A l \in Loader : reload'[l] = None
        /\ \A h \in Handler : handler'[h] = Idle /\ ~Busy(h)'
        /\ UNCHANGED <<stored, crd, revoked, excused>>
    BY <1>15 DEF Restart, pastVars, Busy
  <2>2. Placed' /\ QuietAtStart' /\ OverlapsExcused' /\ NotAskedFor' /\ RemovalUnderWay'
    BY <2>1 DEF IInv, Rest, PlacedJobs, PlacedPast, QuietAtStart, OverlapsExcused,
       NotAskedFor, RemovalUnderWay
  <2>3. NotSaved' /\ RevokedStaysRevoked'
    BY <2>1 DEF IInv, Rest, NotSaved, RevokedStaysRevoked, Idle
  <2> QED
    BY <2>2, <2>3 DEF Rest
<1>16. ASSUME NEW s \in Subject, Expire(s)
       PROVE  Rest'
  <2>1. /\ UNCHANGED <<edges, crd, handler, reload, snapshot, phase, revoked, excused>>
        /\ \A t \in Subject : stored'[t] \subseteq stored[t]
    BY <1>16 DEF Expire, lifeVars, pastVars, IInv, TypeOK
  <2>2. Placed' /\ QuietAtStart' /\ OverlapsExcused' /\ NotAskedFor' /\ NotSaved'
    BY <2>1 DEF IInv, Rest, PlacedJobs, PlacedPast, QuietAtStart, OverlapsExcused,
       NotAskedFor, NotSaved, Busy, Asked
  <2>3. RevokedStaysRevoked'
    BY <2>1, InOf DEF IInv, Rest, TypeOK, RevokedStaysRevoked
  <2>4. RemovalUnderWay'
    <3>1. ASSUME NEW h \in Handler, Busy(h), handler[h].step = "annotate",
                 NEW e \in Asked(handler[h]), e[2] \notin stored[e[1]]
          PROVE  e[2] \notin stored'[e[1]]
      <4>1. e \in Edge
        BY <3>1, JobEdges
      <4>2. e[1] \in Subject
        BY <4>1, InOf
      <4> QED
        BY <2>1, <3>1, <4>2
    <3> QED
      BY <2>1, <3>1 DEF IInv, Rest, RemovalUnderWay, Busy, Asked
  <2> QED
    BY <2>2, <2>3, <2>4 DEF Rest
<1>17. ASSUME NEW p \in Project, KubeCreate(p) \/ KubeDelete(p) \/ KubeEdit(p)
       PROVE  Rest'
  <2>1. UNCHANGED <<edges, stored, handler, reload, snapshot, phase, revoked, excused>>
    BY <1>17 DEF KubeCreate, KubeDelete, KubeEdit, lifeVars, pastVars
  <2>2. \A c \in Copy : c # None
    BY AssignmentsAssumption DEF Copy
  <2>3. \A q \in Project : Binds(crd'[q]) \subseteq Binds(crd[q])
    <3>1. crd \in [Project -> Copy \cup {None}]
      BY DEF IInv, TypeOK
    <3>2. CASE KubeCreate(p) \/ KubeDelete(p)
      BY <3>1, <3>2 DEF KubeCreate, KubeDelete, Binds
    <3>3. CASE KubeEdit(p)
      <4>1. crd[p] \in Copy /\ crd'[p].binds = crd[p].binds
            /\ \A q \in Project : q # p => crd'[q] = crd[q]
        BY <3>1, <3>3 DEF KubeEdit, Copy
      <4> QED
        BY <4>1, <2>2 DEF Binds
    <3> QED
      BY <1>17, <3>2, <3>3
  <2>4. PlacedBinds' /\ PlacedReload' /\ PlacedList' /\ QuietAtStart'
    BY <2>1, <2>3 DEF IInv, Rest, QuietAtStart, Busy
  <2> QED
    BY <2>1, <2>3, <2>4, Undisturbed
<1>18. CASE UNCHANGED vars
  BY <1>18, Undisturbed DEF vars, storeVars, lifeVars, pastVars, IInv, Rest, QuietAtStart, Busy
<1> QED
  BY <1>1, <1>2, <1>3, <1>4, <1>5, <1>6, <1>7, <1>8, <1>9, <1>10, <1>11, <1>12, <1>13,
     <1>14, <1>15, <1>16, <1>17, <1>18 DEF Next, HandlerStep

LEMMA Invariance == Spec => []IInv
<1>1. Init => IInv
  BY TypeInit, RestInit DEF IInv
<1>2. IInv /\ [Next]_vars => IInv'
  BY TypeStep, RestStep DEF IInv
<1> QED
  BY <1>1, <1>2, PTL DEF Spec

(* A role removed over REST is in neither Casbin nor Redis nor the         *)
(* annotation, and comes back from none of them.                           *)
THEOREM RevokedFinal == Spec => []RevokedStaysRevoked
<1>1. IInv => RevokedStaysRevoked
  BY DEF IInv, Rest
<1> QED
  BY <1>1, Invariance, PTL

\* Who writes projects.
LEMMA Writers ==
  ASSUME Next
  PROVE  \/ UNCHANGED crd
         \/ \E h \in Handler : Annotate(h)
         \/ \E p \in Project : KubeCreate(p) \/ KubeDelete(p) \/ KubeEdit(p)
<1> USE DEF storeVars
<1>1. ASSUME NEW h \in Handler, NEW s \in Subject, NEW r \in Role,
             Assign(h, s, r) \/ Remove(h, s, r)
      PROVE  UNCHANGED crd
  BY <1>1 DEF Assign, Remove, Begin
<1>2. ASSUME NEW h \in Handler, NEW u \in User, NEW R \in SUBSET Role, Login(h, u, R)
      PROVE  UNCHANGED crd
  BY <1>2 DEF Login, Begin
<1>3. ASSUME NEW h \in Handler,
             InCasbin(h) \/ InRedis(h) \/ InRedisFails(h) \/ AnnotateKnown(h)
               \/ AnnotateConflicts(h) \/ AnnotateFails(h)
      PROVE  UNCHANGED crd
  BY <1>3 DEF InCasbin, InRedis, InRedisFails, AnnotateKnown, AnnotateConflicts, AnnotateFails
<1>4. ASSUME NEW l \in Loader, ReloadApplies(l) \/ \E p \in Project : ReloadReads(l, p)
      PROVE  UNCHANGED crd
  BY <1>4 DEF ReloadApplies, ReloadReads
<1>5. SyncLists \/ SyncApplies \/ SyncFails \/ Restore \/ RestoreFails \/ Restart => UNCHANGED crd
  BY DEF SyncLists, SyncApplies, SyncFails, Restore, RestoreFails, Restart
<1>6. ASSUME NEW s \in Subject, Expire(s)
      PROVE  UNCHANGED crd
  BY <1>6 DEF Expire
<1> QED
  BY <1>1, <1>2, <1>3, <1>4, <1>5, <1>6 DEF Next, HandlerStep

(* Writes of the annotation change one binding of what is there.           *)
THEOREM BindingsKept == Spec => NoLostBinding
<1> DEFINE Kept == \A p \in Project : crd[p] # None /\ crd'[p] # None =>
       \/ Binds(crd'[p]) = Binds(crd[p])
       \/ \E e \in Edge : Binds(crd'[p]) \in {Binds(crd[p]) \cup {e}, Binds(crd[p]) \ {e}}
<1>1. ASSUME IInv, Next PROVE Kept
  <2> SUFFICES ASSUME NEW p \in Project, crd[p] # None, crd'[p] # None
               PROVE  \/ Binds(crd'[p]) = Binds(crd[p])
                      \/ \E e \in Edge : Binds(crd'[p]) \in {Binds(crd[p]) \cup {e}, Binds(crd[p]) \ {e}}
    OBVIOUS
  <2>1. ASSUME NEW h \in Handler, Annotate(h)
        PROVE  \/ Binds(crd'[p]) = Binds(crd[p])
               \/ \E e \in Edge : Binds(crd'[p]) \in {Binds(crd[p]) \cup {e}, Binds(crd[p]) \ {e}}
    BY <1>1, <2>1, WriteChangesOne DEF EdgesOf
  <2>2. ASSUME NEW q \in Project, KubeCreate(q) \/ KubeDelete(q)
        PROVE  crd'[p] = crd[p]
    BY <1>1, <2>2 DEF KubeCreate, KubeDelete, IInv, TypeOK
  <2>3. ASSUME NEW q \in Project, KubeEdit(q)
        PROVE  Binds(crd'[p]) = Binds(crd[p])
    <3>1. crd \in [Project -> Copy \cup {None}]
      BY <1>1 DEF IInv, TypeOK
    <3>2. crd'[p].binds = crd[p].binds \/ crd'[p] = crd[p]
      BY <2>3, <3>1 DEF KubeEdit, Copy
    <3> QED
      BY <3>2 DEF Binds
  <2>4. CASE UNCHANGED crd
    BY <2>4 DEF Binds
  <2> QED
    BY <1>1, <2>1, <2>2, <2>3, <2>4, Writers
<1>2. IInv /\ [Next]_vars => [Kept]_vars
  BY <1>1
<1> QED
  BY <1>2, Invariance, PTL DEF Spec, NoLostBinding

-----------------------------------------------------------------------------
(* Grants.  That a granted role lasts follows from the invariant above and *)
(* three facts more: the request that ends an edge has struck it off       *)
(* granted, an assignment under way has its edge in Casbin, and the        *)
(* startup sync has loaded the annotations.                                *)

\* Grants are about projects.
GrantsPlaced == \A e \in granted : ProjectOf[e[2]] \in Project

\* No request under way is about to drop an edge that counts as granted.
NotDropped ==
  \A e \in granted \ excused, h \in Handler :
    Busy(h) /\ handler[h].subject = e[1] =>
      handler[h].op = "remove" /\ e \notin Asked(handler[h])

\* An assignment that has changed Casbin and not ended finds its edge there.
AssignmentUnderWay ==
  \A h \in Handler :
    Busy(h) /\ handler[h].op = "assign" /\ handler[h].step \in {"redis", "annotate"} =>
      Asked(handler[h]) \ excused \subseteq edges

\* The annotation has each grant, and Casbin as soon as the sync is over.
GrantsKept ==
  \A e \in granted \ excused :
    /\ e \in Binds(crd[ProjectOf[e[2]]])
    /\ phase # "sync" => e \in edges

GRest == GrantsPlaced /\ NotDropped /\ AssignmentUnderWay /\ GrantsKept
GInv  == IInv /\ GRest

-----------------------------------------------------------------------------
(* Steps *)

\* A step that leaves the requests, the annotations and the grants alone, drops
\* no edge and excuses more.
LEMMA GUndisturbed ==
  ASSUME IInv, GRest, UNCHANGED <<handler, crd>>, granted' \subseteq granted,
         edges \subseteq edges', excused \subseteq excused', phase = "sync" => phase' = "sync"
  PROVE  GRest'
<1>1. GrantsPlaced' /\ NotDropped'
  BY DEF GRest, GrantsPlaced, NotDropped, Busy, Asked
<1>2. AssignmentUnderWay'
  BY DEF GRest, AssignmentUnderWay, Busy, Asked
<1>3. GrantsKept'
  BY DEF GRest, GrantsKept
<1> QED
  BY <1>1, <1>2, <1>3 DEF GRest

\* A request begins, and strikes off what it is about to end.
LEMMA GBeginSafe ==
  ASSUME IInv, GRest, NEW h \in Handler, NEW j \in Job, Begin(h, j), j.step = "casbin",
         granted' \subseteq granted, granted' \cap Asked(j) = {},
         j.op # "remove" => granted' \cap Of(j.subject, Role) = {}
  PROVE  GRest'
<1>0. /\ handler[h] = Idle /\ handler'[h] = j
      /\ \A g \in Handler : g # h => handler'[g] = handler[g]
      /\ UNCHANGED <<edges, crd, phase>>
  <2>1. handler' = [handler EXCEPT ![h] = j]
    BY DEF Begin
  <2> QED
    BY <2>1 DEF Begin, IInv, TypeOK, storeVars, lifeVars
<1>1. /\ granted \in SUBSET Edge /\ j.subject \in Subject
      /\ \A e \in Edge : /\ e \in Asked(j) <=> e[1] = j.subject /\ e[2] \in j.roles
                         /\ e \in Of(j.subject, Role) <=> e[1] = j.subject
  BY InOf DEF IInv, TypeOK, Asked, Job, Subject
<1> DEFINE overlap == \E g \in Handler : handler[g] # Idle /\ handler[g].subject = j.subject
<1>2. /\ overlap  => excused' = excused \cup Of(j.subject, Role)
      /\ ~overlap => excused' = excused \ Asked(j)
  BY DEF Begin
<1>3. \A e \in Edge : e \in excused /\ e \notin excused' => e \in Asked(j) /\ ~overlap
  BY <1>2
<1>4. \A e \in granted' : e \notin excused' => e \in granted /\ e \in Edge /\ e \notin excused
  BY <1>1, <1>3
<1>5. GrantsPlaced'
  BY DEF GRest, GrantsPlaced
<1>6. NotDropped'
  <2> SUFFICES ASSUME NEW e \in granted', e \notin excused', NEW g \in Handler, Busy(g)',
                      handler'[g].subject = e[1]
               PROVE  handler'[g].op = "remove" /\ e \notin Asked(handler'[g])
    BY DEF NotDropped, Asked
  <2>1. CASE g = h
    BY <2>1, <1>0, <1>1, <1>4
  <2>2. CASE g # h
    BY <2>2, <1>0, <1>4 DEF GRest, NotDropped, Busy
  <2> QED
    BY <2>1, <2>2
<1>7. AssignmentUnderWay'
  <2> SUFFICES ASSUME NEW g \in Handler, Busy(g)', handler'[g].op = "assign",
                      handler'[g].step \in {"redis", "annotate"},
                      NEW e \in Asked(handler'[g]), e \notin excused'
               PROVE  e \in edges
    BY <1>0 DEF AssignmentUnderWay, Asked
  <2>1. g # h /\ Busy(g) /\ handler'[g] = handler[g]
    BY <1>0 DEF Busy
  <2>2. e \in Edge /\ e[1] = handler[g].subject
    BY <2>1, JobEdges
  <2>3. e \notin excused
    BY <2>1, <2>2, <1>1, <1>3 DEF Busy
  <2> QED
    BY <2>1, <2>3 DEF GRest, AssignmentUnderWay
<1>8. GrantsKept'
  BY <1>0, <1>4 DEF GRest, GrantsKept
<1> QED
  BY <1>5, <1>6, <1>7, <1>8 DEF GRest

LEMMA GInCasbinSafe ==
  ASSUME IInv, GRest, NEW h \in Handler, InCasbin(h)
  PROVE  GRest'
<1> DEFINE j == handler[h]
<1>1. /\ j.step = "casbin" /\ Busy(h) /\ j \in Job /\ j.subject \in Subject
      /\ Asked(j) \in SUBSET Edge /\ handler \in [Handler -> Job \cup {Idle}]
      /\ granted \in SUBSET Edge /\ j.op \in {"assign", "remove", "login"}
  <2>1. j.step = "casbin"
    BY DEF InCasbin
  <2> QED
    BY <2>1, JobType, JobEdges DEF IInv, TypeOK
<1>2. /\ handler'[h].op = j.op /\ handler'[h].subject = j.subject
      /\ handler'[h].roles = j.roles /\ Asked(handler'[h]) = Asked(j)
      /\ \A g \in Handler : g # h => handler'[g] = handler[g]
  BY <1>1 DEF InCasbin, Job, Asked
<1>3. UNCHANGED <<crd, phase, granted, excused>>
  BY DEF InCasbin, lifeVars, pastVars
<1>4. \A g \in Handler : /\ Busy(g)' => Busy(g)
                         /\ Asked(handler'[g]) = Asked(handler[g])
                         /\ handler'[g].subject = handler[g].subject
                         /\ handler'[g].op = handler[g].op
  BY <1>1, <1>2 DEF Busy
<1>5. \A e \in Edge : e[1] # j.subject /\ e \in edges => e \in edges'
  BY <1>1, JobEdges DEF InCasbin
<1>6. \A e \in edges : j.op = "remove" /\ e \notin Asked(j) => e \in edges'
  BY DEF InCasbin
<1>7. j.op # "remove" => Asked(j) \subseteq edges'
  BY DEF InCasbin
<1>8. GrantsPlaced' /\ NotDropped'
  BY <1>3, <1>4 DEF GRest, GrantsPlaced, NotDropped
<1>9. AssignmentUnderWay'
  <2> SUFFICES ASSUME NEW g \in Handler, Busy(g)', handler'[g].op = "assign",
                      handler'[g].step \in {"redis", "annotate"},
                      NEW e \in Asked(handler'[g]), e \notin excused
               PROVE  e \in edges'
    BY <1>3 DEF AssignmentUnderWay, Asked
  <2>1. CASE g = h
    BY <2>1, <1>2, <1>7
  <2>2. CASE g # h
    <3>1. Busy(g) /\ handler'[g] = handler[g]
      BY <2>2, <1>2, <1>4
    <3>2. e \in Edge /\ e[1] = handler[g].subject
      BY <3>1, JobEdges
    <3>3. e[1] # j.subject
      BY <2>2, <3>1, <3>2, <1>1, OverlapExcuses
    <3> QED
      BY <3>1, <3>2, <3>3, <1>5 DEF GRest, AssignmentUnderWay
  <2> QED
    BY <2>1, <2>2
<1>10. GrantsKept'
  <2> SUFFICES ASSUME NEW e \in granted, e \notin excused, e \in edges
               PROVE  e \in edges'
    BY <1>3 DEF GRest, GrantsKept
  <2> QED
    BY <1>1, <1>5, <1>6 DEF GRest, NotDropped
<1> QED
  BY <1>8, <1>9, <1>10 DEF GRest

LEMMA GAfterRedisSafe ==
  ASSUME IInv, GRest, NEW h \in Handler, handler[h].step = "redis", AfterRedis(h),
         UNCHANGED <<edges, crd, phase, granted>>, excused \subseteq excused'
  PROVE  GRest'
<1> DEFINE j == handler[h]
<1>1. Busy(h) /\ j \in Job /\ handler \in [Handler -> Job \cup {Idle}]
  BY JobType, JobEdges DEF IInv, TypeOK
<1>2. \A g \in Handler : g # h => handler'[g] = handler[g]
  BY <1>1 DEF AfterRedis
<1>3. \/ handler'[h] = Idle
      \/ /\ handler'[h].op = j.op /\ handler'[h].subject = j.subject
         /\ handler'[h].roles = j.roles
  BY <1>1 DEF AfterRedis, Job
<1>4. \A g \in Handler : Busy(g)' =>
        /\ Busy(g) /\ handler'[g].subject = handler[g].subject
        /\ Asked(handler'[g]) = Asked(handler[g]) /\ handler'[g].op = handler[g].op
        /\ handler'[g].step \in {"redis", "annotate"} => handler[g].step \in {"redis", "annotate"}
  BY <1>1, <1>2, <1>3 DEF Busy, Asked
<1>5. GrantsPlaced' /\ NotDropped' /\ GrantsKept'
  BY <1>4 DEF GRest, GrantsPlaced, NotDropped, GrantsKept
<1>6. AssignmentUnderWay'
  BY <1>4 DEF GRest, AssignmentUnderWay
<1> QED
  BY <1>5, <1>6 DEF GRest

\* A request ends: what it assigned is in the annotation, or excused, and no
\* other grant is taken from the annotation.
LEMMA GSucceedSafe ==
  ASSUME IInv, GRest, NEW h \in Handler, handler[h].step = "annotate", Succeed(h),
         UNCHANGED <<edges, phase>>, excused \subseteq excused',
         \A e \in granted' \ excused' :
           (e \in granted => e \in Binds(crd[ProjectOf[e[2]]])) =>
             e \in Binds(crd'[ProjectOf[e[2]]])
  PROVE  GRest'
<1> DEFINE j == handler[h]
<1>1. /\ Busy(h) /\ j.subject \in Subject /\ Asked(j) \in SUBSET Edge /\ j.op # "login"
      /\ granted \in SUBSET Edge /\ handler \in [Handler -> Job \cup {Idle}]
  BY JobType, JobEdges DEF IInv, TypeOK
<1>2. \A g \in Handler : Busy(g)' => g # h /\ Busy(g) /\ handler'[g] = handler[g]
  BY <1>1 DEF Succeed, Busy
<1>3. \A e \in granted' : e \in granted \/ (e \in Asked(j) /\ j.op = "assign")
  BY DEF Succeed
<1>4. \A e \in Asked(j) : e \in Edge /\ e[1] = j.subject /\ e[2] \in j.roles
  BY <1>1, JobEdges
<1>5. PICK r \in Role : j.roles = {r} /\ ProjectOf[r] \in Project
  BY <1>1 DEF IInv, Rest, Placed, PlacedJobs
<1>6. GrantsPlaced'
  BY <1>3, <1>4, <1>5 DEF GRest, GrantsPlaced
<1>7. NotDropped'
  <2> SUFFICES ASSUME NEW e \in granted', e \notin excused', NEW g \in Handler, Busy(g)',
                      handler'[g].subject = e[1]
               PROVE  handler'[g].op = "remove" /\ e \notin Asked(handler'[g])
    BY DEF NotDropped, Asked
  <2>1. g # h /\ Busy(g) /\ handler'[g] = handler[g]
    BY <1>2
  <2>2. e \in granted
    BY <2>1, <1>1, <1>3, <1>4, OverlapExcuses
  <2> QED
    BY <2>1, <2>2 DEF GRest, NotDropped
<1>8. AssignmentUnderWay'
  BY <1>2 DEF GRest, AssignmentUnderWay
<1>9. GrantsKept'
  <2> SUFFICES ASSUME NEW e \in granted', e \notin excused'
               PROVE  e \in Binds(crd'[ProjectOf[e[2]]]) /\ (phase # "sync" => e \in edges)
    BY DEF GrantsKept
  <2>1. phase # "sync" => e \in edges
    BY <1>1, <1>3 DEF GRest, GrantsKept, AssignmentUnderWay
  <2> QED
    BY <2>1 DEF GRest, GrantsKept
<1> QED
  BY <1>6, <1>7, <1>8, <1>9 DEF GRest

\* A load of copies; the one of the startup covers every project.
LEMMA GLoadSafe ==
  ASSUME IInv, GRest, NEW P \in SUBSET Project, NEW copies,
         edges' = Reloaded(P, copies), excused' = excused \cup Disturbed(P, copies),
         UNCHANGED <<crd, handler, granted>>,
         phase = "sync" => phase' = "sync" \/ P = Project
  PROVE  GRest'
<1>1. granted \in SUBSET Edge /\ excused \subseteq excused'
  BY DEF IInv, TypeOK
<1>2. ASSUME NEW e \in Edge, e \in edges, ProjectOf[e[2]] \notin P
      PROVE  e \in edges'
  BY <1>2 DEF Reloaded, GroupEdgesOf, EdgesOf
<1>3. ASSUME NEW e \in Edge, ProjectOf[e[2]] \in P, e \in Binds(copies[ProjectOf[e[2]]])
      PROVE  e \in edges'
  <2>1. e \in Loaded(ProjectOf[e[2]], copies[ProjectOf[e[2]]])
    BY <1>3 DEF Binds, Loaded
  <2> QED
    BY <2>1, <1>3 DEF Reloaded
<1>4. GrantsPlaced' /\ NotDropped'
  BY <1>1 DEF GRest, GrantsPlaced, NotDropped, Busy, Asked
<1>5. AssignmentUnderWay'
  <2> SUFFICES ASSUME NEW g \in Handler, Busy(g), handler[g].op = "assign",
                      handler[g].step \in {"redis", "annotate"},
                      NEW e \in Asked(handler[g]), e \notin excused'
               PROVE  e \in edges'
    BY DEF AssignmentUnderWay, Busy, Asked
  <2>1. e \in Edge /\ e \in HalfDone /\ e \in edges
    BY <1>1, JobEdges DEF HalfDone, GRest, AssignmentUnderWay
  <2>2. e \notin Disturbed(P, copies)
    OBVIOUS
  <2> QED
    BY <2>1, <2>2, <1>2 DEF Disturbed
<1>6. GrantsKept'
  <2> SUFFICES ASSUME NEW e \in granted, e \notin excused', phase' # "sync"
               PROVE  e \in edges'
    BY <1>1 DEF GRest, GrantsKept
  <2>1. /\ e \in Edge /\ e \in Binds(crd[ProjectOf[e[2]]]) /\ ProjectOf[e[2]] \in Project
        /\ phase # "sync" => e \in edges
    BY <1>1 DEF GRest, GrantsKept, GrantsPlaced
  <2>2. e \notin Disturbed(P, copies)
    OBVIOUS
  <2> QED
    BY <2>1, <2>2, <1>2, <1>3 DEF Disturbed
<1> QED
  BY <1>4, <1>5, <1>6 DEF GRest

-----------------------------------------------------------------------------
(* The invariant holds *)

LEMMA GRestInit == Init => GRest
<1> SUFFICES ASSUME Init PROVE GRest
  OBVIOUS
<1>1. \A h \in Handler : ~Busy(h)
  BY DEF Init, Busy
<1> QED
  BY <1>1 DEF Init, GRest, GrantsPlaced, NotDropped, AssignmentUnderWay, GrantsKept

LEMMA GRestStep ==
  ASSUME IInv, GRest, [Next]_vars
  PROVE  GRest'
<1>1. ASSUME NEW h \in Handler, NEW s \in Subject, NEW r \in Role,
             Assign(h, s, r) \/ Remove(h, s, r)
      PROVE  GRest'
  <2>1. PICK o \in {"assign", "remove"} :
          /\ Begin(h, [step |-> "casbin", op |-> o, subject |-> s, roles |-> {r},
                       copy |-> crd[ProjectOf[r]], save |-> {}])
          /\ o = "assign" => granted' = granted \ Of(s, Role)
          /\ o = "remove" => granted' = granted \ {<<s, r>>}
    BY <1>1 DEF Assign, Remove
  <2> DEFINE j == [step |-> "casbin", op |-> o, subject |-> s, roles |-> {r},
                   copy |-> crd[ProjectOf[r]], save |-> {}]
  <2>2. j \in Job
    BY <1>1, NewJobs DEF Assign, Remove, IInv
  <2>3. Asked(j) = {<<s, r>>} /\ <<s, r>> \in Of(s, Role)
    BY DEF Asked, Of
  <2>4. /\ granted' \subseteq granted /\ granted' \cap Asked(j) = {}
        /\ j.op # "remove" => granted' \cap Of(j.subject, Role) = {}
    BY <2>1, <2>3
  <2>5. j.step = "casbin" /\ Begin(h, j)
    BY <2>1
  <2> HIDE DEF j
  <2> QED
    BY <2>2, <2>4, <2>5, GBeginSafe
<1>2. ASSUME NEW h \in Handler, NEW u \in User, NEW R \in SUBSET Role, Login(h, u, R)
      PROVE  GRest'
  <2> DEFINE j == [step |-> "casbin", op |-> "login", subject |-> u, roles |-> R, save |-> {}]
  <2>1. j \in Job /\ Begin(h, j) /\ granted' = granted \ Of(u, Role)
        /\ j.step = "casbin" /\ j.subject = u /\ j.roles = R
    BY <1>2, NewJobs DEF IInv, Login
  <2>2. Asked(j) \subseteq Of(u, Role)
    BY DEF Asked, Of
  <2> HIDE DEF j
  <2> QED
    BY <2>1, <2>2, GBeginSafe
<1>3. ASSUME NEW h \in Handler, InCasbin(h)
      PROVE  GRest'
  BY <1>3, GInCasbinSafe
<1>4. ASSUME NEW h \in Handler, InRedis(h) \/ InRedisFails(h)
      PROVE  GRest'
  BY <1>4, GAfterRedisSafe DEF InRedis, InRedisFails, storeVars, lifeVars, pastVars
<1>5. ASSUME NEW h \in Handler, Annotate(h)
      PROVE  GRest'
  <2> DEFINE j == handler[h]
  <2>1. PICK r \in Role :
          /\ ProjectOf[r] \in Project /\ Asked(j) = {<<j.subject, r>>}
          /\ \A q \in Project : q # ProjectOf[r] => crd'[q] = crd[q]
          /\ Binds(crd'[ProjectOf[r]]) =
               IF j.op = "assign" THEN Binds(crd[ProjectOf[r]]) \cup {<<j.subject, r>>}
                                  ELSE Binds(crd[ProjectOf[r]]) \ {<<j.subject, r>>}
    BY <1>5, WriteChangesOne
  <2>2. /\ j.step = "annotate" /\ Succeed(h) /\ excused' = excused
        /\ UNCHANGED <<edges, phase>>
    BY <1>5 DEF Annotate, lifeVars
  <2>3. Busy(h) /\ granted \in SUBSET Edge
    BY <2>2, JobEdges DEF IInv, TypeOK
  <2>4. ASSUME NEW e \in granted', e \notin excused,
               e \in granted => e \in Binds(crd[ProjectOf[e[2]]])
        PROVE  e \in Binds(crd'[ProjectOf[e[2]]])
    <3>1. CASE e \in granted
      <4>1. ProjectOf[e[2]] \in Project /\ (e \in Asked(j) => j.op = "assign")
        BY <2>2, <2>3, <2>4, <3>1, JobEdges, JobType DEF GRest, GrantsPlaced, NotDropped, IInv
      <4> QED
        BY <4>1, <2>1, <2>4, <3>1
    <3>2. CASE e \notin granted
      <4>1. e = <<j.subject, r>> /\ j.op = "assign"
        BY <3>2, <2>1, <2>2 DEF Succeed
      <4> QED
        BY <4>1, <2>1
    <3> QED
      BY <3>1, <3>2
  <2> QED
    BY <2>2, <2>4, GSucceedSafe
<1>6. ASSUME NEW h \in Handler, AnnotateKnown(h)
      PROVE  GRest'
  <2> DEFINE j == handler[h]
  <2>1. /\ j.step = "annotate" /\ Succeed(h) /\ excused \subseteq excused'
        /\ Asked(j) \subseteq j.copy.binds
        /\ crd[Target(j)] # j.copy => Asked(j) \subseteq excused'
        /\ UNCHANGED <<edges, crd, phase>>
    BY <1>6 DEF AnnotateKnown, Known, storeVars, lifeVars
  <2>2. Busy(h) /\ j.op # "login" /\ j.copy \in Copy
    BY <2>1, JobType, JobEdges DEF IInv
  <2>3. PICK r \in Role : j.roles = {r} /\ ProjectOf[r] \in Project
    BY <2>2 DEF IInv, Rest, Placed, PlacedJobs
  <2>4. Target(j) = ProjectOf[r] /\ Asked(j) = {<<j.subject, r>>}
    BY <2>3 DEF Target, Asked, Of
  <2>5. Binds(j.copy) = j.copy.binds
    BY <2>2, AssignmentsAssumption DEF Binds, Copy
  <2>6. \A e \in granted' \ excused' : e \notin granted => e \in Binds(crd[ProjectOf[e[2]]])
    BY <2>1, <2>4, <2>5 DEF Succeed
  <2> QED
    BY <2>1, <2>6, GSucceedSafe
<1>7. ASSUME NEW h \in Handler, AnnotateConflicts(h) \/ AnnotateFails(h)
      PROVE  GRest'
  <2>1. /\ handler[h].step = "annotate" /\ Succeed(h)
        /\ excused' = excused \cup Asked(handler[h])
        /\ UNCHANGED <<edges, crd, phase>>
    BY <1>7 DEF AnnotateConflicts, AnnotateFails, storeVars, lifeVars
  <2>2. \A e \in granted' \ excused' : e \in granted
    BY <2>1 DEF Succeed
  <2> QED
    BY <2>1, <2>2, GSucceedSafe
<1>8. ASSUME NEW l \in Loader, ReloadApplies(l)
      PROVE  GRest'
  <2> DEFINE p == reload[l].project
             copies == [q \in {p} |-> reload[l].copy]
  <2>1. /\ edges' = Reloaded({p}, copies) /\ excused' = excused \cup Disturbed({p}, copies)
        /\ UNCHANGED <<crd, handler, phase, granted>> /\ reload[l] # None
    BY <1>8 DEF ReloadApplies, lifeVars
  <2>2. p \in Project
    BY <2>1 DEF IInv, TypeOK
  <2> HIDE DEF p, copies
  <2> QED
    BY <2>1, <2>2, GLoadSafe
<1>9. CASE SyncApplies
  BY <1>9, GLoadSafe DEF SyncApplies
<1>10. CASE SyncFails
  <2>1. /\ UNCHANGED <<edges, crd, handler, granted>> /\ excused' = Edge
        /\ granted \subseteq Edge /\ \A h \in Handler : Asked(handler[h]) \subseteq Edge \/ ~Busy(h)
    <3>1. \A h \in Handler : handler[h].step # "idle" => Asked(handler[h]) \subseteq Edge
      BY JobEdges
    <3> QED
      BY <1>10, <3>1, IdleStep DEF SyncFails, storeVars, IInv, TypeOK, Busy
  <2> QED
    BY <2>1 DEF GRest, GrantsPlaced, NotDropped, AssignmentUnderWay, GrantsKept, Busy, Asked
<1>11. ASSUME \/ SyncLists \/ Restore \/ RestoreFails
              \/ \E l \in Loader, p \in Project : ReloadReads(l, p)
              \/ \E s \in Subject : Expire(s)
              \/ UNCHANGED vars
       PROVE  GRest'
  <2>1. /\ UNCHANGED <<handler, crd, granted, excused>> /\ edges \subseteq edges'
        /\ phase = "sync" => phase' = "sync"
    BY <1>11 DEF SyncLists, Restore, RestoreFails, ReloadReads, Expire, vars,
       storeVars, lifeVars, pastVars
  <2> QED
    BY <2>1, GUndisturbed
<1>12. CASE Restart
  <2>1. /\ phase' = "sync" /\ UNCHANGED <<crd, granted, excused>>
        /\ \A h \in Handler : ~Busy(h)'
    BY <1>12 DEF Restart, pastVars, Busy
  <2> QED
    BY <2>1 DEF GRest, GrantsPlaced, NotDropped, AssignmentUnderWay, GrantsKept
<1>13. ASSUME NEW p \in Project, KubeCreate(p) \/ KubeDelete(p) \/ KubeEdit(p)
       PROVE  GRest'
  <2>1. /\ UNCHANGED <<edges, handler, phase, excused>> /\ granted' \subseteq granted
        /\ granted \in SUBSET Edge /\ crd \in [Project -> Copy \cup {None}]
    BY <1>13 DEF KubeCreate, KubeDelete, KubeEdit, lifeVars, pastVars, IInv, TypeOK
  <2>2. GrantsPlaced' /\ NotDropped' /\ AssignmentUnderWay'
    BY <2>1 DEF GRest, GrantsPlaced, NotDropped, AssignmentUnderWay, Busy, Asked
  <2>3. \A c \in Copy : c # None
    BY AssignmentsAssumption DEF Copy
  <2>4. ASSUME NEW e \in granted', e \in Binds(crd[ProjectOf[e[2]]]), ProjectOf[e[2]] \in Project
        PROVE  e \in Binds(crd'[ProjectOf[e[2]]])
    <3>1. crd[ProjectOf[e[2]]] \in Copy
      BY <2>1, <2>4 DEF Binds
    <3>2. CASE KubeCreate(p)
      BY <2>1, <2>4, <3>2, <3>1, <2>3 DEF KubeCreate
    <3>3. CASE KubeDelete(p)
      <4>1. ProjectOf[e[2]] # p
        BY <2>1, <3>3 DEF KubeDelete, EdgesOf
      <4> QED
        BY <4>1, <2>1, <2>4, <3>3 DEF KubeDelete
    <3>4. CASE KubeEdit(p)
      <4>1. /\ crd'[ProjectOf[e[2]]].binds = crd[ProjectOf[e[2]]].binds
            /\ crd'[ProjectOf[e[2]]] = crd[ProjectOf[e[2]]] \/ ProjectOf[e[2]] = p
        BY <2>1, <2>4, <3>1, <3>4 DEF KubeEdit, Copy
      <4>2. crd' \in [Project -> Copy \cup {None}] /\ crd'[p] # None
        <5>1. crd'[p] = [crd[p] EXCEPT !.rev = rev + 1] /\ crd[p] \in Copy
          BY <2>1, <3>4 DEF KubeEdit
        <5>2. crd'[p] # None
          BY <5>1, AssignmentsAssumption DEF Copy, IInv, TypeOK
        <5> QED
          BY <5>2, <3>4, TypeStep DEF IInv, TypeOK
      <4> QED
        BY <4>1, <4>2, <2>3, <2>4, <3>1 DEF Binds
    <3> QED
      BY <1>13, <3>2, <3>3, <3>4
  <2>5. GrantsKept'
    BY <2>1, <2>4 DEF GRest, GrantsKept, GrantsPlaced
  <2> QED
    BY <2>2, <2>5 DEF GRest
<1> QED
  BY <1>1, <1>2, <1>3, <1>4, <1>5, <1>6, <1>7, <1>8, <1>9, <1>10, <1>11, <1>12, <1>13
  DEF Next, HandlerStep

LEMMA GInvInit == Init => GInv
  BY TypeInit, RestInit, GRestInit DEF IInv, GInv

LEMMA GInvStep == GInv /\ [Next]_vars => GInv'
  BY TypeStep, RestStep, GRestStep DEF IInv, GInv

\* What the two properties of roles need of the invariant.
LEMMA GInvHolds == GInv => RevokedStaysRevoked /\ GrantedIsDurable
  BY DEF GInv, IInv, Rest, GRest, GrantsKept, RevokedStaysRevoked, GrantedIsDurable

(* A role given over REST and not replaced since is in the annotation, and *)
(* held in Casbin whenever requests are served.                            *)
THEOREM GrantedLasts == Spec => []GrantedIsDurable
<1>1. Init => GInv
  BY GInvInit
<1>2. GInv /\ [Next]_vars => GInv'
  BY GInvStep
<1>3. GInv => GrantedIsDurable
  BY DEF GInv, GRest, GrantsKept, GrantedIsDurable
<1> QED
  BY <1>1, <1>2, <1>3, PTL DEF Spec
=============================================================================
