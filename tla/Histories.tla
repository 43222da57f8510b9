----------------------------- MODULE Histories ------------------------------
(***************************************************************************)
(* The deployment history of one instance (history/service.go): the handler  *)
(* that creates the instance records in it, and so does, on every replica,    *)
(* the callback of the instance tracker (app/app.go).  The history is one      *)
(* value in Redis, read, changed and written back; when the instance is gone  *)
(* it moves to a second key.                                                *)
(***************************************************************************)
EXTENDS Naturals, FiniteSets

CONSTANTS Replica,
          MaxLives,           \* bound: instances created under the name
          MaxSlips,           \* bound: errors of Redis
          None

Handler == "handler"
Actor == Replica \cup {Handler}
Health == {"progressing", "healthy"}
Path == 0
Key == {Path} \cup (1..MaxLives)         \* names of deleted histories: the path, or a UID

VARIABLES life,               \* the instance: 0, or its UID
          born,               \* how many there were
          health,
          told,               \* per replica, what its informer has told: None or [life, health]
          lastStatus,         \* per replica, instanceStatusCache: None or a health
          active,             \* the history: None or [id, events]
          buried,             \* the histories of deleted instances: None or their events
          recording,          \* per actor, the call of the history service it is in
          recorded,           \* the events whose recording has succeeded
          raced,              \* a history was overwritten, or begun anew, by a late actor
          errors

vars == <<life, born, health, told, lastStatus, active, buried, recording, recorded, raced, errors>>
cluster == <<life, born, health>>
replicas == <<told, lastStatus>>

Idle == [at |-> "idle"]
Event(kind, l) == [kind |-> kind, life |-> l]

Init ==
  /\ life = 0 /\ born = 0 /\ health = "progressing"
  /\ told = [r \in Replica |-> None] /\ lastStatus = [r \in Replica |-> None]
  /\ active = None /\ buried = [k \in Key |-> None]
  /\ recording = [a \in Actor |-> Idle]
  /\ recorded = {} /\ raced = FALSE /\ errors = 0

Records(a, op, kind, l) ==
  recording' = [recording EXCEPT ![a] = [at |-> "read", op |-> op, event |-> Event(kind, l)]]

-----------------------------------------------------------------------------
(* An instance is created, by CreateInstance or by another client.               *)
Create ==
  /\ life = 0 /\ born < MaxLives
  /\ born' = born + 1 /\ life' = born + 1 /\ health' = "progressing"
  /\ \/ recording[Handler] = Idle /\ Records(Handler, "creation", "created", born + 1)
     \/ UNCHANGED recording
  /\ UNCHANGED <<replicas, active, buried, recorded, raced, errors>>

(* Bound: the health of an instance changes once.                                   *)
HealthChanges ==
  /\ life # 0 /\ health = "progressing" /\ health' = "healthy"
  /\ UNCHANGED <<life, born, replicas, active, buried, recording, recorded, raced, errors>>

Delete ==
  /\ life # 0 /\ life' = 0
  /\ UNCHANGED <<born, health, replicas, active, buried, recording, recorded, raced, errors>>

-----------------------------------------------------------------------------
(* The callback of a replica is told of an instance, of a change of its health, or  *)
(* that it is gone; when it was created again the informer may show an update.      *)
ToldAdd(r) ==
  /\ told[r] = None /\ life # 0
  /\ Records(r, "adopt", "adopted", life)
  /\ told' = [told EXCEPT ![r] = [life |-> life, health |-> health]]
  /\ lastStatus' = [lastStatus EXCEPT ![r] = health]

ToldUpdate(r) ==
  /\ told[r] # None /\ life # 0 /\ told[r] # [life |-> life, health |-> health]
  /\ IF lastStatus[r] # None /\ lastStatus[r] # health
     THEN Records(r, "event", health, life) ELSE UNCHANGED recording
  /\ told' = [told EXCEPT ![r] = [life |-> life, health |-> health]]
  /\ lastStatus' = [lastStatus EXCEPT ![r] = health]

ToldDelete(r) ==
  /\ told[r] # None /\ life # told[r].life
  /\ Records(r, "deletion", "deleted", told[r].life)
  /\ told' = [told EXCEPT ![r] = None] /\ lastStatus' = [lastStatus EXCEPT ![r] = None]

Callback(r) ==
  /\ recording[r] = Idle
  /\ ToldAdd(r) \/ ToldUpdate(r) \/ ToldDelete(r)
  /\ UNCHANGED <<cluster, active, buried, recorded, raced, errors>>

(* A replica restarts; its informer tells it everything anew.                    *)
Restart(r) ==
  /\ told[r] # None /\ errors < MaxSlips /\ errors' = errors + 1
  /\ told' = [told EXCEPT ![r] = None] /\ lastStatus' = [lastStatus EXCEPT ![r] = None]
  /\ recording' = [recording EXCEPT ![r] = Idle]
  /\ UNCHANGED <<cluster, active, buried, recorded, raced>>

-----------------------------------------------------------------------------
(* GetHistory: an error of Redis looks like a history that is not there.           *)
GetHistory(a) ==
  /\ recording[a].at = "read"
  /\ \E got \in {active, None} :
       /\ got # active => errors < MaxSlips
       /\ errors' = IF got # active THEN errors + 1 ELSE errors
       /\ recording' = [recording EXCEPT ![a] = [at |-> "write", op |-> @.op, event |-> @.event,
                                                 got |-> got]]
  /\ UNCHANGED <<cluster, replicas, active, buried, recorded, raced>>

(* A writer is late when the history has changed since it was read, and when it finds *)
(* none although some of this life was recorded.                                *)
Late(a) ==
  \/ active # recording[a].got
  \/ recording[a].got = None /\ \E e \in recorded : e.life = recording[a].event.life

(* RecordEvent's new history is named by the path, CreateHistoryFromInstance's by the *)
(* UID of the instance.                                                        *)
NewHistory(a) ==
  [id |-> IF recording[a].op = "adopt" THEN recording[a].event.life ELSE Path, events |-> {}]

Extended(a) ==
  LET h == IF recording[a].got = None THEN NewHistory(a) ELSE recording[a].got
  IN [h EXCEPT !.events = @ \cup {recording[a].event}]

(* After a creation in the mode gitops the handler records that it waits.           *)
Then(a) ==
  \/ recording' = [recording EXCEPT ![a] = Idle]
  \/ /\ recording[a].op = "creation"
     /\ Records(a, "event", "waiting", recording[a].event.life)

(* saveHistory for RecordCreation, RecordEvent and RecordStatusChange.              *)
SaveHistory(a) ==
  /\ recording[a].at = "write" /\ recording[a].op \in {"creation", "event"}
  /\ \/ active' = Extended(a) /\ recorded' = recorded \cup {recording[a].event}
        /\ raced' = (raced \/ Late(a)) /\ UNCHANGED errors
     \/ errors < MaxSlips /\ errors' = errors + 1 /\ UNCHANGED <<active, recorded, raced>>
  /\ Then(a)
  /\ UNCHANGED <<cluster, replicas, buried>>

\* Mutant: an existing history is not kept.
AdoptAnew(a) ==
  /\ recording[a].at = "write" /\ recording[a].op = "adopt"
  /\ active' = [NewHistory(a) EXCEPT !.events = {recording[a].event}]
  /\ recorded' = recorded \cup {recording[a].event}
  /\ UNCHANGED <<cluster, replicas, buried, raced, errors>>
  /\ recording' = [recording EXCEPT ![a] = Idle]

(* CreateHistoryFromInstance: only when there is no history.                       *)
CreateHistoryFromInstance(a) ==
  /\ recording[a].at = "write" /\ recording[a].op = "adopt"
  /\ \/ recording[a].got # None /\ UNCHANGED <<active, recorded, raced, errors>>
     \/ /\ recording[a].got = None /\ active' = Extended(a)
        /\ recorded' = recorded \cup {recording[a].event}
        /\ raced' = (raced \/ Late(a)) /\ UNCHANGED errors
     \/ /\ recording[a].got = None /\ errors < MaxSlips /\ errors' = errors + 1
        /\ UNCHANGED <<active, recorded, raced>>
  /\ recording' = [recording EXCEPT ![a] = Idle]
  /\ UNCHANGED <<cluster, replicas, buried>>

(* Another replica has already buried what was recorded of the latest life.          *)
BuriedByAnother(a) ==
  LET h == recording[a].got
  IN h # None /\ buried[h.id] # None /\ \E e \in buried[h.id] : e.life = born

\* Mutant: the history of the deleted instance is its last event only.
BuryLastEvent(a) ==
  /\ recording[a].at = "write" /\ recording[a].op = "deletion"
  /\ LET h == recording[a].got
     IN IF h = None THEN UNCHANGED <<buried, recorded>>
        ELSE /\ buried' = [buried EXCEPT ![h.id] = {recording[a].event}]
             /\ recorded' = recorded \cup {recording[a].event}
  /\ recording' = [recording EXCEPT ![a].at = "clear"]
  /\ UNCHANGED <<cluster, replicas, active, raced, errors>>

(* RecordDeletion writes the history under the name it carries; a failure is logged, *)
(* and the history is deleted all the same, which is the next call.                 *)
Bury(a) ==
  /\ recording[a].at = "write" /\ recording[a].op = "deletion"
  /\ LET h == recording[a].got
     IN \/ h = None /\ UNCHANGED <<buried, recorded, errors>>
        \/ /\ h # None /\ buried' = [buried EXCEPT ![h.id] = Extended(a).events]
           /\ recorded' = recorded \cup {recording[a].event} /\ UNCHANGED errors
        \/ /\ h # None /\ errors < MaxSlips /\ errors' = errors + 1
           /\ UNCHANGED <<buried, recorded>>
  /\ raced' = (raced \/ active # recording[a].got \/ BuriedByAnother(a))
  /\ recording' = [recording EXCEPT ![a].at = "clear"]
  /\ UNCHANGED <<cluster, replicas, active>>

\* Mutant: the history of a deleted instance stays where it was.
ClearNothing(a) ==
  /\ recording[a].at = "clear"
  /\ recording' = [recording EXCEPT ![a] = Idle]
  /\ UNCHANGED <<cluster, replicas, active, buried, recorded, raced, errors>>

ClearActive(a) ==
  /\ recording[a].at = "clear"
  /\ \/ active' = None /\ UNCHANGED errors
     \/ errors < MaxSlips /\ errors' = errors + 1 /\ UNCHANGED active
  /\ raced' = (raced \/ active # recording[a].got)
  /\ recording' = [recording EXCEPT ![a] = Idle]
  /\ UNCHANGED <<cluster, replicas, buried, recorded>>

Step(a) ==
  GetHistory(a) \/ SaveHistory(a) \/ CreateHistoryFromInstance(a) \/ Bury(a) \/ ClearActive(a)

Next ==
  \/ Create \/ HealthChanges \/ Delete
  \/ \E r \in Replica : Callback(r) \/ Restart(r)
  \/ \E a \in Actor : Step(a)

Spec == Init /\ [][Next]_vars

-----------------------------------------------------------------------------
Events == [kind : {"created", "adopted", "waiting", "deleted"} \cup Health, life : 1..MaxLives]

TypeOK ==
  /\ life \in 0..MaxLives /\ born \in 0..MaxLives /\ health \in Health
  /\ told \in [Replica -> [life : 1..MaxLives, health : Health] \cup {None}]
  /\ lastStatus \in [Replica -> Health \cup {None}]
  /\ active = None \/ (active.id \in Key /\ active.events \subseteq Events)
  /\ \A k \in Key : buried[k] = None \/ buried[k] \subseteq Events
  /\ recorded \subseteq Events /\ raced \in BOOLEAN /\ errors \in 0..MaxSlips

(* An event that was recorded stays in a history until a later instance takes over the *)
(* name; only an error of Redis, or a writer that came late, loses one (RecordDeletion  *)
(* "preserves history", saveHistory).                                            *)
EventsAreKept ==
  (~raced /\ errors = 0) =>
    \A e \in recorded : e.life < born
                        \/ (active # None /\ e \in active.events)
                        \/ \E k \in Key : buried[k] # None /\ e \in buried[k]

(* When all replicas know that the instance is gone, no history of it is left as if it   *)
(* were there (deleteActiveKey, RecordDeletion).                                  *)
GoneIsBuried ==
  (~raced /\ errors = 0 /\ life = 0 /\ born > 0 /\ recorded # {}
     /\ told = [r \in Replica |-> None] /\ \A a \in Actor : recording[a] = Idle)
    => active = None \/ \A e \in active.events : e.kind \in {"created", "waiting"}
=============================================================================
