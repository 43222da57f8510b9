----------------------------- MODULE SsoWatcher -----------------------------
(***************************************************************************)
(* The watcher of the single sign-on settings (sso/watcher.go) and the set *)
(* of OIDC providers it reloads (auth/oidc.go).  The settings are kept in   *)
(* two objects, a ConfigMap and a Secret, that administrators change one    *)
(* after the other (SsoProviders) and other clients of the cluster at will; *)
(* each has an informer with a goroutine of its own, and both call          *)
(* onConfigChange, which reads the two objects again.                       *)
(*                                                                         *)
(* A stored configuration is its authentication method, the credentials of *)
(* a provider are the keys the Secret holds for it, and a merged provider   *)
(* is the set of both.                                                      *)
(***************************************************************************)
EXTENDS Naturals, FiniteSets

CONSTANTS Name, Method,
          MaxEdits,    \* bound: changes of the two objects
          MaxFaults    \* bound: reads and discoveries that fail

VARIABLES cmap, creds,              \* the ConfigMap and the Secret
          phase, pending, task,       \* the watcher and its two goroutines
          lastValid, loaded,          \* its last reading; the providers in use
          edits, faults, why          \* bounds and history

vars == <<cmap, creds, phase, pending, task, lastValid, loaded, edits, faults, why>>
store == <<cmap, creds>>

Informer == {"ConfigMap", "Secret"}
Credentials == SUBSET {"id", "secret"}
NoTask == [at |-> "idle"]
Other(i) == CHOOSE j \in Informer : j # i

\* Mutant: a configuration without entry is merged like the others.
ProviderUnchecked(c, k) == {c} \cup k

Provider(c, k) == IF c = "absent" THEN {} ELSE {c} \cup k
Merge(cs, ks) == [n \in Name |-> Provider(cs[n], ks[n])]

\* Which of them initializeProviderInto accepts.
Usable(p) == "id" \in p /\ ("basic" \in p => "secret" \in p)
Accepted(ps) == [n \in Name |-> IF Usable(ps[n]) THEN ps[n] ELSE {}]

(* The process has read the settings for NewOIDCService and registered its    *)
(* callback; the watcher starts at the end of the startup.                    *)
Init ==
  /\ \E here \in SUBSET Name :
       /\ cmap = [n \in Name |-> IF n \in here THEN "basic" ELSE "absent"]
       /\ creds = [n \in Name |-> IF n \in here THEN {"id", "secret"} ELSE {}]
       /\ lastValid = [n \in Name |-> {}]
       /\ loaded = Accepted(Merge(cmap, creds))
  /\ phase = "wired"
  /\ pending = [i \in Informer |-> FALSE]
  /\ task = [i \in Informer |-> NoTask]
  /\ edits = 0 /\ faults = 0
  /\ why = {}

(* The informers hear of a change only once they run; a change before Start   *)
(* has read the objects is seen by no one but Start.                          *)
Hear(i) == /\ pending' = [pending EXCEPT ![i] = phase = "watching"]
           /\ why' = IF phase = "wired" THEN why \cup {"startup"} ELSE why

EditConfigMap(n, c) ==
  /\ edits < MaxEdits /\ cmap[n] # c
  /\ cmap' = [cmap EXCEPT ![n] = c]
  /\ edits' = edits + 1
  /\ Hear("ConfigMap")
  /\ UNCHANGED <<creds, phase, task, lastValid, loaded, faults>>

EditSecret(n, k) ==
  /\ edits < MaxEdits /\ creds[n] # k
  /\ creds' = [creds EXCEPT ![n] = k]
  /\ edits' = edits + 1
  /\ Hear("Secret")
  /\ UNCHANGED <<cmap, phase, task, lastValid, loaded, faults>>

(* Another client of the cluster deletes the ConfigMap: onConfigMapDelete    *)
(* keeps the last valid providers.                                           *)
DeleteConfigMap ==
  /\ edits < MaxEdits
  /\ cmap' = [n \in Name |-> "absent"]
  /\ edits' = edits + 1
  /\ why' = why \cup {"gone"} \cup (IF phase = "wired" THEN {"startup"} ELSE {})
  /\ task' = [i \in Informer |-> IF task[i].at = "idle" THEN NoTask
                                 ELSE [task[i] EXCEPT !.lone = FALSE]]
  /\ UNCHANGED <<creds, phase, pending, lastValid, loaded, faults>>

(* The watcher.  Start reads the objects without calling anyone back; the    *)
(* informers then report both objects once.                                  *)
Start ==
  /\ phase = "wired"
  /\ lastValid' = Merge(cmap, creds)
  /\ phase' = "watching"
  /\ pending' = [i \in Informer |-> TRUE]
  /\ UNCHANGED <<store, task, loaded, edits, faults, why>>

Stop ==
  /\ phase = "watching"
  /\ phase' = "stopped"
  /\ pending' = [i \in Informer |-> FALSE]
  /\ UNCHANGED <<store, task, lastValid, loaded, edits, faults, why>>

(* Events that wait in one queue are taken together: each would read the      *)
(* same objects.                                                             *)
TakeEvent(i) == pending' = [pending EXCEPT ![i] = FALSE]

Overlaps(i) == task[Other(i)].at # "idle"

(* onConfigChange, in the goroutine of its informer: loadProviders reads the *)
(* ConfigMap and then the Secret.                                            *)
ReadConfigMap(i) ==
  /\ pending[i] /\ task[i].at = "idle"
  /\ TakeEvent(i)
  /\ task' = [j \in Informer |->
       IF j = i THEN [at |-> "secret", cm |-> cmap, lone |-> ~Overlaps(i), fault |-> FALSE]
       ELSE IF Overlaps(i) THEN [task[j] EXCEPT !.lone = FALSE] ELSE task[j]]
  /\ why' = IF Overlaps(i) THEN why \cup {"raced"} ELSE why
  /\ UNCHANGED <<store, phase, lastValid, loaded, edits, faults>>

ReadConfigMapFails(i) ==
  /\ pending[i] /\ task[i].at = "idle" /\ faults < MaxFaults
  /\ TakeEvent(i)
  /\ task' = [j \in Informer |->
       IF j = i THEN [at |-> "store", got |-> lastValid, lone |-> ~Overlaps(i), fault |-> TRUE]
       ELSE IF Overlaps(i) THEN [task[j] EXCEPT !.lone = FALSE] ELSE task[j]]
  /\ why' = why \cup {"fault"} \cup (IF Overlaps(i) THEN {"raced"} ELSE {})
  /\ faults' = faults + 1
  /\ UNCHANGED <<store, phase, lastValid, loaded, edits>>

ReadSecret(i) ==
  /\ task[i].at = "secret"
  /\ task' = [task EXCEPT ![i] =
       [at |-> "store", got |-> Merge(task[i].cm, creds), lone |-> @.lone, fault |-> FALSE]]
  /\ UNCHANGED <<store, phase, pending, lastValid, loaded, edits, faults, why>>

ReadSecretFails(i) ==
  /\ task[i].at = "secret" /\ faults < MaxFaults
  /\ task' = [task EXCEPT ![i] =
       [at |-> "store", got |-> Merge(@.cm, [n \in Name |-> {}]), lone |-> @.lone, fault |-> TRUE]]
  /\ faults' = faults + 1
  /\ why' = why \cup {"fault"}
  /\ UNCHANGED <<store, phase, pending, lastValid, loaded, edits>>

\* Mutant: only the names are compared.
StoreReadingByName(i) ==
  /\ task[i].at = "store"
  /\ lastValid' = task[i].got
  /\ task' = IF \A n \in Name : (task[i].got[n] = {}) = (lastValid[n] = {})
             THEN [task EXCEPT ![i] = NoTask] ELSE [task EXCEPT ![i].at = "reload"]
  /\ UNCHANGED <<store, phase, pending, loaded, edits, faults, why>>

(* Under the lock: compare with the last reading and store the new one.      *)
StoreReading(i) ==
  /\ task[i].at = "store"
  /\ lastValid' = task[i].got
  /\ task' = IF task[i].got = lastValid THEN [task EXCEPT ![i] = NoTask]
                                        ELSE [task EXCEPT ![i].at = "reload"]
  /\ UNCHANGED <<store, phase, pending, loaded, edits, faults, why>>

(* ReloadProviders initialises every provider and then swaps the whole set;   *)
(* discovery at the provider may fail.                                        *)
ReloadProviders(i) ==
  /\ task[i].at = "reload"
  /\ \E down \in SUBSET {n \in Name : Usable(task[i].got[n])} :
    /\ down # {} => faults < MaxFaults
    /\ loaded' = [n \in Name |-> IF n \in down THEN {} ELSE Accepted(task[i].got)[n]]
    /\ faults' = IF down = {} THEN faults ELSE faults + 1
    /\ why' = (IF task[i].lone THEN {} ELSE why)
                \cup (IF down # {} \/ task[i].fault THEN {"fault"} ELSE {})
    /\ task' = [task EXCEPT ![i] = NoTask]
    /\ UNCHANGED <<store, phase, pending, lastValid, edits>>

WatcherStep(i) ==
  \/ ReadConfigMap(i) \/ ReadConfigMapFails(i)
  \/ ReadSecret(i) \/ ReadSecretFails(i)
  \/ StoreReading(i) \/ ReloadProviders(i)

Next ==
  \/ \E n \in Name, c \in Method \cup {"absent"} : EditConfigMap(n, c)
  \/ \E n \in Name, k \in Credentials : EditSecret(n, k)
  \/ DeleteConfigMap \/ Start \/ Stop
  \/ \E i \in Informer : WatcherStep(i)

Spec == Init /\ [][Next]_vars

-----------------------------------------------------------------------------
Reading == [Name -> SUBSET (Method \cup {"id", "secret"})]
TypeOK ==
  /\ cmap \in [Name -> Method \cup {"absent"}] /\ creds \in [Name -> Credentials]
  /\ phase \in {"wired", "watching", "stopped"}
  /\ pending \in [Informer -> BOOLEAN]
  /\ \A i \in Informer : task[i].at \in {"idle", "secret", "store", "reload"}
  /\ lastValid \in Reading /\ loaded \in Reading
  /\ edits \in 0 .. MaxEdits /\ faults \in 0 .. MaxFaults
  /\ why \subseteq {"startup", "raced", "fault", "gone"}

Quiet == /\ phase = "watching"
         /\ \A i \in Informer : ~pending[i] /\ task[i].at = "idle"
Current == loaded = Accepted(Merge(cmap, creds))

(* With nothing left to hear or to do, logins use exactly the providers that  *)
(* the ConfigMap and the Secret describe, unless a change fell between the    *)
(* two readings of the startup, two informers reloaded at the same time, a    *)
(* read or a discovery failed, or the ConfigMap was deleted; a reload that    *)
(* ran alone and went well makes up for all of them.                          *)
StaleProvidersExplained == Quiet /\ why = {} => Current
=============================================================================
