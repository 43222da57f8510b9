-------------------------- MODULE SharedDecisions --------------------------
(***************************************************************************)
(* The decision cache that the replicas share in Redis (rbac/redis_cache.go):     *)
(* one key of it, and the policies of the replicas, each of which loads a change     *)
(* of the policies and then clears the cache in its own time.  A replica that does   *)
(* not reach Redis keeps decisions of its own until it does.                      *)
(***************************************************************************)
EXTENDS Naturals

CONSTANTS Replica,
          RedisTTL, FallbackTTL,
          Lag,                \* bound: ticks until a replica has loaded and cleared
          Latency,            \* bound: ticks a request takes
          MaxPolicies,        \* bound: changes of the policies
          MaxOutages,         \* bound: outages of Redis, for one replica each
          None

Longest == IF RedisTTL > FallbackTTL THEN RedisTTL ELSE FallbackTTL
Settled == Lag + Latency + Longest

VARIABLES policies,           \* the version of the policies; the decision is its parity
          since,              \* ticks since they changed, up to Settled + 1
          applied, clearing,  \* per replica: the version it has loaded, and whether to clear
          shared,             \* None or the decision in Redis
          reaches, degraded, emptying,
          fallback,           \* per replica: None or the decision of its own
          ask,                \* per replica: None or its request
          outages,
          wrongLate, wrongCalm

vars == <<policies, since, applied, clearing, shared, reaches, degraded, emptying, fallback, ask,
          outages, wrongLate, wrongCalm>>
loads == <<policies, since, applied, clearing>>
links == <<reaches, degraded, emptying, outages>>
ghosts == <<wrongLate, wrongCalm>>

Decision(v) == v % 2

Init ==
  /\ policies = 0 /\ since = 0
  /\ applied = [r \in Replica |-> 0] /\ clearing = [r \in Replica |-> FALSE]
  /\ shared = None /\ fallback = [r \in Replica |-> None]
  /\ reaches = [r \in Replica |-> TRUE]
  /\ degraded = [r \in Replica |-> FALSE] /\ emptying = [r \in Replica |-> FALSE]
  /\ ask = [r \in Replica |-> None]
  /\ outages = 0 /\ wrongLate = FALSE /\ wrongCalm = FALSE

-----------------------------------------------------------------------------
(* The policies change; a replica loads them (LoadProjectPolicies) and clears the cache.      *)
Change ==
  /\ policies < MaxPolicies /\ policies' = policies + 1 /\ since' = 0
  /\ UNCHANGED <<applied, clearing, shared, links, fallback, ask, ghosts>>

Load(r) ==
  /\ applied[r] < policies /\ ~clearing[r]
  /\ applied' = [applied EXCEPT ![r] = policies] /\ clearing' = [clearing EXCEPT ![r] = TRUE]
  /\ UNCHANGED <<policies, since, shared, links, fallback, ask, ghosts>>

\* Mutant: the keys in Redis are not deleted, only the other replicas told.
PublishOnly(r) ==
  /\ clearing[r] /\ clearing' = [clearing EXCEPT ![r] = FALSE]
  /\ fallback' = IF degraded[r] THEN [fallback EXCEPT ![r] = None] ELSE fallback
  /\ UNCHANGED <<policies, since, applied, shared, links, ask, ghosts>>

(* Clear: the own decisions of a degraded replica, what Redis has otherwise, if it answers.    *)
(* The others are told, and do nothing (handleInvalidationMessage).                     *)
Clear(r) ==
  /\ clearing[r] /\ clearing' = [clearing EXCEPT ![r] = FALSE]
  /\ fallback' = IF degraded[r] THEN [fallback EXCEPT ![r] = None] ELSE fallback
  /\ shared' = IF ~degraded[r] /\ reaches[r] THEN None ELSE shared
  /\ UNCHANGED <<policies, since, applied, links, ask, ghosts>>

(* enterDegradedMode.                                                               *)
EnterDegradedMode(r) == degraded' = [degraded EXCEPT ![r] = TRUE]

(* The answer is the decision of version v, kept when `late` by an evaluation that had been       *)
(* overtaken.                                                                     *)
Answer(r, e) ==
  LET wrong == Decision(e.v) # Decision(applied[r])
  IN /\ wrongLate' = (wrongLate \/ (wrong /\ since > Settled))
     /\ wrongCalm' = (wrongCalm \/ (/\ wrong /\ ~e.late /\ outages = 0
                                    /\ \A s \in Replica : applied[s] = policies /\ ~clearing[s]))

(* Get: a hit is the answer; a miss, or no answer of Redis, has the policies evaluated.       *)
Get(r) ==
  /\ ask[r] = None
  /\ LET from == IF degraded[r] THEN fallback[r] ELSE IF reaches[r] THEN shared ELSE None
     IN IF from # None THEN Answer(r, from) /\ UNCHANGED <<ask, degraded>>
        ELSE /\ ask' = [ask EXCEPT ![r] = [v |-> applied[r], age |-> 0]]
             /\ UNCHANGED ghosts
             /\ IF degraded[r] \/ reaches[r] THEN UNCHANGED degraded ELSE EnterDegradedMode(r)
  /\ UNCHANGED <<loads, shared, reaches, emptying, fallback, outages>>

(* Set: in Redis, or among the own decisions when degraded or when Redis does not answer.     *)
Set(r) ==
  /\ ask[r] # None /\ ask' = [ask EXCEPT ![r] = None]
  /\ LET e(t) == [v |-> ask[r].v, left |-> t, late |-> ask[r].v < policies]
     IN IF ~degraded[r] /\ reaches[r]
        THEN shared' = e(RedisTTL) /\ UNCHANGED <<fallback, degraded>>
        ELSE /\ fallback' = [fallback EXCEPT ![r] = e(FallbackTTL)]
             /\ EnterDegradedMode(r) /\ UNCHANGED shared
  /\ UNCHANGED <<loads, reaches, emptying, outages, ghosts>>

-----------------------------------------------------------------------------
(* tryRecovery: the flag first, then the own decisions.                                *)
Recover(r) ==
  /\ degraded[r] /\ reaches[r] /\ ~emptying[r]
  /\ degraded' = [degraded EXCEPT ![r] = FALSE] /\ emptying' = [emptying EXCEPT ![r] = TRUE]
  /\ UNCHANGED <<loads, shared, reaches, outages, fallback, ask, ghosts>>

EmptyFallback(r) ==
  /\ emptying[r] /\ emptying' = [emptying EXCEPT ![r] = FALSE]
  /\ fallback' = [fallback EXCEPT ![r] = None]
  /\ UNCHANGED <<loads, shared, reaches, degraded, outages, ask, ghosts>>

(* Redis is lost for a replica, and back.                                             *)
Link(r) ==
  /\ reaches' = [reaches EXCEPT ![r] = ~@]
  /\ IF reaches[r] THEN outages < MaxOutages /\ outages' = outages + 1 ELSE UNCHANGED outages
  /\ UNCHANGED <<loads, shared, degraded, emptying, fallback, ask, ghosts>>

\* Mutant: a decision has no time to live.
AgedNot(e) == e

Aged(e) == IF e = None \/ e.left = 1 THEN None ELSE [e EXCEPT !.left = @ - 1]

(* Time passes; loading, clearing and requests keep to their bounds.                     *)
Tick ==
  /\ \A r \in Replica : /\ (applied[r] < policies \/ clearing[r]) => since < Lag
                        /\ ask[r] # None => ask[r].age < Latency
  /\ since' = IF since > Settled THEN since ELSE since + 1
  /\ shared' = Aged(shared) /\ fallback' = [r \in Replica |-> Aged(fallback[r])]
  /\ ask' = [r \in Replica |-> IF ask[r] = None THEN None ELSE [ask[r] EXCEPT !.age = @ + 1]]
  /\ UNCHANGED <<policies, applied, clearing, links, ghosts>>

Next ==
  \/ \E r \in Replica : Load(r) \/ Clear(r) \/ Get(r) \/ Set(r) \/ Recover(r) \/ EmptyFallback(r)
                        \/ Link(r)
  \/ Change \/ Tick

Spec == Init /\ [][Next]_vars

-----------------------------------------------------------------------------
Entry(t) == [v : 0..MaxPolicies, left : 1..t, late : BOOLEAN]

TypeOK ==
  /\ policies \in 0..MaxPolicies /\ since \in 0..(Settled + 1)
  /\ applied \in [Replica -> 0..MaxPolicies] /\ clearing \in [Replica -> BOOLEAN]
  /\ shared \in Entry(RedisTTL) \cup {None}
  /\ fallback \in [Replica -> Entry(FallbackTTL) \cup {None}]
  /\ {outages} \subseteq 0..MaxOutages

(* No answer is older than a decision is kept, once the replicas have loaded a change: neither an   *)
(* outage nor a lost clearing makes a replica serve an outdated decision for longer                *)
(* (NewRedisAuthorizationCache).                                                      *)
WrongIsShort == ~wrongLate

(* Without an outage, and when no replica has still to load or to clear, an answer that is not what *)
(* the replica's policies say was kept by a request that a change had overtaken (Clear).           *)
CalmIsRight == ~wrongCalm
=============================================================================
