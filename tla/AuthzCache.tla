----------------------------- MODULE AuthzCache -----------------------------
(***************************************************************************)
(* One replica's authorization decisions: CanAccessWithGroups, the         *)
(* decision cache in front of Casbin (rbac/cache.go) and the operations of *)
(* rbac/policy_enforcer.go that change the policy and then invalidate the  *)
(* cache.                                                                  *)
(*                                                                         *)
(* pe.mu guards Casbin but not the cache: a request reads Casbin under     *)
(* RLock and stores the decision after RUnlock, and a policy change takes  *)
(* the write lock, releases it, and only then walks the cache.  The model  *)
(* keeps exactly these steps apart.  What happens under one hold of the    *)
(* lock is one action, except in RemoveProjectPolicies, which clears the   *)
(* cache while it holds the lock.                                          *)
(*                                                                         *)
(* Casbin's state is abstracted to the grouping edges <<subject, role>>    *)
(* and the rules <<role, object>>; an "object" stands for an object and    *)
(* an action, since the cache and the matcher treat the pair as one key.   *)
(***************************************************************************)
EXTENDS Naturals, FiniteSets

CONSTANTS
  User,          \* user identifiers, with and without the "user:" prefix
  Group,         \* OIDC group subjects
  Role,          \* role subjects, of every project
  Object,        \* object and action of a request
  Reader,        \* goroutines that serve requests
  Writer,        \* goroutines that change the policy
  Projects,      \* the sets of roles that belong to one project
  AltForm,       \* the other spelling of a user: "user:" added or trimmed
  None,          \* no request, no key
  CacheTTL,      \* lifetime of a decision, in ticks
  MaxWrites      \* bound: policy changes in one behaviour

Subject == User \cup Group \cup Role
Key     == Subject \X Object

ASSUME AuthzAssumption ==
  /\ CacheTTL \in Nat \ {0}
  /\ MaxWrites \in Nat
  /\ Projects \subseteq SUBSET Role
  /\ AltForm \in [User -> User]
  /\ None \notin Subject \X Object

Entry == [allowed : BOOLEAN, left : 0..CacheTTL, raced : BOOLEAN]

Request == [user : User, groups : SUBSET Group, objects : (SUBSET Object) \ {{}}]

VARIABLES
  edges,        \* Casbin g: subject -> role
  grants,       \* Casbin p: role -> object
  cache,        \* the decision cache, key by key
  request,      \* what each reader was asked
  pc, stage,    \* where each reader is in CanAccessWithGroups
  work,         \* keys the reader's current stage has still to look up
  cur,          \* the key being decided after a miss
  verdict,      \* what Enforce answered for cur
  result,       \* what the request returned
  wpc, todo,    \* what each writer is doing, and the keys it has still to drop
  writes,       \* policy changes so far
  fresh,        \* history: no policy write since the reader's Enforce
  calm,         \* history: nothing disturbed the request since it began
  unannounced   \* history: keys changed by an operation that failed before invalidating

policyVars == <<edges, grants>>
readerVars == <<request, pc, stage, work, cur, verdict, result>>
writerVars == <<wpc, todo, writes>>
ghostVars  == <<fresh, calm, unannounced>>
vars == <<policyVars, cache, readerVars, writerVars, ghostVars>>

-----------------------------------------------------------------------------
(* Casbin, as CanAccessWithGroups uses it *)

\* Enforce: the subject itself or a role it is grouped into has a matching rule.
Enforces(E, G, k) ==
  \/ k \in G
  \/ \E r \in Role : <<k[1], r>> \in E /\ <<r, k[2]>> \in G

Verdict(k) == Enforces(edges, grants, k)

RolesOf(E, u) == {r \in Role : <<u, r>> \in E}

\* Mutant: the other spelling of the user is not tried.
ServerRolesOneSpelling(E, u) == RolesOf(E, u)

\* GetImplicitRolesForUser, and the other spelling of the user if it has none.
ServerRoles(E, u) ==
  IF RolesOf(E, u) # {} THEN RolesOf(E, u) ELSE RolesOf(E, AltForm[u])

\* What CanAccessWithGroups promises of a request, stated without its stages:
\* one of its objects is allowed to the user, to one of its groups, or to one
\* of the roles held under either spelling of the user's name (the other
\* spelling counts only for a user without roles of its own).
Decision(E, G, q) ==
  \E o \in q.objects :
    \/ \E s \in {q.user} \cup q.groups : Enforces(E, G, <<s, o>>)
    \/ \E r \in Role :
         /\ \/ <<q.user, r>> \in E
            \/ <<AltForm[q.user], r>> \in E /\ \A x \in Role : <<q.user, x>> \notin E
         /\ Enforces(E, G, <<r, o>>)

\* A cached decision that Get still serves: present and not IsExpired.
Live(k) == cache[k] # None /\ cache[k].left > 0

\* Mutant: RemoveProjectPolicies does not keep readers out.
LockedNever == FALSE

\* pe.mu is held across steps only by RemoveProjectPolicies.
Locked == \E w \in Writer : wpc[w] = "removing"

-----------------------------------------------------------------------------
Init ==
  /\ edges \in SUBSET ((User \cup Group) \X Role)
  /\ grants \in SUBSET (Role \X Object)
  /\ cache = [k \in Key |-> None]
  /\ request = [r \in Reader |-> None]
  /\ pc = [r \in Reader |-> "idle"]
  /\ stage = [r \in Reader |-> "direct"]
  /\ work = [r \in Reader |-> {}]
  /\ cur = [r \in Reader |-> None]
  /\ verdict = [r \in Reader |-> FALSE]
  /\ result = [r \in Reader |-> FALSE]
  /\ wpc = [w \in Writer |-> "idle"]
  /\ todo = [w \in Writer |-> {}]
  /\ writes = 0
  /\ fresh = [r \in Reader |-> FALSE]
  /\ calm = [r \in Reader |-> FALSE]
  /\ unannounced = {}

-----------------------------------------------------------------------------
(* A request: CanAccessWithGroups *)

\* No decision that is served differs from the policy.
Coherent == \A k \in Key : Live(k) => cache[k].allowed = Verdict(k)

\* Nothing under way can make the cache disagree with the policy.
Settled ==
  /\ Coherent
  /\ \A w \in Writer : wpc[w] = "idle"
  /\ \A r \in Reader : pc[r] = "fill" => fresh[r]

\* Entry: the objects to check are worked out (namespace resolution, list
\* wildcards), then the user itself is tried on each of them.
Begin(r, q) ==
  /\ pc[r] = "idle"
  /\ request' = [request EXCEPT ![r] = q]
  /\ pc' = [pc EXCEPT ![r] = "lookup"]
  /\ stage' = [stage EXCEPT ![r] = "direct"]
  /\ work' = [work EXCEPT ![r] = {q.user} \X q.objects]
  /\ calm' = [calm EXCEPT ![r] = Settled]
  /\ UNCHANGED <<policyVars, cache, cur, verdict, result, writerVars, fresh, unannounced>>

\* What a lookup of key k that answered b does to the request: allow at once,
\* or go on with the rest of the stage.
Answer(r, k, b) ==
  /\ pc' = [pc EXCEPT ![r] = IF b THEN "done" ELSE "lookup"]
  /\ result' = [result EXCEPT ![r] = b]
  /\ work' = [work EXCEPT ![r] = IF b THEN {} ELSE @ \ {k}]

\* Mutant: any decision found is taken for an allow.
GetHitAllows(r, k) ==
  /\ pc[r] = "lookup" /\ k \in work[r]
  /\ Live(k)
  /\ Answer(r, k, TRUE)
  /\ UNCHANGED <<policyVars, cache, request, stage, cur, verdict, writerVars, ghostVars>>

\* cache.Get found a live decision.
GetHit(r, k) ==
  /\ pc[r] = "lookup" /\ k \in work[r]
  /\ Live(k)
  /\ Answer(r, k, cache[k].allowed)
  /\ UNCHANGED <<policyVars, cache, request, stage, cur, verdict, writerVars, ghostVars>>

\* cache.Get found nothing, or an expired decision, which it deletes.  (The
\* delete may hit a newer decision of another reader: that only loses it.)
GetMiss(r, k) ==
  /\ pc[r] = "lookup" /\ k \in work[r]
  /\ ~Live(k)
  /\ cache' = [cache EXCEPT ![k] = None]
  /\ pc' = [pc EXCEPT ![r] = "miss"]
  /\ cur' = [cur EXCEPT ![r] = k]
  /\ UNCHANGED <<policyVars, request, stage, work, verdict, result, writerVars, ghostVars>>

\* Enforce under pe.mu.RLock.
Enforce(r) ==
  /\ pc[r] = "miss" /\ ~Locked
  /\ pc' = [pc EXCEPT ![r] = "fill"]
  /\ verdict' = [verdict EXCEPT ![r] = Verdict(cur[r])]
  /\ fresh' = [fresh EXCEPT ![r] = TRUE]
  /\ UNCHANGED <<policyVars, cache, request, stage, work, cur, result, writerVars,
                 calm, unannounced>>

\* Enforce returned an error: fatal for the user itself, skipped for a group or a role.
EnforceFails(r) ==
  /\ pc[r] = "miss" /\ ~Locked
  /\ pc' = [pc EXCEPT ![r] = IF stage[r] = "direct" THEN "done" ELSE "lookup"]
  /\ work' = [work EXCEPT ![r] = IF stage[r] = "direct" THEN {} ELSE @ \ {cur[r]}]
  /\ result' = [result EXCEPT ![r] = FALSE]
  /\ cur' = [cur EXCEPT ![r] = None]
  /\ calm' = [calm EXCEPT ![r] = FALSE]
  /\ UNCHANGED <<policyVars, cache, request, stage, verdict, writerVars,
                 fresh, unannounced>>

\* cache.Set, after RUnlock; then the decision is used.
Fill(r) ==
  /\ pc[r] = "fill"
  /\ cache' = [cache EXCEPT ![cur[r]] =
                 [allowed |-> verdict[r], left |-> CacheTTL, raced |-> ~fresh[r]]]
  /\ Answer(r, cur[r], verdict[r])
  /\ cur' = [cur EXCEPT ![r] = None]
  /\ verdict' = [verdict EXCEPT ![r] = FALSE]
  /\ fresh' = [fresh EXCEPT ![r] = FALSE]
  /\ UNCHANGED <<policyVars, request, stage, writerVars, calm, unannounced>>

\* The user is not allowed itself: try each of its OIDC groups.
TryGroups(r) ==
  /\ pc[r] = "lookup" /\ work[r] = {} /\ stage[r] = "direct"
  /\ stage' = [stage EXCEPT ![r] = "groups"]
  /\ work' = [work EXCEPT ![r] = request[r].groups \X request[r].objects]
  /\ UNCHANGED <<policyVars, cache, request, pc, cur, verdict, result, writerVars, ghostVars>>

\* No group is allowed: read the user's roles under one RLock, then try each.
FetchRoles(r) ==
  /\ pc[r] = "lookup" /\ work[r] = {} /\ stage[r] = "groups" /\ ~Locked
  /\ stage' = [stage EXCEPT ![r] = "roles"]
  /\ work' = [work EXCEPT ![r] =
                ServerRoles(edges, request[r].user) \X request[r].objects]
  /\ UNCHANGED <<policyVars, cache, request, pc, cur, verdict, result, writerVars, ghostVars>>

\* No role is allowed either.
Deny(r) ==
  /\ pc[r] = "lookup" /\ work[r] = {} /\ stage[r] = "roles"
  /\ pc' = [pc EXCEPT ![r] = "done"]
  /\ result' = [result EXCEPT ![r] = FALSE]
  /\ UNCHANGED <<policyVars, cache, request, stage, work, cur, verdict, writerVars, ghostVars>>

\* The caller has its answer.
Return(r) ==
  /\ pc[r] = "done"
  /\ pc' = [pc EXCEPT ![r] = "idle"]
  /\ request' = [request EXCEPT ![r] = None]
  /\ stage' = [stage EXCEPT ![r] = "direct"]
  /\ result' = [result EXCEPT ![r] = FALSE]
  /\ calm' = [calm EXCEPT ![r] = FALSE]
  /\ UNCHANGED <<policyVars, cache, work, cur, verdict, writerVars, fresh, unannounced>>

ReaderStep(r) ==
  \/ \E q \in Request : Begin(r, q)
  \/ \E k \in work[r] : GetHit(r, k) \/ GetMiss(r, k)
  \/ Enforce(r) \/ EnforceFails(r) \/ Fill(r)
  \/ TryGroups(r) \/ FetchRoles(r) \/ Deny(r) \/ Return(r)

-----------------------------------------------------------------------------
(* Policy changes.  Write(E, G) is what one hold of the write lock does to *)
(* Casbin and to the history variables; the cache is dropped afterwards.   *)

Write(E, G) ==
  /\ writes < MaxWrites
  /\ writes' = writes + 1
  /\ edges' = E /\ grants' = G
  /\ fresh' = [r \in Reader |-> FALSE]
  /\ calm' = [r \in Reader |-> FALSE]

\* Everything a subject's grouping edges can change is keyed by that subject.
KeysOf(s) == {s} \X Object

\* Lock; write; Unlock; then walk the cache and drop the keys in K.
WriteThenDrop(w, E, G, K) ==
  /\ wpc[w] = "idle" /\ ~Locked
  /\ Write(E, G)
  /\ wpc' = [wpc EXCEPT ![w] = "clearing"]
  /\ todo' = [todo EXCEPT ![w] = K]
  /\ UNCHANGED <<cache, readerVars, unannounced>>

\* Lock; write; Unlock; return the error without touching the cache.  K holds
\* the keys the write can have changed.
WriteThenFail(w, E, G, K) ==
  /\ wpc[w] = "idle" /\ ~Locked
  /\ Write(E, G)
  /\ unannounced' = unannounced \cup K
  /\ UNCHANGED <<cache, readerVars, wpc, todo>>

\* What (re)loading the roles P of a project leaves in Casbin: its rules G and
\* its group edges E replace the old ones, user edges B are added.
Reloaded(P, E, B) == (edges \ (Group \X P)) \cup E \cup B
Reruled(P, G)     == (grants \ (P \X Object)) \cup G

\* LoadProjectPolicies: one project is replaced, then the cache is cleared.
LoadProjectPolicies(w) ==
  \E P \in Projects :
    \E E \in SUBSET (Group \X P), B \in SUBSET (User \X P), G \in SUBSET (P \X Object) :
      WriteThenDrop(w, Reloaded(P, E, B), Reruled(P, G), Key)

\* An invalid role or policy: the roles before it are loaded, the bindings of
\* the annotation are not, and the cache is left as it is.
LoadProjectPoliciesFails(w) ==
  \E P \in Projects :
    \E E \in SUBSET (Group \X P), G \in SUBSET (P \X Object) :
      WriteThenFail(w, Reloaded(P, E, {}), Reruled(P, G), Key)

\* SyncPolicies: every project is replaced under one hold of the lock; the
\* cache is cleared whether or not some project failed to load.
SyncPolicies(w) ==
  LET P == UNION Projects IN
  \E E \in SUBSET (Group \X P), B \in SUBSET (User \X P), G \in SUBSET (P \X Object) :
    WriteThenDrop(w, Reloaded(P, E, B), Reruled(P, G), Key)

Replaced(s, R) == {e \in edges : e[1] # s} \cup ({s} \X R)

\* AssignUserRoles: the roles of one subject are replaced, then the decisions
\* keyed by that subject are dropped (InvalidateCacheForUser).
AssignUserRoles(w) ==
  \E s \in User \cup Group, R \in SUBSET Role :
    WriteThenDrop(w, Replaced(s, R), grants, KeysOf(s))

\* A role of the list has an invalid format: the old roles are gone, those
\* before it are assigned, and the cache is left as it is.
AssignUserRolesFails(w) ==
  \E s \in User \cup Group, R \in SUBSET Role :
    WriteThenFail(w, Replaced(s, R), grants, KeysOf(s))

\* RemoveUserRoles, and RemoveUserRole for a single role.
RemoveUserRoles(w) ==
  \E s \in User \cup Group, R \in SUBSET Role :
    WriteThenDrop(w, edges \ ({s} \X R), grants, Key)

\* InvalidateCache and InvalidateCacheForProject: a clear without a write.
InvalidateCache(w) ==
  /\ wpc[w] = "idle"
  /\ wpc' = [wpc EXCEPT ![w] = "clearing"]
  /\ todo' = [todo EXCEPT ![w] = Key]
  /\ UNCHANGED <<policyVars, cache, readerVars, writes, ghostVars>>

\* RemoveProjectPolicies takes the lock, clears the cache, and only then
\* removes the project's rules and group edges, still under the lock.
BeginRemoveProject(w) ==
  /\ wpc[w] = "idle" /\ ~Locked
  /\ Write(edges, grants)
  /\ wpc' = [wpc EXCEPT ![w] = "removing"]
  /\ todo' = [todo EXCEPT ![w] = Key]
  /\ UNCHANGED <<cache, readerVars, unannounced>>

FinishRemoveProject(w) ==
  /\ wpc[w] = "removing" /\ todo[w] = {}
  /\ \E P \in Projects :
       /\ edges' = Reloaded(P, {}, {})
       /\ grants' = Reruled(P, {})
  /\ wpc' = [wpc EXCEPT ![w] = "idle"]
  /\ UNCHANGED <<cache, readerVars, todo, writes, ghostVars>>

\* One step of Clear or InvalidateByPrefix: the range over the sync.Map visits
\* a key and deletes it, concurrently with everybody else.
DropKey(w, k) ==
  /\ k \in todo[w]
  /\ cache' = [cache EXCEPT ![k] = None]
  /\ todo' = [todo EXCEPT ![w] = @ \ {k}]
  /\ unannounced' = unannounced \ {k}
  /\ UNCHANGED <<policyVars, readerVars, wpc, writes, fresh, calm>>

\* The invalidation is over and the operation returns.
FinishClear(w) ==
  /\ wpc[w] = "clearing" /\ todo[w] = {}
  /\ wpc' = [wpc EXCEPT ![w] = "idle"]
  /\ UNCHANGED <<policyVars, cache, readerVars, todo, writes, ghostVars>>

WriterStep(w) ==
  \/ LoadProjectPolicies(w) \/ LoadProjectPoliciesFails(w) \/ SyncPolicies(w)
  \/ AssignUserRoles(w) \/ AssignUserRolesFails(w) \/ RemoveUserRoles(w)
  \/ InvalidateCache(w) \/ BeginRemoveProject(w) \/ FinishRemoveProject(w)
  \/ \E k \in todo[w] : DropKey(w, k)
  \/ FinishClear(w)

-----------------------------------------------------------------------------
(* Time *)

\* Mutant: expired decisions go on ageing.
TickPastZero ==
  /\ cache' = [k \in Key |->
       IF cache[k] # None THEN [cache[k] EXCEPT !.left = @ - 1] ELSE None]
  /\ UNCHANGED <<policyVars, readerVars, writerVars, ghostVars>>

\* Mutant: a permission once granted is cached without an expiry.
TickKeepsAllows ==
  /\ cache' = [k \in Key |->
       IF Live(k) /\ ~cache[k].allowed THEN [cache[k] EXCEPT !.left = @ - 1] ELSE cache[k]]
  /\ UNCHANGED <<policyVars, readerVars, writerVars, ghostVars>>

\* ExpiresAt is fixed when the decision is stored: nothing prolongs it.
Tick ==
  /\ cache' = [k \in Key |->
       IF Live(k) THEN [cache[k] EXCEPT !.left = @ - 1] ELSE cache[k]]
  /\ UNCHANGED <<policyVars, readerVars, writerVars, ghostVars>>

\* The cleanup loop drops an expired decision.
Cleanup(k) ==
  /\ cache[k] # None /\ ~Live(k)
  /\ cache' = [cache EXCEPT ![k] = None]
  /\ UNCHANGED <<policyVars, readerVars, writerVars, ghostVars>>

Next ==
  \/ \E r \in Reader : ReaderStep(r)
  \/ \E w \in Writer : WriterStep(w)
  \/ Tick
  \/ \E k \in Key : Cleanup(k)

\* Only the clock is assumed to advance: readers and writers may stop anywhere.
Spec == Init /\ [][Next]_vars /\ WF_vars(Tick)

-----------------------------------------------------------------------------
(* Properties *)

TypeOK ==
  /\ edges \in SUBSET ((User \cup Group) \X Role)
  /\ grants \in SUBSET (Role \X Object)
  /\ cache \in [Key -> Entry \cup {None}]
  /\ request \in [Reader -> Request \cup {None}]
  /\ pc \in [Reader -> {"idle", "lookup", "miss", "fill", "done"}]
  /\ stage \in [Reader -> {"direct", "groups", "roles"}]
  /\ work \in [Reader -> SUBSET Key]
  /\ cur \in [Reader -> Key \cup {None}]
  /\ verdict \in [Reader -> BOOLEAN]
  /\ result \in [Reader -> BOOLEAN]
  /\ wpc \in [Writer -> {"idle", "clearing", "removing"}]
  /\ todo \in [Writer -> SUBSET Key]
  /\ writes \in 0..MaxWrites
  /\ fresh \in [Reader -> BOOLEAN]
  /\ calm \in [Reader -> BOOLEAN]
  /\ unannounced \in SUBSET Key

(* A cached decision disagrees with the policy only for one of three       *)
(* reasons: the operation that changed the policy has still to drop it; an *)
(* operation failed and returned without dropping it; or it was stored by  *)
(* a reader whose Enforce preceded a policy write that its Set followed.   *)
(* So the window between RUnlock and cache.Set in CanAccess is the only    *)
(* way a decision outlives the invalidation that was meant for it.         *)
StaleIsExplained ==
  \A k \in Key :
    cache[k] # None /\ cache[k].allowed # Verdict(k) =>
      \/ cache[k].raced
      \/ k \in unannounced
      \/ \E w \in Writer : k \in todo[w]

(* A request that began when the cache agreed with the policy and nothing  *)
(* was under way, and that no policy write or error disturbed, returns     *)
(* exactly what the policy says of the user, its groups and its roles:     *)
(* cached denials never hide a later grant, in any interleaving with other *)
(* readers, expiry and invalidations.                                      *)
CalmAnswer ==
  \A r \in Reader :
    pc[r] = "done" /\ calm[r] => (result[r] <=> Decision(edges, grants, request[r]))

(* Once policy changes stop, the cache comes to agree with the policy and  *)
(* stays so, whatever was left behind by races and failed operations: a    *)
(* decision's lifetime is counted from when it was stored.                 *)
EventuallyCoherent == <>[]Coherent

(* "Invalidate cache to ensure the permission removal is reflected         *)
(* immediately" (role_binding_handler.go:431): when every operation has    *)
(* returned and none failed, no stale decision is served.                  *)
ReflectedImmediately ==
  (unannounced = {} /\ \A w \in Writer : wpc[w] = "idle") => Coherent
=============================================================================
