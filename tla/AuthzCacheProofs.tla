-------------------------- MODULE AuthzCacheProofs --------------------------
(* Type correctness of AuthzCache; that a stale cached decision always has *)
(* one of the three explanations of StaleIsExplained; and that an          *)
(* undisturbed request gets the answer of the policy (CalmAnswer).         *)
EXTENDS AuthzCache, TLAPS

\* A request under way was asked something, and one that missed has a key.
Asked ==
  \A r \in Reader :
    /\ pc[r] # "idle" => request[r] \in Request
    /\ pc[r] \in {"miss", "fill"} => cur[r] \in Key

\* The answer of an Enforce that no policy write followed is still current,
\* and no removal has begun since.
FreshFill ==
  \A r \in Reader :
    pc[r] = "fill" /\ fresh[r] => ~Locked /\ verdict[r] = Verdict(cur[r])

\* While RemoveProjectPolicies holds the lock, what it has already cleared can
\* only have been filled again by a reader whose Enforce preceded the lock.
RemovalClears ==
  \A w \in Writer : wpc[w] = "removing" =>
    \A k \in Key : cache[k] # None => cache[k].raced \/ k \in todo[w]

\* A writer that is not invalidating has nothing left to drop.
IdleWriters == \A w \in Writer : wpc[w] = "idle" => todo[w] = {}

Inv ==
  TypeOK /\ Asked /\ FreshFill /\ RemovalClears /\ IdleWriters /\ StaleIsExplained

-----------------------------------------------------------------------------
(* Grouping edges of a subject decide only the keys of that subject. *)
LEMMA OtherKeysUnmoved ==
  ASSUME NEW s \in User \cup Group, NEW k \in Key, k \notin KeysOf(s),
         NEW E, NEW F, NEW G,
         \A t \in Subject, r \in Role : t # s => (<<t, r>> \in E <=> <<t, r>> \in F)
  PROVE  Enforces(E, G, k) <=> Enforces(F, G, k)
  BY DEF Enforces, KeysOf, Key, Subject

(* A reader's step keeps the types and what Asked says of the requests. *)
LEMMA ReaderTypes ==
  ASSUME TypeOK, Asked, NEW r \in Reader, ReaderStep(r)
  PROVE  TypeOK' /\ Asked'
<1> USE AuthzAssumption DEF Asked, policyVars, readerVars, writerVars, ghostVars
<1>1. ASSUME NEW q \in Request, Begin(r, q) PROVE TypeOK' /\ Asked'
  <2>1. {q.user} \X q.objects \in SUBSET Key
    BY DEF Request, Key, Subject
  <2>2. calm' \in [Reader -> BOOLEAN]
    BY <1>1 DEF Begin, TypeOK, Settled, Coherent
  <2>. QED BY <1>1, <2>1, <2>2 DEF Begin, TypeOK
<1>2. ASSUME NEW k \in work[r], GetHit(r, k) PROVE TypeOK' /\ Asked'
  <2>1. k \in Key /\ cache[k] \in Entry BY <1>2 DEF GetHit, TypeOK, Live
  <2>2. cache[k].allowed \in BOOLEAN BY <2>1 DEF Entry
  <2>. QED BY <1>2, <2>1, <2>2 DEF GetHit, Answer, TypeOK
<1>3. ASSUME NEW k \in work[r], GetMiss(r, k) PROVE TypeOK' /\ Asked'
  BY <1>3 DEF GetMiss, TypeOK
<1>4. CASE Enforce(r)
  BY <1>4 DEF Enforce, TypeOK, Verdict, Enforces
<1>5. CASE EnforceFails(r)
  BY <1>5 DEF EnforceFails, TypeOK
<1>6. CASE Fill(r)
  <2>1. [allowed |-> verdict[r], left |-> CacheTTL, raced |-> ~fresh[r]] \in Entry
    BY DEF TypeOK, Entry
  <2>. QED BY <1>6, <2>1 DEF Fill, Answer, TypeOK
<1>7. CASE TryGroups(r)
  <2>1. request[r].groups \X request[r].objects \in SUBSET Key
    BY <1>7 DEF TryGroups, Request, Key, Subject
  <2>. QED BY <1>7, <2>1 DEF TryGroups, TypeOK
<1>8. CASE FetchRoles(r)
  <2>1. ServerRoles(edges, request[r].user) \X request[r].objects \in SUBSET Key
    BY <1>8 DEF FetchRoles, Request, Key, Subject, ServerRoles, RolesOf
  <2>. QED BY <1>8, <2>1 DEF FetchRoles, TypeOK
<1>9. CASE Deny(r)
  BY <1>9 DEF Deny, TypeOK
<1>10. CASE Return(r)
  BY <1>10 DEF Return, TypeOK
<1>. QED
  BY <1>1, <1>2, <1>3, <1>4, <1>5, <1>6, <1>7, <1>8, <1>9, <1>10 DEF ReaderStep

\* What WriteThenDrop and WriteThenFail may be given to write.
Edges  == SUBSET ((User \cup Group) \X Role)
Grants == SUBSET (Role \X Object)

(* Every policy change writes edges and rules of the right shape. *)
LEMMA WriteTypes ==
  ASSUME TypeOK
  PROVE  /\ \A P \in Projects, E \in SUBSET (Group \X Role), B \in SUBSET (User \X Role) :
              Reloaded(P, E, B) \in Edges
         /\ \A P \in Projects, G \in SUBSET (Role \X Object) : Reruled(P, G) \in Grants
         /\ \A s \in User \cup Group, R \in SUBSET Role :
              Replaced(s, R) \in Edges /\ edges \ ({s} \X R) \in Edges
         /\ \A s \in User \cup Group : KeysOf(s) \in SUBSET Key
  BY DEF TypeOK, Edges, Grants, Reloaded, Reruled, Replaced, KeysOf, Key, Subject

(* A write of well-typed edges and rules keeps the types. *)
LEMMA WriteKeepsTypes ==
  ASSUME TypeOK, NEW E \in Edges, NEW G \in Grants, Write(E, G)
  PROVE  /\ writes' \in 0..MaxWrites
         /\ edges' \in Edges /\ grants' \in Grants
         /\ fresh' \in [Reader -> BOOLEAN]
         /\ calm' \in [Reader -> BOOLEAN]
  BY AuthzAssumption DEF Write, TypeOK

LEMMA WriteThenDropTypes ==
  ASSUME TypeOK, Asked, NEW w \in Writer, NEW E \in Edges, NEW G \in Grants,
         NEW K \in SUBSET Key, WriteThenDrop(w, E, G, K)
  PROVE  TypeOK' /\ Asked'
  BY WriteKeepsTypes DEF WriteThenDrop, TypeOK, Asked, Edges, Grants, readerVars

LEMMA WriteThenFailTypes ==
  ASSUME TypeOK, Asked, NEW w \in Writer, NEW E \in Edges, NEW G \in Grants,
         NEW K \in SUBSET Key, WriteThenFail(w, E, G, K)
  PROVE  TypeOK' /\ Asked'
  BY WriteKeepsTypes DEF WriteThenFail, TypeOK, Asked, Edges, Grants, readerVars

(* The writes of a writer's step, in the two shapes they come in. *)
LEMMA WriterShapes ==
  ASSUME TypeOK, NEW w \in Writer, WriterStep(w)
  PROVE  \/ \E E \in Edges, G \in Grants : WriteThenDrop(w, E, G, Key)
         \/ \E s \in User \cup Group, R \in SUBSET Role :
              WriteThenDrop(w, Replaced(s, R), grants, KeysOf(s))
         \/ \E E \in Edges, G \in Grants : WriteThenFail(w, E, G, Key)
         \/ \E s \in User \cup Group, R \in SUBSET Role :
              WriteThenFail(w, Replaced(s, R), grants, KeysOf(s))
         \/ InvalidateCache(w) \/ BeginRemoveProject(w) \/ FinishRemoveProject(w)
         \/ (\E k \in todo[w] : DropKey(w, k)) \/ FinishClear(w)
<1> USE AuthzAssumption
<1>1. grants \in Grants BY DEF TypeOK, Grants
<1>2. \A P \in Projects : P \in SUBSET Role OBVIOUS
<1>3. CASE LoadProjectPolicies(w)
  BY <1>2, <1>3, WriteTypes DEF LoadProjectPolicies
<1>4. CASE LoadProjectPoliciesFails(w)
  BY <1>2, <1>4, WriteTypes DEF LoadProjectPoliciesFails
<1>5. CASE SyncPolicies(w)
  <2> DEFINE P == UNION Projects
  <2>1. P \in SUBSET Role OBVIOUS
  <2>2. \A E \in SUBSET (Group \X P), B \in SUBSET (User \X P), G \in SUBSET (P \X Object) :
          Reloaded(P, E, B) \in Edges /\ Reruled(P, G) \in Grants
    BY <2>1 DEF TypeOK, Edges, Grants, Reloaded, Reruled
  <2>. QED BY <1>5, <2>2 DEF SyncPolicies
<1>6. CASE RemoveUserRoles(w)
  BY <1>1, <1>6, WriteTypes DEF RemoveUserRoles
<1>7. CASE AssignUserRoles(w)
  BY <1>7 DEF AssignUserRoles
<1>8. CASE AssignUserRolesFails(w)
  BY <1>8 DEF AssignUserRolesFails
<1>. QED BY <1>3, <1>4, <1>5, <1>6, <1>7, <1>8 DEF WriterStep

LEMMA WriterTypes ==
  ASSUME TypeOK, Asked, NEW w \in Writer, WriterStep(w)
  PROVE  TypeOK' /\ Asked'
<1> USE AuthzAssumption DEF policyVars, readerVars, writerVars, ghostVars
<1>1. grants \in Grants /\ Key \in SUBSET Key BY DEF TypeOK, Grants
<1>2. ASSUME NEW E \in Edges, NEW G \in Grants, WriteThenDrop(w, E, G, Key)
      PROVE  TypeOK' /\ Asked'
  BY <1>1, <1>2, WriteThenDropTypes
<1>3. ASSUME NEW s \in User \cup Group, NEW R \in SUBSET Role,
             WriteThenDrop(w, Replaced(s, R), grants, KeysOf(s))
      PROVE  TypeOK' /\ Asked'
  BY <1>1, <1>3, WriteThenDropTypes, WriteTypes
<1>4. ASSUME NEW E \in Edges, NEW G \in Grants, WriteThenFail(w, E, G, Key)
      PROVE  TypeOK' /\ Asked'
  BY <1>1, <1>4, WriteThenFailTypes
<1>5. ASSUME NEW s \in User \cup Group, NEW R \in SUBSET Role,
             WriteThenFail(w, Replaced(s, R), grants, KeysOf(s))
      PROVE  TypeOK' /\ Asked'
  BY <1>1, <1>5, WriteThenFailTypes, WriteTypes
<1>6. CASE InvalidateCache(w)
  BY <1>6 DEF InvalidateCache, TypeOK, Asked
<1>7. CASE BeginRemoveProject(w)
  <2>1. edges \in Edges BY DEF TypeOK, Edges
  <2>. QED BY <1>1, <1>7, <2>1, WriteKeepsTypes
       DEF BeginRemoveProject, TypeOK, Asked, Edges, Grants
<1>8. CASE FinishRemoveProject(w)
  <2>1. PICK P \in Projects : edges' = Reloaded(P, {}, {}) /\ grants' = Reruled(P, {})
    BY <1>8 DEF FinishRemoveProject
  <2>2. edges' \in Edges /\ grants' \in Grants
    BY <2>1, WriteTypes
  <2>. QED BY <1>8, <2>2 DEF FinishRemoveProject, TypeOK, Asked, Edges, Grants
<1>9. ASSUME NEW k \in todo[w], DropKey(w, k) PROVE TypeOK' /\ Asked'
  BY <1>9 DEF DropKey, TypeOK, Asked
<1>10. CASE FinishClear(w)
  BY <1>10 DEF FinishClear, TypeOK, Asked
<1>. QED
  BY <1>2, <1>3, <1>4, <1>5, <1>6, <1>7, <1>8, <1>9, <1>10, WriterShapes

LEMMA TimeTypes ==
  ASSUME TypeOK, Asked, Tick \/ \E k \in Key : Cleanup(k)
  PROVE  TypeOK' /\ Asked'
<1> USE AuthzAssumption DEF policyVars, readerVars, writerVars, ghostVars
<1>1. CASE Tick
  <2>1. ASSUME NEW k \in Key, Live(k)
        PROVE  [cache[k] EXCEPT !.left = @ - 1] \in Entry
    BY <2>1 DEF TypeOK, Live, Entry
  <2>2. cache' \in [Key -> Entry \cup {None}]
    BY <1>1, <2>1 DEF Tick, TypeOK
  <2>. QED BY <1>1, <2>2 DEF Tick, TypeOK, Asked
<1>2. ASSUME NEW k \in Key, Cleanup(k) PROVE TypeOK' /\ Asked'
  BY <1>2 DEF Cleanup, TypeOK, Asked
<1>. QED BY <1>1, <1>2

(* Every variable keeps its type in every behaviour of AuthzCache. *)
LEMMA TypesInitially == Init => TypeOK /\ Asked
  BY AuthzAssumption DEF Init, TypeOK, Asked

LEMMA TypesStep == TypeOK /\ Asked /\ [Next]_vars => TypeOK' /\ Asked'
<1> SUFFICES ASSUME TypeOK, Asked, [Next]_vars PROVE TypeOK' /\ Asked'
  OBVIOUS
<1>1. CASE UNCHANGED vars
  BY <1>1 DEF vars, policyVars, readerVars, writerVars, ghostVars, TypeOK, Asked
<1>. QED BY <1>1, ReaderTypes, WriterTypes, TimeTypes DEF Next

(* The variables of a replica always have their declared types: no         *)
(* interleaving of requests, policy changes and expiry stores anything but *)
(* a decision with a lifetime of at most CacheTTL in the cache.            *)
THEOREM TypeCorrect == Spec => []TypeOK
<1>1. Init => TypeOK /\ Asked BY TypesInitially
<1>2. TypeOK /\ Asked /\ [Next]_vars => (TypeOK /\ Asked)' BY TypesStep
<1>. QED BY <1>1, <1>2, PTL DEF Spec

-----------------------------------------------------------------------------
(* Readers keep the invariant *)

\* What a step that leaves the policy and the writers alone has to keep.
Rest == FreshFill /\ RemovalClears /\ IdleWriters /\ StaleIsExplained

LEMMA FillKeepsInv ==
  ASSUME Inv, NEW r \in Reader, Fill(r)
  PROVE  Rest'
<1> DEFINE k == cur[r]
<1>1. k \in Key /\ cache \in [Key -> Entry \cup {None}]
  BY DEF Inv, TypeOK, Asked, Fill
<1>2. /\ cache'[k].raced = ~fresh[r] /\ cache'[k].allowed = verdict[r]
      /\ \A j \in Key : j # k => cache'[j] = cache[j]
  BY <1>1 DEF Fill
<1>3. UNCHANGED <<edges, grants, wpc, todo, unannounced>>
  BY DEF Fill, policyVars, writerVars
<1>4. \A j : Verdict(j)' = Verdict(j)
  BY <1>3 DEF Verdict, Enforces
<1>5. Locked' = Locked
  BY <1>3 DEF Locked
<1>6. FreshFill'
  <2> SUFFICES ASSUME NEW s \in Reader, pc'[s] = "fill", fresh'[s]
               PROVE  ~Locked' /\ verdict'[s] = Verdict(cur[s])'
    BY DEF FreshFill
  <2>1. s # r
    BY DEF Fill, Answer, Inv, TypeOK
  <2>2. pc[s] = "fill" /\ fresh[s] /\ cur'[s] = cur[s] /\ verdict'[s] = verdict[s]
    BY <2>1 DEF Fill, Answer, Inv, TypeOK
  <2>. QED BY <2>2, <1>4, <1>5 DEF Inv, FreshFill
<1>7. fresh[r] => ~Locked /\ verdict[r] = Verdict(k)
  BY DEF Inv, FreshFill, Fill
<1>8. RemovalClears'
  <2> SUFFICES ASSUME NEW w \in Writer, wpc'[w] = "removing",
                      NEW j \in Key, cache'[j] # None
               PROVE  cache'[j].raced \/ j \in todo'[w]
    BY DEF RemovalClears
  <2>1. CASE j = k
    BY <2>1, <1>2, <1>3, <1>7 DEF Locked, Inv, TypeOK
  <2>2. CASE j # k
    BY <2>2, <1>2, <1>3 DEF Inv, RemovalClears
  <2>. QED BY <2>1, <2>2
<1>9. StaleIsExplained'
  <2> SUFFICES ASSUME NEW j \in Key, cache'[j] # None, cache'[j].allowed # Verdict(j)'
               PROVE  \/ cache'[j].raced
                      \/ j \in unannounced'
                      \/ \E w \in Writer : j \in todo'[w]
    BY DEF StaleIsExplained
  <2>1. CASE j = k
    BY <2>1, <1>2, <1>4, <1>7 DEF Inv, TypeOK
  <2>2. CASE j # k
    BY <2>2, <1>2, <1>3, <1>4 DEF Inv, StaleIsExplained
  <2>. QED BY <2>1, <2>2
<1>. QED BY <1>3, <1>6, <1>8, <1>9 DEF Rest, Inv, IdleWriters

LEMMA ReaderKeepsInv ==
  ASSUME Inv, NEW r \in Reader, ReaderStep(r)
  PROVE  Rest'
<1>1. CASE Fill(r)
  BY <1>1, FillKeepsInv
<1>2. CASE Enforce(r)
  <2>1. UNCHANGED <<edges, grants, wpc, todo, unannounced, cache, cur>>
    BY <1>2 DEF Enforce, policyVars, writerVars
  <2>2. \A j : Verdict(j)' = Verdict(j)
    BY <2>1 DEF Verdict, Enforces
  <2>3. ~Locked /\ Locked' = Locked
    BY <1>2, <2>1 DEF Locked, Enforce
  <2>4. FreshFill'
    <3> SUFFICES ASSUME NEW s \in Reader, pc'[s] = "fill", fresh'[s]
                 PROVE  verdict'[s] = Verdict(cur[s])'
      BY <2>3 DEF FreshFill
    <3>1. CASE s = r
      BY <3>1, <1>2, <2>1, <2>2 DEF Enforce, Inv, TypeOK
    <3>2. CASE s # r
      BY <3>2, <1>2, <2>1, <2>2 DEF Enforce, Inv, TypeOK, FreshFill
    <3>. QED BY <3>1, <3>2
  <2>. QED BY <2>1, <2>2, <2>4
       DEF Rest, Inv, RemovalClears, IdleWriters, StaleIsExplained
<1>3. ASSUME /\ UNCHANGED <<policyVars, writerVars, verdict, unannounced>>
             /\ \A k \in Key : cache'[k] = cache[k] \/ cache'[k] = None
             /\ \A s \in Reader : pc'[s] = "fill" =>
                  pc[s] = "fill" /\ cur'[s] = cur[s] /\ fresh'[s] = fresh[s]
      PROVE  Rest'
  <2>1. UNCHANGED <<edges, grants, wpc, todo, unannounced, verdict>>
    BY <1>3 DEF policyVars, writerVars
  <2>2. \A j : Verdict(j)' = Verdict(j)
    BY <2>1 DEF Verdict, Enforces
  <2>3. Locked' = Locked
    BY <2>1 DEF Locked
  <2>4. FreshFill'
    BY <1>3, <2>1, <2>2, <2>3 DEF Inv, FreshFill
  <2>5. RemovalClears' /\ IdleWriters'
    BY <1>3, <2>1 DEF Inv, RemovalClears, IdleWriters
  <2>6. StaleIsExplained'
    BY <1>3, <2>1, <2>2 DEF Inv, StaleIsExplained
  <2>. QED BY <2>4, <2>5, <2>6 DEF Rest
<1>4. ASSUME NEW q \in Request, Begin(r, q) PROVE Rest'
  BY <1>4, <1>3 DEF Begin, Inv, TypeOK
<1>5. ASSUME NEW k \in work[r], GetHit(r, k) \/ GetMiss(r, k) PROVE Rest'
  BY <1>5, <1>3 DEF GetHit, GetMiss, Answer, ghostVars, Inv, TypeOK
<1>6. CASE EnforceFails(r)
  BY <1>6, <1>3 DEF EnforceFails, Inv, TypeOK
<1>7. CASE TryGroups(r) \/ FetchRoles(r) \/ Deny(r) \/ Return(r)
  BY <1>7, <1>3 DEF TryGroups, FetchRoles, Deny, Return, ghostVars, Inv, TypeOK
<1>. QED BY <1>1, <1>2, <1>4, <1>5, <1>6, <1>7 DEF ReaderStep

-----------------------------------------------------------------------------
(* Writers keep the invariant *)

(* A write that takes care of the keys in K, which are all it can change. *)
LEMMA WriteThenDropKeepsInv ==
  ASSUME Inv, NEW w \in Writer, NEW E, NEW G, NEW K \in SUBSET Key,
         \A k \in Key \ K : Enforces(E, G, k) <=> Verdict(k),
         WriteThenDrop(w, E, G, K)
  PROVE  Rest'
<1>1. ~Locked /\ wpc[w] = "idle" /\ todo[w] = {}
  BY DEF WriteThenDrop, Inv, IdleWriters
<1>2. cache' = cache /\ unannounced' = unannounced /\ pc' = pc
  BY DEF WriteThenDrop, readerVars
<1>3. /\ todo'[w] = K /\ wpc'[w] = "clearing"
      /\ \A v \in Writer : v # w => todo'[v] = todo[v] /\ wpc'[v] = wpc[v]
  BY DEF WriteThenDrop, Inv, TypeOK
<1>4. FreshFill'
  BY DEF WriteThenDrop, Write, FreshFill
<1>5. RemovalClears' /\ IdleWriters'
  BY <1>2, <1>3 DEF Inv, RemovalClears, IdleWriters
<1>6. StaleIsExplained'
  <2> SUFFICES ASSUME NEW k \in Key, cache[k] # None, cache[k].allowed # Verdict(k)'
               PROVE  \/ cache[k].raced \/ k \in unannounced
                      \/ \E v \in Writer : k \in todo'[v]
    BY <1>2 DEF StaleIsExplained
  <2>1. CASE k \in K
    BY <2>1, <1>3
  <2>2. CASE k \notin K
    <3>1. Verdict(k)' <=> Verdict(k)
      BY <2>2 DEF WriteThenDrop, Write, Verdict
    <3>2. Verdict(k)' \in BOOLEAN /\ Verdict(k) \in BOOLEAN
      BY DEF Verdict, Enforces
    <3>3. cache[k].allowed # Verdict(k)
      BY <3>1, <3>2
    <3>. QED BY <3>3, <1>1, <1>3 DEF Inv, StaleIsExplained
  <2>. QED BY <2>1, <2>2
<1>. QED BY <1>4, <1>5, <1>6 DEF Rest

LEMMA WriteThenFailKeepsInv ==
  ASSUME Inv, NEW w \in Writer, NEW E, NEW G, NEW K \in SUBSET Key,
         \A k \in Key \ K : Enforces(E, G, k) <=> Verdict(k),
         WriteThenFail(w, E, G, K)
  PROVE  Rest'
<1>1. UNCHANGED <<cache, wpc, todo>> /\ unannounced' = unannounced \cup K
  BY DEF WriteThenFail
<1>2. FreshFill'
  BY DEF WriteThenFail, Write, FreshFill
<1>3. RemovalClears' /\ IdleWriters'
  BY <1>1 DEF Inv, RemovalClears, IdleWriters
<1>4. StaleIsExplained'
  <2> SUFFICES ASSUME NEW k \in Key, cache[k] # None, cache[k].allowed # Verdict(k)',
                      k \notin K
               PROVE  \/ cache[k].raced \/ k \in unannounced
                      \/ \E v \in Writer : k \in todo[v]
    BY <1>1 DEF StaleIsExplained
  <2>1. Verdict(k)' <=> Verdict(k)
    BY DEF WriteThenFail, Write, Verdict
  <2>2. Verdict(k)' \in BOOLEAN /\ Verdict(k) \in BOOLEAN
    BY DEF Verdict, Enforces
  <2>3. cache[k].allowed # Verdict(k)
    BY <2>1, <2>2
  <2>. QED BY <2>3 DEF Inv, StaleIsExplained
<1>. QED BY <1>2, <1>3, <1>4 DEF Rest

(* Replacing a subject's roles changes only the keys AssignUserRoles drops. *)
LEMMA ReplacedMovesOwnKeys ==
  ASSUME NEW s \in User \cup Group, NEW R \in SUBSET Role
  PROVE  \A k \in Key \ KeysOf(s) : Enforces(Replaced(s, R), grants, k) <=> Verdict(k)
<1>1. \A t \in Subject, r \in Role :
        t # s => (<<t, r>> \in Replaced(s, R) <=> <<t, r>> \in edges)
  BY DEF Replaced
<1>. QED BY <1>1, OtherKeysUnmoved DEF Verdict

LEMMA WriterKeepsInv ==
  ASSUME Inv, NEW w \in Writer, WriterStep(w)
  PROVE  Rest'
<1>1. TypeOK /\ \A s \in User \cup Group : KeysOf(s) \in SUBSET Key
  BY DEF Inv, KeysOf, Key, Subject
<1>2. ASSUME NEW E \in Edges, NEW G \in Grants,
             WriteThenDrop(w, E, G, Key) \/ WriteThenFail(w, E, G, Key)
      PROVE  Rest'
  BY <1>2, WriteThenDropKeepsInv, WriteThenFailKeepsInv
<1>3. ASSUME NEW s \in User \cup Group, NEW R \in SUBSET Role,
             \/ WriteThenDrop(w, Replaced(s, R), grants, KeysOf(s))
             \/ WriteThenFail(w, Replaced(s, R), grants, KeysOf(s))
      PROVE  Rest'
  BY <1>1, <1>3, ReplacedMovesOwnKeys, WriteThenDropKeepsInv, WriteThenFailKeepsInv
<1>4. CASE InvalidateCache(w)
  <2>1. /\ UNCHANGED <<edges, grants, cache, unannounced, pc, cur, verdict, fresh>>
        /\ todo'[w] = Key /\ wpc'[w] = "clearing"
        /\ \A v \in Writer : v # w => todo'[v] = todo[v] /\ wpc'[v] = wpc[v]
    BY <1>4 DEF InvalidateCache, policyVars, readerVars, ghostVars, Inv, TypeOK
  <2>2. (\A j : Verdict(j)' = Verdict(j)) /\ (Locked' => Locked)
    BY <2>1 DEF Verdict, Enforces, Locked
  <2>3. FreshFill'
    BY <2>1, <2>2 DEF Inv, FreshFill
  <2>4. RemovalClears' /\ IdleWriters'
    BY <2>1 DEF Inv, RemovalClears, IdleWriters
  <2>5. StaleIsExplained'
    BY <2>1, <2>2 DEF Inv, StaleIsExplained
  <2>. QED BY <2>3, <2>4, <2>5 DEF Rest
<1>5. CASE BeginRemoveProject(w)
  <2>1. /\ UNCHANGED <<edges, grants, cache, unannounced>>
        /\ todo'[w] = Key /\ wpc'[w] = "removing"
        /\ \A v \in Writer : v # w => todo'[v] = todo[v] /\ wpc'[v] = wpc[v]
    BY <1>5 DEF BeginRemoveProject, Write, Inv, TypeOK
  <2>2. \A j : Verdict(j)' = Verdict(j)
    BY <2>1 DEF Verdict, Enforces
  <2>3. FreshFill'
    BY <1>5 DEF BeginRemoveProject, Write, FreshFill
  <2>4. RemovalClears' /\ IdleWriters'
    BY <2>1 DEF Inv, RemovalClears, IdleWriters
  <2>5. StaleIsExplained'
    BY <2>1, <2>2 DEF Inv, StaleIsExplained
  <2>. QED BY <2>3, <2>4, <2>5 DEF Rest
<1>6. CASE FinishRemoveProject(w)
  <2>1. /\ UNCHANGED <<cache, todo, unannounced, pc, cur, verdict, fresh>>
        /\ wpc'[w] = "idle" /\ todo[w] = {} /\ wpc[w] = "removing"
        /\ \A v \in Writer : v # w => wpc'[v] = wpc[v]
    BY <1>6 DEF FinishRemoveProject, readerVars, ghostVars, Inv, TypeOK
  <2>2. Locked /\ \A k \in Key : cache[k] # None => cache[k].raced
    BY <2>1 DEF Locked, Inv, RemovalClears
  <2>3. FreshFill'
    BY <2>1, <2>2 DEF Inv, FreshFill
  <2>4. RemovalClears' /\ IdleWriters' /\ StaleIsExplained'
    BY <2>1, <2>2 DEF Inv, RemovalClears, IdleWriters, StaleIsExplained
  <2>. QED BY <2>3, <2>4 DEF Rest
<1>7. ASSUME NEW k \in todo[w], DropKey(w, k) PROVE Rest'
  <2>1. /\ UNCHANGED <<edges, grants, wpc, pc, cur, verdict, fresh>>
        /\ cache'[k] = None /\ (\A j \in Key : j # k => cache'[j] = cache[j])
        /\ unannounced' = unannounced \ {k}
        /\ \A v \in Writer : todo'[v] \in {todo[v], todo[v] \ {k}}
    BY <1>7 DEF DropKey, policyVars, readerVars, Inv, TypeOK
  <2>2. (\A j : Verdict(j)' = Verdict(j)) /\ (Locked' <=> Locked)
    BY <2>1 DEF Verdict, Enforces, Locked
  <2>3. FreshFill'
    BY <2>1, <2>2 DEF Inv, FreshFill
  <2>4. RemovalClears' /\ IdleWriters'
    BY <2>1 DEF Inv, RemovalClears, IdleWriters
  <2>5. StaleIsExplained'
    <3> SUFFICES ASSUME NEW j \in Key, j # k, cache[j] # None,
                        cache[j].allowed # Verdict(j)
                 PROVE  \/ cache[j].raced \/ j \in unannounced'
                        \/ \E v \in Writer : j \in todo'[v]
      BY <2>1, <2>2 DEF StaleIsExplained
    <3>. QED BY <2>1 DEF Inv, StaleIsExplained
  <2>. QED BY <2>3, <2>4, <2>5 DEF Rest
<1>8. CASE FinishClear(w)
  <2>1. /\ UNCHANGED <<edges, grants, cache, todo, unannounced, pc, cur, verdict, fresh>>
        /\ wpc'[w] = "idle" /\ todo[w] = {} /\ wpc[w] = "clearing"
        /\ \A v \in Writer : v # w => wpc'[v] = wpc[v]
    BY <1>8 DEF FinishClear, policyVars, readerVars, ghostVars, Inv, TypeOK
  <2>2. (\A j : Verdict(j)' = Verdict(j)) /\ (Locked' => Locked)
    BY <2>1 DEF Verdict, Enforces, Locked
  <2>3. FreshFill'
    BY <2>1, <2>2 DEF Inv, FreshFill
  <2>4. RemovalClears' /\ IdleWriters' /\ StaleIsExplained'
    BY <2>1, <2>2 DEF Inv, RemovalClears, IdleWriters, StaleIsExplained
  <2>. QED BY <2>3, <2>4 DEF Rest
<1>. QED
  BY <1>1, <1>2, <1>3, <1>4, <1>5, <1>6, <1>7, <1>8, WriterShapes

-----------------------------------------------------------------------------
(* Time keeps the invariant: it only shortens and removes entries. *)
LEMMA TimeKeepsInv ==
  ASSUME Inv, Tick \/ (\E k \in Key : Cleanup(k)) \/ UNCHANGED vars
  PROVE  Rest'
<1> DEFINE OnlyFewer ==
      /\ UNCHANGED <<edges, grants, wpc, todo, unannounced, pc, cur, verdict, fresh>>
      /\ \A k \in Key : cache'[k] # None =>
           /\ cache[k] # None
           /\ cache'[k].raced = cache[k].raced /\ cache'[k].allowed = cache[k].allowed
<1>1. OnlyFewer
  <2>1. CASE Tick
    <3>1. ASSUME NEW k \in Key, Live(k)
          PROVE  LET e == [cache[k] EXCEPT !.left = @ - 1]
                 IN  e.raced = cache[k].raced /\ e.allowed = cache[k].allowed
      BY <3>1 DEF Inv, TypeOK, Live, Entry
    <3>. QED BY <2>1, <3>1
         DEF Tick, Live, policyVars, readerVars, writerVars, ghostVars
  <2>2. ASSUME NEW k \in Key, Cleanup(k) PROVE OnlyFewer
    BY <2>2 DEF Cleanup, policyVars, readerVars, writerVars, ghostVars, Inv, TypeOK
  <2>3. CASE UNCHANGED vars
    BY <2>3 DEF vars, policyVars, readerVars, writerVars, ghostVars
  <2>. QED BY <2>1, <2>2, <2>3
<1>2. (\A j : Verdict(j)' = Verdict(j)) /\ Locked' = Locked
  BY <1>1 DEF Verdict, Enforces, Locked
<1>3. FreshFill'
  BY <1>1, <1>2 DEF Inv, FreshFill
<1>4. RemovalClears' /\ IdleWriters'
  BY <1>1 DEF Inv, RemovalClears, IdleWriters
<1>5. StaleIsExplained'
  BY <1>1, <1>2 DEF Inv, StaleIsExplained
<1>. QED BY <1>3, <1>4, <1>5 DEF Rest

LEMMA InvInitially == Init => Inv
  BY TypesInitially
     DEF Init, Inv, FreshFill, RemovalClears, IdleWriters, StaleIsExplained

LEMMA InvStep == Inv /\ [Next]_vars => Inv'
<1> SUFFICES ASSUME Inv, [Next]_vars PROVE Inv'
  OBVIOUS
<1>1. TypeOK' /\ Asked' BY TypesStep DEF Inv
<1>2. Rest' BY ReaderKeepsInv, WriterKeepsInv, TimeKeepsInv DEF Next
<1>. QED BY <1>1, <1>2 DEF Inv, Rest

(* In every behaviour, for any number of readers, writers, roles and keys, *)
(* a cached decision that disagrees with the policy is still to be dropped *)
(* by the operation that changed the policy, or was left by one that       *)
(* failed, or was stored by CanAccess across a policy write.               *)
THEOREM StaleExplained == Spec => []StaleIsExplained
<1>1. Init => Inv BY InvInitially
<1>2. Inv /\ [Next]_vars => Inv' BY InvStep
<1>3. Inv => StaleIsExplained BY DEF Inv
<1>. QED BY <1>1, <1>2, <1>3, PTL DEF Spec

-----------------------------------------------------------------------------
(* Calm requests.  The stages of CanAccessWithGroups ask for these keys,   *)
(* one stage after the other.                                              *)

StageKeys(st, q) ==
  CASE st = "direct" -> {q.user} \X q.objects
    [] st = "groups" -> q.groups \X q.objects
    [] st = "roles"  -> ServerRoles(edges, q.user) \X q.objects

Earlier(st) ==
  CASE st = "direct" -> {}
    [] st = "groups" -> {"direct"}
    [] st = "roles"  -> {"direct", "groups"}

Stage == {"direct", "groups", "roles"}

\* What a request under way has looked up so far was denied.
Progress(r) ==
  /\ work[r] \subseteq StageKeys(stage[r], request[r])
  /\ \A k \in StageKeys(stage[r], request[r]) \ work[r] : ~Verdict(k)
  /\ \A st \in Earlier(stage[r]) : \A k \in StageKeys(st, request[r]) : ~Verdict(k)
  /\ pc[r] \in {"miss", "fill"} => cur[r] \in work[r]

\* As long as a request is calm, nothing can bring a wrong decision into the
\* cache: no removal holds the lock, and every decision on its way is current.
Quiet ==
  /\ ~Locked /\ Coherent
  /\ \A s \in Reader : pc[s] = "fill" => fresh[s]

CalmRight(r) ==
  /\ pc[r] \in {"lookup", "miss", "fill"} => Progress(r)
  /\ pc[r] = "done" => (result[r] <=> Decision(edges, grants, request[r]))

CalmInv == \A r \in Reader : calm[r] => Quiet /\ CalmRight(r)

(* What CanAccessWithGroups promises is that some key of its three stages  *)
(* is allowed.                                                             *)
LEMMA DecisionByStages ==
  ASSUME NEW q \in Request
  PROVE  Decision(edges, grants, q)
           <=> \E st \in Stage : \E k \in StageKeys(st, q) : Verdict(k)
<1> DEFINE R == ServerRoles(edges, q.user)
<1>1. \A r \in Role :
        r \in R <=> \/ <<q.user, r>> \in edges
                    \/ /\ <<AltForm[q.user], r>> \in edges
                       /\ \A x \in Role : <<q.user, x>> \notin edges
  BY DEF ServerRoles, RolesOf
<1>2. R \subseteq Role
  BY DEF ServerRoles, RolesOf
<1>3. /\ StageKeys("direct", q) = {q.user} \X q.objects
      /\ StageKeys("groups", q) = q.groups \X q.objects
      /\ StageKeys("roles", q) = R \X q.objects
  BY DEF StageKeys
<1>4. (\E st \in Stage : \E k \in StageKeys(st, q) : Verdict(k))
        <=> \E o \in q.objects : \E s \in {q.user} \cup q.groups \cup R : Verdict(<<s, o>>)
  <2> HIDE DEF R
  <2>1. ASSUME NEW S, NEW O
        PROVE  (\E k \in S \X O : Verdict(k)) <=> \E s \in S, o \in O : Verdict(<<s, o>>)
    <3>1. ASSUME NEW k \in S \X O, Verdict(k)
          PROVE  \E s \in S, o \in O : Verdict(<<s, o>>)
      <4>1. PICK s \in S, o \in O : k = <<s, o>>
        OBVIOUS
      <4>. QED BY <3>1, <4>1
    <3>2. ASSUME NEW s \in S, NEW o \in O, Verdict(<<s, o>>)
          PROVE  \E k \in S \X O : Verdict(k)
      BY <3>2
    <3>. QED BY <3>1, <3>2
  <2>2. (\E st \in Stage : \E k \in StageKeys(st, q) : Verdict(k))
          <=> \/ \E k \in {q.user} \X q.objects : Verdict(k)
              \/ \E k \in q.groups \X q.objects : Verdict(k)
              \/ \E k \in R \X q.objects : Verdict(k)
    BY <1>3 DEF Stage
  <2>. QED BY <2>1, <2>2
<1>. QED BY <1>1, <1>2, <1>4 DEF Decision, Verdict

(* The stages depend on the request and the policy only. *)
LEMMA CalmFrame ==
  ASSUME CalmInv, UNCHANGED policyVars, NEW r \in Reader, calm[r],
         request'[r] = request[r], pc'[r] = pc[r], stage'[r] = stage[r],
         work'[r] = work[r], cur'[r] = cur[r], result'[r] = result[r]
  PROVE  CalmRight(r)'
<1>1. edges' = edges /\ grants' = grants
  BY DEF policyVars
<1>2. \A j : Verdict(j)' = Verdict(j)
  BY <1>1 DEF Verdict, Enforces
<1>3. \A st, q : StageKeys(st, q)' = StageKeys(st, q)
  BY <1>1 DEF StageKeys
<1>4. CalmRight(r)
  BY DEF CalmInv
<1>. QED BY <1>1, <1>2, <1>3, <1>4 DEF CalmRight, Progress

(* Whoever looks up a key of its stage: an allow is what the policy says   *)
(* of the request, and a denial takes the key off the stage.               *)
LEMMA AnswerKeeps ==
  ASSUME Inv, UNCHANGED policyVars, NEW r \in Reader, NEW k \in work[r],
         request[r] \in Request, Progress(r),
         Answer(r, k, Verdict(k)), UNCHANGED <<request, stage>>
  PROVE  CalmRight(r)'
<1>1. edges' = edges /\ grants' = grants
  BY DEF policyVars
<1>2. \A j : Verdict(j)' = Verdict(j)
  BY <1>1 DEF Verdict, Enforces
<1>3. \A st, q : StageKeys(st, q)' = StageKeys(st, q)
  BY <1>1 DEF StageKeys
<1>4. stage[r] \in Stage /\ k \in StageKeys(stage[r], request[r])
  BY DEF Inv, TypeOK, Stage, Progress
<1>5. Verdict(k) \in BOOLEAN
  BY DEF Verdict, Enforces
<1>6. CASE Verdict(k)
  <2>1. Decision(edges, grants, request[r])
    BY <1>4, <1>6, DecisionByStages
  <2>2. pc'[r] = "done" /\ result'[r] = TRUE
    BY <1>5, <1>6 DEF Answer, Inv, TypeOK
  <2>. QED BY <1>1, <2>1, <2>2 DEF CalmRight
<1>7. CASE ~Verdict(k)
  <2>1. pc'[r] = "lookup" /\ work'[r] = work[r] \ {k}
    BY <1>7 DEF Answer, Inv, TypeOK
  <2>. QED BY <1>2, <1>3, <1>7, <2>1 DEF CalmRight, Progress
<1>. QED BY <1>6, <1>7

(* A reader's step keeps the cache in agreement with the policy: what it   *)
(* stores is current, as long as everything on its way is.                 *)
LEMMA QuietReader ==
  ASSUME Inv, Quiet, NEW x \in Reader, ReaderStep(x)
  PROVE  Quiet'
<1>1. UNCHANGED <<edges, grants, wpc>>
  BY DEF ReaderStep, Begin, GetHit, GetMiss, Enforce, EnforceFails, Fill, TryGroups,
     FetchRoles, Deny, Return, policyVars, writerVars
<1>2. (\A j : Verdict(j)' = Verdict(j)) /\ ~Locked'
  BY <1>1 DEF Verdict, Enforces, Locked, Quiet
<1>3. \A s \in Reader \ {x} : pc'[s] = pc[s] /\ fresh'[s] = fresh[s]
  BY DEF ReaderStep, Begin, GetHit, GetMiss, Enforce, EnforceFails, Fill, TryGroups,
     FetchRoles, Deny, Return, Answer, ghostVars, Inv, TypeOK
<1>4. pc'[x] = "fill" => fresh'[x]
  BY DEF ReaderStep, Begin, GetHit, GetMiss, Enforce, EnforceFails, Fill, TryGroups,
     FetchRoles, Deny, Return, Answer, ghostVars, Inv, TypeOK
<1>5. CASE Fill(x)
  <2>1. cur[x] \in Key /\ pc[x] = "fill" /\ cache \in [Key -> Entry \cup {None}]
    BY <1>5 DEF Fill, Inv, Asked, TypeOK
  <2>2. verdict[x] = Verdict(cur[x])
    BY <2>1 DEF Quiet, Inv, FreshFill
  <2>3. /\ cache'[cur[x]].allowed = verdict[x]
        /\ \A k \in Key : k # cur[x] => cache'[k] = cache[k]
    BY <1>5, <2>1 DEF Fill
  <2>4. Coherent'
    BY <1>2, <2>2, <2>3 DEF Quiet, Coherent, Live
  <2>. QED BY <1>2, <1>3, <1>4, <2>4 DEF Quiet
<1>6. ASSUME \A k \in Key : cache'[k] = cache[k] \/ cache'[k] = None
      PROVE  Quiet'
  <2>1. Coherent'
    BY <1>2, <1>6 DEF Quiet, Coherent, Live
  <2>. QED BY <1>2, <1>3, <1>4, <2>1 DEF Quiet
<1>7. Fill(x) \/ \A k \in Key : cache'[k] = cache[k] \/ cache'[k] = None
  BY DEF ReaderStep, Begin, GetHit, GetMiss, Enforce, EnforceFails, TryGroups,
     FetchRoles, Deny, Return, Inv, TypeOK
<1>. QED BY <1>5, <1>6, <1>7

(* A writer's step disturbs the request, or it only drops decisions.       *)
LEMMA QuietWriter ==
  ASSUME Inv, Quiet, NEW w \in Writer, WriterStep(w), NEW r \in Reader, calm'[r]
  PROVE  Quiet' /\ UNCHANGED <<policyVars, readerVars, calm>>
<1>1. ASSUME NEW E, NEW G, Write(E, G) PROVE FALSE
  BY <1>1 DEF Write
<1>2. ~FinishRemoveProject(w)
  BY DEF FinishRemoveProject, Quiet, Locked
<1>3. InvalidateCache(w) \/ (\E k \in todo[w] : DropKey(w, k)) \/ FinishClear(w)
  BY <1>1, <1>2, WriterShapes DEF WriteThenDrop, WriteThenFail, BeginRemoveProject, Inv
<1>4. UNCHANGED <<policyVars, readerVars, fresh, calm>>
  BY <1>3 DEF InvalidateCache, DropKey, FinishClear, ghostVars
<1>5. \A k \in Key : cache'[k] = cache[k] \/ cache'[k] = None
  BY <1>3 DEF InvalidateCache, DropKey, FinishClear, Inv, TypeOK
<1>6. \A v \in Writer : wpc'[v] = "removing" => wpc[v] = "removing"
  BY <1>3 DEF InvalidateCache, DropKey, FinishClear, Inv, TypeOK
<1>7. \A j : Verdict(j)' = Verdict(j)
  BY <1>4 DEF Verdict, Enforces, policyVars
<1>8. Coherent'
  BY <1>5, <1>7 DEF Quiet, Coherent, Live
<1>. QED BY <1>4, <1>6, <1>8 DEF Quiet, Locked, readerVars

LEMMA QuietTime ==
  ASSUME Inv, Quiet, Tick \/ (\E k \in Key : Cleanup(k)) \/ UNCHANGED vars
  PROVE  Quiet' /\ UNCHANGED <<policyVars, readerVars, calm>>
<1>1. UNCHANGED <<policyVars, readerVars, wpc, fresh, calm>>
  BY DEF Tick, Cleanup, vars, writerVars, ghostVars
<1>2. \A j : Verdict(j)' = Verdict(j)
  BY <1>1 DEF Verdict, Enforces, policyVars
<1>3. \A k \in Key : Live(k)' => Live(k) /\ cache'[k].allowed = cache[k].allowed
  <2>1. CASE Tick
    <3>1. ASSUME NEW k \in Key, Live(k)
          PROVE  [cache[k] EXCEPT !.left = @ - 1].allowed = cache[k].allowed
      BY <3>1 DEF Inv, TypeOK, Live, Entry
    <3>. QED BY <2>1, <3>1 DEF Tick, Live
  <2>2. ASSUME NEW k \in Key, Cleanup(k)
        PROVE  \A j \in Key : Live(j)' => Live(j) /\ cache'[j].allowed = cache[j].allowed
    BY <2>2 DEF Cleanup, Live, Inv, TypeOK
  <2>3. CASE UNCHANGED vars
    BY <2>3 DEF vars, Live
  <2>. QED BY <2>1, <2>2, <2>3
<1>4. Coherent'
  BY <1>2, <1>3 DEF Quiet, Coherent
<1>. QED BY <1>1, <1>4 DEF Quiet, Locked, readerVars

(* The reader's own step, on a calm request. *)
LEMMA OwnStep ==
  ASSUME Inv, CalmInv, NEW r \in Reader, calm[r], ReaderStep(r), calm'[r],
         pc[r] # "idle"
  PROVE  CalmRight(r)'
<1> DEFINE q == request[r]
<1>0. /\ Quiet /\ CalmRight(r) /\ q \in Request /\ stage[r] \in Stage
      /\ calm \in [Reader -> BOOLEAN]
  BY DEF CalmInv, Inv, Asked, TypeOK, Stage
<1>1. ASSUME NEW k \in work[r], GetHit(r, k) PROVE CalmRight(r)'
  <2>1. k \in Key /\ cache[k].allowed = Verdict(k)
    BY <1>0, <1>1 DEF GetHit, Quiet, Coherent, Inv, TypeOK
  <2>. QED BY <1>0, <1>1, <2>1, AnswerKeeps DEF GetHit, CalmRight
<1>2. CASE Fill(r)
  <2>1. cur[r] \in work[r] /\ Progress(r) /\ verdict[r] = Verdict(cur[r])
    BY <1>0, <1>2 DEF Fill, CalmRight, Progress, Quiet, Inv, FreshFill
  <2>. QED BY <1>0, <1>2, <2>1, AnswerKeeps DEF Fill
<1>3. CASE EnforceFails(r) \/ Return(r)
  BY <1>0, <1>3 DEF EnforceFails, Return
<1>4. CASE Deny(r)
  <2>1. ~Decision(edges, grants, q)
    BY <1>0, <1>4, DecisionByStages
       DEF Deny, CalmRight, Progress, Stage, Earlier
  <2>2. /\ UNCHANGED <<edges, grants, request>> /\ pc'[r] = "done" /\ result'[r] = FALSE
    BY <1>4 DEF Deny, policyVars, Inv, TypeOK
  <2>. QED BY <2>1, <2>2 DEF CalmRight
<1>5. ASSUME \/ (\E k \in work[r] : GetMiss(r, k)) \/ Enforce(r)
             \/ TryGroups(r) \/ FetchRoles(r)
      PROVE  CalmRight(r)'
  <2>1. /\ UNCHANGED <<edges, grants, request>>
        /\ pc'[r] \in {"lookup", "miss", "fill"} /\ pc[r] \in {"lookup", "miss"}
    BY <1>5 DEF GetMiss, Enforce, TryGroups, FetchRoles, policyVars, Inv, TypeOK
  <2>2. (\A j : Verdict(j)' = Verdict(j)) /\ \A st, p : StageKeys(st, p)' = StageKeys(st, p)
    BY <2>1 DEF Verdict, Enforces, StageKeys
  <2>3. Progress(r)
    BY <1>0, <2>1 DEF CalmRight
  <2>4. CASE (\E k \in work[r] : GetMiss(r, k)) \/ Enforce(r)
    BY <2>1, <2>2, <2>3, <2>4 DEF GetMiss, Enforce, CalmRight, Progress, Inv, TypeOK
  <2>5. CASE TryGroups(r)
    <3>1. /\ stage[r] = "direct" /\ stage'[r] = "groups" /\ work[r] = {}
          /\ work'[r] = StageKeys("groups", q) /\ pc'[r] = "lookup"
      BY <2>5 DEF TryGroups, StageKeys, Inv, TypeOK
    <3>. QED BY <2>1, <2>2, <2>3, <3>1 DEF CalmRight, Progress, Earlier
  <2>6. CASE FetchRoles(r)
    <3>1. /\ stage[r] = "groups" /\ stage'[r] = "roles" /\ work[r] = {}
          /\ work'[r] = StageKeys("roles", q) /\ pc'[r] = "lookup"
      BY <2>6 DEF FetchRoles, StageKeys, Inv, TypeOK
    <3>. QED BY <2>1, <2>2, <2>3, <3>1 DEF CalmRight, Progress, Earlier
  <2>. QED BY <1>5, <2>4, <2>5, <2>6
<1>. QED BY <1>1, <1>2, <1>3, <1>4, <1>5 DEF ReaderStep, Begin

LEMMA BeginStep ==
  ASSUME Inv, NEW r \in Reader, NEW q \in Request, Begin(r, q), calm'[r]
  PROVE  Quiet /\ CalmRight(r)'
<1>1. Settled
  BY DEF Begin, Inv, TypeOK
<1>2. Quiet
  BY <1>1 DEF Settled, Quiet, Locked
<1>3. /\ pc'[r] = "lookup" /\ stage'[r] = "direct" /\ request'[r] = q
      /\ work'[r] = {q.user} \X q.objects
  BY DEF Begin, Inv, TypeOK
<1>4. StageKeys("direct", q)' = {q.user} \X q.objects
  BY DEF StageKeys
<1>5. CalmRight(r)'
  BY <1>3, <1>4 DEF CalmRight, Progress, Earlier
<1>. QED BY <1>2, <1>5

LEMMA CalmStep == Inv /\ CalmInv /\ [Next]_vars => CalmInv'
<1> SUFFICES ASSUME Inv, CalmInv, [Next]_vars, NEW r \in Reader, calm'[r]
             PROVE  Quiet' /\ CalmRight(r)'
  BY DEF CalmInv
<1>1. ASSUME NEW x \in Reader, ReaderStep(x)
      PROVE  Quiet' /\ CalmRight(r)'
  <2>1. CASE x = r /\ pc[r] = "idle"
    <3>1. PICK q \in Request : Begin(r, q)
      BY <1>1, <2>1 DEF ReaderStep, GetHit, GetMiss, Enforce, EnforceFails, Fill,
         TryGroups, FetchRoles, Deny, Return
    <3>. QED BY <1>1, <3>1, BeginStep, QuietReader
  <2>2. CASE ~(x = r /\ pc[r] = "idle")
    <3>1. calm[r]
      BY <1>1, <2>2 DEF ReaderStep, Begin, GetHit, GetMiss, Enforce, EnforceFails, Fill,
         TryGroups, FetchRoles, Deny, Return, ghostVars, Inv, TypeOK
    <3>2. Quiet'
      BY <1>1, <3>1, QuietReader DEF CalmInv
    <3>3. CASE x # r
      <4>1. /\ UNCHANGED policyVars
            /\ request'[r] = request[r] /\ pc'[r] = pc[r] /\ stage'[r] = stage[r]
            /\ work'[r] = work[r] /\ cur'[r] = cur[r] /\ result'[r] = result[r]
        BY <1>1, <3>3 DEF ReaderStep, Begin, GetHit, GetMiss, Enforce, EnforceFails,
           Fill, TryGroups, FetchRoles, Deny, Return, Answer, Inv, TypeOK
      <4>. QED BY <3>1, <3>2, <4>1, CalmFrame
    <3>4. CASE x = r
      BY <1>1, <2>2, <3>1, <3>2, <3>4, OwnStep
    <3>. QED BY <3>3, <3>4
  <2>. QED BY <2>1, <2>2
<1>2. ASSUME \/ \E w \in Writer : WriterStep(w)
             \/ Tick \/ (\E k \in Key : Cleanup(k)) \/ UNCHANGED vars
      PROVE  Quiet' /\ CalmRight(r)'
  <2>1. Quiet /\ calm[r]
    <3>1. CASE calm[r]
      BY <3>1 DEF CalmInv
    <3>2. calm[r]
      BY <1>2, WriterShapes DEF WriteThenDrop, WriteThenFail, BeginRemoveProject, Write,
         InvalidateCache, FinishRemoveProject, DropKey, FinishClear, Tick, Cleanup,
         vars, ghostVars, Inv
    <3>. QED BY <3>1, <3>2
  <2>2. Quiet' /\ UNCHANGED <<policyVars, readerVars, calm>>
    BY <1>2, <2>1, QuietWriter, QuietTime
  <2>. QED BY <2>1, <2>2, CalmFrame DEF readerVars
<1>. QED BY <1>1, <1>2 DEF Next

(* For any number of readers, writers, groups, roles and keys: a request   *)
(* that began when the cache agreed with the policy, with no change under  *)
(* way, and that no policy write and no error of Casbin disturbed, returns *)
(* what the policy says of the user, its groups and its roles.  The cached *)
(* denials that CanAccessWithGroups meets on the way hide no grant.        *)
THEOREM CalmAnswered == Spec => []CalmAnswer
<1>1. Init => Inv /\ CalmInv
  BY InvInitially DEF Init, CalmInv
<1>2. (Inv /\ CalmInv) /\ [Next]_vars => (Inv /\ CalmInv)'
  BY InvStep, CalmStep
<1>3. Inv /\ CalmInv => CalmAnswer
  BY DEF CalmInv, CalmRight, CalmAnswer
<1>. QED BY <1>1, <1>2, <1>3, PTL DEF Spec
=============================================================================
