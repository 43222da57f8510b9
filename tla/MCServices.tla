---------------------------- MODULE MCServices ------------------------------
(***************************************************************************)
(* The catalog of RGDs, its forms, the instances and their delivery, and   *)
(* the updates sent to browsers, checked side by side: the components      *)
(* share no state, the initial state chooses one and only that one takes   *)
(* steps.                                                                  *)
(***************************************************************************)
EXTENDS MCFormSchemas

CONSTANTS pa, Graph, Kind, Counter, Resyncs, Declared, Instance, MaxRv, MaxChanges, MaxGuesses,
          MaxRevision, MaxBirths, Request, Replica, Tenant,
          Browser, Member, Admin, MaxConnections, SendBuffer, BroadcastBuffer, MaxPublished,
          MaxHeard, Repo, MaxConfigs, MaxFailures, Wrapper, MaxSwitches, MaxAsks, MaxMisses,
          Version, AllowedModes, MaxFaults, MaxSyncs, MaxLives, MaxSlips,
          SchemaTTL, DegradedTTL, Latency, MaxCrd, MaxBroken,
          User, Project, MaxRgds, PageSize, ListTTL, MaxMoves,
          RedisTTL, FallbackTTL, Lag, MaxPolicies, MaxOutages

\* RGDs that are public and in a project, spelled "yes", and out of the catalog.
MCDeclared ==
  {[gate |-> "true", deps |-> Kind, project |-> None], [gate |-> "yes", deps |-> {}, project |-> pa],
   [gate |-> "no", deps |-> {}, project |-> None]}

\* An admin needs no project.
MCMember == [c \in Browser |-> IF c \in Admin THEN {} ELSE {pa}]

VARIABLES part,
          rgds, lastRv, delivered, handler, rgdCache, dependsOnIndex, projectIndex,
          graphs, counter, putBack,
          insts, lastOf, inCatalog, statusOf, informers, told, worker, instCache,
          tracker, request, raced, changes, faults,
          born, revs, heard, lists, diffs, comparing,
          crd, crdAge, schema, asker, broken,
          labels, member, permitted, shelf, unseen, walk, misread, outdated, moves,
          policies, since, applied, clearing, shared, reaches, degraded, emptying,
          fallback, inquiry, outages, wrongLate, wrongCalm,
          live, manifest, desired, ask, slips, overlap, syncs,
          life, birth, health, announced, lastStatus, active, buried, recorded,
          recording, collided, errors,
          configs, ever, owner, order, stage, seen, alone, crossed, trespassed, moved,
          unkept, failures,
          filled, reply, tested, saved, retested,
          registry, unread, entry, resolvable, made, project, client, switched,
          astray, undead, switches, asks, misses,
          hub, clients, broadcast, serving, pump, send, closed, subs, once, conn,
          crashed, published, spoken

Cat == INSTANCE Catalog WITH
  Rgd <- Graph, Manifest <- Declared
Ins == INSTANCE Instances WITH
  Rgd <- Graph, MaxFaults <- MaxGuesses,
  lastRv <- lastOf, delivered <- told, handler <- worker, status <- statusOf
Rev == INSTANCE Revisions
Sch == INSTANCE Schemas WITH
  Asker <- Request
Lists == INSTANCE CatalogLists
Dec == INSTANCE SharedDecisions WITH
  ask <- inquiry
Dep == INSTANCE Deployments
His == INSTANCE Histories WITH
  born <- birth, told <- announced, raced <- collided
\* Two requests on one repository, or on two.
Repos == INSTANCE Repositories WITH
  Project <- Tenant, MaxFaults <- MaxFailures, ask <- order
Tests == INSTANCE RepositoryTests WITH
  form <- filled
Wrap == INSTANCE Wrappers WITH
  Client <- Request
Hub == INSTANCE WsHub WITH
  Client <- Browser, Project <- Tenant, handler <- serving, heard <- spoken

\* None is none of the values that it stands beside.
ASSUME ServicesAssumption ==
  /\ {MaxConnections, MaxConfigs, MaxLives} \subseteq Nat
  /\ None \notin BOOLEAN /\ None \notin {"main", "dev"} /\ None \notin Repo /\ None \notin Wrapper
  /\ None \notin Repos!Configs /\ None \notin [body : Repos!Bodies, granted : Tenant]
  /\ None \notin [owner : Wrapper \cup {None}, dests : BOOLEAN]
  /\ None \notin Dep!Object /\ None \notin Dep!Pushed
  /\ None \notin His!Health /\ None \notin [life : 1 .. MaxLives, health : His!Health]
  /\ \A es \in SUBSET His!Events : es # None
  /\ None \notin [id : His!Key, events : SUBSET His!Events]
  /\ His!Handler \notin Replica
  /\ {SchemaTTL, DegradedTTL, Latency, Lag, MaxPolicies} \subseteq Nat
  /\ {RedisTTL, FallbackTTL} \subseteq Nat \ {0}
  /\ {PageSize, ListTTL} \subseteq Nat \ {0} /\ MaxRgds \in Nat
  /\ \A rs \in SUBSET Lists!Rgd : rs # None
  /\ {MaxRv, MaxRevision} \subseteq Nat /\ MaxBirths \in Nat \ {0}
  /\ None \notin Project
  /\ \A m \in Declared : m.deps \in SUBSET Kind /\ m.project \in Project \cup {None}
  /\ None \notin [rv : Nat, spec : Declared]
  /\ None \notin [rv : Nat, spec : Declared, deps : SUBSET Kind]
  /\ None \notin [rv : Nat, rgd : Graph \cup {None}]
  /\ None \notin [rv : Nat, rgd : Graph, status : Nat]

(* Bounds, and a channel to a client that holds an answer.                   *)
ASSUME BoundsAssumption ==
  /\ {MaxCrd, MaxBroken, MaxOutages, MaxFaults, MaxSyncs, MaxSlips, MaxFailures, MaxSwitches,
      MaxAsks, MaxMisses, MaxPublished, MaxHeard, BroadcastBuffer} \subseteq Nat
  /\ SendBuffer \in Nat \ {0}

catalogVars == <<rgds, lastRv, delivered, handler, rgdCache, dependsOnIndex,
    projectIndex, graphs, counter, putBack>>
instancesVars == <<insts, lastOf, inCatalog, statusOf, informers, told, worker,
    instCache, tracker, request, raced, changes, faults>>
revisionsVars == <<born, revs, heard, lists, diffs, comparing>>
schemasVars == <<crd, crdAge, schema, asker, broken>>
listsVars == <<labels, member, permitted, shelf, unseen, walk, misread, outdated,
    moves>>
decisionsVars == <<policies, since, applied, clearing, shared, reaches, degraded,
    emptying, fallback, inquiry, outages, wrongLate, wrongCalm>>
deployVars == <<live, manifest, desired, ask, slips, overlap, syncs>>
historyVars == <<life, birth, health, announced, lastStatus, active, buried, recorded,
    recording, collided, errors>>
reposVars == <<configs, ever, owner, order, stage, seen, alone, crossed, trespassed,
    moved, unkept, failures>>
testsVars == <<filled, reply, tested, saved, retested>>
wrappersVars == <<registry, unread, entry, resolvable, made, project, client,
    switched, astray, undead, switches, asks, misses>>
hubsVars == <<hub, clients, broadcast, serving, pump, send, closed, subs, once, conn,
    crashed, published, spoken>>
formsVars == vars
allVars == <<part, formsVars, catalogVars, instancesVars, revisionsVars, schemasVars,
    listsVars, decisionsVars, deployVars, historyVars, reposVars, testsVars,
    wrappersVars, hubsVars>>

AllInit ==
  /\ part \in {"forms", "catalog", "instances", "revisions", "schemas", "lists", "decisions", "deploy", "history", "repos", "tests", "wrappers", "hubs"}
  /\ Init
  /\ part # "forms" => rgd = (CHOOSE m \in Manifest : TRUE) /\ crdOf = (CHOOSE d \in Crd : TRUE) /\ ~built
  /\ Cat!Init
  /\ Ins!Init
  /\ Rev!Init
  /\ Sch!Init
  /\ Lists!Init
  /\ part # "lists" => /\ \A i \in Lists!Rgd : labels[i] = None
                      /\ \A u \in User : member[u] = {}
  /\ Dec!Init
  /\ Dep!Init
  /\ His!Init
  /\ Repos!Init
  /\ Tests!Init
  /\ part # "tests" => filled = (CHOOSE f \in Tests!SshForm : TRUE) /\ reply = (CHOOSE r \in Tests!Reply : TRUE)
  /\ Wrap!Init
  /\ part # "wrappers" => registry = None
  /\ Hub!Init

AllNext ==
  \/ part = "forms" /\ Next
     /\ UNCHANGED <<part, catalogVars, instancesVars, revisionsVars, schemasVars, listsVars,
                  decisionsVars, deployVars, historyVars, reposVars, testsVars,
                  wrappersVars, hubsVars>>
  \/ part = "catalog" /\ Cat!Next
     /\ UNCHANGED <<part, formsVars, instancesVars, revisionsVars, schemasVars, listsVars, decisionsVars,
                  deployVars, historyVars, reposVars, testsVars, wrappersVars,
                  hubsVars>>
  \/ part = "instances" /\ Ins!Next
     /\ UNCHANGED <<part, formsVars, catalogVars, revisionsVars, schemasVars, listsVars, decisionsVars,
                  deployVars, historyVars, reposVars, testsVars, wrappersVars,
                  hubsVars>>
  \/ part = "revisions" /\ Rev!Next
     /\ UNCHANGED <<part, formsVars, catalogVars, instancesVars, schemasVars, listsVars, decisionsVars,
                  deployVars, historyVars, reposVars, testsVars, wrappersVars,
                  hubsVars>>
  \/ part = "schemas" /\ Sch!Next
     /\ UNCHANGED <<part, formsVars, catalogVars, instancesVars, revisionsVars, listsVars, decisionsVars,
                  deployVars, historyVars, reposVars, testsVars, wrappersVars,
                  hubsVars>>
  \/ part = "lists" /\ Lists!Next
     /\ UNCHANGED <<part, formsVars, catalogVars, instancesVars, revisionsVars, schemasVars,
                  decisionsVars, deployVars, historyVars, reposVars, testsVars,
                  wrappersVars, hubsVars>>
  \/ part = "decisions" /\ Dec!Next
     /\ UNCHANGED <<part, formsVars, catalogVars, instancesVars, revisionsVars, schemasVars, listsVars,
                  deployVars, historyVars, reposVars, testsVars, wrappersVars,
                  hubsVars>>
  \/ part = "deploy" /\ Dep!Next
     /\ UNCHANGED <<part, formsVars, catalogVars, instancesVars, revisionsVars, schemasVars, listsVars,
                  decisionsVars, historyVars, reposVars, testsVars, wrappersVars,
                  hubsVars>>
  \/ part = "history" /\ His!Next
     /\ UNCHANGED <<part, formsVars, catalogVars, instancesVars, revisionsVars, schemasVars, listsVars,
                  decisionsVars, deployVars, reposVars, testsVars, wrappersVars,
                  hubsVars>>
  \/ part = "repos" /\ Repos!Next
     /\ UNCHANGED <<part, formsVars, catalogVars, instancesVars, revisionsVars, schemasVars, listsVars,
                  decisionsVars, deployVars, historyVars, testsVars, wrappersVars,
                  hubsVars>>
  \/ part = "tests" /\ Tests!Next
     /\ UNCHANGED <<part, formsVars, catalogVars, instancesVars, revisionsVars, schemasVars, listsVars,
                  decisionsVars, deployVars, historyVars, reposVars, wrappersVars,
                  hubsVars>>
  \/ part = "wrappers" /\ Wrap!Next
     /\ UNCHANGED <<part, formsVars, catalogVars, instancesVars, revisionsVars, schemasVars, listsVars,
                  decisionsVars, deployVars, historyVars, reposVars, testsVars,
                  hubsVars>>
  \/ part = "hubs" /\ Hub!Next
     /\ UNCHANGED <<part, formsVars, catalogVars, instancesVars, revisionsVars, schemasVars, listsVars,
                  decisionsVars, deployVars, historyVars, reposVars, testsVars,
                  wrappersVars>>

AllSpec == AllInit /\ [][AllNext]_allVars

(* The types of all components. *)
AllTypesOK ==
  /\ part = "forms" => TypeOK
  /\ part = "catalog" => Cat!TypeOK
  /\ part = "instances" => Ins!TypeOK
  /\ part = "revisions" => Rev!TypeOK
  /\ part = "schemas" => Sch!TypeOK
  /\ part = "lists" => Lists!TypeOK
  /\ part = "decisions" => Dec!TypeOK
  /\ part = "deploy" => Dep!TypeOK
  /\ part = "history" => His!TypeOK
  /\ part = "repos" => Repos!TypeOK
  /\ part = "tests" => Tests!TypeOK
  /\ part = "wrappers" => Wrap!TypeOK
  /\ part = "hubs" => Hub!TypeOK

(* FormSchemas: a form shows what its values call for, and has a picker of  *)
(* each secret that the user provides.                                      *)
FormsShowNeeded ==
  /\ part = "forms" => NeededIsShown /\ IncludedIsShown /\ ProvidedHasPicker

(* FormSchemas: the parser and the graph of kro find the same dependencies  *)
(* and secrets.                                                             *)
ParsersAgree ==
  /\ part = "forms" => EdgesAgree /\ SecretsAgree

(* What informers feed holds what they delivered, or a reason is known: the *)
(* catalog with its indexes, the instances, the revisions and their         *)
(* differences.                                                             *)
CachesAreExplained ==
  /\ part = "catalog" => Cat!CatalogExplained /\ Cat!ListIsScan
  /\ part = "instances" => Ins!CacheExplained
  /\ part = "revisions" => Rev!NewestFirst /\ Rev!DiffsAreOfTheirKey

(* Caches that expire: an outdated schema and a list that is no longer due  *)
(* are served for a bounded time; a walk through the pages of an unchanged  *)
(* catalog meets every RGD.                                                 *)
OutdatedIsShort ==
  /\ part = "schemas" => Sch!OutdatedIsShort
  /\ part = "lists" => Lists!ShownIsRecent /\ Lists!WalksAreComplete

(* SharedDecisions: a wrong decision is served for a bounded time, and to   *)
(* no request that neither a change nor an outage disturbs.                 *)
WrongIsShort ==
  /\ part = "decisions" => Dec!WrongIsShort /\ Dec!CalmIsRight

(* Deployments: a deployment that was refused leaves nothing behind, and no *)
(* instance stays suspended.                                                *)
DeploymentsAreWhole ==
  /\ part = "deploy" => Dep!NewIsAllOrNothing /\ Dep!SuspendedIsReleased

(* Histories: an event that was recorded stays in a history, and the        *)
(* history of a deleted instance is not the one of the next.                *)
HistoriesAreKept ==
  /\ part = "history" => His!EventsAreKept /\ His!GoneIsBuried

(* Repositories: a request changes configurations of permitted projects     *)
(* only, a repository has one, and the answer says what is stored.          *)
(* RepositoryTests: what a test accepts is saved, and passes again only if  *)
(* it had.                                                                  *)
RepositoriesAreOwned ==
  /\ part = "repos" => Repos!AccessHolds /\ Repos!OneConfigPerRepository /\ Repos!AnswersAreKept
  /\ part = "tests" => Tests!TestedIsAccepted /\ Tests!RetestIsStricter

(* Wrappers: requests for a project work on the instance that owns it, and  *)
(* a deleted project does not come back.                                    *)
WrappedAreOne ==
  /\ part = "wrappers" => Wrap!SameInstance /\ Wrap!StaysDeleted

(* WsHub: a client is sent updates of its own projects only, over a channel *)
(* that is open, and is forgotten when its connection is closed.            *)
HubServesOwn ==
  /\ part = "hubs" => Hub!OnlyOwnUpdates /\ Hub!RegisteredAreOpen /\ Hub!NoGhostClient
=============================================================================
