---------------------------- MODULE CatalogLists ----------------------------
(***************************************************************************)
(* Lists of the catalog (services/catalog_service.go, handlers/rgd.go): the      *)
(* projects of the caller select a list, which Redis keeps for all callers with     *)
(* the same projects; the caller's policies then filter it by category, and a page   *)
(* of what is left is the answer.  A caller walks through the pages one by one.      *)
(***************************************************************************)
EXTENDS Naturals, FiniteSets, FiniteSetsExt

CONSTANTS User, Project,
          MaxRgds,            \* bound: RGDs
          PageSize,
          ListTTL,            \* listCacheTTL, in ticks
          Latency,            \* bound: ticks a request takes
          MaxMoves,           \* bound: changes of the catalog and of permissions
          None

Rgd == 1..MaxRgds             \* in the order of the list
Public == "public"            \* the label of an RGD without project
Old == ListTTL + 2 * Latency      \* the request that listed, what is kept, the one that shows

VARIABLES labels,             \* per RGD: None, Public or its project
          member, permitted,  \* per user: the projects, and the RGDs of permitted categories
          shelf,              \* per set of projects: None or the list in Redis and its age
          unseen,             \* per set of projects and RGD: ticks since it was listed, up to Old
          walk,               \* per user: None or the walk through the pages
          misread,            \* a walk through an unchanged list did not show it once
          outdated,           \* something was shown that had long not been listed
          moves

redis == <<shelf>>
vars == <<labels, member, permitted, shelf, unseen, walk, misread, outdated, moves>>

(* matchesFilter of the cache for a caller: public RGDs and those of the projects.       *)
MatchesFilter(l, ps) == l # None /\ (l = Public \/ l \in ps)
Provided(ps) == {r \in Rgd : MatchesFilter(labels[r], ps)}

Init ==
  /\ labels \in [Rgd -> {None, Public} \cup Project]
  /\ member \in [User -> SUBSET Project] /\ permitted = [u \in User |-> Rgd]
  /\ shelf = [ps \in SUBSET Project |-> None]
  /\ unseen = [ps \in SUBSET Project |-> [r \in Rgd |-> IF r \in Provided(ps) THEN 0 ELSE Old]]
  /\ walk = [u \in User |-> None] /\ misread = FALSE /\ outdated = FALSE /\ moves = 0

-----------------------------------------------------------------------------
(* The first page is asked for; the projects of the caller are read.                    *)
Begin(u) ==
  /\ walk[u] = None
  /\ walk' = [walk EXCEPT ![u] = [at |-> "fetch", projects |-> member[u], items |-> {}, age |-> 0,
                                  page |-> 1, first |-> None, shown |-> {}, calm |-> TRUE]]
  /\ UNCHANGED <<labels, member, permitted, shelf, unseen, misread, outdated, moves>>

\* Mutant: the key of the list does not name the projects.
KeyWithoutProjects(ps) == {}

ListCacheKey(ps) == ps

(* getRGDsWithCaching: what Redis has, or the list of the provider.                     *)
GetCached(u) ==
  /\ walk[u] # None /\ walk[u].at = "fetch" /\ shelf[ListCacheKey(walk[u].projects)] # None
  /\ walk' = [walk EXCEPT ![u].at = "filter",
                         ![u].items = shelf[ListCacheKey(walk[u].projects)].items]
  /\ UNCHANGED <<labels, member, permitted, shelf, unseen, misread, outdated, moves>>

ListFromProvider(u) ==
  /\ walk[u] # None /\ walk[u].at = "fetch" /\ shelf[ListCacheKey(walk[u].projects)] = None
  /\ walk' = [walk EXCEPT ![u].at = "store", ![u].items = Provided(walk[u].projects)]
  /\ UNCHANGED <<labels, member, permitted, shelf, unseen, misread, outdated, moves>>

(* The list is kept in Redis, unless Redis fails.                                      *)
KeepList(u) ==
  /\ walk[u] # None /\ walk[u].at = "store"
  /\ walk' = [walk EXCEPT ![u].at = "filter"]
  /\ \/ shelf' = [shelf EXCEPT ![ListCacheKey(walk[u].projects)] =
                    [items |-> walk[u].items, age |-> 0]]
     \/ UNCHANGED shelf
  /\ UNCHANGED <<labels, member, permitted, unseen, misread, outdated, moves>>

\* Mutant: the pages are counted from 0.
SliceFromZero(s, page) == {r \in s : Cardinality({j \in s : j < r}) \div PageSize = page}

(* The page: from (page - 1) * PageSize, up to PageSize of them.                       *)
Slice(s, page) == {r \in s : Cardinality({j \in s : j < r}) \div PageSize = page - 1}

(* canAccessRGD: the category of each RGD, with the policies as they are then.              *)
Accessible(u, s) == s \cap permitted[u]

(* ListRGDs: each item is checked with the policies, then the page is cut out.  The walk ends    *)
(* with an empty page.                                                             *)
Answer(u) ==
  /\ walk[u] # None /\ walk[u].at = "filter"
  /\ LET w == walk[u]
         list == Accessible(u, w.items)
         items == Slice(list, w.page)
         calm == w.calm /\ w.first \in {None, list}
     IN /\ outdated' = (outdated \/ \E r \in items : unseen[w.projects][r] >= Old)
        /\ misread' = (misread \/ (items = {} /\ calm /\ w.shown # list)
                               \/ (calm /\ items \cap w.shown # {}))
        /\ walk' = [walk EXCEPT ![u] =
             IF items = {} THEN None
             ELSE [w EXCEPT !.at = "fetch", !.items = {}, !.age = 0, !.page = @ + 1,
                            !.projects = member[u], !.first = list,
                            !.shown = @ \cup items, !.calm = calm]]
  /\ UNCHANGED <<labels, member, permitted, shelf, unseen, moves>>

(* The request that would have asked for the next page does not come.                  *)
Leave(u) == /\ walk[u] # None /\ walk[u].at = "fetch" /\ walk' = [walk EXCEPT ![u] = None]
            /\ UNCHANGED <<labels, member, permitted, shelf, unseen, misread, outdated, moves>>

-----------------------------------------------------------------------------
(* The watcher changes the catalog; roles and projects change.                       *)
Move ==
  /\ moves < MaxMoves /\ moves' = moves + 1
  /\ \/ /\ \E r \in Rgd, l \in {None, Public} \cup Project : labels' = [labels EXCEPT ![r] = l]
        /\ unseen' = [ps \in SUBSET Project |-> [r \in Rgd |->
                        IF MatchesFilter(labels'[r], ps) THEN 0 ELSE unseen[ps][r]]]
        /\ UNCHANGED <<member, permitted>>
     \/ \E u \in User, ps \in SUBSET Project :
          member' = [member EXCEPT ![u] = ps] /\ UNCHANGED <<labels, permitted, unseen>>
     \/ \E u \in User, rs \in SUBSET Rgd :
          permitted' = [permitted EXCEPT ![u] = rs] /\ UNCHANGED <<labels, member, unseen>>
  /\ UNCHANGED <<shelf, walk, misread, outdated>>

\* Mutant: lists in Redis do not expire.
AgeForever == shelf

(* Redis drops a list at the end of its time.                                       *)
Age == [ps \in SUBSET Project |->
          IF shelf[ps] = None \/ shelf[ps].age + 1 >= ListTTL THEN None
          ELSE [shelf[ps] EXCEPT !.age = @ + 1]]

(* Time passes; no request takes longer than Latency.                                *)
Tick ==
  /\ \A u \in User : walk[u] # None => walk[u].age < Latency
  /\ shelf' = Age
  /\ unseen' = [ps \in SUBSET Project |-> [r \in Rgd |->
                  IF MatchesFilter(labels[r], ps) THEN 0
                  ELSE Min({unseen[ps][r] + 1, Old})]]
  /\ walk' = [u \in User |-> IF walk[u] = None THEN None ELSE [walk[u] EXCEPT !.age = @ + 1]]
  /\ UNCHANGED <<labels, member, permitted, misread, outdated, moves>>

Next ==
  \/ \E u \in User : Begin(u) \/ GetCached(u) \/ ListFromProvider(u) \/ KeepList(u) \/ Answer(u)
                     \/ Leave(u)
  \/ Move \/ Tick

Spec == Init /\ [][Next]_vars

-----------------------------------------------------------------------------
TypeOK ==
  /\ labels \in [Rgd -> {None, Public} \cup Project]
  /\ member \in [User -> SUBSET Project] /\ permitted \in [User -> SUBSET Rgd]
  /\ \A ps \in SUBSET Project :
       shelf[ps] # None => shelf[ps].items \subseteq Rgd /\ shelf[ps].age < ListTTL
  /\ unseen \in [SUBSET Project -> [Rgd -> 0..Old]]
  /\ \A u \in User : walk[u] # None => walk[u].age <= Latency

(* What a caller is shown was listed for the caller's projects, the list that other callers       *)
(* left in Redis included, no longer ago than a list is kept and a request takes (ListRGDs).      *)
ShownIsRecent == ~outdated

(* A walk through the pages of a list that does not change meanwhile shows each RGD once, with      *)
(* the policies that filter the list before the page is cut out (ListRGDs: "accurate             *)
(* TotalCount and page contents").                                                    *)
WalksAreComplete == ~misread
=============================================================================
