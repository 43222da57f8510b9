----------------------------- MODULE Revisions -----------------------------
(***************************************************************************)
(* The revisions of RGDs (kro/watcher/graph_revision_watcher.go) and the      *)
(* differences between them (kro/diff): a watcher keeps a list per RGD, the    *)
(* newest first, and asks for the difference of each new revision to the one   *)
(* before it; a difference is kept under the name of the RGD and the numbers    *)
(* of both revisions, and never dropped but for room.                          *)
(***************************************************************************)
EXTENDS Naturals, Sequences, FiniteSets, SequencesExt

CONSTANTS Graph,              \* the names of RGDs
          MaxRevision,
          MaxBirths           \* bound: how often an RGD of one name is created

VARIABLES born,               \* per name, how often an RGD of it was created
          revs,               \* GraphRevisions of the cluster: [name, number, birth]
          heard,              \* those the informer has delivered
          lists,              \* the cache: per name, the revisions, newest first
          diffs,              \* the cached differences: [name, old, new], and what was compared
          comparing           \* the differences under way, of the watcher and of a request

vars == <<born, revs, heard, lists, diffs, comparing>>

NotComparing == [name |-> "none"]
Caller == {"watcher", "request"}

Init ==
  /\ born = [g \in Graph |-> 1]
  /\ revs = {} /\ heard = {}
  /\ lists = [g \in Graph |-> <<>>]
  /\ diffs = {}
  /\ comparing = [c \in Caller |-> NotComparing]

Named(S, g, n) == {v \in S : v.name = g /\ v.number = n}
Cached(g, a, b) == \E d \in diffs : d.name = g /\ d.old = a /\ d.new = b

-----------------------------------------------------------------------------
(* kro numbers the revisions of an RGD from 1; an RGD that is deleted takes its    *)
(* revisions with it, and one of the same name starts anew.                      *)
IssueRevision(g) ==
  \E n \in 1 .. MaxRevision :
    /\ Named(revs, g, n) = {}
    /\ \A m \in 1 .. n - 1 : Named(revs, g, m) # {}
    /\ revs' = revs \cup {[name |-> g, number |-> n, birth |-> born[g]]}
    /\ UNCHANGED <<born, heard, lists, diffs, comparing>>

Recreate(g) ==
  /\ born[g] < MaxBirths
  /\ born' = [born EXCEPT ![g] = @ + 1]
  /\ revs' = {v \in revs : v.name # g}
  /\ UNCHANGED <<heard, lists, diffs, comparing>>

-----------------------------------------------------------------------------
(* The entries with another number, in their order.                             *)
Without(s, n) ==
  LET kept   == {i \in DOMAIN s : s[i].number # n}
      nth(j) == CHOOSE i \in kept : Cardinality({h \in kept : h < i}) = j - 1
  IN [j \in 1 .. Cardinality(kept) |-> s[nth(j)]]

(* Entries of different numbers as sort.Slice leaves them, the newest first.       *)
Sorted(S) ==
  [j \in 1 .. Cardinality(S) |->
     CHOOSE v \in S : Cardinality({w \in S : w.number > v.number}) = j - 1]

(* addToCache: a revision of the same number is replaced, the rest stays sorted.   *)
AddToCache(s, v) == Sorted(ToSet(Without(s, v.number)) \cup {v})

RemoveFromCache(s, v) == Without(s, v.number)

(* handleAdd and handleUpdate; a new revision starts a comparison with the one      *)
(* before it when there is none under this key.                                    *)
HearOf(v) ==
  /\ comparing["watcher"] = NotComparing
  /\ v \in revs \ heard
  /\ heard' = (heard \ Named(heard, v.name, v.number)) \cup {v}
  /\ lists' = [lists EXCEPT ![v.name] = AddToCache(@, v)]
  /\ comparing' =
       IF /\ Named(heard, v.name, v.number) = {} /\ v.number > 1
          /\ ~Cached(v.name, v.number - 1, v.number)
       THEN [comparing EXCEPT !["watcher"] =
               [name |-> v.name, old |-> v.number - 1, new |-> v.number, read |-> <<>>]]
       ELSE comparing
  /\ UNCHANGED <<born, revs, diffs>>

HearOfRemoval(v) ==
  /\ comparing["watcher"] = NotComparing
  /\ v \in heard /\ Named(revs, v.name, v.number) = {}
  /\ heard' = heard \ {v}
  /\ lists' = [lists EXCEPT ![v.name] = RemoveFromCache(@, v)]
  /\ UNCHANGED <<born, revs, diffs, comparing>>

-----------------------------------------------------------------------------
(* GetDiff on behalf of a request; nothing keeps the watcher from changing the     *)
(* list meanwhile.                                                             *)
GetDiff(g, a, b) ==
  /\ comparing["request"] = NotComparing /\ a < b /\ ~Cached(g, a, b)
  /\ comparing' = [comparing EXCEPT !["request"] = [name |-> g, old |-> a, new |-> b, read |-> <<>>]]
  /\ UNCHANGED <<born, revs, heard, lists, diffs>>

(* GetRevision: the older one first, then the newer; one that is not there ends it. *)
GetRevision(c) ==
  LET x == comparing[c]
      n == IF x.read = <<>> THEN x.old ELSE x.new
      found == {i \in DOMAIN lists[x.name] : lists[x.name][i].number = n}
  IN /\ x # NotComparing /\ Len(x.read) < 2
     /\ \/ found = {} /\ comparing' = [comparing EXCEPT ![c] = NotComparing]
        \/ \E i \in found :
             /\ \A h \in found : i <= h
             /\ comparing' = [comparing EXCEPT ![c].read = Append(@, lists[x.name][i])]
     /\ UNCHANGED <<born, revs, heard, lists, diffs>>

\* Mutant: the key of a difference lacks the name of the RGD.
DiffKeyByNumbers(x) == {[name |-> g, old |-> x.old, new |-> x.new, of |-> x.read] : g \in Graph}

DiffKey(x) == {[name |-> x.name, old |-> x.old, new |-> x.new, of |-> x.read]}

KeepDiff(c) ==
  /\ comparing[c] # NotComparing /\ Len(comparing[c].read) = 2
  /\ diffs' = {d \in diffs : ~(d.name = comparing[c].name /\ d.old = comparing[c].old
                               /\ d.new = comparing[c].new)} \cup DiffKey(comparing[c])
  /\ comparing' = [comparing EXCEPT ![c] = NotComparing]
  /\ UNCHANGED <<born, revs, heard, lists>>

(* The least recently used difference makes room.                               *)
Evict(d) ==
  /\ diffs' = diffs \ {d}
  /\ UNCHANGED <<born, revs, heard, lists, comparing>>

Next ==
  \/ \E g \in Graph : IssueRevision(g) \/ Recreate(g)
  \/ \E v \in revs : HearOf(v)
  \/ \E v \in heard : HearOfRemoval(v)
  \/ \E g \in Graph, a, b \in 1 .. MaxRevision : GetDiff(g, a, b)
  \/ \E c \in Caller : GetRevision(c) \/ KeepDiff(c)
  \/ \E d \in diffs : Evict(d)

Spec == Init /\ [][Next]_vars

-----------------------------------------------------------------------------
TypeOK ==
  /\ \A g \in Graph : born[g] \in 1 .. MaxBirths
  /\ \A v \in revs \cup heard : v.name \in Graph /\ v.number \in 1 .. MaxRevision
  /\ \A d \in diffs : d.old < d.new

(* GetLatestRevision takes the first of the list: the list has what the informer     *)
(* delivered, each number once, the newest first.                                   *)
NewestFirst ==
  \A g \in Graph :
    /\ ToSet(lists[g]) = {v \in heard : v.name = g}
    /\ \A i, j \in 1 .. Len(lists[g]) : i < j => lists[g][i].number > lists[g][j].number

(* A cached difference is one of two revisions that had its name and numbers.          *)
DiffsAreOfTheirKey ==
  \A d \in diffs :
    /\ d.of[1].name = d.name /\ d.of[1].number = d.old
    /\ d.of[2].name = d.name /\ d.of[2].number = d.new
=============================================================================
