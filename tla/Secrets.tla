------------------------------- MODULE Secrets -------------------------------
(***************************************************************************)
(* The secrets of projects (handlers/secrets_handler.go): Secrets of            *)
(* Kubernetes with the label of a project, in namespaces of the project.  The    *)
(* handlers check access to project and namespace, read the Secret to see whose   *)
(* it is, and then act on it by name; a list asks one namespace after another.    *)
(***************************************************************************)
EXTENDS Naturals, FiniteSets

CONSTANTS Request, Project,
          MaxSlot,            \* bound: names
          MaxRv,              \* bound: writes
          MaxFaults,          \* bound: calls of the API server that fail
          Limit,              \* the page size
          None

Slot == 1..MaxSlot            \* names, in their order
NsOf(i) == i % 2              \* the namespace a name is in
Namespaces == {NsOf(i) : i \in Slot}

VARIABLES secrets,            \* per name: None or the Secret
          lastWrite,
          asked,              \* per request: None or what it asks
          found,              \* per request: the Secret it has read
          trespasses,         \* Secrets of other projects a request changed or deleted
          recreated,          \* one was deleted by name that is not the one read
          clobbered,          \* an update overwrote a change it had not seen
          list,               \* None or the list under way
          omitted,            \* a page without "more" left out what was there all the time
          outages

vars == <<secrets, lastWrite, asked, found, trespasses, recreated, clobbered, list, omitted, outages>>
ghosts == <<trespasses, recreated, clobbered>>

Secret(uid, rv, p, m) == [uid |-> uid, rv |-> rv, project |-> p, managed |-> m]

Init ==
  /\ secrets = [i \in Slot |-> None] /\ lastWrite = 0
  /\ asked = [q \in Request |-> None] /\ found = [q \in Request |-> None]
  /\ trespasses = {} /\ recreated = FALSE /\ clobbered = FALSE
  /\ list = None /\ omitted = FALSE /\ outages = 0

(* A write; the list under way need no longer show the Secret.                         *)
Write(i, s) ==
  /\ secrets' = [secrets EXCEPT ![i] = s] /\ lastWrite' = lastWrite + 1
  /\ list' = IF list = None THEN None ELSE [list EXCEPT !.stable = @ \ {i}]

End(q) == asked' = [asked EXCEPT ![q] = None] /\ found' = [found EXCEPT ![q] = None]
Refuse(q) == End(q) /\ UNCHANGED <<secrets, lastWrite, ghosts, list, outages>>
Fault(q) == End(q) /\ outages < MaxFaults /\ outages' = outages + 1
            /\ UNCHANGED <<secrets, lastWrite, ghosts, list>>

-----------------------------------------------------------------------------
(* A request whose body is well formed and whose caller has access to the project and to  *)
(* the namespace of the name; the others end here.                                  *)
Arrive(q) ==
  /\ asked[q] = None
  /\ \E op \in {"create", "update", "delete", "get"}, i \in Slot, p \in Project :
       asked' = [asked EXCEPT ![q] = [op |-> op, slot |-> i, project |-> p]]
  /\ UNCHANGED <<secrets, lastWrite, found, ghosts, list, omitted, outages>>

CreateSecret(q) ==
  /\ asked[q] # None /\ asked[q].op = "create"
  /\ LET i == asked[q].slot
     IN \/ secrets[i] # None /\ Refuse(q)
        \/ /\ secrets[i] = None /\ lastWrite < MaxRv
           /\ Write(i, Secret(lastWrite + 1, lastWrite + 1, asked[q].project, TRUE))
           /\ End(q) /\ UNCHANGED <<ghosts, outages>>
        \/ Fault(q)
  /\ UNCHANGED omitted

\* Mutant: the project of the Secret is not compared.
ReadAny(q) ==
  /\ asked[q] # None /\ asked[q].op # "create" /\ found[q] = None
  /\ LET s == secrets[asked[q].slot]
     IN IF s = None \/ asked[q].op = "get" THEN Refuse(q)
        ELSE /\ found' = [found EXCEPT ![q] = s]
             /\ UNCHANGED <<secrets, lastWrite, asked, ghosts, list, outages>>
  /\ UNCHANGED omitted

(* GetSecret, CheckSecretExists, and the first half of an update and of a delete: the   *)
(* Secret must have the label of the project.                                       *)
GetSecret(q) ==
  /\ asked[q] # None /\ asked[q].op # "create" /\ found[q] = None
  /\ LET s == secrets[asked[q].slot]
     IN \/ (s = None \/ asked[q].op = "get") /\ Refuse(q)
        \/ s # None /\ s.project # asked[q].project /\ Refuse(q)
        \/ /\ s # None /\ s.project = asked[q].project /\ asked[q].op # "get"
           /\ found' = [found EXCEPT ![q] = s]
           /\ UNCHANGED <<secrets, lastWrite, asked, ghosts, list, outages>>
        \/ Fault(q)
  /\ UNCHANGED omitted

Trespass(q, s) ==
  trespasses' = IF s.project = asked[q].project THEN trespasses ELSE trespasses \cup {s.uid}

\* Mutant: the update does not carry the version that was read.
UpdateAnyVersion(q) ==
  /\ asked[q] # None /\ asked[q].op = "update" /\ found[q] # None
  /\ LET i == asked[q].slot
         s == secrets[i]
     IN IF s = None THEN Refuse(q)
        ELSE /\ lastWrite < MaxRv /\ Trespass(q, s)
             /\ clobbered' = (clobbered \/ s.rv # found[q].rv)
             /\ Write(i, [found[q] EXCEPT !.rv = lastWrite + 1])
             /\ End(q) /\ UNCHANGED <<recreated, outages>>
  /\ UNCHANGED omitted

(* UpdateSecret: the values are set in what was read; the API server refuses it when *)
(* the Secret has changed since.                                                    *)
UpdateSecret(q) ==
  /\ asked[q] # None /\ asked[q].op = "update" /\ found[q] # None
  /\ LET i == asked[q].slot
         s == secrets[i]
     IN \/ ~(s # None /\ s.rv = found[q].rv) /\ Refuse(q)
        \/ /\ s # None /\ s.rv = found[q].rv /\ lastWrite < MaxRv /\ Trespass(q, s)
           /\ clobbered' = (clobbered \/ s.rv # found[q].rv)
           /\ Write(i, [found[q] EXCEPT !.rv = lastWrite + 1])
           /\ End(q) /\ UNCHANGED <<recreated, outages>>
        \/ Fault(q)
  /\ UNCHANGED omitted

(* DeleteSecret: after the scan for references, by name and without a precondition.       *)
DeleteSecret(q) ==
  /\ asked[q] # None /\ asked[q].op = "delete" /\ found[q] # None
  /\ LET i == asked[q].slot
         s == secrets[i]
     IN \/ s = None /\ Refuse(q)
        \/ /\ s # None /\ lastWrite < MaxRv /\ Write(i, None) /\ Trespass(q, s)
           /\ recreated' = (recreated \/ s.uid # found[q].uid)
           /\ End(q) /\ UNCHANGED <<clobbered, outages>>
        \/ Fault(q)
  /\ UNCHANGED omitted

(* Another client creates, changes or deletes a Secret.                               *)
OtherClient ==
  /\ lastWrite < MaxRv
  /\ \E i \in Slot :
       IF secrets[i] = None
       THEN \E p \in Project, m \in BOOLEAN :
              Write(i, Secret(lastWrite + 1, lastWrite + 1, p, m))
       ELSE Write(i, None) \/ Write(i, [secrets[i] EXCEPT !.rv = lastWrite + 1])
  /\ UNCHANGED <<asked, found, ghosts, omitted, outages>>

-----------------------------------------------------------------------------
Listed(p, ns) == {i \in Slot : /\ NsOf(i) \in ns /\ secrets[i] # None
                               /\ secrets[i].project = p /\ secrets[i].managed}
FirstOf(s) == {i \in s : Cardinality({j \in s : j < i}) < Limit}

(* The answer: a page, and whether there is more.                                    *)
Answer(items, more, stable) ==
  omitted' = (omitted \/ (~more /\ ~(stable \subseteq items)))

(* The list of a caller with access to all namespaces: one call, and a token where to     *)
(* continue when there is more.                                                    *)
ListAll ==
  /\ \E p \in Project, from \in 0..MaxSlot :
       LET all == {i \in Listed(p, Namespaces) : i > from}
       IN Answer(FirstOf(all), all # FirstOf(all), all)
  /\ UNCHANGED <<secrets, lastWrite, asked, found, ghosts, list, outages>>

(* The list of other callers asks one accessible namespace after the other; one that      *)
(* fails is left out.                                                             *)
BeginList ==
  /\ list = None
  /\ \E p \in Project, ns \in SUBSET Namespaces :
       list' = [project |-> p, todo |-> ns, items |-> {}, stable |-> Listed(p, ns)]
  /\ UNCHANGED <<secrets, lastWrite, asked, found, ghosts, omitted, outages>>

ListNamespace ==
  /\ list # None
  /\ \E n \in list.todo :
       \/ /\ list' = [list EXCEPT !.todo = @ \ {n}, !.items = @ \cup Listed(list.project, {n})]
          /\ UNCHANGED outages
       \/ /\ outages < MaxFaults /\ outages' = outages + 1
          /\ list' = [list EXCEPT !.todo = @ \ {n}, !.stable = {i \in @ : NsOf(i) # n}]
  /\ UNCHANGED <<secrets, lastWrite, asked, found, ghosts, omitted>>

\* Mutant: there is more only when the server gave a token.
AnswerWithoutMore ==
  /\ list # None /\ list.todo = {} /\ list' = None
  /\ Answer(FirstOf(list.items), FALSE, list.stable)
  /\ UNCHANGED <<secrets, lastWrite, asked, found, ghosts, outages>>

AnswerList ==
  /\ list # None /\ list.todo = {} /\ list' = None
  /\ Answer(FirstOf(list.items), list.items # FirstOf(list.items), list.stable)
  /\ UNCHANGED <<secrets, lastWrite, asked, found, ghosts, outages>>

Next ==
  \/ \E q \in Request : Arrive(q) \/ CreateSecret(q) \/ GetSecret(q) \/ UpdateSecret(q) \/ DeleteSecret(q)
  \/ OtherClient \/ ListAll \/ BeginList \/ ListNamespace \/ AnswerList

Spec == Init /\ [][Next]_vars

-----------------------------------------------------------------------------
Secrets == [uid : 1..MaxRv, rv : 1..MaxRv, project : Project, managed : BOOLEAN]

TypeOK ==
  /\ secrets \in [Slot -> Secrets \cup {None}] /\ lastWrite \in 0..MaxRv
  /\ found \in [Request -> Secrets \cup {None}]
  /\ trespasses \subseteq 1..MaxRv /\ {recreated, clobbered} \subseteq BOOLEAN
  /\ outages \in 0..MaxFaults

(* A request changes or deletes no Secret of another project, unless a Secret was deleted   *)
(* and created again between the reading of its label and the deletion by name ("prevent     *)
(* cross-project access", UpdateSecret, DeleteSecret).                                *)
StaysInProject == ~recreated => trespasses = {}

(* An update overwrites no change that it has not seen ("modified concurrently").            *)
NoLostChange == ~clobbered

(* A page that says there is no more leaves out no Secret that was there, unchanged, since    *)
(* the list began, in a namespace that answered (ListSecrets).                           *)
NothingOmitted == ~omitted
=============================================================================
