---------------------------- MODULE Deployments -----------------------------
(***************************************************************************)
(* The deployment of one instance: the handlers that create, update and      *)
(* delete it (api/handlers/instance_deployment.go, instance_crud.go), the     *)
(* deployment controller, its GitHub client and the drift entries.           *)
(* The instance is an object of the cluster and, in the modes gitops and      *)
(* hybrid, a manifest in a repository that a GitOps tool applies.  No lock    *)
(* and no transaction spans the two: a request is a sequence of calls, any     *)
(* of which may fail, with or without an effect.                             *)
(***************************************************************************)
EXTENDS Naturals, FiniteSets

CONSTANTS Request,            \* bound: the requests, each is made once
          Version,            \* the specs that are requested
          AllowedModes,       \* the deployment modes the RGD allows
          MaxFaults,          \* bound: calls that fail
          MaxSyncs,           \* bound: steps of the GitOps tool and of other clients
          None

Mode == {"direct", "gitops", "hybrid"}

VARIABLES live,               \* the object of the cluster: None or [spec, mode, suspended, repo]
          manifest,           \* the manifest in the repository: None or [spec, mode]
          desired,            \* the drift entry: None or the spec that was pushed
          ask,                \* per request, where it is
          slips,              \* the calls that failed
          overlap,            \* two requests were served at the same time
          syncs

vars == <<live, manifest, desired, ask, slips, overlap, syncs>>

Object == [spec : Version, mode : Mode, suspended : BOOLEAN, repo : BOOLEAN]
Pushed == [spec : Version, mode : Mode]
Idle == [pc |-> "idle"]

Init ==
  /\ live = None /\ manifest = None /\ desired = None
  /\ ask = [q \in Request |-> Idle] /\ slips = {} /\ overlap = FALSE /\ syncs = 0

(* A step of request q, which then is at pc; nobody else's request is undisturbed *)
(* any more.                                                                  *)
Goto(q, pc) ==
  ask' = [r \in Request |->
            IF r = q THEN [ask[q] EXCEPT !.pc = pc]
            ELSE IF ask[r] = Idle THEN Idle ELSE [ask[r] EXCEPT !.clean = FALSE]]

(* The same for a call that failed; when it had an effect nonetheless, or when it     *)
(* was to undo one, the request itself is disturbed.                             *)
GotoAfterFault(q, pc, harmless) ==
  /\ ask[q].pc \notin slips /\ Cardinality(slips) < MaxFaults
  /\ slips' = slips \cup {ask[q].pc}
  /\ ask' = [r \in Request |->
               IF ask[r] = Idle THEN Idle
               ELSE [ask[r] EXCEPT !.pc = IF r = q THEN pc ELSE @,
                                   !.clean = r = q /\ harmless /\ @]]

Served(q) == ask[q].pc \notin {"idle", "done", "failed"}

(* A request arrives, and is at pc after the handler's checks.                   *)
Arrive(q, kind, mode, spec, pc) ==
  /\ ask[q] = Idle
  /\ ask' = [r \in Request |->
               IF r = q THEN [pc |-> pc, kind |-> kind, mode |-> mode, spec |-> spec, clean |-> TRUE,
                              fresh |-> live = None /\ manifest = None]
               ELSE IF ask[r] = Idle THEN Idle ELSE [ask[r] EXCEPT !.clean = FALSE]]
  /\ overlap' = (overlap \/ \E r \in Request : Served(r))
  /\ UNCHANGED <<live, manifest, desired, slips, syncs>>

-----------------------------------------------------------------------------
(* CreateInstance checks the request; gitops and hybrid need a repository.      *)
CreateInstance(q) ==
  \E mode \in Mode, spec \in Version :
    \/ mode \in AllowedModes
       /\ Arrive(q, "create", mode, spec, IF mode = "direct" THEN "direct" ELSE "apply")
    \/ Arrive(q, "create", mode, spec, "failed")

Built(q, suspended) ==
  [spec |-> ask[q].spec, mode |-> ask[q].mode, suspended |-> suspended, repo |-> FALSE]

(* directDeploy: no upsert, the instance must be new.                           *)
DirectDeploy(q) ==
  /\ ask[q].pc = "direct"
  /\ \/ live = None /\ live' = Built(q, FALSE) /\ Goto(q, "done") /\ UNCHANGED slips
     \/ live # None /\ UNCHANGED <<live, slips>> /\ Goto(q, "failed")
     \/ live' \in (IF live = None THEN {None, Built(q, FALSE)} ELSE {live})
        /\ GotoAfterFault(q, "failed", live' = live)
  /\ UNCHANGED <<manifest, desired, overlap, syncs>>

(* The manifest of the mode gitops is applied with reconciliation suspended.     *)
Suspends(q) == ask[q].mode = "gitops"

(* How a deployment that failed is answered: an update in the mode hybrid has       *)
(* succeeded without it.                                                       *)
Refused(q) == IF ask[q].kind = "updateHybrid" THEN "done" ELSE "failed"

(* applyObjectToCluster: Create, repeated after a lost answer; when the object     *)
(* exists it is patched, and a merge patch only adds the annotation.             *)
Apply(q) ==
  /\ ask[q].pc = "apply"
  /\ \/ live = None /\ live' = Built(q, Suspends(q)) /\ Goto(q, "push") /\ UNCHANGED slips
     \/ live # None /\ UNCHANGED <<live, slips>> /\ Goto(q, "patch")
     \/ live = None /\ live' = Built(q, Suspends(q)) /\ GotoAfterFault(q, "patch", TRUE)
     \/ live' \in (IF live = None THEN {None, Built(q, Suspends(q))} ELSE {live})
        /\ GotoAfterFault(q, Refused(q), live' = live)
  /\ UNCHANGED <<manifest, desired, overlap, syncs>>

Patched(q) ==
  [live EXCEPT !.spec = ask[q].spec, !.mode = ask[q].mode, !.suspended = @ \/ Suspends(q)]

PatchExisting(q) ==
  /\ ask[q].pc = "patch"
  /\ \/ live # None /\ Goto(q, "push") /\ UNCHANGED slips
        /\ live' = Patched(q)
     \/ live = None /\ Goto(q, Refused(q)) /\ UNCHANGED <<live, slips>>
     \/ live' \in (IF live = None THEN {None} ELSE {live, Patched(q)})
        /\ GotoAfterFault(q, Refused(q), FALSE)
  /\ UNCHANGED <<manifest, desired, overlap, syncs>>

(* What a request does when the push has failed, and after it.                   *)
PushFailed(q) == IF ask[q].mode = "gitops" THEN "rollback" ELSE "done"

Generated(q) == [spec |-> ask[q].spec, mode |-> ask[q].mode]

(* CommitFile: no SHA is sent, so GitHub creates the file and never updates it.      *)
CommitFile(q) == manifest = None /\ manifest' = Generated(q)

(* doWithRetry: a commit whose answer is lost is repeated, and then refused.         *)
CommitFails(q) ==
  /\ manifest' \in (IF manifest = None THEN {None, Generated(q)} ELSE {manifest})
  /\ GotoAfterFault(q, PushFailed(q), manifest' = manifest)

PushToGit(q) ==
  /\ ask[q].pc = "push"
  /\ \/ CommitFile(q) /\ UNCHANGED slips
        /\ Goto(q, IF ask[q].kind = "create" THEN "done" ELSE "drift")
     \/ manifest # None /\ Goto(q, PushFailed(q)) /\ UNCHANGED <<manifest, slips>>
     \/ CommitFails(q)
  /\ UNCHANGED <<live, desired, overlap, syncs>>

\* Mutant: the suspended object is left behind.
RollbackForgotten(q) ==
  /\ ask[q].pc = "rollback" /\ Goto(q, Refused(q))
  /\ UNCHANGED <<live, manifest, desired, slips, overlap, syncs>>

(* deployGitOps deletes the object again, whoever made it; an update in the mode   *)
(* hybrid is answered all the same.                                            *)
Rollback(q) ==
  /\ ask[q].pc = "rollback"
  /\ \/ live' = None /\ Goto(q, Refused(q)) /\ UNCHANGED slips
     \/ UNCHANGED live /\ GotoAfterFault(q, Refused(q), FALSE)
  /\ UNCHANGED <<manifest, desired, overlap, syncs>>

-----------------------------------------------------------------------------
(* UpdateInstance: the mode is that of the label; the push to Git is a deployment  *)
(* in the mode gitops, whatever the mode of the instance.                        *)
UpdateInstance(q) ==
  \E spec \in Version :
    IF live = None THEN Arrive(q, "update", "direct", spec, "failed")
    ELSE \/ live.mode = "direct" /\ Arrive(q, "update", "direct", spec, "patchSpec")
         \/ live.mode = "gitops" /\ \E pc \in {"apply", "failed"} :
                                      Arrive(q, "update", "gitops", spec, pc)
         \/ live.mode = "hybrid" /\ Arrive(q, "updateHybrid", "gitops", spec, "patchSpec")

(* patchKubernetesSpec; a resource version that is out of date refuses it.         *)
(* The push of the mode hybrid is left out when the request names no repository.    *)
PatchKubernetesSpec(q) ==
  /\ ask[q].pc = "patchSpec"
  /\ \/ live # None /\ live' = [live EXCEPT !.spec = ask[q].spec] /\ UNCHANGED slips
        /\ \/ ask[q].kind = "update" /\ Goto(q, "done")
           \/ ask[q].kind = "updateHybrid" /\ \E pc \in {"apply", "done"} : Goto(q, pc)
     \/ UNCHANGED <<live, slips>> /\ Goto(q, "failed")
     \/ live' \in {live} \cup (IF live = None THEN {} ELSE {[live EXCEPT !.spec = ask[q].spec]})
        /\ GotoAfterFault(q, "failed", live' = live)
  /\ UNCHANGED <<manifest, desired, overlap, syncs>>

(* StoreDrift after a push that succeeded; a failure is only logged.              *)
StoreDrift(q) ==
  /\ ask[q].pc = "drift"
  /\ \/ desired' = ask[q].spec /\ Goto(q, "done") /\ UNCHANGED slips
     \/ UNCHANGED desired /\ GotoAfterFault(q, "done", TRUE)
  /\ UNCHANGED <<live, manifest, overlap, syncs>>

(* CheckAndClearIfReconciled, in the callback of the instance tracker.            *)
ClearReconciled ==
  /\ desired # None /\ live # None /\ live.mode \in {"gitops", "hybrid"} /\ live.spec = desired
  /\ desired' = None
  /\ UNCHANGED <<live, manifest, ask, slips, overlap, syncs>>

-----------------------------------------------------------------------------
(* The repository of an instance is found by a label that no deployment writes.       *)
RepositoryKnown == live.mode # "direct" /\ live.repo

(* DeleteInstance: the manifest of gitops and hybrid is deleted first; that it is not  *)
(* found, or not deleted, is only logged.                                        *)
DeleteInstance(q) ==
  IF live = None THEN Arrive(q, "delete", "direct", None, "failed")
  ELSE Arrive(q, "delete", live.mode, None,
              IF RepositoryKnown THEN "deleteFile" ELSE "deleteObject")

DeleteFile(q) ==
  /\ ask[q].pc = "deleteFile"
  /\ \/ manifest' = None /\ Goto(q, "deleteObject") /\ UNCHANGED slips
     \/ manifest' \in {None, manifest} /\ GotoAfterFault(q, "deleteObject", TRUE)
  /\ UNCHANGED <<live, desired, overlap, syncs>>

DeleteObject(q) ==
  /\ ask[q].pc = "deleteObject"
  /\ \/ live' = None /\ Goto(q, IF live = None THEN "failed" ELSE "done") /\ UNCHANGED slips
     \/ live' \in {None, live} /\ GotoAfterFault(q, "failed", live' = live)
  /\ UNCHANGED <<manifest, desired, overlap, syncs>>

-----------------------------------------------------------------------------
Disturb ==
  /\ syncs < MaxSyncs /\ syncs' = syncs + 1
  /\ ask' = [r \in Request |-> IF ask[r] = Idle THEN Idle ELSE [ask[r] EXCEPT !.clean = FALSE]]
  /\ UNCHANGED <<desired, slips, overlap>>

(* The GitOps tool replaces the object by the manifest of the repository.          *)
GitOpsSync ==
  /\ manifest # None
  /\ live' = [spec |-> manifest.spec, mode |-> manifest.mode, suspended |-> FALSE,
              repo |-> live # None /\ live.repo]
  /\ UNCHANGED manifest /\ Disturb

(* Another client names the repository of the instance in its label.              *)
LabelRepository ==
  /\ live # None /\ ~live.repo /\ live' = [live EXCEPT !.repo = TRUE]
  /\ UNCHANGED manifest /\ Disturb

Deploy(q) ==
  DirectDeploy(q) \/ Apply(q) \/ PatchExisting(q) \/ PushToGit(q) \/ Rollback(q)

Next ==
  \/ \E q \in Request :
       \/ CreateInstance(q) \/ UpdateInstance(q) \/ DeleteInstance(q)
       \/ Deploy(q) \/ PatchKubernetesSpec(q) \/ StoreDrift(q)
       \/ DeleteFile(q) \/ DeleteObject(q)
  \/ ClearReconciled \/ GitOpsSync \/ LabelRepository

Spec == Init /\ [][Next]_vars

-----------------------------------------------------------------------------
TypeOK ==
  /\ live \in Object \cup {None} /\ manifest \in Pushed \cup {None}
  /\ desired \in Version \cup {None}
  /\ \A q \in Request :
       ask[q] = Idle \/ ask[q].kind \in {"create", "update", "updateHybrid", "delete"}
  /\ Cardinality(slips) <= MaxFaults /\ overlap \in BOOLEAN /\ syncs \in 0..MaxSyncs

(* A creation of a new instance leaves all of it or nothing, in the cluster and in    *)
(* the repository, whichever of its calls failed, unless a call failed after it had   *)
(* its effect or another client came in between (deployGitOps, deployHybrid).        *)
NewIsAllOrNothing ==
  \A q \in Request :
    (ask[q] # Idle /\ ask[q].clean /\ ask[q].kind = "create" /\ ask[q].fresh) =>
       /\ ask[q].pc = "failed" => live = None /\ manifest = None
       /\ ask[q].pc = "done" => live # None /\ live.suspended = (ask[q].mode = "gitops")
       /\ (ask[q].pc = "done" /\ ask[q].mode = "gitops") => manifest # None

(* An object that stays suspended with no manifest that releases it comes from       *)
(* requests served at the same time, or from a call that could not be undone: the     *)
(* apply itself, the compensating delete, the last call of a deletion (deployGitOps).  *)
SuspendedIsReleased ==
  (live # None /\ live.suspended /\ manifest = None) =>
    \/ overlap \/ \E q \in Request : Served(q)
    \/ slips \cap {"apply", "patch", "rollback", "deleteObject"} # {}

(* An update changes an instance and never removes it (UpdateInstance answers "the   *)
(* Kubernetes resource was updated but the Git repository was not").               *)
UpdateKeepsInstance ==
  [][\A q \in Request :
       (ask[q] # Idle /\ ask[q].kind = "updateHybrid" /\ ask'[q] # ask[q] /\ live # None)
          => live' # None]_vars
=============================================================================
