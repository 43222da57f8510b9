---------------------------- MODULE Repositories ----------------------------
(***************************************************************************)
(* Repository configurations (repository/service.go, credential_manager.go,   *)
(* handlers/repository.go).  A configuration is one labelled Secret, named     *)
(* after the URL it was created with.  The handler reads it, checks access to   *)
(* its project, and then works on the Secret of that name: an update with new    *)
(* credentials writes it twice.                                             *)
(***************************************************************************)
EXTENDS Naturals, FiniteSets

CONSTANTS Request, Project, Repo,
          MaxConfigs,         \* bound: configurations ever created
          MaxFaults,          \* bound: calls of the API server that fail
          None

(* A member of Repo stands for the spellings of one URL, with ".git" or not and in either *)
(* case: GenerateRepositoryConfigIDFromURL gives them the same ID.                    *)
Branch == {"main", "dev"}

VARIABLES configs,            \* by ID: None or the Secret
          ever,               \* configurations ever created
          owner,              \* the project each was created for
          ask,                \* per request: its body and the project its caller is granted
          stage,
          seen,               \* the configuration it has read
          alone,              \* nothing else has changed a Secret since it arrived
          crossed,            \* a request changed another configuration than it had read
          trespassed,         \* one changed a configuration of a project not granted
          moved,              \* configurations whose URL an update has changed
          unkept,             \* an update that ran alone did not do what it answered
          failures

vars == <<configs, ever, owner, ask, stage, seen, alone, crossed, trespassed, moved, unkept, failures>>
ghosts == <<alone, crossed, trespassed, moved, unkept>>

Config(u, url, p, b, by) == [uid |-> u, url |-> url, project |-> p, branch |-> b, creds |-> by]

Init ==
  /\ configs = [i \in Repo |-> None] /\ ever = 0 /\ owner = [u \in 1..MaxConfigs |-> None]
  /\ ask = [q \in Request |-> None] /\ stage = [q \in Request |-> "new"]
  /\ seen = [q \in Request |-> None] /\ alone = [q \in Request |-> TRUE]
  /\ crossed = FALSE /\ trespassed = FALSE /\ unkept = FALSE
  /\ moved = {} /\ failures = 0

Body(q) == ask[q].body
Store == <<configs, ever, owner>>
Goto(q, s) == stage' = [stage EXCEPT ![q] = s] /\ UNCHANGED ask
Done(q) == /\ stage' = [stage EXCEPT ![q] = "done"] /\ ask' = [ask EXCEPT ![q] = None]
           /\ seen' = [seen EXCEPT ![q] = None]

(* A Secret is changed by q: what every other request has read may now be old.        *)
Changed(q) == alone' = [o \in Request |-> seen[o] = None \/ (alone[o] /\ o = q)]
Touch(q, i) ==
  /\ Changed(q)
  /\ crossed' = (crossed \/ configs[i].uid # seen[q].uid)
  /\ trespassed' = (trespassed \/ owner[configs[i].uid] # ask[q].granted)

(* A call of the API server that fails ends the request.                             *)
Fault(q) ==
  /\ failures < MaxFaults /\ failures' = failures + 1
  /\ Done(q) /\ UNCHANGED <<Store, ghosts>>

Refuse(q) == Done(q) /\ UNCHANGED <<Store, ghosts, failures>>

-----------------------------------------------------------------------------
(* The bodies the handlers accept; None is a field that is left out.  A caller is       *)
(* granted one project.                                                          *)
Bodies ==
  [op : {"create"}, url : Repo, project : Project, branch : {"main"}, creds : {TRUE}]
  \cup [op : {"update"}, id : Repo, url : {None} \cup Repo, branch : {None, "dev"},
         creds : BOOLEAN]
  \cup [op : {"delete"}, id : Repo]

Arrive(q) ==
  /\ stage[q] = "new" /\ stage' = [stage EXCEPT ![q] = "read"]
  /\ \E b \in Bodies, p \in Project : ask' = [ask EXCEPT ![q] = [body |-> b, granted |-> p]]
  /\ UNCHANGED <<Store, seen, ghosts, failures>>

\* Mutant: the Secret gets a name of its own.
CreateAnywhere(q) ==
  /\ stage[q] = "read" /\ Body(q).op = "create" /\ ever < MaxConfigs
  /\ \E i \in Repo :
       /\ configs[i] = None
       /\ configs' = [configs EXCEPT ![i] = Config(ever + 1, Body(q).url, Body(q).project,
                                                  Body(q).branch, q)]
  /\ owner' = [owner EXCEPT ![ever + 1] = Body(q).project] /\ ever' = ever + 1
  /\ Changed(q) /\ Done(q) /\ UNCHANGED <<crossed, trespassed, moved, unkept, failures>>

(* CreateRepositoryConfig: access to the project named in the body, then one Create.  *)
CreateRepositoryConfig(q) ==
  /\ stage[q] = "read" /\ Body(q).op = "create"
  /\ LET i == Body(q).url
         granted == Body(q).project = ask[q].granted
     IN \/ (~granted \/ configs[i] # None) /\ Refuse(q)
        \/ /\ granted /\ configs[i] = None /\ ever < MaxConfigs
           /\ configs' = [configs EXCEPT ![i] = Config(ever + 1, i, Body(q).project,
                                                      Body(q).branch, q)]
           /\ owner' = [owner EXCEPT ![ever + 1] = Body(q).project] /\ ever' = ever + 1
           /\ Changed(q) /\ Done(q) /\ UNCHANGED <<crossed, trespassed, moved, unkept, failures>>
        \/ granted /\ Fault(q)

(* GetRepositoryConfig, before the access check of the other handlers.             *)
GetRepositoryConfig(q) ==
  /\ stage[q] = "read" /\ Body(q).op # "create"
  /\ \/ configs[Body(q).id] = None /\ Refuse(q)
     \/ /\ configs[Body(q).id] # None /\ Goto(q, "check")
        /\ seen' = [seen EXCEPT ![q] = configs[Body(q).id]]
        /\ alone' = [alone EXCEPT ![q] = TRUE]
        /\ UNCHANGED <<Store, crossed, trespassed, moved, unkept, failures>>
     \/ Fault(q)

AfterCheck(q) ==
  /\ Goto(q, CASE Body(q).op = "delete" -> "delete"
               [] Body(q).op = "update" /\ Body(q).creds -> "credentials"
               [] OTHER -> "metadata")
  /\ UNCHANGED <<Store, seen, ghosts, failures>>

\* Mutant: the access check is left to the middleware.
CheckNothing(q) == stage[q] = "check" /\ AfterCheck(q)

(* RequireAccess to repositories/<project of what was read>/<id>.                  *)
CheckAccess(q) ==
  /\ stage[q] = "check"
  /\ IF seen[q].project = ask[q].granted THEN AfterCheck(q) ELSE Refuse(q)

-----------------------------------------------------------------------------
NewUrl(q) == IF Body(q).creds /\ Body(q).url # None THEN Body(q).url ELSE seen[q].url
NewBranch(q) == IF Body(q).branch # None THEN Body(q).branch ELSE seen[q].branch

(* UpdateRepositorySecret: reads the Secret anew and replaces its data by what the     *)
(* handler read before and what the body changes.                                 *)
UpdateRepositorySecret(q) ==
  /\ stage[q] = "credentials"
  /\ LET i == Body(q).id
     IN \/ /\ configs[i] # None
           /\ configs' = [configs EXCEPT ![i] = Config(@.uid, NewUrl(q), seen[q].project,
                                                       NewBranch(q), q)]
           /\ Touch(q, i) /\ Goto(q, "metadata")
           /\ moved' = IF NewUrl(q) = configs[i].url THEN moved ELSE moved \cup {configs[i].uid}
           /\ UNCHANGED <<ever, owner, seen, unkept, failures>>
        \/ configs[i] = None /\ Refuse(q)
        \/ Fault(q)

(* What the success of an update promises of the configuration it read.            *)
Promised(q) ==
  LET c == seen[q]
  IN Config(c.uid, NewUrl(q), c.project, NewBranch(q), IF Body(q).creds THEN q ELSE c.creds)

\* Mutant: the metadata is that of the body, also where the body leaves it out.
UpdateMetadataOfBody(q) ==
  /\ stage[q] = "metadata"
  /\ LET i == Body(q).id
     IN /\ configs[i] # None
        /\ configs' = [configs EXCEPT ![i].branch =
                         IF Body(q).branch = None THEN "main" ELSE Body(q).branch]
        /\ Touch(q, i) /\ unkept' = (unkept \/ (alone[q] /\ configs'[i] # Promised(q)))
  /\ Done(q) /\ UNCHANGED <<ever, owner, moved, failures>>

(* UpdateRepositoryMetadata: the name and the branch, into the Secret as it is now.   *)
UpdateRepositoryMetadata(q) ==
  /\ stage[q] = "metadata"
  /\ LET i == Body(q).id
     IN \/ /\ configs[i] # None /\ configs' = [configs EXCEPT ![i].branch = NewBranch(q)]
           /\ Touch(q, i) /\ unkept' = (unkept \/ (alone[q] /\ configs'[i] # Promised(q)))
           /\ Done(q) /\ UNCHANGED <<ever, owner, moved, failures>>
        \/ configs[i] = None /\ Refuse(q)
        \/ Fault(q)

(* DeleteRepositoryConfig: the service reads the configuration again, for its audit    *)
(* log only, and deletes the Secret of that name.                                  *)
DeleteRepositoryConfig(q) ==
  /\ stage[q] = "delete"
  /\ LET i == Body(q).id
     IN \/ /\ configs[i] # None /\ Touch(q, i) /\ configs' = [configs EXCEPT ![i] = None]
           /\ Done(q) /\ UNCHANGED <<ever, owner, moved, unkept, failures>>
        \/ configs[i] = None /\ Refuse(q)
        \/ Fault(q)

(* Another client, such as a GitOps tool, creates or deletes a labelled Secret.         *)
OtherClient ==
  \E i \in Repo :
    /\ \/ /\ configs[i] # None /\ configs' = [configs EXCEPT ![i] = None]
          /\ UNCHANGED <<ever, owner>>
       \/ /\ configs[i] = None /\ ever < MaxConfigs /\ ever' = ever + 1
          /\ \E p \in Project :
               /\ configs' = [configs EXCEPT ![i] = Config(ever + 1, i,
                                                          p, "main", None)]
               /\ owner' = [owner EXCEPT ![ever + 1] = p]
  /\ alone' = [o \in Request |-> seen[o] = None]
  /\ UNCHANGED <<ask, stage, seen, crossed, trespassed, moved, unkept, failures>>

Next == OtherClient \/ \E q \in Request :
  \/ Arrive(q) \/ CreateRepositoryConfig(q) \/ GetRepositoryConfig(q) \/ CheckAccess(q)
  \/ UpdateRepositorySecret(q) \/ UpdateRepositoryMetadata(q) \/ DeleteRepositoryConfig(q)

Spec == Init /\ [][Next]_vars

-----------------------------------------------------------------------------
Configs == [uid : 1..MaxConfigs, url : Repo, project : Project, branch : Branch,
            creds : Request \cup {None}]

TypeOK ==
  /\ configs \in [Repo -> Configs \cup {None}]
  /\ ever \in 0..MaxConfigs /\ owner \in [1..MaxConfigs -> Project \cup {None}]
  /\ stage \in [Request -> {"new", "read", "check", "credentials", "metadata", "delete", "done"}]
  /\ \A q \in Request : /\ seen[q] = None \/ seen[q] \in Configs
                        /\ ask[q] = None \/ ask[q].body \in Bodies
  /\ alone \in [Request -> BOOLEAN] /\ {crossed, trespassed, unkept} \subseteq BOOLEAN
  /\ moved \subseteq 1..MaxConfigs /\ failures \in 0..MaxFaults

(* A request changes or deletes only configurations of projects its caller was granted,  *)
(* unless one acted on a configuration that was deleted and created again under the      *)
(* same name after it was read (UpdateRepositoryConfig, DeleteRepositoryConfig).        *)
AccessHolds == ~crossed => ~trespassed

(* A repository has one configuration, unless an update changed the URL of another       *)
(* (GenerateRepositoryConfigIDFromURL).                                             *)
OneConfigPerRepository ==
  \A i, j \in Repo :
    (i # j /\ configs[i] # None /\ configs[j] # None /\ configs[i].url = configs[j].url)
      => {configs[i].uid, configs[j].uid} \cap moved # {}

(* An update that ran alone did all that it answered and nothing else, although it writes *)
(* the Secret twice; when another one ran beside it, its older reading may overwrite      *)
(* the other's change (UpdateRepositoryConfig).                                      *)
AnswersAreKept == ~unkept
=============================================================================
