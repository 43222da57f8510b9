---------------------------- MODULE MCIdentity ------------------------------
(***************************************************************************)
(* Components of sign-on and authorization that do not share state,        *)
(* checked side by side: the initial state chooses one of them and only    *)
(* that one takes steps, so that each is explored completely and the state *)
(* spaces add up.                                                          *)
(***************************************************************************)
EXTENDS Sessions

CONSTANTS Name, Watched, Editor, Method, MaxOps, MaxEdits, MaxFaults, u, alt, g, r1, obj,
          c1, w1, None, Replica, Account, CacheTTL, MaxTime, MaxEvents, Server, Login,
          MaxAttempts, MaxOutages, BurstSize, adm, srv, Asker, Namespace, Constraint,
          MaxConfirmations, MaxShifts, Project, MaxSlot, MaxRv, Limit, MaxInstances, PageSize,
          MaxTurns, Team, TeamProject, MaxMapped, MaxMoves

ASSUME IdentityAssumption ==
  /\ IsFiniteSet(Login) /\ MaxAttempts \in Nat \ {0} /\ BurstSize \in Nat
  /\ "none" \notin Replica /\ adm \in Account
  /\ None \notin Constraint /\ MaxConfirmations \in Nat
  /\ "basic" \in Method /\ "absent" \notin Method
  /\ srv \notin TeamProject
  /\ None \notin {u, alt, g, r1} \X {obj}

(* Bounds, and a clock that has begun.                                       *)
ASSUME IdentityBounds ==
  /\ {MaxOps, MaxEdits, MaxFaults, MaxEvents, MaxOutages, MaxMoves, MaxRv, MaxShifts,
      MaxTurns} \subseteq Nat
  /\ MaxTime \in Nat \ {0}

VARIABLES part,
          configs, keys, op, ops, tangled,
          cmap, creds, phase, pending, task, lastValid, loaded, edits, faults, why,
          edges, grants, cache, request, pc, stage, work, cur, verdict, result, wpc,
          todo, writes, fresh, calm, unannounced,
          listed, initial, secret, rep, issued, clock, events,
          attempts, login, outages, slips,
          limiter, tokens, call, sweep, spent,
          mapping, defaultRole, idp, held, kept, signon, jwt, entitled, spoilt, turns,
          secrets, lastWrite, asked, found, trespasses, recreated, clobbered, list,
          omitted, faulty,
          enforced, license, enabled, permitted, visible, confirmations, last, change,
          uses, doubted, unlicensed, unconfirmed, leaked, shifts,
          projects, readable, creatable, admin, grouped, synced, instances, view,
          granted, owned, exposed, miscounted, turned

Store == INSTANCE SsoProviders WITH
  Admin <- Editor
Watcher == INSTANCE SsoWatcher WITH
  Name <- Watched
\* One request of a user with two spellings and a group; nobody writes.
Forms == INSTANCE AuthzCache WITH
  User <- {u, alt}, Group <- {g}, Role <- {r1}, Object <- {obj}, Reader <- {c1},
  Writer <- {w1}, Projects <- {{r1}}, AltForm <- [x \in {u, alt} |-> IF x = u THEN
  alt ELSE u], CacheTTL <- 1, MaxWrites <- 0
Acc == INSTANCE Accounts WITH
  Admin <- adm
Log == INSTANCE LoginLimit
Rate == INSTANCE RequestLimit WITH
  Call <- Login
Roles == INSTANCE OidcLogin WITH
  Group <- Team, Project <- TeamProject, Server <- srv
\* One request at a time, next to other clients of the API server.
Sec == INSTANCE Secrets WITH
  Request <- Asker, outages <- faulty
Comp == INSTANCE Compliance WITH
  Request <- Login, MaxTokens <- MaxConfirmations, MaxChanges <- MaxShifts,
  tokens <- confirmations, call <- change, slips <- shifts
Access == INSTANCE InstanceAccess WITH
  MaxEdits <- MaxTurns, visit <- view, leaked <- exposed, edits <- turned

storeVars == <<configs, keys, op, ops, tangled>>
watcherVars == <<cmap, creds, phase, pending, task, lastValid, loaded, edits, faults,
    why>>
formsVars == <<edges, grants, cache, request, pc, stage, work, cur, verdict, result,
    wpc, todo, writes, fresh, calm, unannounced>>
accountsVars == <<listed, initial, secret, rep, issued, clock, events>>
loginsVars == <<attempts, login, outages, slips>>
ratesVars == <<limiter, tokens, call, sweep, spent>>
rolesVars == <<mapping, defaultRole, idp, held, kept, signon, jwt, entitled, spoilt,
    turns>>
secretsVars == <<secrets, lastWrite, asked, found, trespasses, recreated, clobbered,
    list, omitted, faulty>>
complianceVars == <<enforced, license, enabled, permitted, visible, confirmations,
    last, change, uses, doubted, unlicensed, unconfirmed, leaked, shifts>>
accessVars == <<projects, readable, creatable, admin, grouped, synced, instances,
    view, granted, owned, exposed, miscounted, turned>>
sessionsVars == vars
allVars == <<part, storeVars, watcherVars, formsVars, accountsVars, loginsVars,
    ratesVars, sessionsVars, rolesVars, secretsVars, complianceVars, accessVars>>

AllInit ==
  /\ part \in {"store", "watcher", "forms", "accounts", "logins", "rates", "sessions", "roles", "secrets", "compliance", "access"}
  /\ Store!Init
  /\ part # "store" => \A n \in Name : configs[n] = "absent"
  /\ Watcher!Init
  /\ part # "watcher" => \A n \in Watched : cmap[n] = "absent"
  /\ Forms!Init
  /\ part # "forms" => edges = {} /\ grants = {}
  /\ part = "forms" => grants # {}   \* without a rule everything is denied
  /\ Acc!Init
  /\ part # "accounts" => ~secret.made
  /\ Log!Init
  /\ Rate!Init
  /\ Init
  /\ Roles!Init
  /\ part # "roles" => mapping = {} /\ defaultRole = None /\ idp = {}
  /\ Sec!Init
  /\ Comp!Init
  /\ part # "compliance" => \A c \in Constraint : enforced[c] = None
  /\ Access!Init
  /\ part # "access" => \A p \in Project : projects[p] = None

AllNext ==
  \/ part = "store" /\ Store!Next
     /\ UNCHANGED <<part, watcherVars, formsVars, accountsVars, loginsVars, ratesVars, sessionsVars,
                  rolesVars, secretsVars, complianceVars, accessVars>>
  \/ part = "watcher" /\ Watcher!Next
     /\ UNCHANGED <<part, storeVars, formsVars, accountsVars, loginsVars, ratesVars, sessionsVars,
                  rolesVars, secretsVars, complianceVars, accessVars>>
  \/ part = "forms" /\ Forms!Next
     /\ UNCHANGED <<part, storeVars, watcherVars, accountsVars, loginsVars, ratesVars, sessionsVars,
                  rolesVars, secretsVars, complianceVars, accessVars>>
  \/ part = "accounts" /\ Acc!Next
     /\ UNCHANGED <<part, storeVars, watcherVars, formsVars, loginsVars, ratesVars, sessionsVars,
                  rolesVars, secretsVars, complianceVars, accessVars>>
  \/ part = "logins" /\ Log!Next
     /\ UNCHANGED <<part, storeVars, watcherVars, formsVars, accountsVars, ratesVars, sessionsVars,
                  rolesVars, secretsVars, complianceVars, accessVars>>
  \/ part = "rates" /\ Rate!Next
     /\ UNCHANGED <<part, storeVars, watcherVars, formsVars, accountsVars, loginsVars, sessionsVars,
                  rolesVars, secretsVars, complianceVars, accessVars>>
  \/ part = "sessions" /\ Next
     /\ UNCHANGED <<part, storeVars, watcherVars, formsVars, accountsVars, loginsVars, ratesVars,
                  rolesVars, secretsVars, complianceVars, accessVars>>
  \/ part = "roles" /\ Roles!Next
     /\ UNCHANGED <<part, storeVars, watcherVars, formsVars, accountsVars, loginsVars, ratesVars,
                  sessionsVars, secretsVars, complianceVars, accessVars>>
  \/ part = "secrets" /\ Sec!Next
     /\ UNCHANGED <<part, storeVars, watcherVars, formsVars, accountsVars, loginsVars, ratesVars,
                  sessionsVars, rolesVars, complianceVars, accessVars>>
  \/ part = "compliance" /\ Comp!Next
     /\ UNCHANGED <<part, storeVars, watcherVars, formsVars, accountsVars, loginsVars, ratesVars,
                  sessionsVars, rolesVars, secretsVars, accessVars>>
  \/ part = "access" /\ Access!Next
     /\ UNCHANGED <<part, storeVars, watcherVars, formsVars, accountsVars, loginsVars, ratesVars,
                  sessionsVars, rolesVars, secretsVars, complianceVars>>

AllSpec == AllInit /\ [][AllNext]_allVars

(* The types of all components. *)
AllTypesOK ==
  /\ part = "store" => Store!TypeOK
  /\ part = "watcher" => Watcher!TypeOK
  /\ part = "forms" => Forms!TypeOK
  /\ part = "accounts" => Acc!TypeOK
  /\ part = "logins" => Log!TypeOK
  /\ part = "rates" => Rate!TypeOK
  /\ part = "sessions" => TypeOK
  /\ part = "roles" => Roles!TypeOK
  /\ part = "secrets" => Sec!TypeOK
  /\ part = "compliance" => Comp!TypeOK
  /\ part = "access" => Access!TypeOK

(* SsoProviders: a refused operation leaves the list as it was, and no      *)
(* credentials without a provider.  SsoWatcher: the providers in use are    *)
(* the stored ones, or a reason is known.                                   *)
SettingsAreUndone ==
  /\ part = "store" => Store!FailureIsUndone /\ Store!NoLeftoverCredentials
  /\ part = "watcher" => Watcher!StaleProvidersExplained

(* OidcLogin: whom no other login disturbs has the roles of the last login, *)
(* and one of each project.  AuthzCache: a request that no write disturbs   *)
(* is answered as the policy says, whichever spelling of the user the roles *)
(* were given to.                                                           *)
RolesDecide ==
  /\ part = "roles" => Roles!RolesAreOfLastLogin /\ Roles!OneRoleOfProject
  /\ part = "forms" => Forms!CalmAnswer

(* Accounts: replicas sign with the key that is stored, the password that   *)
(* works is the one the administrator can read, and a replica that set it   *)
(* accepts no earlier token.                                                *)
ReplicasAgree ==
  /\ part = "accounts" => Acc!SameKey /\ Acc!SamePassword /\ Acc!OwnChangeRejects

(* LoginLimit: only concurrent logins and outages of Redis exceed the       *)
(* limit.  RequestLimit: only requests that hold a replaced bucket exceed   *)
(* the burst.                                                               *)
LimitsHold ==
  /\ part = "logins" => Log!FailuresAreBounded
  /\ part = "rates" => Rate!BurstIsBounded

(* Secrets: a request works on secrets of its own project, undoes no other  *)
(* update, and a list that says nothing of more secrets is complete.        *)
SecretsAreGuarded ==
  /\ part = "secrets" => Sec!StaysInProject /\ Sec!NoLostChange /\ Sec!NothingOmitted

(* Compliance: every update to deny was confirmed by a token for it that    *)
(* only requests which read it together use twice; who lost the permission  *)
(* sees the own namespaces only.                                            *)
DenialsAreConfirmed ==
  /\ part = "compliance" => Comp!DenyIsConfirmed /\ Comp!TokensAreSingleUse /\ Comp!TokenFitsChange /\ Comp!ShowsOwnNamespaces

(* InstanceAccess: an instance is shown to those the policies grant it to.  *)
ShownIsGranted ==
  /\ part = "access" => Access!ShownIsGranted
=============================================================================
