----------------------------- MODULE OidcLogin -----------------------------
(***************************************************************************)
(* What a login through an identity provider makes of the user's groups.   *)
(*                                                                         *)
(* ExchangeCodeForToken (auth/oidc.go) takes the groups of the ID token,   *)
(* lets EvaluateOIDCUser (auth/provisioning.go) map them to roles and add  *)
(* the missing ones to Casbin, has AssignUserRoles replace the roles in    *)
(* Casbin and save them in Redis when there are any, and issues a token    *)
(* with what Casbin holds by then.  The locks of Casbin and of the policy  *)
(* enforcer cover single calls, so that two logins of one user interleave. *)
(*                                                                         *)
(* One user and one replica; a role is <<project, name>>, a global one     *)
(* <<Server, "admin">>.  AutoRoleBinder has no caller and is left out.     *)
(***************************************************************************)
EXTENDS Naturals, FiniteSets

CONSTANTS
  Login,      \* goroutines serving the callback
  Group,      \* groups of the identity provider with valid names
  Project, Server, None,
  MaxMapped,  \* bound: mappings in the configuration
  MaxMoves    \* bound: changes of the groups, restarts and failures

Rank    == [n \in {"platform-admin", "developer", "viewer"} |->
              IF n = "viewer" THEN 1 ELSE IF n = "developer" THEN 2 ELSE 3]
Admin   == <<Server, "admin">>
Role    == (Project \X DOMAIN Rank) \cup {Admin}
AnyName == "*"      \* a pattern that every group matches
Illegal == "?"      \* a group name that the pattern of names excludes
Mapping == {m \in [group : Group \cup {AnyName}, project : Project \cup {Server},
                    role : DOMAIN Rank \cup {"unknown"}] :
              m.project = Server => m.role = "unknown"}
Member  == Group \cup {Illegal}

VARIABLES
  mapping,     \* configuration: the group mappings
  defaultRole, \* configuration: the role of users whom no mapping matches
  idp,         \* identity provider: the groups of the user
  held,        \* Casbin: the roles of the user
  kept,        \* Redis: the roles saved for the user
  signon,      \* the login each goroutine works on
  jwt,         \* the token issued last: its roles and permissions
  entitled,    \* history: roles of the last login that had any
  spoilt,      \* history: logins overlapped or a call failed
  turns        \* moves spent

vars == <<mapping, defaultRole, idp, held, kept, signon, jwt, entitled, spoilt, turns>>
-----------------------------------------------------------------------------
(* Mapping groups to roles.                                                *)

Matches(m, G) == m.group \in G \/ (m.group = AnyName /\ G # {})

\* Mutant: every mapping adds its role, whatever the rank of the others.
AnyRole(p, G) ==
  {r \in Role : \E m \in mapping : Matches(m, G) /\ m.project = p /\ r = <<p, m.role>>}

(* EvaluateMappings, projects: of the roles for one project the highest.   *)
(* An unknown role name is skipped.                                        *)
HighestRole(p, G) ==
  {r \in Role :
     /\ \E m \in mapping : Matches(m, G) /\ m.project = p /\ r = <<p, m.role>>
     /\ \A m \in mapping :
          Matches(m, G) /\ m.project = p /\ m.role \in DOMAIN Rank => Rank[m.role] <= Rank[r[2]]}

(* EvaluateMappings: a mapping without project makes a server admin.       *)
Mapped(G) == (UNION {HighestRole(p, G) : p \in Project})
               \cup {r \in {Admin} : \E m \in mapping : Matches(m, G) /\ m.project = Server}

(* EvaluateOIDCUser: the default role only when no mapping matched.        *)
Evaluate(G) == IF Mapped(G) = {} /\ defaultRole # None THEN {defaultRole} ELSE Mapped(G)

(* computePermissions, the part that depends on the names of roles: what   *)
(* the interface may offer in a project.  It knows "admin", "developer",   *)
(* "viewer" and "readonly", not "platform-admin".                          *)
Offered(R) ==
  IF Admin \in R THEN Project \X {"view", "deploy"}
  ELSE {o \in Project \X {"view", "deploy"} :
          \/ <<o[1], "developer">> \in R
          \/ o[2] = "view" /\ <<o[1], "viewer">> \in R}
-----------------------------------------------------------------------------
Waiting == [at |-> "idle"]

Init ==
  /\ mapping \in {M \in SUBSET Mapping : Cardinality(M) <= MaxMapped}
  /\ defaultRole \in {None, Admin}
  /\ idp \in SUBSET Member
  /\ held = {} /\ kept = {} /\ signon = [q \in Login |-> Waiting]
  /\ jwt = None /\ entitled = {} /\ spoilt = FALSE /\ turns = 0

Others(q) == \E o \in Login \ {q} : signon[o] # Waiting

(* The ID token is verified and its groups read; ValidateOIDCGroups ends   *)
(* the login when a name is illegal, before anything has changed.          *)
Claim(q) ==
  /\ signon[q] = Waiting /\ Illegal \notin idp
  /\ signon' = [signon EXCEPT ![q] = [at |-> "add", roles |-> Evaluate(idp)]]
  /\ spoilt' = (spoilt \/ Others(q))
  /\ UNCHANGED <<mapping, defaultRole, idp, held, kept, jwt, entitled, turns>>

(* EvaluateOIDCUser: HasUserRole and AddUserRole, one role after another,  *)
(* the global ones first.                                                  *)
AddUserRole(q) ==
  /\ signon[q].at = "add"
  /\ \E r \in signon[q].roles \ held :
       /\ Admin \in signon[q].roles \ held => r = Admin
       /\ held' = held \cup {r}
  /\ UNCHANGED <<mapping, defaultRole, idp, kept, signon, jwt, entitled, spoilt, turns>>

(* All roles were found or added: persist them, or nothing to persist.     *)
Evaluated(q) ==
  /\ signon[q].at = "add" /\ signon[q].roles \subseteq held
  /\ signon' = [signon EXCEPT ![q].at = IF signon[q].roles = {} THEN "issue" ELSE "assign"]
  /\ UNCHANGED <<mapping, defaultRole, idp, held, kept, jwt, entitled, spoilt, turns>>

\* Mutant: the roles are added to those of earlier logins.
AssignAlso(q) ==
  /\ signon[q].at = "assign"
  /\ held' = held \cup signon[q].roles /\ entitled' = signon[q].roles
  /\ signon' = [signon EXCEPT ![q].at = "save"]
  /\ UNCHANGED <<mapping, defaultRole, idp, kept, jwt, spoilt, turns>>

(* assignUserRolesInCasbin: replaces the roles under the policy lock.      *)
AssignUserRoles(q) ==
  /\ signon[q].at = "assign"
  /\ held' = signon[q].roles /\ entitled' = signon[q].roles
  /\ signon' = [signon EXCEPT ![q].at = "save"]
  /\ UNCHANGED <<mapping, defaultRole, idp, kept, jwt, spoilt, turns>>

(* SaveUserRoles, after the lock; it logs a failure and returns nothing.   *)
SaveUserRoles(q) ==
  /\ signon[q].at = "save"
  /\ \/ kept' = signon[q].roles /\ spoilt' = spoilt /\ turns' = turns
     \/ turns < MaxMoves /\ turns' = turns + 1 /\ kept' = kept /\ spoilt' = TRUE
  /\ signon' = [signon EXCEPT ![q].at = "issue"]
  /\ UNCHANGED <<mapping, defaultRole, idp, held, jwt, entitled>>

(* GenerateTokenWithGroups: the token carries what Casbin holds now.       *)
Issue(q) ==
  /\ signon[q].at = "issue"
  /\ jwt' = [roles |-> held, offers |-> Offered(held)]
  /\ signon' = [signon EXCEPT ![q] = Waiting]
  /\ UNCHANGED <<mapping, defaultRole, idp, held, kept, entitled, spoilt, turns>>

(* An administrator of the identity provider changes the user's groups.    *)
Regroup ==
  /\ turns < MaxMoves /\ turns' = turns + 1
  /\ \E G \in SUBSET Member : G # idp /\ idp' = G
  /\ UNCHANGED <<mapping, defaultRole, held, kept, signon, jwt, entitled, spoilt>>

(* The server restarts: Casbin is restored from Redis, logins are cut off. *)
Reboot ==
  /\ turns < MaxMoves /\ turns' = turns + 1
  /\ held' = kept /\ signon' = [q \in Login |-> Waiting]
  /\ spoilt' = (spoilt \/ \E q \in Login : signon[q] # Waiting)
  /\ UNCHANGED <<mapping, defaultRole, idp, kept, jwt, entitled>>

Step(q) == Claim(q) \/ AddUserRole(q) \/ Evaluated(q) \/ AssignUserRoles(q)
             \/ SaveUserRoles(q) \/ Issue(q)
Next == Regroup \/ Reboot \/ \E q \in Login : Step(q)

Spec == Init /\ [][Next]_vars
-----------------------------------------------------------------------------
(* Roles, logins and tokens have the shapes the code gives them.           *)
TypeOK ==
  /\ mapping \subseteq Mapping /\ defaultRole \in {None, Admin}
  /\ idp \subseteq Member
  /\ held \subseteq Role /\ kept \subseteq Role /\ entitled \subseteq Role
  /\ \A q \in Login : signon[q] = Waiting \/ (signon[q].at \in {"add", "assign", "save", "issue"} /\ signon[q].roles \subseteq Role)
  /\ jwt = None \/ (jwt.roles \subseteq Role /\ jwt.offers \subseteq Project \X {"view", "deploy"})
  /\ spoilt \in BOOLEAN /\ turns \in 0..MaxMoves

(* Casbin, Redis and the token issued last hold the roles of the last      *)
(* login that had any, unless logins overlapped or a call failed: the user *)
(* of a lost group loses its roles at the next login that maps to          *)
(* something, and a restart brings no older ones back.  (A login that maps *)
(* to nothing takes nothing away.)                                         *)
RolesAreOfLastLogin ==
  \/ spoilt \/ \E q \in Login : signon[q] # Waiting
  \/ /\ held = entitled /\ kept = entitled
     /\ jwt = None \/ (jwt.roles = entitled /\ jwt.offers = Offered(entitled))

(* A user in several groups gets one role of a project, and none that one  *)
(* of the groups would have raised.                                        *)
OneRoleOfProject ==
  \A q \in Login : signon[q] # Waiting =>
    \A r, s \in signon[q].roles : r[1] = s[1] => r = s
=============================================================================
