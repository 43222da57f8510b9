---------------------------- MODULE SsoProviders ----------------------------
(***************************************************************************)
(* The store of the single sign-on providers (sso/provider_store.go) and   *)
(* the handlers that administrators call (api/handlers/sso_settings.go):    *)
(* the configurations are one list in a ConfigMap, the credentials are keys *)
(* of a Secret, and an operation writes one after the other, undoing the    *)
(* first write when the second fails.  SsoWatcher reads what is stored.     *)
(*                                                                         *)
(* A configuration is its authentication method ("absent" when the list has *)
(* none of that name), the credentials of a provider are the keys the       *)
(* Secret has for it.  An Update of an object is checked against the Get    *)
(* just before it, so that pair is one step that may fail.                  *)
(***************************************************************************)
EXTENDS Naturals, FiniteSets

CONSTANTS Name, Admin, Method,
          MaxOps       \* bound: operations of administrators

VARIABLES configs, keys,      \* the ConfigMap and the Secret
          op,                 \* what each administrator does
          ops, tangled        \* bound; two operations met, or one could not be undone

vars == <<configs, keys, op, ops, tangled>>
store == <<configs, keys>>

Conf == Method \cup {"absent"}
Credentials == {{}, {"id"}, {"id", "secret"}}
NoOp == [at |-> "idle"]
Busy == {a \in Admin : op[a].at # "idle"}

Init ==
  /\ \E here \in SUBSET Name :
       /\ configs = [n \in Name |-> IF n \in here THEN "basic" ELSE "absent"]
       /\ keys = [n \in Name |-> IF n \in here THEN {"id", "secret"} ELSE {}]
  /\ op = [a \in Admin |-> NoOp]
  /\ ops = 0
  /\ tangled = FALSE

(* The handlers check the request, the store reads the list (readConfigs) and *)
(* looks for the name; what is refused here changes nothing.  The secret is    *)
(* asked for only when a provider is created.                                  *)
ValidRequest(kind, m, cred) ==
  kind = "create" => "id" \in cred /\ (m = "basic" => "secret" \in cred)

Begin(a, kind, n, m, cred) ==
  /\ op[a].at = "idle"
  /\ ops < MaxOps
  /\ op' = [op EXCEPT ![a] = [at |-> "writes", kind |-> kind, name |-> n, cred |-> cred,
                             read |-> configs, list |-> [configs EXCEPT ![n] = m]]]
  /\ ops' = ops + 1
  /\ tangled' = (tangled \/ Busy # {})
  /\ UNCHANGED store

CreateProvider(a, n, m, cred) ==
  /\ ValidRequest("create", m, cred)
  /\ configs[n] = "absent"
  /\ Begin(a, "create", n, m, cred)

UpdateProvider(a, n, m, cred) ==
  /\ ValidRequest("update", m, cred)
  /\ configs[n] # "absent"
  /\ Begin(a, "update", n, m, cred)

DeleteProvider(a, n) ==
  /\ configs[n] # "absent"
  /\ Begin(a, "delete", n, "absent", {})

(* writeConfigs: whatever was written since the list was read is overwritten. *)
WriteConfigs(a) ==
  /\ op[a].at = "writes"
  /\ configs' = op[a].list
  /\ op' = [op EXCEPT ![a].at = IF op[a].kind = "update" /\ op[a].list[op[a].name] = "public"
                                THEN "drops" ELSE "credits"]
  /\ UNCHANGED <<keys, ops, tangled>>

WriteConfigsFails(a) ==
  /\ op[a].at = "writes"
  /\ op' = [op EXCEPT ![a].at = "failed"]
  /\ UNCHANGED <<store, ops, tangled>>

(* deleteSecretKey when an update turns the provider into a public client. *)
DropSecretKey(a) ==
  /\ op[a].at = "drops"
  /\ keys' = [keys EXCEPT ![op[a].name] = @ \ {"secret"}]
  /\ op' = [op EXCEPT ![a].at = "credits"]
  /\ UNCHANGED <<configs, ops, tangled>>

(* writeSecretKeys adds what was given; removeSecretKeys takes both keys.    *)
(* An update without credentials does not touch the Secret.                  *)
\* Mutant: the client secret of a public client is kept.
GivenAsIs(a) == op[a].cred

Given(a) == IF op[a].list[op[a].name] = "public" THEN op[a].cred \ {"secret"}
                                                ELSE op[a].cred
Credit(a) ==
  /\ op[a].at = "credits"
  /\ op' = [op EXCEPT ![a] = NoOp]
  /\ IF op[a].kind # "delete" /\ Given(a) = {}
     THEN UNCHANGED keys
     ELSE keys' = [keys EXCEPT ![op[a].name] =
                     IF op[a].kind = "delete" THEN {} ELSE @ \cup Given(a)]
  /\ UNCHANGED <<configs, ops, tangled>>

SecretFails(a) ==
  /\ op[a].at \in {"drops", "credits"}
  /\ op[a].kind = "update" /\ op[a].at = "credits" => Given(a) # {}
  /\ op' = [op EXCEPT ![a].at = "undoes"]
  /\ UNCHANGED <<store, ops, tangled>>

\* Mutant: the rollback writes the list that has the change in it.
RollBackToList(a) ==
  /\ op[a].at = "undoes"
  /\ configs' = op[a].list
  /\ op' = [op EXCEPT ![a].at = "failed"]
  /\ UNCHANGED <<keys, ops, tangled>>

(* The rollback writes the list that was read at the beginning. *)
RollBack(a) ==
  /\ op[a].at = "undoes"
  /\ configs' = op[a].read
  /\ op' = [op EXCEPT ![a].at = "failed"]
  /\ UNCHANGED <<keys, ops, tangled>>

RollBackFails(a) ==
  /\ op[a].at = "undoes"
  /\ op' = [op EXCEPT ![a].at = "failed"]
  /\ tangled' = TRUE
  /\ UNCHANGED <<store, ops>>

AnswerFailure(a) ==
  /\ op[a].at = "failed"
  /\ op' = [op EXCEPT ![a] = NoOp]
  /\ UNCHANGED <<store, ops, tangled>>

AdminStep(a) ==
  \/ \E n \in Name, m \in Method, cred \in Credentials :
        CreateProvider(a, n, m, cred) \/ UpdateProvider(a, n, m, cred)
  \/ \E n \in Name : DeleteProvider(a, n)
  \/ WriteConfigs(a) \/ WriteConfigsFails(a)
  \/ DropSecretKey(a) \/ Credit(a) \/ SecretFails(a)
  \/ RollBack(a) \/ RollBackFails(a) \/ AnswerFailure(a)

Next == \E a \in Admin : AdminStep(a)

Spec == Init /\ [][Next]_vars

-----------------------------------------------------------------------------
TypeOK ==
  /\ configs \in [Name -> Conf] /\ keys \in [Name -> SUBSET {"id", "secret"}]
  /\ \A a \in Admin : op[a].at \in {"idle", "writes", "drops", "credits", "undoes", "failed"}
  /\ ops \in 0 .. MaxOps /\ tangled \in BOOLEAN

(* An operation that is refused, with no other administrator at work, leaves  *)
(* the list as the operation found it.                                        *)
FailureIsUndone == \A a \in Admin : op[a].at = "failed" /\ ~tangled => configs = op[a].read

(* Between operations the Secret holds credentials of configured providers    *)
(* only, and no client secret of a public client.                             *)
NoLeftoverCredentials ==
  Busy = {} /\ ~tangled =>
    \A n \in Name : /\ configs[n] = "absent" => keys[n] = {}
                    /\ configs[n] = "public" => "secret" \notin keys[n]
=============================================================================
