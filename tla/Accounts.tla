------------------------------ MODULE Accounts ------------------------------
(***************************************************************************)
(* The local accounts (auth/account_store.go), the startup of the service  *)
(* that uses them (bootstrap/admin_password.go, NewService) and the check   *)
(* of a token against the time of the last password change.                *)
(*                                                                         *)
(* The accounts are listed in a ConfigMap, the signing key and the password *)
(* with its time are in a Secret, and every replica keeps the accounts it   *)
(* loaded last.  A generated key or password is named by the replica that   *)
(* generated it.  Only the administrator's password is set by the code.     *)
(* Every Update carries the version of the Secret that was read.            *)
(***************************************************************************)
EXTENDS Naturals

CONSTANTS Replica, Account, Admin,
          CacheTTL,
          MaxTime, MaxEvents                \* bounds: time; starts and edits

VARIABLES listed,                 \* the ConfigMap of accounts
          initial, secret,        \* the two Secrets
          rep,                    \* the replicas
          issued,                 \* the token each user holds: its time of issue, 0 when none
          clock, events

vars == <<listed, initial, secret, rep, issued, clock, events>>
cluster == <<listed, initial, secret>>

NoAccounts == [n \in Account |-> "absent"]
Down == [at |-> "down", boot |-> TRUE, pw |-> "none", key |-> "none", ver |-> 0,
         list |-> NoAccounts, mtime |-> 0, loaded |-> 0, setAt |-> 0]

Init ==
  /\ listed = NoAccounts
  /\ initial = "none"
  /\ \E made \in BOOLEAN :
       secret = [made |-> made, key |-> "none", pw |-> "none", mtime |-> 0, ver |-> 0]
  /\ rep = [r \in Replica |-> Down]
  /\ issued = [n \in Account |-> 0]
  /\ clock = 1 /\ events = 0

Goes(r, here, to) == rep[r].at = here /\ rep' = [rep EXCEPT ![r].at = to]
Calm == UNCHANGED <<issued, clock, events>>

Exit(r) == rep' = [rep EXCEPT ![r] = Down]

(* GetOrCreateAdminPassword: the stored password, or a new one that is created. *)
Boot(r) ==
  /\ rep[r].at = "down"
  /\ events < MaxEvents
  /\ events' = events + 1
  /\ rep' = [rep EXCEPT ![r] = [Down EXCEPT !.pw = initial,
                                           !.at = IF initial = "none" THEN "mint" ELSE "key"]]
  /\ UNCHANGED <<listed, initial, secret, issued, clock>>

\* Mutant: the Secret of another replica is overwritten.
CreateInitialAnyway(r) ==
  /\ rep[r].at = "mint"
  /\ initial' = r /\ rep' = [rep EXCEPT ![r].at = "key", ![r].pw = r]
  /\ UNCHANGED <<listed, secret>> /\ Calm

(* The Create of the second of two replicas fails, and the process exits. *)
CreateInitial(r) ==
  /\ rep[r].at = "mint"
  /\ IF initial = "none"
     THEN initial' = r /\ rep' = [rep EXCEPT ![r].at = "key", ![r].pw = r]
     ELSE Exit(r) /\ UNCHANGED initial
  /\ UNCHANGED <<listed, secret>> /\ Calm

(* GetServerSecretKey. *)
ReadKey(r) ==
  /\ rep[r].at = "key"
  /\ rep' = [rep EXCEPT ![r].key = secret.key,
                        ![r].ver = IF secret.key = "none" THEN secret.ver ELSE 0,
                        ![r].at = CASE ~secret.made -> "make"
                                    [] secret.made /\ secret.key = "none" -> "generate"
                                    [] OTHER -> "set"]
  /\ UNCHANGED cluster /\ Calm

(* createDefaultSecret: that it exists already is no error; it is read again. *)
CreateSecret(r) ==
  /\ Goes(r, "make", "key")
  /\ secret' = IF secret.made THEN secret ELSE [secret EXCEPT !.made = TRUE, !.key = r]
  /\ UNCHANGED <<listed, initial>> /\ Calm

\* Mutant: the key is written whatever was written since the read.
GenerateKeyUnchecked(r) ==
  /\ rep[r].at = "generate"
  /\ secret' = [secret EXCEPT !.key = r, !.ver = @ + 1]
  /\ rep' = [rep EXCEPT ![r].key = r, ![r].ver = 0, ![r].at = "set"]
  /\ UNCHANGED <<listed, initial>> /\ Calm

GenerateKey(r) ==
  /\ rep[r].at = "generate"
  /\ IF secret.ver = rep[r].ver
     THEN /\ secret' = [secret EXCEPT !.key = r, !.ver = @ + 1]
          /\ rep' = [rep EXCEPT ![r].key = r, ![r].ver = 0, ![r].at = "set"]
     ELSE Exit(r) /\ UNCHANGED secret
  /\ UNCHANGED <<listed, initial>> /\ Calm

(* SetPassword reads the Secret and updates it; an error is logged and the   *)
(* startup goes on.                                                           *)
ReadForPassword(r) ==
  /\ rep[r].at = "set"
  /\ rep' = [rep EXCEPT ![r].ver = secret.ver, ![r].at = "update"]
  /\ UNCHANGED cluster /\ Calm

\* Mutant: the time of the change is not written.
SetPasswordNoTime(r) ==
  /\ rep[r].at = "update" /\ secret.ver = rep[r].ver
  /\ secret' = [secret EXCEPT !.pw = rep[r].pw, !.ver = @ + 1]
  /\ rep' = [rep EXCEPT ![r].at = "load", ![r].ver = 0, ![r].setAt = clock]
  /\ UNCHANGED <<listed, initial>> /\ Calm

SetPassword(r) ==
  /\ rep[r].at = "update" /\ secret.ver = rep[r].ver
  /\ secret' = [secret EXCEPT !.pw = rep[r].pw, !.mtime = clock, !.ver = @ + 1]
  /\ rep' = [rep EXCEPT ![r].at = "load", ![r].ver = 0, ![r].setAt = clock]
  /\ UNCHANGED <<listed, initial>> /\ Calm

SetPasswordFails(r) ==
  /\ Goes(r, "update", "load")
  /\ UNCHANGED cluster /\ Calm

(* LoadAccounts holds the lock of the cache while it reads the ConfigMap, made *)
(* with the administrator when there is none, and then the Secret.            *)
ReadList(r) ==
  /\ rep[r].at = "load"
  /\ LET found == IF listed = NoAccounts THEN [listed EXCEPT ![Admin] = "on"] ELSE listed
     IN /\ listed' = found
        /\ rep' = [rep EXCEPT ![r].at = "fill", ![r].list = found]
  /\ UNCHANGED <<initial, secret>> /\ Calm

Fill(r) ==
  /\ rep[r].at = "fill"
  /\ rep' = [rep EXCEPT ![r].at = "up", ![r].boot = FALSE, ![r].pw = secret.pw,
                        ![r].mtime = secret.mtime, ![r].loaded = clock]
  /\ UNCHANGED cluster /\ Calm

(* A replica that cannot load the accounts does not start. *)
LoadFails(r) ==
  /\ rep[r].at = "load" /\ rep[r].boot
  /\ Exit(r)
  /\ UNCHANGED cluster /\ Calm

(* GetAccount reloads only for an account it does not have, when the TTL is over. *)
MissesAccount(r, n) ==
  /\ rep[r].list[n] = "absent"
  /\ clock - rep[r].loaded > CacheTTL
  /\ Goes(r, "up", "load")
  /\ UNCHANGED cluster /\ Calm

CanLogin(r, n) == rep[r].at = "up" /\ rep[r].list[n] = "on"

AuthenticateLocal(r, n) ==
  /\ CanLogin(r, n)
  /\ n = Admin => rep[r].pw # "none"      \* a password has been set
  /\ issued' = [issued EXCEPT ![n] = clock]
  /\ UNCHANGED <<cluster, rep, clock, events>>

(* ValidateToken, the part about local accounts: only the administrator's     *)
(* password has a time.                                                        *)
IsTokenValid(r, n, iat) ==
  /\ rep[r].at = "up"
  /\ rep[r].list[n] # "absent"
  /\ n = Admin => iat >= rep[r].mtime

Crash(r) ==
  /\ rep[r].at # "down"
  /\ Exit(r)
  /\ UNCHANGED cluster /\ Calm

EditAccount(n, to) ==
  /\ events < MaxEvents
  /\ events' = events + 1
  /\ listed # NoAccounts
  /\ listed' = [listed EXCEPT ![n] = to]
  /\ UNCHANGED <<initial, secret, rep, issued, clock>>

Tick ==
  /\ clock < MaxTime
  /\ clock' = clock + 1
  /\ UNCHANGED <<cluster, rep, issued, events>>

StartStep(r) ==
  \/ Boot(r) \/ CreateInitial(r) \/ ReadKey(r) \/ CreateSecret(r) \/ GenerateKey(r)
  \/ ReadForPassword(r) \/ SetPassword(r) \/ SetPasswordFails(r)
  \/ ReadList(r) \/ Fill(r) \/ LoadFails(r) \/ Crash(r)

Next ==
  \/ \E r \in Replica : StartStep(r)
  \/ \E r \in Replica, n \in Account : MissesAccount(r, n) \/ AuthenticateLocal(r, n)
  \/ \E n \in Account \ {Admin}, to \in {"absent", "on", "off"} : EditAccount(n, to)
  \/ Tick

Spec == Init /\ [][Next]_vars

-----------------------------------------------------------------------------
TypeOK ==
  /\ listed \in [Account -> {"absent", "on", "off"}]
  /\ initial \in Replica \cup {"none"}
  /\ secret.key \in Replica \cup {"none"} /\ secret.mtime \in 0 .. MaxTime
  /\ \A r \in Replica :
       rep[r].at \in {"down", "mint", "key", "make", "generate", "set", "update", "load",
                      "fill", "up"}
  /\ issued \in [Account -> 0 .. MaxTime]
  /\ clock \in 1 .. MaxTime /\ events \in 0 .. MaxEvents

(* All replicas sign and check tokens with the one key that is stored,        *)
(* whichever of them generated it and however their startups interleave.      *)
SameKey ==
  \A r \in Replica : rep[r].at \in {"set", "update", "load", "fill", "up"} => rep[r].key = secret.key

(* The password that works is the one the administrator can read.             *)
SamePassword == secret.pw # "none" => secret.pw = initial

(* A replica that set the password while it started accepts no token of the   *)
(* administrator that was issued before.                                      *)
OwnChangeRejects ==
  \A r \in Replica : \A iat \in {issued[Admin]} \ {0} :
    IsTokenValid(r, Admin, iat) => iat >= rep[r].setAt
=============================================================================
