----------------------------- MODULE LoginLimit -----------------------------
(***************************************************************************)
(* The limit of failed logins of one source address (auth/account_store.go, *)
(* ValidatePassword): the failed attempts of the window are kept in Redis,  *)
(* or in the memory of the replica whenever Redis does not answer within     *)
(* 200 ms.  The limit is checked before the password is compared (bcrypt,    *)
(* slow on purpose) and the failure is recorded after it.                    *)
(***************************************************************************)
EXTENDS Naturals, FiniteSets

CONSTANTS Server, Login,      \* replicas; concurrent logins from the address
          MaxAttempts,
          MaxOutages          \* bound: commands Redis does not answer

VARIABLES attempts,           \* failed attempts of the window, per store
          login,              \* what each login does
          outages,
          slips               \* per store: failures that another store had let pass

vars == <<attempts, login, outages, slips>>

Store == {"redis"} \cup Server
NoLogin == [at |-> "idle"]

Init ==
  /\ attempts = [s \in Store |-> 0]
  /\ login = [q \in Login |-> NoLogin]
  /\ outages = 0
  /\ slips = [s \in Store |-> 0]

(* Redis answers, or the memory of the replica does: decided per command. *)
AnsweredBy(server, s) ==
  \/ s = "redis" /\ UNCHANGED outages
  \/ s = server /\ outages < MaxOutages /\ outages' = outages + 1

\* Mutant: one attempt too many.
IsLimitedLate(s) == attempts[s] > MaxAttempts

IsLimited(s) == attempts[s] >= MaxAttempts

CheckRateLimit(q, server, s) ==
  /\ login[q].at = "idle"
  /\ AnsweredBy(server, s)
  /\ ~IsLimited(s)
  /\ login' = [login EXCEPT ![q] = [at |-> "compares", server |-> server, by |-> s]]
  /\ UNCHANGED <<attempts, slips>>

Refuse(q, server, s) ==
  /\ login[q].at = "idle"
  /\ AnsweredBy(server, s)
  /\ IsLimited(s)
  /\ UNCHANGED <<attempts, login, slips>>

(* No such account, an account that may not log in, or the wrong password. *)
RecordFailedAttempt(q, s) ==
  /\ login[q].at = "compares"
  /\ AnsweredBy(login[q].server, s)
  /\ attempts' = [attempts EXCEPT ![s] = @ + 1]
  /\ slips' = IF login[q].by = s THEN slips ELSE [slips EXCEPT ![s] = @ + 1]
  /\ login' = [login EXCEPT ![q] = NoLogin]

ClearFailedAttempts(q, s) ==
  /\ login[q].at = "compares"
  /\ AnsweredBy(login[q].server, s)
  /\ attempts' = [attempts EXCEPT ![s] = 0]
  /\ slips' = [slips EXCEPT ![s] = 0]
  /\ login' = [login EXCEPT ![q] = NoLogin]

(* The oldest attempt leaves the window. *)
AttemptExpires(s) ==
  /\ attempts[s] > 0
  /\ attempts' = [attempts EXCEPT ![s] = @ - 1]
  /\ slips' = IF attempts[s] = 1 THEN [slips EXCEPT ![s] = 0] ELSE slips
  /\ UNCHANGED <<login, outages>>

LoginStep(q) ==
  \/ \E server \in Server, s \in Store : CheckRateLimit(q, server, s) \/ Refuse(q, server, s)
  \/ \E s \in Store : RecordFailedAttempt(q, s) \/ ClearFailedAttempts(q, s)

Next ==
  \/ \E q \in Login : LoginStep(q)
  \/ \E s \in Store : AttemptExpires(s)

Spec == Init /\ [][Next]_vars

-----------------------------------------------------------------------------
TypeOK ==
  /\ DOMAIN attempts = Store /\ DOMAIN slips = Store
  /\ \A q \in Login : login[q].at \in {"idle", "compares"}
  /\ outages \in 0 .. MaxOutages

Comparing(s) == {q \in Login : login[q].at = "compares" /\ login[q].by = s}

(* Logins that are compared at the same time may exceed the limit, each by    *)
(* one, and so may every failure that is recorded in a store other than the   *)
(* one that let the login pass; nothing else does.                            *)
FailuresAreBounded ==
  \A s \in Store :
    attempts[s] + Cardinality(Comparing(s)) <= MaxAttempts - 1 + Cardinality(Login) + slips[s]
=============================================================================
