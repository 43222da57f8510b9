----------------------------- MODULE Compliance -----------------------------
(***************************************************************************)
(* The constraints of Gatekeeper (handlers/compliance_handler.go): reads and     *)
(* writes need a licence and a permission, and a change to "deny" needs a token    *)
(* that an earlier request for the same change was answered with.  The token is    *)
(* kept in Redis; the service behind the handlers is part of the enterprise build. *)
(***************************************************************************)
EXTENDS Naturals, FiniteSets

CONSTANTS Request, Constraint, Namespace,
          MaxTokens,          \* bound: tokens given out
          MaxChanges,         \* bound: licence and permission changes, faults, other clients
          None

Action == {"deny", "warn"}    \* "dryrun" is treated as "warn" is
License == {"valid", "readonly", "none"}   \* the grace period counts as valid
Token == 1..MaxTokens

VARIABLES enforced,           \* per constraint: None or its action
          license, enabled,   \* what the licence permits, whether Gatekeeper is there
          permitted,          \* the permissions "compliance/*" of the callers
          visible,            \* the namespaces of the projects they have access to
          tokens,             \* per token: None, or what it is for, or "expired"
          last,               \* the last token given out
          call,               \* per request: None or how far it is
          uses,               \* per token: the updates it has confirmed
          doubted,            \* tokens that two requests had read before one consumed it
          unlicensed,         \* something was written by a request that came without licence
          unconfirmed,        \* an update to "deny" that no token confirmed
          leaked,             \* violations were shown outside the namespaces of the caller
          slips

gatekeeper == <<enforced, enabled>>
rights == <<license, permitted, visible>>
ghosts == <<uses, doubted, unlicensed, unconfirmed, leaked>>
vars == <<enforced, license, enabled, permitted, visible, tokens, last, call, ghosts, slips>>

Init ==
  /\ enforced \in [Constraint -> Action \cup {None}]
  /\ license = "valid" /\ enabled = TRUE
  /\ permitted = {"get", "create", "update"} /\ visible = {}
  /\ tokens = [t \in Token |-> None] /\ last = 0
  /\ call = [q \in Request |-> None]
  /\ uses = [t \in Token |-> 0] /\ doubted = {}
  /\ unlicensed = FALSE /\ unconfirmed = FALSE /\ leaked = FALSE /\ slips = 0

Slip == slips < MaxChanges /\ slips' = slips + 1
Stay(q, c) == call' = [call EXCEPT ![q] = c]
Finish(q) == Stay(q, None)

(* checkLicenseAccess: an expired licence still permits reading.                       *)
Licensed(write) == enabled /\ (license = "valid" \/ (license = "readonly" /\ ~write))

-----------------------------------------------------------------------------
(* A request passes the licence and its permission; the others end here.               *)
BeginUpdate(q) ==
  /\ call[q] = None /\ Licensed(TRUE) /\ "update" \in permitted
  /\ \E c \in Constraint, a \in Action, t \in {0} \cup 1..last :
       Stay(q, [at |-> "get", of |-> c, to |-> a, token |-> t, licensed |-> license = "valid"])
  /\ UNCHANGED <<gatekeeper, rights, tokens, last, ghosts, slips>>

BeginCreate(q) ==
  /\ call[q] = None /\ Licensed(TRUE) /\ "create" \in permitted
  /\ \E c \in Constraint, a \in Action :
       Stay(q, [at |-> "create", of |-> c, to |-> a, token |-> 0, licensed |-> license = "valid"])
  /\ UNCHANGED <<gatekeeper, rights, tokens, last, ghosts, slips>>

\* Mutant: only a change from "dryrun" counts as an escalation.
IsEscalationOfKnown(old, new) == new = "deny" /\ old = "dryrun"

IsEscalation(old, new) == new = "deny" /\ old # "deny"

(* What a request does after it has read the constraint: nothing when it is gone or has the  *)
(* action already, a token to confirm an escalation with, or the next step.              *)
ReadConstraint(q) ==
  /\ call[q] # None /\ call[q].at = "get"
  /\ LET c == call[q]
         old == enforced[c.of]
     IN \/ (old = None \/ old = c.to) /\ Finish(q) /\ UNCHANGED <<tokens, last>>
        \/ /\ old # None /\ old # c.to /\ ~IsEscalation(old, c.to)
           /\ Stay(q, [c EXCEPT !.at = "write"]) /\ UNCHANGED <<tokens, last>>
        \/ /\ old # None /\ IsEscalation(old, c.to) /\ c.token = 0 /\ last < MaxTokens
           /\ last' = last + 1 /\ tokens' = [tokens EXCEPT ![last + 1] = c.of] /\ Finish(q)
        \/ /\ old # None /\ IsEscalation(old, c.to) /\ c.token # 0
           /\ Stay(q, [c EXCEPT !.at = "confirm"]) /\ UNCHANGED <<tokens, last>>
  /\ UNCHANGED <<gatekeeper, rights, ghosts, slips>>

\* Mutant: what the token is for is not compared.
ConfirmAnything(q) ==
  /\ call[q] # None /\ call[q].at = "confirm"
  /\ IF tokens[call[q].token] \notin Constraint THEN Finish(q)
     ELSE Stay(q, [call[q] EXCEPT !.at = "consume"])
  /\ UNCHANGED <<gatekeeper, rights, tokens, last, ghosts, slips>>

(* validateAndConsumeConfirmationToken: a GET, and a DEL only when the token is for this     *)
(* very change.                                                                   *)
ReadToken(q) ==
  /\ call[q] # None /\ call[q].at = "confirm"
  /\ IF tokens[call[q].token] # call[q].of THEN Finish(q)
     ELSE Stay(q, [call[q] EXCEPT !.at = "consume"])
  /\ UNCHANGED <<gatekeeper, rights, tokens, last, ghosts, slips>>

\* Mutant: the token is not deleted.
KeepToken(q) ==
  /\ call[q] # None /\ call[q].at = "consume"
  /\ Stay(q, [call[q] EXCEPT !.at = "write"])
  /\ UNCHANGED <<gatekeeper, rights, tokens, last, ghosts, slips>>

ConsumeToken(q) ==
  /\ call[q] # None /\ call[q].at = "consume"
  /\ LET t == call[q].token
     IN /\ tokens' = [tokens EXCEPT ![t] = None]
        /\ doubted' = IF \E r \in Request \ {q} : call[r] # None /\ call[r].at = "consume"
                                                   /\ call[r].token = t
                      THEN doubted \cup {t} ELSE doubted
  /\ Stay(q, [call[q] EXCEPT !.at = "write"])
  /\ UNCHANGED <<gatekeeper, rights, last, uses, unlicensed, unconfirmed, leaked, slips>>

(* Redis or the service fails, or Kubernetes forbids the write: an error, and a token that    *)
(* was consumed is lost.                                                            *)
Fail(q) ==
  /\ call[q] # None /\ Slip /\ Finish(q)
  /\ UNCHANGED <<gatekeeper, rights, tokens, last, ghosts>>

WriteEnforcement(q) ==
  /\ call[q] # None /\ call[q].at = "write" /\ Finish(q)
  /\ LET c == call[q]
     IN IF enforced[c.of] = None THEN UNCHANGED <<enforced, ghosts>>
        ELSE /\ enforced' = [enforced EXCEPT ![c.of] = c.to]
             /\ uses' = IF c.token = 0 \/ c.to # "deny" THEN uses
                        ELSE [uses EXCEPT ![c.token] = @ + 1]
             /\ unlicensed' = (unlicensed \/ ~c.licensed)
             /\ unconfirmed' = (unconfirmed \/ (c.to = "deny" /\ c.token = 0))
             /\ UNCHANGED <<doubted, leaked>>
  /\ UNCHANGED <<enabled, rights, tokens, last, slips>>

(* CreateConstraint: a new constraint may have "deny" at once.                          *)
CreateConstraint(q) ==
  /\ call[q] # None /\ call[q].at = "create" /\ Finish(q)
  /\ LET c == call[q]
     IN IF enforced[c.of] # None THEN UNCHANGED <<enforced, unlicensed>>
        ELSE /\ enforced' = [enforced EXCEPT ![c.of] = c.to]
             /\ unlicensed' = (unlicensed \/ ~c.licensed)
  /\ UNCHANGED <<enabled, rights, tokens, last, uses, doubted, unconfirmed, leaked, slips>>

(* ListViolations: permitted when it begins, and filtered by what the policies say then.     *)
BeginList(q) ==
  /\ call[q] = None /\ Licensed(FALSE) /\ "get" \in permitted
  /\ Stay(q, [at |-> "list", of |-> None, to |-> None, token |-> 0, licensed |-> TRUE])
  /\ UNCHANGED <<gatekeeper, rights, tokens, last, ghosts, slips>>

\* Mutant: the permission of the beginning is enough.
ShowAll == Namespace

(* filterViolationsByAccess.                                                         *)
Shown == IF "get" \in permitted THEN Namespace ELSE visible

ListViolations(q) ==
  /\ call[q] # None /\ call[q].at = "list" /\ Finish(q)
  /\ leaked' = (leaked \/ ("get" \notin permitted /\ ~(Shown \subseteq visible)))
  /\ UNCHANGED <<gatekeeper, rights, tokens, last, uses, doubted, unlicensed, unconfirmed, slips>>

-----------------------------------------------------------------------------
(* Tokens expire; licences, permissions, projects and Gatekeeper come and go; another client   *)
(* changes or deletes a constraint.                                                    *)
Expire == /\ \E t \in Token : tokens[t] # None /\ tokens' = [tokens EXCEPT ![t] = None]
          /\ UNCHANGED <<gatekeeper, rights, last, call, ghosts, slips>>

Change ==
  /\ Slip
  /\ \/ \E l \in License \ {license} : license' = l /\ UNCHANGED <<gatekeeper, permitted, visible>>
     \/ enabled' = ~enabled /\ UNCHANGED <<enforced, rights>>
     \/ \E p \in SUBSET {"get", "create", "update"} :
          permitted' = p /\ UNCHANGED <<gatekeeper, license, visible>>
     \/ \E v \in SUBSET Namespace : visible' = v /\ UNCHANGED <<gatekeeper, license, permitted>>
     \/ \E c \in Constraint, a \in Action \cup {None} :
          enforced' = [enforced EXCEPT ![c] = a] /\ UNCHANGED <<enabled, rights>>
  /\ UNCHANGED <<tokens, last, call, ghosts>>

Next ==
  \/ \E q \in Request :
       \/ BeginUpdate(q) \/ BeginCreate(q) \/ ReadConstraint(q) \/ ReadToken(q) \/ ConsumeToken(q)
       \/ WriteEnforcement(q) \/ CreateConstraint(q) \/ BeginList(q) \/ ListViolations(q) \/ Fail(q)
  \/ Expire \/ Change

Spec == Init /\ [][Next]_vars

-----------------------------------------------------------------------------
Calls == [at : {"get", "create", "confirm", "consume", "write", "list"},
          of : Constraint \cup {None}, to : Action \cup {None}, token : 0..MaxTokens,
          licensed : BOOLEAN]

TypeOK ==
  /\ enforced \in [Constraint -> Action \cup {None}]
  /\ license \in License /\ enabled \in BOOLEAN
  /\ tokens \in [Token -> Constraint \cup {None}] /\ last \in 0..MaxTokens
  /\ call \in [Request -> Calls \cup {None}]
  /\ slips \in 0..MaxChanges

(* An update to "deny" was confirmed, whatever happened to the constraint since it was read   *)
(* ("Escalation to deny requires a two-phase confirmation", UpdateConstraintEnforcement).    *)
DenyIsConfirmed == ~unconfirmed

(* A token confirms one update, unless two requests had both read it before one deleted it     *)
(* ("single-use", validateAndConsumeConfirmationToken).                                *)
TokensAreSingleUse == \A t \in Token : uses[t] > 1 => t \in doubted

(* A token lets an update to "deny" of its own constraint through and of no other: every     *)
(* request past the reading of its token has the constraint the token was given for.          *)
TokenFitsChange ==
  \A q \in Request : call[q] # None /\ call[q].at = "consume"
                       => tokens[call[q].token] \in {call[q].of, None}

(* What a caller is shown who lost "compliance/*" while the list was fetched are violations in  *)
(* the namespaces of the caller's projects (filterViolationsByAccess).                   *)
ShowsOwnNamespaces == ~leaked
=============================================================================
