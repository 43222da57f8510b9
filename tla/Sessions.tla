------------------------------ MODULE Sessions ------------------------------
(***************************************************************************)
(* Sign-on with OIDC and the sessions it makes: the state, nonce and PKCE  *)
(* verifier of a login (auth/oidc.go), the callback and the logout           *)
(* (api/handlers/auth.go), the opaque codes and the tickets of WebSockets    *)
(* (api/handlers/ws_ticket.go), the check of a token (ValidateToken) and     *)
(* the list of revoked tokens (auth/blacklist.go).                           *)
(*                                                                         *)
(* Everything is in Redis under a key with an expiry time: untilTime[<<k, f>>] *)
(* for the keys that belong to the login f, 0 when there is none.  A login   *)
(* has one key of each kind and one for each of its tickets.  A caller is an *)
(* HTTP request; a browser may send a callback, a code or a ticket several   *)
(* times.                                                                    *)
(***************************************************************************)
EXTENDS Naturals, FiniteSets

CONSTANTS Flow, Caller,
          StateTTL, CodeTTL, TicketTTL, JWTExpiry,
          MaxInstant, MaxTickets           \* bounds

ASSUME SessionsAssumption ==
  /\ StateTTL \in Nat /\ CodeTTL \in Nat /\ TicketTTL \in Nat /\ JWTExpiry \in Nat
  /\ MaxInstant \in Nat /\ MaxTickets \in Nat

VARIABLES untilTime,          \* Redis
          visit,              \* how far OIDCLogin is
          caller,             \* what each request does
          expires,            \* expiry of the session token of a login, 0 when none
          made,               \* per login: sessions, cookies and tickets made
          sockets,            \* per ticket: the sockets opened with it
          gone,               \* logins whose token was revoked
          known,              \* whether the provider is loaded
          instant

vars == <<untilTime, visit, caller, expires, made, sockets, gone, known, instant>>
rest == <<visit, expires, made, sockets, gone, known, instant>>

Secrets == <<"state", "nonce", "verifier">>
One(kind) == <<kind, 0>>
Number == 1 .. MaxTickets
TicketKey(n) == <<"ticket", n>>
Key == {One(kind) : kind \in {"state", "nonce", "verifier", "code", "revoked"}}
         \cup {TicketKey(n) : n \in Number}
NoCall == [at |-> "idle"]

Init ==
  /\ untilTime = [e \in Key \X Flow |-> 0]
  /\ visit = [f \in Flow |-> 0]
  /\ caller = [q \in Caller |-> NoCall]
  /\ expires = [f \in Flow |-> 0]
  /\ made = [f \in Flow |-> [sessions |-> 0, cookies |-> 0, tickets |-> 0]]
  /\ sockets = [t \in Flow \X Number |-> 0]
  /\ gone = {}
  /\ known = TRUE
  /\ instant = 1

Present(k, f) == untilTime[<<k, f>>] > instant
Set(k, f, until) == untilTime' = [untilTime EXCEPT ![<<k, f>>] = until]

\* Mutant: the value is read and left there.
GetOnly(k, f) == Present(k, f) /\ UNCHANGED untilTime

GetDel(k, f) == Present(k, f) /\ Set(k, f, 0)

(* OIDCLogin and GenerateStateToken: three keys, one after the other; after an *)
(* error those that were written stay until they expire.                       *)
MayStore(f) == visit[f] < 3 /\ (visit[f] = 0 => known)

StoreSecret(f) ==
  /\ MayStore(f)
  /\ Set(One(Secrets[visit[f] + 1]), f, instant + StateTTL)
  /\ visit' = [visit EXCEPT ![f] = @ + 1]
  /\ UNCHANGED <<caller, expires, made, sockets, gone, known, instant>>

(* OIDCCallback: ValidateStateToken, then the nonce, then the verifier.  The   *)
(* browser is sent to the provider when all three are stored.                  *)
Consume(q, f, n) ==
  /\ IF n = 1 THEN caller[q] = NoCall /\ visit[f] = 3
              ELSE caller[q] = [at |-> Secrets[n], flow |-> f]
  /\ GetDel(One(Secrets[n]), f)
  /\ caller' = [caller EXCEPT ![q] = [at |-> IF n < 3 THEN Secrets[n + 1] ELSE "exchange", flow |-> f]]
  /\ UNCHANGED rest

(* ExchangeCodeForToken: the provider is looked up once, and its answer has to *)
(* carry the nonce.                                                            *)
Exchange(q, f) ==
  /\ caller[q] = [at |-> "exchange", flow |-> f]
  /\ known
  /\ caller' = [caller EXCEPT ![q].at = "issue"]
  /\ UNCHANGED <<untilTime, rest>>

(* GenerateTokenWithGroups: the token is a cookie at once, or is kept under an  *)
(* opaque code for the page that the browser is sent back to.                  *)
IssueSession(q, f) ==
  /\ caller[q] = [at |-> "issue", flow |-> f]
  /\ expires' = [expires EXCEPT ![f] = instant + JWTExpiry]
  /\ \/ /\ Set(One("code"), f, instant + CodeTTL)
        /\ made' = [made EXCEPT ![f].sessions = @ + 1]
     \/ /\ made' = [made EXCEPT ![f] = [sessions |-> @.sessions + 1, cookies |-> @.cookies + 1,
                                          tickets |-> @.tickets]]
        /\ UNCHANGED untilTime
  /\ caller' = [caller EXCEPT ![q] = NoCall]
  /\ UNCHANGED <<visit, sockets, gone, known, instant>>

(* A request ends here: a key is missing, Redis or the provider fails, the      *)
(* provider is not loaded, the token is not accepted.                           *)
Denied(q) ==
  /\ caller[q].at # "idle"
  /\ caller' = [caller EXCEPT ![q] = NoCall]
  /\ UNCHANGED <<untilTime, rest>>

(* ValidateToken; when Redis cannot say whether the token was revoked, it is    *)
(* accepted.                                                                    *)
Alive(f) == expires[f] > instant
Accepts(f) == Alive(f) /\ ~Present(One("revoked"), f)

TakeCode(q, f) ==
  /\ caller[q] = NoCall
  /\ GetDel(One("code"), f)
  /\ caller' = [caller EXCEPT ![q] = [at |-> "cookie", flow |-> f]]
  /\ UNCHANGED rest

TokenExchange(q, f) ==
  /\ caller[q] = [at |-> "cookie", flow |-> f]
  /\ Accepts(f)
  /\ made' = [made EXCEPT ![f].cookies = @ + 1]
  /\ caller' = [caller EXCEPT ![q] = NoCall]
  /\ UNCHANGED <<untilTime, visit, expires, sockets, gone, known, instant>>

(* Auth: the request passes the middleware and goes on to its handler. *)
Auth(q, f, to) ==
  /\ caller[q] = NoCall
  /\ Accepts(f)
  /\ to = "ticket" => made[f].tickets < MaxTickets
  /\ caller' = [caller EXCEPT ![q] = [at |-> to, flow |-> f]]
  /\ UNCHANGED <<untilTime, rest>>

(* The same when Redis does not answer. *)
AuthUnchecked(q, f) ==
  /\ caller[q] = NoCall
  /\ Alive(f) /\ ~Accepts(f)
  /\ made[f].tickets < MaxTickets
  /\ caller' = [caller EXCEPT ![q] = [at |-> "ticket", flow |-> f]]
  /\ UNCHANGED <<untilTime, rest>>

CreateTicket(q, f) ==
  /\ caller[q] = [at |-> "ticket", flow |-> f]
  /\ made[f].tickets < MaxTickets
  /\ Set(TicketKey(made[f].tickets + 1), f, instant + TicketTTL)
  /\ made' = [made EXCEPT ![f].tickets = @ + 1]
  /\ caller' = [caller EXCEPT ![q] = NoCall]
  /\ UNCHANGED <<visit, expires, sockets, gone, known, instant>>

ExchangeTicket(f, n) ==
  /\ GetDel(TicketKey(n), f)
  /\ sockets' = [sockets EXCEPT ![<<f, n>>] = @ + 1]
  /\ UNCHANGED <<caller, visit, expires, made, gone, known, instant>>

\* Mutant: the entry is gone before the token expires.
RevokedUntilEarly(f) == expires[f] - 1

RevokedUntil(f) == expires[f]

(* Logout and RevokeToken; a failure of Redis is Denied. *)
RevokeCurrentToken(q, f) ==
  /\ caller[q] = [at |-> "revoke", flow |-> f]
  /\ IF expires[f] > instant THEN Set(One("revoked"), f, RevokedUntil(f)) ELSE UNCHANGED untilTime
  /\ gone' = gone \cup {f}
  /\ caller' = [caller EXCEPT ![q] = NoCall]
  /\ UNCHANGED <<visit, expires, made, sockets, known, instant>>

(* ReloadProviders of the watcher of the settings. *)
Reload ==
  /\ known' = ~known
  /\ UNCHANGED <<untilTime, visit, caller, expires, made, sockets, gone, instant>>

Tick ==
  /\ instant < MaxInstant
  /\ instant' = instant + 1
  /\ UNCHANGED <<untilTime, visit, caller, expires, made, sockets, gone, known>>

FlowStep(q, f) ==
  \/ \E n \in 1 .. 3 : Consume(q, f, n)
  \/ Exchange(q, f) \/ IssueSession(q, f)
  \/ TakeCode(q, f) \/ TokenExchange(q, f)
  \/ Auth(q, f, "ticket") \/ Auth(q, f, "revoke") \/ AuthUnchecked(q, f)
  \/ CreateTicket(q, f) \/ RevokeCurrentToken(q, f)

Next ==
  \/ \E f \in Flow : StoreSecret(f)
  \/ \E q \in Caller, f \in Flow : FlowStep(q, f)
  \/ \E f \in Flow, n \in Number : ExchangeTicket(f, n)
  \/ \E q \in Caller : Denied(q)
  \/ Reload \/ Tick

Spec == Init /\ [][Next]_vars

-----------------------------------------------------------------------------
TypeOK ==
  /\ untilTime \in [Key \X Flow -> Nat]
  /\ visit \in [Flow -> 0 .. 3]
  /\ caller \in [Caller -> {NoCall} \cup
                 [at : {"nonce", "verifier", "exchange", "issue", "cookie", "ticket", "revoke"},
                  flow : Flow]]
  /\ expires \in [Flow -> Nat]
  /\ made \in [Flow -> [sessions : Nat, cookies : Nat, tickets : 0 .. MaxTickets]]
  /\ sockets \in [Flow \X Number -> Nat]
  /\ gone \subseteq Flow /\ known \in BOOLEAN /\ instant \in 1 .. MaxInstant + 1

(* One login makes one session at most, one code one cookie, one ticket one    *)
(* socket, however often the browser sends them and wherever a request fails.   *)
OnceOnly ==
  \A f \in Flow : /\ made[f].sessions <= 1
                  /\ made[f].cookies <= made[f].sessions
                  /\ \A n \in Number : sockets[<<f, n>>] <= 1

(* A token that was revoked is never accepted again: the entry in the list      *)
(* lives as long as the token.                                                   *)
RevokedIsRejected == \A f \in gone : ~Accepts(f)

(* The tickets are those of OneTime: which are open, which were given out, and  *)
(* how often each opened a socket.                                              *)
Tickets == INSTANCE OneTime WITH
  Name <- Flow \X Number,
  open <- {t \in Flow \X Number : Present(TicketKey(t[2]), t[1])},
  issued <- {t \in Flow \X Number : t[2] <= made[t[1]].tickets},
  uses <- sockets

(* "GetDel is atomic: retrieve + delete in one operation (single-use           *)
(* guarantee)" (ws_ticket.go:105): whatever requests, failures and expiry do,   *)
(* every step is one that OneTime allows.                                       *)
TicketsAreOnce == Tickets!Spec
=============================================================================
