------------------------------- MODULE WsHub -------------------------------
(***************************************************************************)
(* The WebSocket hub and its clients (internal/websocket).                 *)
(*                                                                         *)
(* One goroutine runs the hub's select loop and owns the set of registered *)
(* clients; it is the only one that closes a client's send channel.  Each  *)
(* client has a ReadPump, which answers the peer through the same send     *)
(* channel, and a WritePump, which empties it.  Either pump may end first; *)
(* both end in close(), where a sync.Once lets one of them tell the hub    *)
(* over an unbuffered channel and close the connection while the other     *)
(* waits.  A send on a closed channel panics and ends the process.         *)
(***************************************************************************)
EXTENDS Naturals, FiniteSets, Sequences

CONSTANTS
  Client,          \* connections, each used once
  Project,         \* projects a message can be about
  Member,          \* the projects of each client's user context
  Admin,           \* clients whose CachedHasGlobalAccess answers true
  None,            \* no project
  MaxConnections,  \* limit of registered clients
  SendBuffer,      \* capacity of a client's send channel
  BroadcastBuffer, \* capacity of the hub's broadcast channel
  MaxPublished,    \* bound: broadcasts in one behaviour
  MaxHeard         \* bound: peer messages in one behaviour

Topic   == {"resources", "violations"}
\* "violations" stands for the compliance types, which carry no project.
Update  == [topic : {"resources"}, project : Project \cup {None}]
             \cup [topic : {"violations"}, project : {None}]
\* Answers to the client's own requests: confirmations, pongs and errors.
Reply   == [topic : {"reply"}, project : {None}]
Message == Update \cup Reply
ReplyMessage == [topic |-> "reply", project |-> None]

Pump == {"reader", "writer"}
PumpState == {"off", "reading", "replying", "erroring", "select",
              "closing", "unregister", "closeconn", "ended"}

VARIABLES
  hub,        \* the event loop: running or stopped
  clients,    \* the hub's registered clients
  broadcast,  \* the broadcast channel
  handler,    \* ServeHTTP of each connection
  pump,       \* the two pumps of each connection
  send,       \* the send channel's buffer
  closed,     \* the send channel is closed
  subs,       \* what the client subscribed to
  once,       \* closeOnce; done is closed as soon as it is not "new"
  conn,       \* the connection: up, gone (peer), closed (server)
  crashed,    \* a goroutine panicked
  published, heard

clientVars == <<handler, pump, send, closed, subs, once, conn>>
boundVars  == <<published, heard>>
vars == <<hub, clients, broadcast, clientVars, crashed, boundVars>>

Init ==
  /\ hub = "running" /\ clients = {} /\ broadcast = <<>>
  /\ handler = [c \in Client |-> "none"]
  /\ pump = [c \in Client |-> [p \in Pump |-> "off"]]
  /\ send = [c \in Client |-> <<>>]
  /\ closed = [c \in Client |-> FALSE]
  /\ subs = [c \in Client |-> {}]
  /\ once = [c \in Client |-> "new"]
  /\ conn = [c \in Client |-> "up"]
  /\ crashed = FALSE
  /\ published = 0 /\ heard = 0

Go(c, p, s) == pump' = [pump EXCEPT ![c][p] = s]

-----------------------------------------------------------------------------
(* ServeHTTP: upgrade, register, start the pumps *)

Connect(c) ==
  /\ handler[c] = "none"
  /\ handler' = [handler EXCEPT ![c] = "registering"]
  /\ UNCHANGED <<hub, clients, broadcast, pump, send, closed, subs, once, conn,
                 crashed, boundVars>>

\* Register() <- client meets the hub's select: handleRegister.
HubRegister(c) ==
  /\ hub = "running" /\ handler[c] = "registering"
  /\ handler' = [handler EXCEPT ![c] = "registered"]
  /\ IF Cardinality(clients) >= MaxConnections
     THEN /\ send' = [send EXCEPT ![c] = Append(@, ReplyMessage)]
          /\ closed' = [closed EXCEPT ![c] = TRUE]
          /\ UNCHANGED clients
     ELSE /\ clients' = clients \cup {c}
          /\ UNCHANGED <<send, closed>>
  /\ UNCHANGED <<hub, broadcast, pump, subs, once, conn, crashed, boundVars>>

StartPumps(c) ==
  /\ handler[c] = "registered"
  /\ handler' = [handler EXCEPT ![c] = "done"]
  /\ pump' = [pump EXCEPT ![c] = [reader |-> "reading", writer |-> "select"]]
  /\ UNCHANGED <<hub, clients, broadcast, send, closed, subs, once, conn,
                 crashed, boundVars>>

\* The peer goes away, or answers no ping for pongWait.
PeerLeaves(c) ==
  /\ conn[c] = "up" /\ handler[c] # "none"
  /\ conn' = [conn EXCEPT ![c] = "gone"]
  /\ UNCHANGED <<hub, clients, broadcast, handler, pump, send, closed, subs, once,
                 crashed, boundVars>>

-----------------------------------------------------------------------------
(* close(), run by both pumps *)

\* Mutant: the connection is closed without telling the hub.
CloseFirstSilent(c, p) ==
  /\ pump[c][p] = "closing" /\ once[c] = "new"
  /\ once' = [once EXCEPT ![c] = "busy"]
  /\ Go(c, p, "closeconn")
  /\ UNCHANGED <<hub, clients, broadcast, handler, send, closed, subs, conn,
                 crashed, boundVars>>

\* closeOnce.Do: the first caller closes done and offers itself to the hub.
CloseFirst(c, p) ==
  /\ pump[c][p] = "closing" /\ once[c] = "new"
  /\ once' = [once EXCEPT ![c] = "busy"]
  /\ Go(c, p, "unregister")
  /\ UNCHANGED <<hub, clients, broadcast, handler, send, closed, subs, conn,
                 crashed, boundVars>>

\* Mutant: the client stays in the hub's map.
HubUnregisterKeeps(c, p) ==
  /\ hub = "running" /\ pump[c][p] = "unregister"
  /\ closed' = [closed EXCEPT ![c] = @ \/ c \in clients]
  /\ Go(c, p, "closeconn")
  /\ UNCHANGED <<hub, clients, broadcast, handler, send, subs, once, conn,
                 crashed, boundVars>>

\* unregister <- c meets the hub's select: handleUnregister.
HubUnregister(c, p) ==
  /\ hub = "running" /\ pump[c][p] = "unregister"
  /\ clients' = clients \ {c}
  /\ closed' = [closed EXCEPT ![c] = @ \/ c \in clients]
  /\ Go(c, p, "closeconn")
  /\ UNCHANGED <<hub, broadcast, handler, send, subs, once, conn, crashed, boundVars>>

CloseConn(c, p) ==
  /\ pump[c][p] = "closeconn"
  /\ conn' = [conn EXCEPT ![c] = "closed"]
  /\ once' = [once EXCEPT ![c] = "over"]
  /\ Go(c, p, "ended")
  /\ UNCHANGED <<hub, clients, broadcast, handler, send, closed, subs, crashed, boundVars>>

\* The other caller of Do returns when the first one has.
CloseSecond(c, p) ==
  /\ pump[c][p] = "closing" /\ once[c] = "over"
  /\ Go(c, p, "ended")
  /\ UNCHANGED <<hub, clients, broadcast, handler, send, closed, subs, once, conn,
                 crashed, boundVars>>

-----------------------------------------------------------------------------
(* ReadPump *)

ReadFails(c) ==
  /\ pump[c]["reader"] = "reading" /\ conn[c] # "up"
  /\ Go(c, "reader", "closing")
  /\ UNCHANGED <<hub, clients, broadcast, handler, send, closed, subs, once, conn,
                 crashed, boundVars>>

\* handleMessage up to its answer: a subscription changes under subMu; a
\* malformed message or unknown resource type is answered by sendError, a
\* message of unknown type not at all.
Receive(c) ==
  /\ pump[c]["reader"] = "reading" /\ conn[c] = "up"
  /\ heard < MaxHeard /\ heard' = heard + 1
  /\ \/ \E T \in SUBSET Topic :
          /\ subs' \in {[subs EXCEPT ![c] = @ \cup T], [subs EXCEPT ![c] = @ \ T]}
          /\ Go(c, "reader", "replying")
     \/ UNCHANGED subs /\ Go(c, "reader", "erroring")
     \/ UNCHANGED <<subs, pump>>
  /\ UNCHANGED <<hub, clients, broadcast, handler, send, closed, once, conn,
                 crashed, published>>

\* c.send <- msg: panics on a closed channel, waits on a full one.
SendReply(c) ==
  /\ pump[c]["reader"] = "replying"
  /\ IF closed[c]
     THEN crashed' = TRUE /\ UNCHANGED <<send, pump>>
     ELSE /\ Len(send[c]) < SendBuffer
          /\ send' = [send EXCEPT ![c] = Append(@, ReplyMessage)]
          /\ Go(c, "reader", "reading")
          /\ UNCHANGED crashed
  /\ UNCHANGED <<hub, clients, broadcast, handler, closed, subs, once, conn, boundVars>>

\* sendError: the same channel in a select with a default.
SendError(c) ==
  /\ pump[c]["reader"] = "erroring"
  /\ IF closed[c]
     THEN crashed' = TRUE /\ UNCHANGED <<send, pump>>
     ELSE /\ send' = [send EXCEPT ![c] =
                        IF Len(@) < SendBuffer THEN Append(@, ReplyMessage) ELSE @]
          /\ Go(c, "reader", "reading")
          /\ UNCHANGED crashed
  /\ UNCHANGED <<hub, clients, broadcast, handler, closed, subs, once, conn, boundVars>>

-----------------------------------------------------------------------------
(* WritePump *)

\* Mutant: a writer whose channel was closed returns without close().
WriteStopsSilently(c) ==
  /\ pump[c]["writer"] = "select"
  /\ \/ closed[c] /\ send[c] = <<>>
     \/ once[c] # "new"
     \/ conn[c] # "up"
  /\ Go(c, "writer", "ended")
  /\ UNCHANGED <<hub, clients, broadcast, handler, send, closed, subs, once, conn,
                 crashed, boundVars>>

\* A message was received from send and written, or the write failed.
WriteNext(c) ==
  /\ pump[c]["writer"] = "select" /\ send[c] # <<>>
  /\ send' = [send EXCEPT ![c] = Tail(@)]
  /\ \/ conn[c] # "closed" /\ UNCHANGED pump
     \/ Go(c, "writer", "closing")
  /\ UNCHANGED <<hub, clients, broadcast, handler, closed, subs, once, conn,
                 crashed, boundVars>>

\* The channel is closed and drained, done is closed, or a ping failed.
WriteStops(c) ==
  /\ pump[c]["writer"] = "select"
  /\ \/ closed[c] /\ send[c] = <<>>
     \/ once[c] # "new"
     \/ conn[c] # "up"
  /\ Go(c, "writer", "closing")
  /\ UNCHANGED <<hub, clients, broadcast, handler, send, closed, subs, once, conn,
                 crashed, boundVars>>

-----------------------------------------------------------------------------
(* The hub *)

\* Mutant: a message is queued although the channel is full.
PublishAlways(m) ==
  /\ published < MaxPublished /\ published' = published + 1
  /\ broadcast' = Append(broadcast, m)
  /\ UNCHANGED <<hub, clients, clientVars, crashed, heard>>

\* A Broadcast* call: the message is dropped when the channel is full.
Publish(m) ==
  /\ published < MaxPublished /\ published' = published + 1
  /\ broadcast' = IF Len(broadcast) < BroadcastBuffer THEN Append(broadcast, m)
                                                      ELSE broadcast
  /\ UNCHANGED <<hub, clients, clientVars, crashed, heard>>

\* Mutant: updates that carry no project go to everybody who subscribed.
ShouldSendPublic(c, m) ==
  /\ m.topic \in subs[c]
  /\ c \in Admin \/ m.project \in Member[c] \cup {None}

\* shouldSendToClient, for the types that are broadcast.
ShouldSend(c, m) ==
  /\ m.topic \in subs[c]
  /\ c \in Admin \/ (m.topic = "resources" /\ m.project \in Member[c])

HubBroadcast ==
  /\ hub = "running" /\ broadcast # <<>>
  /\ broadcast' = Tail(broadcast)
  /\ send' = [c \in Client |->
       IF c \in clients /\ ShouldSend(c, Head(broadcast)) /\ Len(send[c]) < SendBuffer
       THEN Append(send[c], Head(broadcast)) ELSE send[c]]
  /\ UNCHANGED <<hub, clients, handler, pump, closed, subs, once, conn,
                 crashed, boundVars>>

\* The hub's context is cancelled: closeAllClients, and Run returns.
HubStop ==
  /\ hub = "running"
  /\ hub' = "stopped"
  /\ clients' = {}
  /\ closed' = [c \in Client |-> closed[c] \/ c \in clients]
  /\ UNCHANGED <<broadcast, handler, pump, send, subs, once, conn, crashed, boundVars>>

PumpStep(c, p) ==
  CloseFirst(c, p) \/ HubUnregister(c, p) \/ CloseConn(c, p) \/ CloseSecond(c, p)

ReaderStep(c) == ReadFails(c) \/ SendReply(c) \/ SendError(c)
WriterStep(c) == WriteNext(c) \/ WriteStops(c)
HandlerStep(c) == HubRegister(c) \/ StartPumps(c)

Next ==
  /\ ~crashed
  /\ \/ \E c \in Client : Connect(c) \/ PeerLeaves(c) \/ Receive(c)
     \/ \E c \in Client : HandlerStep(c) \/ ReaderStep(c) \/ WriterStep(c)
     \/ \E c \in Client, p \in Pump : PumpStep(c, p)
     \/ \E m \in Update : Publish(m)
     \/ HubBroadcast \/ HubStop

\* Goroutines that can run do; peers, publishers and shutdown owe nothing.
Fairness ==
  \A c \in Client :
    /\ WF_vars(~crashed /\ HandlerStep(c))
    /\ WF_vars(~crashed /\ ReaderStep(c))
    /\ WF_vars(~crashed /\ WriterStep(c))
    /\ \A p \in Pump : WF_vars(~crashed /\ PumpStep(c, p))

Spec == Init /\ [][Next]_vars /\ Fairness

-----------------------------------------------------------------------------
(* Properties *)

TypeOK ==
  /\ hub \in {"running", "stopped"}
  /\ clients \in SUBSET Client
  /\ broadcast \in Seq(Update) /\ Len(broadcast) <= BroadcastBuffer
  /\ handler \in [Client -> {"none", "registering", "registered", "done"}]
  /\ pump \in [Client -> [Pump -> PumpState]]
  /\ send \in [Client -> Seq(Message)]
  /\ \A c \in Client : Len(send[c]) <= SendBuffer
  /\ closed \in [Client -> BOOLEAN]
  /\ subs \in [Client -> SUBSET Topic]
  /\ once \in [Client -> {"new", "busy", "over"}]
  /\ conn \in [Client -> {"up", "gone", "closed"}]
  /\ crashed \in BOOLEAN
  /\ published \in 0..MaxPublished /\ heard \in 0..MaxHeard

(* The hub never closes a send channel twice nor sends on a closed one:    *)
(* handleUnregister, closeAllClients and handleBroadcast act only on       *)
(* registered clients, and those are open; and never more than the limit.  *)
RegisteredAreOpen ==
  /\ \A c \in clients : ~closed[c]
  /\ Cardinality(clients) <= MaxConnections

(* No client stays registered once its connection is closed: the pump that *)
(* closes the connection has met the hub first, and the hub cannot have    *)
(* registered the client after that.                                       *)
NoGhostClient == \A c \in Client : conn[c] = "closed" => c \notin clients

(* A client's channel holds only answers to the client and updates of its  *)
(* own projects, unless it is a global admin: tenants do not see each      *)
(* other's updates, and compliance updates go to admins only.              *)
OnlyOwnUpdates ==
  \A c \in Client : \A i \in DOMAIN send[c] :
    \/ send[c][i].topic = "reply"
    \/ c \in Admin
    \/ send[c][i].project \in Member[c]

(* While the hub runs, a connection whose peer is gone is closed and its   *)
(* client forgotten, whichever pump notices first and whatever the other   *)
(* one is blocked on.  (The hub may stop, or a panic end the process.)     *)
GoneIsClosed ==
  \A c \in Client :
    (conn[c] = "gone" /\ handler[c] = "done")
      ~> (conn[c] = "closed" /\ c \notin clients) \/ hub = "stopped" \/ crashed

(* "close safely closes the client connection exactly once" (client.go:90): *)
(* ending a connection never panics a goroutine.                           *)
NoPanic == ~crashed
=============================================================================
