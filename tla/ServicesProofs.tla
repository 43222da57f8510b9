--------------------------- MODULE ServicesProofs ---------------------------
(***************************************************************************)
(* What the run of MCServices checks of a component, for every value of    *)
(* the constants.  A component has an inductive invariant of its own; the  *)
(* steps of the others leave its variables alone.                          *)
(***************************************************************************)
EXTENDS MCServices, FiniteSetTheorems, TLAPS

-----------------------------------------------------------------------------
(* WsHub *)

HubTypes ==
  /\ hub \in {"running", "stopped"}
  /\ clients \in SUBSET Browser /\ IsFiniteSet(clients)
  /\ broadcast \in Seq(Hub!Update)
  /\ serving \in [Browser -> {"none", "registering", "registered", "done"}]
  /\ pump \in [Browser -> [Hub!Pump -> Hub!PumpState]]
  /\ closed \in [Browser -> BOOLEAN]
  /\ conn \in [Browser -> {"up", "gone", "closed"}]

\* What a client may be sent.
OwnMessage(c) ==
  {m \in Hub!Message : m.topic = "reply" \/ c \in Admin \/ m.project \in Member[c]}

Sent == DOMAIN send = Browser /\ \A c \in Browser : send[c] \in Seq(OwnMessage(c))

(* A client is registered once, before its pumps run; the pump that closes  *)
(* the connection has taken the client out of the map.                      *)
Order ==
  /\ \A c \in clients : ~closed[c]
  /\ \A c \in Browser : c \in clients \/ closed[c] => serving[c] \in {"registered", "done"}
  /\ \A c \in Browser, p \in Hub!Pump :
       /\ serving[c] # "done" => pump[c][p] = "off"
       /\ pump[c][p] = "closeconn" => c \notin clients
  /\ \A c \in Browser : conn[c] = "closed" => serving[c] = "done" /\ c \notin clients

HubInv ==
  /\ HubTypes /\ Sent /\ Order
  /\ Cardinality(clients) <= MaxConnections

LEMMA HubCardinality == \A S : Hub!Cardinality(S) = Cardinality(S)
  BY Zenon DEF Hub!Cardinality, Cardinality, IsFiniteSet

LEMMA HubInvInit == AllInit => HubInv
<1> SUFFICES ASSUME Hub!Init PROVE HubInv
  BY DEF AllInit
<1>1. HubTypes
  BY FS_EmptySet DEF Hub!Init, HubTypes, Hub!Pump, Hub!PumpState
<1>2. Sent
  BY DEF Hub!Init, Sent
<1>3. Order
  BY DEF Hub!Init, Order
<1>4. Cardinality(clients) <= MaxConnections
  BY FS_EmptySet, ServicesAssumption DEF Hub!Init
<1> QED
  BY <1>1, <1>2, <1>3, <1>4 DEF HubInv

(* The channels change by answers and by what the hub may send. *)
LEMMA SentStep ==
  ASSUME HubInv, [Hub!Next]_(Hub!vars)
  PROVE  Sent'
<1> USE DEF HubInv, HubTypes, Sent
<1>1. \A c \in Browser : Hub!ReplyMessage \in OwnMessage(c)
  BY DEF Hub!ReplyMessage, OwnMessage, Hub!Message, Hub!Reply
<1>2. \A c \in Browser : \A s \in Seq(OwnMessage(c)) : Append(s, Hub!ReplyMessage) \in Seq(OwnMessage(c))
  BY <1>1
<1>3. CASE UNCHANGED send
  BY <1>3
<1>4. ASSUME NEW c \in Browser, send' = [send EXCEPT ![c] = Append(@, Hub!ReplyMessage)]
      PROVE  Sent'
  BY <1>2, <1>4
<1>5. ASSUME NEW c \in Browser, Hub!WriteNext(c) PROVE Sent'
  <2>1. Tail(send[c]) \in Seq(OwnMessage(c))
    BY <1>5 DEF Hub!WriteNext
  <2> QED
    BY <2>1, <1>5 DEF Hub!WriteNext
<1>6. ASSUME NEW c \in Browser, Hub!SendError(c) PROVE Sent'
  <2>1. send'[c] \in Seq(OwnMessage(c))
    BY <1>2, <1>6 DEF Hub!SendError
  <2> QED
    BY <2>1, <1>6 DEF Hub!SendError
<1>7. ASSUME Hub!HubBroadcast PROVE Sent'
  <2> DEFINE m == Head(broadcast)
  <2>1. m \in Hub!Update
    BY <1>7 DEF Hub!HubBroadcast
  <2>2. ASSUME NEW c \in Browser, Hub!ShouldSend(c, m) PROVE m \in OwnMessage(c)
    BY <2>1, <2>2 DEF Hub!ShouldSend, OwnMessage, Hub!Message
  <2> HIDE DEF m
  <2>3. ASSUME NEW c \in Browser PROVE send'[c] \in Seq(OwnMessage(c))
    <3>1. CASE c \in clients /\ Hub!ShouldSend(c, m) /\ Len(send[c]) < SendBuffer
      <4>1. send'[c] = Append(send[c], m)
        BY <1>7, <3>1 DEF Hub!HubBroadcast, m
      <4> QED
        BY <4>1, <3>1, <2>2
    <3>2. CASE ~(c \in clients /\ Hub!ShouldSend(c, m) /\ Len(send[c]) < SendBuffer)
      <4>1. send'[c] = send[c]
        BY <1>7, <3>2 DEF Hub!HubBroadcast, m
      <4> QED
        BY <4>1
    <3> QED
      BY <3>1, <3>2
  <2> QED
    BY <1>7, <2>3 DEF Hub!HubBroadcast
<1>8. CASE UNCHANGED Hub!vars
  BY <1>3, <1>8 DEF Hub!vars, Hub!clientVars
<1>9. CASE Hub!Next
  <2>1. ASSUME NEW c \in Browser, Hub!HandlerStep(c) PROVE Sent'
    BY <1>3, <1>4, <2>1 DEF Hub!HandlerStep, Hub!HubRegister, Hub!StartPumps
  <2>2. ASSUME NEW c \in Browser, Hub!ReaderStep(c) PROVE Sent'
    BY <1>3, <1>4, <1>6, <2>2 DEF Hub!ReaderStep, Hub!ReadFails, Hub!SendReply
  <2>3. ASSUME NEW c \in Browser, Hub!WriterStep(c) PROVE Sent'
    BY <1>3, <1>5, <2>3 DEF Hub!WriterStep, Hub!WriteStops
  <2>4. ASSUME NEW c \in Browser, NEW p \in Hub!Pump, Hub!PumpStep(c, p) PROVE Sent'
    BY <1>3, <2>4 DEF Hub!PumpStep, Hub!CloseFirst, Hub!HubUnregister, Hub!CloseConn, Hub!CloseSecond
  <2>5. ASSUME NEW c \in Browser, Hub!Connect(c) \/ Hub!PeerLeaves(c) \/ Hub!Receive(c) PROVE Sent'
    BY <1>3, <2>5 DEF Hub!Connect, Hub!PeerLeaves, Hub!Receive
  <2>6. ASSUME NEW m \in Hub!Update, Hub!Publish(m) PROVE Sent'
    BY <1>3, <2>6 DEF Hub!Publish, Hub!clientVars
  <2>7. CASE Hub!HubStop
    BY <1>3, <2>7 DEF Hub!HubStop
  <2> QED
    BY <1>7, <1>9, <2>1, <2>2, <2>3, <2>4, <2>5, <2>6, <2>7 DEF Hub!Next
<1> QED
  BY <1>8, <1>9

(* A pump that runs belongs to a client whose handler is done. *)
LEMMA PumpRuns ==
  ASSUME HubInv, NEW c \in Browser, NEW p \in Hub!Pump, pump[c][p] # "off"
  PROVE  serving[c] = "done"
BY DEF HubInv, Order

(* A pump takes a step, while the hub forgets clients or none. *)
LEMMA PumpGoes ==
  ASSUME HubInv, NEW c \in Browser, NEW p \in Hub!Pump, NEW s \in Hub!PumpState,
         pump[c][p] # "off", Hub!Go(c, p, s),
         UNCHANGED <<hub, broadcast, serving>>,
         clients' \in {clients, clients \ {c}},
         closed' \in {closed, [closed EXCEPT ![c] = @ \/ c \in clients]},
         closed' # closed => clients' = clients \ {c},
         conn' \in {conn, [conn EXCEPT ![c] = "closed"]},
         s = "closeconn" \/ conn' # conn => c \notin clients'
  PROVE  HubTypes' /\ Order' /\ Cardinality(clients') <= MaxConnections
<1> USE ServicesAssumption
<1>1. serving[c] = "done"
  BY PumpRuns
<1>2. pump' \in [Browser -> [Hub!Pump -> Hub!PumpState]]
  BY DEF HubInv, HubTypes, Hub!Go
<1>3. HubTypes' /\ Cardinality(clients') <= MaxConnections
  <2>1. IsFiniteSet(clients \ {c}) /\ Cardinality(clients \ {c}) <= Cardinality(clients)
        /\ Cardinality(clients) \in Nat /\ Cardinality(clients \ {c}) \in Nat
    BY FS_Subset, FS_CardinalityType DEF HubInv, HubTypes
  <2>2. IsFiniteSet(clients) /\ Cardinality(clients) <= MaxConnections
    BY DEF HubInv, HubTypes
  <2>3. CASE clients' = clients
    BY <1>2, <2>2, <2>3 DEF HubInv, HubTypes
  <2>4. CASE clients' = clients \ {c}
    <3>1. IsFiniteSet(clients') /\ Cardinality(clients') <= MaxConnections
      BY <2>1, <2>2, <2>4
    <3> QED
      BY <1>2, <2>4, <3>1 DEF HubInv, HubTypes
  <2> QED
    BY <2>3, <2>4
<1>4. Order'
  <2>1. \A d \in Browser, r \in Hub!Pump : pump'[d][r] = IF d = c /\ r = p THEN s ELSE pump[d][r]
    BY DEF HubInv, HubTypes, Hub!Go
  <2>2. \A d \in Browser : closed'[d] # closed[d] => d = c /\ clients' = clients \ {c}
    BY DEF HubInv, HubTypes
  <2>3. \A d \in Browser : conn'[d] # conn[d] => d = c /\ c \notin clients'
    BY DEF HubInv, HubTypes
  <2>4. clients' \in SUBSET clients /\ clients \in SUBSET Browser
    BY DEF HubInv, HubTypes
  <2> QED
    BY <1>1, <2>1, <2>2, <2>3, <2>4 DEF HubInv, Order
<1> QED
  BY <1>3, <1>4

LEMMA HubInvStep == HubInv /\ [Hub!Next]_(Hub!vars) => HubInv'
<1> SUFFICES ASSUME HubInv, [Hub!Next]_(Hub!vars) PROVE HubInv'
  OBVIOUS
<1> DEFINE Rest == HubTypes' /\ Order' /\ Cardinality(clients)' <= MaxConnections
<1>1. SUFFICES Rest
  BY SentStep DEF HubInv
<1>2. CASE UNCHANGED <<hub, clients, broadcast, serving, pump, closed, conn>>
  BY <1>2 DEF HubInv, HubTypes, Order
<1>3. ASSUME NEW c \in Browser, Hub!Connect(c) PROVE Rest
  BY <1>3 DEF HubInv, HubTypes, Order, Hub!Connect
<1>4. ASSUME NEW c \in Browser, Hub!PeerLeaves(c) PROVE Rest
  BY <1>4 DEF HubInv, HubTypes, Order, Hub!PeerLeaves
<1>5. ASSUME NEW c \in Browser, Hub!HubRegister(c) PROVE Rest
  <2>1. /\ serving[c] = "registering" /\ c \notin clients /\ ~closed[c] /\ conn[c] # "closed"
        /\ \A p \in Hub!Pump : pump[c][p] = "off"
        /\ UNCHANGED <<hub, broadcast, pump, conn>>
        /\ serving' = [serving EXCEPT ![c] = "registered"]
    BY <1>5 DEF HubInv, HubTypes, Order, Hub!HubRegister
  <2>2. Cardinality(clients) \in Nat
        /\ IsFiniteSet(clients \cup {c}) /\ Cardinality(clients \cup {c}) = Cardinality(clients) + 1
    BY <2>1, FS_AddElement, FS_CardinalityType DEF HubInv, HubTypes
  <2>3. CASE Cardinality(clients) >= MaxConnections
    <3>1. clients' = clients /\ closed' = [closed EXCEPT ![c] = TRUE]
      BY <1>5, <2>3, HubCardinality DEF Hub!HubRegister
    <3> QED
      BY <2>1, <3>1 DEF HubInv, HubTypes, Order
  <2>4. CASE ~(Cardinality(clients) >= MaxConnections)
    <3>1. clients' = clients \cup {c} /\ closed' = closed
      BY <1>5, <2>4, HubCardinality DEF Hub!HubRegister
    <3>2. Cardinality(clients)' <= MaxConnections
      BY <3>1, <2>2, <2>4, ServicesAssumption
    <3>3. HubTypes'
      BY <2>1, <2>2, <3>1 DEF HubInv, HubTypes
    <3>4. Order'
      BY <2>1, <3>1 DEF HubInv, HubTypes, Order
    <3> QED
      BY <3>2, <3>3, <3>4
  <2> QED
    BY <2>3, <2>4
<1>6. ASSUME NEW c \in Browser, Hub!StartPumps(c) PROVE Rest
  <2>1. /\ serving[c] = "registered" /\ conn[c] # "closed"
        /\ UNCHANGED <<hub, clients, broadcast, closed, conn>>
        /\ serving' = [serving EXCEPT ![c] = "done"]
        /\ pump' = [pump EXCEPT ![c] = [reader |-> "reading", writer |-> "select"]]
    BY <1>6 DEF HubInv, HubTypes, Order, Hub!StartPumps
  <2>2. [reader |-> "reading", writer |-> "select"] \in [Hub!Pump -> Hub!PumpState]
    BY DEF Hub!Pump, Hub!PumpState
  <2>3. HubTypes'
    BY <2>1, <2>2 DEF HubInv, HubTypes
  <2>4. \A d \in Browser, p \in Hub!Pump : pump'[d][p] = "closeconn" => d # c /\ pump[d][p] = "closeconn"
    BY <2>1 DEF HubInv, HubTypes, Hub!Pump
  <2>5. \A d \in Browser, p \in Hub!Pump : d # c => pump'[d][p] = pump[d][p]
    BY <2>1 DEF HubInv, HubTypes
  <2>6. Order'
    BY <2>1, <2>4, <2>5 DEF HubInv, HubTypes, Order
  <2> QED
    BY <2>1, <2>3, <2>6 DEF HubInv
<1>7. ASSUME NEW c \in Browser, Hub!ReaderStep(c) \/ Hub!Receive(c) PROVE Rest
  <2>1. CASE UNCHANGED <<hub, clients, broadcast, serving, pump, closed, conn>>
    BY <1>2, <2>1
  <2>2. "reader" \in Hub!Pump
    BY DEF Hub!Pump
  <2>3. CASE pump' # pump
    <3>1. PICK s \in {"closing", "reading", "replying", "erroring"} : Hub!Go(c, "reader", s)
      BY <1>7, <2>3 DEF Hub!ReaderStep, Hub!Receive, Hub!ReadFails, Hub!SendReply, Hub!SendError
    <3>2. pump[c]["reader"] # "off" /\ UNCHANGED <<hub, clients, broadcast, serving, closed, conn>>
      BY <1>7 DEF Hub!ReaderStep, Hub!Receive, Hub!ReadFails, Hub!SendReply, Hub!SendError
    <3>3. s \in Hub!PumpState /\ s # "closeconn"
      BY DEF Hub!PumpState
    <3> QED
      BY <2>2, <3>1, <3>2, <3>3, PumpGoes
  <2>4. UNCHANGED <<hub, clients, broadcast, serving, closed, conn>>
    BY <1>7 DEF Hub!ReaderStep, Hub!Receive, Hub!ReadFails, Hub!SendReply, Hub!SendError
  <2> QED
    BY <2>1, <2>3, <2>4
<1>8. ASSUME NEW c \in Browser, Hub!WriterStep(c) PROVE Rest
  <2>1. UNCHANGED <<hub, clients, broadcast, serving, closed, conn>> /\ pump[c]["writer"] = "select"
    BY <1>8 DEF Hub!WriterStep, Hub!WriteNext, Hub!WriteStops
  <2>2. UNCHANGED pump \/ Hub!Go(c, "writer", "closing")
    BY <1>8 DEF Hub!WriterStep, Hub!WriteNext, Hub!WriteStops
  <2>3. "writer" \in Hub!Pump /\ "closing" \in Hub!PumpState
    BY DEF Hub!Pump, Hub!PumpState
  <2>4. CASE Hub!Go(c, "writer", "closing")
    BY <2>1, <2>3, <2>4, PumpGoes
  <2> QED
    BY <1>2, <2>1, <2>2, <2>4
<1>9. ASSUME NEW c \in Browser, NEW p \in Hub!Pump, Hub!PumpStep(c, p) PROVE Rest
  <2> USE DEF Hub!PumpState
  <2>1. CASE Hub!CloseFirst(c, p)
    <3>1. /\ pump[c][p] # "off" /\ Hub!Go(c, p, "unregister")
          /\ UNCHANGED <<hub, clients, broadcast, serving, closed, conn>>
      BY <2>1 DEF Hub!CloseFirst
    <3> QED
      BY <3>1, PumpGoes
  <2>2. CASE Hub!HubUnregister(c, p)
    <3>1. /\ pump[c][p] # "off" /\ Hub!Go(c, p, "closeconn")
          /\ UNCHANGED <<hub, broadcast, serving, conn>>
          /\ clients' = clients \ {c}
          /\ closed' = [closed EXCEPT ![c] = @ \/ c \in clients]
      BY <2>2 DEF Hub!HubUnregister
    <3> QED
      BY <3>1, PumpGoes
  <2>3. CASE Hub!CloseConn(c, p)
    <3>1. /\ pump[c][p] = "closeconn" /\ Hub!Go(c, p, "ended")
          /\ UNCHANGED <<hub, clients, broadcast, serving, closed>>
          /\ conn' = [conn EXCEPT ![c] = "closed"]
      BY <2>3 DEF Hub!CloseConn
    <3>2. c \notin clients
      BY <3>1 DEF HubInv, Order
    <3> QED
      BY <3>1, <3>2, PumpGoes
  <2>4. CASE Hub!CloseSecond(c, p)
    <3>1. /\ pump[c][p] # "off" /\ Hub!Go(c, p, "ended")
          /\ UNCHANGED <<hub, clients, broadcast, serving, closed, conn>>
      BY <2>4 DEF Hub!CloseSecond
    <3> QED
      BY <3>1, PumpGoes
  <2> QED
    BY <1>9, <2>1, <2>2, <2>3, <2>4 DEF Hub!PumpStep
<1>10. ASSUME NEW m \in Hub!Update, Hub!Publish(m) PROVE Rest
  <2>1. broadcast' \in Seq(Hub!Update) /\ UNCHANGED <<hub, clients, serving, pump, closed, conn>>
    BY <1>10 DEF HubInv, HubTypes, Hub!Publish, Hub!clientVars
  <2> QED
    BY <2>1 DEF HubInv, HubTypes, Order
<1>11. ASSUME Hub!HubBroadcast PROVE Rest
  <2>1. broadcast' \in Seq(Hub!Update) /\ UNCHANGED <<hub, clients, serving, pump, closed, conn>>
    BY <1>11 DEF HubInv, HubTypes, Hub!HubBroadcast
  <2> QED
    BY <2>1 DEF HubInv, HubTypes, Order
<1>12. ASSUME Hub!HubStop PROVE Rest
  <2>1. /\ hub' = "stopped" /\ clients' = {} /\ UNCHANGED <<broadcast, serving, pump, conn>>
        /\ closed' = [c \in Browser |-> closed[c] \/ c \in clients]
    BY <1>12 DEF Hub!HubStop
  <2>2. IsFiniteSet(clients') /\ Cardinality(clients') <= MaxConnections
    BY <2>1, FS_EmptySet, ServicesAssumption
  <2>3. closed' \in [Browser -> BOOLEAN]
    BY <2>1 DEF HubInv, HubTypes
  <2>4. HubTypes'
    BY <2>1, <2>2, <2>3 DEF HubInv, HubTypes
  <2>5. Order'
    BY <2>1 DEF HubInv, HubTypes, Order
  <2> QED
    BY <2>2, <2>4, <2>5
<1>13. CASE UNCHANGED Hub!vars
  BY <1>2, <1>13 DEF Hub!vars, Hub!clientVars
<1> QED
  BY <1>3, <1>4, <1>5, <1>6, <1>7, <1>8, <1>9, <1>10, <1>11, <1>12, <1>13 DEF Hub!Next, Hub!HandlerStep

(* The updates that a client is sent are its own, its channel is open while *)
(* it is registered, and it is forgotten when its connection is closed:     *)
(* shouldSendToClient, handleUnregister and closeAllClients.                *)
THEOREM HubAlwaysServesOwn == AllSpec => []HubServesOwn
<1>1. AllNext => [Hub!Next]_(Hub!vars)
  BY DEF AllNext, hubsVars, Hub!vars, Hub!clientVars, Hub!boundVars
<1>2. UNCHANGED allVars => [Hub!Next]_(Hub!vars)
  BY DEF allVars, hubsVars, Hub!vars, Hub!clientVars, Hub!boundVars
<1>3. HubInv => HubServesOwn
  <2> SUFFICES ASSUME HubInv
               PROVE  Hub!OnlyOwnUpdates /\ Hub!RegisteredAreOpen /\ Hub!NoGhostClient
    BY DEF HubServesOwn
  <2>1. Hub!OnlyOwnUpdates
    <3> SUFFICES ASSUME NEW c \in Browser, NEW i \in DOMAIN send[c]
                 PROVE  send[c][i] \in OwnMessage(c)
      BY DEF Hub!OnlyOwnUpdates, OwnMessage
    <3>1. send[c] \in Seq(OwnMessage(c))
      BY DEF HubInv, Sent
    <3> QED
      BY <3>1
  <2>2. Hub!RegisteredAreOpen
    BY HubCardinality DEF HubInv, Order, Hub!RegisteredAreOpen
  <2>3. Hub!NoGhostClient
    BY DEF HubInv, Order, Hub!NoGhostClient
  <2> QED
    BY <2>1, <2>2, <2>3
<1> QED
  BY HubInvInit, HubInvStep, <1>1, <1>2, <1>3, PTL DEF AllSpec

-----------------------------------------------------------------------------
(* Repositories *)

\* A request that has read a configuration, and one that may change it.
Seeing == {"check", "credentials", "metadata", "delete"}
Granted == {"credentials", "metadata", "delete"}

RepoTypes ==
  /\ configs \in [Repo -> Repos!Configs \cup {None}]
  /\ ever \in 0 .. MaxConfigs
  /\ owner \in [1 .. MaxConfigs -> Tenant \cup {None}]
  /\ order \in [Request -> [body : Repos!Bodies, granted : Tenant] \cup {None}]
  /\ stage \in [Request -> Seeing \cup {"new", "read", "done"}]
  /\ seen \in [Request -> Repos!Configs \cup {None}]
  /\ alone \in [Request -> BOOLEAN]
  /\ crossed \in BOOLEAN /\ trespassed \in BOOLEAN /\ unkept \in BOOLEAN

\* What a request works on, and what it may do with it.
Handled(q) ==
  /\ stage[q] \notin {"new", "done"} => order[q] # None
  /\ stage[q] \in Seeing => seen[q] # None /\ order[q].body.op \in {"update", "delete"}
  /\ stage[q] = "delete" <=> stage[q] \in Granted /\ order[q].body.op = "delete"
  /\ stage[q] = "credentials" => order[q].body.creds
  /\ stage[q] \in Granted => seen[q].project = order[q].granted

(* The project in a Secret is the one it was created for, until a request   *)
(* writes what it had read into another one.                                *)
OwnedConfigs ==
  /\ \A i \in Repo : configs[i] # None =>
       configs[i].uid <= ever /\ (~crossed => owner[configs[i].uid] = configs[i].project)
  /\ \A q \in Request : seen[q] # None =>
       seen[q].uid <= ever /\ (~crossed => owner[seen[q].uid] = seen[q].project)

\* Its URL is the one of its name, until an update changes it.
Home == \A i \in Repo : configs[i] # None /\ configs[i].uid \notin moved => configs[i].url = i

(* Nothing but its own writes have come between what a request that is      *)
(* alone has read and what is stored.                                       *)
Between(q) ==
  stage[q] \in Seeing /\ alone[q] =>
    configs[order[q].body.id] =
      IF stage[q] = "metadata" /\ order[q].body.creds
      THEN Repos!Config(seen[q].uid, Repos!NewUrl(q), seen[q].project, Repos!NewBranch(q), q)
      ELSE seen[q]

RepoInv ==
  /\ RepoTypes /\ OwnedConfigs /\ Home
  /\ \A q \in Request : Handled(q) /\ Between(q)
  /\ Repos!AccessHolds /\ Repos!AnswersAreKept

LEMMA RepoInvInit == AllInit => RepoInv
<1> SUFFICES ASSUME Repos!Init PROVE RepoInv
  BY DEF AllInit
<1>1. RepoTypes
  <2>1. ever \in 0 .. MaxConfigs /\ owner \in [1 .. MaxConfigs -> Tenant \cup {None}]
    BY ServicesAssumption DEF Repos!Init
  <2> QED
    BY <2>1 DEF Repos!Init, RepoTypes
<1>2. OwnedConfigs /\ Home
  BY DEF Repos!Init, OwnedConfigs, Home
<1>3. \A q \in Request : Handled(q) /\ Between(q)
  BY DEF Repos!Init, Handled, Between, Seeing, Granted
<1>4. Repos!AccessHolds /\ Repos!AnswersAreKept
  BY DEF Repos!Init, Repos!AccessHolds, Repos!AnswersAreKept
<1> QED
  BY <1>1, <1>2, <1>3, <1>4 DEF RepoInv

(* A request ends without a write. *)
LEMMA RequestEnds ==
  ASSUME RepoInv, NEW q \in Request, Repos!Done(q), UNCHANGED <<Repos!Store, Repos!ghosts>>
  PROVE  RepoInv'
<1> USE DEF Repos!Done, Repos!Store, Repos!ghosts
<1>1. RepoTypes'
  BY DEF RepoInv, RepoTypes
<1>2. OwnedConfigs' /\ Home'
  BY DEF RepoInv, RepoTypes, OwnedConfigs, Home
<1>3. ASSUME NEW o \in Request PROVE Handled(o)' /\ Between(o)'
  <2>1. CASE o = q
    BY <2>1 DEF RepoInv, RepoTypes, Handled, Between, Seeing, Granted
  <2>2. CASE o # q
    <3>1. stage'[o] = stage[o] /\ order'[o] = order[o] /\ seen'[o] = seen[o] /\ alone'[o] = alone[o]
      BY <2>2 DEF RepoInv, RepoTypes
    <3>2. Handled(o) /\ Between(o)
      BY DEF RepoInv
    <3> QED
      BY <3>1, <3>2 DEF Handled, Between, Repos!Config, Repos!NewUrl, Repos!NewBranch, Repos!Body
  <2> QED
    BY <2>1, <2>2
<1>4. Repos!AccessHolds' /\ Repos!AnswersAreKept'
  BY DEF RepoInv, Repos!AccessHolds, Repos!AnswersAreKept
<1> QED
  BY <1>1, <1>2, <1>3, <1>4 DEF RepoInv

(* A configuration is made for the project that owns it, under its own name. *)
LEMMA ConfigAppears ==
  ASSUME RepoInv, NEW i \in Repo, NEW p \in Tenant, NEW by \in Request \cup {None},
         configs[i] = None, ever < MaxConfigs,
         configs' = [configs EXCEPT ![i] = Repos!Config(ever + 1, i, p, "main", by)],
         owner' = [owner EXCEPT ![ever + 1] = p], ever' = ever + 1, moved' = moved,
         crossed' = crossed, \A q \in Request : seen'[q] \in {seen[q], None}
  PROVE  /\ configs' \in [Repo -> Repos!Configs \cup {None}] /\ ever' \in 0 .. MaxConfigs
         /\ owner' \in [1 .. MaxConfigs -> Tenant \cup {None}]
         /\ OwnedConfigs' /\ Home'
<1> DEFINE c == Repos!Config(ever + 1, i, p, "main", by)
<1>1. ever + 1 \in 1 .. MaxConfigs /\ ever \in Nat
  BY ServicesAssumption DEF RepoInv, RepoTypes
<1>2. c \in Repos!Configs /\ c.uid = ever + 1 /\ c.url = i /\ c.project = p
  BY <1>1 DEF Repos!Configs, Repos!Config, Repos!Branch
<1> HIDE DEF c
<1>3. \A j \in Repo : configs'[j] = IF j = i THEN c ELSE configs[j]
  BY DEF RepoInv, RepoTypes, c
<1>4. configs' \in [Repo -> Repos!Configs \cup {None}]
  BY <1>2 DEF RepoInv, RepoTypes, c
<1>5. owner' \in [1 .. MaxConfigs -> Tenant \cup {None}] /\ ever' \in 0 .. MaxConfigs
  BY <1>1 DEF RepoInv, RepoTypes
<1>6. \A u \in 1 .. MaxConfigs : owner'[u] = IF u = ever + 1 THEN p ELSE owner[u]
  BY <1>1 DEF RepoInv, RepoTypes
<1>7. ASSUME NEW d \in Repos!Configs, d.uid <= ever PROVE owner'[d.uid] = owner[d.uid] /\ d.uid <= ever'
  <2>1. d.uid \in 1 .. MaxConfigs
    BY DEF Repos!Configs
  <2> QED
    BY <1>1, <1>6, <1>7, <2>1
<1>8. \A j \in Repo : configs[j] # None => configs[j] \in Repos!Configs
  BY DEF RepoInv, RepoTypes
<1>9. \A q \in Request : seen[q] # None => seen[q] \in Repos!Configs
  BY DEF RepoInv, RepoTypes
<1>10. OwnedConfigs'
  <2>1. ASSUME NEW j \in Repo, configs'[j] # None
        PROVE  configs'[j].uid <= ever' /\ (~crossed' => owner'[configs'[j].uid] = configs'[j].project)
    <3>1. CASE j = i
      BY <3>1, <1>1, <1>2, <1>3, <1>6
    <3>2. CASE j # i
      BY <3>2, <2>1, <1>3, <1>7, <1>8 DEF RepoInv, OwnedConfigs
    <3> QED
      BY <3>1, <3>2
  <2>2. ASSUME NEW q \in Request, seen'[q] # None
        PROVE  seen'[q].uid <= ever' /\ (~crossed' => owner'[seen'[q].uid] = seen'[q].project)
    BY <2>2, <1>7, <1>9 DEF RepoInv, OwnedConfigs
  <2> QED
    BY <2>1, <2>2 DEF OwnedConfigs
<1>11. Home'
  BY <1>2, <1>3 DEF RepoInv, Home
<1> QED
  BY <1>4, <1>5, <1>10, <1>11

(* What another request has read is old from now on. *)
LEMMA OthersGoOn ==
  ASSUME RepoInv, NEW o \in Request,
         stage'[o] = stage[o], order'[o] = order[o], seen'[o] = seen[o],
         alone'[o] = (seen[o] = None)
  PROVE  Handled(o)' /\ Between(o)'
<1>1. Handled(o) /\ Between(o)
  BY DEF RepoInv
<1>2. Handled(o)'
  BY <1>1 DEF Handled
<1>3. stage[o] \in Seeing => ~alone'[o]
  BY <1>1 DEF Handled
<1> QED
  BY <1>2, <1>3 DEF Between

\* A body and a configuration that are there.
LEMMA Bodied ==
  ASSUME RepoInv, NEW q \in Request, order[q] # None
  PROVE  /\ order[q].body \in Repos!Bodies /\ order[q].granted \in Tenant
         /\ order[q].body.op \in {"create", "update", "delete"}
         /\ order[q].body.op = "create" => order[q].body.url \in Repo /\ order[q].body.project \in Tenant
                                           /\ order[q].body.branch = "main"
         /\ order[q].body.op # "create" => order[q].body.id \in Repo
         /\ order[q].body.op = "update" => /\ order[q].body.url \in {None} \cup Repo
                                           /\ order[q].body.branch \in {None, "dev"}
                                           /\ order[q].body.creds \in BOOLEAN
<1>1. order[q].body \in Repos!Bodies /\ order[q].granted \in Tenant
  BY DEF RepoInv, RepoTypes
<1> QED
  BY <1>1 DEF Repos!Bodies

\* Every configuration that is written is owned, or was.
LEMMA StillOwned ==
  ASSUME OwnedConfigs, UNCHANGED <<ever, owner>>, crossed => crossed',
         \A q \in Request : seen'[q] \in {seen[q], None},
         \A j \in Repo :
           \/ configs'[j] \in {configs[j], None}
           \/ /\ configs'[j].uid <= ever
              /\ ~crossed' => owner[configs'[j].uid] = configs'[j].project
  PROVE  OwnedConfigs'
<1>1. ASSUME NEW j \in Repo, configs'[j] # None
      PROVE  configs'[j].uid <= ever' /\ (~crossed' => owner'[configs'[j].uid] = configs'[j].project)
  <2>1. CASE configs'[j] \in {configs[j], None}
    BY <1>1, <2>1 DEF OwnedConfigs
  <2>2. CASE ~(configs'[j] \in {configs[j], None})
    BY <2>2
  <2> QED
    BY <2>1, <2>2
<1>2. ASSUME NEW q \in Request, seen'[q] # None
      PROVE  seen'[q].uid <= ever' /\ (~crossed' => owner'[seen'[q].uid] = seen'[q].project)
  <2>1. seen'[q] = seen[q]
    BY <1>2
  <2> QED
    BY <1>2, <2>1 DEF OwnedConfigs
<1> QED
  BY <1>1, <1>2 DEF OwnedConfigs

\* Every URL that is written is marked as moved, or was there.
LEMMA StillHome ==
  ASSUME Home, moved \subseteq moved', NEW i \in Repo, configs[i] # None, configs'[i] # None,
         \A j \in Repo : j # i => configs'[j] = configs[j],
         configs'[i].uid = configs[i].uid,
         configs'[i].url = configs[i].url \/ configs[i].uid \in moved'
  PROVE  Home'
<1> SUFFICES ASSUME NEW j \in Repo, configs'[j] # None, configs'[j].uid \notin moved'
             PROVE  configs'[j].url = j
  BY DEF Home
<1>1. configs[j] # None /\ configs[j].uid \notin moved
  OBVIOUS
<1>2. configs[j].url = j
  BY <1>1 DEF Home
<1> QED
  BY <1>2

LEMMA RepoInvStep == RepoInv /\ [Repos!Next]_(Repos!vars) => RepoInv'
<1> SUFFICES ASSUME RepoInv, [Repos!Next]_(Repos!vars) PROVE RepoInv'
  OBVIOUS
<1> USE DEF Repos!Body
<1>0. ASSUME NEW q \in Request, Repos!Refuse(q) \/ Repos!Fault(q) PROVE RepoInv'
  BY <1>0, RequestEnds DEF Repos!Refuse, Repos!Fault
<1>1. ASSUME Repos!OtherClient PROVE RepoInv'
  <2>1. /\ UNCHANGED <<order, stage, seen, crossed, trespassed, moved, unkept>>
        /\ alone' = [o \in Request |-> seen[o] = None]
    BY <1>1 DEF Repos!OtherClient
  <2>2. \A q \in Request : Handled(q)' /\ Between(q)'
    BY <2>1, OthersGoOn
  <2>3. PICK i \in Repo :
          \/ configs[i] # None /\ configs' = [configs EXCEPT ![i] = None] /\ UNCHANGED <<ever, owner>>
          \/ /\ configs[i] = None /\ ever < MaxConfigs /\ ever' = ever + 1
             /\ \E p \in Tenant :
                  /\ configs' = [configs EXCEPT ![i] = Repos!Config(ever + 1, i, p, "main", None)]
                  /\ owner' = [owner EXCEPT ![ever + 1] = p]
    BY <1>1 DEF Repos!OtherClient
  <2>4. /\ configs' \in [Repo -> Repos!Configs \cup {None}] /\ ever' \in 0 .. MaxConfigs
        /\ owner' \in [1 .. MaxConfigs -> Tenant \cup {None}] /\ OwnedConfigs' /\ Home'
    <3>1. CASE configs[i] # None
      BY <2>1, <2>3, <3>1 DEF RepoInv, RepoTypes, OwnedConfigs, Home
    <3>2. CASE configs[i] = None
      <4>1. PICK p \in Tenant :
              /\ configs' = [configs EXCEPT ![i] = Repos!Config(ever + 1, i, p, "main", None)]
              /\ owner' = [owner EXCEPT ![ever + 1] = p]
        BY <2>3, <3>2
      <4> QED
        BY <2>1, <2>3, <3>2, <4>1, ConfigAppears
    <3> QED
      BY <3>1, <3>2
  <2>5. RepoTypes'
    BY <2>1, <2>4 DEF RepoInv, RepoTypes
  <2> QED
    BY <2>1, <2>2, <2>4, <2>5 DEF RepoInv, Repos!AccessHolds, Repos!AnswersAreKept
<1>2. ASSUME NEW q \in Request, Repos!Arrive(q) PROVE RepoInv'
  <2>1. PICK b \in Repos!Bodies, p \in Tenant : order' = [order EXCEPT ![q] = [body |-> b, granted |-> p]]
    BY <1>2 DEF Repos!Arrive
  <2>2. /\ stage[q] = "new" /\ stage' = [stage EXCEPT ![q] = "read"]
        /\ UNCHANGED <<configs, ever, owner, seen, alone, crossed, trespassed, moved, unkept>>
    BY <1>2 DEF Repos!Arrive, Repos!Store, Repos!ghosts
  <2>3. RepoTypes'
    BY <2>1, <2>2 DEF RepoInv, RepoTypes
  <2>4. OwnedConfigs' /\ Home'
    BY <2>2 DEF RepoInv, OwnedConfigs, Home
  <2>5. ASSUME NEW o \in Request PROVE Handled(o)' /\ Between(o)'
    <3>1. CASE o = q
      <4>1. stage'[q] = "read" /\ order'[q] = [body |-> b, granted |-> p]
        BY <2>1, <2>2 DEF RepoInv, RepoTypes
      <4>2. order'[q] # None
        BY <4>1, ServicesAssumption
      <4> QED
        BY <3>1, <4>1, <4>2 DEF Handled, Between, Seeing, Granted
    <3>2. CASE o # q
      <4>1. stage'[o] = stage[o] /\ order'[o] = order[o]
        BY <2>1, <2>2, <3>2 DEF RepoInv, RepoTypes
      <4>2. Handled(o) /\ Between(o)
        BY DEF RepoInv
      <4> QED
        BY <2>2, <4>1, <4>2 DEF Handled, Between, Repos!Config, Repos!NewUrl, Repos!NewBranch
    <3> QED
      BY <3>1, <3>2
  <2> QED
    BY <2>2, <2>3, <2>4, <2>5 DEF RepoInv, Repos!AccessHolds, Repos!AnswersAreKept
<1>3. ASSUME NEW q \in Request, Repos!CreateRepositoryConfig(q) PROVE RepoInv'
  <2>1. stage[q] = "read" /\ order[q].body.op = "create" /\ order[q] # None
    BY <1>3 DEF Repos!CreateRepositoryConfig, RepoInv, Handled
  <2> DEFINE i == order[q].body.url
  <2>2. i \in Repo /\ order[q].body.project \in Tenant /\ order[q].body.branch = "main"
    BY <2>1, Bodied
  <2>3. CASE ~(Repos!Refuse(q) \/ Repos!Fault(q))
    <3>1. /\ Repos!Done(q) /\ Repos!Changed(q)
          /\ configs[i] = None /\ ever < MaxConfigs /\ ever' = ever + 1
          /\ configs' = [configs EXCEPT ![i] =
               Repos!Config(ever + 1, i, order[q].body.project, "main", q)]
          /\ owner' = [owner EXCEPT ![ever + 1] = order[q].body.project]
          /\ UNCHANGED <<crossed, trespassed, moved, unkept>>
      BY <1>3, <2>2, <2>3 DEF Repos!CreateRepositoryConfig
    <3>2. /\ stage' = [stage EXCEPT ![q] = "done"] /\ order' = [order EXCEPT ![q] = None]
          /\ seen' = [seen EXCEPT ![q] = None]
          /\ alone' = [o \in Request |-> seen[o] = None \/ (alone[o] /\ o = q)]
      BY <3>1 DEF Repos!Done, Repos!Changed
    <3>3. \A o \in Request : seen'[o] \in {seen[o], None}
      BY <3>2 DEF RepoInv, RepoTypes
    <3>4. /\ configs' \in [Repo -> Repos!Configs \cup {None}] /\ ever' \in 0 .. MaxConfigs
          /\ owner' \in [1 .. MaxConfigs -> Tenant \cup {None}] /\ OwnedConfigs' /\ Home'
      BY <2>2, <3>1, <3>3, ConfigAppears
    <3>5. RepoTypes'
      BY <3>1, <3>2, <3>4 DEF RepoInv, RepoTypes
    <3>6. ASSUME NEW o \in Request PROVE Handled(o)' /\ Between(o)'
      <4>1. CASE o = q
        BY <3>2, <4>1 DEF RepoInv, RepoTypes, Handled, Between, Seeing, Granted
      <4>2. CASE o # q
        BY <3>2, <4>2, OthersGoOn DEF RepoInv, RepoTypes
      <4> QED
        BY <4>1, <4>2
    <3> QED
      BY <3>1, <3>4, <3>5, <3>6 DEF RepoInv, Repos!AccessHolds, Repos!AnswersAreKept
  <2> QED
    BY <1>0, <2>3
<1>4. ASSUME NEW q \in Request, Repos!GetRepositoryConfig(q) PROVE RepoInv'
  <2>1. stage[q] = "read" /\ order[q].body.op # "create" /\ order[q] # None
    BY <1>4 DEF Repos!GetRepositoryConfig, RepoInv, Handled
  <2> DEFINE i == order[q].body.id
  <2>2. i \in Repo /\ order[q].body.op \in {"update", "delete"}
    BY <2>1, Bodied
  <2>3. CASE configs[i] # None /\ Repos!Goto(q, "check") /\ seen' = [seen EXCEPT ![q] = configs[i]]
    <3>1. /\ stage' = [stage EXCEPT ![q] = "check"] /\ seen' = [seen EXCEPT ![q] = configs[i]]
          /\ alone' \in {alone, [alone EXCEPT ![q] = TRUE]}
          /\ UNCHANGED <<configs, ever, owner, order, crossed, trespassed, moved, unkept>>
      BY <1>4, <2>3 DEF Repos!GetRepositoryConfig, Repos!Goto, Repos!Refuse, Repos!Fault, Repos!Store,
                        Repos!ghosts
    <3>2. RepoTypes'
      BY <2>2, <3>1 DEF RepoInv, RepoTypes, Seeing
    <3>3. seen'[q] = configs[i] /\ \A o \in Request : o # q => seen'[o] = seen[o]
      BY <3>1 DEF RepoInv, RepoTypes
    <3>4. OwnedConfigs' /\ Home'
      BY <2>2, <3>1, <3>3 DEF RepoInv, OwnedConfigs, Home
    <3>5. ASSUME NEW o \in Request PROVE Handled(o)' /\ Between(o)'
      <4>1. CASE o = q
        <5>1. stage'[q] = "check"
          BY <3>1 DEF RepoInv, RepoTypes
        <5> QED
          BY <2>1, <2>2, <2>3, <3>1, <3>3, <4>1, <5>1 DEF Handled, Between, Seeing, Granted
      <4>2. CASE o # q
        <5>1. stage'[o] = stage[o] /\ alone'[o] = alone[o] /\ seen'[o] = seen[o]
          BY <3>1, <4>2 DEF RepoInv, RepoTypes
        <5>2. Handled(o) /\ Between(o)
          BY DEF RepoInv
        <5> QED
          BY <3>1, <5>1, <5>2 DEF Handled, Between, Repos!Config, Repos!NewUrl, Repos!NewBranch
      <4> QED
        BY <4>1, <4>2
    <3> QED
      BY <3>1, <3>2, <3>4, <3>5 DEF RepoInv, Repos!AccessHolds, Repos!AnswersAreKept
  <2> QED
    BY <1>0, <1>4, <2>3 DEF Repos!GetRepositoryConfig
<1>5. ASSUME NEW q \in Request, Repos!CheckAccess(q) PROVE RepoInv'
  <2>1. /\ stage[q] = "check" /\ order[q] # None /\ seen[q] # None
        /\ order[q].body.op \in {"update", "delete"}
    BY <1>5 DEF Repos!CheckAccess, RepoInv, Handled, Seeing
  <2>2. CASE seen[q].project = order[q].granted
    <3> DEFINE s == CASE order[q].body.op = "delete" -> "delete"
                      [] order[q].body.op = "update" /\ order[q].body.creds -> "credentials"
                      [] OTHER -> "metadata"
    <3>1. /\ s \in Granted /\ (s = "delete" <=> order[q].body.op = "delete")
          /\ s = "credentials" => order[q].body.creds
          /\ s = "metadata" => order[q].body.op = "update" /\ ~order[q].body.creds
      BY <2>1 DEF Granted
    <3>2. /\ stage' = [stage EXCEPT ![q] = s]
          /\ UNCHANGED <<configs, ever, owner, order, seen, alone, crossed, trespassed, moved, unkept>>
      BY <1>5, <2>2 DEF Repos!CheckAccess, Repos!AfterCheck, Repos!Goto, Repos!Store, Repos!ghosts
    <3> HIDE DEF s
    <3>3. RepoTypes' /\ stage'[q] = s
      BY <3>1, <3>2 DEF RepoInv, RepoTypes, Seeing, Granted
    <3>4. OwnedConfigs' /\ Home'
      BY <3>2 DEF RepoInv, OwnedConfigs, Home
    <3>5. ASSUME NEW o \in Request PROVE Handled(o)' /\ Between(o)'
      <4>1. CASE o = q
        <5>1. Handled(q)'
          BY <2>1, <2>2, <3>1, <3>2, <3>3 DEF Handled, Seeing, Granted
        <5>2. alone[q] => configs[order[q].body.id] = seen[q]
          BY <2>1 DEF RepoInv, Between, Seeing
        <5>3. Between(q)'
          BY <3>1, <3>2, <3>3, <5>2 DEF Between
        <5> QED
          BY <4>1, <5>1, <5>3
      <4>2. CASE o # q
        <5>1. stage'[o] = stage[o]
          BY <3>2, <4>2 DEF RepoInv, RepoTypes
        <5>2. Handled(o) /\ Between(o)
          BY DEF RepoInv
        <5> QED
          BY <3>2, <5>1, <5>2 DEF Handled, Between, Repos!Config, Repos!NewUrl, Repos!NewBranch
      <4> QED
        BY <4>1, <4>2
    <3> QED
      BY <3>2, <3>3, <3>4, <3>5 DEF RepoInv, Repos!AccessHolds, Repos!AnswersAreKept
  <2> QED
    BY <1>0, <1>5, <2>2 DEF Repos!CheckAccess
<1>6. ASSUME NEW q \in Request, Repos!UpdateRepositorySecret(q) PROVE RepoInv'
  <2>1. /\ stage[q] = "credentials" /\ order[q] # None /\ seen[q] # None
        /\ order[q].body.op = "update" /\ order[q].body.creds /\ seen[q].project = order[q].granted
    BY <1>6 DEF Repos!UpdateRepositorySecret, RepoInv, Handled, Seeing, Granted
  <2> DEFINE i == order[q].body.id
             c == Repos!Config(configs[i].uid, Repos!NewUrl(q), seen[q].project, Repos!NewBranch(q), q)
  <2>2. i \in Repo
    BY <2>1, Bodied
  <2>3. CASE ~(Repos!Refuse(q) \/ Repos!Fault(q))
    <3>1. /\ configs[i] # None
          /\ configs' = [configs EXCEPT ![i] = c] /\ stage' = [stage EXCEPT ![q] = "metadata"]
          /\ moved' = IF Repos!NewUrl(q) = configs[i].url THEN moved ELSE moved \cup {configs[i].uid}
          /\ UNCHANGED <<ever, owner, order, seen, unkept>>
          /\ alone' = [o \in Request |-> seen[o] = None \/ (alone[o] /\ o = q)]
          /\ crossed' = (crossed \/ configs[i].uid # seen[q].uid)
          /\ trespassed' = (trespassed \/ owner[configs[i].uid] # order[q].granted)
      BY <1>6, <2>3 DEF Repos!UpdateRepositorySecret, Repos!Goto, Repos!Touch, Repos!Changed
    <3>2. configs[i] \in Repos!Configs /\ seen[q] \in Repos!Configs
      BY <2>1, <2>2, <3>1 DEF RepoInv, RepoTypes
    <3>3. c \in Repos!Configs /\ c.uid = configs[i].uid /\ c.url = Repos!NewUrl(q)
          /\ c.project = seen[q].project /\ c # None
      BY <2>1, <3>2, Bodied, ServicesAssumption
         DEF Repos!Configs, Repos!Config, Repos!NewUrl, Repos!NewBranch, Repos!Branch
    <3>4. alone'[q] = alone[q] /\ \A o \in Request : o # q => alone'[o] = (seen[o] = None)
      BY <2>1, <3>1 DEF RepoInv, RepoTypes
    <3>5. stage'[q] = "metadata" /\ \A o \in Request : o # q => stage'[o] = stage[o]
      BY <3>1 DEF RepoInv, RepoTypes
    <3>6. Between(q)'
      <4>1. alone[q] => configs[i] = seen[q]
        BY <2>1 DEF RepoInv, Between, Seeing
      <4>2. Repos!NewUrl(q)' = Repos!NewUrl(q) /\ Repos!NewBranch(q)' = Repos!NewBranch(q)
        BY <3>1 DEF Repos!NewUrl, Repos!NewBranch
      <4>3. configs'[i] = c
        BY <2>2, <3>1 DEF RepoInv, RepoTypes
      <4> QED
        BY <2>1, <3>1, <3>4, <3>5, <4>1, <4>2, <4>3 DEF Between
    <3>7. Handled(q)'
      BY <2>1, <3>1, <3>5 DEF Handled, Seeing, Granted
    <3>8. \A o \in Request : Handled(o)' /\ Between(o)'
      BY <3>1, <3>4, <3>5, <3>6, <3>7, OthersGoOn
    <3> HIDE DEF c
    <3>9. RepoTypes'
      BY <3>1, <3>3 DEF RepoInv, RepoTypes, Seeing
    <3>10. \A j \in Repo : configs'[j] = IF j = i THEN c ELSE configs[j]
      BY <3>1 DEF RepoInv, RepoTypes
    <3>11. /\ configs[i].uid <= ever
           /\ ~crossed' => ~crossed /\ configs[i].uid = seen[q].uid
                           /\ owner[configs[i].uid] = seen[q].project
      BY <2>1, <2>2, <3>1 DEF RepoInv, OwnedConfigs
    <3>12. OwnedConfigs'
      BY <3>1, <3>3, <3>10, <3>11, StillOwned DEF RepoInv
    <3>13. Home'
      <4>1. /\ \A j \in Repo : j # i => configs'[j] = configs[j]
            /\ configs'[i] # None /\ configs'[i].uid = configs[i].uid
        BY <2>2, <3>3, <3>10
      <4>2. moved \subseteq moved' /\ (configs'[i].url = configs[i].url \/ configs[i].uid \in moved')
        BY <2>2, <3>1, <3>3, <3>10
      <4> QED
        BY <2>2, <3>1, <4>1, <4>2, StillHome DEF RepoInv
    <3>14. Repos!AccessHolds' /\ Repos!AnswersAreKept'
      BY <2>1, <3>1, <3>11 DEF RepoInv, Repos!AccessHolds, Repos!AnswersAreKept
    <3> QED
      BY <3>8, <3>9, <3>12, <3>13, <3>14 DEF RepoInv
  <2> QED
    BY <1>0, <2>3
<1>7. ASSUME NEW q \in Request, Repos!UpdateRepositoryMetadata(q) PROVE RepoInv'
  <2>1. /\ stage[q] = "metadata" /\ order[q] # None /\ seen[q] # None
        /\ order[q].body.op = "update" /\ seen[q].project = order[q].granted
    BY <1>7 DEF Repos!UpdateRepositoryMetadata, RepoInv, Handled, Seeing, Granted
  <2> DEFINE i == order[q].body.id
             b == Repos!NewBranch(q)
             c == [configs[i] EXCEPT !.branch = b]
  <2>2. i \in Repo
    BY <2>1, Bodied
  <2>3. CASE ~(Repos!Refuse(q) \/ Repos!Fault(q))
    <3>1. /\ configs[i] # None /\ configs' = [configs EXCEPT ![i].branch = b]
          /\ Repos!Touch(q, i) /\ Repos!Done(q)
          /\ unkept' = (unkept \/ (alone[q] /\ configs'[i] # Repos!Promised(q)))
          /\ UNCHANGED <<ever, owner, moved>>
      BY <1>7, <2>3 DEF Repos!UpdateRepositoryMetadata
    <3>2. /\ stage' = [stage EXCEPT ![q] = "done"] /\ order' = [order EXCEPT ![q] = None]
          /\ seen' = [seen EXCEPT ![q] = None]
          /\ alone' = [o \in Request |-> seen[o] = None \/ (alone[o] /\ o = q)]
          /\ crossed' = (crossed \/ configs[i].uid # seen[q].uid)
          /\ trespassed' = (trespassed \/ owner[configs[i].uid] # order[q].granted)
      BY <3>1 DEF Repos!Touch, Repos!Changed, Repos!Done
    <3>3. configs[i] \in Repos!Configs /\ seen[q] \in Repos!Configs
      BY <2>1, <2>2, <3>1 DEF RepoInv, RepoTypes
    <3>4. b \in Repos!Branch /\ Repos!NewUrl(q) \in Repo
      BY <2>1, <3>3, Bodied DEF Repos!NewUrl, Repos!NewBranch, Repos!Configs, Repos!Branch
    <3>5. /\ c \in Repos!Configs /\ c.uid = configs[i].uid /\ c.url = configs[i].url
          /\ c.project = configs[i].project /\ c.creds = configs[i].creds /\ c.branch = b
      BY <3>3, <3>4 DEF Repos!Configs
    <3>6. configs' = [configs EXCEPT ![i] = c]
      BY <3>1
    <3>7. c # None
      BY <3>5, ServicesAssumption
    <3> HIDE DEF b, c
    <3>8. \A j \in Repo : configs'[j] = IF j = i THEN c ELSE configs[j]
      BY <3>6 DEF RepoInv, RepoTypes
    <3>9. RepoTypes'
      BY <3>1, <3>2, <3>5, <3>6 DEF RepoInv, RepoTypes
    <3>10. \A o \in Request : o # q => /\ stage'[o] = stage[o] /\ order'[o] = order[o]
                                       /\ seen'[o] = seen[o] /\ alone'[o] = (seen[o] = None)
      BY <3>2 DEF RepoInv, RepoTypes
    <3>11. Handled(q)' /\ Between(q)' /\ seen'[q] = None
      BY <3>2 DEF RepoInv, RepoTypes, Handled, Between, Seeing, Granted
    <3>12. \A o \in Request : Handled(o)' /\ Between(o)'
      BY <3>10, <3>11, OthersGoOn
    <3>13. OwnedConfigs'
      <4>1. \A o \in Request : seen'[o] \in {seen[o], None}
        BY <3>10, <3>11
      <4>2. configs[i].uid <= ever /\ (~crossed' => owner[configs[i].uid] = configs[i].project)
        BY <2>2, <3>1, <3>2 DEF RepoInv, OwnedConfigs
      <4>3. \A j \in Repo : \/ configs'[j] \in {configs[j], None}
                             \/ /\ configs'[j].uid <= ever
                                /\ ~crossed' => owner[configs'[j].uid] = configs'[j].project
        BY <3>5, <3>8, <4>2
      <4>4. UNCHANGED <<ever, owner>> /\ (crossed => crossed') /\ OwnedConfigs
        BY <3>1, <3>2 DEF RepoInv
      <4> QED
        BY <4>1, <4>3, <4>4, StillOwned
    <3>14. Home'
      <4>1. /\ \A j \in Repo : j # i => configs'[j] = configs[j]
            /\ configs'[i] # None /\ configs'[i].uid = configs[i].uid /\ configs'[i].url = configs[i].url
        BY <2>2, <3>5, <3>7, <3>8
      <4> QED
        BY <2>2, <3>1, <4>1, StillHome DEF RepoInv
    <3>15. Repos!AccessHolds'
      BY <2>1, <2>2, <3>1, <3>2 DEF RepoInv, OwnedConfigs, Repos!AccessHolds
    <3>16. alone[q] => c = Repos!Promised(q)
      <4>1. alone[q] => configs[i] = IF order[q].body.creds
              THEN Repos!Config(seen[q].uid, Repos!NewUrl(q), seen[q].project, Repos!NewBranch(q), q)
              ELSE seen[q]
        BY <2>1 DEF RepoInv, Between, Seeing
      <4>2. order[q].body.creds \in BOOLEAN
        BY <2>1, Bodied
      <4>3. c = Repos!Config(configs[i].uid, configs[i].url, configs[i].project, b, configs[i].creds)
        BY <3>3, <3>4 DEF c, Repos!Configs, Repos!Config
      <4>4. CASE order[q].body.creds
        BY <4>1, <4>3, <4>4 DEF Repos!Promised, Repos!Config, b
      <4>5. CASE ~order[q].body.creds
        BY <4>1, <4>3, <4>5 DEF Repos!Promised, Repos!NewUrl, b
      <4> QED
        BY <4>2, <4>4, <4>5
    <3>17. Repos!AnswersAreKept'
      BY <2>2, <3>1, <3>8, <3>16 DEF RepoInv, Repos!AnswersAreKept
    <3> QED
      BY <3>9, <3>12, <3>13, <3>14, <3>15, <3>17 DEF RepoInv
  <2> QED
    BY <1>0, <2>3
<1>8. ASSUME NEW q \in Request, Repos!DeleteRepositoryConfig(q) PROVE RepoInv'
  <2>1. /\ stage[q] = "delete" /\ order[q] # None /\ seen[q] # None
        /\ order[q].body.op = "delete" /\ seen[q].project = order[q].granted
    BY <1>8 DEF Repos!DeleteRepositoryConfig, RepoInv, Handled, Seeing, Granted
  <2> DEFINE i == order[q].body.id
  <2>2. i \in Repo
    BY <2>1, Bodied
  <2>3. CASE ~(Repos!Refuse(q) \/ Repos!Fault(q))
    <3>1. /\ configs[i] # None /\ configs' = [configs EXCEPT ![i] = None]
          /\ Repos!Touch(q, i) /\ Repos!Done(q) /\ UNCHANGED <<ever, owner, moved, unkept>>
      BY <1>8, <2>3 DEF Repos!DeleteRepositoryConfig
    <3>2. /\ stage' = [stage EXCEPT ![q] = "done"] /\ order' = [order EXCEPT ![q] = None]
          /\ seen' = [seen EXCEPT ![q] = None]
          /\ alone' = [o \in Request |-> seen[o] = None \/ (alone[o] /\ o = q)]
          /\ crossed' = (crossed \/ configs[i].uid # seen[q].uid)
          /\ trespassed' = (trespassed \/ owner[configs[i].uid] # order[q].granted)
      BY <3>1 DEF Repos!Touch, Repos!Changed, Repos!Done
    <3>3. RepoTypes'
      BY <3>1, <3>2 DEF RepoInv, RepoTypes
    <3>4. \A o \in Request : o # q => /\ stage'[o] = stage[o] /\ order'[o] = order[o]
                                      /\ seen'[o] = seen[o] /\ alone'[o] = (seen[o] = None)
      BY <3>2 DEF RepoInv, RepoTypes
    <3>5. Handled(q)' /\ Between(q)' /\ seen'[q] = None
      BY <3>2 DEF RepoInv, RepoTypes, Handled, Between, Seeing, Granted
    <3>6. \A o \in Request : Handled(o)' /\ Between(o)'
      BY <3>4, <3>5, OthersGoOn
    <3>7. \A j \in Repo : configs'[j] \in {configs[j], None}
      BY <3>1 DEF RepoInv, RepoTypes
    <3>8. OwnedConfigs'
      BY <3>1, <3>2, <3>4, <3>5, <3>7, StillOwned DEF RepoInv
    <3>10. Home'
      BY <3>1, <3>7 DEF RepoInv, Home
    <3>9. Repos!AccessHolds' /\ Repos!AnswersAreKept'
      BY <2>1, <2>2, <3>1, <3>2 DEF RepoInv, OwnedConfigs, Repos!AccessHolds, Repos!AnswersAreKept
    <3> QED
      BY <3>3, <3>6, <3>8, <3>9, <3>10 DEF RepoInv
  <2> QED
    BY <1>0, <2>3
<1>9. CASE UNCHANGED Repos!vars
  BY <1>9 DEF Repos!vars, RepoInv, RepoTypes, OwnedConfigs, Home, Handled, Between, Repos!Config, Repos!NewUrl,
              Repos!NewBranch, Repos!AccessHolds, Repos!AnswersAreKept
<1> QED
  BY <1>1, <1>2, <1>3, <1>4, <1>5, <1>6, <1>7, <1>8, <1>9 DEF Repos!Next

(* RepositoryTests: the verdicts are those of one form, which is not changed. *)
TestsInv ==
  /\ filled \in (Tests!SshForm \cup Tests!HttpsForm) \cup Tests!AppForm /\ reply \in Tests!Reply
  /\ tested = TRUE => Tests!Accepts(filled)
  /\ tested = FALSE => ~(Tests!Accepts(filled) /\ Tests!UsesSavedToken(filled))
  /\ saved = TRUE => Tests!Accepts(filled)
  /\ saved = FALSE => ~Tests!Accepts(filled)
  /\ retested = TRUE => Tests!Accepts(filled) /\ Tests!UsesSavedToken(filled)

\* What the first test accepts can be saved, and what the second one accepts passes the first.
LEMMA TestsCompared ==
  ASSUME NEW f \in (Tests!SshForm \cup Tests!HttpsForm) \cup Tests!AppForm
  PROVE  LET verdict == f.fits /\ CASE f.auth = "ssh" -> Tests!TestSSH(f)
                                    [] f.auth = "https" -> Tests!TestHTTPS(f)
                                    [] f.auth = "github-app" -> Tests!TestGitHubApp(f)
         IN /\ verdict => Tests!Accepts(f)
            /\ Tests!Accepts(f) /\ Tests!UsesSavedToken(f) => verdict
<1> USE DEF Tests!Accepts, Tests!UsesSavedToken
<1>1. CASE f \in Tests!SshForm
  <2>1. f.auth = "ssh"
    BY <1>1 DEF Tests!SshForm
  <2> QED
    BY <1>1, <2>1 DEF Tests!SshForm, Tests!TestSSH
<1>2. CASE f \in Tests!HttpsForm
  <2>1. f.auth = "https"
    BY <1>2 DEF Tests!HttpsForm
  <2> QED
    BY <1>2, <2>1 DEF Tests!HttpsForm, Tests!TestHTTPS, Tests!HasHttpsAuth, Tests!GitHubAnswers,
                      Tests!GitLabAnswers, Tests!Host
<1>3. CASE f \in Tests!AppForm
  <2>1. f.auth = "github-app"
    BY <1>3 DEF Tests!AppForm
  <2> QED
    BY <1>3, <2>1 DEF Tests!AppForm, Tests!TestGitHubApp, Tests!HasAppAuth
<1> QED
  BY <1>1, <1>2, <1>3

LEMMA TestsInvInit == AllInit => TestsInv
<1> SUFFICES ASSUME Tests!Init PROVE TestsInv
  BY DEF AllInit
<1>1. None # TRUE /\ None # FALSE
  BY ServicesAssumption
<1> QED
  BY <1>1 DEF Tests!Init, TestsInv

LEMMA TestsInvStep == TestsInv /\ [Tests!Next]_(Tests!vars) => TestsInv'
<1> SUFFICES ASSUME TestsInv, [Tests!Next]_(Tests!vars) PROVE TestsInv'
  OBVIOUS
<1>1. CASE UNCHANGED <<filled, reply>>
  <2> DEFINE a == Tests!Accepts(filled)
             t == Tests!UsesSavedToken(filled)
  <2>1. a' = a /\ t' = t
    BY <1>1 DEF Tests!Accepts, Tests!HasHttpsAuth, Tests!HasAppAuth, Tests!UsesSavedToken
  <2>2. /\ tested' = TRUE => a
        /\ tested' = FALSE => ~(a /\ t)
    <3>1. CASE Tests!TestConnectionWithCredentials
      BY <3>1, TestsCompared DEF Tests!TestConnectionWithCredentials, TestsInv
    <3>2. CASE tested' = tested
      BY <3>2 DEF TestsInv
    <3> QED
      BY <3>1, <3>2 DEF Tests!Next, Tests!CreateRepositoryConfig, Tests!TestRepositoryConnection, Tests!vars
  <2>3. /\ saved' = TRUE => a
        /\ saved' = FALSE => ~a
        /\ retested' = TRUE => a /\ t
    BY DEF TestsInv, Tests!Next, Tests!TestConnectionWithCredentials, Tests!CreateRepositoryConfig,
           Tests!TestRepositoryConnection, Tests!vars
  <2> QED
    BY <1>1, <2>1, <2>2, <2>3 DEF TestsInv
<1> QED
  BY <1>1 DEF Tests!Next, Tests!TestConnectionWithCredentials, Tests!CreateRepositoryConfig,
              Tests!TestRepositoryConnection, Tests!vars

(* A request changes configurations of granted projects only, a repository  *)
(* has one configuration, and an update that ran alone did what it          *)
(* answered (UpdateRepositoryConfig, DeleteRepositoryConfig,                *)
(* GenerateRepositoryConfigIDFromURL); credentials that were tested can be  *)
(* saved, and pass again only if they had (TestConnectionWithCredentials,   *)
(* TestRepositoryConnection).                                               *)
THEOREM RepositoriesStayOwned == AllSpec => []RepositoriesAreOwned
<1>1. AllNext => [Repos!Next]_(Repos!vars) /\ [Tests!Next]_(Tests!vars)
  BY DEF AllNext, reposVars, testsVars, Repos!vars, Tests!vars
<1>2. UNCHANGED allVars => [Repos!Next]_(Repos!vars) /\ [Tests!Next]_(Tests!vars)
  BY DEF allVars, reposVars, testsVars, Repos!vars, Tests!vars
<1>3. RepoInv /\ TestsInv => RepositoriesAreOwned
  <2> SUFFICES ASSUME RepoInv, TestsInv PROVE RepositoriesAreOwned
    OBVIOUS
  <2>1. Repos!OneConfigPerRepository
    BY DEF RepoInv, Home, Repos!OneConfigPerRepository
  <2>2. Tests!TestedIsAccepted /\ Tests!RetestIsStricter
    BY DEF TestsInv, Tests!TestedIsAccepted, Tests!RetestIsStricter, Tests!UsesSavedToken
  <2> QED
    BY <2>1, <2>2 DEF RepoInv, RepositoriesAreOwned
<1> QED
  BY RepoInvInit, RepoInvStep, TestsInvInit, TestsInvStep, <1>1, <1>2, <1>3, PTL DEF AllSpec

-----------------------------------------------------------------------------
(* Wrappers *)

ProjectOf == [owner : Wrapper \cup {None}, dests : BOOLEAN]

WrapTypes ==
  /\ DOMAIN client = Request
  /\ made \in [Wrapper -> BOOLEAN \cup {None}]
  /\ project \in ProjectOf \cup {None}
  /\ switched \in BOOLEAN /\ astray \in BOOLEAN /\ undead \in BOOLEAN
  /\ \A q \in Request : /\ client[q].at \in {"create", "update"} => client[q].dests \in BOOLEAN
                        /\ client[q].at = "update" => client[q].of \in ProjectOf

(* While the registry is as it was, instances, the project and the requests *)
(* that work on it are those of the entry that every replica holds.         *)
OneWrapper ==
  /\ ~unread /\ ~astray /\ ~undead
  /\ \A w \in Wrapper : made[w] # None => w = entry
  /\ project # None => project.owner = entry
  /\ \A q \in Request : /\ client[q].at # "idle" => client[q].via = entry
                        /\ client[q].at \in {"update", "delete"} => client[q].of.owner = entry

WrapInv == WrapTypes /\ (~switched => OneWrapper)

LEMMA WrapInvInit == AllInit => WrapInv
<1> SUFFICES ASSUME Wrap!Init PROVE WrapInv
  BY DEF AllInit
<1>1. WrapTypes
  BY DEF Wrap!Init, WrapTypes, Wrap!Away
<1>2. OneWrapper
  BY DEF Wrap!Init, OneWrapper, Wrap!Away
<1> QED
  BY <1>1, <1>2 DEF WrapInv

\* A request ends, and what it did is not astray.
LEMMA WrapEnds ==
  ASSUME WrapInv, NEW q \in Request, Wrap!Done(q), switched' = switched,
         made' \in [Wrapper -> BOOLEAN \cup {None}], project' \in ProjectOf \cup {None},
         astray' \in BOOLEAN, undead' \in BOOLEAN,
         ~switched =>
           /\ ~astray' /\ ~undead'
           /\ \A w \in Wrapper : made'[w] # None => w = entry
           /\ project' # None => project'.owner = entry
  PROVE  WrapInv'
<1>1. /\ client' = [client EXCEPT ![q] = Wrap!Away] /\ UNCHANGED <<registry, unread, entry>>
  BY DEF Wrap!Done, Wrap!Others
<1>2. DOMAIN client' = Request /\ \A o \in Request : client'[o] \in {client[o], Wrap!Away}
  BY <1>1 DEF WrapInv, WrapTypes
<1>3. WrapTypes'
  BY <1>2 DEF WrapInv, WrapTypes, Wrap!Away
<1>4. ~switched => OneWrapper'
  BY <1>1, <1>2 DEF WrapInv, OneWrapper, Wrap!Away
<1> QED
  BY <1>3, <1>4 DEF WrapInv

LEMMA WrapInvStep == WrapInv /\ [Wrap!Next]_(Wrap!vars) => WrapInv'
<1> SUFFICES ASSUME WrapInv, [Wrap!Next]_(Wrap!vars) PROVE WrapInv'
  OBVIOUS
<1>1. ASSUME switched', UNCHANGED <<made, project, client, astray, undead>>, switched' \in BOOLEAN
      PROVE  WrapInv'
  BY <1>1 DEF WrapInv, WrapTypes
<1>2. ASSUME (\E w \in Wrapper : Wrap!PutWrapper(w)) \/ Wrap!DeleteWrapper \/ Wrap!KubeEdit
      PROVE  WrapInv'
  BY <1>1, <1>2 DEF Wrap!PutWrapper, Wrap!DeleteWrapper, Wrap!KubeEdit, Wrap!Switch, Wrap!history
<1>3. CASE Wrap!Reload
  BY <1>3 DEF Wrap!Reload, Wrap!history, WrapInv, WrapTypes, OneWrapper
<1>4. CASE UNCHANGED <<unread, entry, made, project, client, switched, astray, undead>>
  BY <1>4 DEF WrapInv, WrapTypes, OneWrapper
<1>5. CASE Wrap!Readiness
  BY <1>4, <1>5 DEF Wrap!Readiness, Wrap!history
<1>6. ASSUME NEW w \in Wrapper, Wrap!Materialize(w) PROVE WrapInv'
  <2>1. /\ made[w] # None /\ project' = [owner |-> w, dests |-> made[w]]
        /\ UNCHANGED <<unread, entry, made, client, switched, astray, undead>>
    BY <1>6 DEF Wrap!Materialize, Wrap!history
  <2>2. project' \in ProjectOf
    BY <2>1 DEF WrapInv, WrapTypes, ProjectOf
  <2> QED
    BY <2>1, <2>2 DEF WrapInv, WrapTypes, OneWrapper
<1>7. ASSUME NEW w \in Wrapper, Wrap!Collect(w) PROVE WrapInv'
  BY <1>7 DEF Wrap!Collect, Wrap!history, WrapInv, WrapTypes, OneWrapper
<1>8. ASSUME NEW q \in Request, Wrap!Ask(q) PROVE WrapInv'
  <2> DEFINE Fits(c) ==
               /\ c.at \in {"create", "update", "delete"}
               /\ c.at \in {"create", "update"} => c.dests \in BOOLEAN
               /\ c.at = "update" => c.of \in ProjectOf
               /\ \/ switched' = TRUE
                  \/ /\ switched' = switched
                     /\ c.at = "create" => c.via = entry
                     /\ c.at # "create" => /\ project # None /\ c.of = project
                                           /\ c.via = Wrap!Route(project)
  <2>1. \E c : client' = [client EXCEPT ![q] = c] /\ Fits(c)
    <3>1. project # None => project \in ProjectOf
      BY DEF WrapInv, WrapTypes
    <3>2. ASSUME NEW d \in BOOLEAN, switched' = switched,
                 client' = [client EXCEPT ![q] = [at |-> "create", via |-> entry, dests |-> d]]
          PROVE  \E c : client' = [client EXCEPT ![q] = c] /\ Fits(c)
      <4>1. Fits([at |-> "create", via |-> entry, dests |-> d])
        BY <3>2
      <4> QED
        BY <3>2, <4>1
    <3>3. ASSUME NEW d \in BOOLEAN, switched' = switched, project # None,
                 client' = [client EXCEPT ![q] =
                   [at |-> "update", via |-> Wrap!Route(project), dests |-> d, of |-> project]]
          PROVE  \E c : client' = [client EXCEPT ![q] = c] /\ Fits(c)
      <4>1. Fits([at |-> "update", via |-> Wrap!Route(project), dests |-> d, of |-> project])
        BY <3>1, <3>3
      <4> QED
        BY <3>3, <4>1
    <3>4. ASSUME switched' = switched, project # None,
                 client' = [client EXCEPT ![q] =
                   [at |-> "delete", via |-> Wrap!Route(project), of |-> project]]
          PROVE  \E c : client' = [client EXCEPT ![q] = c] /\ Fits(c)
      <4>1. Fits([at |-> "delete", via |-> Wrap!Route(project), of |-> project])
        BY <3>4
      <4> QED
        BY <3>4, <4>1
    <3>5. ASSUME switched' = TRUE,
                 client' = [client EXCEPT ![q] = [at |-> "delete", via |-> None, of |-> project]]
          PROVE  \E c : client' = [client EXCEPT ![q] = c] /\ Fits(c)
      <4>1. Fits([at |-> "delete", via |-> None, of |-> project])
        BY <3>5
      <4> QED
        BY <3>5, <4>1
    <3> HIDE DEF Fits
    <3> QED
      BY <1>8, <3>2, <3>3, <3>4, <3>5 DEF Wrap!Ask
  <2> PICK c : client' = [client EXCEPT ![q] = c] /\ Fits(c)
    BY <2>1
  <2>2. UNCHANGED <<unread, entry, made, project, astray, undead>>
    BY <1>8 DEF Wrap!Ask, Wrap!Others, Wrap!history
  <2>3. \A o \in Request : client'[o] = IF o = q THEN c ELSE client[o]
    BY DEF WrapInv, WrapTypes
  <2>4. WrapTypes'
    BY <2>2, <2>3 DEF WrapInv, WrapTypes
  <2>5. ~switched' => OneWrapper'
    BY <2>2, <2>3 DEF WrapInv, WrapTypes, OneWrapper, Wrap!Route
  <2> QED
    BY <2>4, <2>5 DEF WrapInv
<1>9. ASSUME NEW q \in Request, Wrap!Refused(q) PROVE WrapInv'
  <2>1. Wrap!Done(q) /\ UNCHANGED <<made, project, switched, astray, undead>>
    BY <1>9 DEF Wrap!Refused, Wrap!history
  <2> QED
    BY <2>1, WrapEnds DEF WrapInv, WrapTypes, OneWrapper
<1> DEFINE e(q) == client[q].via
<1>10. ASSUME NEW q \in Request, Wrap!Create(q) PROVE WrapInv'
  <2>1. /\ client[q].at = "create" /\ client[q].dests \in BOOLEAN /\ Wrap!Done(q)
        /\ UNCHANGED <<switched, astray, undead>>
    BY <1>10 DEF Wrap!Create, Wrap!history, WrapInv, WrapTypes
  <2>2. ~switched => e(q) = entry
    BY <2>1 DEF WrapInv, OneWrapper
  <2>3. CASE e(q) = None
    <3>1. project' = [owner |-> None, dests |-> client[q].dests] /\ made' = made
      BY <1>10, <2>3 DEF Wrap!Create
    <3>2. project' \in ProjectOf
      BY <2>1, <3>1 DEF ProjectOf
    <3> QED
      BY <2>1, <2>2, <2>3, <3>1, <3>2, WrapEnds DEF WrapInv, WrapTypes, OneWrapper
  <2>4. CASE e(q) # None
    <3>1. made' = [made EXCEPT ![e(q)] = client[q].dests] /\ project' = project
      BY <1>10, <2>4 DEF Wrap!Create
    <3>2. /\ made' \in [Wrapper -> BOOLEAN \cup {None}]
          /\ \A w \in Wrapper : made'[w] # made[w] => w = e(q)
      BY <2>1, <3>1 DEF WrapInv, WrapTypes
    <3> QED
      BY <2>1, <2>2, <3>1, <3>2, WrapEnds DEF WrapInv, WrapTypes, OneWrapper
  <2> QED
    BY <2>3, <2>4
<1>11. ASSUME NEW q \in Request, Wrap!Update(q) PROVE WrapInv'
  <2>1. /\ client[q].at = "update" /\ client[q].dests \in BOOLEAN /\ Wrap!Done(q)
        /\ UNCHANGED <<switched, undead>>
        /\ astray' = (astray \/ e(q) # client[q].of.owner)
    BY <1>11 DEF Wrap!Update, WrapInv, WrapTypes
  <2>2. ~switched => e(q) = entry /\ client[q].of.owner = entry /\ ~astray /\ ~undead
    BY <2>1 DEF WrapInv, OneWrapper
  <2>3. astray' \in BOOLEAN /\ undead' \in BOOLEAN /\ (~switched => ~astray' /\ ~undead')
    BY <2>1, <2>2 DEF WrapInv, WrapTypes
  <2>4. CASE e(q) = None
    <3>1. /\ project = client[q].of /\ made' = made
          /\ project' = [project EXCEPT !.dests = @ \/ client[q].dests]
      BY <1>11, <2>4 DEF Wrap!Update
    <3>2. project \in ProjectOf
      BY <2>1, <3>1 DEF WrapInv, WrapTypes
    <3>3. project' \in ProjectOf /\ project'.owner = project.owner
      BY <3>1, <3>2 DEF ProjectOf
    <3>4. project # None
      BY <3>2, ServicesAssumption DEF ProjectOf
    <3> QED
      BY <2>1, <2>2, <2>3, <3>1, <3>3, <3>4, WrapEnds DEF WrapInv, WrapTypes, OneWrapper
  <2>5. CASE e(q) # None
    <3>1. made' = [made EXCEPT ![e(q)] = client[q].dests] /\ project' = project
      BY <1>11, <2>5 DEF Wrap!Update, Wrap!SentDests
    <3>2. /\ made' \in [Wrapper -> BOOLEAN \cup {None}]
          /\ \A w \in Wrapper : made'[w] # made[w] => w = e(q)
      BY <2>1, <3>1 DEF WrapInv, WrapTypes
    <3> QED
      BY <2>1, <2>2, <2>3, <3>1, <3>2, WrapEnds DEF WrapInv, WrapTypes, OneWrapper
  <2> QED
    BY <2>4, <2>5
<1>12. ASSUME NEW q \in Request, Wrap!Delete(q) PROVE WrapInv'
  <2>1. /\ client[q].at = "delete" /\ Wrap!Done(q) /\ switched' = switched
        /\ astray' = (astray \/ e(q) # client[q].of.owner)
        /\ undead' = (undead \/ (e(q) = None /\ \E v \in Wrapper : project.owner = v /\ made[v] # None))
    BY <1>12 DEF Wrap!Delete
  <2>2. ~switched => e(q) = entry /\ client[q].of.owner = entry
    BY <2>1 DEF WrapInv, OneWrapper
  <2>3. ~switched /\ e(q) = None /\ project # None =>
          ~ \E v \in Wrapper : project.owner = v /\ made[v] # None
    BY <2>2, ServicesAssumption DEF WrapInv, OneWrapper
  <2>4. e(q) = None => project # None /\ project' = None /\ made' = made
    BY <1>12 DEF Wrap!Delete
  <2>5. astray' \in BOOLEAN /\ undead' \in BOOLEAN /\ (~switched => ~astray' /\ ~undead')
    BY <2>1, <2>2, <2>3, <2>4 DEF WrapInv, WrapTypes, OneWrapper
  <2>6. CASE e(q) = None
    BY <2>1, <2>2, <2>4, <2>5, <2>6, WrapEnds DEF WrapInv, WrapTypes, OneWrapper
  <2>7. CASE e(q) # None
    <3>1. made' = [made EXCEPT ![e(q)] = None] /\ project' = project
      BY <1>12, <2>7 DEF Wrap!Delete
    <3>2. /\ made' \in [Wrapper -> BOOLEAN \cup {None}]
          /\ \A w \in Wrapper : made'[w] # None => made[w] # None
      BY <3>1 DEF WrapInv, WrapTypes
    <3> QED
      BY <2>1, <2>2, <2>5, <3>1, <3>2, WrapEnds DEF WrapInv, WrapTypes, OneWrapper
  <2> QED
    BY <2>6, <2>7
<1>13. CASE UNCHANGED Wrap!vars
  BY <1>4, <1>13 DEF Wrap!vars
<1> QED
  BY <1>2, <1>3, <1>5, <1>6, <1>7, <1>8, <1>9, <1>10, <1>11, <1>12, <1>13 DEF Wrap!Next

(* While the registry is not changed and the marker can be read, requests   *)
(* for a project work on the instance that owns it, and a project that was  *)
(* deleted does not come back (updateProjectViaWrapper,                     *)
(* deleteProjectViaWrapper).                                                *)
THEOREM WrappedStayOne == AllSpec => []WrappedAreOne
<1>1. AllNext => [Wrap!Next]_(Wrap!vars)
  BY DEF AllNext, wrappersVars, Wrap!vars
<1>2. UNCHANGED allVars => [Wrap!Next]_(Wrap!vars)
  BY DEF allVars, wrappersVars, Wrap!vars
<1>3. WrapInv => WrappedAreOne
  BY DEF WrapInv, OneWrapper, WrappedAreOne, Wrap!SameInstance, Wrap!StaysDeleted
<1> QED
  BY WrapInvInit, WrapInvStep, <1>1, <1>2, <1>3, PTL DEF AllSpec

-----------------------------------------------------------------------------
(* Deployments *)

DepPlace == {"direct", "apply", "patch", "push", "rollback", "drift", "patchSpec", "deleteFile",
             "deleteObject", "done", "failed"}
NeedsSpec == {"direct", "apply", "patch", "push", "rollback", "patchSpec"}
Asked == [pc : DepPlace,
          kind : {"create", "update", "updateHybrid", "delete"}, mode : Dep!Mode,
          spec : Version \cup {None}, clean : BOOLEAN, fresh : BOOLEAN]

DepTypes ==
  /\ live \in Dep!Object \cup {None} /\ manifest \in Dep!Pushed \cup {None}
  /\ ask \in [Request -> Asked \cup {Dep!Idle}]
  /\ \A q \in Request :
       ask[q].pc \in NeedsSpec => ask[q].spec \in Version
  /\ overlap \in BOOLEAN

\* An object that nothing releases, and the calls of which the failure may leave one.
Dangling == live # None /\ live.suspended /\ manifest = None
Leaving == {"apply", "patch", "rollback", "deleteObject"}

(* How far a creation of a new instance is that nobody disturbed. *)
Stage(pc, mode, object, file) ==
  /\ pc = "direct" => object = None /\ file = None /\ mode = "direct"
  /\ pc \in {"apply", "failed"} => object = None /\ file = None
  /\ pc \in {"patch", "push", "done"} => object # None /\ object.suspended = (mode = "gitops")
  /\ pc \in {"patch", "push", "rollback"} => file = None
  /\ pc = "done" /\ mode = "gitops" => file # None
  /\ pc \notin {"drift", "patchSpec", "deleteFile", "deleteObject"}

Undisturbed(q) == ask[q] # Dep!Idle /\ ask[q].clean /\ ask[q].kind = "create" /\ ask[q].fresh
Stages(q) == Undisturbed(q) => Stage(ask[q].pc, ask[q].mode, live, manifest)

\* The request that is about to release the object, or to remove it.
Releasing(q) ==
  ask[q].pc \in {"rollback", "deleteObject"} \/ (ask[q].pc = "push" /\ ask[q].mode = "gitops")

DepInv ==
  /\ DepTypes
  /\ \A q \in Request : Stages(q)
  /\ ~overlap => \A q, r \in Request : Dep!Served(q) /\ Dep!Served(r) => q = r
  /\ ~overlap /\ slips \cap Leaving = {} /\ Dangling => \E q \in Request : Releasing(q)

LEMMA DepInvInit == AllInit => DepInv
<1> SUFFICES ASSUME Dep!Init PROVE DepInv
  BY DEF AllInit
<1>1. DepTypes
  BY DEF Dep!Init, DepTypes, Dep!Idle, NeedsSpec
<1>2. \A q \in Request : Stages(q) /\ ~Dep!Served(q)
  BY DEF Dep!Init, Stages, Undisturbed, Dep!Served, Dep!Idle
<1>3. ~Dangling
  BY DEF Dep!Init, Dangling
<1> QED
  BY <1>1, <1>2, <1>3 DEF DepInv

\* The request that steps, and the others, which are not undisturbed any more.
Steps(q, pc, clean) ==
  ask' = [r \in Request |->
            IF ask[r] = Dep!Idle THEN Dep!Idle
            ELSE [ask[r] EXCEPT !.pc = IF r = q THEN pc ELSE @, !.clean = r = q /\ clean /\ @]]

LEMMA RequestSteps ==
  ASSUME DepTypes, NEW q \in Request, ask[q] # Dep!Idle, NEW pc \in DepPlace
  PROVE  /\ Dep!Goto(q, pc) => Steps(q, pc, TRUE)
         /\ \A clean \in BOOLEAN : Dep!GotoAfterFault(q, pc, clean) =>
              /\ Steps(q, pc, clean)
              /\ slips' = slips \cup {ask[q].pc}
<1>1. ask[q] \in Asked
  BY DEF DepTypes
<1>2. ASSUME Dep!Goto(q, pc) PROVE Steps(q, pc, TRUE)
  <2>1. [ask[q] EXCEPT !.pc = pc] = [ask[q] EXCEPT !.pc = pc, !.clean = TRUE /\ @]
    BY <1>1 DEF Asked
  <2>2. ASSUME NEW r \in Request
        PROVE  (IF r = q THEN [ask[q] EXCEPT !.pc = pc]
                ELSE IF ask[r] = Dep!Idle THEN Dep!Idle ELSE [ask[r] EXCEPT !.clean = FALSE]) =
               (IF ask[r] = Dep!Idle THEN Dep!Idle
                ELSE [ask[r] EXCEPT !.pc = IF r = q THEN pc ELSE @, !.clean = r = q /\ TRUE /\ @])
    <3>1. CASE r = q
      BY <3>1, <2>1
    <3>2. CASE r # q /\ ask[r] = Dep!Idle
      BY <3>2
    <3>3. CASE r # q /\ ask[r] # Dep!Idle
      <4>1. ask[r] \in Asked
        BY <3>3 DEF DepTypes
      <4> QED
        BY <3>3, <4>1 DEF Asked
    <3> QED
      BY <3>1, <3>2, <3>3
  <2> QED
    BY <1>2, <2>2 DEF Dep!Goto, Steps
<1>3. ASSUME NEW clean \in BOOLEAN, Dep!GotoAfterFault(q, pc, clean)
      PROVE  Steps(q, pc, clean) /\ slips' = slips \cup {ask[q].pc}
  BY <1>3 DEF Dep!GotoAfterFault, Steps
<1> QED
  BY <1>2, <1>3

LEMMA StepsTo ==
  ASSUME DepTypes, NEW q \in Request, ask[q] # Dep!Idle, NEW pc \in DepPlace, NEW clean \in BOOLEAN,
         Steps(q, pc, clean), pc \in NeedsSpec => ask[q].spec \in Version
  PROVE  /\ ask' \in [Request -> Asked \cup {Dep!Idle}]
         /\ ask'[q] # Dep!Idle /\ ask'[q].pc = pc /\ ask'[q].clean = (clean /\ ask[q].clean)
         /\ ask'[q].kind = ask[q].kind /\ ask'[q].mode = ask[q].mode /\ ask'[q].fresh = ask[q].fresh
         /\ \A r \in Request : r # q => ask'[r].pc = ask[r].pc /\ (ask'[r] # Dep!Idle => ~ask'[r].clean)
         /\ \A r \in Request : ask'[r].pc \in NeedsSpec => ask'[r].spec \in Version
<1>1. \A r \in Request : ask[r] # Dep!Idle => ask[r] \in Asked
  BY DEF DepTypes
<1>2. ASSUME NEW r \in Request, ask[r] # Dep!Idle
      PROVE  /\ ask'[r] \in Asked /\ ask'[r].pc = (IF r = q THEN pc ELSE ask[r].pc)
             /\ ask'[r].clean = (r = q /\ clean /\ ask[r].clean) /\ ask'[r].kind = ask[r].kind
             /\ ask'[r].mode = ask[r].mode /\ ask'[r].fresh = ask[r].fresh /\ ask'[r].spec = ask[r].spec
  <2>1. ask'[r] = [ask[r] EXCEPT !.pc = IF r = q THEN pc ELSE @, !.clean = r = q /\ clean /\ @]
    BY <1>2 DEF Steps
  <2> QED
    BY <1>1, <1>2, <2>1 DEF Asked
<1>3. \A r \in Request : ask[r] = Dep!Idle => ask'[r] = Dep!Idle
  BY DEF Steps
<1>4. \A a \in Asked : a # Dep!Idle
  <2>1. \A a \in Asked : a.pc # "idle"
    BY DEF Asked, DepPlace
  <2> QED
    BY <2>1 DEF Dep!Idle
<1>5. ask' \in [Request -> Asked \cup {Dep!Idle}]
  <2>1. \A r \in Request : ask'[r] \in Asked \cup {Dep!Idle}
    BY <1>2, <1>3
  <2> QED
    BY <2>1 DEF Steps
<1>6. \A r \in Request : r # q => ask'[r].pc = ask[r].pc /\ (ask'[r] # Dep!Idle => ~ask'[r].clean)
  BY <1>2, <1>3
<1>7. \A r \in Request : ask'[r].pc \in NeedsSpec => ask'[r].spec \in Version
  BY <1>2, <1>3 DEF DepTypes
<1> QED
  BY <1>2, <1>4, <1>5, <1>6, <1>7

(* A step of a request keeps the invariant when it keeps what it says of    *)
(* this request.                                                            *)
LEMMA StepKeeps ==
  ASSUME DepInv, NEW q \in Request, Dep!Served(q), NEW pc \in DepPlace, NEW clean \in BOOLEAN,
         Steps(q, pc, clean), pc \in NeedsSpec => ask[q].spec \in Version,
         live' \in Dep!Object \cup {None}, manifest' \in Dep!Pushed \cup {None},
         overlap' = overlap, slips \subseteq slips',
         Undisturbed(q) /\ clean => Stage(pc, ask[q].mode, live', manifest'),
         /\ ~overlap /\ slips' \cap Leaving = {} /\ Dangling'
         /\ Dangling => Releasing(q)
         => pc \in {"rollback", "deleteObject"} \/ (pc = "push" /\ ask[q].mode = "gitops")
  PROVE  DepInv'
<1>1. ask[q] # Dep!Idle
  BY DEF Dep!Served, Dep!Idle
<1> DEFINE To ==
         /\ ask' \in [Request -> Asked \cup {Dep!Idle}]
         /\ ask'[q] # Dep!Idle /\ ask'[q].pc = pc /\ ask'[q].clean = (clean /\ ask[q].clean)
         /\ ask'[q].kind = ask[q].kind /\ ask'[q].mode = ask[q].mode /\ ask'[q].fresh = ask[q].fresh
         /\ \A r \in Request : r # q => ask'[r].pc = ask[r].pc /\ (ask'[r] # Dep!Idle => ~ask'[r].clean)
         /\ \A r \in Request : ask'[r].pc \in NeedsSpec => ask'[r].spec \in Version
<1>2. To
  BY <1>1, StepsTo DEF DepInv
<1>3. DepTypes'
  <2>1. overlap' \in BOOLEAN
    BY DEF DepInv, DepTypes
  <2>2. ask' \in [Request -> Asked \cup {Dep!Idle}]
    BY <1>2
  <2>3. \A r \in Request : ask'[r].pc \in NeedsSpec => ask'[r].spec \in Version
    BY <1>2
  <2> HIDE DEF To
  <2>4. /\ live' \in Dep!Object \cup {None}
        /\ manifest' \in Dep!Pushed \cup {None}
    OBVIOUS
  <2> QED
    BY Zenon, <2>1, <2>2, <2>3, <2>4 DEF DepTypes
<1>4. \A r \in Request : Stages(r)'
  <2>1. Stages(q)'
    BY <1>1, <1>2 DEF Stages, Undisturbed
  <2>2. \A r \in Request : r # q => Stages(r)'
    BY <1>2 DEF Stages, Undisturbed
  <2> QED
    BY <2>1, <2>2
<1>5. ~overlap' => \A o, r \in Request : Dep!Served(o)' /\ Dep!Served(r)' => o = r
  <2>1. \A r \in Request : Dep!Served(r)' => Dep!Served(r)
    BY <1>2 DEF Dep!Served
  <2> QED
    BY <2>1 DEF DepInv
<1>6. ~overlap' /\ slips' \cap Leaving = {} /\ Dangling' => \E r \in Request : Releasing(r)'
  <2> SUFFICES ASSUME ~overlap, slips' \cap Leaving = {}, Dangling' PROVE Releasing(q)'
    OBVIOUS
  <2>1. Dangling => Releasing(q)
    <3> SUFFICES ASSUME Dangling PROVE Releasing(q)
      OBVIOUS
    <3>1. slips \cap Leaving = {}
      OBVIOUS
    <3>2. PICK r \in Request : Releasing(r)
      BY <3>1 DEF DepInv
    <3>3. r = q
      BY <3>2 DEF DepInv, Releasing, Dep!Served
    <3> QED
      BY <3>2, <3>3
  <2> QED
    BY <1>2, <2>1 DEF Releasing
<1> QED
  BY <1>3, <1>4, <1>5, <1>6 DEF DepInv

(* A request arrives. *)
LEMMA RequestArrives ==
  ASSUME DepInv, NEW q \in Request, NEW kind \in {"create", "update", "updateHybrid", "delete"},
         NEW mode \in Dep!Mode, NEW spec \in Version \cup {None}, NEW pc \in DepPlace,
         pc \in NeedsSpec => spec \in Version,
         kind = "create" => pc \in {"direct", "apply", "failed"} /\ (pc = "direct" => mode = "direct"),
         Dep!Arrive(q, kind, mode, spec, pc)
  PROVE  DepInv'
<1> DEFINE new == [pc |-> pc, kind |-> kind, mode |-> mode, spec |-> spec, clean |-> TRUE,
                   fresh |-> live = None /\ manifest = None]
<1>1. new \in Asked /\ new # Dep!Idle
  BY DEF Asked, Dep!Idle, DepPlace
<1>2. /\ ask' = [r \in Request |-> IF r = q THEN new
                                   ELSE IF ask[r] = Dep!Idle THEN Dep!Idle
                                   ELSE [ask[r] EXCEPT !.clean = FALSE]]
      /\ overlap' = (overlap \/ \E r \in Request : Dep!Served(r))
      /\ UNCHANGED <<live, manifest, slips>>
  BY DEF Dep!Arrive
<1>3. new.pc = pc /\ new.kind = kind /\ new.mode = mode /\ new.spec = spec
      /\ new.fresh = (live = None /\ manifest = None)
  OBVIOUS
<1> HIDE DEF new
<1>4. ASSUME NEW r \in Request, r # q
      PROVE  /\ ask'[r] \in Asked \cup {Dep!Idle} /\ ask'[r].pc = ask[r].pc
             /\ ask'[r] # Dep!Idle => ~ask'[r].clean
             /\ ask'[r].pc \in NeedsSpec => ask'[r].spec \in Version
  <2>1. CASE ask[r] = Dep!Idle
    BY <1>2, <1>4, <2>1 DEF Dep!Idle, NeedsSpec
  <2>2. CASE ask[r] # Dep!Idle
    <3>1. ask[r] \in Asked /\ ask'[r] = [ask[r] EXCEPT !.clean = FALSE]
      BY <1>2, <1>4, <2>2 DEF DepInv, DepTypes
    <3>2. ask'[r] \in Asked /\ ask'[r].pc = ask[r].pc /\ ~ask'[r].clean /\ ask'[r].spec = ask[r].spec
      BY <3>1 DEF Asked
    <3> QED
      BY <3>2 DEF DepInv, DepTypes
  <2> QED
    BY <2>1, <2>2
<1>5. ask'[q] = new
  BY <1>2
<1>6. DepTypes'
  <2>1. ask' \in [Request -> Asked \cup {Dep!Idle}]
    <3>1. \A r \in Request : ask'[r] \in Asked \cup {Dep!Idle}
      BY <1>1, <1>4, <1>5
    <3> QED
      BY <1>2, <3>1
  <2>2. \A r \in Request : ask'[r].pc \in NeedsSpec => ask'[r].spec \in Version
    BY <1>3, <1>4, <1>5
  <2>3. overlap' \in BOOLEAN
    BY <1>2 DEF DepInv, DepTypes
  <2> QED
    BY <1>2, <2>1, <2>2, <2>3 DEF DepInv, DepTypes
<1>7. \A r \in Request : Stages(r)'
  <2>1. Stages(q)'
    BY <1>2, <1>3, <1>5 DEF Stages, Undisturbed, Stage
  <2>2. \A r \in Request : r # q => Stages(r)'
    BY <1>4 DEF Stages, Undisturbed
  <2> QED
    BY <2>1, <2>2
<1>8. ~overlap' => ~overlap /\ \A r \in Request : ~Dep!Served(r)
  BY <1>2 DEF DepInv, DepTypes
<1>9. \A r \in Request : r # q => Dep!Served(r)' = Dep!Served(r)
  BY <1>4 DEF Dep!Served
<1>10. ~overlap' /\ slips' \cap Leaving = {} => ~Dangling'
  BY <1>2, <1>8 DEF DepInv, Dangling, Releasing, Dep!Served
<1> QED
  BY <1>6, <1>7, <1>8, <1>9, <1>10 DEF DepInv

(* What another client does disturbs every request, and suspends nothing. *)
LEMMA OthersDisturb ==
  ASSUME DepInv, Dep!Disturb, live' \in Dep!Object \cup {None}, manifest' = manifest,
         Dangling' => Dangling
  PROVE  DepInv'
<1>1. /\ ask' = [r \in Request |-> IF ask[r] = Dep!Idle THEN Dep!Idle
                                   ELSE [ask[r] EXCEPT !.clean = FALSE]]
      /\ UNCHANGED <<slips, overlap>>
  BY DEF Dep!Disturb
<1>2. ASSUME NEW r \in Request
      PROVE  /\ ask'[r] \in Asked \cup {Dep!Idle} /\ ask'[r].pc = ask[r].pc
             /\ ask'[r] # Dep!Idle => ~ask'[r].clean /\ ask'[r].mode = ask[r].mode
             /\ ask'[r].pc \in NeedsSpec => ask'[r].spec \in Version
  <2>1. CASE ask[r] = Dep!Idle
    BY <1>1, <2>1 DEF Dep!Idle, NeedsSpec
  <2>2. CASE ask[r] # Dep!Idle
    <3>1. ask[r] \in Asked /\ ask'[r] = [ask[r] EXCEPT !.clean = FALSE]
      BY <1>1, <2>2 DEF DepInv, DepTypes
    <3>2. ask'[r] \in Asked /\ ask'[r].pc = ask[r].pc /\ ~ask'[r].clean /\ ask'[r].spec = ask[r].spec
          /\ ask'[r].mode = ask[r].mode
      BY <3>1 DEF Asked
    <3> QED
      BY <3>2 DEF DepInv, DepTypes
  <2> QED
    BY <2>1, <2>2
<1>3. DepTypes'
  <2>1. ask' \in [Request -> Asked \cup {Dep!Idle}]
    BY <1>1, <1>2
  <2> QED
    BY <1>1, <1>2, <2>1 DEF DepInv, DepTypes
<1>4. \A r \in Request : Stages(r)'
  BY <1>2 DEF Stages, Undisturbed
<1>5. \A r \in Request : Dep!Served(r)' = Dep!Served(r)
  BY <1>2 DEF Dep!Served
<1>6. \A r \in Request : Releasing(r) => Releasing(r)'
  <2> SUFFICES ASSUME NEW r \in Request, Releasing(r) PROVE Releasing(r)'
    OBVIOUS
  <2>1. ask'[r].pc = ask[r].pc /\ ask[r].pc # "idle"
    BY <1>2 DEF Releasing
  <2>2. ask'[r] # Dep!Idle
    BY <2>1 DEF Dep!Idle
  <2> QED
    BY <1>2, <2>1, <2>2 DEF Releasing
<1> QED
  BY <1>1, <1>3, <1>4, <1>5, <1>6 DEF DepInv

(* The objects and manifests that a request writes. *)
LEMMA Written ==
  ASSUME DepInv, NEW q \in Request, ask[q].pc \in NeedsSpec, NEW s \in BOOLEAN
  PROVE  /\ Dep!Built(q, s) \in Dep!Object /\ Dep!Built(q, s) # None /\ Dep!Built(q, s).suspended = s
         /\ Dep!Generated(q) \in Dep!Pushed /\ Dep!Generated(q) # None
         /\ live # None =>
              /\ Dep!Patched(q) \in Dep!Object /\ Dep!Patched(q) # None
              /\ Dep!Patched(q).suspended = (live.suspended \/ ask[q].mode = "gitops")
              /\ [live EXCEPT !.spec = ask[q].spec] \in Dep!Object
              /\ [live EXCEPT !.spec = ask[q].spec] # None
              /\ [live EXCEPT !.spec = ask[q].spec].suspended = live.suspended
<1>1. ask[q] \in Asked /\ ask[q].spec \in Version
  BY DEF DepInv, DepTypes, Dep!Idle, NeedsSpec
<1>2. ask[q].mode \in Dep!Mode
  BY <1>1 DEF Asked
<1>3. Dep!Built(q, s) \in Dep!Object /\ Dep!Built(q, s).suspended = s
  BY <1>1, <1>2 DEF Dep!Built, Dep!Object
<1>4. Dep!Generated(q) \in Dep!Pushed
  BY <1>1, <1>2 DEF Dep!Generated, Dep!Pushed
<1>5. ASSUME live # None
      PROVE  /\ Dep!Patched(q) \in Dep!Object
             /\ Dep!Patched(q).suspended = (live.suspended \/ ask[q].mode = "gitops")
             /\ [live EXCEPT !.spec = ask[q].spec] \in Dep!Object
             /\ [live EXCEPT !.spec = ask[q].spec].suspended = live.suspended
  <2>1. live \in Dep!Object
    BY <1>5 DEF DepInv, DepTypes
  <2> QED
    BY <1>1, <1>2, <2>1 DEF Dep!Patched, Dep!Object, Dep!Suspends
<1> QED
  BY <1>3, <1>4, <1>5, ServicesAssumption

(* A step or a failed call of a request that is served, whatever it writes. *)
LEMMA ServedSteps ==
  ASSUME DepInv, NEW q \in Request, Dep!Served(q), NEW pc \in DepPlace, NEW clean \in BOOLEAN,
         \/ Dep!Goto(q, pc) /\ clean = TRUE /\ slips' = slips
         \/ Dep!GotoAfterFault(q, pc, clean),
         overlap' = overlap, pc \in NeedsSpec => ask[q].spec \in Version,
         live' \in Dep!Object \cup {None}, manifest' \in Dep!Pushed \cup {None},
         Undisturbed(q) /\ clean => Stage(pc, ask[q].mode, live', manifest'),
         /\ ~overlap /\ slips' \cap Leaving = {} /\ Dangling'
         /\ Dangling => Releasing(q)
         => pc \in {"rollback", "deleteObject"} \/ (pc = "push" /\ ask[q].mode = "gitops")
  PROVE  DepInv'
<1>1. ask[q] # Dep!Idle /\ DepTypes
  BY DEF Dep!Served, Dep!Idle, DepInv
<1>2. Steps(q, pc, clean) /\ slips \subseteq slips'
  BY <1>1, RequestSteps
<1> QED
  BY <1>2, StepKeeps

LEMMA DepInvStep == DepInv /\ [Dep!Next]_(Dep!vars) => DepInv'
<1> SUFFICES ASSUME DepInv, [Dep!Next]_(Dep!vars) PROVE DepInv'
  OBVIOUS
<1>0. ASSUME NEW q \in Request, ask[q].pc \in DepPlace
      PROVE  /\ ask[q] \in Asked /\ ask[q] # Dep!Idle /\ Stages(q)
             /\ ask[q].pc \in NeedsSpec => ask[q].spec \in Version
             /\ ask[q].pc \notin {"done", "failed"} => Dep!Served(q)
             /\ live \in Dep!Object \cup {None} /\ manifest \in Dep!Pushed \cup {None}
  BY <1>0 DEF DepInv, DepTypes, Dep!Idle, DepPlace, Dep!Served
<1>1. ASSUME NEW q \in Request, Dep!DirectDeploy(q) PROVE DepInv'
  <2>1. ask[q].pc = "direct" /\ UNCHANGED <<manifest, overlap>> /\ "done" \in DepPlace /\ "failed" \in DepPlace
    BY <1>1 DEF Dep!DirectDeploy, DepPlace
  <2>2. /\ ask[q] \in Asked /\ Stages(q) /\ ask[q].spec \in Version /\ Dep!Served(q)
        /\ live \in Dep!Object \cup {None} /\ manifest \in Dep!Pushed \cup {None}
    BY <1>0, <2>1 DEF DepPlace, NeedsSpec
  <2>3. Dep!Built(q, FALSE) \in Dep!Object /\ Dep!Built(q, FALSE) # None /\ Dep!Built(q, FALSE).suspended = FALSE
    BY <2>1, Written DEF NeedsSpec
  <2>4. CASE live = None /\ live' = Dep!Built(q, FALSE) /\ Dep!Goto(q, "done") /\ UNCHANGED slips
    <3>1. ~Dangling'
      BY <2>3, <2>4 DEF Dangling
    <3>2. Undisturbed(q) => Stage("done", ask[q].mode, live', manifest')
      BY <2>1, <2>2, <2>3, <2>4 DEF Stages, Stage
    <3> QED
      BY <2>1, <2>2, <2>3, <2>4, <3>1, <3>2, ServedSteps DEF NeedsSpec
  <2>5. CASE live # None /\ UNCHANGED <<live, slips>> /\ Dep!Goto(q, "failed")
    <3>1. Dangling' => Dangling
      BY <2>1, <2>5 DEF Dangling
    <3>2. ~Releasing(q) /\ ~Undisturbed(q)
      BY <2>1, <2>2, <2>5 DEF Releasing, Stages, Stage
    <3> QED
      BY <2>1, <2>2, <2>5, <3>1, <3>2, ServedSteps DEF NeedsSpec
  <2>6. CASE /\ live' \in (IF live = None THEN {None, Dep!Built(q, FALSE)} ELSE {live})
             /\ Dep!GotoAfterFault(q, "failed", live' = live)
    <3>1. live' \in Dep!Object \cup {None} /\ (Dangling' => Dangling)
      BY <2>1, <2>2, <2>3, <2>6 DEF Dangling
    <3>2. ~Releasing(q)
      BY <2>1 DEF Releasing
    <3>3. Undisturbed(q) /\ live' = live => Stage("failed", ask[q].mode, live', manifest')
      BY <2>1, <2>2 DEF Stages, Stage
    <3> QED
      BY <2>1, <2>2, <2>6, <3>1, <3>2, <3>3, ServedSteps DEF NeedsSpec
  <2> QED
    BY <1>1, <2>4, <2>5, <2>6 DEF Dep!DirectDeploy
<1>2. ASSUME NEW q \in Request, Dep!Apply(q) PROVE DepInv'
  <2> DEFINE object == Dep!Built(q, Dep!Suspends(q))
  <2>1. ask[q].pc = "apply" /\ UNCHANGED <<manifest, overlap>>
    BY <1>2 DEF Dep!Apply
  <2>2. /\ ask[q] \in Asked /\ Stages(q) /\ ask[q].spec \in Version /\ Dep!Served(q)
        /\ live \in Dep!Object \cup {None} /\ manifest \in Dep!Pushed \cup {None}
    BY <1>0, <2>1 DEF DepPlace, NeedsSpec
  <2>3. object \in Dep!Object /\ object # None /\ object.suspended = (ask[q].mode = "gitops")
    BY <2>1, Written DEF NeedsSpec, Dep!Suspends
  <2>4. /\ "push" \in DepPlace /\ "patch" \in DepPlace /\ Dep!Refused(q) \in {"done", "failed"}
        /\ Dep!Refused(q) \in DepPlace /\ Dep!Refused(q) \notin NeedsSpec /\ ~Releasing(q)
        /\ Undisturbed(q) => Dep!Refused(q) = "failed" /\ live = None /\ manifest = None
    BY <2>1, <2>2 DEF DepPlace, NeedsSpec, Dep!Refused, Releasing, Stages, Stage, Undisturbed
  <2> HIDE DEF object
  <2>5. CASE live = None /\ live' = object /\ Dep!Goto(q, "push") /\ UNCHANGED slips
    <3>1. Dangling' => ask[q].mode = "gitops"
      BY <2>3, <2>5 DEF Dangling
    <3>2. Undisturbed(q) => Stage("push", ask[q].mode, live', manifest')
      BY <2>1, <2>3, <2>4, <2>5 DEF Stage
    <3> QED
      BY <2>1, <2>2, <2>3, <2>4, <2>5, <3>1, <3>2, ServedSteps
  <2>6. CASE live # None /\ UNCHANGED <<live, slips>> /\ Dep!Goto(q, "patch")
    <3>1. Dangling' => Dangling
      BY <2>1, <2>6 DEF Dangling
    <3> QED
      BY <2>1, <2>2, <2>4, <2>6, <3>1, ServedSteps
  <2>7. CASE live = None /\ live' = object /\ Dep!GotoAfterFault(q, "patch", TRUE)
    <3>1. "apply" \in slips' \cap Leaving
      BY <2>1, <2>7 DEF Leaving, Dep!GotoAfterFault
    <3>2. Undisturbed(q) => Stage("patch", ask[q].mode, live', manifest')
      BY <2>1, <2>3, <2>4, <2>7 DEF Stage
    <3> QED
      BY <2>1, <2>2, <2>3, <2>4, <2>7, <3>1, <3>2, ServedSteps
  <2>8. CASE /\ live' \in (IF live = None THEN {None, object} ELSE {live})
             /\ Dep!GotoAfterFault(q, Dep!Refused(q), live' = live)
    <3>1. "apply" \in slips' \cap Leaving
      BY <2>1, <2>8 DEF Leaving, Dep!GotoAfterFault
    <3>2. Undisturbed(q) /\ live' = live => Stage(Dep!Refused(q), ask[q].mode, live', manifest')
      BY <2>1, <2>4 DEF Stage
    <3>3. live' \in Dep!Object \cup {None}
      BY <2>2, <2>3, <2>8
    <3> QED
      BY <2>1, <2>2, <2>4, <2>8, <3>1, <3>2, <3>3, ServedSteps
  <2> QED
    BY <1>2, <2>5, <2>6, <2>7, <2>8 DEF Dep!Apply, object
<1>3. ASSUME NEW q \in Request, Dep!PatchExisting(q) PROVE DepInv'
  <2>1. ask[q].pc = "patch" /\ UNCHANGED <<manifest, overlap>>
    BY <1>3 DEF Dep!PatchExisting
  <2>2. /\ ask[q] \in Asked /\ Stages(q) /\ ask[q].spec \in Version /\ Dep!Served(q)
        /\ live \in Dep!Object \cup {None} /\ manifest \in Dep!Pushed \cup {None}
    BY <1>0, <2>1 DEF DepPlace, NeedsSpec
  <2>3. live # None => /\ Dep!Patched(q) \in Dep!Object /\ Dep!Patched(q) # None
                       /\ Dep!Patched(q).suspended = (live.suspended \/ ask[q].mode = "gitops")
    BY <2>1, Written DEF NeedsSpec
  <2>4. /\ "push" \in DepPlace /\ Dep!Refused(q) \in {"done", "failed"}
        /\ Dep!Refused(q) \in DepPlace /\ Dep!Refused(q) \notin NeedsSpec /\ ~Releasing(q)
        /\ Undisturbed(q) => live # None /\ live.suspended = (ask[q].mode = "gitops") /\ manifest = None
    BY <2>1, <2>2 DEF DepPlace, NeedsSpec, Dep!Refused, Releasing, Stages, Stage, Undisturbed
  <2>5. CASE live # None /\ Dep!Goto(q, "push") /\ UNCHANGED slips /\ live' = Dep!Patched(q)
    <3>1. Dangling' /\ ~Dangling => ask[q].mode = "gitops"
      BY <2>1, <2>3, <2>5 DEF Dangling
    <3>2. Undisturbed(q) => Stage("push", ask[q].mode, live', manifest')
      BY <2>1, <2>3, <2>4, <2>5 DEF Stage
    <3> QED
      BY <2>1, <2>2, <2>3, <2>4, <2>5, <3>1, <3>2, ServedSteps
  <2>6. CASE live = None /\ Dep!Goto(q, Dep!Refused(q)) /\ UNCHANGED <<live, slips>>
    <3>1. ~Dangling'
      BY <2>6 DEF Dangling
    <3> QED
      BY <2>1, <2>2, <2>4, <2>6, <3>1, ServedSteps
  <2>7. CASE /\ live' \in (IF live = None THEN {None} ELSE {live, Dep!Patched(q)})
             /\ Dep!GotoAfterFault(q, Dep!Refused(q), FALSE)
    <3>1. "patch" \in slips' \cap Leaving
      BY <2>1, <2>7 DEF Leaving, Dep!GotoAfterFault
    <3>2. live' \in Dep!Object \cup {None}
      BY <2>2, <2>3, <2>7
    <3> QED
      BY <2>1, <2>2, <2>4, <2>7, <3>1, <3>2, ServedSteps
  <2> QED
    BY <1>3, <2>5, <2>6, <2>7 DEF Dep!PatchExisting
<1>4. ASSUME NEW q \in Request, Dep!PushToGit(q) PROVE DepInv'
  <2>1. ask[q].pc = "push" /\ UNCHANGED <<live, overlap>>
    BY <1>4 DEF Dep!PushToGit
  <2>2. /\ ask[q] \in Asked /\ Stages(q) /\ ask[q].spec \in Version /\ Dep!Served(q)
        /\ live \in Dep!Object \cup {None} /\ manifest \in Dep!Pushed \cup {None}
    BY <1>0, <2>1 DEF DepPlace, NeedsSpec
  <2>3. Dep!Generated(q) \in Dep!Pushed /\ Dep!Generated(q) # None
    BY <2>1, Written DEF NeedsSpec
  <2>4. /\ "done" \in DepPlace /\ "drift" \in DepPlace /\ {"done", "drift"} \cap NeedsSpec = {}
        /\ Dep!PushFailed(q) \in DepPlace
        /\ ask[q].mode = "gitops" => Dep!PushFailed(q) = "rollback"
        /\ ask[q].mode # "gitops" => Dep!PushFailed(q) = "done" /\ ~Releasing(q)
        /\ Undisturbed(q) => /\ live # None /\ live.suspended = (ask[q].mode = "gitops") /\ manifest = None
                             /\ ask[q].kind = "create"
    BY <2>1, <2>2 DEF DepPlace, NeedsSpec, Dep!PushFailed, Releasing, Stages, Stage, Undisturbed
  <2>5. CASE /\ Dep!CommitFile(q) /\ UNCHANGED slips
             /\ Dep!Goto(q, IF ask[q].kind = "create" THEN "done" ELSE "drift")
    <3>1. manifest' = Dep!Generated(q)
      BY <2>5 DEF Dep!CommitFile
    <3>2. ~Dangling'
      BY <2>3, <3>1 DEF Dangling
    <3>3. Undisturbed(q) => Stage("done", ask[q].mode, live', manifest')
      BY <2>1, <2>3, <2>4, <3>1 DEF Stage
    <3>4. CASE ask[q].kind = "create"
      BY <2>1, <2>2, <2>3, <2>4, <2>5, <3>1, <3>2, <3>3, <3>4, ServedSteps
    <3>5. CASE ask[q].kind # "create"
      BY <2>1, <2>2, <2>3, <2>4, <2>5, <3>1, <3>2, <3>5, ServedSteps
    <3> QED
      BY <3>4, <3>5
  <2>6. CASE manifest # None /\ Dep!Goto(q, Dep!PushFailed(q)) /\ UNCHANGED <<manifest, slips>>
    <3>1. ~Dangling' /\ ~Undisturbed(q)
      BY <2>4, <2>6 DEF Dangling
    <3> QED
      BY <2>1, <2>2, <2>4, <2>6, <3>1, ServedSteps
  <2>7. CASE Dep!CommitFails(q)
    <3>1. /\ manifest' \in (IF manifest = None THEN {None, Dep!Generated(q)} ELSE {manifest})
          /\ Dep!GotoAfterFault(q, Dep!PushFailed(q), manifest' = manifest)
      BY <2>7 DEF Dep!CommitFails
    <3>2. manifest' \in Dep!Pushed \cup {None} /\ (Dangling' => Dangling)
      BY <2>1, <2>2, <2>3, <3>1 DEF Dangling
    <3>3. Undisturbed(q) /\ manifest' = manifest => Stage(Dep!PushFailed(q), ask[q].mode, live', manifest')
      BY <2>1, <2>4 DEF Stage
    <3> QED
      BY <2>1, <2>2, <2>4, <3>1, <3>2, <3>3, ServedSteps
  <2> QED
    BY <1>4, <2>5, <2>6, <2>7 DEF Dep!PushToGit
<1>5. ASSUME NEW q \in Request, Dep!Rollback(q) PROVE DepInv'
  <2>1. ask[q].pc = "rollback" /\ UNCHANGED <<manifest, overlap>>
    BY <1>5 DEF Dep!Rollback
  <2>2. /\ ask[q] \in Asked /\ Stages(q) /\ Dep!Served(q)
        /\ live \in Dep!Object \cup {None} /\ manifest \in Dep!Pushed \cup {None}
    BY <1>0, <2>1 DEF DepPlace, NeedsSpec
  <2>3. /\ Dep!Refused(q) \in DepPlace /\ Dep!Refused(q) \notin NeedsSpec
        /\ Undisturbed(q) => Dep!Refused(q) = "failed" /\ manifest = None
    BY <2>1, <2>2 DEF DepPlace, NeedsSpec, Dep!Refused, Stages, Stage, Undisturbed
  <2>4. CASE live' = None /\ Dep!Goto(q, Dep!Refused(q)) /\ UNCHANGED slips
    <3>1. ~Dangling'
      BY <2>4 DEF Dangling
    <3>2. Undisturbed(q) => Stage(Dep!Refused(q), ask[q].mode, live', manifest')
      BY <2>1, <2>3, <2>4 DEF Stage
    <3> QED
      BY <2>1, <2>2, <2>3, <2>4, <3>1, <3>2, ServedSteps
  <2>5. CASE UNCHANGED live /\ Dep!GotoAfterFault(q, Dep!Refused(q), FALSE)
    <3>1. "rollback" \in slips' \cap Leaving
      BY <2>1, <2>5 DEF Leaving, Dep!GotoAfterFault
    <3> QED
      BY <2>1, <2>2, <2>3, <2>5, <3>1, ServedSteps
  <2> QED
    BY <1>5, <2>4, <2>5 DEF Dep!Rollback
<1>6. ASSUME NEW q \in Request, Dep!PatchKubernetesSpec(q) PROVE DepInv'
  <2>1. ask[q].pc = "patchSpec" /\ UNCHANGED <<manifest, overlap>>
    BY <1>6 DEF Dep!PatchKubernetesSpec
  <2>2. /\ ask[q] \in Asked /\ Stages(q) /\ ask[q].spec \in Version /\ Dep!Served(q)
        /\ live \in Dep!Object \cup {None} /\ manifest \in Dep!Pushed \cup {None}
    BY <1>0, <2>1 DEF DepPlace, NeedsSpec
  <2>3. {"done", "failed", "apply"} \subseteq DepPlace /\ ~Releasing(q) /\ ~Undisturbed(q)
    BY <2>1, <2>2 DEF DepPlace, Releasing, Stages, Stage
  <2> DEFINE patched == [live EXCEPT !.spec = ask[q].spec]
  <2>4. live # None => patched \in Dep!Object /\ patched # None /\ patched.suspended = live.suspended
    BY <2>1, Written DEF NeedsSpec
  <2> HIDE DEF patched
  <2>5. live' \in {live, patched} /\ (live' # live => live # None)
    BY <1>6 DEF Dep!PatchKubernetesSpec, patched
  <2>6. live' \in Dep!Object \cup {None} /\ (Dangling' => Dangling)
    BY <2>1, <2>2, <2>4, <2>5 DEF Dangling
  <2>7. \E pc \in {"done", "failed", "apply"} : \E clean \in BOOLEAN :
          \/ Dep!Goto(q, pc) /\ clean = TRUE /\ slips' = slips
          \/ Dep!GotoAfterFault(q, pc, clean)
    BY <1>6 DEF Dep!PatchKubernetesSpec
  <2> QED
    BY <2>1, <2>2, <2>3, <2>6, <2>7, ServedSteps
<1>7. ASSUME NEW q \in Request, Dep!StoreDrift(q) PROVE DepInv'
  <2>1. ask[q].pc = "drift" /\ UNCHANGED <<live, manifest, overlap>>
        /\ \/ Dep!Goto(q, "done") /\ UNCHANGED slips
           \/ Dep!GotoAfterFault(q, "done", TRUE)
    BY <1>7 DEF Dep!StoreDrift
  <2>2. /\ ask[q] \in Asked /\ Stages(q) /\ Dep!Served(q)
        /\ live \in Dep!Object \cup {None} /\ manifest \in Dep!Pushed \cup {None}
    BY <1>0, <2>1 DEF DepPlace, NeedsSpec
  <2>3. "done" \in DepPlace /\ "done" \notin NeedsSpec /\ ~Releasing(q) /\ ~Undisturbed(q)
        /\ (Dangling' => Dangling)
    BY <2>1, <2>2 DEF DepPlace, NeedsSpec, Releasing, Stages, Stage, Dangling
  <2> QED
    BY <2>1, <2>2, <2>3, ServedSteps
<1>8. ASSUME NEW q \in Request, Dep!DeleteFile(q) PROVE DepInv'
  <2>1. ask[q].pc = "deleteFile" /\ UNCHANGED <<live, overlap>> /\ manifest' \in {None, manifest}
        /\ \/ Dep!Goto(q, "deleteObject") /\ UNCHANGED slips
           \/ Dep!GotoAfterFault(q, "deleteObject", TRUE)
    BY <1>8 DEF Dep!DeleteFile
  <2>2. /\ ask[q] \in Asked /\ Stages(q) /\ Dep!Served(q)
        /\ live \in Dep!Object \cup {None} /\ manifest \in Dep!Pushed \cup {None}
    BY <1>0, <2>1 DEF DepPlace, NeedsSpec
  <2>3. "deleteObject" \in DepPlace /\ "deleteObject" \notin NeedsSpec /\ ~Undisturbed(q)
    BY <2>1, <2>2 DEF DepPlace, NeedsSpec, Stages, Stage
  <2> QED
    BY <2>1, <2>2, <2>3, ServedSteps
<1>9. ASSUME NEW q \in Request, Dep!DeleteObject(q) PROVE DepInv'
  <2>1. /\ ask[q].pc = "deleteObject" /\ UNCHANGED <<manifest, overlap>> /\ live' \in {None, live}
        /\ \/ live' = None /\ \E pc \in {"failed", "done"} : Dep!Goto(q, pc) /\ UNCHANGED slips
           \/ \E clean \in BOOLEAN : Dep!GotoAfterFault(q, "failed", clean)
    BY <1>9 DEF Dep!DeleteObject
  <2>2. /\ ask[q] \in Asked /\ Stages(q) /\ Dep!Served(q)
        /\ live \in Dep!Object \cup {None} /\ manifest \in Dep!Pushed \cup {None}
    BY <1>0, <2>1 DEF DepPlace, NeedsSpec
  <2>3. {"done", "failed"} \subseteq DepPlace /\ {"done", "failed"} \cap NeedsSpec = {} /\ ~Undisturbed(q)
    BY <2>1, <2>2 DEF DepPlace, NeedsSpec, Stages, Stage
  <2>4. CASE live' = None /\ \E pc \in {"failed", "done"} : Dep!Goto(q, pc) /\ UNCHANGED slips
    <3>1. ~Dangling'
      BY <2>4 DEF Dangling
    <3> QED
      BY <2>1, <2>2, <2>3, <2>4, <3>1, ServedSteps
  <2>5. ASSUME NEW clean \in BOOLEAN, Dep!GotoAfterFault(q, "failed", clean) PROVE DepInv'
    <3>1. "deleteObject" \in slips' \cap Leaving
      BY <2>1, <2>5 DEF Leaving, Dep!GotoAfterFault
    <3>2. live' \in Dep!Object \cup {None}
      BY <2>1, <2>2
    <3> QED
      BY <2>1, <2>2, <2>3, <2>5, <3>1, <3>2, ServedSteps
  <2> QED
    BY <2>1, <2>4, <2>5
<1>10. ASSUME NEW q \in Request, Dep!CreateInstance(q) \/ Dep!UpdateInstance(q) \/ Dep!DeleteInstance(q)
       PROVE  DepInv'
  <2>0. /\ {"direct", "apply", "failed", "patchSpec", "deleteFile", "deleteObject"} \subseteq DepPlace
        /\ {"failed", "deleteFile", "deleteObject"} \cap NeedsSpec = {}
        /\ {"direct", "gitops", "hybrid"} \subseteq Dep!Mode
    BY DEF DepPlace, NeedsSpec, Dep!Mode
  <2>1. CASE Dep!CreateInstance(q)
    <3>1. PICK mode \in Dep!Mode, spec \in Version :
            \/ Dep!Arrive(q, "create", mode, spec, IF mode = "direct" THEN "direct" ELSE "apply")
            \/ Dep!Arrive(q, "create", mode, spec, "failed")
      BY <2>1 DEF Dep!CreateInstance
    <3> QED
      BY <2>0, <3>1, RequestArrives
  <2>2. CASE Dep!UpdateInstance(q)
    <3>1. \E spec \in Version, mode \in {"direct", "gitops", "hybrid"}, kind \in {"update", "updateHybrid"},
             pc \in {"apply", "failed", "patchSpec"} : Dep!Arrive(q, kind, mode, spec, pc)
      BY <2>2 DEF Dep!UpdateInstance
    <3> QED
      BY <2>0, <3>1, RequestArrives
  <2>3. CASE Dep!DeleteInstance(q)
    <3>1. live # None => live.mode \in Dep!Mode
      BY DEF DepInv, DepTypes, Dep!Object
    <3>2. \E mode \in Dep!Mode, pc \in {"failed", "deleteFile", "deleteObject"} :
            Dep!Arrive(q, "delete", mode, None, pc)
      BY <2>0, <2>3, <3>1 DEF Dep!DeleteInstance
    <3> QED
      BY <2>0, <3>2, RequestArrives
  <2> QED
    BY <1>10, <2>1, <2>2, <2>3
<1>11. CASE Dep!GitOpsSync
  <2>1. /\ manifest # None /\ manifest' = manifest /\ Dep!Disturb
        /\ live' = [spec |-> manifest.spec, mode |-> manifest.mode, suspended |-> FALSE,
                    repo |-> live # None /\ live.repo]
    BY <1>11 DEF Dep!GitOpsSync
  <2>2. manifest \in Dep!Pushed
    BY <2>1 DEF DepInv, DepTypes
  <2>3. live' \in Dep!Object
    BY <2>1, <2>2 DEF Dep!Pushed, Dep!Object
  <2>4. ~Dangling'
    BY <2>1 DEF Dangling
  <2> QED
    BY <2>1, <2>3, <2>4, OthersDisturb
<1>12. CASE Dep!LabelRepository
  <2>1. live # None /\ live' = [live EXCEPT !.repo = TRUE] /\ manifest' = manifest /\ Dep!Disturb
    BY <1>12 DEF Dep!LabelRepository
  <2>2. live \in Dep!Object
    BY <2>1 DEF DepInv, DepTypes
  <2>3. live' \in Dep!Object /\ live'.suspended = live.suspended
    BY <2>1, <2>2 DEF Dep!Object
  <2>4. Dangling' => Dangling
    BY <2>1, <2>3 DEF Dangling
  <2> QED
    BY <2>1, <2>3, <2>4, OthersDisturb
<1>13. CASE UNCHANGED <<live, manifest, ask, slips, overlap>>
  BY <1>13 DEF DepInv, DepTypes, Stages, Undisturbed, Dep!Served, Dangling, Releasing
<1> QED
  BY <1>1, <1>2, <1>3, <1>4, <1>5, <1>6, <1>7, <1>8, <1>9, <1>10, <1>11, <1>12, <1>13
     DEF Dep!Next, Dep!Deploy, Dep!ClearReconciled, Dep!vars

(* A deployment that nobody disturbed and that failed leaves nothing        *)
(* behind, and one that succeeded all of it; what stays suspended comes     *)
(* from requests served at the same time or from a call that could not be   *)
(* undone (deployGitOps, deployHybrid).                                     *)
THEOREM DeploymentsStayWhole == AllSpec => []DeploymentsAreWhole
<1>1. AllNext => [Dep!Next]_(Dep!vars)
  BY DEF AllNext, deployVars, Dep!vars
<1>2. UNCHANGED allVars => [Dep!Next]_(Dep!vars)
  BY DEF allVars, deployVars, Dep!vars
<1>3. DepInv => DeploymentsAreWhole
  <2> SUFFICES ASSUME DepInv PROVE Dep!NewIsAllOrNothing /\ Dep!SuspendedIsReleased
    BY DEF DeploymentsAreWhole
  <2>1. Dep!NewIsAllOrNothing
    BY DEF DepInv, Stages, Undisturbed, Stage, Dep!NewIsAllOrNothing
  <2>2. Dep!SuspendedIsReleased
    <3>1. \A q \in Request : Releasing(q) => Dep!Served(q)
      BY DEF Releasing, Dep!Served
    <3> QED
      BY <3>1 DEF DepInv, Dangling, Leaving, Dep!SuspendedIsReleased
  <2> QED
    BY <2>1, <2>2
<1> QED
  BY DepInvInit, DepInvStep, <1>1, <1>2, <1>3, PTL DEF AllSpec

-----------------------------------------------------------------------------
(* Histories *)

History == [id : His!Key, events : SUBSET His!Events]
Call == [at : {"read"}, op : {"creation", "event", "adopt", "deletion"}, event : His!Events]
          \cup [at : {"write", "clear"}, op : {"creation", "event", "adopt", "deletion"},
                event : His!Events, got : History \cup {None}]

HisTypes ==
  /\ birth \in 0 .. MaxLives /\ life \in 0 .. birth /\ health \in His!Health
  /\ announced \in [Replica -> [life : 1 .. MaxLives, health : His!Health] \cup {None}]
  /\ active \in History \cup {None}
  /\ buried \in [His!Key -> (SUBSET His!Events) \cup {None}]
  /\ recording \in [His!Actor -> Call \cup {His!Idle}]
  /\ recorded \in SUBSET His!Events
  /\ collided \in BOOLEAN /\ errors \in Nat

\* What is recorded, or about to be, is of a life that there was.
Lived ==
  /\ \A e \in recorded : e.life <= birth
  /\ \A a \in His!Actor : recording[a].at # "idle" => recording[a].event.life <= birth
  /\ \A r \in Replica : announced[r] # None => announced[r].life <= birth

\* What a history holds, or held when it was read, was recorded.
Known ==
  /\ active # None => active.events \subseteq recorded
  /\ \A a \in His!Actor : recording[a].at \in {"write", "clear"} /\ recording[a].got # None =>
       recording[a].got.events \subseteq recorded

(* The calls that an actor makes: a replica records the instance that it    *)
(* was told of.                                                             *)
Calls ==
  /\ recording[His!Handler].at # "idle" =>
       /\ recording[His!Handler].op \in {"creation", "event"}
       /\ recording[His!Handler].event.kind \in {"created", "waiting"}
  /\ \A r \in Replica : recording[r].at # "idle" =>
       /\ recording[r].op # "creation"
       /\ recording[r].op # "deletion" => announced[r] # None

\* An event that no later call can lose.
Safe(e) == e.life < birth \/ \E k \in His!Key : buried[k] # None /\ e \in buried[k]

EventsHeld ==
  /\ \A e \in recorded : Safe(e) \/ (active # None /\ e \in active.events)
  /\ \A a \in His!Actor : recording[a].at = "clear" /\ recording[a].got # None =>
       \A e \in recording[a].got.events : Safe(e)

\* While a replica's events are in the history, a replica is still to bury it.
Followed ==
  active # None /\ (\E e \in active.events : e.kind \notin {"created", "waiting"}) =>
    \E r \in Replica : announced[r] # None \/ recording[r].at # "idle"

HisInv ==
  /\ HisTypes /\ Lived /\ Known /\ Calls
  /\ ~collided /\ errors = 0 => EventsHeld /\ Followed

LEMMA HisInvInit == AllInit => HisInv
<1> SUFFICES ASSUME His!Init PROVE HisInv
  BY DEF AllInit
<1>1. HisTypes
  <2>1. birth \in 0 .. MaxLives /\ life \in 0 .. birth /\ health \in His!Health /\ errors \in Nat
    BY ServicesAssumption DEF His!Init, His!Health
  <2> QED
    BY <2>1 DEF His!Init, HisTypes
<1>2. \A a \in His!Actor : recording[a].at = "idle"
  BY DEF His!Init, His!Idle
<1>3. Lived /\ Known /\ Calls
  BY <1>2 DEF His!Init, Lived, Known, Calls, His!Actor, His!Handler
<1>4. EventsHeld /\ Followed
  BY <1>2 DEF His!Init, EventsHeld, Followed
<1> QED
  BY <1>1, <1>3, <1>4 DEF HisInv

LEMMA CallIs ==
  ASSUME HisTypes, NEW a \in His!Actor, recording[a].at # "idle"
  PROVE  /\ recording[a] \in Call /\ recording[a] # His!Idle /\ recording[a].event \in His!Events
         /\ recording[a].op \in {"creation", "event", "adopt", "deletion"}
         /\ recording[a].event.life \in 1 .. MaxLives
         /\ recording[a].at \in {"write", "clear"} => recording[a].got \in History \cup {None}
<1>1. recording[a] \in Call /\ recording[a] # His!Idle
  BY DEF HisTypes, His!Idle
<1>2. recording[a].event \in His!Events
      /\ recording[a].op \in {"creation", "event", "adopt", "deletion"}
      /\ (recording[a].at \in {"write", "clear"} => recording[a].got \in History \cup {None})
  BY <1>1 DEF Call
<1> QED
  BY <1>1, <1>2 DEF His!Events

(* The history that a writer writes: what it read, and its event. *)
LEMMA ExtendedIs ==
  ASSUME HisTypes, NEW a \in His!Actor, recording[a].at = "write"
  PROVE  /\ His!Extended(a) \in History /\ His!Extended(a) # None
         /\ His!Extended(a).events = {recording[a].event} \cup
              (IF recording[a].got = None THEN {} ELSE recording[a].got.events)
<1>1. /\ recording[a].event \in His!Events /\ recording[a].event.life \in 1 .. MaxLives
      /\ recording[a].got \in History \cup {None}
  BY CallIs
<1>2. His!NewHistory(a) \in History /\ His!NewHistory(a).events = {}
  BY <1>1 DEF His!NewHistory, History, His!Key, His!Path
<1> DEFINE h == IF recording[a].got = None THEN His!NewHistory(a) ELSE recording[a].got
<1>3. h \in History /\ h.events = IF recording[a].got = None THEN {} ELSE recording[a].got.events
  BY <1>1, <1>2
<1>4. His!Extended(a) = [h EXCEPT !.events = @ \cup {recording[a].event}]
  BY DEF His!Extended
<1> HIDE DEF h
<1>5. His!Extended(a) \in History /\ His!Extended(a).events = h.events \cup {recording[a].event}
  BY <1>1, <1>3, <1>4 DEF History
<1> QED
  BY <1>3, <1>5, ServicesAssumption DEF History

\* An actor begins a call.
LEMMA Begins ==
  ASSUME HisTypes, NEW a \in His!Actor, NEW op \in {"creation", "event", "adopt", "deletion"},
         NEW kind \in {"created", "adopted", "waiting", "deleted"} \cup His!Health,
         NEW l \in 1 .. MaxLives, His!Records(a, op, kind, l)
  PROVE  /\ recording' \in [His!Actor -> Call \cup {His!Idle}]
         /\ recording'[a].at = "read" /\ recording'[a].op = op
         /\ recording'[a].event.kind = kind /\ recording'[a].event.life = l
         /\ \A b \in His!Actor : b # a => recording'[b] = recording[b]
<1> DEFINE new == [at |-> "read", op |-> op, event |-> His!Event(kind, l)]
<1>1. new \in Call /\ new.at = "read" /\ new.op = op /\ new.event.kind = kind /\ new.event.life = l
  BY DEF Call, His!Event, His!Events
<1> HIDE DEF new
<1>2. recording' = [recording EXCEPT ![a] = new]
  BY DEF His!Records, new
<1> QED
  BY <1>1, <1>2 DEF HisTypes

(* A call goes on, with what it records; or it ends. *)
LEMMA CallGoesOn ==
  ASSUME HisInv, NEW a \in His!Actor, recording[a].at # "idle", NEW c \in Call \cup {His!Idle},
         recording' = [recording EXCEPT ![a] = c],
         c.at # "idle" => /\ c.event = recording[a].event /\ c.op = recording[a].op
                          /\ c.op = "creation" => recording[a].op = "creation",
         UNCHANGED <<birth, announced>>,
         recorded' \in {recorded, recorded \cup {recording[a].event}}
  PROVE  /\ recording' \in [His!Actor -> Call \cup {His!Idle}]
         /\ recording'[a] = c /\ \A b \in His!Actor : b # a => recording'[b] = recording[b]
         /\ recorded' \in SUBSET His!Events /\ Lived' /\ Calls'
<1>1. /\ recording' \in [His!Actor -> Call \cup {His!Idle}]
      /\ recording'[a] = c /\ \A b \in His!Actor : b # a => recording'[b] = recording[b]
  BY DEF HisInv, HisTypes
<1>2. recorded' \in SUBSET His!Events
  BY CallIs DEF HisInv, HisTypes
<1>3. \A b \in His!Actor : recording'[b].at # "idle" =>
        /\ recording[b].at # "idle" /\ recording'[b].event = recording[b].event
        /\ recording'[b].op = recording[b].op
  BY <1>1
<1>4. Lived'
  BY <1>3 DEF HisInv, Lived
<1>5. Calls'
  BY <1>3 DEF HisInv, Calls, His!Actor
<1> QED
  BY <1>1, <1>2, <1>4, <1>5

(* A writer that is not late extends the history that is there, and a        *)
(* replica is to bury what it adds.                                         *)
LEMMA HistoryWritten ==
  ASSUME HisInv, NEW a \in His!Actor, recording[a].at = "write", recording[a].op # "deletion",
         active' = His!Extended(a), recorded' = recorded \cup {recording[a].event},
         collided' = (collided \/ His!Late(a)), UNCHANGED <<birth, announced, buried, errors>>,
         recording'[a].at \in {"idle", "read"},
         \A b \in His!Actor : b # a => recording'[b] = recording[b]
  PROVE  /\ active' \in History /\ collided' \in BOOLEAN /\ Known'
         /\ ~collided' /\ errors' = 0 => EventsHeld' /\ Followed'
<1> DEFINE got == recording[a].got
<1>0. HisTypes /\ Known /\ Calls
  BY DEF HisInv
<1>1. /\ active' \in History /\ active' # None
      /\ active'.events = {recording[a].event} \cup (IF got = None THEN {} ELSE got.events)
  BY <1>0, ExtendedIs
<1>2. collided' \in BOOLEAN
  BY <1>0 DEF HisTypes, His!Late
<1>3. got # None => got.events \subseteq recorded
  BY <1>0 DEF Known
<1>4. Known'
  BY <1>0, <1>1, <1>3 DEF Known
<1>5. ASSUME ~collided', errors' = 0 PROVE EventsHeld' /\ Followed'
  <2>1. EventsHeld /\ Followed /\ active = got
    BY <1>0, <1>5 DEF HisInv, HisTypes, His!Late
  <2>2. \A e : Safe(e) <=> Safe(e)'
    BY DEF Safe
  <2>3. \A e \in recorded' : Safe(e)' \/ e \in active'.events
    BY <1>1, <2>1, <2>2 DEF EventsHeld
  <2>4. EventsHeld'
    BY <1>1, <2>1, <2>2, <2>3 DEF EventsHeld
  <2>5. CASE a = His!Handler
    <3>1. recording[a].event.kind \in {"created", "waiting"}
      BY <1>0, <2>5 DEF Calls
    <3>2. \A r \in Replica : r \in His!Actor /\ recording'[r] = recording[r]
      BY <2>5, ServicesAssumption DEF His!Actor
    <3> QED
      BY <1>1, <2>1, <2>4, <3>1, <3>2 DEF Followed
  <2>6. CASE a \in Replica
    <3>1. announced'[a] # None
      BY <1>0, <2>6 DEF Calls
    <3> QED
      BY <2>4, <2>6, <3>1 DEF Followed
  <2> QED
    BY <2>5, <2>6 DEF His!Actor
<1> QED
  BY <1>1, <1>2, <1>4, <1>5

LEMMA HisInvStep == HisInv /\ [His!Next]_(His!vars) => HisInv'
<1> SUFFICES ASSUME HisInv, [His!Next]_(His!vars) PROVE HisInv'
  OBVIOUS
<1> USE ServicesAssumption
<1>0. /\ HisTypes /\ Lived /\ Known /\ Calls /\ birth \in Nat /\ errors \in Nat
      /\ His!Handler \in His!Actor /\ Replica \subseteq His!Actor
      /\ \A r \in Replica : r # His!Handler
  BY DEF HisInv, HisTypes, His!Actor
<1>1. ASSUME UNCHANGED <<active, buried, recorded, collided, errors>>, birth' \in Nat, birth <= birth',
             \A a \in His!Actor : recording'[a].at \in {"write", "clear"} => recording'[a] = recording[a],
             \A r \in Replica : announced[r] # None \/ recording[r].at # "idle" =>
                                announced'[r] # None \/ recording'[r].at # "idle"
      PROVE  /\ Known'
             /\ ~collided' /\ errors' = 0 => EventsHeld' /\ Followed'
  <2>0. Known'
    BY <1>0, <1>1 DEF Known
  <2> SUFFICES ASSUME ~collided, errors = 0 PROVE EventsHeld' /\ Followed'
    BY <1>1, <2>0
  <2>1. EventsHeld /\ Followed
    BY DEF HisInv
  <2>3. \A e \in His!Events : Safe(e) => Safe(e)'
    BY <1>0, <1>1 DEF Safe, His!Events
  <2>4. \A a \in His!Actor : recording[a].at = "clear" /\ recording[a].got # None =>
          recording[a].got.events \subseteq His!Events
    BY <1>0, CallIs DEF History
  <2>5. EventsHeld'
    BY <1>0, <1>1, <2>1, <2>3, <2>4 DEF EventsHeld, HisTypes
  <2>6. Followed'
    BY <1>1, <2>1 DEF Followed
  <2> QED
    BY <2>5, <2>6
<1>2. CASE His!Create
  <2>1. /\ life = 0 /\ birth < MaxLives /\ birth' = birth + 1 /\ life' = birth + 1
        /\ health' = "progressing"
        /\ UNCHANGED <<announced, lastStatus, active, buried, recorded, collided, errors>>
    BY <1>2 DEF His!Create, His!replicas
  <2>2. birth' \in 1 .. MaxLives /\ birth <= birth'
    BY <1>0, <2>1
  <2>3. CASE recording' = recording
    <3>1. HisTypes'
      BY <1>0, <2>1, <2>2, <2>3 DEF HisTypes, His!Health
    <3>2. Lived' /\ Calls'
      <4>1. \A e \in His!Events : e.life <= birth => e.life <= birth'
        BY <1>0, <2>1 DEF His!Events
      <4>2. \A a \in His!Actor : recording[a].at # "idle" => recording[a].event \in His!Events
        BY <1>0, CallIs
      <4>3. \A r \in Replica : announced[r] # None /\ announced[r].life <= birth => announced[r].life <= birth'
        BY <1>0, <2>1 DEF HisTypes
      <4> QED
        BY <1>0, <2>1, <2>3, <4>1, <4>2, <4>3 DEF Lived, Calls, HisTypes
    <3> QED
      BY <1>0, <1>1, <2>1, <2>2, <2>3, <3>1, <3>2 DEF HisInv
  <2>4. CASE His!Records(His!Handler, "creation", "created", birth + 1)
    <3>0. recording[His!Handler] = His!Idle \/ recording' = recording
      BY <1>2 DEF His!Create
    <3>1. /\ recording' \in [His!Actor -> Call \cup {His!Idle}]
          /\ recording'[His!Handler].at = "read" /\ recording'[His!Handler].op = "creation"
          /\ recording'[His!Handler].event.kind = "created"
          /\ recording'[His!Handler].event.life = birth'
          /\ \A b \in His!Actor : b # His!Handler => recording'[b] = recording[b]
      BY <1>0, <2>1, <2>2, <2>4, Begins
    <3>2. HisTypes'
      BY <1>0, <2>1, <2>2, <3>1 DEF HisTypes, His!Health
    <3>3. Lived' /\ Calls'
      <4>1. \A e \in His!Events : e.life <= birth => e.life <= birth'
        BY <1>0, <2>1 DEF His!Events
      <4>2. \A a \in His!Actor : recording[a].at # "idle" => recording[a].event \in His!Events
        BY <1>0, CallIs
      <4>3. \A r \in Replica : announced[r] # None /\ announced[r].life <= birth => announced[r].life <= birth'
        BY <1>0, <2>1 DEF HisTypes
      <4>4. Lived'
        BY <1>0, <2>1, <2>2, <3>1, <4>1, <4>2, <4>3 DEF Lived, HisTypes
      <4>5. Calls'
        BY <1>0, <2>1, <3>1 DEF Calls
      <4> QED
        BY <4>4, <4>5
    <3> QED
      BY <1>0, <1>1, <2>1, <2>2, <3>1, <3>2, <3>3 DEF HisInv
  <2> QED
    BY <1>2, <2>3, <2>4 DEF His!Create
<1>3. CASE His!HealthChanges \/ His!Delete
  <2>1. /\ life' \in 0 .. birth /\ health' \in His!Health
        /\ UNCHANGED <<birth, announced, active, buried, recording, recorded, collided, errors>>
    BY <1>0, <1>3 DEF His!HealthChanges, His!Delete, His!replicas, HisTypes, His!Health
  <2>2. HisTypes' /\ Lived' /\ Calls'
    BY <1>0, <2>1 DEF HisTypes, Lived, Calls
  <2> QED
    BY <1>0, <1>1, <2>1, <2>2 DEF HisInv
<1>4. ASSUME NEW r \in Replica, His!Callback(r) PROVE HisInv'
  <2>1. /\ recording[r].at = "idle" /\ r \in His!Actor
        /\ UNCHANGED <<life, birth, health, active, buried, recorded, collided, errors>>
    BY <1>0, <1>4 DEF His!Callback, His!cluster, His!Idle
  <2> DEFINE seenNow == [life |-> life, health |-> health]
  <2>2. life # 0 => /\ seenNow \in [life : 1 .. MaxLives, health : His!Health] /\ seenNow.life = life
                    /\ life <= birth /\ life \in 1 .. MaxLives
    BY <1>0 DEF HisTypes
  <2>3. life # 0 => seenNow # None
    BY <2>2
  <2> HIDE DEF seenNow
  <2>4. \/ /\ life # 0 /\ announced' = [announced EXCEPT ![r] = seenNow]
           /\ \/ His!Records(r, "adopt", "adopted", life)
              \/ His!Records(r, "event", health, life)
              \/ announced[r] # None /\ recording' = recording
        \/ /\ announced[r] # None /\ announced' = [announced EXCEPT ![r] = None]
           /\ His!Records(r, "deletion", "deleted", announced[r].life)
    BY <1>4 DEF His!Callback, His!ToldAdd, His!ToldUpdate, His!ToldDelete, seenNow
  <2>5. /\ announced' \in [Replica -> [life : 1 .. MaxLives, health : His!Health] \cup {None}]
        /\ \A o \in Replica : o # r => announced'[o] = announced[o]
        /\ announced'[r] # None => life # 0 /\ announced'[r].life = life
    BY <1>0, <2>2, <2>4 DEF HisTypes
  <2>6. CASE /\ announced[r] # None /\ recording' = recording
             /\ life # 0 /\ announced' = [announced EXCEPT ![r] = seenNow]
    <3>1. HisTypes'
      BY <1>0, <2>1, <2>5, <2>6 DEF HisTypes
    <3>2. announced'[r] # None
      BY <1>0, <2>3, <2>6 DEF HisTypes
    <3>3. Lived'
      BY <1>0, <2>1, <2>2, <2>5, <2>6 DEF Lived
    <3>4. Calls'
      BY <1>0, <2>1, <2>5, <2>6, <3>2 DEF Calls
    <3> QED
      BY <1>0, <1>1, <2>1, <2>5, <2>6, <3>1, <3>2, <3>3, <3>4 DEF HisInv
  <2>7. CASE \E op \in {"adopt", "event", "deletion"}, kind \in {"adopted", "deleted"} \cup His!Health,
                l \in 1 .. MaxLives :
               /\ His!Records(r, op, kind, l) /\ l <= birth
               /\ op # "deletion" => announced'[r] # None
    <3>1. PICK op \in {"adopt", "event", "deletion"}, kind \in {"adopted", "deleted"} \cup His!Health,
               l \in 1 .. MaxLives :
               /\ His!Records(r, op, kind, l) /\ l <= birth
               /\ op # "deletion" => announced'[r] # None
      BY <2>7
    <3>0. op \in {"creation", "event", "adopt", "deletion"}
          /\ kind \in {"created", "adopted", "waiting", "deleted"} \cup His!Health
      OBVIOUS
    <3>2. /\ recording' \in [His!Actor -> Call \cup {His!Idle}]
          /\ recording'[r].at = "read" /\ recording'[r].op = op
          /\ recording'[r].event.kind = kind /\ recording'[r].event.life = l
          /\ \A b \in His!Actor : b # r => recording'[b] = recording[b]
      BY <1>0, <2>1, <3>0, <3>1, Begins
    <3>3. HisTypes'
      BY <1>0, <2>1, <2>5, <3>2 DEF HisTypes
    <3>4. Lived'
      BY <1>0, <2>1, <2>2, <2>5, <3>1, <3>2 DEF Lived
    <3>5. Calls'
      BY <1>0, <2>1, <2>5, <3>1, <3>2 DEF Calls
    <3> QED
      BY <1>0, <1>1, <2>1, <2>5, <3>2, <3>3, <3>4, <3>5 DEF HisInv
  <2>8. CASE life # 0 /\ announced' = [announced EXCEPT ![r] = seenNow]
             /\ (His!Records(r, "adopt", "adopted", life) \/ His!Records(r, "event", health, life))
    <3>1. announced'[r] # None /\ health \in His!Health
      BY <1>0, <2>3, <2>8 DEF HisTypes
    <3> QED
      BY <2>2, <2>7, <2>8, <3>1
  <2>9. CASE announced[r] # None /\ His!Records(r, "deletion", "deleted", announced[r].life)
    <3>1. announced[r].life \in 1 .. MaxLives /\ announced[r].life <= birth
      BY <1>0, <2>9 DEF HisTypes, Lived
    <3> QED
      BY <2>7, <2>9, <3>1
  <2> QED
    BY <2>4, <2>6, <2>8, <2>9
<1>5. ASSUME NEW r \in Replica, His!Restart(r) PROVE HisInv'
  <2>1. /\ errors' = errors + 1 /\ announced' = [announced EXCEPT ![r] = None]
        /\ recording' = [recording EXCEPT ![r] = His!Idle]
        /\ UNCHANGED <<life, birth, health, active, buried, recorded, collided>>
    BY <1>5 DEF His!Restart, His!cluster
  <2>2. HisTypes' /\ errors' # 0
    BY <1>0, <2>1 DEF HisTypes
  <2>3. \A a \in His!Actor : recording'[a] = IF a = r THEN His!Idle ELSE recording[a]
    BY <1>0, <2>1 DEF HisTypes
  <2>4. \A o \in Replica : announced'[o] = IF o = r THEN None ELSE announced[o]
    BY <1>0, <2>1 DEF HisTypes
  <2>5. Lived' /\ Known' /\ Calls'
    BY <1>0, <2>1, <2>3, <2>4 DEF Lived, Known, Calls, His!Idle
  <2> QED
    BY <2>2, <2>5 DEF HisInv
<1>6. ASSUME NEW a \in His!Actor, His!GetHistory(a) PROVE HisInv'
  <2>1. /\ recording[a].at = "read"
        /\ UNCHANGED <<life, birth, health, announced, active, buried, recorded, collided>>
    BY <1>6 DEF His!GetHistory, His!cluster, His!replicas
  <2>2. PICK got \in {active, None} :
          /\ errors' = IF got # active THEN errors + 1 ELSE errors
          /\ recording' = [recording EXCEPT ![a] = [at |-> "write", op |-> @.op, event |-> @.event,
                                                    got |-> got]]
    BY <1>6 DEF His!GetHistory
  <2> DEFINE c == [at |-> "write", op |-> recording[a].op, event |-> recording[a].event, got |-> got]
  <2>3. recording' = [recording EXCEPT ![a] = c]
    BY <2>2
  <2>4. got \in History \cup {None} /\ errors' \in Nat
    BY <1>0, <2>2 DEF HisTypes
  <2>5. /\ c \in Call /\ c.at = "write" /\ c.got = got
        /\ c.event = recording[a].event /\ c.op = recording[a].op
    BY <1>0, <2>1, <2>4, CallIs DEF Call
  <2> HIDE DEF c
  <2>6. /\ recording' \in [His!Actor -> Call \cup {His!Idle}]
        /\ recording'[a] = c /\ \A b \in His!Actor : b # a => recording'[b] = recording[b]
        /\ recorded' \in SUBSET His!Events /\ Lived' /\ Calls'
    BY <2>1, <2>3, <2>5, CallGoesOn
  <2>7. HisTypes'
    BY <1>0, <2>1, <2>4, <2>6 DEF HisTypes
  <2>8. Known'
    BY <1>0, <2>1, <2>2, <2>5, <2>6 DEF Known
  <2>9. ASSUME ~collided', errors' = 0 PROVE EventsHeld' /\ Followed'
    <3>1. EventsHeld /\ Followed
      BY <1>0, <2>1, <2>2, <2>9 DEF HisInv
    <3>2. EventsHeld'
      BY <2>1, <2>5, <2>6, <3>1 DEF EventsHeld, Safe
    <3>3. Followed'
      BY <1>0, <2>1, <2>5, <2>6, <3>1 DEF Followed
    <3> QED
      BY <3>2, <3>3
  <2> QED
    BY <2>6, <2>7, <2>8, <2>9 DEF HisInv
<1>7. ASSUME NEW a \in His!Actor, His!SaveHistory(a) PROVE HisInv'
  <2>1. /\ recording[a].at = "write" /\ recording[a].op \in {"creation", "event"} /\ His!Then(a)
        /\ UNCHANGED <<life, birth, health, announced, buried>>
    BY <1>7 DEF His!SaveHistory, His!cluster, His!replicas
  <2>2. \/ /\ active' = His!Extended(a) /\ recorded' = recorded \cup {recording[a].event}
           /\ collided' = (collided \/ His!Late(a)) /\ UNCHANGED errors
        \/ errors' = errors + 1 /\ UNCHANGED <<active, recorded, collided>>
    BY <1>7 DEF His!SaveHistory
  <2>3. /\ recording' \in [His!Actor -> Call \cup {His!Idle}]
        /\ recording'[a].at \in {"idle", "read"}
        /\ \A b \in His!Actor : b # a => recording'[b] = recording[b]
        /\ recorded' \in SUBSET His!Events /\ Lived' /\ Calls'
    <3>1. CASE recording' = [recording EXCEPT ![a] = His!Idle]
      <4>1. His!Idle.at = "idle" /\ recording[a].at # "idle"
        BY <2>1 DEF His!Idle
      <4> QED
        BY <2>1, <2>2, <3>1, <4>1, CallGoesOn
    <3>2. CASE /\ recording[a].op = "creation"
               /\ His!Records(a, "event", "waiting", recording[a].event.life)
      <4>1. recording[a].event \in His!Events /\ recording[a].event.life \in 1 .. MaxLives
            /\ recording[a].event.life <= birth
        BY <1>0, <2>1, CallIs DEF Lived
      <4>2. /\ recording' \in [His!Actor -> Call \cup {His!Idle}]
            /\ recording'[a].at = "read" /\ recording'[a].op = "event"
            /\ recording'[a].event.kind = "waiting"
            /\ recording'[a].event.life = recording[a].event.life
            /\ \A b \in His!Actor : b # a => recording'[b] = recording[b]
        BY <1>0, <3>2, <4>1, Begins
      <4>3. a = His!Handler
        BY <1>0, <2>1, <3>2 DEF Calls, His!Actor
      <4>4. recorded' \in SUBSET His!Events
        BY <1>0, <2>2, <4>1 DEF HisTypes
      <4>5. Lived'
        BY <1>0, <2>1, <2>2, <4>1, <4>2 DEF Lived
      <4>6. Calls'
        BY <1>0, <2>1, <4>2, <4>3 DEF Calls
      <4> QED
        BY <4>2, <4>4, <4>5, <4>6
    <3> QED
      BY <2>1, <3>1, <3>2 DEF His!Then
  <2>4. CASE /\ active' = His!Extended(a) /\ recorded' = recorded \cup {recording[a].event}
             /\ collided' = (collided \/ His!Late(a)) /\ UNCHANGED errors
    <3>1. /\ active' \in History /\ collided' \in BOOLEAN /\ Known'
          /\ ~collided' /\ errors' = 0 => EventsHeld' /\ Followed'
      BY <2>1, <2>3, <2>4, HistoryWritten
    <3>2. HisTypes'
      BY <1>0, <2>1, <2>3, <2>4, <3>1 DEF HisTypes
    <3> QED
      BY <2>3, <3>1, <3>2 DEF HisInv
  <2>5. CASE errors' = errors + 1 /\ UNCHANGED <<active, recorded, collided>>
    <3>1. HisTypes' /\ errors' # 0
      BY <1>0, <2>1, <2>3, <2>5 DEF HisTypes
    <3>2. Known'
      BY <1>0, <2>3, <2>5 DEF Known
    <3> QED
      BY <2>3, <3>1, <3>2 DEF HisInv
  <2> QED
    BY <2>2, <2>4, <2>5
<1>8. ASSUME NEW a \in His!Actor, His!CreateHistoryFromInstance(a) PROVE HisInv'
  <2>1. /\ recording[a].at = "write" /\ recording[a].op = "adopt"
        /\ recording' = [recording EXCEPT ![a] = His!Idle] /\ His!Idle.at = "idle"
        /\ UNCHANGED <<life, birth, health, announced, buried>>
    BY <1>8 DEF His!CreateHistoryFromInstance, His!cluster, His!replicas, His!Idle
  <2>2. \/ UNCHANGED <<active, recorded, collided, errors>>
        \/ /\ active' = His!Extended(a) /\ recorded' = recorded \cup {recording[a].event}
           /\ collided' = (collided \/ His!Late(a)) /\ UNCHANGED errors
        \/ errors' = errors + 1 /\ UNCHANGED <<active, recorded, collided>>
    BY <1>8 DEF His!CreateHistoryFromInstance
  <2>3. /\ recording' \in [His!Actor -> Call \cup {His!Idle}]
        /\ recording'[a] = His!Idle
        /\ \A b \in His!Actor : b # a => recording'[b] = recording[b]
        /\ recorded' \in SUBSET His!Events /\ Lived' /\ Calls'
    <3>1. recording[a].at # "idle" /\ recorded' \in {recorded, recorded \cup {recording[a].event}}
      BY <2>1, <2>2
    <3> QED
      BY <2>1, <3>1, CallGoesOn
  <2>4. a \in Replica /\ announced'[a] # None
    BY <1>0, <2>1 DEF Calls, His!Actor
  <2>5. CASE /\ active' = His!Extended(a) /\ recorded' = recorded \cup {recording[a].event}
             /\ collided' = (collided \/ His!Late(a)) /\ UNCHANGED errors
    <3>1. /\ active' \in History /\ collided' \in BOOLEAN /\ Known'
          /\ ~collided' /\ errors' = 0 => EventsHeld' /\ Followed'
      BY <2>1, <2>3, <2>5, HistoryWritten
    <3>2. HisTypes'
      BY <1>0, <2>1, <2>3, <2>5, <3>1 DEF HisTypes
    <3> QED
      BY <2>3, <3>1, <3>2 DEF HisInv
  <2>6. CASE UNCHANGED <<active, recorded, collided>> /\ errors' \in {errors, errors + 1}
    <3>1. HisTypes'
      BY <1>0, <2>1, <2>3, <2>6 DEF HisTypes
    <3>2. Known'
      BY <1>0, <2>1, <2>3, <2>6 DEF Known
    <3>3. ASSUME ~collided', errors' = 0 PROVE EventsHeld' /\ Followed'
      <4>1. EventsHeld
        BY <1>0, <2>6, <3>3 DEF HisInv
      <4>2. EventsHeld'
        BY <2>1, <2>3, <2>6, <4>1 DEF EventsHeld, Safe
      <4>3. Followed'
        BY <2>4 DEF Followed
      <4> QED
        BY <4>2, <4>3
    <3> QED
      BY <2>3, <3>1, <3>2, <3>3 DEF HisInv
  <2> QED
    BY <2>2, <2>5, <2>6
<1>9. ASSUME NEW a \in His!Actor, His!Bury(a) PROVE HisInv'
  <2> DEFINE h == recording[a].got
             c == [recording[a] EXCEPT !.at = "clear"]
  <2>1. /\ recording[a].at = "write" /\ recording[a].op = "deletion"
        /\ recording' = [recording EXCEPT ![a] = c]
        /\ collided' = (collided \/ active # h \/ His!BuriedByAnother(a))
        /\ UNCHANGED <<life, birth, health, announced, active>>
    BY <1>9 DEF His!Bury, His!cluster, His!replicas
  <2>2. \/ h = None /\ UNCHANGED <<buried, recorded, errors>>
        \/ /\ h # None /\ buried' = [buried EXCEPT ![h.id] = His!Extended(a).events]
           /\ recorded' = recorded \cup {recording[a].event} /\ UNCHANGED errors
        \/ errors' = errors + 1 /\ UNCHANGED <<buried, recorded>>
    BY <1>9 DEF His!Bury
  <2>3. /\ recording[a] \in Call /\ h \in History \cup {None} /\ recording[a].event \in His!Events
        /\ His!Extended(a).events = {recording[a].event} \cup (IF h = None THEN {} ELSE h.events)
    BY <1>0, <2>1, CallIs, ExtendedIs
  <2>4. /\ c \in Call /\ c.at = "clear" /\ c.got = h
        /\ c.event = recording[a].event /\ c.op = recording[a].op
    BY <2>1, <2>3 DEF Call
  <2>5. collided' \in BOOLEAN
    BY <1>0, <2>1 DEF HisTypes, His!BuriedByAnother
  <2>6. h # None => h.events \subseteq recorded
    BY <1>0, <2>1 DEF Known
  <2> HIDE DEF c
  <2>7. /\ recording' \in [His!Actor -> Call \cup {His!Idle}]
        /\ recording'[a] = c
        /\ \A b \in His!Actor : b # a => recording'[b] = recording[b]
        /\ recorded' \in SUBSET His!Events /\ Lived' /\ Calls'
    <3>1. recording[a].at # "idle" /\ recorded' \in {recorded, recorded \cup {recording[a].event}}
      BY <2>1, <2>2
    <3> QED
      BY <2>1, <2>4, <3>1, CallGoesOn
  <2>8. HisTypes'
    <3>1. buried' \in [His!Key -> (SUBSET His!Events) \cup {None}]
      <4>1. h # None => h.id \in His!Key /\ His!Extended(a).events \in SUBSET His!Events
        BY <2>3 DEF History
      <4> QED
        BY <1>0, <2>2, <4>1 DEF HisTypes
    <3> QED
      BY <1>0, <2>1, <2>2, <2>5, <2>7, <3>1 DEF HisTypes
  <2>9. Known'
    <3>1. recorded \subseteq recorded'
      BY <2>2
    <3> QED
      BY <1>0, <2>1, <2>4, <2>6, <2>7, <3>1 DEF Known
  <2>10. ASSUME ~collided', errors' = 0 PROVE EventsHeld' /\ Followed'
    <3>0. ~collided /\ active = h /\ ~His!BuriedByAnother(a)
      BY <2>1, <2>10
    <3>1. /\ EventsHeld /\ Followed /\ active = h /\ ~His!BuriedByAnother(a)
          /\ errors' = errors
      BY <1>0, <2>2, <2>10, <3>0 DEF HisInv
    <3>2. Followed'
      <4>1. \A b \in His!Actor : recording[b].at # "idle" => recording'[b].at # "idle"
        BY <2>4, <2>7
      <4> QED
        BY <1>0, <2>1, <3>1, <4>1 DEF Followed
    <3>3. CASE h = None
      <4>1. UNCHANGED <<buried, recorded>>
        BY <1>0, <2>2, <3>1, <3>3
      <4>2. \A e : Safe(e) <=> Safe(e)'
        BY <2>1, <4>1 DEF Safe
      <4>3. EventsHeld'
        BY <2>1, <2>4, <2>7, <3>1, <3>3, <4>1, <4>2 DEF EventsHeld
      <4> QED
        BY <3>2, <4>3
    <3>4. CASE h # None
      <4>1. /\ h \in History /\ h.id \in His!Key
            /\ buried' = [buried EXCEPT ![h.id] = His!Extended(a).events]
            /\ recorded' = recorded \cup {recording[a].event}
        BY <1>0, <2>2, <2>3, <3>1, <3>4 DEF History
      <4>2. /\ buried'[h.id] = {recording[a].event} \cup h.events /\ buried'[h.id] # None
            /\ \A k \in His!Key : k # h.id => buried'[k] = buried[k]
        <5>1. {recording[a].event} \cup h.events \in SUBSET His!Events
          BY <2>3, <4>1 DEF History
        <5> QED
          BY <1>0, <2>3, <3>4, <4>1, <5>1 DEF HisTypes
      <4>3. \A e \in {recording[a].event} \cup h.events : Safe(e)'
        BY <4>1, <4>2 DEF Safe
      <4>4. \A e \in recorded : Safe(e) => Safe(e)'
        <5>1. TAKE e \in recorded
        <5>2. e.life \in Nat /\ e.life <= birth
          BY <1>0 DEF HisTypes, Lived, His!Events
        <5>3. buried[h.id] # None /\ e \in buried[h.id] => e.life < birth
          BY <1>0, <3>1, <3>4, <5>2 DEF His!BuriedByAnother
        <5> QED
          BY <2>1, <4>1, <4>2, <5>3 DEF Safe
      <4>5. \A b \in His!Actor : b # a /\ recording[b].at = "clear" /\ recording[b].got # None =>
              recording[b].got.events \subseteq recorded
        BY <1>0 DEF Known
      <4>6. EventsHeld'
        BY <2>1, <2>4, <2>7, <3>1, <3>4, <4>1, <4>3, <4>4, <4>5 DEF EventsHeld
      <4> QED
        BY <3>2, <4>6
    <3> QED
      BY <3>3, <3>4
  <2> QED
    BY <2>7, <2>8, <2>9, <2>10 DEF HisInv
<1>10. ASSUME NEW a \in His!Actor, His!ClearActive(a) PROVE HisInv'
  <2>1. /\ recording[a].at = "clear"
        /\ recording' = [recording EXCEPT ![a] = His!Idle] /\ His!Idle.at = "idle"
        /\ collided' = (collided \/ active # recording[a].got)
        /\ UNCHANGED <<life, birth, health, announced, buried, recorded>>
    BY <1>10 DEF His!ClearActive, His!cluster, His!replicas, His!Idle
  <2>2. \/ active' = None /\ UNCHANGED errors
        \/ errors' = errors + 1 /\ UNCHANGED active
    BY <1>10 DEF His!ClearActive
  <2>3. /\ recording' \in [His!Actor -> Call \cup {His!Idle}]
        /\ recording'[a] = His!Idle
        /\ \A b \in His!Actor : b # a => recording'[b] = recording[b]
        /\ Lived' /\ Calls'
    <3>1. recording[a].at # "idle" /\ recorded' \in {recorded, recorded \cup {recording[a].event}}
      BY <2>1
    <3> QED
      BY <2>1, <3>1, CallGoesOn
  <2>4. HisTypes'
    BY <1>0, <2>1, <2>2, <2>3 DEF HisTypes
  <2>5. Known'
    BY <1>0, <2>1, <2>2, <2>3 DEF Known
  <2>6. ASSUME ~collided', errors' = 0 PROVE EventsHeld' /\ Followed'
    <3>0. ~collided /\ active = recording[a].got
      BY <2>1, <2>6
    <3>1. /\ EventsHeld /\ active = recording[a].got
          /\ active' = None
      BY <1>0, <2>2, <2>6, <3>0 DEF HisInv
    <3>2. EventsHeld'
      BY <2>1, <2>3, <3>1 DEF EventsHeld, Safe
    <3> QED
      BY <3>1, <3>2 DEF Followed
  <2> QED
    BY <2>3, <2>4, <2>5, <2>6 DEF HisInv
<1>11. CASE UNCHANGED His!vars
  <2>1. UNCHANGED <<life, birth, health, announced, active, buried, recording, recorded, collided, errors>>
    BY <1>11 DEF His!vars
  <2>2. HisTypes' /\ Lived' /\ Known' /\ Calls'
    BY <1>0, <2>1 DEF HisTypes, Lived, Known, Calls
  <2>3. EventsHeld /\ Followed => EventsHeld' /\ Followed'
    BY <2>1 DEF EventsHeld, Followed, Safe
  <2> QED
    BY <2>1, <2>2, <2>3 DEF HisInv
<1> QED
  BY <1>2, <1>3, <1>4, <1>5, <1>6, <1>7, <1>8, <1>9, <1>10, <1>11 DEF His!Next, His!Step

(* In every reachable state of the program a recorded event is still held by *)
(* a history, and the history of a deleted instance is not left as if it      *)
(* were there, unless a writer was late or Redis failed (RecordEvent,         *)
(* RecordDeletion).                                                         *)
THEOREM HistoriesStayKept == AllSpec => []HistoriesAreKept
<1>1. AllInit => HisInv
  BY HisInvInit
<1>2. HisInv /\ [AllNext]_allVars => HisInv'
  <2>1. AllNext => [His!Next]_(His!vars)
    BY DEF AllNext, historyVars, His!vars, His!cluster, His!replicas
  <2>2. UNCHANGED allVars => UNCHANGED His!vars
    BY DEF allVars, historyVars, His!vars, His!cluster, His!replicas
  <2> QED
    BY <2>1, <2>2, HisInvStep
<1>3. HisInv => HistoriesAreKept
  <2> SUFFICES ASSUME HisInv, ~collided, errors = 0 PROVE His!EventsAreKept /\ His!GoneIsBuried
    BY DEF HistoriesAreKept, His!EventsAreKept, His!GoneIsBuried
  <2>1. EventsHeld /\ Followed
    BY DEF HisInv
  <2>2. His!EventsAreKept
    BY <2>1 DEF His!EventsAreKept, EventsHeld, Safe
  <2>3. His!GoneIsBuried
    BY <2>1 DEF His!GoneIsBuried, Followed, His!Idle, His!Actor
  <2> QED
    BY <2>2, <2>3
<1> QED
  BY <1>1, <1>2, <1>3, PTL DEF AllSpec

-----------------------------------------------------------------------------
(* Schemas *)

Outcome == {"crd", "absent", "error"}
Entry == [of : Outcome, version : Nat, left : Nat]
Visit == [at : {"list", "enrich", "answer"}, since : 0 .. Latency]
           \cup [at : {"store"}, since : 0 .. Latency, version : Nat, of : Outcome]

SchTypes ==
  /\ crd \in Nat /\ crdAge \in Nat
  /\ schema \in Entry \cup {Sch!Nothing}
  /\ asker \in [Request -> Visit \cup {Sch!Waiting}]

(* What a request has read, and what it stored, is of the CRD as it is, or   *)
(* the CRD changed after it was read.                                       *)
ReadLately ==
  /\ \A q \in Request : asker[q].at = "store" /\ asker[q].version # crd => crdAge <= asker[q].since
  /\ schema # Sch!Nothing =>
       /\ schema.left <= Sch!Ttl(schema.of)
       /\ Sch!Hit /\ schema.version # crd => crdAge + schema.left <= Latency + Sch!Ttl(schema.of)

SchInv == SchTypes /\ ReadLately

LEMMA SchInvInit == AllInit => SchInv
<1> SUFFICES ASSUME Sch!Init PROVE SchInv
  BY DEF AllInit
<1>1. crdAge \in Nat
  BY ServicesAssumption DEF Sch!Init, Sch!OldestAge
<1> QED
  BY <1>1 DEF Sch!Init, SchInv, SchTypes, ReadLately, Sch!Waiting

LEMMA SchInvStep == SchInv /\ [Sch!Next]_(Sch!vars) => SchInv'
<1> SUFFICES ASSUME SchInv, [Sch!Next]_(Sch!vars) PROVE SchInv'
  OBVIOUS
<1> USE ServicesAssumption
<1>0. /\ SchTypes /\ ReadLately
      /\ \A of : Sch!Ttl(of) \in Nat
      /\ Sch!Waiting.at = "idle" /\ Sch!Nothing.of = "nothing"
  BY DEF SchInv, Sch!Ttl, Sch!Waiting, Sch!Nothing
<1>1. CASE Sch!WriteCRD
  <2>1. /\ crd' \in Nat /\ crdAge' = 0 /\ UNCHANGED <<schema, asker>>
    BY <1>0, <1>1 DEF Sch!WriteCRD, SchTypes
  <2>2. \A q \in Request : asker[q].at = "store" => asker[q].since \in Nat
    BY <1>0 DEF SchTypes, Visit
  <2>3. SchTypes'
    BY <1>0, <2>1 DEF SchTypes
  <2>4. schema # Sch!Nothing => schema.left \in Nat /\ Sch!Ttl(schema.of) \in Nat
    BY <1>0 DEF SchTypes, Entry
  <2>5. ReadLately'
    BY <1>0, <2>1, <2>2, <2>4 DEF ReadLately, Sch!Hit
  <2> QED
    BY <2>3, <2>5 DEF SchInv
<1>2. CASE Sch!InvalidateCache
  BY <1>0, <1>2 DEF Sch!InvalidateCache, SchInv, SchTypes, ReadLately, Sch!Hit
<1>3. CASE Sch!Pass
  <2>1. /\ crd' = crd /\ crdAge' \in Nat /\ crdAge' <= crdAge + 1
        /\ asker' = [q \in Request |-> IF asker[q] = Sch!Waiting THEN Sch!Waiting
                                       ELSE [asker[q] EXCEPT !.since = @ + 1]]
        /\ \A q \in Request : asker[q] # Sch!Waiting => asker[q].since < Latency
    BY <1>0, <1>3 DEF Sch!Pass, SchTypes
  <2>2. schema' = IF Sch!Hit THEN [schema EXCEPT !.left = @ - 1] ELSE schema
    BY <1>3 DEF Sch!Pass
  <2>3. ASSUME NEW q \in Request
        PROVE  /\ asker'[q] \in Visit \cup {Sch!Waiting}
               /\ asker'[q].at = "store" =>
                    /\ asker[q].at = "store" /\ asker[q].since \in Nat
                    /\ asker'[q].version = asker[q].version
                    /\ asker'[q].since = asker[q].since + 1
    <3>1. CASE asker[q] = Sch!Waiting
      BY <1>0, <2>1, <3>1
    <3>2. CASE asker[q] # Sch!Waiting
      <4>1. asker[q] \in Visit /\ asker[q].since < Latency
            /\ asker'[q] = [asker[q] EXCEPT !.since = @ + 1]
        BY <1>0, <2>1, <3>2 DEF SchTypes
      <4>2. asker[q].since + 1 \in 0 .. Latency
        BY <4>1 DEF Visit
      <4>3. CASE asker[q] \in [at : {"list", "enrich", "answer"}, since : 0 .. Latency]
        BY <4>1, <4>2, <4>3 DEF Visit
      <4>4. CASE asker[q] \in [at : {"store"}, since : 0 .. Latency, version : Nat, of : Outcome]
        BY <4>1, <4>2, <4>4 DEF Visit
      <4> QED
        BY <4>1, <4>3, <4>4 DEF Visit
    <3> QED
      BY <3>1, <3>2
  <2>4. CASE schema = Sch!Nothing
    <3>1. schema' = Sch!Nothing
      BY <1>0, <2>2, <2>4 DEF Sch!Hit
    <3> QED
      BY <1>0, <2>1, <2>3, <3>1 DEF SchInv, SchTypes, ReadLately
  <2>5. CASE schema # Sch!Nothing
    <3>1. schema \in Entry /\ Sch!Ttl(schema.of) \in Nat
      BY <1>0, <2>5 DEF SchTypes
    <3>2. /\ schema' \in Entry /\ schema'.of = schema.of /\ schema'.version = schema.version
          /\ schema'.left = IF schema.left > 0 THEN schema.left - 1 ELSE 0
      BY <1>0, <2>2, <3>1 DEF Sch!Hit, Entry, Outcome
    <3>3. Sch!Hit' /\ schema'.version # crd => crdAge' + schema'.left <= Latency + Sch!Ttl(schema.of)
      <4> SUFFICES ASSUME Sch!Hit', schema.version # crd
                   PROVE  crdAge' + schema'.left <= Latency + Sch!Ttl(schema.of)
        BY <3>2
      <4>1. schema.left > 0 /\ schema'.left = schema.left - 1 /\ Sch!Hit
        BY <3>1, <3>2 DEF Sch!Hit, Entry, Outcome
      <4>2. crdAge + schema.left <= Latency + Sch!Ttl(schema.of)
        BY <1>0, <2>5, <4>1 DEF ReadLately
      <4> QED
        BY <1>0, <2>1, <3>1, <4>1, <4>2 DEF SchTypes, Entry
    <3>4. schema'.left <= Sch!Ttl(schema.of)
      BY <1>0, <2>5, <3>1, <3>2 DEF ReadLately, Entry
    <3>5. SchTypes'
      BY <1>0, <2>1, <2>3, <3>2 DEF SchTypes
    <3>6. \A q \in Request : asker'[q].at = "store" /\ asker'[q].version # crd' => crdAge' <= asker'[q].since
      BY <1>0, <2>1, <2>3 DEF ReadLately, SchTypes
    <3> QED
      BY <2>1, <3>2, <3>3, <3>4, <3>5, <3>6 DEF SchInv, ReadLately
  <2> QED
    BY <2>4, <2>5
<1>4. ASSUME NEW q \in Request, NEW c \in Visit \cup {Sch!Waiting},
             asker' = [asker EXCEPT ![q] = c], c.at = "store" => c.version = crd,
             UNCHANGED <<crd, crdAge, schema>>
      PROVE  SchInv'
  <2>1. SchTypes'
    BY <1>0, <1>4 DEF SchTypes
  <2>2. \A o \in Request : asker'[o] = IF o = q THEN c ELSE asker[o]
    BY <1>0, <1>4 DEF SchTypes
  <2>3. ReadLately'
    BY <1>0, <1>4, <2>2 DEF ReadLately, Sch!Hit
  <2> QED
    BY <2>1, <2>3 DEF SchInv
<1>5. ASSUME NEW q \in Request, Sch!Ask(q) \/ Sch!AskAgain(q) \/ Sch!GetSchema(q) \/ Sch!ListCRDs(q)
      PROVE  SchInv'
  <2>1. UNCHANGED <<crd, crdAge, schema>>
    BY <1>5 DEF Sch!Ask, Sch!AskAgain, Sch!GetSchema, Sch!ListCRDs
  <2>2. CASE Sch!Ask(q)
    <3> DEFINE c == [at |-> "list", since |-> 0]
    <3>1. c \in Visit /\ c.at = "list" /\ asker' = [asker EXCEPT ![q] = c]
      BY <2>2 DEF Sch!Ask, Visit
    <3> HIDE DEF c
    <3> QED
      BY <1>4, <2>1, <3>1
  <2>3. CASE Sch!AskAgain(q)
    <3> DEFINE c == [at |-> IF schema.of = "crd" THEN "enrich" ELSE "answer", since |-> 0]
    <3>1. c \in Visit /\ c.at # "store" /\ asker' = [asker EXCEPT ![q] = c]
      BY <2>3 DEF Sch!AskAgain, Visit
    <3> HIDE DEF c
    <3> QED
      BY <1>4, <2>1, <3>1
  <2>4. CASE Sch!GetSchema(q)
    <3>1. asker' = [asker EXCEPT ![q] = Sch!Waiting]
      BY <2>4 DEF Sch!GetSchema
    <3> QED
      BY <1>0, <1>4, <2>1, <3>1
  <2>5. CASE Sch!ListCRDs(q)
    <3>1. asker[q].since \in 0 .. Latency
      BY <1>0, <2>5 DEF Sch!ListCRDs, SchTypes, Visit
    <3>2. PICK of \in Outcome :
            asker' = [asker EXCEPT ![q] = [at |-> "store", since |-> @.since, version |-> crd, of |-> of]]
      BY <2>5 DEF Sch!ListCRDs, Outcome
    <3> DEFINE c == [at |-> "store", since |-> asker[q].since, version |-> crd, of |-> of]
    <3>3. /\ c \in Visit /\ c.version = crd /\ asker' = [asker EXCEPT ![q] = c]
      BY <1>0, <3>1, <3>2 DEF Visit, SchTypes
    <3> HIDE DEF c
    <3> QED
      BY <1>4, <2>1, <3>3
  <2> QED
    BY <1>5, <2>2, <2>3, <2>4, <2>5
<1>6. ASSUME NEW q \in Request, Sch!StoreSchema(q) PROVE SchInv'
  <2>1. asker[q].at = "store" /\ UNCHANGED <<crd, crdAge>>
    BY <1>6 DEF Sch!StoreSchema
  <2>2. /\ asker[q].since \in 0 .. Latency /\ asker[q].version \in Nat /\ asker[q].of \in Outcome
    BY <1>0, <2>1 DEF SchTypes, Visit
  <2> DEFINE c == [at |-> IF asker[q].of = "crd" THEN "enrich" ELSE "answer", since |-> asker[q].since]
             e == [of |-> asker[q].of, version |-> asker[q].version, left |-> Sch!Ttl(asker[q].of)]
  <2>3. /\ c \in Visit /\ c.at # "store" /\ asker' = [asker EXCEPT ![q] = c]
    BY <1>6, <2>2 DEF Sch!StoreSchema, Visit
  <2>4. e \in Entry /\ schema' = e
    BY <1>0, <1>6, <2>2 DEF Sch!StoreSchema, Entry
  <2>5. SchTypes'
    BY <1>0, <2>1, <2>3, <2>4 DEF SchTypes
  <2>6. \A o \in Request : asker'[o] = IF o = q THEN c ELSE asker[o]
    BY <1>0, <2>3 DEF SchTypes
  <2>7. asker[q].version # crd => crdAge <= Latency
    BY <1>0, <2>1, <2>2 DEF ReadLately, SchTypes
  <2>8. /\ e.of = asker[q].of /\ e.version = asker[q].version /\ e.left = Sch!Ttl(e.of)
        /\ e.left \in Nat
    BY <1>0
  <2> HIDE DEF c, e
  <2>9. ReadLately'
    <3>1. \A o \in Request : asker'[o].at = "store" /\ asker'[o].version # crd' => crdAge' <= asker'[o].since
      BY <1>0, <2>1, <2>3, <2>6 DEF ReadLately
    <3>2. e.left <= Sch!Ttl(e.of) /\ (e.version # crd => crdAge + e.left <= Latency + Sch!Ttl(e.of))
      BY <1>0, <2>7, <2>8 DEF SchTypes
    <3> QED
      BY <2>1, <2>4, <3>1, <3>2 DEF ReadLately
  <2> QED
    BY <2>5, <2>9 DEF SchInv
<1>7. CASE UNCHANGED Sch!vars
  BY <1>0, <1>7 DEF Sch!vars, SchInv, SchTypes, ReadLately, Sch!Hit
<1> QED
  BY <1>1, <1>2, <1>3, <1>5, <1>6, <1>7 DEF Sch!Next

-----------------------------------------------------------------------------
(* CatalogLists *)

(* Division by the size of a page. *)
LEMMA DivIs ==
  ASSUME NEW a \in Nat, NEW p \in Nat \ {0}, NEW k \in Nat
  PROVE  /\ a \div p \in Nat
         /\ a \div p >= k => a >= k * p
         /\ (k * p) \div p = k
<1>a. a \div p \in Int /\ a \div p >= 0
  OBVIOUS
<1>b. a = p * (a \div p) + (a % p)
  OBVIOUS
<1>c. a % p \in 0 .. p - 1
  OBVIOUS
<1>1. a \div p \in Nat
  BY <1>a
<1>2. a \div p >= k => a >= k * p
  <2> DEFINE q == a \div p
             m == a % p
  <2>1. q \in Nat /\ a = p * q + m /\ m \in 0 .. p - 1
    BY <1>1, <1>b, <1>c
  <2> HIDE DEF q, m
  <2>2. q >= k => p * q >= p * k
    BY <2>1
  <2>3. q >= k => a >= k * p
    BY <2>1, <2>2
  <2> QED
    BY <2>3 DEF q
<1>3. (k * p) \div p = k
  <2> DEFINE b == k * p
             q == b \div p
             m == b % p
  <2>0. b \in Nat
    OBVIOUS
  <2>k. b = p * k
    OBVIOUS
  <2> HIDE DEF b
  <2>a. q \in Int /\ q >= 0
    BY <2>0
  <2>b. b = p * q + m
    BY <2>0
  <2>c. m \in 0 .. p - 1
    BY <2>0
  <2>1. q \in Nat /\ b = p * q + m /\ m \in 0 .. p - 1
    BY <2>a, <2>b, <2>c
  <2> HIDE DEF q, m
  <2>2. p * (k - q) = m
    BY <2>0, <2>k, <2>1
  <2>3. k - q >= 1 => p * (k - q) >= p
    BY <2>1
  <2>4. k - q <= -1 => p * (k - q) < 0
    BY <2>1
  <2>5. q = k
    BY <2>1, <2>2, <2>3, <2>4
  <2> QED
    BY <2>5 DEF q, b
<1> QED
  BY <1>1, <1>2, <1>3

LEMMA ListsCardinality == \A S : Lists!Cardinality(S) = Cardinality(S)
  BY Zenon DEF Lists!Cardinality, Cardinality, IsFiniteSet

Below(s, r) == Lists!Cardinality({j \in s : j < r})

LEMMA RankIs ==
  ASSUME NEW s \in SUBSET Lists!Rgd
  PROVE  /\ IsFiniteSet(s) /\ Cardinality(s) \in Nat
         /\ \A r \in s : Below(s, r) \in 0 .. Cardinality(s) - 1
         /\ \A r, t \in s : r < t => Below(s, r) < Below(s, t)
<1>1. IsFiniteSet(s) /\ Cardinality(s) \in Nat /\ s \subseteq Nat
  <2>1. Lists!Rgd = 1 .. MaxRgds /\ MaxRgds \in Int
    BY ServicesAssumption DEF Lists!Rgd
  <2>2. IsFiniteSet(Lists!Rgd)
    BY <2>1, FS_Interval
  <2>3. IsFiniteSet(s)
    BY <2>2, FS_Subset
  <2> QED
    BY <2>1, <2>3, FS_CardinalityType
<1>2. ASSUME NEW r \in s PROVE Below(s, r) \in 0 .. Cardinality(s) - 1
  <2> DEFINE b == {j \in s : j < r}
  <2>1. b \in SUBSET s /\ r \notin b
    BY <1>1
  <2>2. IsFiniteSet(b) /\ Cardinality(b) \in Nat /\ Cardinality(b) <= Cardinality(s)
        /\ Cardinality(b) # Cardinality(s)
    BY <1>1, <2>1, FS_Subset, FS_CardinalityType
  <2> QED
    BY <1>1, <2>2, ListsCardinality DEF Below
<1>3. ASSUME NEW r \in s, NEW t \in s, r < t PROVE Below(s, r) < Below(s, t)
  <2> DEFINE b == {j \in s : j < r}
             c == {j \in s : j < t}
  <2>1. b \in SUBSET c /\ c \in SUBSET s /\ r \in c /\ r \notin b
    <3>1. r \in Nat /\ t \in Nat /\ r < t /\ ~(r < r)
      BY <1>1, <1>3
    <3>2. \A j \in s : j < r => j < t
      BY <1>1, <3>1
    <3> QED
      BY <1>3, <3>1, <3>2
  <2> HIDE DEF b, c
  <2>2. IsFiniteSet(c) /\ Cardinality(c) \in Nat
    BY <1>1, <2>1, FS_Subset, FS_CardinalityType
  <2>3. IsFiniteSet(b) /\ Cardinality(b) \in Nat /\ Cardinality(b) <= Cardinality(c)
        /\ Cardinality(b) # Cardinality(c)
    BY <2>1, <2>2, FS_Subset, FS_CardinalityType
  <2> QED
    BY <2>2, <2>3, ListsCardinality DEF Below, b, c
<1> QED
  BY <1>1, <1>2, <1>3

\* Each place in a list is taken.
LEMMA RankTaken ==
  ASSUME NEW s \in SUBSET Lists!Rgd, NEW n \in 0 .. Cardinality(s) - 1
  PROVE  \E r \in s : Below(s, r) = n
<1> DEFINE places == 0 .. Cardinality(s) - 1
           f == [r \in s |-> Below(s, r)]
<1>1. IsFiniteSet(s) /\ Cardinality(s) \in Nat /\ s \subseteq Nat
  BY RankIs DEF Lists!Rgd
<1>2. IsFiniteSet(places) /\ Cardinality(places) = Cardinality(s)
  BY <1>1, FS_Interval
<1>3. f \in Injection(s, places)
  <2>1. f \in [s -> places]
    BY RankIs
  <2>2. ASSUME NEW r \in s, NEW t \in s, f[r] = f[t] PROVE r = t
    <3>1. Below(s, r) = Below(s, t) /\ Below(s, r) \in Int /\ r \in Nat /\ t \in Nat
      BY <1>1, <2>2, RankIs
    <3> QED
      BY <3>1, RankIs
  <2> QED
    BY <2>1, <2>2 DEF Injection, IsInjective
<1>4. f \in Surjection(s, places)
  BY <1>1, <1>2, <1>3, FS_Injection
<1> QED
  BY <1>4 DEF Surjection

(* When a page is empty, all that is listed is on an earlier one. *)
LEMMA EmptyPageIsLast ==
  ASSUME NEW s \in SUBSET Lists!Rgd, NEW page \in Nat \ {0}, Lists!Slice(s, page) = {}
  PROVE  s = {r \in s : Below(s, r) \div PageSize < page - 1}
<1> DEFINE k == page - 1
<1>1. k \in Nat /\ PageSize \in Nat \ {0}
  BY ServicesAssumption
<1>2. \A r \in s : Below(s, r) \div PageSize # k
  BY DEF Lists!Slice, Below
<1>3. ASSUME NEW r \in s, ~(Below(s, r) \div PageSize < k) PROVE FALSE
  <2>1. Below(s, r) \in 0 .. Cardinality(s) - 1 /\ Cardinality(s) \in Nat
    BY RankIs
  <2>2. Below(s, r) \div PageSize \in Nat
    BY <1>1, <2>1, DivIs
  <2>3. Below(s, r) >= k * PageSize /\ (k * PageSize) \div PageSize = k
    BY <1>1, <1>3, <2>1, <2>2, DivIs
  <2>4. k * PageSize \in Nat
    BY <1>1
  <2>5. k * PageSize \in 0 .. Cardinality(s) - 1
    BY <2>1, <2>3, <2>4
  <2>6. PICK t \in s : Below(s, t) = k * PageSize
    BY <2>5, RankTaken
  <2> QED
    BY <1>2, <2>3, <2>6
<1> QED
  BY <1>3

Walk == [at : {"fetch", "store", "filter"}, projects : SUBSET Project, items : SUBSET Lists!Rgd,
         age : 0 .. Latency, page : Nat \ {0}, first : {None} \cup SUBSET Lists!Rgd,
         shown : SUBSET Lists!Rgd, calm : BOOLEAN]
Shelved == [items : SUBSET Lists!Rgd, age : 0 .. ListTTL - 1]

ListTypes ==
  /\ member \in [User -> SUBSET Project] /\ permitted \in [User -> SUBSET Lists!Rgd]
  /\ shelf \in [SUBSET Project -> Shelved \cup {None}]
  /\ unseen \in [SUBSET Project -> [Lists!Rgd -> 0 .. Lists!Old]]
  /\ walk \in [User -> Walk \cup {None}]

\* What a request has read was listed lately.
ReadOf(w, listed) ==
  /\ w.at = "store" => \A r \in w.items : listed[w.projects][r] <= w.age
  /\ w.at = "filter" =>
       \A r \in w.items : listed[w.projects][r] <= ListTTL - 1 + Latency + w.age

\* A calm walk has shown all that is on the pages before.
Walked(w) ==
  w.calm =>
    /\ w.first = None => w.page = 1 /\ w.shown = {}
    /\ w.first # None => w.shown = {r \in w.first : Below(w.first, r) \div PageSize < w.page - 1}

ListsInv ==
  /\ ListTypes
  /\ \A ps \in SUBSET Project : \A r \in Lists!Provided(ps) : unseen[ps][r] = 0
  /\ \A ps \in SUBSET Project : shelf[ps] # None =>
       \A r \in shelf[ps].items : unseen[ps][r] <= shelf[ps].age + Latency
  /\ \A u \in User : walk[u] # None => ReadOf(walk[u], unseen) /\ Walked(walk[u])
  /\ ~outdated /\ ~misread

LEMMA ListsInvInit == AllInit => ListsInv
<1> SUFFICES ASSUME Lists!Init PROVE ListsInv
  BY DEF AllInit
<1>1. Lists!Old \in Nat
  BY ServicesAssumption DEF Lists!Old
<1>2. ListTypes
  BY <1>1 DEF Lists!Init, ListTypes
<1>3. \A ps \in SUBSET Project : \A r \in Lists!Provided(ps) : unseen[ps][r] = 0
  BY DEF Lists!Init, Lists!Provided
<1> QED
  BY <1>2, <1>3 DEF Lists!Init, ListsInv

LEMMA ListsInvStep == ListsInv /\ [Lists!Next]_(Lists!vars) => ListsInv'
<1> SUFFICES ASSUME ListsInv, [Lists!Next]_(Lists!vars) PROVE ListsInv'
  OBVIOUS
<1>a. /\ Latency \in Nat /\ ListTTL \in Nat \ {0} /\ PageSize \in Nat \ {0}
      /\ \A rs \in SUBSET Lists!Rgd : rs # None
  BY ServicesAssumption
<1> USE <1>a
<1>0. /\ ListTypes /\ ~outdated /\ ~misread
      /\ \A ps \in SUBSET Project : \A r \in Lists!Provided(ps) : unseen[ps][r] = 0
      /\ \A ps \in SUBSET Project : shelf[ps] # None =>
           \A r \in shelf[ps].items : unseen[ps][r] <= shelf[ps].age + Latency
      /\ \A u \in User : walk[u] # None => walk[u] \in Walk /\ ReadOf(walk[u], unseen) /\ Walked(walk[u])
      /\ \A ps \in SUBSET Project : Lists!Provided(ps) \in SUBSET Lists!Rgd
  BY DEF ListsInv, ListTypes, Lists!Provided
<1>1. ASSUME NEW u \in User, NEW c \in Walk \cup {None}, walk' = [walk EXCEPT ![u] = c],
             c # None => ReadOf(c, unseen) /\ Walked(c),
             UNCHANGED <<labels, member, permitted, unseen>>
      PROVE  /\ walk' \in [User -> Walk \cup {None}]
             /\ \A o \in User : walk'[o] # None => ReadOf(walk'[o], unseen') /\ Walked(walk'[o])
             /\ \A ps \in SUBSET Project : \A r \in Lists!Provided(ps)' : unseen'[ps][r] = 0
  <2>1. \A o \in User : walk'[o] = IF o = u THEN c ELSE walk[o]
    BY <1>0, <1>1 DEF ListTypes
  <2>2. \A o \in User : walk'[o] # None => ReadOf(walk'[o], unseen) /\ Walked(walk'[o])
    BY <1>0, <1>1, <2>1
  <2>3. \A ps \in SUBSET Project : Lists!Provided(ps)' = Lists!Provided(ps)
    BY <1>1 DEF Lists!Provided, Lists!MatchesFilter
  <2> QED
    BY <1>0, <1>1, <2>2, <2>3 DEF ListTypes, ReadOf
<1>2. ASSUME NEW u \in User, Lists!Begin(u) PROVE ListsInv'
  <2> DEFINE c == [at |-> "fetch", projects |-> member[u], items |-> {}, age |-> 0, page |-> 1,
                   first |-> None, shown |-> {}, calm |-> TRUE]
  <2>1. /\ walk' = [walk EXCEPT ![u] = c]
        /\ UNCHANGED <<labels, member, permitted, shelf, unseen, misread, outdated>>
    BY <1>2 DEF Lists!Begin
  <2>2. c \in Walk /\ c.at = "fetch" /\ c.first = None /\ c.page = 1 /\ c.shown = {}
    BY <1>0 DEF ListTypes, Walk
  <2> HIDE DEF c
  <2>3. ReadOf(c, unseen) /\ Walked(c)
    BY <2>2 DEF ReadOf, Walked
  <2> QED
    BY <1>0, <1>1, <2>1, <2>2, <2>3 DEF ListsInv, ListTypes
<1>3. ASSUME NEW u \in User, Lists!GetCached(u) PROVE ListsInv'
  <2> DEFINE w == walk[u]
             items == shelf[w.projects].items
             c == [w EXCEPT !.at = "filter", !.items = items]
  <2>1. /\ w \in Walk /\ Walked(w) /\ shelf[w.projects] # None
        /\ UNCHANGED <<labels, member, permitted, shelf, unseen, misread, outdated>>
    BY <1>0, <1>3 DEF Lists!GetCached, Lists!ListCacheKey
  <2>2. walk' = [walk EXCEPT ![u] = c]
    BY <1>0, <1>3 DEF Lists!GetCached, Lists!ListCacheKey, ListTypes
  <2>3. /\ w.projects \in SUBSET Project /\ shelf[w.projects] \in Shelved
        /\ w.age \in 0 .. Latency
    BY <1>0, <2>1 DEF ListTypes, Walk
  <2>4. /\ items \in SUBSET Lists!Rgd /\ shelf[w.projects].age \in 0 .. ListTTL - 1
        /\ \A r \in items : unseen[w.projects][r] <= shelf[w.projects].age + Latency
        /\ \A r \in items : unseen[w.projects][r] \in Nat
    BY <1>0, <2>1, <2>3 DEF Shelved, ListTypes
  <2>5. /\ c \in Walk /\ c.at = "filter" /\ c.items = items /\ c.projects = w.projects
        /\ c.age = w.age /\ c.calm = w.calm /\ c.first = w.first /\ c.page = w.page
        /\ c.shown = w.shown
    BY <2>1, <2>4 DEF Walk
  <2> HIDE DEF c, items, w
  <2>6. ReadOf(c, unseen) /\ Walked(c)
    BY <2>1, <2>3, <2>4, <2>5 DEF ReadOf, Walked
  <2> QED
    BY <1>0, <1>1, <2>1, <2>2, <2>5, <2>6 DEF ListsInv, ListTypes
<1>4. ASSUME NEW u \in User, Lists!ListFromProvider(u) PROVE ListsInv'
  <2> DEFINE w == walk[u]
             items == Lists!Provided(w.projects)
             c == [w EXCEPT !.at = "store", !.items = items]
  <2>1. /\ w \in Walk /\ Walked(w)
        /\ UNCHANGED <<labels, member, permitted, shelf, unseen, misread, outdated>>
    BY <1>0, <1>4 DEF Lists!ListFromProvider
  <2>2. walk' = [walk EXCEPT ![u] = c]
    BY <1>0, <1>4 DEF Lists!ListFromProvider, ListTypes
  <2>3. /\ w.projects \in SUBSET Project /\ w.age \in 0 .. Latency
        /\ items \in SUBSET Lists!Rgd /\ \A r \in items : unseen[w.projects][r] = 0
    BY <1>0, <2>1 DEF Walk
  <2> HIDE DEF items
  <2>5. /\ c \in Walk /\ c.at = "store" /\ c.items = items /\ c.projects = w.projects
        /\ c.age = w.age /\ c.calm = w.calm /\ c.first = w.first /\ c.page = w.page
        /\ c.shown = w.shown
    BY <2>1, <2>3 DEF Walk
  <2> HIDE DEF c, w
  <2>6. ReadOf(c, unseen) /\ Walked(c)
    BY <2>1, <2>3, <2>5 DEF ReadOf, Walked
  <2> QED
    BY <1>0, <1>1, <2>1, <2>2, <2>5, <2>6 DEF ListsInv, ListTypes
<1>5. ASSUME NEW u \in User, Lists!KeepList(u) PROVE ListsInv'
  <2> DEFINE w == walk[u]
             c == [w EXCEPT !.at = "filter"]
             e == [items |-> w.items, age |-> 0]
  <2>1. /\ w \in Walk /\ ReadOf(w, unseen) /\ Walked(w) /\ w.at = "store"
        /\ walk' = [walk EXCEPT ![u] = c]
        /\ shelf' \in {shelf, [shelf EXCEPT ![w.projects] = e]}
        /\ UNCHANGED <<labels, member, permitted, unseen, misread, outdated>>
    BY <1>0, <1>5 DEF Lists!KeepList, Lists!ListCacheKey, ListTypes
  <2>2. /\ w.projects \in SUBSET Project /\ w.age \in 0 .. Latency /\ w.items \in SUBSET Lists!Rgd
        /\ \A r \in w.items : unseen[w.projects][r] <= w.age /\ unseen[w.projects][r] \in Nat
    BY <1>0, <2>1 DEF Walk, ReadOf, ListTypes
  <2>3. e \in Shelved /\ e.items = w.items /\ e.age = 0
    BY <2>2 DEF Shelved
  <2>4. /\ c \in Walk /\ c.at = "filter" /\ c.items = w.items /\ c.projects = w.projects
        /\ c.age = w.age /\ c.calm = w.calm /\ c.first = w.first /\ c.page = w.page
        /\ c.shown = w.shown
    BY <2>1 DEF Walk
  <2> HIDE DEF c, e, w
  <2>5. ReadOf(c, unseen) /\ Walked(c)
    BY <2>1, <2>2, <2>4 DEF ReadOf, Walked
  <2>6. shelf' \in [SUBSET Project -> Shelved \cup {None}]
    BY <1>0, <2>1, <2>3 DEF ListTypes
  <2>7. \A ps \in SUBSET Project : shelf'[ps] # None =>
          \A r \in shelf'[ps].items : unseen[ps][r] <= shelf'[ps].age + Latency
    <3>1. TAKE ps \in SUBSET Project
    <3>2. CASE shelf'[ps] = shelf[ps]
      BY <1>0, <3>2
    <3>3. CASE shelf'[ps] = e /\ ps = w.projects
      BY <2>2, <2>3, <3>3
    <3> QED
      BY <1>0, <2>1, <3>2, <3>3 DEF ListTypes
  <2> QED
    BY <1>0, <1>1, <2>1, <2>4, <2>5, <2>6, <2>7 DEF ListsInv, ListTypes
<1>6. ASSUME NEW u \in User, Lists!Answer(u) PROVE ListsInv'
  <2> DEFINE w == walk[u]
             list == Lists!Accessible(u, w.items)
             items == Lists!Slice(list, w.page)
             calm == w.calm /\ w.first \in {None, list}
             c == [w EXCEPT !.at = "fetch", !.items = {}, !.age = 0, !.page = @ + 1,
                            !.projects = member[u], !.first = list,
                            !.shown = @ \cup items, !.calm = calm]
  <2>1. /\ w \in Walk /\ ReadOf(w, unseen) /\ Walked(w) /\ w.at = "filter"
        /\ UNCHANGED <<labels, member, permitted, shelf, unseen>>
    BY <1>0, <1>6 DEF Lists!Answer
  <2>2. /\ outdated' = (outdated \/ \E r \in items : unseen[w.projects][r] >= Lists!Old)
        /\ misread' = (misread \/ (items = {} /\ calm /\ w.shown # list)
                               \/ (calm /\ items \cap w.shown # {}))
    BY <1>6 DEF Lists!Answer
  <2>3. walk' = [walk EXCEPT ![u] = IF items = {} THEN None ELSE c]
    BY <1>6 DEF Lists!Answer
  <2>4. /\ w.projects \in SUBSET Project /\ w.age \in 0 .. Latency /\ w.page \in Nat \ {0}
        /\ list \in SUBSET w.items /\ list \in SUBSET Lists!Rgd /\ items \in SUBSET list
        /\ w.shown \in SUBSET Lists!Rgd /\ calm \in BOOLEAN /\ member[u] \in SUBSET Project
    BY <1>0, <2>1 DEF Walk, ListTypes, Lists!Accessible, Lists!Slice
  <2>6. \A r \in list : r \in items <=> Below(list, r) \div PageSize = w.page - 1
    BY <2>4 DEF Lists!Slice, Below
  <2>7. items = {} => list = {r \in list : Below(list, r) \div PageSize < w.page - 1}
    BY <2>4, EmptyPageIsLast
  <2>9. calm => w.calm /\ w.first \in {None, list}
    OBVIOUS
  <2> HIDE DEF items, list, calm
  <2>8. /\ c.at = "fetch" /\ c.calm = calm /\ c.first = list /\ c.page = w.page + 1
        /\ c.shown = w.shown \cup items /\ c \in Walk
    <3>1. /\ w.shown \cup items \in SUBSET Lists!Rgd /\ w.page + 1 \in Nat \ {0}
          /\ {} \in SUBSET Lists!Rgd /\ 0 \in 0 .. Latency
      BY <2>4
    <3> DEFINE b == [w EXCEPT !.at = "fetch", !.items = {}, !.age = 0, !.page = @ + 1]
    <3>2. b.page = w.page + 1
      BY <2>1 DEF Walk
    <3>3. b \in Walk /\ b.at = "fetch" /\ b.shown = w.shown
      BY <2>1, <3>1, <3>2 DEF Walk
    <3>4. c = [b EXCEPT !.projects = member[u], !.first = list, !.shown = @ \cup items, !.calm = calm]
      OBVIOUS
    <3> HIDE DEF b, c
    <3> QED
      BY <2>4, <3>1, <3>2, <3>3, <3>4 DEF Walk
  <2> HIDE DEF c, w
  <2>5. \A r \in list : Below(list, r) \div PageSize \in Nat
    <3>1. TAKE r \in list
    <3>2. Cardinality(list) \in Nat /\ Below(list, r) \in 0 .. Cardinality(list) - 1
      BY <2>4, RankIs
    <3>3. Below(list, r) \in Nat
      BY <3>2
    <3> QED
      BY <3>3, DivIs
  <2>10. ~outdated'
    <3>1. \A r \in items : unseen[w.projects][r] <= ListTTL - 1 + Latency + w.age
      BY <2>1, <2>4 DEF ReadOf
    <3>2. \A r \in items : unseen[w.projects][r] \in Nat
      BY <1>0, <2>4 DEF ListTypes
    <3>3. \A r \in items : ~(unseen[w.projects][r] >= Lists!Old)
      BY <2>4, <3>1, <3>2 DEF Lists!Old
    <3> QED
      BY <1>0, <2>2, <3>3
  <2>11. calm => \A r : r \in w.shown <=> r \in list /\ Below(list, r) \div PageSize < w.page - 1
    <3>1. CASE w.first = None
      BY <2>1, <2>5, <2>9, <3>1 DEF Walked
    <3>2. CASE w.first # None
      BY <2>1, <2>9, <3>2 DEF Walked
    <3> QED
      BY <3>1, <3>2
  <2>12. ~misread'
    <3>1. calm /\ items = {} => w.shown = list
      BY <2>7, <2>11
    <3>2. calm => items \cap w.shown = {}
      BY <2>4, <2>5, <2>6, <2>11
    <3> QED
      BY <1>0, <2>2, <3>1, <3>2
  <2>13. ReadOf(c, unseen) /\ Walked(c)
    <3>1. ReadOf(c, unseen)
      BY <2>8 DEF ReadOf
    <3>2. calm => \A r : r \in c.shown <=> r \in list /\ Below(list, r) \div PageSize < c.page - 1
      <4>1. \A r \in list : Below(list, r) \div PageSize < c.page - 1 <=>
               \/ Below(list, r) \div PageSize < w.page - 1
               \/ Below(list, r) \div PageSize = w.page - 1
        BY <2>4, <2>5, <2>8
      <4> QED
        BY <2>4, <2>6, <2>8, <2>11, <4>1
    <3>3. list # None
      BY <2>4
    <3>4. calm => c.shown = {r \in list : Below(list, r) \div PageSize < c.page - 1}
      BY <3>2
    <3> QED
      BY <2>8, <3>1, <3>3, <3>4 DEF Walked
  <2> DEFINE d == IF items = {} THEN None ELSE c
  <2>14. d \in Walk \cup {None} /\ (d # None => ReadOf(d, unseen) /\ Walked(d))
    BY <2>8, <2>13
  <2>15. walk' = [walk EXCEPT ![u] = d]
    BY <2>3
  <2> HIDE DEF d
  <2> QED
    BY <1>0, <1>1, <2>1, <2>10, <2>12, <2>14, <2>15 DEF ListsInv, ListTypes
<1>7. ASSUME NEW u \in User, Lists!Leave(u) PROVE ListsInv'
  <2>1. /\ walk' = [walk EXCEPT ![u] = None]
        /\ UNCHANGED <<labels, member, permitted, shelf, unseen, misread, outdated>>
    BY <1>7 DEF Lists!Leave
  <2> QED
    BY <1>0, <1>1, <2>1 DEF ListsInv, ListTypes
<1>8. ASSUME NEW ps \in SUBSET Project, NEW r \in Lists!Rgd
      PROVE  /\ r \in Lists!Provided(ps) <=> Lists!MatchesFilter(labels[r], ps)
             /\ r \in Lists!Provided(ps)' <=> Lists!MatchesFilter(labels'[r], ps)
  BY DEF Lists!Provided, Lists!MatchesFilter
<1>9. ASSUME unseen' \in [SUBSET Project -> [Lists!Rgd -> 0 .. Lists!Old]],
             \A ps \in SUBSET Project : \A r \in Lists!Rgd : unseen'[ps][r] <= unseen[ps][r]
      PROVE  /\ \A ps \in SUBSET Project : shelf[ps] # None =>
                  \A r \in shelf[ps].items : unseen'[ps][r] <= shelf[ps].age + Latency
             /\ \A u \in User : walk[u] # None => ReadOf(walk[u], unseen')
  <2>1. \A ps \in SUBSET Project : \A r \in Lists!Rgd : unseen[ps][r] \in Nat /\ unseen'[ps][r] \in Nat
    BY <1>0, <1>9 DEF ListTypes
  <2>2. \A ps \in SUBSET Project : shelf[ps] # None =>
          shelf[ps].items \in SUBSET Lists!Rgd /\ shelf[ps].age \in Nat
    BY <1>0 DEF ListTypes, Shelved
  <2>3. \A u \in User : walk[u] # None =>
          /\ walk[u].items \in SUBSET Lists!Rgd /\ walk[u].age \in Nat
          /\ walk[u].projects \in SUBSET Project
    BY <1>0 DEF Walk
  <2> QED
    BY <1>0, <1>9, <2>1, <2>2, <2>3 DEF ReadOf
<1>10. CASE Lists!Move
  <2>1. UNCHANGED <<shelf, walk, misread, outdated>>
    BY <1>10 DEF Lists!Move
  <2>2. CASE UNCHANGED <<labels, unseen>> /\ ListTypes'
    <3>1. \A ps \in SUBSET Project : Lists!Provided(ps)' = Lists!Provided(ps)
      BY <2>2 DEF Lists!Provided, Lists!MatchesFilter
    <3> QED
      BY <1>0, <2>1, <2>2, <3>1 DEF ListsInv
  <2>3. CASE /\ unseen' = [ps \in SUBSET Project |-> [r \in Lists!Rgd |->
                        IF Lists!MatchesFilter(labels'[r], ps) THEN 0 ELSE unseen[ps][r]]]
             /\ UNCHANGED <<member, permitted>>
    <3>1. Lists!Old \in Nat
      BY DEF Lists!Old
    <3>2. ASSUME NEW ps \in SUBSET Project, NEW r \in Lists!Rgd
          PROVE  /\ unseen'[ps][r] = IF Lists!MatchesFilter(labels'[r], ps) THEN 0 ELSE unseen[ps][r]
                 /\ unseen'[ps][r] \in 0 .. Lists!Old /\ unseen'[ps][r] <= unseen[ps][r]
      BY <1>0, <2>3, <3>1 DEF ListTypes
    <3>3. unseen' \in [SUBSET Project -> [Lists!Rgd -> 0 .. Lists!Old]]
      BY <2>3, <3>2
    <3>4. ListTypes'
      BY <1>0, <2>1, <2>3, <3>3 DEF ListTypes
    <3>5. \A ps \in SUBSET Project : \A r \in Lists!Provided(ps)' : unseen'[ps][r] = 0
      <4>1. TAKE ps \in SUBSET Project
      <4>2. TAKE r \in Lists!Provided(ps)'
      <4>3. r \in Lists!Rgd
        BY DEF Lists!Provided
      <4> QED
        BY <1>8, <3>2, <4>3
    <3> QED
      BY <1>0, <1>9, <2>1, <3>2, <3>3, <3>4, <3>5 DEF ListsInv
  <2>4. CASE \E u \in User, ps \in SUBSET Project :
               member' = [member EXCEPT ![u] = ps] /\ UNCHANGED <<labels, permitted, unseen>>
    BY <1>0, <2>1, <2>2, <2>4 DEF ListTypes
  <2>5. CASE \E u \in User, rs \in SUBSET Lists!Rgd :
               permitted' = [permitted EXCEPT ![u] = rs] /\ UNCHANGED <<labels, member, unseen>>
    BY <1>0, <2>1, <2>2, <2>5 DEF ListTypes
  <2> QED
    BY <1>10, <2>3, <2>4, <2>5 DEF Lists!Move
<1>11. CASE Lists!Tick
  <2>1. /\ \A u \in User : walk[u] # None => walk[u].age < Latency
        /\ shelf' = Lists!Age
        /\ unseen' = [ps \in SUBSET Project |-> [r \in Lists!Rgd |->
                  IF Lists!MatchesFilter(labels[r], ps) THEN 0
                  ELSE Lists!Min({unseen[ps][r] + 1, Lists!Old})]]
        /\ walk' = [u \in User |-> IF walk[u] = None THEN None ELSE [walk[u] EXCEPT !.age = @ + 1]]
        /\ UNCHANGED <<labels, member, permitted, misread, outdated>>
    BY <1>11 DEF Lists!Tick
  <2>2. ASSUME NEW a \in Nat, NEW b \in Nat PROVE Lists!Min({a, b}) = IF a <= b THEN a ELSE b
    BY DEF Lists!Min
  <2>3. Lists!Old \in Nat
    BY DEF Lists!Old
  <2>4. ASSUME NEW ps \in SUBSET Project, NEW r \in Lists!Rgd
        PROVE  /\ unseen[ps][r] \in Nat
               /\ unseen'[ps][r] \in 0 .. Lists!Old /\ unseen'[ps][r] <= unseen[ps][r] + 1
               /\ Lists!MatchesFilter(labels[r], ps) => unseen'[ps][r] = 0
    <3>1. unseen[ps][r] \in 0 .. Lists!Old
      BY <1>0 DEF ListTypes
    <3>2. unseen'[ps][r] = IF Lists!MatchesFilter(labels[r], ps) THEN 0
                           ELSE Lists!Min({unseen[ps][r] + 1, Lists!Old})
      BY <2>1
    <3>3. Lists!Min({unseen[ps][r] + 1, Lists!Old}) =
            IF unseen[ps][r] + 1 <= Lists!Old THEN unseen[ps][r] + 1 ELSE Lists!Old
      BY <2>2, <2>3, <3>1
    <3> QED
      BY <2>3, <3>1, <3>2, <3>3
  <2>5. unseen' \in [SUBSET Project -> [Lists!Rgd -> 0 .. Lists!Old]]
    BY <2>1, <2>4
  <2>6. ASSUME NEW ps \in SUBSET Project
        PROVE  /\ shelf'[ps] \in Shelved \cup {None}
               /\ shelf'[ps] # None =>
                    \A r \in shelf'[ps].items : unseen'[ps][r] <= shelf'[ps].age + Latency
    <3>1. shelf'[ps] = IF shelf[ps] = None \/ shelf[ps].age + 1 >= ListTTL THEN None
                       ELSE [shelf[ps] EXCEPT !.age = @ + 1]
      BY <2>1 DEF Lists!Age
    <3>2. CASE shelf[ps] = None \/ shelf[ps].age + 1 >= ListTTL
      BY <3>1, <3>2
    <3>3. CASE ~(shelf[ps] = None \/ shelf[ps].age + 1 >= ListTTL)
      <4>1. /\ shelf[ps] \in Shelved /\ shelf[ps].age \in 0 .. ListTTL - 1
            /\ shelf[ps].items \in SUBSET Lists!Rgd /\ shelf[ps].age + 1 \in 0 .. ListTTL - 1
        BY <1>0, <3>3 DEF ListTypes, Shelved
      <4>2. /\ shelf'[ps] \in Shelved /\ shelf'[ps].items = shelf[ps].items
            /\ shelf'[ps].age = shelf[ps].age + 1
        BY <3>1, <3>3, <4>1 DEF Shelved
      <4>3. \A r \in shelf[ps].items : unseen[ps][r] <= shelf[ps].age + Latency
        BY <1>0, <3>3
      <4>4. \A r \in shelf[ps].items :
              unseen[ps][r] \in Nat /\ unseen'[ps][r] \in Nat /\ unseen'[ps][r] <= unseen[ps][r] + 1
        BY <2>3, <2>4, <4>1
      <4>5. \A r \in shelf[ps].items : unseen'[ps][r] <= shelf[ps].age + 1 + Latency
        BY <4>1, <4>3, <4>4
      <4> QED
        BY <4>2, <4>5
    <3> QED
      BY <3>2, <3>3
  <2>7. ASSUME NEW u \in User
        PROVE  /\ walk'[u] \in Walk \cup {None}
               /\ walk'[u] # None => ReadOf(walk'[u], unseen') /\ Walked(walk'[u])
    <3>1. CASE walk[u] = None
      BY <2>1, <3>1
    <3>2. CASE walk[u] # None
      <4> DEFINE w == walk[u]
      <4>1. /\ w \in Walk /\ ReadOf(w, unseen) /\ Walked(w)
            /\ walk'[u] = [w EXCEPT !.age = @ + 1] /\ w.age < Latency
        BY <1>0, <2>1, <3>2
      <4>2. /\ w.age \in Nat /\ w.age + 1 \in 0 .. Latency /\ w.items \in SUBSET Lists!Rgd
            /\ w.projects \in SUBSET Project
        BY <4>1 DEF Walk
      <4> DEFINE c == [w EXCEPT !.age = @ + 1]
      <4>3. /\ c \in Walk /\ c.at = w.at /\ c.items = w.items /\ c.projects = w.projects
            /\ c.age = w.age + 1 /\ c.calm = w.calm /\ c.first = w.first /\ c.page = w.page
            /\ c.shown = w.shown
        BY <4>1, <4>2 DEF Walk
      <4>4. walk'[u] = c
        BY <4>1
      <4>5. \A r \in w.items : /\ unseen[w.projects][r] \in Nat /\ unseen'[w.projects][r] \in Nat
                               /\ unseen'[w.projects][r] <= unseen[w.projects][r] + 1
        BY <2>3, <2>4, <4>2
      <4> HIDE DEF c, w
      <4>6. ReadOf(c, unseen')
        BY <4>1, <4>2, <4>3, <4>5 DEF ReadOf
      <4>7. Walked(c)
        BY <4>1, <4>3 DEF Walked
      <4> QED
        BY <4>3, <4>4, <4>6, <4>7
    <3> QED
      BY <3>1, <3>2
  <2>8. ListTypes'
    <3>1. shelf' \in [SUBSET Project -> Shelved \cup {None}]
      BY <2>1, <2>6 DEF Lists!Age
    <3>2. walk' \in [User -> Walk \cup {None}]
      BY <2>1, <2>7
    <3> QED
      BY <1>0, <2>1, <2>5, <3>1, <3>2 DEF ListTypes
  <2>9. \A ps \in SUBSET Project : \A r \in Lists!Provided(ps)' : unseen'[ps][r] = 0
    <3>1. TAKE ps \in SUBSET Project
    <3>2. TAKE r \in Lists!Provided(ps)'
    <3>3. r \in Lists!Rgd
      BY DEF Lists!Provided
    <3> QED
      BY <1>8, <2>1, <2>4, <3>3
  <2> QED
    BY <1>0, <2>1, <2>6, <2>7, <2>8, <2>9 DEF ListsInv
<1>12. CASE UNCHANGED Lists!vars
  <2>1. UNCHANGED <<labels, member, permitted, shelf, unseen, walk, misread, outdated>>
    BY <1>12 DEF Lists!vars
  <2>2. \A ps \in SUBSET Project : Lists!Provided(ps)' = Lists!Provided(ps)
    BY <2>1 DEF Lists!Provided, Lists!MatchesFilter
  <2> QED
    BY <1>0, <2>1, <2>2 DEF ListsInv, ListTypes
<1> QED
  BY <1>2, <1>3, <1>4, <1>5, <1>6, <1>7, <1>10, <1>11, <1>12 DEF Lists!Next

(* In every reachable state of the program an outdated schema lives no longer *)
(* than its time to live and the request that read it allow, what a list       *)
(* shows was listed as lately, and a walk through the pages of an unchanged    *)
(* list has met each entry once (ExtractSchema, ListRGDs).                  *)
THEOREM OutdatedStaysShort == AllSpec => []OutdatedIsShort
<1>1. AllInit => SchInv /\ ListsInv
  BY SchInvInit, ListsInvInit
<1>2. SchInv /\ ListsInv /\ [AllNext]_allVars => (SchInv /\ ListsInv)'
  <2>1. AllNext => [Sch!Next]_(Sch!vars) /\ [Lists!Next]_(Lists!vars)
    BY DEF AllNext, schemasVars, listsVars, Sch!vars, Lists!vars
  <2>2. UNCHANGED allVars => UNCHANGED Sch!vars /\ UNCHANGED Lists!vars
    BY DEF allVars, schemasVars, listsVars, Sch!vars, Lists!vars
  <2> QED
    BY <2>1, <2>2, SchInvStep, ListsInvStep
<1>3. SchInv /\ ListsInv => OutdatedIsShort
  <2> SUFFICES ASSUME SchInv, ListsInv
               PROVE  Sch!OutdatedIsShort /\ Lists!ShownIsRecent /\ Lists!WalksAreComplete
    BY DEF OutdatedIsShort
  <2>1. SchTypes /\ ReadLately
    BY DEF SchInv
  <2>2. Sch!Hit => schema # Sch!Nothing
    BY DEF Sch!Hit, Sch!Nothing
  <2>3. Sch!OutdatedIsShort
    BY <2>1, <2>2 DEF Sch!OutdatedIsShort, ReadLately, Sch!Ttl
  <2> QED
    BY <2>3 DEF ListsInv, Lists!ShownIsRecent, Lists!WalksAreComplete
<1> QED
  BY <1>1, <1>2, <1>3, PTL DEF AllSpec

-----------------------------------------------------------------------------
(* SharedDecisions *)

DecTypes ==
  /\ policies \in 0 .. MaxPolicies /\ since \in Nat /\ outages \in Nat
  /\ applied \in [Replica -> 0 .. MaxPolicies] /\ clearing \in [Replica -> BOOLEAN]
  /\ reaches \in [Replica -> BOOLEAN] /\ degraded \in [Replica -> BOOLEAN]
  /\ shared \in Dec!Entry(RedisTTL) \cup {None}
  /\ fallback \in [Replica -> Dec!Entry(FallbackTTL) \cup {None}]
  /\ inquiry \in [Replica -> [v : 0 .. MaxPolicies, age : 0 .. Latency] \cup {None}]

\* A decision that is outdated is kept no longer than its time to live allows.
Expires(e, ttl) ==
  /\ e.v <= policies
  /\ e.v < policies => since + e.left <= Lag + Latency + ttl

(* Replicas and requests lag behind the policies for a bounded time, and so  *)
(* does what they keep.                                                     *)
Bounded ==
  /\ \A r \in Replica : applied[r] <= policies
  /\ \A r \in Replica : applied[r] < policies \/ clearing[r] => since <= Lag
  /\ \A r \in Replica : inquiry[r] # None =>
       /\ inquiry[r].v <= policies
       /\ inquiry[r].v < policies => since <= Lag + inquiry[r].age
  /\ shared # None => Expires(shared, RedisTTL)
  /\ \A r \in Replica : fallback[r] # None => Expires(fallback[r], FallbackTTL)

(* Without an outage all decisions are in Redis, and one that was of the     *)
(* policies when it was kept is of them still, or is about to be cleared.   *)
Reached ==
  /\ \A r \in Replica : reaches[r] /\ ~degraded[r]
  /\ shared # None => Replica # {}
  /\ shared # None /\ ~shared.late /\ shared.v # policies =>
       \E r \in Replica : applied[r] < policies \/ clearing[r]

DecInv ==
  /\ DecTypes /\ Bounded
  /\ outages = 0 => Reached
  /\ ~wrongLate /\ ~wrongCalm

LEMMA DecInvInit == AllInit => DecInv
<1> SUFFICES ASSUME Dec!Init PROVE DecInv
  BY DEF AllInit
<1>1. DecTypes /\ Bounded
  BY ServicesAssumption DEF Dec!Init, DecTypes, Bounded
<1>2. Reached
  BY DEF Dec!Init, Reached
<1> QED
  BY <1>1, <1>2 DEF Dec!Init, DecInv

(* A decision that is kept grows older. *)
LEMMA AgedIs ==
  ASSUME NEW t \in Nat \ {0}, NEW e \in Dec!Entry(t) \cup {None}
  PROVE  /\ Dec!Aged(e) \in Dec!Entry(t) \cup {None}
         /\ Dec!Aged(e) # None => /\ e # None /\ Dec!Aged(e).v = e.v /\ Dec!Aged(e).late = e.late
                                  /\ Dec!Aged(e).left = e.left - 1
<1>1. CASE e = None
  BY <1>1 DEF Dec!Aged
<1>2. CASE e # None
  <2>1. e \in Dec!Entry(t) /\ e.left \in 1 .. t
    BY <1>2 DEF Dec!Entry
  <2>2. CASE e.left = 1
    BY <2>2 DEF Dec!Aged
  <2>3. CASE e.left # 1
    <3>1. Dec!Aged(e) = [e EXCEPT !.left = @ - 1] /\ e.left - 1 \in 1 .. t
      BY <1>2, <2>1, <2>3 DEF Dec!Aged
    <3> QED
      BY <1>2, <2>1, <3>1 DEF Dec!Entry
  <2> QED
    BY <2>2, <2>3
<1> QED
  BY <1>1, <1>2

(* What is served is of the policies that the replica has loaded, or the     *)
(* last change is recent.                                                   *)
LEMMA ServedIsRight ==
  ASSUME DecTypes, Bounded, NEW r \in Replica, NEW t \in {RedisTTL, FallbackTTL},
         NEW e \in Dec!Entry(t), Expires(e, t), since > Dec!Settled
  PROVE  e.v = applied[r]
<1>1. /\ since \in Nat /\ policies \in Nat /\ applied[r] \in Nat
      /\ e.v \in Nat /\ e.left \in Nat \ {0} /\ e.v <= policies /\ t \in Nat
  BY ServicesAssumption DEF DecTypes, Dec!Entry, Expires
<1>2. since > Lag + Latency + t /\ since > Lag
  BY <1>1, ServicesAssumption DEF Dec!Settled, Dec!Longest
<1>3. e.v = policies
  BY <1>1, <1>2, ServicesAssumption DEF Expires
<1>4. applied[r] = policies
  BY <1>1, <1>2, ServicesAssumption DEF Bounded
<1> QED
  BY <1>3, <1>4

(* Nothing but the loading, the clearing and the entries decides whether     *)
(* decisions expire.                                                        *)
LEMMA KeptOn ==
  ASSUME Bounded, UNCHANGED <<policies, since, applied, clearing>>,
         \A r \in Replica : inquiry'[r] # None =>
           /\ inquiry'[r].v <= policies
           /\ inquiry'[r].v < policies => since <= Lag + inquiry'[r].age,
         shared' # None => Expires(shared', RedisTTL),
         \A r \in Replica : fallback'[r] # None => Expires(fallback'[r], FallbackTTL)
  PROVE  Bounded'
  BY DEF Bounded, Expires

LEMMA DecInvStep == DecInv /\ [Dec!Next]_(Dec!vars) => DecInv'
<1> SUFFICES ASSUME DecInv, [Dec!Next]_(Dec!vars) PROVE DecInv'
  OBVIOUS
<1>a. /\ {Latency, Lag, MaxPolicies} \subseteq Nat
      /\ RedisTTL \in Nat \ {0} /\ FallbackTTL \in Nat \ {0}
  BY ServicesAssumption
<1> USE <1>a
<1>0. DecTypes /\ Bounded /\ ~wrongLate /\ ~wrongCalm
  BY DEF DecInv
<1>1. CASE Dec!Change
  <2>1. /\ policies' = policies + 1 /\ policies' \in 0 .. MaxPolicies /\ since' = 0
        /\ UNCHANGED <<applied, clearing, shared, reaches, degraded, fallback, inquiry, outages,
                       wrongLate, wrongCalm>>
    BY <1>0, <1>1 DEF Dec!Change, Dec!links, Dec!ghosts, DecTypes
  <2>2. DecTypes'
    BY <1>0, <2>1 DEF DecTypes
  <2>3. Bounded'
    <3>1. /\ policies \in Nat /\ \A r \in Replica : applied[r] \in Nat
          /\ \A r \in Replica : inquiry[r] # None => inquiry[r].v \in Nat /\ inquiry[r].age \in Nat
          /\ shared # None => shared.v \in Nat /\ shared.left \in 1 .. RedisTTL
          /\ \A r \in Replica : fallback[r] # None =>
               fallback[r].v \in Nat /\ fallback[r].left \in 1 .. FallbackTTL
      BY <1>0 DEF DecTypes, Dec!Entry
    <3> QED
      BY <1>0, <2>1, <3>1 DEF Bounded, Expires
  <2>4. outages' = 0 => Reached'
    <3> SUFFICES ASSUME outages = 0 PROVE Reached'
      BY <2>1
    <3>1. Reached
      BY DEF DecInv
    <3>2. shared # None => \E r \in Replica : applied[r] < policies + 1
      BY <1>0, <3>1 DEF Reached, Bounded, DecTypes
    <3> QED
      BY <2>1, <3>1, <3>2 DEF Reached
  <2> QED
    BY <1>0, <2>1, <2>2, <2>3, <2>4 DEF DecInv
<1>2. ASSUME NEW r \in Replica, Dec!Load(r) PROVE DecInv'
  <2>1. /\ applied[r] < policies /\ applied' = [applied EXCEPT ![r] = policies]
        /\ clearing' = [clearing EXCEPT ![r] = TRUE]
        /\ UNCHANGED <<policies, since, shared, reaches, degraded, fallback, inquiry, outages,
                       wrongLate, wrongCalm>>
    BY <1>2 DEF Dec!Load, Dec!links, Dec!ghosts
  <2>2. DecTypes'
    BY <1>0, <2>1 DEF DecTypes
  <2>3. /\ \A o \in Replica : applied'[o] = IF o = r THEN policies ELSE applied[o]
        /\ \A o \in Replica : clearing'[o] = IF o = r THEN TRUE ELSE clearing[o]
    BY <1>0, <2>1 DEF DecTypes
  <2>4. Bounded'
    BY <1>0, <2>1, <2>3 DEF Bounded, Expires, DecTypes
  <2>5. outages' = 0 => Reached'
    BY <2>1, <2>3 DEF DecInv, Reached
  <2> QED
    BY <1>0, <2>1, <2>2, <2>4, <2>5 DEF DecInv
<1>3. ASSUME NEW r \in Replica, Dec!Clear(r) PROVE DecInv'
  <2>1. /\ clearing' = [clearing EXCEPT ![r] = FALSE]
        /\ fallback' \in {fallback, [fallback EXCEPT ![r] = None]}
        /\ shared' = IF ~degraded[r] /\ reaches[r] THEN None ELSE shared
        /\ UNCHANGED <<policies, since, applied, reaches, degraded, inquiry, outages,
                       wrongLate, wrongCalm>>
    BY <1>3 DEF Dec!Clear, Dec!links, Dec!ghosts
  <2>2. DecTypes'
    BY <1>0, <2>1 DEF DecTypes
  <2>3. /\ \A o \in Replica : clearing'[o] = IF o = r THEN FALSE ELSE clearing[o]
        /\ \A o \in Replica : fallback'[o] # None => fallback'[o] = fallback[o]
        /\ shared' # None => shared' = shared
    BY <1>0, <2>1 DEF DecTypes
  <2>4. Bounded'
    BY <1>0, <2>1, <2>3 DEF Bounded, Expires
  <2>5. outages' = 0 => Reached'
    BY <2>1, <2>3 DEF DecInv, Reached
  <2> QED
    BY <1>0, <2>1, <2>2, <2>4, <2>5 DEF DecInv
<1>4. ASSUME NEW r \in Replica, Dec!Get(r) PROVE DecInv'
  <2> DEFINE from == IF degraded[r] THEN fallback[r] ELSE IF reaches[r] THEN shared ELSE None
  <2>1. UNCHANGED <<policies, since, applied, clearing, shared, reaches, fallback, outages>>
    BY <1>4 DEF Dec!Get, Dec!loads
  <2>2. CASE from # None
    <3>1. Dec!Answer(r, from) /\ UNCHANGED <<inquiry, degraded>>
      BY <1>4, <2>2 DEF Dec!Get
    <3>2. DecTypes' /\ Bounded'
      BY <1>0, <2>1, <3>1 DEF DecTypes, Bounded, Expires
    <3>3. outages' = 0 => Reached'
      BY <2>1, <3>1 DEF DecInv, Reached
    <3>4. ~wrongLate'
      <4>1. PICK t \in {RedisTTL, FallbackTTL} : from \in Dec!Entry(t) /\ Expires(from, t)
        BY <1>0, <2>2 DEF DecTypes, Bounded
      <4>2. since > Dec!Settled => from.v = applied[r]
        BY <1>0, <4>1, ServedIsRight
      <4> QED
        BY <1>0, <3>1, <4>2 DEF Dec!Answer
    <3>5. ~wrongCalm'
      <4>1. /\ outages = 0 /\ ~from.late /\ (\A s \in Replica : applied[s] = policies /\ ~clearing[s])
              => from.v = applied[r]
        <5> SUFFICES ASSUME outages = 0, ~from.late,
                            \A s \in Replica : applied[s] = policies /\ ~clearing[s]
                     PROVE  from.v = applied[r]
          OBVIOUS
        <5>1. Reached /\ policies \in Nat
          BY <1>0 DEF DecInv, DecTypes
        <5>2. from = shared
          BY <5>1 DEF Reached
        <5> QED
          BY <2>2, <5>1, <5>2 DEF Reached
      <4> QED
        BY <1>0, <3>1, <4>1 DEF Dec!Answer
    <3> QED
      BY <3>2, <3>3, <3>4, <3>5 DEF DecInv
  <2>3. CASE from = None
    <3> DEFINE q == [v |-> applied[r], age |-> 0]
    <3>1. /\ inquiry' = [inquiry EXCEPT ![r] = q] /\ UNCHANGED <<wrongLate, wrongCalm>>
          /\ degraded' \in {degraded, [degraded EXCEPT ![r] = TRUE]}
          /\ reaches[r] => degraded' = degraded
      BY <1>4, <2>3 DEF Dec!Get, Dec!ghosts, Dec!EnterDegradedMode
    <3>2. q \in [v : 0 .. MaxPolicies, age : 0 .. Latency] /\ q.v = applied[r] /\ q.age = 0
      BY <1>0 DEF DecTypes
    <3> HIDE DEF q
    <3>3. DecTypes'
      BY <1>0, <2>1, <3>1, <3>2 DEF DecTypes
    <3>4. \A o \in Replica : inquiry'[o] = IF o = r THEN q ELSE inquiry[o]
      BY <1>0, <3>1 DEF DecTypes
    <3>5. /\ \A o \in Replica : inquiry'[o] # None =>
               /\ inquiry'[o].v <= policies
               /\ inquiry'[o].v < policies => since <= Lag + inquiry'[o].age
      BY <1>0, <3>2, <3>4 DEF Bounded
    <3>6. Bounded'
      BY <1>0, <2>1, <3>5 DEF Bounded, Expires
    <3>7. outages' = 0 => Reached'
      BY <2>1, <3>1 DEF DecInv, Reached
    <3> QED
      BY <1>0, <3>1, <3>3, <3>6, <3>7 DEF DecInv
  <2> QED
    BY <2>2, <2>3
<1>5. ASSUME NEW r \in Replica, Dec!Set(r) PROVE DecInv'
  <2> DEFINE e(t) == [v |-> inquiry[r].v, left |-> t, late |-> inquiry[r].v < policies]
  <2>1. /\ inquiry[r] # None /\ inquiry' = [inquiry EXCEPT ![r] = None]
        /\ UNCHANGED <<policies, since, applied, clearing, reaches, outages, wrongLate, wrongCalm>>
    BY <1>5 DEF Dec!Set, Dec!loads, Dec!ghosts
  <2>2. \/ /\ ~degraded[r] /\ reaches[r] /\ shared' = e(RedisTTL) /\ UNCHANGED <<fallback, degraded>>
        \/ /\ ~(~degraded[r] /\ reaches[r]) /\ fallback' = [fallback EXCEPT ![r] = e(FallbackTTL)]
           /\ degraded' = [degraded EXCEPT ![r] = TRUE] /\ UNCHANGED shared
    BY <1>5 DEF Dec!Set, Dec!EnterDegradedMode
  <2>3. /\ inquiry[r].v \in 0 .. MaxPolicies /\ inquiry[r].age \in 0 .. Latency
        /\ inquiry[r].v <= policies
        /\ inquiry[r].v < policies => since <= Lag + inquiry[r].age
    BY <1>0, <2>1 DEF DecTypes, Bounded
  <2>4. ASSUME NEW t \in Nat \ {0}
        PROVE  /\ e(t) \in Dec!Entry(t) /\ Expires(e(t), t)
               /\ ~e(t).late => e(t).v = policies
    <3>1. (inquiry[r].v < policies) \in BOOLEAN /\ t \in 1 .. t
      OBVIOUS
    <3>2. e(t) \in Dec!Entry(t)
      BY <2>3, <3>1 DEF Dec!Entry
    <3>3. e(t).v = inquiry[r].v /\ e(t).left = t /\ (e(t).late <=> inquiry[r].v < policies)
      OBVIOUS
    <3>4. Expires(e(t), t)
      BY <1>0, <2>3, <3>3 DEF Expires, DecTypes
    <3> HIDE DEF e
    <3>5. ~e(t).late => e(t).v = policies
      <4>1. policies \in Nat /\ inquiry[r].v \in Nat
        BY <1>0, <2>3 DEF DecTypes
      <4> QED
        BY <2>3, <3>3, <4>1
    <3> QED
      BY <3>2, <3>4, <3>5
  <2> HIDE DEF e
  <2>5. DecTypes'
    <3>1. inquiry' \in [Replica -> [v : 0 .. MaxPolicies, age : 0 .. Latency] \cup {None}]
      BY <1>0, <2>1 DEF DecTypes
    <3>2. e(RedisTTL) \in Dec!Entry(RedisTTL) /\ e(FallbackTTL) \in Dec!Entry(FallbackTTL)
      BY <2>4
    <3>3. /\ shared' \in Dec!Entry(RedisTTL) \cup {None}
          /\ fallback' \in [Replica -> Dec!Entry(FallbackTTL) \cup {None}]
          /\ degraded' \in [Replica -> BOOLEAN]
      BY <1>0, <2>2, <3>2 DEF DecTypes
    <3> QED
      BY <1>0, <2>1, <3>1, <3>3 DEF DecTypes
  <2>6. Bounded'
    <3>1. \A o \in Replica : inquiry'[o] # None => inquiry'[o] = inquiry[o]
      BY <1>0, <2>1 DEF DecTypes
    <3>2. shared' # None => Expires(shared', RedisTTL)
      BY <1>0, <2>2, <2>4 DEF Bounded
    <3>3. \A o \in Replica : fallback'[o] # None => Expires(fallback'[o], FallbackTTL)
      BY <1>0, <2>2, <2>4 DEF Bounded, DecTypes
    <3>4. \A o \in Replica : inquiry'[o] # None =>
            /\ inquiry'[o].v <= policies
            /\ inquiry'[o].v < policies => since <= Lag + inquiry'[o].age
      BY <1>0, <3>1 DEF Bounded
    <3> QED
      BY <1>0, <2>1, <3>2, <3>3, <3>4, KeptOn
  <2>7. outages' = 0 => Reached'
    <3> SUFFICES ASSUME outages = 0 PROVE Reached'
      BY <2>1
    <3>1. Reached
      BY DEF DecInv
    <3>2. shared' = e(RedisTTL) /\ UNCHANGED <<fallback, degraded>>
      BY <2>2, <3>1 DEF Reached
    <3> QED
      BY <2>1, <2>4, <3>1, <3>2 DEF Reached
  <2> QED
    BY <1>0, <2>1, <2>5, <2>6, <2>7 DEF DecInv
<1>6. ASSUME NEW r \in Replica, Dec!Recover(r) \/ Dec!EmptyFallback(r) PROVE DecInv'
  <2>1. /\ degraded' \in {degraded, [degraded EXCEPT ![r] = FALSE]}
        /\ fallback' \in {fallback, [fallback EXCEPT ![r] = None]}
        /\ UNCHANGED <<policies, since, applied, clearing, shared, reaches, inquiry, outages,
                       wrongLate, wrongCalm>>
    BY <1>6 DEF Dec!Recover, Dec!EmptyFallback, Dec!loads, Dec!ghosts
  <2>2. DecTypes'
    BY <1>0, <2>1 DEF DecTypes
  <2>3. /\ \A o \in Replica : fallback'[o] # None => fallback'[o] = fallback[o]
        /\ \A o \in Replica : degraded'[o] => degraded[o]
    BY <1>0, <2>1 DEF DecTypes
  <2>4. Bounded'
    BY <1>0, <2>1, <2>3 DEF Bounded, Expires
  <2>5. outages' = 0 => Reached'
    BY <2>1, <2>3 DEF DecInv, Reached
  <2> QED
    BY <1>0, <2>1, <2>2, <2>4, <2>5 DEF DecInv
<1>7. ASSUME NEW r \in Replica, Dec!Link(r) PROVE DecInv'
  <2>1. /\ reaches' = [reaches EXCEPT ![r] = ~@]
        /\ outages' = IF reaches[r] THEN outages + 1 ELSE outages
        /\ UNCHANGED <<policies, since, applied, clearing, shared, degraded, fallback, inquiry,
                       wrongLate, wrongCalm>>
    BY <1>7 DEF Dec!Link, Dec!loads, Dec!ghosts
  <2>2. DecTypes'
    BY <1>0, <2>1 DEF DecTypes
  <2>3. Bounded'
    BY <1>0, <2>1 DEF Bounded, Expires
  <2>4. outages' # 0
    <3>1. outages \in Nat /\ (outages = 0 => reaches[r])
      BY <1>0 DEF DecTypes, DecInv, Reached
    <3> QED
      BY <2>1, <3>1
  <2> QED
    BY <1>0, <2>1, <2>2, <2>3, <2>4 DEF DecInv
<1>8. CASE Dec!Tick
  <2>1. /\ \A r \in Replica : /\ applied[r] < policies \/ clearing[r] => since < Lag
                              /\ inquiry[r] # None => inquiry[r].age < Latency
        /\ since' \in Nat /\ since' <= since + 1
        /\ since < Lag + Latency => since' = since + 1
        /\ UNCHANGED <<policies, applied, clearing, reaches, degraded, outages, wrongLate, wrongCalm>>
    BY <1>0, <1>8 DEF Dec!Tick, Dec!links, Dec!ghosts, DecTypes, Dec!Settled, Dec!Longest
  <2>2. /\ shared' = Dec!Aged(shared) /\ fallback' = [r \in Replica |-> Dec!Aged(fallback[r])]
        /\ inquiry' = [r \in Replica |-> IF inquiry[r] = None THEN None
                                         ELSE [inquiry[r] EXCEPT !.age = @ + 1]]
    BY <1>8 DEF Dec!Tick
  <2>3. /\ shared' \in Dec!Entry(RedisTTL) \cup {None}
        /\ shared' # None => /\ shared # None /\ shared'.v = shared.v /\ shared'.late = shared.late
                             /\ shared'.left = shared.left - 1
    BY <1>0, <2>2, AgedIs DEF DecTypes
  <2>4. ASSUME NEW r \in Replica
        PROVE  /\ fallback'[r] \in Dec!Entry(FallbackTTL) \cup {None}
               /\ fallback'[r] # None => /\ fallback[r] # None /\ fallback'[r].v = fallback[r].v
                                         /\ fallback'[r].left = fallback[r].left - 1
    <3>1. fallback[r] \in Dec!Entry(FallbackTTL) \cup {None} /\ fallback'[r] = Dec!Aged(fallback[r])
      BY <1>0, <2>2 DEF DecTypes
    <3> QED
      BY <3>1, AgedIs
  <2>5. ASSUME NEW r \in Replica
        PROVE  /\ inquiry'[r] \in [v : 0 .. MaxPolicies, age : 0 .. Latency] \cup {None}
               /\ inquiry'[r] # None => /\ inquiry[r] # None /\ inquiry'[r].v = inquiry[r].v
                                        /\ inquiry'[r].age = inquiry[r].age + 1
    <3>1. CASE inquiry[r] = None
      BY <2>2, <3>1
    <3>2. CASE inquiry[r] # None
      <4>1. /\ inquiry[r] \in [v : 0 .. MaxPolicies, age : 0 .. Latency]
            /\ inquiry'[r] = [inquiry[r] EXCEPT !.age = @ + 1] /\ inquiry[r].age + 1 \in 0 .. Latency
        BY <1>0, <2>1, <2>2, <3>2 DEF DecTypes
      <4> QED
        BY <3>2, <4>1
    <3> QED
      BY <3>1, <3>2
  <2>6. DecTypes'
    <3>1. /\ fallback' \in [Replica -> Dec!Entry(FallbackTTL) \cup {None}]
          /\ inquiry' \in [Replica -> [v : 0 .. MaxPolicies, age : 0 .. Latency] \cup {None}]
      BY <2>2, <2>4, <2>5
    <3> QED
      BY <1>0, <2>1, <2>3, <3>1 DEF DecTypes
  <2>7. Bounded'
    <3>1. shared' # None =>
            /\ shared'.v <= policies'
            /\ shared'.v < policies' => since' + shared'.left <= Lag + Latency + RedisTTL
      <4>1. shared # None => Expires(shared, RedisTTL) /\ shared.left \in Nat /\ shared.v \in Nat
        BY <1>0 DEF Bounded, DecTypes, Dec!Entry
      <4> QED
        BY <1>0, <2>1, <2>3, <4>1 DEF Expires, DecTypes
    <3>2. \A r \in Replica : fallback'[r] # None =>
            /\ fallback'[r].v <= policies'
            /\ fallback'[r].v < policies' => since' + fallback'[r].left <= Lag + Latency + FallbackTTL
      <4>1. TAKE r \in Replica
      <4>2. fallback[r] # None => /\ Expires(fallback[r], FallbackTTL)
                                 /\ fallback[r].left \in Nat /\ fallback[r].v \in Nat
        BY <1>0 DEF Bounded, DecTypes, Dec!Entry
      <4> QED
        BY <1>0, <2>1, <2>4, <4>2 DEF Expires, DecTypes
    <3>3. \A r \in Replica : inquiry'[r] # None =>
            /\ inquiry'[r].v <= policies'
            /\ inquiry'[r].v < policies' => since' <= Lag + inquiry'[r].age
      <4>1. TAKE r \in Replica
      <4>2. inquiry[r] # None =>
              /\ inquiry[r].v <= policies /\ inquiry[r].age \in Nat
              /\ inquiry[r].v < policies => since <= Lag + inquiry[r].age
        BY <1>0 DEF Bounded, DecTypes
      <4> QED
        BY <1>0, <2>1, <2>5, <4>2 DEF DecTypes
    <3>4. \A r \in Replica : /\ applied'[r] <= policies'
                             /\ applied'[r] < policies' \/ clearing'[r] => since' <= Lag
      BY <1>0, <2>1 DEF Bounded, DecTypes
    <3> QED
      BY <3>1, <3>2, <3>3, <3>4 DEF Bounded, Expires
  <2>8. outages' = 0 => Reached'
    BY <2>1, <2>3 DEF DecInv, Reached
  <2> QED
    BY <1>0, <2>1, <2>6, <2>7, <2>8 DEF DecInv
<1>9. CASE UNCHANGED Dec!vars
  BY <1>9 DEF Dec!vars, DecInv, DecTypes, Bounded, Expires, Reached
<1> QED
  BY <1>1, <1>2, <1>3, <1>4, <1>5, <1>6, <1>7, <1>8, <1>9 DEF Dec!Next

(* In every reachable state of the program no decision was served that the    *)
(* time to live of the cache does not explain, and none that was wrong to a   *)
(* request that neither a change nor an outage disturbed                      *)
(* (NewRedisAuthorizationCache, Clear).                                     *)
THEOREM WrongStaysShort == AllSpec => []WrongIsShort
<1>1. AllInit => DecInv
  BY DecInvInit
<1>2. DecInv /\ [AllNext]_allVars => DecInv'
  <2>1. AllNext => [Dec!Next]_(Dec!vars)
    BY DEF AllNext, decisionsVars, Dec!vars
  <2>2. UNCHANGED allVars => UNCHANGED Dec!vars
    BY DEF allVars, decisionsVars, Dec!vars
  <2> QED
    BY <2>1, <2>2, DecInvStep
<1>3. DecInv => WrongIsShort
  BY DEF DecInv, WrongIsShort, Dec!WrongIsShort, Dec!CalmIsRight
<1> QED
  BY <1>1, <1>2, <1>3, PTL DEF AllSpec
=============================================================================
