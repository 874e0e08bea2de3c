----------------------------- MODULE SessionProofs -----------------------------
(***************************************************************************)
(* Proofs about Session: types, and that player and server use the same key.  *)
(***************************************************************************)
EXTENDS Session, TLAPS

Actions ==
  {"Connect", "Disconnect", "CloseApplication", "Volume", "UpdateState"} \union Handshake

Places == {"Loop", "ShookUE", "ShookSE", "Recv", "Closed"}

Players ==
  [state : {"Disconnected", "Connecting", "Connected"}, key : 0..MaxKeys,
   queue : Seq(Actions), at : Places,
   caller : Handshake, sockets : 0..MaxSockets, keys : 0..MaxKeys, same : BOOLEAN]

Pasts == [answered : SUBSET (1..MaxPairs), twice : BOOLEAN, shaken : 0..MaxKeys]

\* The parts of the type invariant that belong to the server and the network, and
\* to the player.
NetworkType == ConnTypeOK /\ trouble \in 0..MaxTrouble
PlayerType == player \in Players /\ past \in Pasts /\ clicks \in 0..MaxClicks

\* What is on its way to the player is addressed to the socket it has: the network
\* drops what no socket takes.
Addressed == \A m \in toPlayer : m.src = socket

TypeInv == NetworkType /\ PlayerType /\ Addressed

LEMMA TypeParts == TypeOK <=> NetworkType /\ PlayerType
BY DEF TypeOK, NetworkType, PlayerType, Players, Actions, Places, Pasts

-------------------------------------------------------------------------------
(* Types: the player.                                                          *)

LEMMA QueueType ==
  ASSUME NEW q \in Seq(Actions), NEW a \in Actions
  PROVE  /\ Append(q, a) \in Seq(Actions)
         /\ q # <<>> => Head(q) \in Actions /\ Tail(q) \in Seq(Actions)
                        /\ Append(Tail(q), a) \in Seq(Actions)
OBVIOUS

\* The fields of a player keep their types one by one.
LEMMA UpdateType ==
  ASSUME NEW p \in Players
  PROVE  /\ \A at \in Places : [p EXCEPT !.at = at] \in Players
         /\ \A q \in Seq(Actions) : [p EXCEPT !.queue = q] \in Players
         /\ \A q \in Seq(Actions), at \in Places :
              [p EXCEPT !.queue = q, !.at = at] \in Players
         /\ \A n \in 0..MaxSockets, at \in Places :
              [p EXCEPT !.sockets = n, !.at = at] \in Players
BY DEF Players

\* What an attempt in vain changes of the player.
LEMMA FailedFacts ==
  ASSUME NEW p \in Players
  PROVE  /\ Failed(p) \in Players
         /\ Failed(p).state = p.state /\ Failed(p).key = p.key
         /\ Failed(p).sockets = p.sockets /\ Failed(p).keys = p.keys
<1>1. Append(p.queue, "Handshake") \in Seq(Actions)
  BY QueueType DEF Players, Actions, Handshake
<1> QED BY <1>1 DEF Failed, Players, Places

LEMMA DisconnectedFacts ==
  ASSUME NEW p \in Players
  PROVE  /\ Disconnected(p) \in Players
         /\ Disconnected(p).state \in {p.state, "Disconnected"}
         /\ Disconnected(p).key = p.key /\ Disconnected(p).queue = p.queue
         /\ Disconnected(p).sockets = p.sockets /\ Disconnected(p).keys = p.keys
BY DEF Disconnected, Players

LEMMA CallerFacts ==
  ASSUME player \in Players, NextIs(Handshake)
  PROVE  /\ Caller \in Players
         /\ Caller.state = player.state /\ Caller.key = player.key
         /\ Caller.sockets = player.sockets /\ Caller.keys = player.keys
<1>1. Tail(player.queue) \in Seq(Actions) /\ Head(player.queue) \in Handshake
  BY QueueType DEF NextIs, Players, Actions
<1> QED BY <1>1 DEF Caller, Players

\* The user's clicks.
LEMMA ClickType ==
  ASSUME PlayerType,
         \/ \E action \in {"Connect", "Disconnect", "CloseApplication"} : Click(action)
         \/ TurnVolume
  PROVE  PlayerType'
<1>1. CASE TurnVolume
  <2>1. Append(player.queue, "Volume") \in Seq(Actions)
    BY QueueType DEF PlayerType, Players, Actions
  <2>2. player' \in Players
    BY <1>1, <2>1, UpdateType DEF TurnVolume, PlayerType
  <2> QED BY <1>1, <2>2 DEF TurnVolume, PlayerType
<1>2. ASSUME NEW action \in {"Connect", "Disconnect", "CloseApplication"}, Click(action)
      PROVE  PlayerType'
  <2>1. Append(player.queue, action) \in Seq(Actions)
    BY QueueType DEF PlayerType, Players, Actions
  <2>2. player' \in Players
    BY <1>2, <2>1, UpdateType DEF Click, PlayerType
  <2>3. clicks' \in 0..MaxClicks
    BY <1>2, SessionAssumption DEF Click, PlayerType, SessionAssumption
  <2> QED BY <1>2, <2>2, <2>3 DEF Click, PlayerType
<1> QED BY <1>1, <1>2

\* The steps of the connection thread's loop.
LEMMA LoopType ==
  ASSUME PlayerType, NetworkType,
         \/ HandleConnect \/ HandleOther \/ HandleDisconnect
         \/ StartHandshake \/ HandshakeWithoutSocket \/ GoReceive
  PROVE  PlayerType'
<1>0. player \in Players /\ past \in Pasts
  BY DEF PlayerType
<1>1. CASE HandleConnect
  <2>1. Append(Tail(player.queue), "Handshake") \in Seq(Actions)
    BY <1>0, <1>1, QueueType DEF HandleConnect, NextIs, Players, Actions, Handshake
  <2> QED BY <1>0, <1>1, <2>1 DEF HandleConnect, Players, PlayerType
<1>2. CASE HandleOther
  <2>1. Tail(player.queue) \in Seq(Actions) /\ "Recv" \in Places
    BY <1>0, <1>2, QueueType DEF HandleOther, NextIs, Players, Actions, Places
  <2> QED BY <1>0, <1>2, <2>1, UpdateType DEF HandleOther, PlayerType
<1>3. CASE HandleDisconnect
  <2>1. Tail(player.queue) \in Seq(Actions) /\ {"Loop", "Closed"} \subseteq Places
    BY <1>0, <1>3, QueueType DEF HandleDisconnect, NextIs, Players, Actions, Places
  <2>2. player' \in Players
    BY <1>0, <1>3, <2>1, DisconnectedFacts, UpdateType DEF HandleDisconnect
  <2> QED BY <1>3, <2>2 DEF HandleDisconnect, PlayerType
<1>4. CASE StartHandshake
  <2>1. socket' \in 0..MaxSockets /\ "ShookUE" \in Places
    BY <1>0, <1>4, SessionAssumption
       DEF StartHandshake, Players, NetworkType, ConnTypeOK, SessionAssumption, Places
  <2>2. Caller \in Players
    BY <1>0, <1>4, CallerFacts DEF StartHandshake
  <2>3. player' \in Players
    BY <1>4, <2>1, <2>2, UpdateType DEF StartHandshake
  <2> QED BY <1>4, <2>3 DEF StartHandshake, PlayerType
<1>5. CASE HandshakeWithoutSocket
  BY <1>0, <1>5, CallerFacts, FailedFacts DEF HandshakeWithoutSocket, PlayerType
<1>6. CASE GoReceive
  BY <1>0, <1>6, UpdateType DEF GoReceive, PlayerType, Places
<1> QED BY <1>1, <1>2, <1>3, <1>4, <1>5, <1>6

\* A packet is read, or the read times out.
LEMMA ReceptionType ==
  ASSUME PlayerType, NetworkType,
         \/ Timeout
         \/ \E m \in toPlayer :
              \/ ReceiveShookUE(m) \/ ReceiveOther(m) \/ ReceiveShookSE(m)
              \/ ReceiveOtherVersion(m) \/ WaitThrough(m) \/ Receive(m) \/ Exhausted(m)
  PROVE  PlayerType'
<1>0. player \in Players /\ past \in Pasts /\ toPlayer \subseteq ToPlayer
  BY DEF PlayerType, NetworkType, ConnTypeOK
<1>1. ASSUME NEW m \in toPlayer, ReceiveShookUE(m)
      PROVE  PlayerType'
  <2>1. m.key \in 1..MaxPairs
    BY <1>0, <1>1 DEF ReceiveShookUE, ToPlayer
  <2>2. player.keys + 1 \in 0..MaxKeys
    <3>1. player.keys < MaxKeys /\ player.keys \in 0..MaxKeys
      BY <1>0, <1>1 DEF ReceiveShookUE, Players
    <3> QED BY <3>1, SessionAssumption DEF SessionAssumption
  <2>3. player' \in Players
    BY <1>0, <1>1, <2>2 DEF ReceiveShookUE, Players, Places
  <2>4. past.answered \union {m.key} \in SUBSET (1..MaxPairs)
    BY <1>0, <2>1 DEF Pasts
  <2>5. (past.twice \/ m.key \in past.answered) \in BOOLEAN
    BY <1>0 DEF Pasts
  <2>6. past' \in Pasts
    BY <1>0, <1>1, <2>4, <2>5, Zenon DEF ReceiveShookUE, Pasts
  <2> QED BY <1>1, <2>3, <2>6 DEF ReceiveShookUE, Take, Arrives, PlayerType
<1>2. ASSUME NEW m \in toPlayer, ReceiveOther(m)
      PROVE  PlayerType'
  BY <1>0, <1>2, FailedFacts DEF ReceiveOther, Take, Arrives, PlayerType
<1>3. ASSUME NEW m \in toPlayer, ReceiveShookSE(m)
      PROVE  PlayerType'
  <2>1. Append(player.queue, "UpdateState") \in Seq(Actions)
    BY <1>0, QueueType DEF Players, Actions
  <2>2. player' \in Players
    BY <1>0, <1>3, <2>1 DEF ReceiveShookSE, Players, Places
  <2>3. past' \in Pasts
    BY <1>0, <1>3 DEF ReceiveShookSE, Players, Pasts
  <2> QED BY <1>3, <2>2, <2>3 DEF ReceiveShookSE, Take, Arrives, PlayerType
<1>4. ASSUME NEW m \in toPlayer, ReceiveOtherVersion(m)
      PROVE  PlayerType'
  BY <1>0, <1>4, DisconnectedFacts, FailedFacts
     DEF ReceiveOtherVersion, Arrives, PlayerType
<1>5. ASSUME NEW m \in toPlayer, WaitThrough(m)
      PROVE  PlayerType'
  BY <1>5 DEF WaitThrough, Take, Arrives, PlayerType
<1>6. ASSUME NEW m \in toPlayer, Receive(m)
      PROVE  PlayerType'
  BY <1>0, <1>6, UpdateType DEF Receive, Take, Arrives, PlayerType, Places
<1>7. ASSUME NEW m \in toPlayer, Exhausted(m)
      PROVE  PlayerType'
  BY <1>0, <1>7, FailedFacts DEF Exhausted, PlayerType
<1>8. ASSUME Timeout
      PROVE  PlayerType'
  <2>1. Append(player.queue, "Reconnect") \in Seq(Actions)
    BY <1>0, QueueType DEF Players, Actions, Handshake
  <2>2. player' \in Players
    BY <1>0, <1>8, <2>1, FailedFacts DEF Timeout, Players, Places
  <2> QED BY <1>8, <2>2 DEF Timeout, PlayerType
<1> QED BY <1>1, <1>2, <1>3, <1>4, <1>5, <1>6, <1>7, <1>8

-------------------------------------------------------------------------------
(* Types: the server and the network.                                          *)

LEMMA PlainType ==
  ASSUME NEW type \in {"ShakeUE", "Ping", "Disconnect"}, NEW src \in 1..MaxSockets
  PROVE  Plain(type, src) \in ToServer
BY DEF Plain, ToServer

LEMMA CopyType ==
  /\ \A m \in ToServer : [m EXCEPT !.copy = 2] \in ToServer
  /\ \A m \in ToPlayer : [m EXCEPT !.copy = 2] \in ToPlayer /\ [m EXCEPT !.copy = 2].src = m.src
BY DEF ToServer, ToPlayer

\* The server sends datagrams to players.
LEMMA SendToPlayerType ==
  ASSUME toPlayer \subseteq ToPlayer, Addressed, NEW ms \in SUBSET ToPlayer,
         SendToPlayer(ms), UNCHANGED socket
  PROVE  toPlayer' \subseteq ToPlayer /\ Addressed'
BY DEF SendToPlayer, Addressed

LEMMA TroubleType ==
  ASSUME trouble \in 0..MaxTrouble, Trouble \/ UNCHANGED trouble
  PROVE  trouble' \in 0..MaxTrouble
BY SessionAssumption DEF Trouble, SessionAssumption

\* One datagram is handled by the server.
LEMMA EventsTaskType ==
  ASSUME NetworkType, Addressed, NEW m \in toServer, toServer' = toServer \ {m},
         UNCHANGED socket, Trouble \/ UNCHANGED trouble,
         \/ InitializeClient(m) \/ ConnectClient(m) \/ RefuseClient(m)
         \/ ReceivedPing(m) \/ RemoveClient(m)
  PROVE  NetworkType' /\ Addressed'
<1>0. m \in ToServer /\ m.src \in 1..MaxSockets /\ toPlayer \subseteq ToPlayer
  BY DEF NetworkType, ConnTypeOK, ToServer
<1> SUFFICES /\ DOMAIN table' \subseteq 1..MaxSockets
             /\ \A src \in DOMAIN table' : table'[src] \in AppClient
             /\ pairs' \in 0..MaxPairs /\ installed' \subseteq Nat
             /\ toPlayer' \subseteq ToPlayer /\ Addressed'
  BY TroubleType DEF NetworkType, ConnTypeOK
<1>1. CASE InitializeClient(m)
  <2>1. pairs + 1 \in 1..MaxPairs /\ pairs' = pairs + 1
    BY <1>1, SessionAssumption DEF InitializeClient, NetworkType, ConnTypeOK, SessionAssumption
  <2>2. {[type |-> "ShookUE", src |-> m.src, key |-> pairs + 1, copy |-> 1]} \in SUBSET ToPlayer
    BY <1>0, <2>1 DEF ToPlayer
  <2>3. toPlayer' \subseteq ToPlayer /\ Addressed'
    BY <1>0, <1>1, <2>2, SendToPlayerType DEF InitializeClient
  <2>4. [priv |-> pairs + 1, connected |-> FALSE, key |-> NoKey, alive |-> TRUE] \in AppClient
    BY <2>1 DEF AppClient, NoKey
  <2> QED BY <1>0, <1>1, <2>1, <2>3, <2>4 DEF InitializeClient, NetworkType, ConnTypeOK
<1>2. CASE ConnectClient(m)
  <2>1. m.key \in Nat
    BY <1>0, <1>2 DEF ConnectClient, ToServer
  <2>2. {[type |-> "ShookSE", src |-> m.src, key |-> m.key, copy |-> 1]} \in SUBSET ToPlayer
    BY <1>0, <2>1 DEF ToPlayer
  <2>3. toPlayer' \subseteq ToPlayer /\ Addressed'
    BY <1>0, <1>2, <2>2, SendToPlayerType DEF ConnectClient
  <2>4. /\ DOMAIN table' \subseteq 1..MaxSockets
        /\ \A src \in DOMAIN table' : table'[src] \in AppClient
    BY <1>2, <2>1 DEF ConnectClient, NetworkType, ConnTypeOK, AppClient
  <2> QED BY <1>2, <2>1, <2>3, <2>4 DEF ConnectClient, NetworkType, ConnTypeOK
<1>3. CASE RefuseClient(m)
  BY <1>3 DEF RefuseClient, NetworkType, ConnTypeOK, Addressed
<1>4. CASE ReceivedPing(m)
  <2>1. \A src \in DOMAIN table :
          [table[src] EXCEPT !.alive = @ \/ src = m.src] \in AppClient
    <3> SUFFICES ASSUME NEW src \in DOMAIN table
                 PROVE  [table[src] EXCEPT !.alive = @ \/ src = m.src] \in AppClient
      OBVIOUS
    <3>1. table[src] \in AppClient /\ (table[src].alive \/ src = m.src) \in BOOLEAN
      BY DEF NetworkType, ConnTypeOK, AppClient
    <3> QED BY <3>1, Zenon DEF AppClient
  <2> QED BY <1>4, <2>1 DEF ReceivedPing, NetworkType, ConnTypeOK, Addressed
<1>5. CASE RemoveClient(m)
  BY <1>5 DEF RemoveClient, Restrict, NetworkType, ConnTypeOK, Addressed
<1> QED BY <1>1, <1>2, <1>3, <1>4, <1>5

\* What VideoServerTask does, and what happens to the server and to datagrams.
LEMMA ServerType ==
  ASSUME NetworkType, Addressed, Duplicate \/ Lose \/ ServerRestart \/ Filter \/ SendFrame
                     \/ \E src \in 1..MaxSockets : Overdue(src)
  PROVE  NetworkType' /\ Addressed'
<1>0. toPlayer \subseteq ToPlayer /\ toServer \subseteq ToServer
  BY DEF NetworkType, ConnTypeOK
<1>1. CASE Duplicate
  <2>1. toPlayer' \subseteq ToPlayer /\ toServer' \subseteq ToServer /\ Addressed'
    BY <1>0, <1>1, CopyType DEF Duplicate, SendToServer, Addressed
  <2> QED BY <1>1, <2>1, TroubleType DEF Duplicate, NetworkType, ConnTypeOK
<1>2. CASE Lose
  BY <1>2, TroubleType DEF Lose, NetworkType, ConnTypeOK, Addressed
<1>3. CASE ServerRestart
  BY <1>3, TroubleType DEF ServerRestart, NetworkType, ConnTypeOK, Addressed
<1>4. CASE Filter
  BY <1>4 DEF Filter, FilterClients, Restrict, NetworkType, ConnTypeOK, Addressed
<1>5. CASE SendFrame
  <2> PICK first \in Connected : Broadcast(first)
    BY <1>5 DEF SendFrame
  <2>1. table[first].key \in Nat
    BY DEF Connected, NetworkType, ConnTypeOK, AppClient
  <2>2. {[type |-> "NAL", src |-> src, key |-> table[first].key, copy |-> 1] :
           src \in DOMAIN table} \in SUBSET ToPlayer
    BY <2>1 DEF ToPlayer, NetworkType, ConnTypeOK
  <2>3. toPlayer' \subseteq ToPlayer /\ Addressed'
    BY <1>0, <2>2, SendToPlayerType DEF Broadcast
  <2> QED BY <1>5, <2>3 DEF SendFrame, Broadcast, NetworkType, ConnTypeOK
<1>6. ASSUME NEW src \in 1..MaxSockets, Overdue(src)
      PROVE  NetworkType' /\ Addressed'
  <2>1. \A s \in DOMAIN table' : table'[s] \in AppClient
    <3>1. \A s \in DOMAIN table : table[s] \in AppClient
      BY DEF NetworkType, ConnTypeOK
    <3>2. src \in DOMAIN table /\ table' = [table EXCEPT ![src].alive = FALSE]
      BY <1>6 DEF Overdue, PingOverdue
    <3>3. DOMAIN table' = DOMAIN table
      BY <3>2
    <3>4. [table[src] EXCEPT !.alive = FALSE] \in AppClient
      BY <3>1, <3>2 DEF AppClient
    <3>5. ASSUME NEW s \in DOMAIN table
          PROVE  table'[s] = IF s = src THEN [table[src] EXCEPT !.alive = FALSE] ELSE table[s]
      BY <3>2
    <3> QED BY <3>1, <3>3, <3>4, <3>5
  <2> QED BY <1>6, <2>1, TroubleType
          DEF Overdue, PingOverdue, NetworkType, ConnTypeOK, Addressed
<1> QED BY <1>1, <1>2, <1>3, <1>4, <1>5, <1>6

\* What the player sends, and its socket.
LEMMA PlayerSends ==
  ASSUME TypeInv,
         \/ HandleConnect \/ HandleOther \/ HandleDisconnect
         \/ StartHandshake \/ HandshakeWithoutSocket \/ GoReceive
  PROVE  NetworkType' /\ Addressed'
<1>0. toPlayer \subseteq ToPlayer /\ toServer \subseteq ToServer /\ socket \in 0..MaxSockets
  BY DEF TypeInv, NetworkType, ConnTypeOK
<1>1. CASE HandleConnect \/ HandleOther \/ HandshakeWithoutSocket \/ GoReceive
  BY <1>1 DEF HandleConnect, HandleOther, HandshakeWithoutSocket, GoReceive, connVars,
              TypeInv, NetworkType, ConnTypeOK, Addressed
<1>2. CASE HandleDisconnect
  <2>1. toServer' \subseteq ToServer
    BY <1>0, <1>2, PlainType DEF HandleDisconnect, SendDisconnect, SendToServer
  <2> QED BY <1>2, <2>1, SessionAssumption
          DEF HandleDisconnect, SendDisconnect, TypeInv, NetworkType, ConnTypeOK, Addressed,
              SessionAssumption
<1>3. CASE StartHandshake
  <2>0. player.sockets \in 0..MaxSockets
    BY DEF TypeInv, PlayerType, Players
  <2>1. socket' \in 1..MaxSockets
    BY <1>0, <1>3, <2>0, SessionAssumption DEF StartHandshake, SessionAssumption
  <2>2. toServer' \subseteq ToServer
    BY <1>0, <1>3, <2>1, PlainType DEF StartHandshake, SendToServer
  <2>3. Addressed'
    BY <1>0, <1>3 DEF StartHandshake, TypeInv, Addressed, ToPlayer
  <2> QED BY <1>3, <2>1, <2>2, <2>3 DEF StartHandshake, TypeInv, NetworkType, ConnTypeOK
<1> QED BY <1>1, <1>2, <1>3

LEMMA ReceptionSends ==
  ASSUME TypeInv, Trouble \/ UNCHANGED trouble,
         \/ Timeout
         \/ \E m \in toPlayer :
              \/ ReceiveShookUE(m) \/ ReceiveOther(m) \/ ReceiveShookSE(m)
              \/ ReceiveOtherVersion(m) \/ WaitThrough(m) \/ Receive(m) \/ Exhausted(m)
  PROVE  NetworkType' /\ Addressed'
<1>0. toPlayer \subseteq ToPlayer /\ toServer \subseteq ToServer /\ socket \in 0..MaxSockets
  BY DEF TypeInv, NetworkType, ConnTypeOK
<1>1. CASE Timeout
  BY <1>1, TroubleType DEF Timeout, connVars, TypeInv, NetworkType, ConnTypeOK, Addressed
<1>2. ASSUME NEW m \in toPlayer,
             \/ ReceiveShookUE(m) \/ ReceiveOther(m) \/ ReceiveShookSE(m)
             \/ ReceiveOtherVersion(m) \/ WaitThrough(m) \/ Receive(m) \/ Exhausted(m)
      PROVE  NetworkType' /\ Addressed'
  <2>1. socket \in 1..MaxSockets
    BY <1>0 DEF TypeInv, Addressed, ToPlayer
  <2> SUFFICES /\ UNCHANGED <<table, pairs, installed>>
               /\ toPlayer' \subseteq toPlayer
               /\ toServer' \subseteq ToServer
               /\ UNCHANGED socket \/ (toPlayer' = {} /\ socket' = 0)
    BY <1>0, TroubleType, SessionAssumption
       DEF TypeInv, NetworkType, ConnTypeOK, Addressed, SessionAssumption
  <2>2. CASE ReceiveShookUE(m)
    <3>1. m.key \in 1..MaxPairs
      BY <1>0, <2>2 DEF ReceiveShookUE, ToPlayer
    <3>2. player.keys + 1 \in Nat
      BY SessionAssumption DEF TypeInv, PlayerType, Players, SessionAssumption
    <3>3. [type |-> "ShakeAE", src |-> socket, pub |-> m.key, key |-> player.keys + 1,
           copy |-> 1] \in ToServer
      BY <2>1, <3>1, <3>2 DEF ToServer
    <3>4. toServer' \subseteq ToServer
      BY <1>0, <2>2, <3>3 DEF ReceiveShookUE, SendToServer
    <3> QED BY <2>2, <3>4 DEF ReceiveShookUE, Take, Arrives
  <2>3. CASE ReceiveOther(m) \/ WaitThrough(m) \/ ReceiveShookSE(m) \/ Exhausted(m)
    BY <1>0, <2>3 DEF ReceiveOther, WaitThrough, ReceiveShookSE, Exhausted, Take, Arrives
  <2>4. CASE ReceiveOtherVersion(m)
    <3>1. toServer' \subseteq ToServer
      BY <1>0, <2>4, <2>1, PlainType DEF ReceiveOtherVersion, SendDisconnect, SendToServer
    <3> QED BY <2>4, <3>1 DEF ReceiveOtherVersion, SendDisconnect, Arrives
  <2>5. CASE Receive(m)
    <3>1. toServer' \subseteq ToServer
      BY <1>0, <2>5, <2>1, PlainType DEF Receive, SendToServer
    <3> QED BY <2>5, <3>1 DEF Receive, Take, Arrives
  <2> QED BY <1>2, <2>2, <2>3, <2>4, <2>5
<1> QED BY <1>1, <1>2

-------------------------------------------------------------------------------
(* Types: the theorem.                                                         *)

LEMMA TypeStep ==
  ASSUME TypeInv, [Next]_vars
  PROVE  TypeInv'
<1>1. CASE \/ \E action \in {"Connect", "Disconnect", "CloseApplication"} : Click(action)
           \/ TurnVolume
  BY <1>1, ClickType
     DEF Click, TurnVolume, connVars, TypeInv, NetworkType, ConnTypeOK, Addressed
<1>2. CASE \/ HandleConnect \/ HandleOther \/ HandleDisconnect
           \/ StartHandshake \/ HandshakeWithoutSocket \/ GoReceive
  BY <1>2, LoopType, PlayerSends DEF TypeInv
<1>3. CASE \/ TimeoutInSilence \/ TimeoutEarly \/ GiveUp \/ GiveUpEarly
           \/ \E m \in toPlayer :
                \/ ReceiveShookUE(m) \/ ReceiveOther(m) \/ WaitThrough(m) \/ Receive(m)
                \/ ReceiveShookSE(m) \/ ReceiveOtherVersion(m)
  <2>1. Trouble \/ UNCHANGED trouble
    BY <1>3 DEF TimeoutInSilence, TimeoutEarly, GiveUp, GiveUpEarly, ReceiveShookUE,
                ReceiveOther, WaitThrough, Receive, ReceiveShookSE, ReceiveOtherVersion,
                Take, Arrives
  <2>2. \/ Timeout
        \/ \E m \in toPlayer :
             \/ ReceiveShookUE(m) \/ ReceiveOther(m) \/ ReceiveShookSE(m)
             \/ ReceiveOtherVersion(m) \/ WaitThrough(m) \/ Receive(m) \/ Exhausted(m)
    BY <1>3 DEF TimeoutInSilence, TimeoutEarly, GiveUp, GiveUpEarly
  <2> QED BY <2>1, <2>2, ReceptionType, ReceptionSends DEF TypeInv
<1>4. CASE UserNotFound \/ \E type \in Requests : EventsTask(type)
  <2> PICK m \in toServer :
        /\ toServer' = toServer \ {m}
        /\ \/ InitializeClient(m) \/ ConnectClient(m) \/ RefuseClient(m)
           \/ ReceivedPing(m) \/ RemoveClient(m)
    BY <1>4 DEF UserNotFound, EventsTask
  <2>1. UNCHANGED <<socket, player, past, clicks>> /\ (Trouble \/ UNCHANGED trouble)
    BY <1>4 DEF UserNotFound, EventsTask
  <2> QED BY <2>1, EventsTaskType DEF TypeInv, PlayerType
<1>5. CASE \/ Duplicate \/ Lose \/ ServerRestart \/ Filter \/ SendFrame
           \/ \E src \in 1..MaxSockets : Overdue(src)
  <2>1. UNCHANGED <<player, past, clicks>>
    BY <1>5 DEF Duplicate, Lose, ServerRestart, Filter, SendFrame, Overdue
  <2> QED BY <1>5, <2>1, ServerType DEF TypeInv, PlayerType
<1>6. CASE UNCHANGED vars
  BY <1>6 DEF vars, connVars, TypeInv, NetworkType, ConnTypeOK, PlayerType, Addressed
<1> QED
  BY <1>1, <1>2, <1>3, <1>4, <1>5, <1>6 DEF Next, PlayerStep, Answered

LEMMA TypeInit ==
  ASSUME Init
  PROVE  TypeInv
<1>1. player \in Players
  BY SessionAssumption DEF Init, Players, Places, Handshake, NoKey, SessionAssumption
<1>2. past \in Pasts
  BY SessionAssumption DEF Init, Pasts, NoKey, SessionAssumption
<1> QED BY <1>1, <1>2, SessionAssumption
        DEF Init, ConnInit, TypeInv, NetworkType, ConnTypeOK, PlayerType, Addressed,
            SessionAssumption

LEMMA TypeInvHolds == Spec => []TypeInv
BY TypeInit, TypeStep, PTL DEF Spec

\* The player's, the server's and the network's state keep their types: the counters
\* stay within their bounds, and every public key on its way is one the server made.
THEOREM SessionTypeCorrect == Spec => []TypeOK
<1>1. TypeInv => TypeOK
  BY TypeParts DEF TypeInv
<1> QED BY <1>1, TypeInvHolds, PTL

-------------------------------------------------------------------------------
(* Keys: the inductive invariant.                                              *)

ShakeAEs == {m \in toServer : m.type = "ShakeAE"}

\* The player's key is its last; a connected player has one; its socket is its last.
KeysCount ==
  /\ player.key = player.keys
  /\ player.state = "Connected" => player.key # NoKey
  /\ socket \in {0, player.sockets}

\* Only keys of the player get installed, and ShookSE is encrypted with one of them.
Installed ==
  /\ installed \subseteq 1..player.keys
  /\ past.shaken \in installed \union {NoKey}
  /\ \A m \in toPlayer : m.type = "ShookSE" => m.key \in installed

\* Public keys were generated before they are sent, and answered after.
PairsCount ==
  /\ past.answered \subseteq 1..pairs
  /\ \A m \in ShakeAEs : m.pub \in past.answered
  /\ \A m \in toPlayer : m.type = "ShookUE" => m.key \in 1..pairs

\* Sockets were opened, and keys generated, before they are in a datagram.
SocketsCount ==
  /\ \A m \in toServer : m.src \in 1..player.sockets
  /\ DOMAIN table \subseteq 1..player.sockets
  /\ \A m \in ShakeAEs : m.key \in 1..player.keys

\* A key is sent in one ShakeAE and its copies; later keys are sent from later
\* sockets; different ones answer different ShookUEs, unless one came twice.
AnswersOrdered ==
  \A m, n \in ShakeAEs :
    /\ m.key = n.key => m.src = n.src /\ m.pub = n.pub
    /\ m.key < n.key => m.src <= n.src
    /\ m.pub = n.pub /\ ~past.twice => m.key = n.key

\* The same order holds between what is on its way and the keys in the table.
EntriesOrdered ==
  \A src \in Connected :
    /\ table[src].key \in installed
    /\ \A m \in ShakeAEs :
         /\ m.key <= table[src].key => m.src <= src
         /\ m.key >= table[src].key => m.src >= src

\* Once the player's last key is installed, the entry of its socket has that key, and no
\* ShakeAE with an older one decrypts any more.
LastKeyWins ==
  player.key \in installed /\ ~past.twice =>
    /\ socket \in Connected => table[socket].key = player.key
    /\ \A m \in ShakeAEs : m.src = socket /\ m.key # player.key => ~Decrypts(m)

KeysInv ==
  KeysCount /\ Installed /\ PairsCount /\ SocketsCount /\ AnswersOrdered
  /\ EntriesOrdered /\ LastKeyWins

LEMMA KeysTyped ==
  ASSUME TypeInv
  PROVE  /\ player.keys \in Nat /\ player.sockets \in Nat /\ pairs \in Nat
         /\ \A m \in ShakeAEs : m.key \in Nat /\ m.src \in Nat \ {0}
         /\ \A src \in DOMAIN table : table[src].key \in Nat /\ src \in Nat \ {0}
<1>1. player.keys \in Nat /\ player.sockets \in Nat /\ pairs \in Nat
  BY SessionAssumption
     DEF TypeInv, NetworkType, ConnTypeOK, PlayerType, Players, SessionAssumption
<1>2. \A m \in ShakeAEs : m.key \in Nat /\ m.src \in Nat \ {0}
  BY DEF TypeInv, NetworkType, ConnTypeOK, ShakeAEs, ToServer
<1>3. \A src \in DOMAIN table : table[src].key \in Nat /\ src \in Nat \ {0}
  BY DEF TypeInv, NetworkType, ConnTypeOK, AppClient
<1> QED BY <1>1, <1>2, <1>3

-------------------------------------------------------------------------------
(* Keys: the steps.                                                            *)

\* What no handshake step changes: the counters, the history and the keys of those
\* entries that stay in the table. Datagrams are lost or copied.
QuietPlayer ==
  /\ player'.key = player.key /\ player'.keys = player.keys
  /\ player'.sockets = player.sockets
  /\ player'.state = "Connected" => player.key # NoKey
  /\ socket' \in {0, socket}
  /\ past'.answered = past.answered /\ past'.twice = past.twice
  /\ past'.shaken \in installed \union {NoKey}

QuietNetwork ==
  /\ \A m \in toServer' :
       /\ m.src \in 1..player.sockets
       /\ m.type = "ShakeAE" =>
            \E n \in ShakeAEs : n.src = m.src /\ n.pub = m.pub /\ n.key = m.key
  /\ \A m \in toPlayer' :
       m.type = "NAL" \/ \E n \in toPlayer : n.type = m.type /\ n.key = m.key

QuietServer ==
  /\ UNCHANGED <<pairs, installed>>
  /\ DOMAIN table' \subseteq DOMAIN table
  /\ \A src \in DOMAIN table' :
       /\ table'[src].priv = table[src].priv
       /\ table'[src].connected = table[src].connected
       /\ table'[src].key = table[src].key

Quiet == QuietPlayer /\ QuietNetwork /\ QuietServer

LEMMA QuietStep ==
  ASSUME TypeInv, KeysInv, Quiet
  PROVE  KeysInv'
<1>1. \A m \in ShakeAEs' :
        \E n \in ShakeAEs : n.src = m.src /\ n.pub = m.pub /\ n.key = m.key
  BY DEF Quiet, QuietPlayer, QuietNetwork, QuietServer, ShakeAEs
<1>2. KeysCount'
  BY DEF Quiet, QuietPlayer, QuietNetwork, QuietServer, KeysInv, KeysCount
<1>3. Installed'
  <2>1. \A m \in toPlayer' : m.type = "ShookSE" => m.key \in installed
    BY DEF Quiet, QuietPlayer, QuietNetwork, QuietServer, KeysInv, Installed
  <2> QED BY <2>1 DEF Quiet, QuietPlayer, QuietNetwork, QuietServer, KeysInv, Installed
<1>4. PairsCount'
  <2>1. \A m \in toPlayer' : m.type = "ShookUE" => m.key \in 1..pairs
    BY DEF Quiet, QuietPlayer, QuietNetwork, QuietServer, KeysInv, PairsCount
  <2>2. \A m \in ShakeAEs' : m.pub \in past.answered
    BY <1>1 DEF KeysInv, PairsCount
  <2> QED BY <2>1, <2>2 DEF Quiet, QuietPlayer, QuietNetwork, QuietServer, KeysInv, PairsCount
<1>5. SocketsCount'
  <2>1. \A m \in ShakeAEs' : m.key \in 1..player.keys
    BY <1>1 DEF KeysInv, SocketsCount
  <2> QED BY <2>1 DEF Quiet, QuietPlayer, QuietNetwork, QuietServer, KeysInv, SocketsCount
<1>6. AnswersOrdered'
  <2> SUFFICES ASSUME NEW m \in ShakeAEs', NEW n \in ShakeAEs'
               PROVE  /\ m.key = n.key => m.src = n.src /\ m.pub = n.pub
                      /\ m.key < n.key => m.src <= n.src
                      /\ m.pub = n.pub /\ ~past.twice => m.key = n.key
    BY DEF AnswersOrdered, Quiet, QuietPlayer, QuietNetwork, QuietServer
  <2> QED BY <1>1 DEF KeysInv, AnswersOrdered
<1>7. EntriesOrdered'
  <2> SUFFICES ASSUME NEW src \in Connected'
               PROVE  /\ table[src].key \in installed
                      /\ \A m \in ShakeAEs' :
                           /\ m.key <= table[src].key => m.src <= src
                           /\ m.key >= table[src].key => m.src >= src
    BY DEF EntriesOrdered, Quiet, QuietPlayer, QuietNetwork, QuietServer, Connected
  <2>1. src \in Connected
    BY DEF Quiet, QuietPlayer, QuietNetwork, QuietServer, Connected
  <2> QED BY <1>1, <2>1 DEF KeysInv, EntriesOrdered
<1>8. LastKeyWins'
  <2> SUFFICES ASSUME player.key \in installed, ~past.twice
               PROVE  /\ socket' \in Connected' => table'[socket'].key = player.key
                      /\ \A m \in ShakeAEs' :
                           m.src = socket' /\ m.key # player.key => ~Decrypts(m)'
    BY DEF LastKeyWins, Quiet, QuietPlayer, QuietNetwork, QuietServer
  <2>1. socket' \in Connected' => table'[socket'].key = player.key
    BY KeysTyped DEF Quiet, QuietPlayer, QuietNetwork, QuietServer, Connected, KeysInv, LastKeyWins
  <2>2. ASSUME NEW m \in ShakeAEs', m.src = socket', m.key # player.key, Decrypts(m)'
        PROVE  FALSE
    <3>1. PICK n \in ShakeAEs : n.src = m.src /\ n.pub = m.pub /\ n.key = m.key
      BY <1>1
    <3>2. socket' = socket
      BY <2>2, <3>1, KeysTyped DEF Quiet, QuietPlayer, QuietNetwork, QuietServer
    <3>3. Decrypts(n)
      BY <2>2, <3>1 DEF Decrypts, Quiet, QuietPlayer, QuietNetwork, QuietServer
    <3> QED BY <2>2, <3>1, <3>2, <3>3 DEF KeysInv, LastKeyWins
  <2> QED BY <2>1, <2>2
<1> QED BY <1>2, <1>3, <1>4, <1>5, <1>6, <1>7, <1>8 DEF KeysInv

\* A handshake starts, perhaps with a new socket.
LEMMA StartHandshakeKeys ==
  ASSUME TypeInv, KeysInv, StartHandshake
  PROVE  KeysInv'
<1>1. /\ player'.key = player.key /\ player'.keys = player.keys
      /\ player'.state = player.state /\ player'.sockets = socket'
  <2>1. Caller \in Players /\ Caller.state = player.state /\ Caller.key = player.key
        /\ Caller.keys = player.keys
    BY CallerFacts DEF TypeInv, PlayerType, StartHandshake
  <2> QED BY <2>1 DEF StartHandshake, Players
<1>2. \/ socket # 0 /\ socket' = socket /\ player'.sockets = player.sockets
      \/ socket = 0 /\ socket' = player.sockets + 1 /\ player'.sockets = player.sockets + 1
  BY <1>1 DEF StartHandshake, KeysInv, KeysCount
<1>3. ShakeAEs' = ShakeAEs
  BY DEF StartHandshake, SendToServer, Plain, ShakeAEs
<1>4. UNCHANGED <<table, pairs, installed, toPlayer, past>> /\ Connected' = Connected
  BY DEF StartHandshake, Connected
<1>5. player'.sockets \in Nat /\ player'.sockets >= player.sockets /\ player'.sockets >= 1
  BY <1>2, KeysTyped DEF KeysInv, KeysCount, TypeInv, NetworkType, ConnTypeOK
<1>6. KeysCount' /\ Installed' /\ PairsCount'
  BY <1>1, <1>3, <1>4 DEF KeysInv, KeysCount, Installed, PairsCount
<1>7. SocketsCount'
  <2>1. \A m \in toServer' : m.src \in 1..player'.sockets
    BY <1>1, <1>5, KeysTyped DEF StartHandshake, SendToServer, Plain, KeysInv, SocketsCount
  <2>2. DOMAIN table \subseteq 1..player'.sockets
    BY <1>5, KeysTyped DEF KeysInv, SocketsCount
  <2> QED BY <1>1, <1>3, <1>4, <2>1, <2>2 DEF KeysInv, SocketsCount
<1>8. AnswersOrdered' /\ EntriesOrdered'
  BY <1>3, <1>4 DEF KeysInv, AnswersOrdered, EntriesOrdered
<1>9. LastKeyWins'
  <2>1. CASE socket' = socket
    BY <1>1, <1>3, <1>4, <2>1 DEF KeysInv, LastKeyWins, Decrypts
  <2>2. CASE socket' = player.sockets + 1
    <3>1. socket' \notin DOMAIN table /\ \A m \in ShakeAEs : m.src # socket'
      BY <2>2, KeysTyped DEF KeysInv, SocketsCount, ShakeAEs
    <3> QED BY <1>3, <1>4, <3>1 DEF LastKeyWins, Connected
  <2> QED BY <1>2, <2>1, <2>2
<1> QED BY <1>6, <1>7, <1>8, <1>9 DEF KeysInv

\* A fresh key is sent: it is larger than every other.
LEMMA ReceiveShookUEKeys ==
  ASSUME TypeInv, KeysInv, NEW u \in toPlayer, ReceiveShookUE(u)
  PROVE  KeysInv'
<1> DEFINE answer == [type |-> "ShakeAE", src |-> socket, pub |-> u.key,
                      key |-> player.keys + 1, copy |-> 1]
<1>1. /\ player'.key = player.keys + 1 /\ player'.keys = player.keys + 1
      /\ player'.state = player.state /\ player'.sockets = player.sockets
  BY DEF ReceiveShookUE, TypeInv, PlayerType, Players
<1>2. /\ UNCHANGED <<table, pairs, installed, socket>> /\ toPlayer' \subseteq toPlayer
      /\ Connected' = Connected
  BY DEF ReceiveShookUE, Take, Arrives, Connected
<1>3. /\ past'.answered = past.answered \union {u.key} /\ past'.shaken = past.shaken
      /\ ~past'.twice => ~past.twice /\ u.key \notin past.answered
  BY DEF ReceiveShookUE, TypeInv, PlayerType, Pasts
<1>4. toServer' = toServer \union {answer} /\ ShakeAEs' = ShakeAEs \union {answer}
  BY DEF ReceiveShookUE, SendToServer, ShakeAEs
<1>5. player.keys \in Nat /\ player.sockets \in Nat
  BY KeysTyped
<1>6. socket = player.sockets /\ socket \in 1..player.sockets /\ u.key \in 1..pairs
  <2>1. socket # 0
    BY DEF TypeInv, NetworkType, ConnTypeOK, Addressed, ToPlayer
  <2> QED BY <1>5, <2>1 DEF KeysInv, KeysCount, PairsCount, ReceiveShookUE
<1>7. KeysCount'
  BY <1>1, <1>2, <1>5, <1>6 DEF KeysCount, NoKey
<1>8. Installed'
  BY <1>1, <1>2, <1>3, <1>5 DEF KeysInv, Installed
<1>9. PairsCount'
  BY <1>2, <1>3, <1>4, <1>6 DEF KeysInv, PairsCount
<1>10. SocketsCount'
  BY <1>1, <1>2, <1>4, <1>5, <1>6, KeysTyped DEF KeysInv, SocketsCount
<1>11. AnswersOrdered'
  <2> SUFFICES ASSUME NEW m \in ShakeAEs', NEW n \in ShakeAEs'
               PROVE  /\ m.key = n.key => m.src = n.src /\ m.pub = n.pub
                      /\ m.key < n.key => m.src <= n.src
                      /\ m.pub = n.pub /\ ~past'.twice => m.key = n.key
    BY DEF AnswersOrdered
  <2>1. \A a \in ShakeAEs : /\ a.key \in Nat /\ a.key < answer.key /\ a.src <= answer.src
                            /\ a.pub = answer.pub => past'.twice
    BY <1>3, <1>5, <1>6, KeysTyped DEF KeysInv, SocketsCount, PairsCount, ShakeAEs
  <2>2. CASE m \in ShakeAEs /\ n \in ShakeAEs
    BY <1>3, <2>2 DEF KeysInv, AnswersOrdered
  <2>3. CASE m = answer /\ n = answer
    BY <1>5, <2>3
  <2>4. CASE m = answer /\ n \in ShakeAEs
    BY <1>5, <2>1, <2>4
  <2>5. CASE m \in ShakeAEs /\ n = answer
    BY <1>5, <2>1, <2>5
  <2> QED BY <1>4, <2>2, <2>3, <2>4, <2>5
<1>12. EntriesOrdered'
  <2> SUFFICES ASSUME NEW src \in Connected, NEW m \in ShakeAEs'
               PROVE  /\ m.key <= table[src].key => m.src <= src
                      /\ m.key >= table[src].key => m.src >= src
    BY <1>2 DEF KeysInv, EntriesOrdered
  <2>1. table[src].key \in 1..player.keys /\ src \in 1..player.sockets
    BY DEF KeysInv, EntriesOrdered, Installed, SocketsCount, Connected
  <2>2. CASE m = answer
    BY <1>5, <1>6, <2>1, <2>2
  <2> QED BY <1>4, <2>2 DEF KeysInv, EntriesOrdered
<1>13. LastKeyWins'
  BY <1>1, <1>2, <1>5 DEF KeysInv, Installed, LastKeyWins
<1> QED BY <1>7, <1>8, <1>9, <1>10, <1>11, <1>12, <1>13 DEF KeysInv

\* A fresh entry: nothing on its way decrypts with its private key.
LEMMA InitializeClientKeys ==
  ASSUME TypeInv, KeysInv, NEW c \in toServer, toServer' = toServer \ {c},
         UNCHANGED <<socket, player, past>>, InitializeClient(c)
  PROVE  KeysInv'
<1>1. /\ pairs' = pairs + 1 /\ pairs \in Nat /\ installed' = installed
      /\ ShakeAEs' = ShakeAEs
  BY KeysTyped DEF InitializeClient, ShakeAEs
<1>2. /\ DOMAIN table' = DOMAIN table \union {c.src}
      /\ \A src \in DOMAIN table \ {c.src} : table'[src] = table[src]
      /\ table'[c.src].priv = pairs + 1 /\ ~table'[c.src].connected
  BY DEF InitializeClient
<1>3. Connected' = Connected \ {c.src} /\ \A src \in Connected' : table'[src] = table[src]
  BY <1>2 DEF Connected
<1>4. \A m \in toPlayer' : \/ m \in toPlayer
                           \/ m.type = "ShookUE" /\ m.key = pairs + 1
  BY DEF InitializeClient, SendToPlayer
<1>5. KeysCount' /\ Installed'
  BY <1>1, <1>4 DEF KeysInv, KeysCount, Installed
<1>6. PairsCount'
  BY <1>1, <1>4 DEF KeysInv, PairsCount
<1>7. SocketsCount'
  BY <1>1, <1>2 DEF KeysInv, SocketsCount
<1>8. AnswersOrdered' /\ EntriesOrdered'
  BY <1>1, <1>3 DEF KeysInv, AnswersOrdered, EntriesOrdered
<1>9. LastKeyWins'
  <2>1. \A m \in ShakeAEs : Decrypts(m)' => Decrypts(m)
    <3> SUFFICES ASSUME NEW m \in ShakeAEs, Decrypts(m)'
                 PROVE  Decrypts(m)
      OBVIOUS
    <3>1. m.pub \in 1..pairs
      BY DEF KeysInv, PairsCount
    <3>2. m.src # c.src
      BY <1>1, <1>2, <3>1 DEF Decrypts
    <3> QED BY <1>2, <3>2 DEF Decrypts
  <2> QED BY <1>1, <1>3, <2>1 DEF KeysInv, LastKeyWins
<1> QED BY <1>5, <1>6, <1>7, <1>8, <1>9 DEF KeysInv

\* A key is installed: if it is the player's last one, it is the player's socket that has it.
LEMMA ConnectClientKeys ==
  ASSUME TypeInv, KeysInv, NEW c \in toServer, toServer' = toServer \ {c},
         UNCHANGED <<socket, player, past>>, ConnectClient(c)
  PROVE  KeysInv'
<1>1. /\ c \in ShakeAEs /\ ShakeAEs' \subseteq ShakeAEs /\ pairs' = pairs
      /\ installed' = installed \union {c.key} /\ Decrypts(c)
  BY DEF ConnectClient, ShakeAEs
<1>2. /\ c.key \in 1..player.keys /\ c.src \in 1..player.sockets
      /\ player.keys \in Nat /\ player.sockets \in Nat
  BY <1>1, KeysTyped DEF KeysInv, SocketsCount
<1>3. /\ DOMAIN table' = DOMAIN table /\ c.src \in DOMAIN table
      /\ table'[c.src].priv = table[c.src].priv /\ table'[c.src].key = c.key
      /\ \A src \in DOMAIN table \ {c.src} : table'[src] = table[src]
  BY <1>1 DEF ConnectClient, Decrypts, TypeInv, NetworkType, ConnTypeOK, AppClient
<1>4. Connected' \subseteq Connected \union {c.src}
  BY <1>3 DEF Connected
<1>5. \A m \in toPlayer' : \/ m \in toPlayer
                           \/ m.type = "ShookSE" /\ m.key = c.key
  BY DEF ConnectClient, SendToPlayer
<1>6. \A m \in ShakeAEs : Decrypts(m)' <=> Decrypts(m)
  BY <1>3 DEF Decrypts
<1>7. KeysCount'
  BY DEF KeysInv, KeysCount
<1>8. Installed'
  BY <1>1, <1>2, <1>5 DEF KeysInv, Installed
<1>9. PairsCount' /\ SocketsCount'
  BY <1>1, <1>3, <1>5 DEF KeysInv, PairsCount, SocketsCount
<1>10. AnswersOrdered'
  BY <1>1 DEF KeysInv, AnswersOrdered
<1>11. EntriesOrdered'
  <2> SUFFICES ASSUME NEW src \in Connected'
               PROVE  /\ table'[src].key \in installed'
                      /\ \A m \in ShakeAEs :
                           /\ m.key <= table'[src].key => m.src <= src
                           /\ m.key >= table'[src].key => m.src >= src
    BY <1>1 DEF EntriesOrdered
  <2>1. CASE src = c.src
    <3> SUFFICES ASSUME NEW m \in ShakeAEs
                 PROVE  /\ m.key <= c.key => m.src <= c.src
                        /\ m.key >= c.key => m.src >= c.src
      BY <1>1, <1>3, <2>1
    <3>1. /\ m.key = c.key => m.src = c.src
          /\ m.key < c.key => m.src <= c.src
          /\ c.key < m.key => c.src <= m.src
      BY <1>1 DEF KeysInv, AnswersOrdered
    <3> QED BY <1>1, <3>1, KeysTyped
  <2>2. CASE src # c.src
    <3>1. src \in Connected /\ table'[src] = table[src]
      BY <1>3, <1>4, <2>2 DEF Connected
    <3> QED BY <1>1, <3>1 DEF KeysInv, EntriesOrdered
  <2> QED BY <2>1, <2>2
<1>12. LastKeyWins'
  <2> SUFFICES ASSUME player.key \in installed', ~past.twice
               PROVE  /\ socket \in Connected' => table'[socket].key = player.key
                      /\ \A m \in ShakeAEs :
                           m.src = socket /\ m.key # player.key => ~Decrypts(m)
    BY <1>1, <1>6 DEF LastKeyWins
  <2>1. CASE player.key \in installed
    <3>1. c.src = socket => c.key = player.key
      BY <1>1, <2>1 DEF KeysInv, LastKeyWins
    <3>2. socket \in Connected' => table'[socket].key = player.key
      BY <1>3, <1>4, <2>1, <3>1 DEF KeysInv, LastKeyWins, Connected
    <3> QED BY <2>1, <3>2 DEF KeysInv, LastKeyWins
  <2>2. CASE player.key \notin installed
    <3>1. c.key = player.keys /\ player.key = player.keys
      BY <1>1, <2>2 DEF KeysInv, KeysCount
    <3>2. socket # 0 => socket = player.sockets
      BY DEF KeysInv, KeysCount
    <3>3. ASSUME socket \in Connected'
          PROVE  table'[socket].key = player.key
      <4>1. CASE c.src = socket
        BY <1>3, <3>1, <4>1
      <4>2. CASE c.src # socket
        <5>1. socket \in Connected
          BY <1>4, <3>3, <4>2
        <5>2. table[socket].key \in 1..player.keys /\ socket = player.sockets
          BY <3>2, <5>1, KeysTyped DEF KeysInv, EntriesOrdered, Installed, Connected
        <5>3. c.key >= table[socket].key => c.src >= socket
          BY <1>1, <5>1 DEF KeysInv, EntriesOrdered
        <5> QED BY <1>2, <3>1, <4>2, <5>2, <5>3
      <4> QED BY <4>1, <4>2
    <3>4. ASSUME NEW m \in ShakeAEs, m.src = socket, m.key # player.key, Decrypts(m)
          PROVE  FALSE
      <4>1. m.key \in 1..player.keys /\ m.key < c.key /\ m.src = player.sockets
        BY <1>2, <3>1, <3>2, <3>4, KeysTyped DEF KeysInv, SocketsCount
      <4>2. c.src = m.src
        BY <1>1, <1>2, <4>1 DEF KeysInv, AnswersOrdered
      <4>3. c.pub = m.pub
        BY <1>1, <3>4, <4>2 DEF Decrypts
      <4>4. c.key = m.key
        BY <1>1, <4>3 DEF KeysInv, AnswersOrdered
      <4> QED BY <3>1, <3>4, <4>4
    <3> QED BY <3>3, <3>4
  <2> QED BY <2>1, <2>2
<1> QED BY <1>7, <1>8, <1>9, <1>10, <1>11, <1>12 DEF KeysInv

\* Nothing moves but what the player remembers of its state.
LEMMA NetworkStays ==
  ASSUME KeysInv, toServer' \subseteq toServer, toPlayer' \subseteq toPlayer
  PROVE  QuietNetwork
BY DEF QuietNetwork, KeysInv, SocketsCount, ShakeAEs

LEMMA PlayerStays ==
  ASSUME KeysInv, UNCHANGED <<player, past, socket>>
  PROVE  QuietPlayer
BY DEF QuietPlayer, KeysInv, KeysCount, Installed

LEMMA QuietLoop ==
  ASSUME TypeInv, KeysInv,
         \/ \E action \in {"Connect", "Disconnect", "CloseApplication"} : Click(action)
         \/ TurnVolume
         \/ HandleConnect \/ HandleOther \/ HandleDisconnect
         \/ HandshakeWithoutSocket \/ GoReceive
  PROVE  Quiet
<1>0. player \in Players
  BY DEF TypeInv, PlayerType
<1>1. QuietServer
  BY DEF Click, TurnVolume, HandleConnect, HandleOther, HandleDisconnect,
         HandshakeWithoutSocket, GoReceive, connVars, QuietServer
<1>2. QuietNetwork
  <2>1. CASE HandleDisconnect
    <3>1. \A m \in toServer' : m \in toServer \/ (socket # 0 /\ m = Plain("Disconnect", socket))
      BY <2>1 DEF HandleDisconnect, SendDisconnect, SendToServer
    <3>2. socket # 0 => socket \in 1..player.sockets
      BY KeysTyped DEF KeysInv, KeysCount
    <3> QED BY <2>1, <3>1, <3>2
            DEF HandleDisconnect, SendDisconnect, Plain, QuietNetwork, KeysInv, SocketsCount,
                ShakeAEs
  <2>2. CASE ~HandleDisconnect
    BY <2>2, NetworkStays DEF Click, TurnVolume, HandleConnect, HandleOther,
         HandshakeWithoutSocket, GoReceive, connVars
  <2> QED BY <2>1, <2>2
<1>3. /\ player'.key = player.key /\ player'.keys = player.keys
      /\ player'.sockets = player.sockets
      /\ player'.state = "Connected" => player.state = "Connected"
      /\ socket' \in {0, socket} /\ past' = past
  <2>1. CASE HandleDisconnect
    <3>1. /\ Disconnected(player) \in Players
          /\ Disconnected(player).state \in {player.state, "Disconnected"}
          /\ Disconnected(player).key = player.key
          /\ Disconnected(player).sockets = player.sockets
          /\ Disconnected(player).keys = player.keys
      BY <1>0, DisconnectedFacts
    <3> QED BY <2>1, <3>1 DEF HandleDisconnect, SendDisconnect, Players
  <2>2. CASE HandshakeWithoutSocket
    BY <1>0, <2>2, CallerFacts, FailedFacts DEF HandshakeWithoutSocket, connVars
  <2>3. CASE \/ \E action \in {"Connect", "Disconnect", "CloseApplication"} : Click(action)
             \/ TurnVolume \/ HandleConnect \/ HandleOther \/ GoReceive
    BY <1>0, <2>3 DEF Click, TurnVolume, HandleConnect, HandleOther, GoReceive, connVars,
                      Players
  <2> QED BY <2>1, <2>2, <2>3
<1>4. QuietPlayer
  BY <1>3 DEF QuietPlayer, KeysInv, KeysCount, Installed
<1> QED BY <1>1, <1>2, <1>4 DEF Quiet

LEMMA QuietReception ==
  ASSUME TypeInv, KeysInv,
         \/ Timeout
         \/ \E m \in toPlayer :
              \/ ReceiveOther(m) \/ ReceiveShookSE(m)
              \/ ReceiveOtherVersion(m) \/ WaitThrough(m) \/ Receive(m) \/ Exhausted(m)
  PROVE  Quiet
<1>0. player \in Players /\ past \in Pasts
  BY DEF TypeInv, PlayerType
<1>1. CASE Timeout
  <2>1. QuietServer /\ QuietNetwork
    BY <1>1, NetworkStays DEF Timeout, connVars, QuietServer
  <2>2. QuietPlayer
    BY <1>0, <1>1, FailedFacts
       DEF Timeout, connVars, Players, QuietPlayer, KeysInv, KeysCount, Installed
  <2> QED BY <2>1, <2>2 DEF Quiet
<1>2. ASSUME NEW m \in toPlayer,
             \/ ReceiveOther(m) \/ ReceiveShookSE(m)
             \/ ReceiveOtherVersion(m) \/ WaitThrough(m) \/ Receive(m) \/ Exhausted(m)
      PROVE  Quiet
  <2>1. QuietServer
    BY <1>2 DEF ReceiveOther, ReceiveShookSE, ReceiveOtherVersion, WaitThrough, Receive,
                Exhausted, Take, Arrives, QuietServer
  <2>2. socket \in 1..player.sockets
    <3>1. socket # 0
      BY DEF TypeInv, NetworkType, ConnTypeOK, Addressed, ToPlayer
    <3> QED BY <3>1, KeysTyped DEF KeysInv, KeysCount
  <2>3. QuietNetwork
    <3>1. \A n \in toServer' : n \in toServer \/ n \in {Plain("Ping", socket),
                                                       Plain("Disconnect", socket)}
      BY <1>2 DEF ReceiveOther, ReceiveShookSE, ReceiveOtherVersion, WaitThrough, Receive,
                  Exhausted, Take, SendToServer, SendDisconnect
    <3>2. toPlayer' \subseteq toPlayer
      BY <1>2 DEF ReceiveOther, ReceiveShookSE, ReceiveOtherVersion, WaitThrough, Receive,
                  Exhausted, Take, SendDisconnect
    <3> QED BY <2>2, <3>1, <3>2
            DEF Plain, QuietNetwork, KeysInv, SocketsCount, ShakeAEs
  <2>4. CASE ReceiveShookSE(m)
    <3>1. player.key \in installed /\ player.key # NoKey
      BY <2>4, KeysTyped DEF ReceiveShookSE, Authentic, KeysInv, Installed, NoKey
    <3>2. QuietPlayer
      BY <1>0, <2>4, <3>1 DEF ReceiveShookSE, Take, Players, Pasts, QuietPlayer
    <3> QED BY <2>1, <2>3, <3>2 DEF Quiet
  <2>5. CASE ReceiveOtherVersion(m)
    <3>1. /\ player'.key = player.key /\ player'.keys = player.keys
          /\ player'.sockets = player.sockets
          /\ player'.state = "Connected" => player.state = "Connected"
      BY <1>0, <2>5, DisconnectedFacts, FailedFacts DEF ReceiveOtherVersion
    <3>2. QuietPlayer
      BY <2>5, <3>1 DEF ReceiveOtherVersion, SendDisconnect, QuietPlayer, KeysInv, KeysCount,
                        Installed
    <3> QED BY <2>1, <2>3, <3>2 DEF Quiet
  <2>6. CASE ReceiveOther(m) \/ WaitThrough(m) \/ Receive(m) \/ Exhausted(m)
    <3>1. /\ player'.key = player.key /\ player'.keys = player.keys
          /\ player'.sockets = player.sockets
          /\ player'.state = "Connected" => player.state = "Connected"
          /\ UNCHANGED <<socket, past>>
      BY <1>0, <2>6, FailedFacts
         DEF ReceiveOther, WaitThrough, Receive, Exhausted, Take, Players
    <3>2. QuietPlayer
      BY <3>1 DEF QuietPlayer, KeysInv, KeysCount, Installed
    <3> QED BY <2>1, <2>3, <3>2 DEF Quiet
  <2> QED BY <1>2, <2>4, <2>5, <2>6
<1> QED BY <1>1, <1>2

\* The server refuses, hears from or forgets a player; the network loses and copies.
LEMMA QuietOthers ==
  ASSUME TypeInv, KeysInv, UNCHANGED <<player, past, socket>>,
         \/ \E m \in toServer :
              /\ toServer' = toServer \ {m}
              /\ RefuseClient(m) \/ ReceivedPing(m) \/ RemoveClient(m)
         \/ Duplicate \/ Lose \/ ServerRestart \/ Filter \/ SendFrame
         \/ \E src \in 1..MaxSockets : Overdue(src)
  PROVE  Quiet
<1>1. QuietPlayer
  BY PlayerStays
<1>2. ASSUME NEW m \in toServer, toServer' = toServer \ {m},
             RefuseClient(m) \/ ReceivedPing(m) \/ RemoveClient(m)
      PROVE  QuietNetwork /\ QuietServer
  <2>1. QuietNetwork
    BY <1>2, NetworkStays DEF RefuseClient, ReceivedPing, RemoveClient
  <2>2. CASE RefuseClient(m) \/ RemoveClient(m)
    BY <2>1, <2>2 DEF RefuseClient, RemoveClient, Restrict, QuietServer
  <2>3. CASE ReceivedPing(m)
    BY <2>1, <2>3 DEF ReceivedPing, QuietServer, TypeInv, NetworkType, ConnTypeOK, AppClient
  <2> QED BY <1>2, <2>2, <2>3
<1>3. CASE Duplicate
  <2>1. QuietServer
    BY <1>3 DEF Duplicate, QuietServer
  <2>2. ASSUME NEW m \in toServer, toServer' = toServer \union {[m EXCEPT !.copy = 2]},
               UNCHANGED toPlayer
        PROVE  QuietNetwork
    <3>1. /\ [m EXCEPT !.copy = 2].src = m.src /\ [m EXCEPT !.copy = 2].type = m.type
          /\ m.type = "ShakeAE" => [m EXCEPT !.copy = 2].pub = m.pub
                                   /\ [m EXCEPT !.copy = 2].key = m.key
      BY DEF TypeInv, NetworkType, ConnTypeOK, ToServer
    <3> QED BY <2>2, <3>1 DEF QuietNetwork, KeysInv, SocketsCount, ShakeAEs
  <2>3. ASSUME NEW m \in toPlayer, toPlayer' = toPlayer \union {[m EXCEPT !.copy = 2]},
               UNCHANGED toServer
        PROVE  QuietNetwork
    <3>1. /\ [m EXCEPT !.copy = 2].type = m.type
          /\ [m EXCEPT !.copy = 2].key = m.key
      BY DEF TypeInv, NetworkType, ConnTypeOK, ToPlayer
    <3> QED BY <2>3, <3>1 DEF QuietNetwork, KeysInv, SocketsCount, ShakeAEs
  <2> QED BY <1>1, <1>3, <2>1, <2>2, <2>3 DEF Duplicate, SendToServer, Quiet
<1>4. CASE Lose \/ ServerRestart \/ Filter
  <2>1. QuietNetwork
    BY <1>4, NetworkStays DEF Lose, ServerRestart, Filter, FilterClients
  <2>2. QuietServer
    BY <1>4 DEF Lose, ServerRestart, Filter, FilterClients, Restrict, QuietServer
  <2> QED BY <1>1, <2>1, <2>2 DEF Quiet
<1>5. CASE SendFrame
  <2>1. QuietServer
    BY <1>5 DEF SendFrame, Broadcast, QuietServer
  <2>2. /\ \A m \in toPlayer' : m \in toPlayer \/ m.type = "NAL"
        /\ toServer' = toServer
    BY <1>5 DEF SendFrame, Broadcast, SendToPlayer
  <2>3. QuietNetwork
    BY <2>2 DEF QuietNetwork, KeysInv, SocketsCount, ShakeAEs
  <2> QED BY <1>1, <2>1, <2>3 DEF Quiet
<1>6. ASSUME NEW src \in 1..MaxSockets, Overdue(src)
      PROVE  Quiet
  <2>1. QuietNetwork
    BY <1>6, NetworkStays DEF Overdue, PingOverdue
  <2>2. QuietServer
    BY <1>6 DEF Overdue, PingOverdue, QuietServer, TypeInv, NetworkType, ConnTypeOK, AppClient
  <2> QED BY <1>1, <2>1, <2>2 DEF Quiet
<1> QED BY <1>1, <1>2, <1>3, <1>4, <1>5, <1>6 DEF Quiet

-------------------------------------------------------------------------------
(* Keys: the theorems.                                                         *)

LEMMA KeysStep ==
  ASSUME TypeInv, KeysInv, [Next]_vars
  PROVE  KeysInv'
<1>1. CASE \/ \E action \in {"Connect", "Disconnect", "CloseApplication"} : Click(action)
           \/ TurnVolume
           \/ HandleConnect \/ HandleOther \/ HandleDisconnect
           \/ HandshakeWithoutSocket \/ GoReceive
  BY <1>1, QuietLoop, QuietStep
<1>2. CASE StartHandshake
  BY <1>2, StartHandshakeKeys
<1>3. CASE \E m \in toPlayer : ReceiveShookUE(m)
  BY <1>3, ReceiveShookUEKeys
<1>4. CASE \/ TimeoutInSilence \/ TimeoutEarly \/ GiveUp \/ GiveUpEarly
           \/ \E m \in toPlayer :
                \/ ReceiveOther(m) \/ WaitThrough(m) \/ Receive(m)
                \/ ReceiveShookSE(m) \/ ReceiveOtherVersion(m)
  <2>1. \/ Timeout
        \/ \E m \in toPlayer :
             \/ ReceiveOther(m) \/ ReceiveShookSE(m)
             \/ ReceiveOtherVersion(m) \/ WaitThrough(m) \/ Receive(m) \/ Exhausted(m)
    BY <1>4 DEF TimeoutInSilence, TimeoutEarly, GiveUp, GiveUpEarly
  <2> QED BY <2>1, QuietReception, QuietStep
<1>5. CASE UserNotFound \/ \E type \in Requests : EventsTask(type)
  <2> PICK m \in toServer :
        /\ toServer' = toServer \ {m}
        /\ \/ InitializeClient(m) \/ ConnectClient(m) \/ RefuseClient(m)
           \/ ReceivedPing(m) \/ RemoveClient(m)
    BY <1>5 DEF UserNotFound, EventsTask
  <2>1. UNCHANGED <<socket, player, past>>
    BY <1>5 DEF UserNotFound, EventsTask
  <2>2. CASE InitializeClient(m)
    BY <2>1, <2>2, InitializeClientKeys
  <2>3. CASE ConnectClient(m)
    BY <2>1, <2>3, ConnectClientKeys
  <2>4. CASE RefuseClient(m) \/ ReceivedPing(m) \/ RemoveClient(m)
    BY <2>1, <2>4, QuietOthers, QuietStep
  <2> QED BY <2>2, <2>3, <2>4
<1>6. CASE \/ Duplicate \/ Lose \/ ServerRestart \/ Filter \/ SendFrame
           \/ \E src \in 1..MaxSockets : Overdue(src)
  <2>1. UNCHANGED <<player, past, socket>>
    BY <1>6 DEF Duplicate, Lose, ServerRestart, Filter, FilterClients, SendFrame, Broadcast,
                Overdue, PingOverdue
  <2> QED BY <1>6, <2>1, QuietOthers, QuietStep
<1>7. CASE UNCHANGED vars
  <2>1. QuietPlayer /\ QuietNetwork /\ QuietServer
    BY <1>7, PlayerStays, NetworkStays DEF vars, connVars, QuietServer
  <2> QED BY <2>1, QuietStep DEF Quiet
<1> QED
  BY <1>1, <1>2, <1>3, <1>4, <1>5, <1>6, <1>7 DEF Next, PlayerStep, Answered

LEMMA KeysInit ==
  ASSUME Init
  PROVE  KeysInv
<1>1. /\ player.key = 0 /\ player.keys = 0 /\ player.sockets = 0
      /\ player.state = "Disconnected"
  BY DEF Init, NoKey
<1> QED BY <1>1 DEF Init, ConnInit, KeysInv, KeysCount, Installed, PairsCount, SocketsCount,
                    AnswersOrdered, EntriesOrdered, LastKeyWins, ShakeAEs, Connected, NoKey

LEMMA KeysInvHolds == Spec => [](TypeInv /\ KeysInv)
BY TypeInit, TypeStep, KeysInit, KeysStep, PTL DEF Spec

\* Whatever is lost, copied, late or started anew: a connected player whose key ShookSE
\* confirmed, and the server that has it as connected, hold the same key, as long as
\* no ShookUE was answered twice.
THEOREM KeysAgree == Spec => []KeyAgreement
<1>1. TypeInv /\ KeysInv => KeyAgreement
  BY DEF IsConnected, KeysInv, KeysCount, Installed, LastKeyWins, KeyAgreement
<1> QED BY <1>1, KeysInvHolds, PTL

\* The player takes the tunnel for established only with a key that the server
\* installed for it.
THEOREM EstablishedOnlyByServer == Spec => EstablishedByServer
<1>1. ASSUME TypeInv, KeysInv, [Next]_vars, past'.shaken # past.shaken
      PROVE  past'.shaken \in installed
  <2>1. PICK m \in toPlayer : ReceiveShookSE(m)
    <3> SUFFICES ASSUME \A m \in toPlayer : ~ReceiveShookSE(m)
                 PROVE  past'.shaken = past.shaken
      BY <1>1
    <3>1. CASE \E m \in toPlayer : ReceiveShookUE(m)
      BY <3>1 DEF ReceiveShookUE, TypeInv, PlayerType, Pasts
    <3>2. CASE \E m \in toPlayer : \/ ReceiveOther(m) \/ WaitThrough(m) \/ Receive(m)
                                   \/ ReceiveOtherVersion(m)
      BY <3>2 DEF ReceiveOther, WaitThrough, Receive, ReceiveOtherVersion
    <3>3. CASE \/ \E action \in {"Connect", "Disconnect", "CloseApplication"} : Click(action)
               \/ TurnVolume
               \/ HandleConnect \/ HandleOther \/ HandleDisconnect
               \/ StartHandshake \/ HandshakeWithoutSocket \/ GoReceive
      BY <3>3 DEF Click, TurnVolume, HandleConnect, HandleOther, HandleDisconnect,
                  StartHandshake, HandshakeWithoutSocket, GoReceive
    <3>4. CASE TimeoutInSilence \/ TimeoutEarly \/ GiveUp \/ GiveUpEarly
      BY <3>4 DEF GiveUp, GiveUpEarly, Exhausted, TimeoutInSilence, TimeoutEarly, Timeout
    <3>5. CASE \/ UserNotFound \/ \E type \in Requests : EventsTask(type)
               \/ Duplicate \/ Lose \/ ServerRestart \/ Filter \/ SendFrame
               \/ \E src \in 1..MaxSockets : Overdue(src)
      BY <3>5 DEF EventsTask, UserNotFound, Duplicate, Lose, ServerRestart, Overdue, Filter,
                  SendFrame
    <3>6. CASE UNCHANGED vars
      BY <3>6 DEF vars
    <3> QED BY <1>1, <3>1, <3>2, <3>3, <3>4, <3>5, <3>6 DEF Next, PlayerStep, Answered
  <2>2. past'.shaken = player.key /\ Authentic(m)
    BY <2>1 DEF ReceiveShookSE, TypeInv, PlayerType, Pasts
  <2> QED BY <1>1, <2>2 DEF Authentic, KeysInv, Installed
<1>2. TypeInv /\ KeysInv /\ [Next]_vars
      => [past'.shaken # past.shaken => past'.shaken \in installed]_vars
  BY <1>1
<1> QED BY <1>2, KeysInvHolds, PTL DEF Spec, EstablishedByServer
===============================================================================
