-------------------------------- MODULE Session --------------------------------
(***************************************************************************)
(* The player's connection thread (mrial_player/src/main.rs) and its Client   *)
(* (client/mod.rs) with AppConnection over a network that loses, duplicates   *)
(* and reorders: the handshake, its timeouts and retries, reconnection after  *)
(* silence, and disconnection by the user.                                    *)
(***************************************************************************)
EXTENDS AppConnection, Sequences

CONSTANTS
  MaxKeys,      \* bound: symmetric keys the player generates
  MaxClicks,    \* bound: clicks of the user
  MaxTrouble    \* bound: losses, duplicates, refusals, early ends of a wait, restarts

ASSUME SessionAssumption ==
  /\ MaxSockets \in Nat /\ MaxPairs \in Nat /\ MaxNALs \in Nat /\ MaxKeys \in Nat
  /\ MaxClicks \in Nat /\ MaxTrouble \in Nat

VARIABLES
  player,   \* the connection thread, its Client and conn_channel
  past,     \* history of the player's handshakes
  clicks,   \* the user's clicks so far
  trouble   \* what went wrong so far

vars == <<connVars, player, past, clicks, trouble>>

\* state and key of the Client, whose socket is `socket'; at: what the thread waits
\* for; caller: the action whose handshake is running; sockets and keys: how many
\* were opened and generated; same: the server has the player's version.
Init ==
  /\ ConnInit
  /\ \E same \in BOOLEAN :
       player = [state |-> "Disconnected", key |-> NoKey, queue |-> <<>>,
                 at |-> "Loop", caller |-> "Handshake",
                 sockets |-> 0, keys |-> 0, same |-> same]
  \* answered: key pairs used in a ShakeAE, and twice: some were used again;
  \* shaken: the key of the last valid ShookSE.
  /\ past = [answered |-> {}, twice |-> FALSE, shaken |-> NoKey]
  /\ clicks = 0
  /\ trouble = 0

IsConnected == socket # 0 /\ player.state = "Connected"

Trouble == trouble < MaxTrouble /\ trouble' = trouble + 1

SendToServer(m) == toServer' = toServer \union {m}
Plain(type, src) == [type |-> type, src |-> src, copy |-> 1]

-------------------------------------------------------------------------------
(* The user: Connect and Disconnect are buttons of different pages; the window  *)
(* can be closed on each.                                                      *)

Click(action) ==
  /\ clicks < MaxClicks
  /\ action # "CloseApplication" => (action = "Connect" <=> clicks % 2 = 0)
  /\ clicks' = IF action = "CloseApplication" THEN MaxClicks ELSE clicks + 1
  /\ player' = [player EXCEPT !.queue = Append(@, action)]
  /\ UNCHANGED <<connVars, past, trouble>>

\* The volume slider is on the page with the Disconnect button.
TurnVolume ==
  /\ clicks % 2 = 1 /\ clicks < MaxClicks
  /\ \A i \in DOMAIN player.queue : player.queue[i] # "Volume"
  /\ player' = [player EXCEPT !.queue = Append(@, "Volume")]
  /\ UNCHANGED <<connVars, past, clicks, trouble>>

-------------------------------------------------------------------------------
(* The loop of the connection thread.                                          *)

NextIs(actions) ==
  player.at = "Loop" /\ player.queue # <<>> /\ Head(player.queue) \in actions

HandleConnect ==
  /\ NextIs({"Connect"})
  /\ player' = [player EXCEPT !.state = "Connecting",
                              !.queue = Append(Tail(@), "Handshake")]
  /\ UNCHANGED <<connVars, past, clicks, trouble>>

\* Whatever the state, the thread goes on to receive.
HandleOther ==
  /\ NextIs({"Volume", "UpdateState"})
  /\ player' = [player EXCEPT !.queue = Tail(@), !.at = "Recv"]
  /\ UNCHANGED <<connVars, past, clicks, trouble>>

\* Client::disconnect returns at once if there is no socket.
Disconnected(p) ==
  IF socket = 0 THEN p ELSE [p EXCEPT !.state = "Disconnected"]

\* Mutant of SendDisconnect: without the early return.
SendDisconnectAnyway ==
  SendToServer(Plain("Disconnect", socket)) /\ socket' = 0 /\ toPlayer' = {}

SendDisconnect ==
  /\ IF socket = 0 THEN UNCHANGED toServer
     ELSE SendToServer(Plain("Disconnect", socket))
  /\ socket' = 0
  /\ toPlayer' = {}

HandleDisconnect ==
  /\ NextIs({"Disconnect", "CloseApplication"})
  /\ player' = [Disconnected(player) EXCEPT
                  !.queue = Tail(@),
                  !.at = IF Head(player.queue) = "Disconnect" THEN "Loop" ELSE "Closed"]
  /\ SendDisconnect
  /\ UNCHANGED <<table, pairs, installed, past, clicks, trouble>>

\* Mutant of Failed: one attempt, and no other.
FailedForGood(p) == [p EXCEPT !.at = IF p.caller = "Reconnect" THEN "Recv" ELSE "Loop"]

\* After a handshake in vain: Reconnect goes on to receive, and so does Handshake
\* if the client still counts as connected; while connecting it tries again.
Failed(p) ==
  IF p.caller = "Reconnect" \/ p.state = "Connected" THEN [p EXCEPT !.at = "Recv"]
  ELSE IF p.state = "Connecting"
       THEN [p EXCEPT !.at = "Loop", !.queue = Append(@, "Handshake")]
  ELSE [p EXCEPT !.at = "Loop"]

Handshake == {"Handshake", "Reconnect"}

\* Client::connect opens a socket only for a client that is connecting.
CanShake == socket # 0 \/ player.state = "Connecting"

Caller == [player EXCEPT !.queue = Tail(@), !.caller = Head(player.queue)]

StartHandshake ==
  /\ NextIs(Handshake)
  /\ CanShake
  /\ socket = 0 => player.sockets < MaxSockets
  /\ socket' = IF socket = 0 THEN player.sockets + 1 ELSE socket
  /\ player' = [Caller EXCEPT !.sockets = socket', !.at = "ShookUE"]
  /\ SendToServer(Plain("ShakeUE", socket'))
  /\ UNCHANGED <<table, pairs, installed, toPlayer, past, clicks, trouble>>

\* SocketNotInitialized.
HandshakeWithoutSocket ==
  /\ NextIs(Handshake)
  /\ ~CanShake
  /\ player' = Failed(Caller)
  /\ UNCHANGED <<connVars, past, clicks, trouble>>

\* Nothing to handle: a connected client receives.
GoReceive ==
  /\ player.at = "Loop" /\ player.queue = <<>> /\ IsConnected
  /\ player' = [player EXCEPT !.at = "Recv"]
  /\ UNCHANGED <<connVars, past, clicks, trouble>>

Arrives(m) ==
  /\ m \in toPlayer
  /\ UNCHANGED <<table, pairs, installed, clicks, trouble>>

Take(m) ==
  /\ Arrives(m)
  /\ toPlayer' = toPlayer \ {m}
  /\ UNCHANGED socket

\* The first packet must be ShookUE: a fresh symmetric key goes back in ShakeAE.
ReceiveShookUE(m) ==
  /\ player.at = "ShookUE" /\ m.type = "ShookUE"
  /\ player.keys < MaxKeys
  /\ Take(m)
  /\ LET key == player.keys + 1
     IN  /\ player' = [player EXCEPT !.keys = key, !.key = key, !.at = "ShookSE"]
         /\ SendToServer([type |-> "ShakeAE", src |-> socket, pub |-> m.key,
                          key |-> key, copy |-> 1])
         /\ past' = [past EXCEPT !.twice = @ \/ m.key \in past.answered,
                                 !.answered = @ \union {m.key}]

\* Any other packet ends the attempt.
ReceiveOther(m) ==
  /\ player.at = "ShookUE" /\ m.type # "ShookUE"
  /\ Take(m)
  /\ player' = Failed(player)
  /\ UNCHANGED <<toServer, past>>

\* Mutant of Authentic: any ShookSE ends the handshake.
AnyShookSE(m) == m.type = "ShookSE"

\* The payload decrypts with the key of this attempt.
Authentic(m) == m.type = "ShookSE" /\ m.key = player.key

\* The tunnel is up, UpdateState is queued, and both callers go on to receive.
ReceiveShookSE(m) ==
  /\ player.at = "ShookSE" /\ Authentic(m) /\ player.same
  /\ Take(m)
  /\ player' = [player EXCEPT !.state = "Connected", !.at = "Recv",
                              !.queue = Append(@, "UpdateState")]
  /\ past' = [past EXCEPT !.shaken = player.key]
  /\ UNCHANGED toServer

\* VersionMismatch.
ReceiveOtherVersion(m) ==
  /\ player.at = "ShookSE" /\ Authentic(m) /\ ~player.same
  /\ Arrives(m)
  /\ player' = Failed(Disconnected(player))
  /\ SendDisconnect
  /\ UNCHANGED past

\* Anything else is waited through.
WaitThrough(m) ==
  /\ player.at = "ShookSE" /\ ~Authentic(m)
  /\ Take(m)
  /\ UNCHANGED <<toServer, player, past>>

\* The last of the 100 packets it waits for.
Exhausted(m) ==
  /\ player.at = "ShookSE" /\ ~Authentic(m) /\ m \in toPlayer
  /\ toPlayer' = toPlayer \ {m}
  /\ player' = Failed(player)
  /\ UNCHANGED <<table, pairs, installed, toServer, socket, past, clicks>>

\* ShookSE is on its way, or ShakeAE is.
AnswerAhead ==
  \/ \E m \in toPlayer : Authentic(m)
  \/ \E m \in toServer : m.type = "ShakeAE" /\ m.src = socket

GiveUp == ~AnswerAhead /\ (\E m \in toPlayer : Exhausted(m)) /\ UNCHANGED trouble
GiveUpEarly == AnswerAhead /\ (\E m \in toPlayer : Exhausted(m)) /\ Trouble

\* A packet in the receive loop; once in a while a NAL is answered with a ping.
Receive(m) ==
  /\ player.at = "Recv"
  /\ Take(m)
  /\ player' = [player EXCEPT !.at = "Loop"]
  /\ UNCHANGED past
  /\ \/ m.type = "NAL" /\ SendToServer(Plain("Ping", socket))
     \/ UNCHANGED toServer

\* Nothing is on its way, or about to be sent, that could end the wait.
Silence ==
  /\ toPlayer = {}
  /\ \A m \in toServer : m.src # socket
  /\ player.at = "Recv" => Connected = {} \/ socket \notin DOMAIN table

\* The read timeout of the socket, or there is no socket to read from.
Timeout ==
  /\ player.at \in {"ShookUE", "ShookSE", "Recv"}
  /\ player' = IF player.at # "Recv" THEN Failed(player)
               ELSE [player EXCEPT !.state = "Disconnected", !.at = "Loop",
                                   !.queue = IF socket = 0 THEN @
                                             ELSE Append(@, "Reconnect")]
  /\ UNCHANGED <<connVars, past, clicks>>

TimeoutInSilence == Timeout /\ Silence /\ UNCHANGED trouble
TimeoutEarly == Timeout /\ ~Silence /\ Trouble

Answered == \E m \in toPlayer : ReceiveShookSE(m) \/ ReceiveOtherVersion(m)

PlayerStep ==
  \/ HandleConnect \/ HandleOther \/ HandleDisconnect \/ StartHandshake \/ HandshakeWithoutSocket
  \/ GoReceive
  \/ \E m \in toPlayer :
       ReceiveShookUE(m) \/ ReceiveOther(m) \/ WaitThrough(m) \/ Receive(m)
  \/ Answered
  \/ GiveUp
  \/ TimeoutInSilence

-------------------------------------------------------------------------------
(* The server and the network.                                                 *)

EventsTask(type) ==
  /\ \E m \in toServer :
       /\ m.type = type
       /\ \/ InitializeClient(m) \/ ConnectClient(m) \/ ReceivedPing(m) \/ RemoveClient(m)
          \/ RefuseClient(m) /\ ~Decrypts(m)
       /\ toServer' = toServer \ {m}
  /\ UNCHANGED <<socket, player, past, clicks, trouble>>

Requests == {"ShakeUE", "ShakeAE", "Ping", "Disconnect"}

\* The users file cannot be read, or does not have the user yet.
UserNotFound ==
  /\ \E m \in toServer : RefuseClient(m) /\ Decrypts(m) /\ toServer' = toServer \ {m}
  /\ Trouble
  /\ UNCHANGED <<socket, player, past, clicks>>

Duplicate ==
  /\ \/ \E m \in toServer : SendToServer([m EXCEPT !.copy = 2]) /\ UNCHANGED toPlayer
     \/ /\ \E m \in toPlayer : toPlayer' = toPlayer \union {[m EXCEPT !.copy = 2]}
        /\ UNCHANGED toServer
  /\ Trouble
  /\ UNCHANGED <<table, pairs, installed, socket, player, past, clicks>>

Lose ==
  /\ \/ \E m \in toServer : toServer' = toServer \ {m} /\ UNCHANGED toPlayer
     \/ \E m \in toPlayer : toPlayer' = toPlayer \ {m} /\ UNCHANGED toServer
  /\ Trouble
  /\ UNCHANGED <<table, pairs, installed, socket, player, past, clicks>>

\* The server process is started anew.
ServerRestart ==
  /\ table' = <<>>
  /\ Trouble
  /\ UNCHANGED <<pairs, installed, toServer, toPlayer, socket, player, past, clicks>>

\* No ping for SERVER_PING_TOLERANCE: the player is gone, or its pings are late.
Overdue(src) ==
  /\ PingOverdue(src)
  /\ IF src = socket THEN Trouble ELSE UNCHANGED trouble
  /\ UNCHANGED <<player, past, clicks>>

Filter == FilterClients /\ UNCHANGED <<player, past, clicks, trouble>>

SendFrame ==
  /\ \E first \in Connected : Broadcast(first)
  /\ UNCHANGED <<player, past, clicks, trouble>>

Next ==
  \/ \E action \in {"Connect", "Disconnect", "CloseApplication"} : Click(action)
  \/ TurnVolume
  \/ PlayerStep
  \/ TimeoutEarly
  \/ GiveUpEarly
  \/ \E type \in Requests : EventsTask(type)
  \/ UserNotFound
  \/ Duplicate
  \/ Lose
  \/ ServerRestart
  \/ \E src \in 1..MaxSockets : Overdue(src)
  \/ Filter
  \/ SendFrame

Spec == Init /\ [][Next]_vars

\* Threads and tasks run on, datagrams on their way arrive unless they are lost,
\* the wait for ShookSE is counted, and the ping of a client that is gone grows old.
Fairness ==
  /\ WF_vars(PlayerStep) /\ WF_vars(Answered) /\ SF_vars(GiveUp)
  /\ \A type \in Requests : WF_vars(EventsTask(type))
  /\ WF_vars(Filter) /\ WF_vars(SendFrame)
  /\ \A src \in 1..MaxSockets :
       WF_vars(Overdue(src) /\ src # socket)

FairSpec == Spec /\ Fairness

-------------------------------------------------------------------------------
(* Properties.                                                                 *)

\* The types of the player's, the server's and the network's state.
TypeOK ==
  /\ ConnTypeOK
  /\ player \in [state : {"Disconnected", "Connecting", "Connected"},
                 key : 0..MaxKeys,
                 queue : Seq({"Connect", "Disconnect", "CloseApplication", "Volume",
                              "UpdateState"} \union Handshake),
                 at : {"Loop", "ShookUE", "ShookSE", "Recv", "Closed"},
                 caller : Handshake,
                 sockets : 0..MaxSockets, keys : 0..MaxKeys, same : BOOLEAN]
  /\ past \in [answered : SUBSET (1..MaxPairs), twice : BOOLEAN, shaken : 0..MaxKeys]
  /\ clicks \in 0..MaxClicks
  /\ trouble \in 0..MaxTrouble

\* The player takes the tunnel for established only with a key that the server
\* installed for it, whichever answers were late, lost or repeated.
EstablishedByServer ==
  [][past'.shaken # past.shaken => past'.shaken \in installed]_vars

\* The player and the server that has it as connected hold the same key, once
\* ShookSE confirmed the player's and as long as no ShookUE was answered twice.
KeyAgreement ==
  /\ IsConnected /\ player.key = past.shaken /\ ~past.twice
  /\ socket \in Connected
  => table[socket].key = player.key

\* The last click was Connect, and the versions match.
Wanted == clicks % 2 = 1 /\ player.same /\ player.at # "Closed"

\* Whichever connected client lends its key, the player can decrypt the frames.
Sees ==
  /\ IsConnected /\ socket \in Connected
  /\ \A src \in Connected : table[src].key = player.key

\* The player is connected or connecting, or an attempt is queued or will be when
\* nothing comes any more.
Trying ==
  \/ player.state # "Disconnected"
  \/ player.at \in {"ShookUE", "ShookSE"}
  \/ player.at = "Recv" /\ socket # 0
  \/ \E i \in DOMAIN player.queue : player.queue[i] \in {"Connect"} \union Handshake

\* A player that lost the connection keeps trying ("Lost Connection,
\* Reconnecting...") as long as it has the socket, that is until Disconnect.
Reconnects == socket # 0 => Trying

\* The bounds on handshakes are not used up.
WithinBounds == pairs < MaxPairs /\ player.keys < MaxKeys

\* A user who wants to be connected comes to see the picture, unless the player
\* gives up trying: attempts are made until one succeeds, and a stale entry of the client
\* table does not make the server use the wrong key for good.
PictureComes == <>[](Wanted /\ Trying /\ WithinBounds) => <>[]Sees

\* Once the player has gone, the server forgets it, even if Disconnect was lost.
ServerForgets == <>[](socket = 0) => <>[](table = <<>>)
===============================================================================
