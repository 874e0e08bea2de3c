-------------------------------- MODULE SendLoop --------------------------------
(***************************************************************************)
(* The input threads of the player (mrial_player/src/input/mod.rs, send_loop  *)
(* and close_send_loop), started and stopped by the connection thread         *)
(* (main.rs). A loop has a clone of the client, with a socket of its own for   *)
(* the same connection; all loops share one channel and one flag.             *)
(***************************************************************************)
EXTENDS Integers, Sequences, FiniteSets

CONSTANTS
  MaxUserActions,  \* bound: times the user connects, disconnects or turns the volume
  MaxLosses,       \* bound: reads of a socket that time out
  MaxAttempts,     \* bound: handshakes
  MaxInputs        \* bound: inputs of the user

ASSUME SendLoopAssumption ==
  {MaxUserActions, MaxLosses, MaxAttempts, MaxInputs} \subseteq Nat

VARIABLES
  actions,   \* conn_channel: ConnectionActions for the connection thread
  state,     \* Client.state of the connection thread's client
  socket,    \* its socket: the number of the connection, or NoSocket
  at,        \* the connection thread: in its loop, in recv_from or in close_send_loop
  connected, \* Input.connected, the flag all threads share
  channel,   \* Input.channel: inputs, and EOL for InternalEOL
  checked,   \* the UI thread has seen the flag set and is about to queue an input
  loops,     \* per send_loop started: its socket and what it does next
  entries,   \* connections the server has an entry for
  bounds,    \* how often the user, the network and so on may still act
  leaks,     \* history: how often a loop was started while the flag was set
  unserved   \* history: a Reconnect succeeded without an input thread for the connection

mainVars == <<actions, state, socket, at>>
inputVars == <<connected, channel, checked, loops>>
vars == <<mainVars, inputVars, entries, bounds, leaks, unserved>>
history == <<leaks, unserved>>

NoSocket == 0
Input == "Input"
EOL == "EOL"

Init ==
  /\ actions = <<>> /\ state = "Disconnected" /\ socket = NoSocket /\ at = "Loop"
  /\ connected = FALSE /\ channel = <<>> /\ checked = FALSE /\ loops = <<>>
  /\ entries = {}
  /\ bounds = [user |-> MaxUserActions, losses |-> MaxLosses,
               attempts |-> MaxAttempts, inputs |-> MaxInputs]
  /\ leaks = 0 /\ unserved = FALSE

Spends(bound) == bounds[bound] > 0 /\ bounds' = [bounds EXCEPT ![bound] = @ - 1]

\* client.connected()
Connected == state = "Connected" /\ socket # NoSocket

Outcomes == {"succeeds", "fails", "mismatch"}

\* Connections are numbered by the attempts that could open their sockets.
NextSocket == 1 + MaxAttempts - bounds.attempts

Alive == {k \in DOMAIN loops : loops[k].at # "Ended"}

\* The input thread runs, and on this connection.
Serves(sock) == connected /\ \A k \in Alive : loops[k].socket = sock

-------------------------------------------------------------------------------
(* The UI thread.                                                              *)

\* The user connects on one page and disconnects on the other, which has the volume, too.
UserAction ==
  /\ Spends("user")
  /\ \E action \in {"Connect", "Disconnect", "Volume"} : actions' = Append(actions, action)
  /\ UNCHANGED <<state, socket, at, inputVars, entries, history>>

\* A callback returns early unless the flag is set.
CheckFlag ==
  /\ connected /\ ~checked
  /\ Spends("inputs")
  /\ checked' = TRUE
  /\ UNCHANGED <<mainVars, connected, channel, loops, entries, history>>

QueueInput ==
  /\ checked
  /\ checked' = FALSE
  /\ channel' = Append(channel, Input)
  /\ UNCHANGED <<mainVars, connected, loops, entries, bounds, history>>

-------------------------------------------------------------------------------
(* The connection thread: attempts and what follows them.                      *)

Takes(action) == at = "Loop" /\ actions # <<>> /\ Head(actions) = action

HandleConnect ==
  /\ Takes("Connect")
  /\ state' = "Connecting"
  /\ actions' = Append(Tail(actions), "Handshake")
  /\ UNCHANGED <<socket, at, inputVars, entries, bounds, history>>

\* Neither has anything to do with the connection, but the thread goes on to receive,
\* connected or not.
HandleOther ==
  /\ Takes("Volume") \/ Takes("UpdateState")
  /\ actions' = Tail(actions)
  /\ at' = "Recv"
  /\ UNCHANGED <<state, socket, inputVars, entries, bounds, history>>

\* attempt_connection opens a socket if there is none.
OpensSocket == socket = NoSocket /\ state = "Connecting"
AttemptSocket == IF OpensSocket THEN NextSocket ELSE socket

\* The server may have answered an attempt that fails, or be of another version: then
\* the player disconnects.  A socket that cannot be bound or connected is not kept.
Attempt(outcome) ==
  /\ Spends("attempts")
  /\ \/ /\ outcome = "succeeds" /\ AttemptSocket # NoSocket
        /\ socket' = AttemptSocket /\ state' = "Connected"
        /\ entries' = entries \union {AttemptSocket}
     \/ /\ outcome = "fails"
        /\ socket' \in {socket, AttemptSocket} /\ UNCHANGED state
        /\ entries' \in {entries, entries \union ({socket'} \ {NoSocket})}
     \/ /\ outcome = "mismatch" /\ AttemptSocket # NoSocket
        /\ socket' = NoSocket /\ state' = "Disconnected"
        /\ entries' = entries \ {AttemptSocket}

\* What is left to do after the action: the first ShookSE that fits queues UpdateState.
After(outcome) ==
  IF outcome = "succeeds" THEN Append(Tail(actions), "UpdateState") ELSE Tail(actions)

\* Mutant of StartLoop: every handshake starts a loop that finds the flag as it was.
StartLoopSilently ==
  /\ UNCHANGED connected
  /\ loops' = Append(loops, [socket |-> socket', at |-> "Top"])
  /\ leaks' = IF connected THEN leaks + 1 ELSE leaks

\* send_loop
StartLoop ==
  /\ connected' = TRUE
  /\ loops' = Append(loops, [socket |-> socket', at |-> "Top"])
  /\ leaks' = IF connected THEN leaks + 1 ELSE leaks

\* The state after the attempt decides: a second Handshake finds the client connected
\* and starts a loop even if it fails; and one that fails after a read did is dropped.
HandleHandshake ==
  /\ Takes("Handshake")
  /\ \E outcome \in Outcomes :
       /\ Attempt(outcome)
       /\ \/ /\ state' = "Connected"
             /\ StartLoop
             /\ actions' = After(outcome)
             /\ at' = "Recv"
          \/ /\ state' = "Connecting"
             /\ actions' = Append(Tail(actions), "Handshake")
             /\ UNCHANGED <<at, connected, loops, leaks>>
          \/ /\ state' = "Disconnected"
             /\ actions' = Tail(actions)
             /\ UNCHANGED <<at, connected, loops, leaks>>
  /\ UNCHANGED <<channel, checked, unserved>>

\* The loops are left as they are, whether one runs or not, and the thread goes on to
\* receive, whatever came of the attempt.
HandleReconnect ==
  /\ Takes("Reconnect")
  /\ \E outcome \in Outcomes : Attempt(outcome) /\ actions' = After(outcome)
  /\ at' = "Recv"
  /\ unserved' = (unserved \/ (state' = "Connected" /\ ~Serves(socket')))
  /\ UNCHANGED <<inputVars, leaks>>

\* try_recv_realtime finds no action, or not right now.
BeginReceive ==
  /\ at = "Loop" /\ Connected
  /\ at' = "Recv"
  /\ UNCHANGED <<actions, state, socket, inputVars, entries, bounds, history>>

\* A packet of the server's, old or new.
ReceivePacket ==
  /\ at = "Recv" /\ socket # NoSocket
  /\ at' = "Loop"
  /\ UNCHANGED <<actions, state, socket, inputVars, entries, bounds, history>>

\* recv_from times out, or has no socket: whatever the state was.
ReceiveFails ==
  /\ at = "Recv"
  /\ at' = "Loop"
  /\ state' = "Disconnected"
  /\ IF socket # NoSocket THEN Spends("losses") /\ actions' = Append(actions, "Reconnect")
     ELSE UNCHANGED <<bounds, actions>>
  /\ UNCHANGED <<socket, inputVars, entries, history>>

-------------------------------------------------------------------------------
(* The connection thread: Disconnect.                                          *)

\* Client::disconnect; the server gets the packet.
Disconnects ==
  /\ entries' = entries \ {socket}
  /\ IF socket = NoSocket THEN UNCHANGED <<state, socket>>
     ELSE socket' = NoSocket /\ state' = "Disconnected"

\* No loop is closed unless the client is connected.
DisconnectUnconnected ==
  /\ Takes("Disconnect") /\ ~Connected
  /\ Disconnects
  /\ actions' = Tail(actions)
  /\ UNCHANGED <<at, inputVars, bounds, history>>

\* close_send_loop queues the end of the loop and waits for the flag.
CloseSendLoop ==
  /\ Takes("Disconnect") /\ Connected
  /\ channel' = Append(channel, EOL)
  /\ at' = "Closing"
  /\ actions' = Tail(actions)
  /\ UNCHANGED <<state, socket, connected, checked, loops, entries, bounds, history>>

FinishDisconnect ==
  /\ at = "Closing" /\ ~connected
  /\ at' = "Loop"
  /\ Disconnects
  /\ UNCHANGED <<actions, inputVars, bounds, history>>

-------------------------------------------------------------------------------
(* The loops.                                                                  *)

LoopGoes(k, place) == loops' = [loops EXCEPT ![k].at = place]

\* inner_client.disconnect(): its socket is a clone, the connection is the same.
LoopDisconnects(k) ==
  /\ LoopGoes(k, "Stopping")
  /\ entries' = entries \ {loops[k].socket}

\* Mutant of CheckConnected: the flag is read with try_lock, and a lock that is taken ends
\* the loop.
CheckConnectedOrStop(k) ==
  /\ loops[k].at = "Top"
  /\ \/ connected /\ LoopGoes(k, "Receiving") /\ UNCHANGED entries
     \/ LoopDisconnects(k)
  /\ UNCHANGED <<mainVars, connected, channel, checked, bounds, history>>

CheckConnected(k) ==
  /\ loops[k].at = "Top"
  /\ \/ connected /\ LoopGoes(k, "Receiving") /\ UNCHANGED entries
     \/ ~connected /\ LoopDisconnects(k)
  /\ UNCHANGED <<mainVars, connected, channel, checked, bounds, history>>

\* Mutant of SendInput: the loop ends when an input cannot be sent.
SendInputOrStop(k) ==
  /\ loops[k].at = "Receiving" /\ channel # <<>> /\ Head(channel) = Input
  /\ channel' = Tail(channel)
  /\ \E place \in {"Top", "Stopping"} : LoopGoes(k, place)
  /\ UNCHANGED <<mainVars, connected, checked, entries, bounds, history>>

\* An error is only logged.
SendInput(k) ==
  /\ loops[k].at = "Receiving" /\ channel # <<>> /\ Head(channel) = Input
  /\ channel' = Tail(channel)
  /\ LoopGoes(k, "Top")
  /\ UNCHANGED <<mainVars, connected, checked, entries, bounds, history>>

ReceiveEOL(k) ==
  /\ loops[k].at = "Receiving" /\ channel # <<>> /\ Head(channel) = EOL
  /\ channel' = Tail(channel)
  /\ LoopDisconnects(k)
  /\ UNCHANGED <<mainVars, connected, checked, bounds, history>>

\* Mutant of StopLoop: the flag is left to whoever started the loop.
StopLoopOnly(k) ==
  /\ loops[k].at = "Stopping"
  /\ LoopGoes(k, "Ended")
  /\ UNCHANGED <<mainVars, connected, channel, checked, entries, bounds, history>>

\* Whoever's flag it is by now.
StopLoop(k) ==
  /\ loops[k].at = "Stopping"
  /\ LoopGoes(k, "Ended")
  /\ connected' = FALSE
  /\ UNCHANGED <<mainVars, channel, checked, entries, bounds, history>>

LoopStep(k) == CheckConnected(k) \/ SendInput(k) \/ ReceiveEOL(k) \/ StopLoop(k)

-------------------------------------------------------------------------------
Next ==
  \/ UserAction \/ CheckFlag \/ QueueInput
  \/ HandleConnect \/ HandleOther \/ HandleHandshake \/ HandleReconnect
  \/ BeginReceive \/ ReceivePacket \/ ReceiveFails
  \/ DisconnectUnconnected \/ CloseSendLoop \/ FinishDisconnect
  \/ \E k \in DOMAIN loops : LoopStep(k)

Spec == Init /\ [][Next]_vars

\* The threads run; whether an attempt succeeds, and what the user does, is open.
Fairness ==
  /\ WF_vars(FinishDisconnect)
  /\ \A k \in 1..MaxAttempts : WF_vars(k \in DOMAIN loops /\ LoopStep(k))

FairSpec == Spec /\ Fairness

-------------------------------------------------------------------------------
(* Properties.                                                                 *)

\* The types of the threads' state; what is queued and what a loop may be doing.
TypeOK ==
  /\ actions \in Seq({"Connect", "Disconnect", "Volume", "UpdateState", "Handshake",
                      "Reconnect"})
  /\ state \in {"Disconnected", "Connecting", "Connected"}
  /\ socket \in 0..MaxAttempts
  /\ at \in {"Loop", "Recv", "Closing"}
  /\ connected \in BOOLEAN /\ checked \in BOOLEAN
  /\ channel \in Seq({Input, EOL})
  /\ loops \in Seq([socket : 1..MaxAttempts, at : {"Top", "Receiving", "Stopping", "Ended"}])
  /\ entries \subseteq 1..MaxAttempts
  /\ bounds \in [{"user", "losses", "attempts", "inputs"} -> Nat]
  /\ bounds.attempts <= MaxAttempts
  /\ leaks \in Nat /\ unserved \in BOOLEAN

\* However connections come and go, there is one loop while the flag is set and none
\* while it is not, and one more for each time a loop was started while the flag was
\* set; and while the flag is set there is one that can clear it.
LoopsAccounted ==
  /\ Cardinality(Alive) <= leaks + (IF connected THEN 1 ELSE 0)
  /\ connected => Alive # {}

\* close_send_loop returns, whichever loop takes its EOL and however many there are.
CloseReturns == at = "Closing" ~> at # "Closing"

\* A loop was started beside another, or a Reconnect succeeded without one.
Disturbed == leaks > 0 \/ unserved

\* A client that is connected has its input thread, on the socket of this connection and of
\* no other, also after losses and reconnections; until it waits for its end.
InputsGoOut == Connected /\ at # "Closing" => Serves(socket) \/ Disturbed

\* An established connection's input thread goes on: every input queued is taken from the
\* channel, also after a reconnection.
InputsTaken ==
  ~Disturbed /\ Connected /\ channel # <<>> ~> Disturbed \/ ~Connected \/ channel = <<>>

\* No loop disconnects the player from the server but the one that close_send_loop ends,
\* unless there was a loop too many or too few.
NotCutOff ==
  [][(entries' # entries /\ entries' \subseteq entries /\ mainVars' = mainVars)
       => at = "Closing" \/ Disturbed]_vars
===============================================================================
