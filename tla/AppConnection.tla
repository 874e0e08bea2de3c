----------------------------- MODULE AppConnection -----------------------------
(***************************************************************************)
(* The server's side of a player's connection: the client table of           *)
(* AppConnection (mrial_server/src/conn/app.rs), what EventsTask             *)
(* (events/mod.rs) does to it for each datagram, and what VideoServerTask    *)
(* (video/mod.rs) does: filter dead clients and broadcast encrypted frames.   *)
(* A socket address, an RSA key pair and a symmetric key are numbers; the      *)
(* second copy of a datagram is one the network made.                         *)
(***************************************************************************)
EXTENDS Integers, FiniteSets, Functions

CONSTANTS
  MaxSockets,   \* bound: sockets the player opens
  MaxPairs,     \* bound: RSA key pairs the server generates
  MaxNALs       \* bound: frames on their way to the player

VARIABLES
  table,      \* clients: socket address -> AppClient
  pairs,      \* RSA key pairs generated so far
  installed,  \* history: symmetric keys that an authenticated client got
  toServer,   \* datagrams on their way to the server
  toPlayer,   \* datagrams on their way to the player, with their address
  socket      \* the player's socket (0 for None): others take no datagrams

connVars == <<table, pairs, installed, toServer, toPlayer, socket>>

NoKey == 0

AppClient == [priv : 1..MaxPairs, connected : BOOLEAN, key : Nat, alive : BOOLEAN]

ConnInit ==
  /\ table = <<>>
  /\ pairs = 0
  /\ installed = {}
  /\ toServer = {}
  /\ toPlayer = {}
  /\ socket = 0

\* Datagrams are sent; what no socket will take is gone.
SendToPlayer(ms) == toPlayer' = toPlayer \union {m \in ms : m.src = socket}

Connected == {src \in DOMAIN table : table[src].connected}

-------------------------------------------------------------------------------
(* EventsTask::handle_app_event, one datagram m of the socket address m.src.    *)

\* ShakeUE: a fresh entry replaces what the table had.
InitializeClient(m) ==
  /\ m.type = "ShakeUE"
  /\ pairs < MaxPairs
  /\ pairs' = pairs + 1
  /\ table' = [src \in DOMAIN table \union {m.src} |->
                 IF src = m.src
                 THEN [priv |-> pairs + 1, connected |-> FALSE, key |-> NoKey, alive |-> TRUE]
                 ELSE table[src]]
  /\ SendToPlayer({[type |-> "ShookUE", src |-> m.src, key |-> pairs + 1, copy |-> 1]})
  /\ UNCHANGED installed

\* Mutant of Decrypts: any ShakeAE is accepted of a client in the table.
DecryptsAnything(m) == m.src \in DOMAIN table

\* The payload decrypts with the private key of the client's entry.
Decrypts(m) == m.src \in DOMAIN table /\ table[m.src].priv = m.pub

\* ShakeAE of an authorised user.
ConnectClient(m) ==
  /\ m.type = "ShakeAE"
  /\ Decrypts(m)
  /\ table' = [table EXCEPT ![m.src].connected = TRUE, ![m.src].key = m.key]
  /\ installed' = installed \union {m.key}
  /\ SendToPlayer({[type |-> "ShookSE", src |-> m.src, key |-> m.key, copy |-> 1]})
  /\ UNCHANGED pairs

\* No private key, or the wrong one, or the users file cannot be read now.
RefuseClient(m) ==
  /\ m.type = "ShakeAE"
  /\ UNCHANGED <<table, pairs, installed, toPlayer>>

ReceivedPing(m) ==
  /\ m.type = "Ping"
  /\ table' = [src \in DOMAIN table |->
                 [table[src] EXCEPT !.alive = @ \/ src = m.src]]
  /\ UNCHANGED <<pairs, installed, toPlayer>>

RemoveClient(m) ==
  /\ m.type = "Disconnect"
  /\ table' = Restrict(table, DOMAIN table \ {m.src})
  /\ UNCHANGED <<pairs, installed, toPlayer>>

-------------------------------------------------------------------------------
(* VideoServerTask::run.                                                       *)

\* The last ping of a client is SERVER_PING_TOLERANCE old.
PingOverdue(src) ==
  /\ src \in DOMAIN table /\ table[src].alive
  /\ table' = [table EXCEPT ![src].alive = FALSE]
  /\ UNCHANGED <<pairs, installed, toServer, toPlayer, socket>>

\* Mutant of FilterClients: only while no client is connected.
FilterWhenIdle ==
  /\ Connected = {}
  /\ \E src \in DOMAIN table : ~table[src].alive
  /\ table' = Restrict(table, {src \in DOMAIN table : table[src].alive})
  /\ UNCHANGED <<pairs, installed, toServer, toPlayer, socket>>

\* Once a second while frames are sent, and all the time while no client is
\* connected.
FilterClients ==
  /\ \E src \in DOMAIN table : ~table[src].alive
  /\ table' = Restrict(table, {src \in DOMAIN table : table[src].alive})
  /\ UNCHANGED <<pairs, installed, toServer, toPlayer, socket>>

\* A frame, encrypted with the key of whichever connected client get_sym_key
\* finds first, goes to every client in the table.
Broadcast(first) ==
  /\ first \in Connected
  /\ Cardinality({m \in toPlayer : m.type = "NAL"}) < MaxNALs
  /\ SendToPlayer({[type |-> "NAL", src |-> src, key |-> table[first].key, copy |-> 1] :
                   src \in DOMAIN table})
  /\ toPlayer' # toPlayer
  /\ UNCHANGED <<table, pairs, installed, toServer, socket>>

-------------------------------------------------------------------------------
ToServer ==
  [type : {"ShakeUE", "Ping", "Disconnect"}, src : 1..MaxSockets,
   copy : {1, 2}]
    \union [type : {"ShakeAE"}, src : 1..MaxSockets, pub : 1..MaxPairs, key : Nat,
            copy : {1, 2}]

ToPlayer ==
  [type : {"ShookUE"}, src : 1..MaxSockets, key : 1..MaxPairs, copy : {1, 2}]
    \union [type : {"ShookSE", "NAL"}, src : 1..MaxSockets, key : Nat, copy : {1, 2}]

ConnTypeOK ==
  /\ DOMAIN table \subseteq 1..MaxSockets
  /\ \A src \in DOMAIN table : table[src] \in AppClient
  /\ pairs \in 0..MaxPairs
  /\ installed \subseteq Nat
  /\ toServer \subseteq ToServer
  /\ toPlayer \subseteq ToPlayer
  /\ socket \in 0..MaxSockets
===============================================================================
