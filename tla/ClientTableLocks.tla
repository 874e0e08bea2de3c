--------------------------- MODULE ClientTableLocks ---------------------------
(***************************************************************************)
(* The two RwLocks of AppConnection (mrial_server/src/conn/app.rs), the       *)
(* client table's and the subpacket cache's, and the tasks that take them:    *)
(* AppBroadcastTask, VideoServerTask, the audio stream's callback and          *)
(* EventsTask. What AppConnection and VideoStream take for one step is here     *)
(* what a task does between taking a lock and letting go of it.                *)
(***************************************************************************)
EXTENDS Naturals, Sequences, FiniteSets, Functions

CONSTANTS
  Players,        \* socket addresses
  MaxSubpackets   \* bound: video subpackets broadcast

ASSUME LocksAssumption == MaxSubpackets \in Nat

VARIABLES
  lock,       \* per lock: who holds it for reading, for writing, and who waits
  at,         \* per task: what it does, Idle between two operations; for EventsTask
              \* also whom the datagram is from, and the ids of a Retransmit
  table,      \* clients: address -> whether it is connected
  cache,      \* subpacket_cache: numbers of the subpackets in it
  subpacket,  \* the number of the video subpacket that is broadcast, or was last
  unsent,     \* addresses it, or an audio packet, is still to be sent to
  sent,       \* history: video subpackets that were sent to somebody
  drained,    \* history: subpackets that were drained from the cache
  failed      \* history: a send_to failed

dataVars == <<table, cache, subpacket, unsent, sent, drained, failed>>
vars == <<lock, at, dataVars>>

Tasks == {"Broadcast", "Video", "Audio", "Events"}
Locks == {"clients", "subpacket_cache"}
Idle == [place |-> "Idle", src |-> {}, ids |-> {}]

Init ==
  /\ lock = [l \in Locks |-> [readers |-> {}, writers |-> {}, queue |-> <<>>]]
  /\ at = [t \in Tasks |-> Idle]
  /\ table = <<>> /\ cache = {} /\ subpacket = 0 /\ unsent = {}
  /\ sent = {} /\ drained = {} /\ failed = FALSE

Connected == {p \in DOMAIN table : table[p]}

-------------------------------------------------------------------------------
(* tokio's RwLock is fair: a task that asks waits behind all that asked before,  *)
(* so a reader waits behind a waiting writer.                                   *)

Queued(locks, l, t, mode) ==
  [locks EXCEPT ![l].queue = Append(@, [task |-> t, mode |-> mode])]

Served(l) == [lock EXCEPT ![l].queue = Tail(@)]

\* A guard of t is dropped.
Released(locks, l, t) ==
  [locks EXCEPT ![l].readers = @ \ {t}, ![l].writers = @ \ {t}]

\* t keeps the guard it has got.
Reading(locks, l, t) == [locks EXCEPT ![l].readers = @ \union {t}]
Writing(locks, l, t) == [locks EXCEPT ![l].writers = @ \union {t}]

\* t, at the place `place', goes on with the lock it asked for there.
Enters(t, place, l, mode) ==
  /\ at[t].place = place
  /\ lock[l].queue # <<>> /\ Head(lock[l].queue) = [task |-> t, mode |-> mode]
  /\ lock[l].writers = {}
  /\ mode = "write" => lock[l].readers = {}

Moves(t, place) == at' = [at EXCEPT ![t].place = place]
Ends(t) == at' = [at EXCEPT ![t] = Idle]

\* t starts an operation with asking for a lock.
Starts(t, place, l, mode) ==
  /\ at[t] = Idle
  /\ Moves(t, place)
  /\ lock' = Queued(lock, l, t, mode)

\* A guard that is dropped before the task awaits anything: the section is one step.
PassesAndEnds(t, place, l, mode) ==
  /\ Enters(t, place, l, mode)
  /\ lock' = Served(l)
  /\ Ends(t)

PassesAndAsks(t, place, l, mode, next, l2, mode2) ==
  /\ Enters(t, place, l, mode)
  /\ lock' = Queued(Served(l), l2, t, mode2)
  /\ Moves(t, next)

-------------------------------------------------------------------------------
(* AppBroadcastTask.                                                           *)

BeginVideo ==
  /\ subpacket < MaxSubpackets
  /\ Starts("Broadcast", "AskVideo", "clients", "read")
  /\ subpacket' = subpacket + 1
  /\ UNCHANGED <<table, cache, unsent, sent, drained, failed>>

BeginAudio ==
  /\ Starts("Broadcast", "AskAudio", "clients", "read")
  /\ UNCHANGED dataVars

HoldsForSending(place, next) ==
  /\ Enters("Broadcast", place, "clients", "read")
  /\ lock' = Reading(Served("clients"), "clients", "Broadcast")
  /\ Moves("Broadcast", next)

EnterVideo ==
  /\ HoldsForSending("AskVideo", "SendVideo")
  /\ unsent' = DOMAIN table
  /\ UNCHANGED <<table, cache, subpacket, sent, drained, failed>>

\* Who is muted is left open.
EnterAudio ==
  /\ HoldsForSending("AskAudio", "SendAudio")
  /\ unsent' \in SUBSET DOMAIN table
  /\ UNCHANGED <<table, cache, subpacket, sent, drained, failed>>

SendTo(p) ==
  /\ at["Broadcast"].place \in {"SendVideo", "SendAudio"} /\ p \in unsent
  /\ unsent' = unsent \ {p}
  /\ sent' = IF at["Broadcast"].place = "SendVideo" THEN sent \union {subpacket} ELSE sent
  /\ UNCHANGED <<lock, at, table, cache, subpacket, drained, failed>>

\* clients.write() is asked for with the read guard still there, so it is never
\* granted: no step leads on from here.
BroadcastFails(p) ==
  /\ at["Broadcast"].place \in {"SendVideo", "SendAudio"} /\ p \in unsent
  /\ failed' = TRUE
  /\ Moves("Broadcast", "RemoveFailed")
  /\ lock' = Queued(lock, "clients", "Broadcast", "write")
  /\ UNCHANGED <<table, cache, subpacket, unsent, sent, drained>>

\* Mutant of FinishSending: the table is free again while the cache is waited for.
FinishSendingEarly ==
  /\ at["Broadcast"].place = "SendVideo" /\ unsent = {}
  /\ Moves("Broadcast", "AskCache")
  /\ lock' = Queued(Released(lock, "clients", "Broadcast"), "subpacket_cache", "Broadcast", "write")
  /\ UNCHANGED dataVars

\* The cache's lock is taken inside the table's.
FinishSending ==
  /\ at["Broadcast"].place = "SendVideo" /\ unsent = {}
  /\ Moves("Broadcast", "AskCache")
  /\ lock' = Queued(lock, "subpacket_cache", "Broadcast", "write")
  /\ UNCHANGED dataVars

CacheSubpacket ==
  /\ Enters("Broadcast", "AskCache", "subpacket_cache", "write")
  /\ lock' = Released(Served("subpacket_cache"), "clients", "Broadcast")
  /\ Ends("Broadcast")
  /\ cache' = cache \union {subpacket}
  /\ UNCHANGED <<table, subpacket, unsent, sent, drained, failed>>

FinishAudio ==
  /\ at["Broadcast"].place = "SendAudio" /\ unsent = {}
  /\ Ends("Broadcast")
  /\ lock' = Released(lock, "clients", "Broadcast")
  /\ UNCHANGED dataVars

BroadcastStep ==
  \/ EnterVideo \/ EnterAudio \/ FinishSending \/ CacheSubpacket \/ FinishAudio
  \/ \E p \in Players : SendTo(p) \/ BroadcastFails(p)

-------------------------------------------------------------------------------
(* The loop of VideoServerTask, and the audio callback. Both ask whether somebody *)
(* is connected and encrypt with get_sym_key; the audio it flushes in silence is  *)
(* encrypted at once.                                                           *)

BeginLoop ==
  /\ \/ Starts("Video", "HasClients", "clients", "read")
     \/ \E place \in {"HasClients", "SymKey"} : Starts("Audio", place, "clients", "read")
  /\ UNCHANGED dataVars

HasClients(t) ==
  /\ \/ Connected # {} /\ PassesAndAsks(t, "HasClients", "clients", "read",
                                        "SymKey", "clients", "read")
     \/ Connected = {} /\ t = "Video"
          /\ PassesAndAsks(t, "HasClients", "clients", "read", "FilterIdle", "clients", "write")
     \/ Connected = {} /\ t = "Audio" /\ PassesAndEnds(t, "HasClients", "clients", "read")
  /\ UNCHANGED dataVars

\* Once a second the video task goes on with filtering and draining.
GetSymKey(t) ==
  /\ \/ PassesAndEnds(t, "SymKey", "clients", "read")
     \/ t = "Video" /\ PassesAndAsks(t, "SymKey", "clients", "read",
                                     "Filter", "clients", "write")
  /\ UNCHANGED dataVars

\* Who is dead is left open: AppConnection has the pings.
FilterClients ==
  /\ \/ PassesAndAsks("Video", "Filter", "clients", "write",
                      "Drain", "subpacket_cache", "write")
     \/ PassesAndEnds("Video", "FilterIdle", "clients", "write")
  /\ \E alive \in SUBSET DOMAIN table : table' = Restrict(table, alive)
  /\ UNCHANGED <<cache, subpacket, unsent, sent, drained, failed>>

\* What was cached SUBPACKET_CACHE_LIFETIME ago, up to some number.
DrainSubpacketCache ==
  /\ PassesAndEnds("Video", "Drain", "subpacket_cache", "write")
  /\ \E old \in 0..subpacket : drained' = drained \union {i \in cache : i <= old}
  /\ cache' = cache \ drained'
  /\ UNCHANGED <<table, subpacket, unsent, sent, failed>>

VideoStep ==
  \/ HasClients("Video") \/ GetSymKey("Video") \/ FilterClients \/ DrainSubpacketCache
AudioStep == HasClients("Audio") \/ GetSymKey("Audio")

-------------------------------------------------------------------------------
(* EventsTask::handle_app_event.                                               *)

Receives(place, mode, src, ids) ==
  /\ at["Events"] = Idle
  /\ at' = [at EXCEPT !["Events"] = [place |-> place, src |-> {src}, ids |-> ids]]
  /\ lock' = Queued(lock, "clients", "Events", mode)
  /\ UNCHANGED dataVars

\* A player asks for subpackets of a frame of which it got one; ClientState of
\* anybody, ShakeAE and so on. An input needs no lock of these.
ReceiveDatagram(p) ==
  \/ \E ids \in SUBSET (1..subpacket) : ids # {} /\ sent # {} /\ Receives("Retransmit", "write", p, ids)
  \/ Receives("ShakeUE", "write", p, {})
  \/ Receives("ShakeAE", "read", p, {})
  \/ Receives("ClientState", "read", p, {})
  \/ Receives("Ping", "read", p, {})
  \/ Receives("Disconnect", "write", p, {})

Asker == at["Events"].src
Asked == at["Events"].ids

EnterRetransmit ==
  /\ Enters("Events", "Retransmit", "clients", "write")
  /\ IF Asker \subseteq DOMAIN table
     THEN /\ lock' = Writing(Served("clients"), "clients", "Events")
          /\ Moves("Events", "Answer")
     ELSE /\ lock' = Served("clients")
          /\ Ends("Events")
  /\ UNCHANGED dataVars

\* One lock of the cache per id, in the order of the list.
AskForCache ==
  /\ at["Events"].place = "Answer" /\ Asked # {}
  /\ Moves("Events", "LookUp")
  /\ lock' = Queued(lock, "subpacket_cache", "Events", "read")
  /\ UNCHANGED dataVars

\* The cache's guard lives until the subpacket was sent.
LookUp ==
  /\ Enters("Events", "LookUp", "subpacket_cache", "read")
  /\ \E id \in Asked :
       /\ at' = [at EXCEPT !["Events"].place = IF id \in cache THEN "SendCopy" ELSE "Answer",
                           !["Events"].ids = @ \ {id}]
       /\ lock' = IF id \in cache
                  THEN Reading(Served("subpacket_cache"), "subpacket_cache", "Events")
                  ELSE Served("subpacket_cache")
  /\ UNCHANGED dataVars

SendCopy ==
  /\ at["Events"].place = "SendCopy"
  /\ Moves("Events", "Answer")
  /\ lock' = Released(lock, "subpacket_cache", "Events")
  /\ UNCHANGED dataVars

\* remove_client asks for the lock that retransmit_frame holds: as above.
SendCopyFails ==
  /\ at["Events"].place = "SendCopy"
  /\ failed' = TRUE
  /\ Moves("Events", "RemoveFailed")
  /\ lock' = Queued(lock, "clients", "Events", "write")
  /\ UNCHANGED <<table, cache, subpacket, unsent, sent, drained>>

FinishRetransmit ==
  /\ at["Events"].place = "Answer" /\ Asked = {}
  /\ Ends("Events")
  /\ lock' = Released(lock, "clients", "Events")
  /\ UNCHANGED dataVars

\* ShookUE is sent after the guard is dropped.
InitializeClient ==
  /\ PassesAndEnds("Events", "ShakeUE", "clients", "write")
  /\ table' = [p \in DOMAIN table \union Asker |-> p \notin Asker /\ table[p]]
  /\ UNCHANGED <<cache, subpacket, unsent, sent, drained, failed>>

\* The private key is copied; then the payload may not decrypt, or the user not be
\* authorised.
GetClientPrivKey ==
  /\ \/ PassesAndEnds("Events", "ShakeAE", "clients", "read")
     \/ /\ Asker \subseteq DOMAIN table
        /\ PassesAndAsks("Events", "ShakeAE", "clients", "read", "Connect", "clients", "write")
  /\ UNCHANGED dataVars

\* The entry may have been filtered in between. ShookSE is sent with the guard held;
\* whether that fails or not, the guard is dropped and only then mute_client asks.
ConnectClient ==
  /\ \/ /\ Asker \subseteq DOMAIN table
        /\ table' = [p \in DOMAIN table |-> p \in Asker \/ table[p]]
        /\ \/ PassesAndAsks("Events", "Connect", "clients", "write", "Mute", "clients", "write")
           \/ PassesAndEnds("Events", "Connect", "clients", "write")
     \/ /\ ~(Asker \subseteq DOMAIN table)
        /\ PassesAndEnds("Events", "Connect", "clients", "write")
        /\ UNCHANGED table
  /\ UNCHANGED <<cache, subpacket, unsent, sent, drained, failed>>

\* get_sym_key and, if the payload decrypts, mute_client.
HandleClientState ==
  /\ \/ PassesAndEnds("Events", "ClientState", "clients", "read")
     \/ Connected # {} /\ PassesAndAsks("Events", "ClientState", "clients", "read",
                                        "Mute", "clients", "write")
  /\ UNCHANGED dataVars

MuteClient ==
  /\ PassesAndEnds("Events", "Mute", "clients", "write")
  /\ UNCHANGED dataVars

\* Mutant of ReceivedPing: the read guard lives as long as the if.
PingKeepsReading ==
  /\ Enters("Events", "Ping", "clients", "read")
  /\ Asker \subseteq DOMAIN table
  /\ lock' = Queued(Reading(Served("clients"), "clients", "Events"), "clients", "Events", "write")
  /\ Moves("Events", "Pinged")
  /\ UNCHANGED dataVars

\* The guard of the if's condition is dropped before the table is asked for again.
ReceivedPing ==
  /\ \/ Asker \subseteq DOMAIN table
          /\ PassesAndAsks("Events", "Ping", "clients", "read", "Pinged", "clients", "write")
     \/ ~(Asker \subseteq DOMAIN table) /\ PassesAndEnds("Events", "Ping", "clients", "read")
  /\ UNCHANGED dataVars

SetLastPing ==
  /\ PassesAndEnds("Events", "Pinged", "clients", "write")
  /\ UNCHANGED dataVars

\* Mutant of RemoveClient: has_clients is called with the write guard held.
RemoveKeepsGuard ==
  /\ Enters("Events", "Disconnect", "clients", "write")
  /\ lock' = Queued(Writing(Served("clients"), "clients", "Events"), "clients", "Events", "read")
  /\ Moves("Events", "AnyLeft")
  /\ table' = Restrict(table, DOMAIN table \ Asker)
  /\ UNCHANGED <<cache, subpacket, unsent, sent, drained, failed>>

RemoveClient ==
  /\ PassesAndAsks("Events", "Disconnect", "clients", "write", "AnyLeft", "clients", "read")
  /\ table' = Restrict(table, DOMAIN table \ Asker)
  /\ UNCHANGED <<cache, subpacket, unsent, sent, drained, failed>>

AnyClientLeft ==
  /\ PassesAndEnds("Events", "AnyLeft", "clients", "read")
  /\ UNCHANGED dataVars

EventsStep ==
  \/ EnterRetransmit \/ AskForCache \/ LookUp \/ SendCopy \/ SendCopyFails \/ FinishRetransmit
  \/ InitializeClient \/ GetClientPrivKey \/ ConnectClient \/ HandleClientState \/ MuteClient
  \/ ReceivedPing \/ SetLastPing \/ RemoveClient \/ AnyClientLeft

-------------------------------------------------------------------------------
Next ==
  \/ BeginVideo \/ BeginAudio \/ BroadcastStep
  \/ BeginLoop \/ VideoStep \/ AudioStep
  \/ (\E p \in Players : ReceiveDatagram(p)) \/ EventsStep

Spec == Init /\ [][Next]_vars

\* The tasks run on whenever the lock they wait for is theirs.
Fairness ==
  WF_vars(BroadcastStep) /\ WF_vars(VideoStep) /\ WF_vars(AudioStep) /\ WF_vars(EventsStep)

FairSpec == Spec /\ Fairness

-------------------------------------------------------------------------------
(* Properties.                                                                 *)

Places == {"Idle", "AskVideo", "AskAudio", "SendVideo", "SendAudio", "AskCache", "RemoveFailed",
           "HasClients", "SymKey", "FilterIdle", "Filter", "Drain", "Retransmit", "Answer",
           "LookUp", "SendCopy", "ShakeUE", "ShakeAE", "Connect", "ClientState", "Mute", "Ping",
           "Pinged", "Disconnect", "AnyLeft"}

\* The types of the locks, the tasks' places and the data behind the locks.
TypeOK ==
  /\ lock \in [Locks -> [readers : SUBSET Tasks, writers : SUBSET Tasks,
                          queue : Seq([task : Tasks, mode : {"read", "write"}])]]
  /\ at \in [Tasks -> [place : Places, src : SUBSET Players, ids : SUBSET (1..subpacket)]]
  /\ DOMAIN table \subseteq Players /\ \A p \in DOMAIN table : table[p] \in BOOLEAN
  /\ subpacket \in 0..MaxSubpackets
  /\ cache \subseteq 1..subpacket /\ sent \subseteq 1..subpacket /\ drained \subseteq 1..subpacket
  /\ unsent \subseteq Players
  /\ failed \in BOOLEAN

Holds(t, l) == t \in lock[l].readers \union lock[l].writers
WaitsFor(t, l) == \E i \in DOMAIN lock[l].queue : lock[l].queue[i].task = t

\* Whatever retransmit_frame looks up after it was sent to anybody is in the cache,
\* unless it was drained: a request cannot overtake the caching of what it asks for.
AnswersAreCached ==
  at["Events"].place \in {"Answer", "LookUp"} => Asked \cap sent \subseteq cache \union drained

\* Unless a send failed, the client table's lock is taken first and the cache's inside
\* it, and no lock by a task that holds it: no tasks can wait for one another in a
\* circle, nor one for itself.
TableFirst ==
  ~failed =>
    \A t \in Tasks :
      /\ WaitsFor(t, "clients") => \A l \in Locks : ~Holds(t, l)
      /\ WaitsFor(t, "subpacket_cache") => ~Holds(t, "subpacket_cache")

\* t waits for nothing, or what it waits for is its own to take.
GoesOn(t) ==
  \/ \A l \in Locks : ~WaitsFor(t, l)
  \/ \E l \in Locks :
       /\ lock[l].queue # <<>> /\ Head(lock[l].queue).task = t
       /\ lock[l].writers = {}
       /\ Head(lock[l].queue).mode = "write" => lock[l].readers = {}

\* s has, or is the next to get, the lock that t waits for.
Hinders(s, t) ==
  \E l \in Locks :
    /\ WaitsFor(t, l)
    /\ Holds(s, l) \/ (lock[l].queue # <<>> /\ Head(lock[l].queue).task = s)

\* Unless a send failed, no task is stuck in a lock: whoever waits, waits for one that
\* goes on, or for the broadcaster or retransmit_frame, which wait for the cache in
\* turn, for one that goes on. No chain of waiting tasks is longer than that.
WaitsAreShort ==
  ~failed =>
    \A t \in Tasks :
      \/ GoesOn(t)
      \/ \E s \in Tasks :
           /\ Hinders(s, t)
           /\ GoesOn(s) \/ \E r \in Tasks : Hinders(r, s) /\ GoesOn(r)

\* Unless a send failed, every operation ends: frames are broadcast, datagrams
\* handled and dead clients filtered, however the others come and go.
OperationsEnd == \A t \in Tasks : []<>(failed \/ at[t] = Idle)
===============================================================================
