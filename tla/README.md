# A verification project for mrial

mrial streams the screen and the sound of a Linux machine over UDP: `mrial_server` captures,
encodes, encrypts and sends, `mrial_player` receives, decodes, shows, and sends the user's
input back. This directory holds TLA+ models of the parts whose behaviour depends on order,
loss, time and failure, the TLC configurations that check them on small instances, and proofs
of their invariants for every value of their constants. Paths below are relative to the
repository.

## 1. The system

| Part | Code | State | Operations |
|---|---|---|---|
| Packets on the wire | `libs/mrial_proto/src/{packet,deploy}.rs` | `PacketDeployer.frame_id` (one byte) | slice a frame into subpackets that count down to 0, write and parse headers and Retransmit bodies |
| Video assembly | `NALPacketConstructor` in `packet.rs`, `VideoThread::packet` in `mrial_player/src/video/mod.rs` | frame buffer, ids still missing, requests and their times, postponed subpackets | store, detect gaps, ask again, postpone, switch to a key frame, complete |
| Video sending | `AppVideoBroadcaster`, `AppConnection::retransmit_frame` and `drain_subpacket_cache` in `mrial_server/src/conn/app.rs` | cache of the subpackets that were sent | send and cache, answer requests, drain by age |
| Audio | `AppBroadcastTask` (one deployer per codec), `PacketConstructor`, `mrial_player/src/audio/mod.rs` | two frame counters, one frame buffer | slice, store, complete, abandon |
| Client table | `AppConnection` in `conn/app.rs` | address -> key pair, symmetric key, connected, last ping, muted | initialise, connect, ping, remove, filter, broadcast |
| Connection thread | `mrial_player/src/main.rs`, `client/mod.rs` | `conn_channel`, `Client` (socket, state, key) | connect, handshake, receive, time out, reconnect, disconnect |
| Locks | the `RwLock`s of `AppConnection` | client table, `subpacket_cache` | taken by the broadcast task, the video task, the audio callback and the events task |
| Events task | `mrial_server/src/events/mod.rs` | input queue, handle of the input thread | one handler per datagram type, `RestartInputTread` |
| Input thread (server) | the same file | Enigo, uinput, `session_restart_in_progress` | move and click, ask for a restart, reconnect |
| Video task | `mrial_server/src/video/mod.rs` | capturer, encoder, picture, parameters, action channel | five `VideoServerAction`s, `restart_stream`, capture and send |
| Session task | `video/session.rs` | `Setting` | poll logins and logouts once a second |
| ServerMeta | `conn/mod.rs` | resolution, colour space, opus | `set_meta` (events task), `set_dimensions` and `get_meta` (video task) |
| Input thread (player) | `mrial_player/src/input/mod.rs` | channel of inputs, a flag shared by all threads | the window's callbacks (`capture`), `send_loop`, `close_send_loop` |
| Storage | `libs/mrial_fs/src/storage.rs`, the player's user page (`main.rs:143`), `mrial_server/src/cli/mod.rs` | users and servers files | load, add, remove, save |
| Audio capture | `mrial_server/src/audio/{linux,encoder}.rs` | `OpusEncoder`: sample buffer and cursor | process callback, `encode_f32`, `flush_raw` |
| WebConnection | `conn/web.rs` | one WebRTC client, work in progress | - |
| Payload formats | `libs/mrial_proto/src/{conn,input}.rs` | none | envelopes and byte layouts |
| Display and capture | `video/display.rs`, `yuv.rs`, `mrial_player/src/video/convert.rs` | the machine's | library calls, colour conversion |

### How they interact

* Server and player exchange datagrams, which UDP may lose, duplicate and reorder: NAL and
  RNAL, audio, Retransmit, Ping, the handshake ShakeUE - ShookUE - ShakeAE - ShookSE,
  ClientState, InputState and Disconnect.
* Inside the server, tasks send each other messages: session task, events task and input
  thread send `VideoServerAction`s to the video task over an unbounded channel; the video task
  sends `RestartInputTread` to the events task; the events task sends inputs and `Restart` to
  the input thread over a channel of 100. A session restart thus goes around a cycle of three.
* The client table, the cache of subpackets and `ServerMeta` are behind `RwLock`s shared by the
  events task, the video task, the broadcast task and the audio stream's callback.
* In the player, the user interface and the connection thread share `conn_channel`; the
  connection thread hands frames to a decoding thread. The window's callbacks queue inputs for
  the input thread, which the connection thread starts with a clone of its client and ends with
  `InternalEOL`.
* The user page of the player and the command line of the server change the same file of users,
  which the server reads when a player shakes hands. There is no lock.

### What is hard, and what should hold

* *Video assembly.* Whatever the network does, a frame handed to the decoder is one frame the
  server sent; nothing waits for what was never asked for; only what is missing is asked for,
  and can be answered; without reordering, frames come in order and none is skipped except for
  a key frame.
* *Audio.* Only whole frames are played, whatever the network does; unless something overtakes,
  they are played in order, and only loss drops one.
* *Connection.* Handshakes are repeated under old addresses while old entries, keys and
  datagrams are about: the keys agree, the picture comes, and the server forgets who is gone.
* *Session restarts.* Logins, polls, X servers, restarts and failing input interleave: no
  request is lost on its way, and stream and input end up on the current display.
* *Configuration.* Two tasks write `ServerMeta`: capturer, encoder and picture fit one another,
  and requests are honoured.
* *Locks.* Four tasks take two locks that are fair, so that a reader waits behind a waiting
  writer: the table's lock comes first, no task waits for itself, and every operation ends.
* *Input threads.* They are started and ended while connections come and go: each connection has
  one, ending it does not hang, no input is left in the channel, no thread disconnects the
  player from a connection that is still wanted.
* *Inputs.* They are told apart by which of their bytes are zero, and may get lost: the desktop
  agrees with the window as soon as the last event arrived, and no key stays down.
* *Files.* Two processes load, change, truncate and write one file, and may end in between: it
  has the users of the commands that were carried out, and can be read.
* *Audio capture.* Chunks of any length fill a buffer of another length while the codec and the
  clients change: every sample that was not dropped is played, once and in order.

`PROJECT.json` lists the hazards line by line, with the properties that cover them.

## 2. The modules

| Module | Models | Rests on |
|---|---|---|
| `Subpackets` | slicing and headers | |
| `NALAssembler` | `NALPacketConstructor` as `VideoThread::packet` drives it | `Subpackets` |
| `FrameDelivery` | abstract: what the decoder is promised | |
| `VideoStream` | deployer, cache, network, assembler, retransmission | `NALAssembler`; refines `FrameDelivery` |
| `AudioStream` | both audio deployers, network, the one assembler | `Subpackets` |
| `AppConnection` | the client table and the handlers that change it | |
| `Session` | connection thread and `Client` with the client table over the network | `AppConnection` |
| `ServerTasks` | session task, video task, events task, input thread and the machine they follow | |
| `StreamConfig` | `ServerMeta`, `ConfigUpdate`, `restart_stream` in two steps, frames | |
| `ClientTableLocks` | the locks of `AppConnection` and the four tasks that take them | |
| `SendLoop` | the player's input threads, with the connection thread that starts and ends them | |
| `PlayerInput` | from the window's events to the desktop's pointer, button and keys | |
| `Storage` | the file of users, the user page, command lines | |
| `AudioCapture` | the process callback and `OpusEncoder` | |
| `VideoStreamProofs`, `AudioStreamProofs`, `SessionProofs`, `ServerTasksProofs`, `SendLoopProofs`, `AudioCaptureProofs` | theorems | the module they are named after |
| `PlayerControlsProofs` | theorems about what the player's user sets and does | `StreamConfig`, `PlayerInput` |
| `SharedDataProofs` | theorems about data that tasks or processes share | `ClientTableLocks`, `Storage` |
| `MC*` | constants for TLC | |

`Storage` and `PlayerInput` name their specifications `StorageSpec` and `InputSpec`, and the
definitions around them alike, so that one module can extend them beside another component.

A datagram or message is a record; a payload is what a reader can tell of it: a subpacket's
data is the number of the frame it was cut from (`seq`, which the code never looks at), an
encrypted payload is the key that opens it. Operators named "Mutant of ..." in their comments
are plausible mistakes in the operator that follows; no action uses them. They show that a
property can fail: with the mutant in place of the operator, TLC finds the property violated.

### VideoStream and NALAssembler

`asm` is the constructor's fields: `remaining` is the list of missing ids, `requested` the
domain of `retransmit_requests`, `recent` those whose time is within
`NAL_RETRANSMISSION_DELAY`. `frame` has one slot per `PAYLOAD` bytes. One call of
`assemble_packet` is one action, split by its outcome: `SkipFragment`, `QueueFragment`,
`StoreFragment`, `StoreLastFragment`, `CompleteFrame`, `Panic` (an assert or a slice index).
What `EAssemblerState::Queue` returns is in `work`, fed back by `FeedQueued` before the next
datagram is read. `RequestExpires` lets a request's time run out. On the server,
`BroadcastSubpacket` sends and caches one subpacket, `RetransmitFrame` answers one request in
any order of its ids, `DrainSubpacketCache` forgets old frames. The network delivers one of the
`Window` oldest datagrams, up to `MaxCopies` copies of each, or none.

### AudioStream

`PacketConstructor` has no queue and no requests: another frame id abandons the frame in
progress. `DeployFrame` counts ids per codec as the two deployers do. `disordered` is history: the
network duplicated a datagram or let one overtake another.

### AppConnection and Session

`player` is the connection thread: where it waits (`at`), its `Client` (`state`, `key`;
`socket` is a variable of its own, since the network needs it), `conn_channel` (`queue`). Each
`ConnectionAction` is an action, and each packet read during a handshake is one, too:
`ReceiveShookUE` takes only the first packet, `ReceiveShookSE` waits through up to 100 others
(`WaitThrough`, `GiveUp`). `past` is history: key pairs already answered, the key of the last
valid ShookSE. `EventsTask(type)` is the server's handler of one datagram, `Filter` and
`SendFrame` the video task's part. Losses, duplicates, refusals, restarts of the server, reads
that time out although something is on its way, and a late ping of the player's own socket use
up `MaxTrouble`; a read that times out in real silence does not. Changes of the volume
(`TurnVolume`) are modelled because the thread goes on to receive after one.

### ServerTasks

`display` is the X server of `:0`: a new login or logout may end it, and a next one is started
with a cookie of the greeter or the user. `xenv` is the cookie that `config_xenv` chose;
`DisplayOpens` says whether connecting works with it. `who` (`listed`) lags behind the login.
A `RestartSession` is handled in two steps, `config_xenv` and the two sends; a failing
`RestartStream` has its re-queueing as a step of its own. `sending` is what `EventsTask`
waits to put into the full input queue. Inputs are mouse inputs; an error of the keyboard is
only logged. `overlooked` is history: a login or logout ended before a poll saw it.

### StreamConfig

`restart_stream` is two steps, `BeginRestartStream` up to `get_meta` and `FinishRestartStream`
from `set_dimensions` on, since the events task's `set_meta` may come in between; what it read
is `video.read`. Storing a request and sending `ConfigUpdate` are two steps, too (`pending`).
`EncoderOpens` fails for a picture of no size, which is what a player asks for before its user
chose a resolution. `Frame` copies the planes, and panics if lengths differ. A login or logout
is a new X server in a mode of its own (`NewDisplay`, a next number in `screen`) and a
`RestartStream` that follows it at any time, more than once, or never (`RestartForSession`). A
capturer is what it was opened on, and gives no frame once the X server is another. Capturers
that fail to open, and when a poll sees what, are in `ServerTasks`. `wish` and `unaware` are
history: the last request and whether a `set_dimensions` overwrote it; whether an X server came
up since `ServerMeta` had the screen's mode, and whether the last restart read it then.

### ClientTableLocks

What `AppConnection` and `VideoStream` take for one step is opened up here: `at` has each
task's place in its operation, `lock` who holds each lock and who waits for it, in tokio's
order. A guard that is dropped before the task awaits anything is one step
(`PassesAndEnds`, `PassesAndAsks`); one that is held over a `send_to` or over another lock is
kept (`Reading`, `Writing`) until its operation lets go. What decides who is connected, dead or
muted is left open, since `AppConnection` has it. `BroadcastFails` and `SendCopyFails` are the
failed sends of `app.rs:131`, `170` and `389`: the task then asks for a lock that it holds, and
no step leads on from there. `sent`, `drained` and `failed` are history.

### SendLoop

The connection thread is that of `Session` with its handshakes cut down to their outcomes, so
that all orders of the user's clicks fit; `at` says whether it takes an action, receives, or
waits in `close_send_loop`. As in the code it goes on to receive after a Handshake, a Reconnect, a
change of the volume or an UpdateState, also while it is not connected, and a read that fails sets
the state to Disconnected whatever it was (`ReceiveFails`). `loops` has the threads that `send_loop` started, each
with its clone of the socket and its place; `connected` is the flag and `channel` the channel
they all share. `CloseSendLoop` queues the EOL and then waits. A callback reads the
flag (`CheckFlag`) before it queues the input (`QueueInput`). `entries` is what the server has.
`leaks` and `unserved` are history: how often a loop was started while the flag was set, and
whether a Reconnect succeeded while no loop ran on its socket. `CloseApplication` is
`Disconnect` followed by the end of the process, and is left out.

### PlayerInput

`window` is what the user sees and does, `desktop` what the server's devices were told. A
datagram (`net`) has its coordinates as high and low bytes, because `click_requested` looks at
the low and `mouse_move_requested` at the high ones. `held` is `left_mouse_held`. The input
thread of the player and the events task are left out: what is queued is sent, and the network
keeps the order. `unknown` is history: the keys, button or pointer whose last event got lost or
went unnoticed; `odd`: an odd number of clicks came while the button was up on the desktop.
`on_click` sends a left click for every button that is not the right one (`OtherClick`).

### Storage

`BeginSave` opens and truncates the file, `FinishSave` writes it; other processes act in
between, and `BreakOff` ends the process there. `SizeOf` is the length: what is written over a
longer file leaves its tail. The page loads once and goes on with its list; the command line
loads for each command. `base` is the list that a process last saw in the file, `done` the
users after the commands carried out so far; `conflict` and `broken` are history.

### AudioCapture

A sample is the number of its capture. `CaptureOpus` is a chunk through `encode_f32`, with its
outcomes `KeepChunk`, `EncodeFull`, `EncodeOverfull` and `EncodeOverfullFails`, `CapturePCM` one
that passes the encoder by. `CaptureSilentStart` is a chunk whose first 32 bytes are zero
(`linux.rs:125`): the encoder is flushed, and the whole chunk is dropped, also what follows the
zeros. `lost` is history: the samples of chunks and frames that were dropped, not encoded or not
broadcast; `overtaken`: PCM was broadcast while the buffer kept samples.

## 3. What the runs check

| Run | Instance | Shows |
|---|---|---|
| `video_fifo` | 3 frames of 1 or 3 subpackets, losses only | `DeliversInOrder`: the stream refines `FrameDelivery`; `RequestsWereSent`: every request can be answered |
| `video_udp` | 3 frames of 1, 2 or 5 subpackets, losses, duplicates, reordering by 2 | `SlotsMatchFrame`, `QueueHoldsOthers`, `StalledHasAsked`, `AssembledWhole`, `NoPanic`, `AsksOnlyForMissing` |
| `audio_udp` | 3 frames of 1 to 3 subpackets, one codec, losses, duplicates, reordering by 2 | `DropsIncomplete`, `OnlyLossDrops` |
| `session` | 3 clicks, 2 sockets, 4 key pairs, 4 keys, 1 trouble | types; `KeyAgreement`, `EstablishedByServer`, `PictureComes`, `ServerForgets` |
| `session_gives_up` | 1 click, 1 trouble | violates `Reconnects` (section 4) |
| `server_tasks` | 2 logins or logouts with new X servers, input queue of 1 | `RestartOnItsWay`, `CapturerComesBack`, `InputRecovers`, `StreamFollows` |
| `stream_config` | 2 modes, 2 colour spaces, 4 requests, new X servers or restarts for a session | `AgreesOrRestarts`, `EncoderFitsPicture`, `Settles`, `HonoursRequest` |
| `client_locks` | 4 tasks, 2 locks, 1 player, 2 subpackets | `AnswersAreCached`, `TableFirst`, `WaitsAreShort`, `OperationsEnd` |
| `send_loop` | 4 clicks or volume changes in any order, 1 read that times out, 4 handshakes, 1 input | `LoopsAccounted`, `InputsGoOut`, `CloseReturns`, `InputsTaken`, `NotCutOff` |
| `player_input` | 6 events, 3 datagrams on their way; a corner, an edge and the middle; Return, a modifier, Escape | `KeysAgree`, `PointerAgrees`, `ButtonAgrees` |
| `storage` | user page, 2 command lines, 2 names, 4 commands | types; `CarriesOut`, `Readable` |
| `audio_capture` | buffer of 4, chunks of 1, 3 or 4, 10 samples | `PlaysAll`, `PlaysOnce` |

The types of `VideoStream`, `AudioStream`, `ServerTasks`, `StreamConfig`, `ClientTableLocks`,
`SendLoop`, `PlayerInput` and `AudioCapture` are proved (section 5), and no run repeats them.

The bounds. Three video frames are one in progress, one behind it, and one that is a key frame
or behind that; a frame of one subpacket has only a last one, of two has a first and a last, of
three has one in between, and five leave gaps on both sides of one that came. In `session`
three clicks connect, disconnect and connect again, two sockets are the old and the new
address, and one trouble at any moment is enough to force each retry; four pairs and keys allow
a retry after each. In `server_tasks` the third display makes a second change happen while the
restart for the first is still under way; a queue of one is full after one input, so that
`Restart` has to wait. Four requests let one race with a restart that another one caused while
a third is queued, and leave room for a new X server among them. In `client_locks` the tasks are the code's four; one player is enough to be
there, to be gone, and to be asked for in each order, and two subpackets are one in the cache
and one on its way there. Four clicks are the two of one connection and the two of the next,
or three that leave two handshakes queued, or two and a change of the volume that makes the read
time out while connecting. Six events press, move, drag, release and still
leave a datagram to lose. Four commands let two processes save in turn and at once. Chunks of
1, 3 and 4 leave the buffer of 4 partly filled, fill it exactly, and overfill it.

Counters that the code does not bound are bounded by `MaxFrames`, `MaxInFlight`, `MaxRequests`,
`MaxCopies`, `MaxSockets`, `MaxPairs`, `MaxKeys`, `MaxClicks`, `MaxTrouble`, `MaxNALs`,
`MaxDisplays`, `MaxActions`, `MaxSubpackets`, `MaxUserActions`, `MaxLosses`, `MaxAttempts`,
`MaxInputs`, `MaxEvents`, `MaxCommands` and `MaxSamples`; each is a guard named where it is
declared. Deadlock is not checked, since every bounded run ends; `OperationsEnd`,
`CloseReturns` and `InputRecovers` say instead what must not get stuck.

### Premises of the properties

Each premise excludes something that the code does. What it does then is said here.

* `AssembledWhole` and `NoPanic` hold while no frame id comes round again, that is for fewer
  frames than ids. `packet.rs:543` itself warns of repeated ids. `NoPanic` also needs a
  Retransmit datagram that has room for the subpackets of any frame: beyond 593 missing ids the
  assert of `packet.rs:164` panics, since only one datagram is built, though the comment at
  `client/mod.rs:196` speaks of several.
* `DropsIncomplete` is checked for one codec: section 4 says what two do to one another.
  `OnlyLossDrops` holds until a datagram overtakes another or comes twice (`disordered`), since a
  late subpacket of an old frame abandons the one in progress (`packet.rs:354`).
* `KeyAgreement` excludes a ShookUE that was answered twice: the server then keeps the key that
  comes last, the player the one it made last, until the next reconnection.
* `PictureComes` speaks of a user who wants to be connected and a player that keeps trying.
  When it stops trying is the finding of section 4, together with `Timeout` and
  `HandshakeWithoutSocket`: a player without a socket has nothing to try with.
* `InputRecovers` needs inputs that keep coming: only an input that fails asks for a restart.
  And it needs devices that open when the input thread starts (`Devices`): otherwise the thread
  ends, the events task keeps the receiver of its queue, and after 100 inputs it waits in
  `send` for ever (`events/mod.rs:504`). `StreamFollows` needs logins and logouts that last
  until a poll sees them, which is what the changelog promises with its frequency of one second.
  One that no poll sees leaves the capturer on the old display until an input fails, and none
  does if the input was reconnected in between; errors of the capturer are only logged.
* `AgreesOrRestarts` is about resolutions that the screen has a mode for. For another one
  `update_display_resolution` changes nothing (`display.rs:51`) and the next frame's
  `copy_from_slice` panics (`video/mod.rs:474`). It allows a picture that does not fit for as
  long as a restart is to come; a frame captured in that time panics as well, which takes a
  second request between `get_meta` of a restart and its own `ConfigUpdate`. It waits for the
  restart that follows a new X server (`unaware.meta`), and it allows the picture of that restart
  to be of the mode before (`unaware.read`): section 4 has that (`SurvivesLogins`). `PictureFits` says
  that there is no third way for a frame to panic.
* `Settles` needs, besides a task that did not panic, that every new X server is followed by a
  restart, which is what `ServerTasks` is about.
* `HonoursRequest` excludes a resolution that a restart overwrote with the dimensions of its
  capturer, which takes a request between a restart and the `ConfigUpdate` before it, or an X
  server in another mode (`wish.lost`). Nobody sets it until it is asked for again.
* `TableFirst`, `WaitsAreShort` and `OperationsEnd` hold as long as no `send_to` fails. When one does, the
  broadcast task waits for a lock that it holds (`app.rs:131`, `170`), as does the events task
  (`app.rs:389`), and behind it everybody who asks for the table. `AnswersAreCached` has no
  such premise.
* `InputsGoOut`, `InputsTaken` and `NotCutOff` exclude a loop that was started beside another
  (`leaks`): Connect, Disconnect and Connect in quick succession queue two handshakes, and each
  starts one (`main.rs:448`). Then any loop may take the EOL, and the one that goes on finds the
  flag cleared and disconnects the socket it has cloned. They also exclude a Reconnect that
  succeeded without a loop (`unserved`): a change of the volume while connecting makes the thread
  read (`main.rs:522`), a read that times out sets Disconnected and queues a Reconnect
  (`main.rs:540`), the Handshake that is next is dropped (`main.rs:468`), and the Reconnect starts no
  loop (`main.rs:470`). The player then shows the picture and sends no input, its Disconnect
  waits for no one and leaves an EOL, and the loop of the next connection takes that and
  disconnects. `LoopsAccounted` and `CloseReturns` hold all the same.
* `PointerAgrees` and `KeysAgree` speak of what arrived last. A move into the corner where both
  high bytes are zero (`input.rs:176`), and a click where both low bytes are (`input.rs:149`),
  go unnoticed and count as not arrived. Nothing releases keys when a player is gone: one whose
  release got lost stays down until its next event.
* `ButtonAgrees` excludes a drag after an odd number of clicks that ended no drag (`odd`): each
  left click toggles `left_mouse_held` (`events/mod.rs:261`), and a drag with the flag set does
  not press. A click of the middle button counts, since it is sent as a left one
  (`input/mod.rs:157`); in the middle of a drag it releases the button on the desktop until the
  pointer moves on (`window.dragged`).
* `CarriesOut` excludes a list that is saved although it is not based on the last one saved, and
  `Readable` in addition a process that ends between truncating and writing (`storage.rs:168`).
  After such an end the command line fails for good, while the page goes on with no user and
  overwrites the file (`main.rs:151`). `Changed` has the rest of what the code does: the page adds a
  user twice, and `rm` removes the first of two (`cli/mod.rs:74`).
* `PlaysAll` has no premise: it says which samples are not played, namely those in `lost`. That
  is every chunk with nobody connected, whatever the encoder or the broadcast failed with, and
  every chunk that starts with 32 zero bytes, so that the first samples of a sound may be missing
  (`linux.rs:125` to 142, whose comments know it). `PlaysOnce` excludes the order after PCM has
  overtaken what the encoder kept. A chunk longer than the buffer fails the assert of
  `encoder.rs:57` (`CaptureAssumption`).

### Fairness

Tasks and threads run on, so each step of theirs is weakly fair (`PlayerStep`, `Answered`,
`EventsTask`, `Filter`, `SendFrame`, `ActionStep`, the polls, `FinishSending`,
`SendConfigUpdate`, the input thread's steps). Datagrams on their way arrive unless the model
loses them, and losses are bounded. `GiveUp` is strongly fair: the code counts 100 packets and
the model does not. `HandleRestartInput` is strongly fair: the `select!` of the events task is
biased towards datagrams (`events/mod.rs:544`), but the inputs of people leave gaps, so the
other channel is read again and again. `StartDisplay` and `UpdateWho` are weakly fair: a display
manager starts a next X server and `who` catches up. The ping of a socket that is no longer the
player's grows old. In `ClientTableLocks` each task's steps inside an operation are weakly fair:
tokio gives the lock to whoever waits first, and tasks run on; that an operation begins is not
fair. In `SendLoop` the threads' steps and the return from `close_send_loop` are weakly fair,
the outcome of a handshake is open. User actions, logins, requests, frames, losses and restarts
of the server are never fair. `VideoStream`, `AudioStream` and `PlayerInput` state no liveness,
since UDP may lose everything; neither do `Storage` and `AudioCapture`, where nothing waits.

## 4. What the code does otherwise than it says

`Reconnects` (run `session_gives_up`): on a silence the player logs "Lost Connection,
Reconnecting..." (`mrial_player/src/main.rs:541`) and makes one attempt. Any video packet that
comes in place of ShookUE ends it (`client/mod.rs:351`); the packet that `main.rs:482` then goes
on to receive ends the iteration, and no further attempt is queued. The player stays idle with
its socket open.

Three more disagreements are not runs of their own; with the change that is named TLC shows each.
What holds in spite of them is what the runs check and section 5 proves.

`DropsOutOfOrder` (as an invariant of `AudioUdp.cfg`): `PacketConstructor` "drops frames that are
out of order" (`packet.rs:304`). It does not know which order they were sent in: any id but that
of the frame in progress starts a new frame (`packet.rs:354`), also an older one, and when that is
complete it is handed over. Two datagrams that swap their places are two frames in the wrong
order, and one that comes twice is played twice. `AudioInOrder` proves that frames come in order
until something overtakes.

`DropsIncomplete` with two codecs (`Codecs <- BothCodecs` in `AudioUdp.cfg`): it "drops any frames
that dont't arrive completely or are missing" (`packet.rs:303`). PCM and Opus frames count their
ids for themselves (`app.rs:219`), and the player's one constructor tells frames by their id
(`mrial_player/src/audio/mod.rs:159`). `flush_raw` sends PCM between Opus frames; when the end of
a PCM frame is lost, an Opus frame with its id completes it. The mixture is handed over, and
cannot be decrypted.

`SurvivesLogins` (as an invariant of `StreamConfig.cfg`): since 0.1.18 there is "Logout detection
with 1 second frequency" (`CHANGELOG.md:23`), where before "the server crashes when you log out"
(`CHANGELOG.md:35`). `restart_stream` reads `ServerMeta` (`video/mod.rs:207`) before it stores the
dimensions of the new capturer (211), and opens encoder and picture with what it read (215,
232). If the X server of the login or logout comes up in another mode than the last one had,
capturer and picture differ, no restart is to come, and the next frame's `copy_from_slice`
panics (474). `AgreesOrRestarts` says that only such a restart leaves a picture that does not fit.

## 5. What is proved

Every invariant and every safety property of steps that a run checks is a theorem, too. The
theorems hold for all values of the constants under the modules' assumptions, which only give
their types (positive sizes, non-empty sets, `Unset` not a resolution, keys that are not called
pointer or button). Five hypotheses beyond that are stated with the theorems that need them:

* `MaxFrames < FrameIds`: no frame id comes round again. It is the premise of section 3.
* `RoomForAll`: a Retransmit datagram has room for the subpackets of every frame.
* `OneCodec` (audio): one codec has the assembler to itself, and no id comes round.
* `FifoNetwork` (video): the network may lose datagrams, as many as it likes, but neither reorders
  nor duplicates them. This is the instance of the run `video_fifo`, for every number and size of
  frames. For audio there is no such hypothesis: `disordered` says when it ceases to be so.
* `Resolutions \subseteq Modes`: every resolution asked for is one the screen has a mode for.

The arguments, module by module:

**`VideoStreamProofs`.** `TypeCorrect`, `SlotsCorrect`, `QueueCorrect` and `StalledCorrect` rest on
`Inv`: `TypeOK`, `AssemblerInv` (the conjunction of the three properties, which need one
another: `QueueHoldsOthers` makes what is fed back start a new frame, `SlotsMatchFrame` gives the
missing ids their range) and `UnsentOfFrame`, which ties the countdown of the deployer to its
frame. Each helper of `assemble_packet` has a lemma (`StartFrameFacts`, `OpenedFacts`,
`StoredFacts`, `AskFacts`, ...), and so has each outcome and each action of `Next`.

* `FramesWhole` and `ReceiverSafe`: `AssembledWhole` alone is not inductive. `OnlyGenuine` says
  that all that is in flight, postponed, cached or under assembly was cut from a deployed frame.
* `AsksCorrect` is about steps: what `ask_retransmit` adds is among what the frame misses, and
  what arrives meanwhile leaves the requests before its number leaves the frame.
* `RequestsSent`: that what is missing was sent follows from the order in which NALs come.
  `OrderInv` says that what is fed back, postponed and on its way comes in the order of sending
  (`LineInv`), that what came of the frame under assembly lies before all that (`ProgressInv`), and
  so does what is asked for (`RequestsPast`); and that what was sent is cached or was drained
  (`CacheInv`).
* `DeliveredInOrder` is the refinement: the initial state and every step of `VideoStream` map to
  `FrameDelivery` by `frames`, `arrived` and `assembled`. `DeliveryInv` adds to `OrderInv` that the frames
  handed over lie before the one in progress (`AssembledPast`), and that each frame of which a NAL
  came was decoded, is waiting, or was given up for a later key frame (`Accounted`).

**`AudioStreamProofs`.** `AudioTypeCorrect` holds for every network and any codecs.
`AudioDropsIncomplete` and `AudioNeverPanics` hold for one codec on every network: `WholeInv` says that all
that is in flight was cut from a deployed frame (`Genuine`), and that a slot of the frame in
progress that is not missing holds data of that very frame (`OfFrame`), whatever the buffer held
before it was resized. `AudioOnlyLossDrops` and `AudioInOrder` hold for one codec until something
overtakes (`disordered`). Until then `DeliveryInv` ties what came (`received`), what is on its way and what is still unsent to one order (`InOrder`); says
that the frame in progress has exactly what came of it (`InProgress`); and that a frame of which
something came last is in progress or has its last subpacket (`LastIsOpen`), so that the first
subpacket of the next frame abandons nothing but frames that lost one.

**`SessionProofs`.** `SessionTypeCorrect`, `KeysAgree`, `EstablishedOnlyByServer`. `KeyAgreement` is
about the end of a handshake; its invariant `KeysInv` is about all that may still be on its way
from handshakes before: a ShakeAE with a later key was sent from a later socket
(`AnswersOrdered`), the table's entries have the same order (`EntriesOrdered`), and once the
player's last key is installed no ShakeAE with an older one decrypts any more (`LastKeyWins`),
because each `initialize_client` draws a new key pair; unless one ShookUE came twice. `Quiet` has what all the other steps have in
common, and its lemma takes most actions in one go.

**`ServerTasksProofs`.** `TasksTypeCorrect`, `FlagIsReset`, `StreamComesBack`. `TasksInv` adds to the
properties that a display that ended leaves room for the next one, and that only a running
thread has its flag set: without the latter a thread that is started afresh could inherit a flag
that nobody resets.

**`PlayerControlsProofs`.** For `StreamConfig`: `ConfigTypeCorrect`, `EncoderCorrect`,
`RequestHonoured`, `StreamAgrees`, and `PictureFits`. `EncoderCorrect` needs `ParamOpened`, since a
restart that fails half-way has changed `par` already and `Inactive` opens the encoder with it.
The others need `FollowedUp` (a mode in `ServerMeta` that the screen has not got has its
`ConfigUpdate` still to come, or is from before the X server; and so has whatever was stored since
a restart under way read it) and `Servers` (the capturer of a restart under way is of the X server
there is, or the next one is not known yet; a capturer that gives frames is of an X server that
`ServerMeta` knows). `RequestHonoured` adds `WishStored`; `PictureFits` adds `Panic`, which follows the
task after it panicked.

For `PlayerInput`: `InputTypeCorrect`, `KeysDoAgree`, `PointerDoesAgree`, `ButtonDoesAgree`. The
properties speak of an empty network only. `Tracked` says for each key, the pointer and the
button what holds before: the last datagram on its way that tells of it shows the window as it
is (`Told`), and if none tells of it the desktop agrees already. It is kept by every change of
the queue: `EmitTracks` for what is sent, `LoseTracks` for what gets lost anywhere in it, `HandleStep`
for what is handled. The button needs in addition that `left_mouse_held` differs from the
button only while `odd` (`HeldCounts`), and that a button that is down outside the picture counts as
unknown (`DraggedOut`), since `capture` returns early there when it is released.

**`SharedDataProofs`.** For `ClientTableLocks`: `LocksTypeCorrect`, `TableIsTakenFirst`,
`NobodyIsStuck`, `RequestsFindTheirSubpackets`. `TableFirst` is about waiting, and is not inductive: it does not
say who can hold what. The lemmas say for each place in an operation exactly what a task there
holds and waits for (`PlaceFits`), that a task is in a queue only once, and that a writer is
alone. `NobodyIsStuck` follows the waiting from there: the head of a queue gets its lock unless
somebody has it (`HeadGoesOn`), who has the cache waits for nothing, and who has the table waits for
nothing but the cache. `AnswersAreCached` needs that what was sent is cached, drained or about to be cached by
the broadcast task (`SentKept`), and that numbers count up (`Counted`).

For `Storage`: `StorageTypeCorrect`, `CommandsAreCarriedOut`, `FileStaysReadable`. What a process has in
memory is what it loaded, and the command it saves (`ListsFollow`). Without a conflict one process
writes at a time, it started from what all commands so far come to, and the file is truncated
as long (`OneWriter`). Thus what it writes in the end is `done` with its own command.

**`SendLoopProofs`.** `LoopTypeCorrect`, `LoopsAreAccounted`, `LoopsServe`, `OnlyTheClosedDisconnect`.
The number of loops that have not ended is compared before and after each step by lemmas about
finite sets. `NotCutOff` is about the step in which a thread says goodbye. As long as no loop was
started beside another and no Reconnect succeeded without one (`Undisturbed`), there is one EOL
at most, and it is in the channel or taken only while `close_send_loop` waits (`EndsAreOwn`); and a
client that is connected has its loop running, on its own socket (`LoopServes`), which is
`InputsGoOut` and what makes an EOL find its taker.

**`AudioCaptureProofs`.** `CaptureTypeCorrect`, `AllIsPlayed`, `EachIsPlayedOnce`. `PlaysAll` and
`PlaysOnce` speak of sequences put together; `SamplesInv` says the same place by place of what was
played and what is kept, and `Accounted` of their sets: each captured sample is in one of played,
kept and lost. The lemmas say what `Overwritten`, `Filled` and `Rest` leave in the buffer, for
any chunk, and `FrameStep`, `KeepStep` and `LossStep` do what the actions have in common.

Each inductive invariant was checked by TLC on the instance of its run before it was proved.

Only model-checked: liveness, since fairness and `ENABLED` are out of the prover's reach
(`PictureComes`, `ServerForgets`, `InputRecovers`, `StreamFollows`, `Settles`,
`OperationsEnd`, `CloseReturns`, `InputsTaken`). Nothing is proved by induction over data.

## 6. What is not modelled

* `WebConnection` is work in progress, and WebRTC is a library.
* `XOR` redundancy is switched off in every deployer.
* Of the payload formats only the bytes of an input that others are told from are modelled;
  envelopes and their encryption are the key that opens them.
* Of the player's inputs, scrolling and the bytes it shares with others are left out; of its
  user interface, the control panel's volume and the pages that connect, disconnect and edit
  users are modelled.
* `load` turns every failing `File::open` into an empty list (`storage.rs:110`). `Storage` has the
  file that is missing; one that is there and cannot be opened would be overwritten by the next
  save.
* The servers' file of the player goes through the same `StorageMulti` as the users' file, with
  one process only.
* Colour conversion and calls to X11, PipeWire, x264 and libyuv have no behaviour over time that
  the properties tell apart. A frame's bytes are their origin.
* Which players are muted changes which packets are sent, and no other state: it is left open.
* `env::set_var` in a process with several threads is modelled as an atomic step
  (`video/session.rs:41`); the race inside the C library is not.
* The wrap-around of the one-byte frame id, which panics in a build with overflow checks
  (`deploy.rs:66`), is outside the bounds of the runs and the assumptions of the proofs.
* `update_display_resolution` unwraps `XHandle::open` (`display.rs:38`): a `ConfigUpdate` between two
  X servers panics. `StreamConfig` has an X server at any time.
* A ping that cannot be sent (`mrial_player/src/video/mod.rs:396`), which panics.

## 7. Status

The modules of section 2 reach from the video stream and the connection over the tasks of the
server to the files, the inputs and the sample buffer. What could come next:

1. `ServerTasks` composed with `StreamConfig`, so that a capturer's failure and a request for a
   resolution meet. Each would have to be cut down first, for TLC to cover their product.
2. Frame ids that come round: nothing in the repository says what should hold then.
3. What the other liveness properties rest on, as theorems about safety, as `NobodyIsStuck` is
   for `OperationsEnd` and `StreamAgrees` for `Settles`: for `InputsTaken` that only a running loop
   is fed; for `PictureComes` that a player that waits is answered or has a retry queued.
4. The refinement of `FrameDelivery` over a network that reorders within a frame.

## 8. Running it

    tlc -config VideoUdp.cfg MCVideoStream      # one row of the table in section 3
    tlapm VideoStreamProofs.tla                 # all obligations of a module

Each run's module and configuration are in `PROJECT.json`.
