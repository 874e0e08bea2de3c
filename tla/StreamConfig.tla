----------------------------- MODULE StreamConfig -----------------------------
(***************************************************************************)
(* The configuration of the stream: EventsTask stores what players ask for in *)
(* ServerMeta (mrial_server/src/conn/mod.rs, events/mod.rs), VideoServerTask  *)
(* sets the screen's mode, opens capturer, encoder and picture and stores the *)
(* capturer's dimensions in ServerMeta, too (video/mod.rs).  A login or logout *)
(* may bring a new X server, whose screen comes up in a mode of its own.       *)
(***************************************************************************)
EXTENDS Naturals, Sequences, SequencesExt

CONSTANTS
  Modes,        \* resolutions the screen can be set to
  Resolutions,  \* resolutions the players ask for
  Unset,        \* 0x0, what a player asks for before its user chose any
  Csps,         \* EColorSpace
  MaxRequests   \* bound: requests of the players, new X servers, restarts for a session

ASSUME ConfigAssumption ==
  /\ Modes # {} /\ Csps # {} /\ MaxRequests \in Nat
  /\ Unset \notin Modes \union Resolutions

NoCapturer == [server |-> 0, dim |-> Unset]

VARIABLES
  meta,      \* ServerMeta: resolution and colour space
  pending,   \* EventsTask stored a request and is about to send ConfigUpdate
  actions,   \* the channel of VideoServerAction
  screen,    \* the primary display: number of the X server, resolution
  video,     \* VideoServerTask: where it is, capturer, encoder and picture
  panicked,  \* a plane did not fit the picture
  requests,  \* history: how many requests there were
  wish,      \* history: the last request, and if set_dimensions overwrote it
  unaware    \* history: an X server came up since ServerMeta agreed with the screen (meta);
             \* the last restart read ServerMeta then (read)

vars == <<meta, pending, actions, screen, video, panicked, requests, wish, unaware>>
history == <<wish, unaware>>

Config == [dim : Modes \union Resolutions \union {Unset}, csp : Csps]
Screens == [server : Nat \ {0}, dim : Modes]

\* A capturer is what it was opened on.  opened, read: the new capturer and the server_meta
\* of restart_stream; param: par, with which the picture and the encoder are opened.
Init ==
  /\ \E dim \in Modes, csp \in Csps :
       /\ screen = [server |-> 1, dim |-> dim]
       /\ meta = [dim |-> dim, csp |-> csp]
       /\ video = [at |-> "Loop", capturer |-> screen, opened |-> screen, read |-> meta,
                   param |-> meta, encoder |-> meta, picture |-> meta]
       /\ wish = [dim |-> dim, lost |-> FALSE]
  /\ pending = FALSE /\ actions = <<>> /\ panicked = FALSE
  /\ requests = 0
  /\ unaware = [meta |-> FALSE, read |-> FALSE]

-------------------------------------------------------------------------------
(* EventsTask.                                                                 *)

Store(dim, csp) ==
  /\ ~pending /\ requests < MaxRequests
  /\ meta' = [dim |-> dim, csp |-> csp]
  /\ requests' = requests + 1
  /\ wish' = [dim |-> dim, lost |-> FALSE]

\* Mutant of NeedsRestart: compared after the assignments.
NeedsRestartNever(dim, csp) == FALSE

NeedsRestart(dim, csp) == meta.dim # dim \/ meta.csp # csp

\* A connecting client: always followed by ConfigUpdate.
HandleShakeAE(dim, csp) ==
  /\ Store(dim, csp)
  /\ pending' = TRUE
  /\ UNCHANGED <<actions, screen, video, panicked, unaware>>

HandleClientState(dim, csp) ==
  /\ Store(dim, csp)
  /\ pending' = NeedsRestart(dim, csp)
  /\ UNCHANGED <<actions, screen, video, panicked, unaware>>

SendConfigUpdate ==
  /\ pending
  /\ pending' = FALSE
  /\ actions' = Append(actions, "ConfigUpdate")
  /\ UNCHANGED <<meta, screen, video, panicked, requests, history>>

\* Disconnect of the last client.
SendInactive ==
  /\ ~pending /\ requests < MaxRequests
  /\ requests' = requests + 1
  /\ actions' = Append(actions, "Inactive")
  /\ UNCHANGED <<meta, pending, screen, video, panicked, history>>

-------------------------------------------------------------------------------
(* Logins and logouts, see ServerTasks.                                        *)

\* The old capturer has no display any more, and frame() fails until a restart.
NewDisplay(dim) ==
  /\ requests < MaxRequests
  /\ requests' = requests + 1
  /\ screen' = [server |-> screen.server + 1, dim |-> dim]
  /\ unaware' = [unaware EXCEPT !.meta = TRUE]
  /\ UNCHANGED <<meta, pending, actions, video, panicked, wish>>

\* A poll, or an input that failed, restarts the session: at any time, more than once for
\* one display, or never.
RestartForSession ==
  /\ ~panicked /\ video.at = "Loop" /\ requests < MaxRequests
  /\ requests' = requests + 1
  /\ actions' = Append(actions, "RestartStream")
  /\ UNCHANGED <<meta, pending, screen, video, panicked, history>>

-------------------------------------------------------------------------------
(* VideoServerTask: handle_server_action.                                      *)

Handles(action) ==
  /\ ~panicked /\ video.at = "Loop" /\ actions # <<>> /\ Head(actions) = action
  /\ actions' = Tail(actions)

\* update_display_resolution leaves the screen alone if there is no such mode.
HandleConfigUpdate ==
  /\ Handles("ConfigUpdate")
  /\ IF meta.dim \in Modes
     THEN screen' = [screen EXCEPT !.dim = meta.dim] /\ unaware' = [unaware EXCEPT !.meta = FALSE]
     ELSE UNCHANGED <<screen, unaware>>
  /\ video' = [video EXCEPT !.at = "SendRestartStream"]
  /\ UNCHANGED <<meta, pending, panicked, requests, wish>>

SendRestartStream ==
  /\ video.at = "SendRestartStream"
  /\ actions' = Append(actions, "RestartStream")
  /\ video' = [video EXCEPT !.at = "Loop"]
  /\ UNCHANGED <<meta, pending, screen, panicked, requests, history>>

\* x264 refuses a picture of no size.
EncoderOpens(param) == param.dim # Unset

\* Mutant of HandleInactive: opened with what ServerMeta says now.
HandleInactiveWithMeta ==
  /\ Handles("Inactive")
  /\ video' = IF EncoderOpens(meta) THEN [video EXCEPT !.encoder = meta] ELSE video
  /\ UNCHANGED <<meta, pending, screen, panicked, requests, history>>

HandleInactive ==
  /\ Handles("Inactive")
  /\ video' = IF EncoderOpens(video.param) THEN [video EXCEPT !.encoder = video.param]
              ELSE video
  /\ UNCHANGED <<meta, pending, screen, panicked, requests, history>>

\* restart_stream up to get_meta: the old capturer is dropped, the new one is only
\* kept when everything else went well.
BeginRestartStream ==
  /\ Handles("RestartStream")
  /\ video' = [video EXCEPT !.at = "SetDimensions", !.capturer = NoCapturer,
                            !.opened = screen, !.read = meta]
  /\ unaware' = [unaware EXCEPT !.read = unaware.meta]
  /\ UNCHANGED <<meta, pending, screen, panicked, requests, wish>>

\* Encoder and picture are opened with what was read, whatever the capturer's size.
OpenEncoder ==
  video' = IF EncoderOpens(video.read)
           THEN [video EXCEPT !.at = "Loop", !.capturer = video.opened, !.param = video.read,
                              !.encoder = video.read, !.picture = video.read]
           ELSE [video EXCEPT !.at = "SendRestartStream", !.param = video.read]

\* Mutant of FinishRestartStream: the capturer's dimensions are not stored.
FinishWithoutDimensions ==
  /\ video.at = "SetDimensions"
  /\ OpenEncoder
  /\ UNCHANGED <<meta, pending, actions, screen, panicked, requests, history>>

\* set_dimensions, with which ServerMeta knows the display of the new capturer, and the rest.
FinishRestartStream ==
  /\ video.at = "SetDimensions"
  /\ meta' = [meta EXCEPT !.dim = video.opened.dim]
  /\ OpenEncoder
  /\ wish' = [wish EXCEPT !.lost = @ \/ wish.dim # video.opened.dim]
  /\ unaware' = [unaware EXCEPT !.meta = @ /\ video.opened.server # screen.server]
  /\ UNCHANGED <<pending, actions, screen, panicked, requests>>

\* A frame is captured once no action is left: its planes are copied into those of
\* the picture, which copy_from_slice only does for equal lengths.
Fits == video.picture.dim = video.capturer.dim

Frame ==
  /\ ~panicked /\ video.at = "Loop" /\ actions = <<>>
  /\ video.capturer.server = screen.server
  /\ panicked' = ~Fits
  /\ UNCHANGED <<meta, pending, actions, screen, video, requests, history>>

-------------------------------------------------------------------------------
Asked == Resolutions \union {Unset}

ActionStep ==
  \/ HandleConfigUpdate \/ SendRestartStream \/ HandleInactive
  \/ BeginRestartStream \/ FinishRestartStream

Next ==
  \/ \E dim \in Asked, csp \in Csps : HandleShakeAE(dim, csp) \/ HandleClientState(dim, csp)
  \/ SendConfigUpdate \/ SendInactive
  \/ (\E dim \in Modes : NewDisplay(dim)) \/ RestartForSession
  \/ ActionStep \/ Frame

Spec == Init /\ [][Next]_vars

\* Both tasks run on; frames are captured only while a client is connected.
FairSpec == Spec /\ WF_vars(SendConfigUpdate) /\ WF_vars(ActionStep)

-------------------------------------------------------------------------------
(* Properties.                                                                 *)

\* The types of the tasks' state and channel.
TypeOK ==
  /\ meta \in Config
  /\ pending \in BOOLEAN /\ panicked \in BOOLEAN
  /\ actions \in Seq({"ConfigUpdate", "RestartStream", "Inactive"})
  /\ screen \in Screens
  /\ video \in [at : {"Loop", "SendRestartStream", "SetDimensions"},
                capturer : Screens \union {NoCapturer}, opened : Screens,
                read : Config, param : Config, encoder : Config, picture : Config]
  /\ requests \in 0..MaxRequests
  /\ wish \in [dim : Modes \union Asked, lost : BOOLEAN]
  /\ unaware \in [meta : BOOLEAN, read : BOOLEAN]

\* A restart of the stream is queued or under way, or a ConfigUpdate, which brings one.
RestartComing ==
  \/ pending \/ video.at # "Loop"
  \/ Contains(actions, "ConfigUpdate") \/ Contains(actions, "RestartStream")

\* ServerMeta, screen, capturer and picture agree unless a restart is to come: a request
\* that got in between get_meta and set_dimensions is followed by ConfigUpdate, and what
\* HandleClientState finds in ServerMeta already is on the screen, or will be.  With a new X
\* server this waits for the restart of the session; and as that reads ServerMeta before it
\* stores the new mode, the picture is of the old one until the next restart.
Agree ==
  /\ video.capturer = screen /\ meta.dim = screen.dim
  /\ video.picture.csp = meta.csp
  /\ video.picture.dim = meta.dim \/ unaware.read

AgreesOrRestarts == RestartComing \/ unaware.meta \/ Agree

\* The encoder takes the pictures it is given, however Inactive, which opens it anew,
\* and restarts that fail half-way alternate.
EncoderFitsPicture == video.encoder = video.picture

\* In the end ServerMeta, screen, capturer and picture agree, after requests of no
\* size, too, if each new X server is followed by a restart.
Settles == [](~panicked) /\ <>[](~unaware.meta) => <>[]Agree

\* A resolution that is asked for, and that the screen has, is set: it is lost to nothing but
\* the set_dimensions of a restart, or to a new X server that no restart has followed yet.
HonoursRequest ==
  RestartComing \/ wish.lost \/ unaware.meta \/ wish.dim \notin Modes \/ screen.dim = wish.dim

\* What CHANGELOG 0.1.18 says: VideoServerTask lives through logins and logouts. A frame does not
\* fit the picture, if ever, while a request has its ConfigUpdate to come. It is not so: a
\* restart opens the picture with the mode of the X server before.
SurvivesLogins == panicked => RestartComing
===============================================================================
