------------------------- MODULE PlayerControlsProofs -------------------------
(***************************************************************************)
(* Proofs about StreamConfig and PlayerInput: what the player's user sets and *)
(* does, and how the server follows it; for all resolutions, colour spaces,    *)
(* positions and keys, and any number of requests and events.                 *)
(***************************************************************************)
EXTENDS StreamConfig, PlayerInput, SequenceTheorems, TLAPS


-------------------------------------------------------------------------------
(* What the channels keep.                                                     *)

\* What is sent into a channel is in it, with what was there before.
LEMMA SentIsThere ==
  ASSUME NEW S, NEW q \in Seq(S), NEW item \in S, NEW e
  PROVE  Contains(Append(q, item), e) <=> Contains(q, e) \/ item = e
<1>1. Contains(q, e) => Contains(Append(q, item), e)
  BY DEF Contains
<1>2. item = e => Contains(Append(q, item), e)
  <2>. SUFFICES ASSUME item = e PROVE Contains(Append(q, item), e)
    OBVIOUS
  <2>1. Len(q) + 1 \in 1..Len(Append(q, item)) /\ Append(q, item)[Len(q) + 1] = e
    OBVIOUS
  <2>. QED BY <2>1 DEF Contains
<1>3. Contains(Append(q, item), e) => Contains(q, e) \/ item = e
  BY DEF Contains
<1>. QED BY <1>1, <1>2, <1>3

\* What is received from a channel is its head; the rest stays.
LEMMA RestStays ==
  ASSUME NEW S, NEW q \in Seq(S), q # <<>>, NEW e, Head(q) # e, Contains(q, e)
  PROVE  Contains(Tail(q), e)
<1>1. PICK i \in 1..Len(q) : q[i] = e
  BY DEF Contains
<1>2. i # 1
  BY <1>1
<1>3. i - 1 \in 1..Len(Tail(q)) /\ Tail(q)[i - 1] = e
  BY <1>1, <1>2
<1>. QED BY <1>3 DEF Contains

-------------------------------------------------------------------------------
(* The inductive invariant.                                                    *)

Kinds == {"ConfigUpdate", "RestartStream", "Inactive"}

\* A ConfigUpdate is queued or about to be.
UpdateComing == pending \/ Contains(actions, "ConfigUpdate")

\* A mode that ServerMeta has and the screen has not is followed by a ConfigUpdate or came
\* before the X server, and what restart_stream has not read any more is followed by a
\* ConfigUpdate.
FollowedUp ==
  /\ meta.dim \in Modes /\ meta.dim # screen.dim => UpdateComing \/ unaware.meta
  /\ video.at = "SetDimensions" /\ video.read # meta => UpdateComing

\* A restart opens the capturer on the X server there is, unless another comes up meanwhile;
\* and no capturer is of an X server that ServerMeta does not know.
Servers ==
  /\ video.capturer.server <= screen.server /\ video.opened.server <= screen.server
  /\ video.at = "SetDimensions" =>
       \/ video.opened = screen /\ unaware.read = unaware.meta
       \/ video.opened.server < screen.server /\ unaware.meta
  /\ unaware.meta => video.capturer.server # screen.server

\* ServerMeta has the last request until set_dimensions overwrites it.
WishStored == wish.lost \/ meta.dim = wish.dim

\* A task that panicked gets no further, with a request to be followed or with a picture of
\* the mode before.
Panic == panicked => video.at = "Loop" /\ (UpdateComing \/ unaware.read)

\* par is what encoder and picture were opened with, unless it did not open.
ParamOpened == EncoderOpens(video.param) => video.param = video.picture

EncoderInv == TypeOK /\ EncoderFitsPicture /\ ParamOpened
RestartInv == EncoderInv /\ FollowedUp /\ Servers /\ WishStored
AgreeInv == RestartInv /\ AgreesOrRestarts /\ Panic

\* The types of what is not the video task's.
EventsType ==
  /\ meta \in Config /\ pending \in BOOLEAN /\ actions \in Seq(Kinds)
  /\ screen \in Screens /\ requests \in 0..MaxRequests
  /\ wish \in [dim : Modes \union Asked, lost : BOOLEAN]
  /\ unaware \in [meta : BOOLEAN, read : BOOLEAN]

VideoType == [at : {"Loop", "SendRestartStream", "SetDimensions"},
              capturer : Screens \union {NoCapturer}, opened : Screens,
              read : Config, param : Config, encoder : Config, picture : Config]

LEMMA TypeParts == TypeOK <=> EventsType /\ video \in VideoType /\ panicked \in BOOLEAN
  BY DEF TypeOK, EventsType, VideoType, Kinds

-------------------------------------------------------------------------------
(* The channel of VideoServerAction.                                           *)

\* Sending an action leaves the others in the channel.
LEMMA SendKeeps ==
  ASSUME TypeOK, NEW action \in Kinds, actions' = Append(actions, action)
  PROVE  /\ actions' \in Seq(Kinds) /\ Contains(actions', action)
         /\ \A e : Contains(actions, e) => Contains(actions', e)
<1>1. actions \in Seq(Kinds)
  BY DEF TypeOK, Kinds
<1>2. \A e : Contains(Append(actions, action), e) <=> Contains(actions, e) \/ action = e
  BY <1>1, SentIsThere
<1>. QED BY <1>1, <1>2

\* Taking an action leaves the others in the channel.
LEMMA HandlesKeeps ==
  ASSUME TypeOK, NEW action, Handles(action)
  PROVE  /\ actions' \in Seq(Kinds) /\ video.at = "Loop"
         /\ \A e : e # action /\ Contains(actions, e) => Contains(actions', e)
<1>1. actions \in Seq(Kinds) /\ actions # <<>> /\ Head(actions) = action
  BY DEF TypeOK, Kinds, Handles
<1>. QED BY <1>1, RestStays DEF Handles

-------------------------------------------------------------------------------
(* Types, encoder and picture.                                                 *)

\* Everything but the video task: players, EventsTask, logins and logouts.
EventsStep ==
  \/ \E dim \in Asked, csp \in Csps : HandleShakeAE(dim, csp) \/ HandleClientState(dim, csp)
  \/ SendConfigUpdate \/ SendInactive
  \/ (\E dim \in Modes : NewDisplay(dim)) \/ RestartForSession

\* At first everything agrees with the screen.
LEMMA InitConfig == Init => AgreeInv
<1>. SUFFICES ASSUME Init PROVE AgreeInv
  OBVIOUS
<1>1. PICK dim \in Modes, csp \in Csps :
        /\ screen = [server |-> 1, dim |-> dim]
        /\ meta = [dim |-> dim, csp |-> csp]
        /\ video = [at |-> "Loop", capturer |-> screen, opened |-> screen, read |-> meta,
                    param |-> meta, encoder |-> meta, picture |-> meta]
        /\ wish = [dim |-> dim, lost |-> FALSE]
  BY DEF Init
<1>2. /\ pending = FALSE /\ actions = <<>> /\ panicked = FALSE /\ requests = 0
      /\ unaware = [meta |-> FALSE, read |-> FALSE]
  BY DEF Init
<1>3. meta \in Config /\ screen \in Screens /\ 0 \in 0..MaxRequests
      /\ wish \in [dim : Modes \union Asked, lost : BOOLEAN]
  BY <1>1, ConfigAssumption DEF Config, Screens
<1>4. video \in VideoType
  BY <1>1, <1>3 DEF VideoType
<1>5. actions \in Seq(Kinds)
  BY <1>2
<1>6. TypeOK
  BY <1>2, <1>3, <1>4, <1>5, TypeParts DEF EventsType
<1>7. /\ video.at = "Loop" /\ video.capturer = screen /\ video.opened = screen
      /\ video.read = meta /\ video.param = meta /\ video.encoder = meta
      /\ video.picture = meta /\ meta.dim = screen.dim /\ screen.server = 1
      /\ wish.dim = meta.dim /\ ~unaware.meta
  BY <1>1, <1>2
<1>8. EncoderInv
  BY <1>6, <1>7 DEF EncoderInv, EncoderFitsPicture, ParamOpened
<1>9. FollowedUp /\ Servers /\ WishStored
  BY <1>7 DEF FollowedUp, Servers, WishStored
<1>10. AgreesOrRestarts /\ Panic
  BY <1>2, <1>7 DEF AgreesOrRestarts, Agree, Panic
<1>. QED BY <1>8, <1>9, <1>10 DEF AgreeInv, RestartInv

\* A request is stored.
LEMMA StoreFacts ==
  ASSUME EventsType, NEW dim \in Asked, NEW csp \in Csps, Store(dim, csp)
  PROVE  meta' \in Config /\ requests' \in 0..MaxRequests
         /\ wish' \in [dim : Modes \union Asked, lost : BOOLEAN]
  BY ConfigAssumption DEF EventsType, Store, Asked, Config

\* EventsTask and the X servers keep the types and leave the video task alone.
LEMMA EventsKeepType ==
  ASSUME TypeOK, EventsStep
  PROVE  TypeOK' /\ UNCHANGED <<video, panicked>>
<1>1. UNCHANGED <<video, panicked>>
  BY DEF EventsStep, HandleShakeAE, HandleClientState, SendConfigUpdate, SendInactive,
     NewDisplay, RestartForSession
<1>2. EventsType /\ MaxRequests \in Nat
  BY TypeParts, ConfigAssumption
<1>3. EventsType'
  <2>1. CASE \E dim \in Asked, csp \in Csps :
               HandleShakeAE(dim, csp) \/ HandleClientState(dim, csp)
    <3>1. PICK dim \in Asked, csp \in Csps :
            HandleShakeAE(dim, csp) \/ HandleClientState(dim, csp)
      BY <2>1
    <3>2. Store(dim, csp) /\ UNCHANGED <<actions, screen, unaware>> /\ pending' \in BOOLEAN
      BY <3>1 DEF HandleShakeAE, HandleClientState, NeedsRestart
    <3>3. /\ meta' \in Config /\ requests' \in 0..MaxRequests
          /\ wish' \in [dim : Modes \union Asked, lost : BOOLEAN]
      BY <1>2, <3>2, StoreFacts
    <3>. QED BY <1>2, <3>2, <3>3 DEF EventsType
  <2>2. CASE SendConfigUpdate
    <3>1. actions' \in Seq(Kinds)
      BY <2>2, SendKeeps DEF SendConfigUpdate, Kinds
    <3>. QED BY <1>2, <2>2, <3>1 DEF EventsType, SendConfigUpdate, history
  <2>3. CASE SendInactive
    <3>1. actions' \in Seq(Kinds)
      BY <2>3, SendKeeps DEF SendInactive, Kinds
    <3>. QED BY <1>2, <2>3, <3>1 DEF EventsType, SendInactive, history
  <2>4. CASE \E dim \in Modes : NewDisplay(dim)
    <3>1. PICK dim \in Modes : NewDisplay(dim)
      BY <2>4
    <3>2. unaware' \in [meta : BOOLEAN, read : BOOLEAN]
      BY <1>2, <3>1 DEF EventsType, NewDisplay
    <3>3. screen.server + 1 \in Nat \ {0}
      <4>1. screen.server \in Nat
        BY <1>2 DEF EventsType, Screens
      <4>. QED BY <4>1
    <3>4. screen' \in Screens
      BY <3>1, <3>3 DEF Screens, NewDisplay
    <3>. QED BY <1>2, <3>1, <3>2, <3>4 DEF EventsType, NewDisplay
  <2>5. CASE RestartForSession
    <3>1. actions' \in Seq(Kinds)
      BY <2>5, SendKeeps DEF RestartForSession, Kinds
    <3>. QED BY <1>2, <2>5, <3>1 DEF EventsType, RestartForSession, history
  <2>. QED BY <2>1, <2>2, <2>3, <2>4, <2>5 DEF EventsStep
<1>. QED BY <1>1, <1>3 DEF TypeOK, EventsType, Kinds

LEMMA EventsKeepEncoder ==
  ASSUME EncoderInv, EventsStep
  PROVE  EncoderInv' /\ UNCHANGED <<video, panicked>>
BY EventsKeepType DEF EncoderInv, EncoderFitsPicture, ParamOpened, EncoderOpens

\* The video task opens encoder and picture with the same par, and keeps both if the
\* encoder refuses it.
LEMMA ActionKeepsEncoder ==
  ASSUME EncoderInv, ActionStep
  PROVE  EncoderInv' /\ UNCHANGED <<pending, requests, panicked>>
<1>1. /\ EventsType /\ video \in VideoType /\ panicked \in BOOLEAN
      /\ TypeOK /\ video.encoder = video.picture /\ ParamOpened
  BY TypeParts DEF EncoderInv, EncoderFitsPicture
<1>2. UNCHANGED <<pending, requests, panicked>>
  BY DEF ActionStep, HandleConfigUpdate, SendRestartStream, HandleInactive,
     BeginRestartStream, FinishRestartStream
<1>. SUFFICES /\ EventsType' /\ video' \in VideoType
              /\ video'.encoder = video'.picture
              /\ EncoderOpens(video'.param) => video'.param = video'.picture
  BY <1>1, <1>2 DEF EncoderInv, EncoderFitsPicture, ParamOpened, EncoderOpens,
     TypeOK, EventsType, VideoType, Kinds
<1>3. CASE HandleConfigUpdate
  <2>1. actions' \in Seq(Kinds)
    BY <1>1, <1>3, HandlesKeeps DEF HandleConfigUpdate
  <2>2. screen' \in Screens /\ unaware' \in [meta : BOOLEAN, read : BOOLEAN]
    BY <1>1, <1>3 DEF HandleConfigUpdate, EventsType, Screens
  <2>3. video' = [video EXCEPT !.at = "SendRestartStream"] /\ UNCHANGED <<meta, wish>>
    BY <1>3 DEF HandleConfigUpdate
  <2>4. video' \in VideoType /\ video'.encoder = video.encoder
        /\ video'.param = video.param /\ video'.picture = video.picture
    BY <1>1, <2>3 DEF VideoType
  <2>. QED BY <1>1, <1>2, <2>1, <2>2, <2>3, <2>4 DEF EventsType, ParamOpened
<1>4. CASE SendRestartStream
  <2>1. actions' \in Seq(Kinds)
    BY <1>1, <1>4, SendKeeps DEF SendRestartStream, Kinds
  <2>2. video' = [video EXCEPT !.at = "Loop"] /\ UNCHANGED <<meta, screen, wish, unaware>>
    BY <1>4 DEF SendRestartStream, history
  <2>3. video' \in VideoType /\ video'.encoder = video.encoder
        /\ video'.param = video.param /\ video'.picture = video.picture
    BY <1>1, <2>2 DEF VideoType
  <2>. QED BY <1>1, <1>2, <2>1, <2>2, <2>3 DEF EventsType, ParamOpened
<1>5. CASE HandleInactive
  <2>1. actions' \in Seq(Kinds)
    BY <1>1, <1>5, HandlesKeeps DEF HandleInactive
  <2>2. /\ UNCHANGED <<meta, screen, wish, unaware>>
        /\ \/ video' = video
           \/ /\ EncoderOpens(video.param)
              /\ video' = [video EXCEPT !.encoder = video.param]
    <3>1. CASE EncoderOpens(video.param)
      BY <1>5, <3>1 DEF HandleInactive, history
    <3>2. CASE ~EncoderOpens(video.param)
      BY <1>5, <3>2 DEF HandleInactive, history
    <3>. QED BY <3>1, <3>2
  <2>3. video' \in VideoType /\ video'.encoder = video'.picture
        /\ video'.param = video.param /\ video'.picture = video.picture
    BY <1>1, <2>2 DEF VideoType, ParamOpened
  <2>. QED BY <1>1, <1>2, <2>1, <2>2, <2>3 DEF EventsType, ParamOpened
<1>6. CASE BeginRestartStream
  <2>1. actions' \in Seq(Kinds)
    BY <1>1, <1>6, HandlesKeeps DEF BeginRestartStream
  <2>2. /\ video' = [video EXCEPT !.at = "SetDimensions", !.capturer = NoCapturer,
                                  !.opened = screen, !.read = meta]
        /\ UNCHANGED <<meta, screen, wish>>
    BY <1>6 DEF BeginRestartStream
  <2>3. unaware' \in [meta : BOOLEAN, read : BOOLEAN]
    BY <1>1, <1>6 DEF BeginRestartStream, EventsType
  <2>4. video' \in VideoType /\ video'.encoder = video.encoder
        /\ video'.param = video.param /\ video'.picture = video.picture
    BY <1>1, <2>2 DEF VideoType, EventsType
  <2>. QED BY <1>1, <1>2, <2>1, <2>2, <2>3, <2>4 DEF EventsType, ParamOpened
<1>7. CASE FinishRestartStream
  <2>1. video.opened \in Screens /\ video.opened.dim \in Modes /\ video.read \in Config
    BY <1>1 DEF VideoType, Screens
  <2>2. meta' \in Config
    BY <1>1, <1>7, <2>1 DEF FinishRestartStream, EventsType, Config
  <2>3. /\ wish' \in [dim : Modes \union Asked, lost : BOOLEAN]
        /\ unaware' \in [meta : BOOLEAN, read : BOOLEAN]
    BY <1>1, <1>7 DEF FinishRestartStream, EventsType
  <2>4. EventsType'
    BY <1>1, <1>2, <1>7, <2>2, <2>3 DEF EventsType, FinishRestartStream
  <2>5. CASE EncoderOpens(video.read)
    <3>1. video' = [video EXCEPT !.at = "Loop", !.capturer = video.opened,
                      !.param = video.read, !.encoder = video.read, !.picture = video.read]
      BY <1>7, <2>5 DEF FinishRestartStream, OpenEncoder
    <3>. QED BY <1>1, <2>1, <2>4, <3>1 DEF VideoType
  <2>6. CASE ~EncoderOpens(video.read)
    <3>1. video' = [video EXCEPT !.at = "SendRestartStream", !.param = video.read]
      BY <1>7, <2>6 DEF FinishRestartStream, OpenEncoder
    <3>2. video' \in VideoType /\ video'.encoder = video.encoder
          /\ video'.param = video.read /\ video'.picture = video.picture
      BY <1>1, <2>1, <3>1 DEF VideoType
    <3>. QED BY <1>1, <2>4, <2>6, <3>2
  <2>. QED BY <2>5, <2>6
<1>. QED BY <1>3, <1>4, <1>5, <1>6, <1>7 DEF ActionStep

\* A frame may panic, and changes nothing else.
LEMMA FrameKeeps ==
  ASSUME TypeOK, Frame
  PROVE  TypeOK' /\ UNCHANGED <<meta, pending, actions, screen, video, wish, unaware>>
<1>1. /\ UNCHANGED <<meta, pending, actions, screen, video, requests, wish, unaware>>
      /\ panicked' \in BOOLEAN
  BY DEF Frame, Fits, history
<1>. QED BY <1>1 DEF TypeOK

LEMMA EncoderStep == EncoderInv /\ [Next]_vars => EncoderInv'
<1>. SUFFICES ASSUME EncoderInv, [Next]_vars PROVE EncoderInv'
  OBVIOUS
<1>1. CASE UNCHANGED vars
  BY <1>1 DEF vars, EncoderInv, TypeOK, EncoderFitsPicture, ParamOpened, EncoderOpens
<1>2. CASE Frame
  BY <1>2, FrameKeeps DEF EncoderInv, EncoderFitsPicture, ParamOpened, EncoderOpens
<1>. QED BY <1>1, <1>2, EventsKeepEncoder, ActionKeepsEncoder DEF Next, EventsStep

-------------------------------------------------------------------------------
(* Requests, X servers and restarts.                                           *)

\* A request that changes something is followed by a ConfigUpdate; ServerMeta knows nothing
\* of a new X server.
LEMMA EventsEffects ==
  ASSUME TypeOK, EventsStep
  PROVE  /\ UpdateComing => UpdateComing'
         /\ Contains(actions, "RestartStream") => Contains(actions', "RestartStream")
         /\ UpdateComing' \/ meta' = meta
         /\ meta'.dim = wish'.dim \/ UNCHANGED <<meta, wish>>
         /\ \/ UNCHANGED <<screen, unaware>>
            \/ /\ screen'.server = screen.server + 1
               /\ unaware'.meta /\ unaware'.read = unaware.read
<1>1. CASE \E dim \in Asked, csp \in Csps :
             HandleShakeAE(dim, csp) \/ HandleClientState(dim, csp)
  <2>1. PICK dim \in Asked, csp \in Csps :
          HandleShakeAE(dim, csp) \/ HandleClientState(dim, csp)
    BY <1>1
  <2>2. Store(dim, csp) /\ UNCHANGED <<actions, screen, unaware>>
    BY <2>1 DEF HandleShakeAE, HandleClientState
  <2>3. ~pending /\ meta' = [dim |-> dim, csp |-> csp] /\ wish'.dim = dim
    BY <2>2 DEF Store
  <2>4. CASE ~pending'
    <3>1. meta.dim = dim /\ meta.csp = csp
      BY <2>1, <2>4 DEF HandleShakeAE, HandleClientState, NeedsRestart
    <3>2. meta' = meta
      BY <2>3, <3>1 DEF TypeOK, Config
    <3>. QED BY <2>2, <2>3, <3>2 DEF UpdateComing
  <2>. QED BY <2>2, <2>3, <2>4 DEF UpdateComing
<1>2. CASE SendConfigUpdate
  <2>1. Contains(actions', "ConfigUpdate")
        /\ (Contains(actions, "RestartStream") => Contains(actions', "RestartStream"))
    BY <1>2, SendKeeps DEF SendConfigUpdate, Kinds
  <2>. QED BY <1>2, <2>1 DEF UpdateComing, SendConfigUpdate, history
<1>3. CASE SendInactive
  <2>1. \A e : Contains(actions, e) => Contains(actions', e)
    BY <1>3, SendKeeps DEF SendInactive, Kinds
  <2>. QED BY <1>3, <2>1 DEF UpdateComing, SendInactive, history
<1>4. CASE \E dim \in Modes : NewDisplay(dim)
  <2>1. PICK dim \in Modes : NewDisplay(dim)
    BY <1>4
  <2>2. unaware'.meta /\ unaware'.read = unaware.read /\ screen'.server = screen.server + 1
    BY <2>1 DEF NewDisplay, TypeOK
  <2>3. UNCHANGED <<meta, pending, actions, wish>>
    BY <2>1 DEF NewDisplay
  <2>. QED BY <2>2, <2>3 DEF UpdateComing
<1>5. CASE RestartForSession
  <2>1. \A e : Contains(actions, e) => Contains(actions', e)
    BY <1>5, SendKeeps DEF RestartForSession, Kinds
  <2>. QED BY <1>5, <2>1 DEF UpdateComing, RestartForSession, history
<1>. QED BY <1>1, <1>2, <1>3, <1>4, <1>5 DEF EventsStep

LEMMA ServerNumbers ==
  ASSUME TypeOK
  PROVE  /\ screen.server \in Nat \ {0} /\ video.opened.server \in Nat \ {0}
         /\ video.capturer.server \in Nat
BY DEF TypeOK, Screens, NoCapturer

LEMMA EventsKeepRestart ==
  ASSUME RestartInv, EventsStep
  PROVE  RestartInv'
<1>1. TypeOK /\ EncoderInv' /\ video' = video
  BY EventsKeepEncoder DEF RestartInv, EncoderInv
<1>2. FollowedUp /\ Servers /\ WishStored
  BY DEF RestartInv
<1>3. WishStored'
  BY <1>1, <1>2, EventsEffects DEF WishStored
<1>4. CASE UNCHANGED <<screen, unaware>>
  <2>1. Servers'
    BY <1>1, <1>2, <1>4 DEF Servers
  <2>2. UpdateComing' \/ (meta' = meta /\ ~UpdateComing)
    BY <1>1, EventsEffects
  <2>3. FollowedUp'
    BY <1>1, <1>2, <1>4, <2>2 DEF FollowedUp
  <2>. QED BY <1>1, <1>3, <2>1, <2>3 DEF RestartInv
<1>5. CASE screen'.server = screen.server + 1 /\ unaware'.meta
  <2>1. FollowedUp'
    <3>1. UpdateComing' \/ (meta' = meta /\ ~UpdateComing)
      BY <1>1, EventsEffects
    <3>. QED BY <1>1, <1>2, <1>5, <3>1 DEF FollowedUp
  <2>2. Servers'
    <3>1. video.capturer.server <= screen.server /\ video.opened.server <= screen.server
      BY <1>2 DEF Servers
    <3>2. video.capturer.server < screen'.server /\ video.opened.server < screen'.server
      BY <1>1, <1>5, <3>1, ServerNumbers
    <3>3. /\ video.capturer.server <= screen'.server /\ video.opened.server <= screen'.server
          /\ video.capturer.server # screen'.server
      BY <1>1, <1>5, <3>2, ServerNumbers
    <3>. QED BY <1>1, <1>5, <3>2, <3>3 DEF Servers
  <2>. QED BY <1>1, <1>3, <2>1, <2>2 DEF RestartInv
<1>. QED BY <1>1, <1>4, <1>5, EventsEffects

LEMMA EventsKeepAgree ==
  ASSUME AgreeInv, EventsStep
  PROVE  AgreeInv'
<1>1. TypeOK /\ RestartInv' /\ UNCHANGED <<video, panicked>>
  BY EventsKeepRestart, EventsKeepEncoder DEF AgreeInv, RestartInv, EncoderInv
<1>2. AgreesOrRestarts /\ Panic
  BY DEF AgreeInv
<1>3. unaware'.read = unaware.read
  BY <1>1, EventsEffects
<1>4. Panic'
  BY <1>1, <1>2, <1>3, EventsEffects DEF Panic
<1>5. RestartComing => RestartComing'
  BY <1>1, EventsEffects DEF RestartComing, UpdateComing
<1>6. CASE RestartComing'
  BY <1>1, <1>4, <1>6 DEF AgreeInv, AgreesOrRestarts
<1>7. CASE ~RestartComing'
  <2>1. meta' = meta
    BY <1>1, <1>7, EventsEffects DEF RestartComing, UpdateComing
  <2>2. unaware'.meta \/ UNCHANGED <<screen, unaware>>
    BY <1>1, EventsEffects
  <2>3. AgreesOrRestarts'
    BY <1>1, <1>2, <1>3, <1>5, <1>7, <2>1, <2>2 DEF AgreesOrRestarts, Agree
  <2>. QED BY <1>1, <1>4, <2>3 DEF AgreeInv
<1>. QED BY <1>6, <1>7

\* What a step of the video task does not touch.
LEMMA SameRestart ==
  ASSUME RestartInv, EncoderInv', UNCHANGED <<meta, screen, wish, unaware>>,
         UpdateComing => UpdateComing', video'.at # "SetDimensions",
         video'.capturer = video.capturer, video'.opened = video.opened
  PROVE  RestartInv'
BY DEF RestartInv, FollowedUp, Servers, WishStored

\* A ConfigUpdate sets the mode that ServerMeta has, if the screen has it; a restart opens
\* the capturer on the X server there is and stores its dimensions.
LEMMA ActionKeepsRestart ==
  ASSUME RestartInv, ActionStep
  PROVE  RestartInv'
<1>1. EncoderInv' /\ pending' = pending
  BY ActionKeepsEncoder DEF RestartInv
<1>2. TypeOK /\ FollowedUp /\ Servers /\ WishStored /\ EncoderInv
  BY DEF RestartInv, EncoderInv
<1>3. CASE HandleConfigUpdate
  <2>1. /\ video'.at = "SendRestartStream"
        /\ video'.capturer = video.capturer /\ video'.opened = video.opened
        /\ UNCHANGED <<meta, wish>>
    BY <1>2, <1>3 DEF HandleConfigUpdate, TypeOK
  <2>2. CASE meta.dim \in Modes
    <3>1. /\ screen' = [screen EXCEPT !.dim = meta.dim]
          /\ unaware' = [unaware EXCEPT !.meta = FALSE]
      BY <1>3, <2>2 DEF HandleConfigUpdate
    <3>2. /\ screen'.dim = meta.dim /\ screen'.server = screen.server /\ ~unaware'.meta
      BY <1>2, <3>1 DEF TypeOK, Screens
    <3>. QED BY <1>1, <1>2, <2>1, <3>2 DEF RestartInv, FollowedUp, Servers, WishStored
  <2>3. CASE meta.dim \notin Modes
    <3>1. UNCHANGED <<screen, unaware>>
      BY <1>3, <2>3 DEF HandleConfigUpdate
    <3>. QED BY <1>1, <1>2, <2>1, <2>3, <3>1
             DEF RestartInv, FollowedUp, Servers, WishStored
  <2>. QED BY <2>2, <2>3
<1>4. CASE SendRestartStream
  <2>1. Contains(actions, "ConfigUpdate") => Contains(actions', "ConfigUpdate")
    BY <1>2, <1>4, SendKeeps DEF SendRestartStream, Kinds
  <2>2. /\ video'.at = "Loop" /\ video'.capturer = video.capturer
        /\ video'.opened = video.opened /\ UNCHANGED <<meta, screen, wish, unaware>>
    BY <1>2, <1>4 DEF SendRestartStream, TypeOK, history
  <2>. QED BY <1>1, <2>1, <2>2, SameRestart DEF UpdateComing
<1>5. CASE HandleInactive
  <2>1. /\ Contains(actions, "ConfigUpdate") => Contains(actions', "ConfigUpdate")
        /\ video.at = "Loop"
    BY <1>2, <1>5, HandlesKeeps DEF HandleInactive
  <2>2. /\ UNCHANGED <<meta, screen, wish, unaware>>
        /\ video' = video \/ video' = [video EXCEPT !.encoder = video.param]
    BY <1>5 DEF HandleInactive, history
  <2>3. video'.at = video.at /\ video'.capturer = video.capturer
        /\ video'.opened = video.opened
    BY <1>2, <2>2 DEF TypeOK
  <2>. QED BY <1>1, <2>1, <2>2, <2>3, SameRestart DEF UpdateComing
<1>6. CASE BeginRestartStream
  <2>1. Contains(actions, "ConfigUpdate") => Contains(actions', "ConfigUpdate")
    BY <1>2, <1>6, HandlesKeeps DEF BeginRestartStream
  <2>2. /\ UNCHANGED <<meta, screen, wish>> /\ video'.read = meta /\ video'.opened = screen
        /\ video'.capturer = NoCapturer
        /\ unaware'.meta = unaware.meta /\ unaware'.read = unaware.meta
    BY <1>2, <1>6 DEF BeginRestartStream, TypeOK
  <2>3. FollowedUp' /\ WishStored'
    BY <1>1, <1>2, <2>1, <2>2 DEF FollowedUp, WishStored, UpdateComing
  <2>4. NoCapturer.server = 0 /\ screen.server \in Nat \ {0}
    BY <1>2, ServerNumbers DEF NoCapturer
  <2>5. Servers'
    BY <2>2, <2>4 DEF Servers
  <2>. QED BY <1>1, <2>3, <2>5 DEF RestartInv
<1>7. CASE FinishRestartStream
  <2>1. /\ meta'.dim = video.opened.dim /\ video.at = "SetDimensions"
        /\ UNCHANGED <<actions, screen>>
        /\ wish'.dim = wish.dim /\ wish'.lost = (wish.lost \/ wish.dim # video.opened.dim)
        /\ unaware'.meta = (unaware.meta /\ video.opened.server # screen.server)
        /\ unaware'.read = unaware.read
    BY <1>2, <1>7 DEF FinishRestartStream, TypeOK, Config
  <2>2. /\ video'.at # "SetDimensions" /\ video'.opened = video.opened
        /\ video'.capturer = video.opened \/ video'.capturer = video.capturer
    BY <1>2, <1>7 DEF FinishRestartStream, OpenEncoder, TypeOK
  <2>3. WishStored'
    BY <2>1 DEF WishStored
  <2>4. \/ video.opened = screen
        \/ video.opened.server # screen.server /\ unaware.meta
    BY <1>2, <2>1, ServerNumbers DEF Servers
  <2>5. FollowedUp'
    BY <2>1, <2>2, <2>4 DEF FollowedUp
  <2>6. Servers'
    BY <1>2, <2>1, <2>2 DEF Servers
  <2>. QED BY <1>1, <2>3, <2>5, <2>6 DEF RestartInv
<1>. QED BY <1>3, <1>4, <1>5, <1>6, <1>7 DEF ActionStep

\* A restart opens the picture with what get_meta read: that is the new capturer's size
\* unless a request has its ConfigUpdate to come, or an X server came up unnoticed.
LEMMA ActionKeepsAgree ==
  ASSUME Resolutions \subseteq Modes, AgreeInv, ActionStep
  PROVE  AgreeInv'
<1>1. RestartInv' /\ UNCHANGED <<pending, panicked>>
  BY ActionKeepsRestart, ActionKeepsEncoder DEF AgreeInv, RestartInv
<1>2. TypeOK /\ FollowedUp /\ Servers /\ AgreesOrRestarts /\ Panic
  BY DEF AgreeInv, RestartInv, EncoderInv
<1>3. Panic'
  <2>. SUFFICES ASSUME panicked PROVE Panic'
    BY <1>1 DEF Panic
  <2>1. video.at = "Loop"
    BY <1>2 DEF Panic
  <2>. QED BY <2>1 DEF ActionStep, HandleConfigUpdate, SendRestartStream, HandleInactive,
           BeginRestartStream, FinishRestartStream, Handles
<1>. SUFFICES AgreesOrRestarts'
  BY <1>1, <1>3 DEF AgreeInv
<1>4. CASE HandleConfigUpdate
  <2>1. video'.at = "SendRestartStream"
    BY <1>2, <1>4 DEF HandleConfigUpdate, TypeOK
  <2>. QED BY <2>1 DEF AgreesOrRestarts, RestartComing
<1>5. CASE SendRestartStream
  <2>1. Contains(actions', "RestartStream")
    BY <1>2, <1>5, SendKeeps DEF SendRestartStream, Kinds
  <2>. QED BY <2>1 DEF AgreesOrRestarts, RestartComing
<1>6. CASE HandleInactive
  <2>1. /\ Contains(actions, "RestartStream") => Contains(actions', "RestartStream")
        /\ Contains(actions, "ConfigUpdate") => Contains(actions', "ConfigUpdate")
    BY <1>2, <1>6, HandlesKeeps DEF HandleInactive
  <2>2. /\ UNCHANGED <<meta, screen, unaware>>
        /\ video' = video \/ video' = [video EXCEPT !.encoder = video.param]
    BY <1>6 DEF HandleInactive, history
  <2>3. video'.at = video.at /\ video'.capturer = video.capturer
        /\ video'.picture = video.picture
    BY <1>2, <2>2 DEF TypeOK
  <2>. QED BY <1>1, <1>2, <2>1, <2>2, <2>3 DEF AgreesOrRestarts, Agree, RestartComing
<1>7. CASE BeginRestartStream
  <2>1. video'.at = "SetDimensions"
    BY <1>2, <1>7 DEF BeginRestartStream, TypeOK
  <2>. QED BY <2>1 DEF AgreesOrRestarts, RestartComing
<1>8. CASE FinishRestartStream
  <2>1. /\ meta'.dim = video.opened.dim /\ meta'.csp = meta.csp
        /\ video.at = "SetDimensions" /\ UNCHANGED <<actions, screen>>
        /\ unaware'.meta = (unaware.meta /\ video.opened.server # screen.server)
        /\ unaware'.read = unaware.read
    BY <1>2, <1>8 DEF FinishRestartStream, TypeOK, Config
  <2>2. CASE EncoderOpens(video.read)
    <3>1. video'.at = "Loop" /\ video'.capturer = video.opened /\ video'.picture = video.read
      BY <1>2, <1>8, <2>2 DEF FinishRestartStream, OpenEncoder, TypeOK
    <3>2. CASE UpdateComing
      BY <1>1, <2>1, <3>2 DEF UpdateComing, AgreesOrRestarts, RestartComing
    <3>3. CASE video.opened.server < screen.server /\ unaware.meta
      <4>1. unaware'.meta
        <5>1. video.opened.server # screen.server
          BY <1>2, <3>3, ServerNumbers
        <5>. QED BY <2>1, <3>3, <5>1
      <4>. QED BY <4>1 DEF AgreesOrRestarts
    <3>4. CASE ~UpdateComing /\ video.opened = screen /\ unaware.read = unaware.meta
      <4>1. video.read = meta /\ meta.dim \in Modes
        <5>1. video.read = meta
          BY <1>2, <2>1, <3>4 DEF FollowedUp
        <5>2. meta.dim # Unset /\ meta.dim \in Modes \union Resolutions \union {Unset}
          BY <1>2, <2>2, <5>1 DEF EncoderOpens, TypeOK, Config
        <5>. QED BY <5>1, <5>2
      <4>2. meta.dim = screen.dim \/ unaware.meta
        BY <1>2, <3>4, <4>1 DEF FollowedUp
      <4>3. Agree'
        BY <2>1, <3>1, <3>4, <4>1, <4>2 DEF Agree
      <4>. QED BY <4>3 DEF AgreesOrRestarts
    <3>. QED BY <1>2, <2>1, <3>2, <3>3, <3>4 DEF Servers
  <2>3. CASE ~EncoderOpens(video.read)
    <3>1. video'.at = "SendRestartStream"
      BY <1>2, <1>8, <2>3 DEF FinishRestartStream, OpenEncoder, TypeOK
    <3>. QED BY <3>1 DEF AgreesOrRestarts, RestartComing
  <2>. QED BY <2>2, <2>3
<1>. QED BY <1>4, <1>5, <1>6, <1>7, <1>8 DEF ActionStep

-------------------------------------------------------------------------------
(* Theorems.                                                                   *)

\* The shared metadata, the video task and what is queued for it have their types,
\* after whatever sequence of requests, failures, new X servers and restarts.
THEOREM ConfigTypeCorrect == Spec => []TypeOK
<1>1. Init => EncoderInv
  BY InitConfig DEF AgreeInv, RestartInv
<1>2. EncoderInv => TypeOK
  BY DEF EncoderInv
<1>. QED BY <1>1, <1>2, EncoderStep, PTL DEF Spec

\* The encoder of VideoServerTask is always opened with the picture's par, whatever
\* resolutions are asked for and whichever restarts fail.
THEOREM EncoderCorrect == Spec => []EncoderFitsPicture
<1>1. Init => EncoderInv
  BY InitConfig DEF AgreeInv, RestartInv
<1>2. EncoderInv => EncoderFitsPicture
  BY DEF EncoderInv
<1>. QED BY <1>1, <1>2, EncoderStep, PTL DEF Spec

LEMMA RestartStep == RestartInv /\ [Next]_vars => RestartInv'
<1>. SUFFICES ASSUME RestartInv, [Next]_vars PROVE RestartInv'
  OBVIOUS
<1>1. EncoderInv' /\ TypeOK
  BY EncoderStep DEF RestartInv, EncoderInv
<1>2. CASE Frame \/ UNCHANGED vars
  <2>1. UNCHANGED <<meta, pending, actions, screen, video, wish, unaware>>
    BY <1>1, <1>2, FrameKeeps DEF vars
  <2>. QED BY <1>1, <2>1 DEF RestartInv, FollowedUp, Servers, WishStored, UpdateComing
<1>. QED BY <1>2, EventsKeepRestart, ActionKeepsRestart DEF Next, EventsStep

\* A resolution that is asked for, and that the screen has, is set, unless a restart's
\* set_dimensions overwrote it or an X server came up that no restart has followed yet.
THEOREM RequestHonoured == Spec => []HonoursRequest
<1>1. Init => RestartInv
  BY InitConfig DEF AgreeInv
<1>2. RestartInv => HonoursRequest
  BY DEF RestartInv, FollowedUp, WishStored, HonoursRequest, RestartComing, UpdateComing
<1>. QED BY <1>1, <1>2, RestartStep, PTL DEF Spec

LEMMA AgreeStep ==
  ASSUME Resolutions \subseteq Modes
  PROVE  AgreeInv /\ [Next]_vars => AgreeInv'
<1>. SUFFICES ASSUME AgreeInv, [Next]_vars PROVE AgreeInv'
  OBVIOUS
<1>1. RestartInv' /\ TypeOK /\ Servers /\ AgreesOrRestarts /\ Panic
  BY RestartStep DEF AgreeInv, RestartInv, EncoderInv
<1>2. CASE Frame \/ UNCHANGED vars
  <2>1. UNCHANGED <<meta, pending, actions, screen, video, wish, unaware>>
    BY <1>1, <1>2, FrameKeeps DEF vars
  <2>2. AgreesOrRestarts'
    BY <1>1, <2>1 DEF AgreesOrRestarts, Agree, RestartComing
  <2>3. CASE UNCHANGED panicked
    BY <1>1, <2>1, <2>2, <2>3 DEF AgreeInv, Panic, UpdateComing
  <2>4. CASE Frame
    <3>1. /\ video.at = "Loop" /\ actions = <<>> /\ video.capturer.server = screen.server
          /\ panicked' = (video.picture.dim # video.capturer.dim)
      BY <2>4 DEF Frame, Fits
    <3>2. ~unaware.meta
      BY <1>1, <3>1 DEF Servers
    <3>3. panicked' => pending \/ unaware.read
      <4>1. ~Contains(actions, "ConfigUpdate") /\ ~Contains(actions, "RestartStream")
        BY <3>1 DEF Contains
      <4>2. pending \/ Agree
        BY <1>1, <3>1, <3>2, <4>1 DEF AgreesOrRestarts, RestartComing
      <4>. QED BY <3>1, <4>2 DEF Agree
    <3>4. Panic'
      BY <2>1, <3>1, <3>3 DEF Panic, UpdateComing
    <3>. QED BY <1>1, <2>2, <3>4 DEF AgreeInv
  <2>. QED BY <1>2, <2>3, <2>4 DEF vars
<1>. QED BY <1>2, EventsKeepAgree, ActionKeepsAgree DEF Next, EventsStep

\* If the screen has a mode for every resolution asked for, ServerMeta, screen, capturer and
\* picture of VideoServerTask agree unless a restart of the stream is to come, or one must
\* follow a new X server; only what the restart after a new X server opens may be of the old
\* mode.
THEOREM StreamAgrees ==
  ASSUME Resolutions \subseteq Modes
  PROVE  Spec => []AgreesOrRestarts
<1>1. AgreeInv => AgreesOrRestarts
  BY DEF AgreeInv
<1>. QED BY <1>1, AgreeStep, InitConfig, PTL DEF Spec

\* Hence copy_from_slice of VideoServerTask panics only while a restart is to come, or if the
\* stream was restarted before ServerMeta knew of a new X server's mode.
THEOREM PictureFits ==
  ASSUME Resolutions \subseteq Modes
  PROVE  Spec => [](panicked => RestartComing \/ unaware.read)
<1>1. AgreeInv => (panicked => RestartComing \/ unaware.read)
  BY DEF AgreeInv, Panic, RestartComing, UpdateComing
<1>. QED BY <1>1, AgreeStep, InitConfig, PTL DEF Spec


-------------------------------------------------------------------------------
(* PlayerInput: the datagrams.                                                 *)

KeyPressed(key) == [NoBytes EXCEPT !.press = {key}]

Clicks == {Click(at, right) : at \in Positions, right \in BOOLEAN}
Moves == {MouseMove(at, pressed) : at \in Positions, pressed \in BOOLEAN}
KeyReports == {KeyPressed(key) : key \in Keys} \union {KeyReleased(key) : key \in Keys}
Reports == Clicks \union Moves \union KeyReports

\* What a datagram may tell.
Things == Keys \union {"pointer", "button"}

Spot(b) == Position(IF b.click # Nowhere THEN b.click ELSE b.move)

LEMMA PositionType == Positions \subseteq Nat \X Nat
<1>1. Positions \subseteq TenThousandths \X TenThousandths
  BY PlayerInputAssumption
<1>2. TenThousandths \subseteq Nat
  BY DEF TenThousandths
<1> QED BY <1>1, <1>2

\* A position survives its bytes, and is told from none.
LEMMA PercentsFacts ==
  ASSUME NEW at \in Positions
  PROVE  /\ Position(Percents(at)) = at /\ Percents(at) # Nowhere /\ at # Outside
         /\ Percents(at)[1] \in Nat /\ Percents(at)[2] \in Nat
<1>1. at \in Nat \X Nat
  BY PositionType
<1>2. PICK x \in Nat, y \in Nat : at = <<x, y>>
  BY <1>1
<1>3. Percents(at) = <<x + 1, y + 1>>
  BY <1>2 DEF Percents
<1>4. (x + 1) - 1 = x /\ (y + 1) - 1 = y /\ x + 1 # 0 /\ x # -1
  OBVIOUS
<1>5. Percents(at)[1] \in Nat /\ Percents(at)[2] \in Nat
  BY <1>3
<1>6. Position(Percents(at)) = <<(x + 1) - 1, (y + 1) - 1>>
  BY <1>3 DEF Position
<1>7. Position(Percents(at)) = at
  BY <1>2, <1>4, <1>6
<1>8. Percents(at) # Nowhere
  BY <1>3, <1>4 DEF Nowhere
<1>9. at # Outside
  BY <1>2, <1>4 DEF Outside
<1> QED BY <1>5, <1>7, <1>8, <1>9

\* The low and the high byte of a coordinate.
LEMMA ByteFacts ==
  ASSUME NEW n \in Nat
  PROVE  n < 256 <=> n \div 256 = 0
OBVIOUS

LEMMA ClickFacts ==
  ASSUME NEW at \in Positions, NEW right \in BOOLEAN, NEW b, b = Click(at, right)
  PROVE  /\ b.click = Percents(at) /\ b.right = right /\ b.move = Nowhere /\ b.pressed = FALSE
         /\ b.press = {} /\ b.release = {}
         /\ Spot(b) = at
         /\ "pointer" \in Sets(b) /\ Sets(b) \subseteq {"pointer", "button"}
         /\ "button" \in Sets(b) <=> ~right
         /\ Unnoticed(b) <=> ~ClickRequested(b)
         /\ ~MouseMoveRequested(b)
<1>1. /\ b.click = Percents(at) /\ b.right = right /\ b.move = Nowhere /\ b.pressed = FALSE
      /\ b.press = {} /\ b.release = {}
  BY DEF Click, NoBytes
<1>2. b.click # Nowhere /\ Position(b.click) = at
  BY <1>1, PercentsFacts
<1>3. Spot(b) = at
  BY <1>2 DEF Spot
<1>4. /\ "pointer" \in Sets(b) /\ Sets(b) \subseteq {"pointer", "button"}
      /\ "button" \in Sets(b) <=> ~right
  BY <1>1, <1>2 DEF Sets
<1>5. ~MouseMoveRequested(b)
  BY <1>1 DEF MouseMoveRequested, Nowhere
<1>6. Unnoticed(b) <=> ~ClickRequested(b)
  BY <1>1, <1>2 DEF Unnoticed, ClickRequested
<1> QED BY <1>1, <1>3, <1>4, <1>5, <1>6

LEMMA MoveFacts ==
  ASSUME NEW at \in Positions, NEW pressed \in BOOLEAN, NEW b, b = MouseMove(at, pressed)
  PROVE  /\ b.move = Percents(at) /\ b.pressed = pressed /\ b.click = Nowhere
         /\ b.right = FALSE /\ b.press = {} /\ b.release = {}
         /\ Spot(b) = at
         /\ "pointer" \in Sets(b) /\ Sets(b) \subseteq {"pointer", "button"}
         /\ "button" \in Sets(b) <=> pressed
         /\ Unnoticed(b) <=> ~MouseMoveRequested(b)
         /\ ~ClickRequested(b)
<1>1. /\ b.move = Percents(at) /\ b.pressed = pressed /\ b.click = Nowhere
      /\ b.right = FALSE /\ b.press = {} /\ b.release = {}
  BY DEF MouseMove, NoBytes
<1>2. b.move # Nowhere /\ Position(b.move) = at
  BY <1>1, PercentsFacts
<1>3. Spot(b) = at
  BY <1>1, <1>2 DEF Spot
<1>4. /\ "pointer" \in Sets(b) /\ Sets(b) \subseteq {"pointer", "button"}
      /\ "button" \in Sets(b) <=> pressed
  BY <1>1, <1>2 DEF Sets
<1>5. ~ClickRequested(b)
  BY <1>1 DEF ClickRequested, Nowhere
<1>6. Unnoticed(b) <=> ~MouseMoveRequested(b)
  <2>1. b.move[1] \in Nat /\ b.move[2] \in Nat
    BY <1>1, PercentsFacts
  <2>2. /\ b.move[1] < 256 <=> b.move[1] \div 256 = 0
        /\ b.move[2] < 256 <=> b.move[2] \div 256 = 0
    BY <2>1, ByteFacts
  <2> QED BY <1>1, <1>2, <2>2 DEF Unnoticed, MouseMoveRequested
<1> QED BY <1>1, <1>3, <1>4, <1>5, <1>6

LEMMA KeyFacts ==
  ASSUME NEW b \in KeyReports
  PROVE  /\ b.click = Nowhere /\ b.move = Nowhere /\ b.pressed = FALSE
         /\ \E key \in Keys : /\ Sets(b) = {key}
                              /\ \/ b.press = {key} /\ b.release = {}
                                 \/ b.press = {} /\ b.release = {key}
         /\ ~Unnoticed(b) /\ ~ClickRequested(b) /\ ~MouseMoveRequested(b)
<1>1. PICK key \in Keys : b = KeyPressed(key) \/ b = KeyReleased(key)
  BY DEF KeyReports
<1>2. /\ b.click = Nowhere /\ b.move = Nowhere /\ b.pressed = FALSE
      /\ \/ b.press = {key} /\ b.release = {}
         \/ b.press = {} /\ b.release = {key}
  BY <1>1 DEF KeyPressed, KeyReleased, NoBytes
<1>3. Sets(b) = {key}
  BY <1>2 DEF Sets
<1>4. ~Unnoticed(b) /\ ~ClickRequested(b) /\ ~MouseMoveRequested(b)
  BY <1>2 DEF Unnoticed, ClickRequested, MouseMoveRequested, Nowhere
<1> QED BY <1>2, <1>3, <1>4

-------------------------------------------------------------------------------
(* PlayerInput: the invariant.                                                 *)

Window == [at : Positions \union {Outside}, down : BOOLEAN, dragged : BOOLEAN,
           keys : SUBSET Keys]
Desktop == [at : Positions \union {Nowhere}, down : BOOLEAN, keys : SUBSET DesktopKeys]

InputTypes ==
  /\ net \in Seq(Reports)
  /\ window \in Window /\ desktop \in Desktop
  /\ connected \in BOOLEAN /\ held \in BOOLEAN /\ odd \in BOOLEAN
  /\ events \in 0..MaxEvents
  /\ unknown \subseteq Things

\* Once it is handled, a datagram leaves things as they are in the window.
Shows(x, b) ==
  CASE x = "pointer" -> window.at # Outside => Spot(b) = window.at
    [] x = "button" -> IF b.pressed THEN window.down ELSE ~(window.down /\ window.dragged)
    [] OTHER -> x \in b.press <=> x \in window.keys

\* They are so.
Agrees(x) ==
  CASE x = "pointer" -> window.at # Outside => desktop.at = window.at
    [] x = "button" -> /\ desktop.down => window.down
                       /\ window.down /\ window.dragged /\ ~odd => desktop.down
    [] OTHER -> x # "Return" /\ Known(x) =>
                  (MetaByte(x) \in desktop.keys <=> x \in window.keys)

\* The last datagram on its way that tells of x.
IsLast(x, i) ==
  /\ i \in DOMAIN net /\ x \in Sets(net[i])
  /\ \A j \in DOMAIN net : j > i => x \notin Sets(net[j])

Told(x, i) == Shows(x, net[i]) /\ ~Unnoticed(net[i])

NoneTells(x) == \A i \in DOMAIN net : x \notin Sets(net[i])

\* What is known of x is on its way, or has arrived.
Tracked(x) ==
  x \notin unknown =>
    /\ NoneTells(x) => Agrees(x)
    /\ \A i : IsLast(x, i) => Told(x, i)

\* The flag tells whether the button is down, but for clicks odd in number.
HeldCounts == IF desktop.down THEN held /\ ~odd ELSE held = odd

\* The button went down in the picture, so it was dragged out.
DraggedOut == window.down /\ window.at = Outside => "button" \in unknown

InputInv ==
  InputTypes /\ (\A x \in Things : Tracked(x)) /\ HeldCounts /\ DraggedOut

LEMMA ReportType ==
  ASSUME NEW b \in Reports
  PROVE  /\ b \in Clicks \/ b \in Moves \/ b \in KeyReports
         /\ Sets(b) \subseteq Things
<1>1. b \in Clicks \/ b \in Moves \/ b \in KeyReports
  BY DEF Reports
<1>2. CASE b \in Clicks
  <2>1. PICK at \in Positions, right \in BOOLEAN : b = Click(at, right)
    BY <1>2 DEF Clicks
  <2> QED BY <1>1, <2>1, ClickFacts DEF Things
<1>3. CASE b \in Moves
  <2>1. PICK at \in Positions, pressed \in BOOLEAN : b = MouseMove(at, pressed)
    BY <1>3 DEF Moves
  <2> QED BY <1>1, <2>1, MoveFacts DEF Things
<1>4. CASE b \in KeyReports
  BY <1>1, <1>4, KeyFacts DEF Things
<1> QED BY <1>1, <1>2, <1>3, <1>4

\* The types the run checks follow from the kinds of datagrams.
LEMMA TypesFollow == InputTypes => InputTypeOK
<1> SUFFICES ASSUME InputTypes PROVE InputTypeOK
  OBVIOUS
<1>1. ASSUME NEW i \in DOMAIN net
      PROVE  /\ net[i].click = Nowhere \/ Position(net[i].click) \in Positions
             /\ net[i].move = Nowhere \/ Position(net[i].move) \in Positions
             /\ net[i].press \union net[i].release \subseteq Keys
  <2> DEFINE b == net[i]
  <2>1. b \in Reports
    BY ElementOfSeq DEF InputTypes
  <2> HIDE DEF b
  <2>2. /\ b.click = Nowhere \/ Position(b.click) \in Positions
        /\ b.move = Nowhere \/ Position(b.move) \in Positions
        /\ b.press \union b.release \subseteq Keys
    <3>1. CASE b \in Clicks
      <4>1. PICK at \in Positions, right \in BOOLEAN : b = Click(at, right)
        BY <3>1 DEF Clicks
      <4>2. b.click = Percents(at) /\ Position(b.click) = at
        BY <4>1, ClickFacts, PercentsFacts
      <4> QED BY <4>1, <4>2, ClickFacts
    <3>2. CASE b \in Moves
      <4>1. PICK at \in Positions, pressed \in BOOLEAN : b = MouseMove(at, pressed)
        BY <3>2 DEF Moves
      <4>2. b.move = Percents(at) /\ Position(b.move) = at
        BY <4>1, MoveFacts, PercentsFacts
      <4> QED BY <4>1, <4>2, MoveFacts
    <3>3. CASE b \in KeyReports
      BY <3>3, KeyFacts
    <3> QED BY <2>1, <3>1, <3>2, <3>3, ReportType
  <2> QED BY <2>2 DEF b
<1> QED BY <1>1 DEF InputTypes, InputTypeOK, Window, Desktop, Things

-------------------------------------------------------------------------------
(* PlayerInput: how the network changes what is tracked.                       *)

\* Datagrams are sent, or lost before they could be.
LEMMA EmitTracks ==
  ASSUME net \in Seq(Reports), NEW s, NEW inside \in BOOLEAN, Emit(s, inside),
         connected /\ inside => s \in Seq(Reports),
         NEW x, Tracked(x),
         x \notin SetBy(s) /\ x \notin unknown =>
           /\ Agrees(x) => Agrees(x)'
           /\ \A b \in Reports : Shows(x, b) => Shows(x, b)',
         connected /\ inside =>
           \A i \in DOMAIN s : x \in Sets(s[i]) => Shows(x, s[i])'
  PROVE  Tracked(x)'
<1> SUFFICES ASSUME x \notin unknown'
             PROVE  /\ NoneTells(x)' => Agrees(x)'
                    /\ \A i : IsLast(x, i)' => Told(x, i)'
  BY DEF Tracked
<1>1. CASE ~(connected /\ inside)
  <2>1. net' = net /\ x \notin unknown /\ x \notin SetBy(s)
    BY <1>1 DEF Emit
  <2>2. NoneTells(x)' => Agrees(x)'
    BY <2>1 DEF Tracked, NoneTells
  <2>3. ASSUME NEW i, IsLast(x, i)'
        PROVE  Told(x, i)'
    <3>1. IsLast(x, i) /\ net[i] \in Reports
      BY <2>1, <2>3, ElementOfSeq DEF IsLast
    <3>2. Shows(x, net[i]) /\ ~Unnoticed(net[i])
      BY <2>1, <3>1 DEF Tracked, Told
    <3>3. PICK b : b = net[i]
      OBVIOUS
    <3>4. Shows(x, b)'
      BY <2>1, <3>1, <3>2, <3>3
    <3> QED BY <2>1, <3>2, <3>3, <3>4 DEF Told
  <2> QED BY <2>2, <2>3
<1>2. CASE connected /\ inside
  <2>1. /\ s \in Seq(Reports) /\ net' = net \o s
        /\ unknown' = (unknown \ SetBy(s)) \union SetUnnoticed(s)
    BY <1>2 DEF Emit
  <2>2. /\ Len(net) \in Nat /\ Len(s) \in Nat
        /\ DOMAIN net = 1..Len(net) /\ DOMAIN s = 1..Len(s)
        /\ DOMAIN net' = 1..(Len(net) + Len(s))
        /\ \A i \in 1..Len(net) : net'[i] = net[i]
        /\ \A i \in 1..Len(s) : net'[Len(net) + i] = s[i]
    BY <2>1, ConcatProperties, LenProperties
  <2>3. \A i \in DOMAIN net' : i \in DOMAIN net \/ (i - Len(net) \in DOMAIN s
                                                   /\ net'[i] = s[i - Len(net)])
    BY <2>2
  <2>4. CASE x \in SetBy(s)
    <3>1. PICK m \in DOMAIN s : x \in Sets(s[m])
      BY <2>4 DEF SetBy
    <3>2. /\ Len(net) + m \in DOMAIN net' /\ x \in Sets(net'[Len(net) + m])
          /\ \A i \in DOMAIN net : Len(net) + m > i
      BY <2>2, <3>1
    <3>3. ~NoneTells(x)'
      BY <3>2 DEF NoneTells
    <3>4. ASSUME NEW i, IsLast(x, i)'
          PROVE  Told(x, i)'
      <4>1. i \in DOMAIN net' /\ i \notin DOMAIN net /\ x \in Sets(net'[i])
        BY <3>2, <3>4 DEF IsLast
      <4>2. PICK k \in DOMAIN s : net'[i] = s[k]
        BY <2>3, <4>1
      <4>3. x \notin SetUnnoticed(s)
        BY <2>1
      <4>4. ~Unnoticed(s[k])
        BY <4>1, <4>2, <4>3 DEF SetUnnoticed
      <4>5. PICK b : b = s[k]
        OBVIOUS
      <4>6. Shows(x, b)'
        BY <1>2, <4>1, <4>2, <4>5
      <4> QED BY <4>2, <4>4, <4>5, <4>6 DEF Told
    <3> QED BY <3>3, <3>4
  <2>5. CASE x \notin SetBy(s)
    <3>1. /\ x \notin unknown /\ (Agrees(x) => Agrees(x)')
          /\ \A b \in Reports : Shows(x, b) => Shows(x, b)'
          /\ \A i \in DOMAIN s : x \notin Sets(s[i])
      BY <2>1, <2>5 DEF SetBy
    <3>2. NoneTells(x)' => Agrees(x)'
      <4>1. NoneTells(x)' => NoneTells(x)
        BY <2>2 DEF NoneTells
      <4> QED BY <3>1, <4>1 DEF Tracked
    <3>3. ASSUME NEW i, IsLast(x, i)'
          PROVE  Told(x, i)'
      <4>1. i \in DOMAIN net /\ net'[i] = net[i]
        BY <2>2, <2>3, <3>1, <3>3 DEF IsLast
      <4>2. IsLast(x, i)
        BY <2>2, <3>3, <4>1 DEF IsLast
      <4>3. Shows(x, net[i]) /\ ~Unnoticed(net[i]) /\ net[i] \in Reports
        BY <3>1, <4>1, <4>2, ElementOfSeq DEF Tracked, Told
      <4>4. PICK b : b = net[i]
        OBVIOUS
      <4>5. Shows(x, b)'
        BY <3>1, <4>3, <4>4
      <4> QED BY <4>1, <4>3, <4>4, <4>5 DEF Told
    <3> QED BY <3>2, <3>3
  <2> QED BY <2>4, <2>5
<1> QED BY <1>1, <1>2

\* What is left of a sequence without its i-th element, and what comes after that.
LEMMA RemovedFacts ==
  ASSUME NEW S, NEW s \in Seq(S), NEW i \in DOMAIN s
  PROVE  /\ RemoveAt(s, i) \in Seq(S) /\ DOMAIN RemoveAt(s, i) = 1..(Len(s) - 1)
         /\ \A j \in 1..(Len(s) - 1) :
              RemoveAt(s, i)[j] = IF j < i THEN s[j] ELSE s[j + 1]
         /\ DOMAIN SubSeq(s, i + 1, Len(s)) = 1..(Len(s) - i)
         /\ \A j \in 1..(Len(s) - i) : SubSeq(s, i + 1, Len(s))[j] = s[i + j]
<1> DEFINE l == SubSeq(s, 1, i - 1)
           r == SubSeq(s, i + 1, Len(s))
<1>0. i \in 1..Len(s) /\ Len(s) \in Nat
  BY LenProperties
<1>1. /\ l \in Seq(S) /\ Len(l) = i - 1
      /\ \A j \in 1..(i - 1) : l[j] = s[j]
  BY <1>0, SubSeqProperties, ElementOfSeq
<1>2. /\ r \in Seq(S) /\ Len(r) = Len(s) - i
      /\ \A j \in 1..(Len(s) - i) : r[j] = s[i + j]
  BY <1>0, SubSeqProperties, ElementOfSeq
<1>3. RemoveAt(s, i) = l \o r
  BY DEF RemoveAt
<1> HIDE DEF l, r
<1>4. /\ l \o r \in Seq(S) /\ Len(l \o r) = Len(s) - 1
      /\ \A j \in 1..(Len(s) - 1) :
           (l \o r)[j] = IF j <= i - 1 THEN l[j] ELSE r[j - (i - 1)]
  <2>1. /\ l \o r \in Seq(S) /\ Len(l \o r) = Len(l) + Len(r)
        /\ \A j \in 1..(Len(l) + Len(r)) :
             (l \o r)[j] = IF j <= Len(l) THEN l[j] ELSE r[j - Len(l)]
    BY <1>1, <1>2, ConcatProperties
  <2>2. Len(l) + Len(r) = Len(s) - 1
    BY <1>0, <1>1, <1>2
  <2> QED BY <1>1, <2>1, <2>2, Zenon
<1>5. ASSUME NEW j \in 1..(Len(s) - 1)
      PROVE  (l \o r)[j] = IF j < i THEN s[j] ELSE s[j + 1]
  <2>1. CASE j < i
    BY <1>0, <1>1, <1>4, <2>1
  <2>2. CASE ~(j < i)
    <3>1. j - (i - 1) \in 1..(Len(s) - i) /\ i + (j - (i - 1)) = j + 1
      BY <1>0, <2>2
    <3>2. (l \o r)[j] = r[j - (i - 1)]
      BY <1>0, <1>4, <2>2
    <3> QED BY <1>2, <2>2, <3>1, <3>2
  <2> QED BY <2>1, <2>2
<1>6. DOMAIN (l \o r) = 1..(Len(s) - 1) /\ DOMAIN r = 1..(Len(s) - i)
  BY <1>2, <1>4, LenProperties
<1>7. /\ RemoveAt(s, i) \in Seq(S) /\ DOMAIN RemoveAt(s, i) = 1..(Len(s) - 1)
      /\ \A j \in 1..(Len(s) - 1) :
           RemoveAt(s, i)[j] = IF j < i THEN s[j] ELSE s[j + 1]
  BY <1>3, <1>4, <1>5, <1>6
<1> QED BY <1>2, <1>6, <1>7 DEF r

\* Without an event in the window, what agrees and shows is as the desktop is.
LEMMA WindowKept ==
  ASSUME window' = window, NEW x
  PROVE  /\ UNCHANGED <<desktop, odd>> => (Agrees(x)' <=> Agrees(x))
         /\ \A b : Shows(x, b)' <=> Shows(x, b)
BY DEF Agrees, Shows

\* What gets lost is sent again, or not known any more.
LEMMA LoseTracks ==
  ASSUME net \in Seq(Reports), NEW i, LoseInput(i), NEW x, Tracked(x)
  PROVE  Tracked(x)'
<1> DEFINE n == Len(net)
<1>1. /\ i \in DOMAIN net /\ net' = RemoveAt(net, i)
      /\ unknown' = unknown \union (Sets(net[i]) \ SetBy(SubSeq(net, i + 1, n)))
      /\ UNCHANGED <<window, desktop, odd>>
  BY DEF LoseInput
<1>2. n \in Nat /\ DOMAIN net = 1..n /\ i \in 1..n
  BY <1>1, LenProperties
<1>3. /\ DOMAIN net' = 1..(n - 1)
      /\ \A j \in 1..(n - 1) : net'[j] = IF j < i THEN net[j] ELSE net[j + 1]
      /\ DOMAIN SubSeq(net, i + 1, n) = 1..(n - i)
      /\ \A j \in 1..(n - i) : SubSeq(net, i + 1, n)[j] = net[i + j]
  BY <1>1, RemovedFacts
<1> HIDE DEF n
<1> SUFFICES ASSUME x \notin unknown'
             PROVE  /\ NoneTells(x)' => Agrees(x)'
                    /\ \A m : IsLast(x, m)' => Told(x, m)'
  BY DEF Tracked
<1>4. ASSUME NEW j \in DOMAIN net, j # i
      PROVE  \E k \in DOMAIN net' : net'[k] = net[j] /\ k = IF j < i THEN j ELSE j - 1
  BY <1>2, <1>3, <1>4
<1>5. x \in Sets(net[i]) => \E j \in DOMAIN net : j > i /\ x \in Sets(net[j])
  <2> SUFFICES ASSUME x \in Sets(net[i])
               PROVE  \E j \in DOMAIN net : j > i /\ x \in Sets(net[j])
    OBVIOUS
  <2>1. x \in SetBy(SubSeq(net, i + 1, n))
    BY <1>1
  <2>2. PICK k \in 1..(n - i) : x \in Sets(SubSeq(net, i + 1, n)[k])
    BY <1>3, <2>1 DEF SetBy
  <2>3. x \in Sets(net[i + k]) /\ i + k \in DOMAIN net /\ i + k > i
    BY <1>2, <1>3, <2>2
  <2> QED BY <2>3
<1>6. x \notin unknown
  BY <1>1
<1>7. NoneTells(x)' => Agrees(x)'
  <2> SUFFICES ASSUME NoneTells(x)' PROVE Agrees(x)'
    OBVIOUS
  <2>1. \A j \in DOMAIN net : j # i => x \notin Sets(net[j])
    BY <1>4 DEF NoneTells
  <2>2. x \notin Sets(net[i])
    BY <1>2, <1>5, <2>1
  <2>3. NoneTells(x)
    BY <2>1, <2>2 DEF NoneTells
  <2> QED BY <1>1, <1>6, <2>3, WindowKept DEF Tracked
<1>8. ASSUME NEW m, IsLast(x, m)'
      PROVE  Told(x, m)'
  <2>1. m \in 1..(n - 1) /\ x \in Sets(net'[m])
        /\ \A j \in DOMAIN net' : j > m => x \notin Sets(net'[j])
    BY <1>3, <1>8 DEF IsLast
  <2>2. PICK k : k = IF m < i THEN m ELSE m + 1
    OBVIOUS
  <2>3. k \in DOMAIN net /\ net'[m] = net[k]
    BY <1>2, <1>3, <2>1, <2>2
  <2>4. \A j \in DOMAIN net : j > k /\ j # i => x \notin Sets(net[j])
    <3> SUFFICES ASSUME NEW j \in DOMAIN net, j > k, j # i PROVE x \notin Sets(net[j])
      OBVIOUS
    <3>1. PICK h \in DOMAIN net' : net'[h] = net[j] /\ h = IF j < i THEN j ELSE j - 1
      BY <1>4
    <3>2. h > m
      BY <1>2, <2>1, <2>2, <3>1
    <3> QED BY <2>1, <3>1, <3>2
  <2>5. x \in Sets(net[i]) => k > i
    <3> SUFFICES ASSUME x \in Sets(net[i]), k <= i PROVE FALSE
      BY <1>2, <2>1, <2>2
    <3>1. PICK j \in DOMAIN net : j > i /\ x \in Sets(net[j])
      BY <1>5
    <3>2. j > k /\ j # i
      BY <1>2, <2>1, <2>2, <3>1
    <3> QED BY <2>4, <3>1, <3>2
  <2>6. \A j \in DOMAIN net : j > k => x \notin Sets(net[j])
    <3> SUFFICES ASSUME NEW j \in DOMAIN net, j > k PROVE x \notin Sets(net[j])
      OBVIOUS
    <3>1. CASE j = i
      BY <1>2, <2>1, <2>2, <2>5, <3>1
    <3>2. CASE j # i
      BY <2>4, <3>2
    <3> QED BY <3>1, <3>2
  <2>7. IsLast(x, k)
    BY <2>1, <2>3, <2>6 DEF IsLast
  <2>8. Shows(x, net[k]) /\ ~Unnoticed(net[k])
    BY <1>6, <2>7 DEF Tracked, Told
  <2>9. PICK b : b = net[k]
    OBVIOUS
  <2>10. Shows(x, b)'
    BY <1>1, <2>8, <2>9, WindowKept
  <2> QED BY <2>3, <2>8, <2>9, <2>10 DEF Told
<1> QED BY <1>7, <1>8

-------------------------------------------------------------------------------
(* PlayerInput: how the server handles a datagram.                             *)

\* Command and Control change places, and no other key.
LEMMA MetaByteFacts ==
  ASSUME NEW k, NEW l, MetaByte(k) = MetaByte(l)
  PROVE  k = l
BY DEF MetaByte

LEMMA ThingFacts ==
  ASSUME NEW x \in Things
  PROVE  /\ x = "pointer" \/ x = "button" \/ x \in Keys
         /\ x \in Keys => x # "pointer" /\ x # "button"
BY PlayerInputAssumption DEF Things

\* A click that is noticed.
LEMMA HandleClick ==
  ASSUME InputTypes, HeldCounts, NEW b \in Clicks, ClickRequested(b), HandleMouse(b),
         window' = window
  PROVE  /\ desktop' \in Desktop /\ held' \in BOOLEAN /\ odd' \in BOOLEAN /\ HeldCounts'
         /\ \A x \in Things :
              IF x \in Sets(b) THEN Shows(x, b) => Agrees(x)' ELSE Agrees(x) => Agrees(x)'
<1>1. PICK at \in Positions, right \in BOOLEAN : b = Click(at, right)
  BY DEF Clicks
<1>2. /\ b.right = right /\ b.pressed = FALSE /\ b.click = Percents(at)
      /\ Spot(b) = at /\ ~MouseMoveRequested(b) /\ "pointer" \in Sets(b)
      /\ Sets(b) \subseteq {"pointer", "button"} /\ ("button" \in Sets(b) <=> ~right)
      /\ Position(b.click) = at
  BY <1>1, ClickFacts, PercentsFacts
<1>3. /\ desktop' = [desktop EXCEPT !.at = at, !.down = @ /\ right]
      /\ held' = (held # ~right)
      /\ odd' = IF right \/ desktop.down THEN odd ELSE ~odd
  BY <1>2 DEF HandleMouse
<1>4. desktop \in Desktop /\ held \in BOOLEAN /\ odd \in BOOLEAN
  BY DEF InputTypes
<1>5. /\ desktop'.at = at /\ desktop'.down = (desktop.down /\ right)
      /\ desktop'.keys = desktop.keys /\ desktop' \in Desktop
  BY <1>3, <1>4 DEF Desktop
<1>6. desktop.down \in BOOLEAN
  BY <1>4 DEF Desktop
<1>7. held' \in BOOLEAN /\ odd' \in BOOLEAN
  BY <1>3, <1>4
<1>8. HeldCounts'
  <2>1. CASE right
    BY <1>3, <1>4, <1>5, <1>6, <2>1 DEF HeldCounts
  <2>2. CASE ~right
    BY <1>3, <1>4, <1>5, <1>6, <2>2 DEF HeldCounts
  <2> QED BY <2>1, <2>2
<1>9. ASSUME NEW x \in Things
      PROVE  IF x \in Sets(b) THEN Shows(x, b) => Agrees(x)' ELSE Agrees(x) => Agrees(x)'
  <2>1. CASE x = "pointer"
    BY <1>2, <1>5, <2>1 DEF Shows, Agrees
  <2>2. CASE x = "button" /\ ~right
    BY <1>2, <1>5, <2>2 DEF Shows, Agrees
  <2>3. CASE x = "button" /\ right
    <3>1. x \notin Sets(b)
      BY <1>2, <2>3
    <3>2. (desktop'.down <=> desktop.down) /\ (odd' <=> odd)
      BY <1>3, <1>4, <1>5, <1>6, <2>3
    <3> QED BY <2>3, <3>1, <3>2 DEF Agrees
  <2>4. CASE x \in Keys
    <3>1. x # "pointer" /\ x # "button" /\ x \notin Sets(b)
      BY <1>2, <2>4, ThingFacts
    <3> QED BY <1>5, <2>4, <3>1 DEF Agrees
  <2> QED BY <2>1, <2>2, <2>3, <2>4, ThingFacts
<1> QED BY <1>5, <1>7, <1>8, <1>9

\* A move or a drag that is noticed.
LEMMA HandleMove ==
  ASSUME InputTypes, HeldCounts, NEW b \in Moves, MouseMoveRequested(b), HandleMouse(b),
         window' = window
  PROVE  /\ desktop' \in Desktop /\ held' \in BOOLEAN /\ odd' \in BOOLEAN /\ HeldCounts'
         /\ \A x \in Things :
              IF x \in Sets(b) THEN Shows(x, b) => Agrees(x)' ELSE Agrees(x) => Agrees(x)'
<1>1. PICK at \in Positions, pressed \in BOOLEAN : b = MouseMove(at, pressed)
  BY DEF Moves
<1>2. /\ b.pressed = pressed /\ b.move = Percents(at)
      /\ Spot(b) = at /\ ~ClickRequested(b) /\ "pointer" \in Sets(b)
      /\ Sets(b) \subseteq {"pointer", "button"} /\ ("button" \in Sets(b) <=> pressed)
      /\ Position(b.move) = at
  BY <1>1, MoveFacts, PercentsFacts
<1>3. /\ desktop' = [desktop EXCEPT !.at = at, !.down = @ \/ (pressed /\ ~held)]
      /\ held' = (held \/ pressed) /\ odd' = odd
  BY <1>2 DEF HandleMouse
<1>4. desktop \in Desktop /\ held \in BOOLEAN /\ odd \in BOOLEAN
  BY DEF InputTypes
<1>5. /\ desktop'.at = at /\ desktop'.down = (desktop.down \/ (pressed /\ ~held))
      /\ desktop'.keys = desktop.keys /\ desktop' \in Desktop
  BY <1>3, <1>4 DEF Desktop
<1>6. desktop.down \in BOOLEAN
  BY <1>4 DEF Desktop
<1>7. held' \in BOOLEAN /\ odd' \in BOOLEAN
  BY <1>3, <1>4
<1>8. HeldCounts'
  <2>1. CASE desktop.down
    BY <1>3, <1>4, <1>5, <1>6, <2>1 DEF HeldCounts
  <2>2. CASE ~desktop.down
    BY <1>3, <1>4, <1>5, <1>6, <2>2 DEF HeldCounts
  <2> QED BY <2>1, <2>2
<1>9. ASSUME NEW x \in Things
      PROVE  IF x \in Sets(b) THEN Shows(x, b) => Agrees(x)' ELSE Agrees(x) => Agrees(x)'
  <2>1. CASE x = "pointer"
    BY <1>2, <1>5, <2>1 DEF Shows, Agrees
  <2>2. CASE x = "button" /\ pressed
    <3>1. x \in Sets(b) /\ (Shows(x, b) => window.down)
      BY <1>2, <2>2 DEF Shows
    <3>2. ~odd => desktop'.down
      BY <1>4, <1>5, <1>6, <2>2 DEF HeldCounts
    <3> QED BY <1>3, <2>2, <3>1, <3>2 DEF Agrees
  <2>3. CASE x = "button" /\ ~pressed
    <3>1. x \notin Sets(b)
      BY <1>2, <2>3
    <3>2. (desktop'.down <=> desktop.down) /\ (odd' <=> odd)
      BY <1>3, <1>4, <1>5, <1>6, <2>3
    <3> QED BY <2>3, <3>1, <3>2 DEF Agrees
  <2>4. CASE x \in Keys
    <3>1. x # "pointer" /\ x # "button" /\ x \notin Sets(b)
      BY <1>2, <2>4, ThingFacts
    <3> QED BY <1>5, <2>4, <3>1 DEF Agrees
  <2> QED BY <2>1, <2>2, <2>3, <2>4, ThingFacts
<1> QED BY <1>5, <1>7, <1>8, <1>9

\* A key.
LEMMA HandleKey ==
  ASSUME InputTypes, HeldCounts, NEW b \in KeyReports,
         desktop' = [desktop EXCEPT !.keys = HandleKeys(@, b)], UNCHANGED <<window, held, odd>>
  PROVE  /\ desktop' \in Desktop /\ HeldCounts'
         /\ \A x \in Things :
              IF x \in Sets(b) THEN Shows(x, b) => Agrees(x)' ELSE Agrees(x) => Agrees(x)'
<1>1. PICK key \in Keys : /\ Sets(b) = {key}
                          /\ \/ b.press = {key} /\ b.release = {}
                             \/ b.press = {} /\ b.release = {key}
  BY KeyFacts
<1>2. desktop \in Desktop
  BY DEF InputTypes
<1>3. /\ desktop'.at = desktop.at /\ desktop'.down = desktop.down
      /\ desktop'.keys = HandleKeys(desktop.keys, b)
  BY <1>2 DEF Desktop
<1>4. HandleKeys(desktop.keys, b) \subseteq DesktopKeys
  <2>1. desktop.keys \subseteq DesktopKeys
    BY <1>2 DEF Desktop
  <2>2. \A k \in b.press : Known(k) /\ k # "Return" => MetaByte(k) \in DesktopKeys
    BY <1>1 DEF Known, DesktopKeys
  <2> QED BY <2>1, <2>2 DEF HandleKeys
<1>5. desktop' \in Desktop
  BY <1>2, <1>4 DEF Desktop
<1>6. HeldCounts'
  BY <1>3 DEF HeldCounts
<1>7. ASSUME NEW x \in Keys, x # "Return", Known(x)
      PROVE  MetaByte(x) \in desktop'.keys <=>
               IF x = key THEN x \in b.press ELSE MetaByte(x) \in desktop.keys
  <2>1. CASE b.press = {key} /\ b.release = {}
    <3>1. desktop'.keys = desktop.keys \union
            {MetaByte(k) : k \in {k \in {key} : Known(k) /\ k # "Return"}}
      BY <1>3, <2>1 DEF HandleKeys
    <3> QED BY <1>7, <2>1, <3>1, MetaByteFacts
  <2>2. CASE b.press = {} /\ b.release = {key}
    <3>1. desktop'.keys = desktop.keys \ {MetaByte(key)}
      BY <1>3, <2>2 DEF HandleKeys
    <3> QED BY <2>2, <3>1, MetaByteFacts
  <2> QED BY <1>1, <2>1, <2>2
<1>8. ASSUME NEW x \in Things
      PROVE  IF x \in Sets(b) THEN Shows(x, b) => Agrees(x)' ELSE Agrees(x) => Agrees(x)'
  <2>1. CASE x = "pointer" \/ x = "button"
    <3>1. x \notin Sets(b)
      BY <1>1, <2>1, ThingFacts
    <3> QED BY <1>3, <2>1, <3>1 DEF Agrees
  <2>2. CASE x \in Keys
    <3>1. x # "pointer" /\ x # "button" /\ (x \in Sets(b) <=> x = key)
      BY <1>1, <2>2, ThingFacts
    <3> QED BY <1>7, <2>2, <3>1 DEF Agrees, Shows
  <2> QED BY <2>1, <2>2, ThingFacts
<1> QED BY <1>5, <1>6, <1>8

\* What a handled datagram tells holds on the desktop, and it leaves the rest.
LEMMA HandleDatagram ==
  ASSUME InputTypes, HeldCounts, HandleInput, NEW b \in Reports, b = Head(net)
  PROVE  /\ desktop' \in Desktop /\ held' \in BOOLEAN /\ odd' \in BOOLEAN /\ HeldCounts'
         /\ \A x \in Things :
              /\ x \in Sets(b) /\ Shows(x, b) /\ ~Unnoticed(b) => Agrees(x)'
              /\ x \notin Sets(b) /\ Agrees(x) => Agrees(x)'
<1>1. /\ IF ClickRequested(b) \/ MouseMoveRequested(b) THEN HandleMouse(b)
         ELSE /\ desktop' = [desktop EXCEPT !.keys = HandleKeys(@, b)]
              /\ UNCHANGED <<held, odd>>
      /\ window' = window
  BY DEF HandleInput
<1>2. b \in Clicks \/ b \in Moves \/ b \in KeyReports
  BY ReportType
<1>3. desktop \in Desktop /\ held \in BOOLEAN /\ odd \in BOOLEAN
  BY DEF InputTypes
<1>4. ASSUME ~ClickRequested(b), ~MouseMoveRequested(b), b.press = {}, b.release = {},
             Unnoticed(b)
      PROVE  /\ desktop' \in Desktop /\ held' \in BOOLEAN /\ odd' \in BOOLEAN /\ HeldCounts'
             /\ \A x \in Things :
                  /\ x \in Sets(b) /\ Shows(x, b) /\ ~Unnoticed(b) => Agrees(x)'
                  /\ x \notin Sets(b) /\ Agrees(x) => Agrees(x)'
  <2>1. HandleKeys(desktop.keys, b) = desktop.keys
    BY <1>4 DEF HandleKeys
  <2>2. desktop' = [desktop EXCEPT !.keys = desktop.keys] /\ UNCHANGED <<held, odd>>
    BY <1>1, <1>4, <2>1
  <2>3. UNCHANGED <<desktop, held, odd>>
    BY <1>3, <2>2 DEF Desktop
  <2>4. HeldCounts'
    BY <2>3 DEF HeldCounts
  <2> QED BY <1>1, <1>3, <1>4, <2>3, <2>4, WindowKept
<1>5. CASE b \in Clicks
  <2>1. PICK at \in Positions, right \in BOOLEAN : b = Click(at, right)
    BY <1>5 DEF Clicks
  <2>2. /\ b.press = {} /\ b.release = {} /\ ~MouseMoveRequested(b)
        /\ Unnoticed(b) <=> ~ClickRequested(b)
    BY <2>1, ClickFacts
  <2>3. CASE ClickRequested(b)
    BY <1>1, <1>5, <2>3, HandleClick
  <2> QED BY <1>4, <2>2, <2>3
<1>6. CASE b \in Moves
  <2>1. PICK at \in Positions, pressed \in BOOLEAN : b = MouseMove(at, pressed)
    BY <1>6 DEF Moves
  <2>2. /\ b.press = {} /\ b.release = {} /\ ~ClickRequested(b)
        /\ Unnoticed(b) <=> ~MouseMoveRequested(b)
    BY <2>1, MoveFacts
  <2>3. CASE MouseMoveRequested(b)
    BY <1>1, <1>6, <2>3, HandleMove
  <2> QED BY <1>4, <2>2, <2>3
<1>7. CASE b \in KeyReports
  <2>1. ~ClickRequested(b) /\ ~MouseMoveRequested(b)
    BY <1>7, KeyFacts
  <2>2. /\ desktop' = [desktop EXCEPT !.keys = HandleKeys(@, b)]
        /\ UNCHANGED <<window, held, odd>>
    BY <1>1, <2>1
  <2> QED BY <1>3, <1>7, <2>2, HandleKey
<1> QED BY <1>2, <1>5, <1>6, <1>7

LEMMA HandleStep ==
  ASSUME InputInv, HandleInput
  PROVE  InputInv'
<1>1. InputTypes /\ HeldCounts /\ DraggedOut /\ net \in Seq(Reports) /\ net # <<>>
  BY DEF InputInv, InputTypes, HandleInput
<1>2. /\ Head(net) \in Reports /\ Tail(net) \in Seq(Reports)
      /\ Len(net) \in Nat /\ DOMAIN net = 1..Len(net) /\ 1 \in DOMAIN net
      /\ Head(net) = net[1] /\ DOMAIN Tail(net) = 1..(Len(net) - 1)
      /\ \A j \in 1..(Len(net) - 1) : Tail(net)[j] = net[j + 1]
  <2>1. /\ Head(net) \in Reports /\ Tail(net) \in Seq(Reports) /\ Len(net) \in Nat
        /\ Len(Tail(net)) = Len(net) - 1 /\ DOMAIN net = 1..Len(net) /\ Len(net) # 0
        /\ \A j \in 1..Len(Tail(net)) : Tail(net)[j] = net[j + 1]
    BY <1>1, HeadTailProperties, LenProperties, EmptySeq
  <2>2. DOMAIN Tail(net) = 1..(Len(net) - 1) /\ 1 \in 1..Len(net)
    BY <2>1, LenProperties
  <2> QED BY <1>1, <2>1, <2>2
<1>3. net' = Tail(net) /\ UNCHANGED <<window, connected, events, unknown>>
  BY DEF HandleInput
<1>4. PICK b \in Reports : b = Head(net)
  BY <1>2
<1>5. /\ desktop' \in Desktop /\ held' \in BOOLEAN /\ odd' \in BOOLEAN /\ HeldCounts'
      /\ \A x \in Things :
           /\ x \in Sets(b) /\ Shows(x, b) /\ ~Unnoticed(b) => Agrees(x)'
           /\ x \notin Sets(b) /\ Agrees(x) => Agrees(x)'
  BY <1>1, <1>4, HandleDatagram
<1>6. InputTypes'
  BY <1>1, <1>2, <1>3, <1>5 DEF InputTypes
<1>7. DraggedOut'
  BY <1>1, <1>3 DEF DraggedOut
<1>8. ASSUME NEW x \in Things
      PROVE  Tracked(x)'
  <2> SUFFICES ASSUME x \notin unknown'
               PROVE  /\ NoneTells(x)' => Agrees(x)'
                      /\ \A m : IsLast(x, m)' => Told(x, m)'
    BY DEF Tracked
  <2>1. /\ NoneTells(x) => Agrees(x)
        /\ \A m : IsLast(x, m) => Told(x, m)
    BY <1>3 DEF InputInv, Tracked
  <2>2. \A j \in DOMAIN net : j # 1 => j - 1 \in DOMAIN net' /\ net'[j - 1] = net[j]
    BY <1>2, <1>3
  <2>3. NoneTells(x)' => Agrees(x)'
    <3> SUFFICES ASSUME NoneTells(x)' PROVE Agrees(x)'
      OBVIOUS
    <3>1. \A j \in DOMAIN net : j # 1 => x \notin Sets(net[j])
      BY <2>2 DEF NoneTells
    <3>2. CASE x \in Sets(b)
      <4>1. IsLast(x, 1)
        BY <1>2, <1>4, <3>1, <3>2 DEF IsLast
      <4>2. Shows(x, b) /\ ~Unnoticed(b)
        BY <1>2, <1>4, <2>1, <4>1 DEF Told
      <4> QED BY <1>5, <3>2, <4>2
    <3>3. CASE x \notin Sets(b)
      <4>1. NoneTells(x)
        BY <1>2, <1>4, <3>1, <3>3 DEF NoneTells
      <4> QED BY <1>5, <2>1, <3>3, <4>1
    <3> QED BY <3>2, <3>3
  <2>4. ASSUME NEW m, IsLast(x, m)'
        PROVE  Told(x, m)'
    <3>1. /\ m \in 1..(Len(net) - 1) /\ x \in Sets(net'[m])
          /\ \A j \in DOMAIN net' : j > m => x \notin Sets(net'[j])
      BY <1>2, <1>3, <2>4 DEF IsLast
    <3>2. m + 1 \in DOMAIN net /\ net'[m] = net[m + 1]
      BY <1>2, <1>3, <3>1
    <3>3. ASSUME NEW j \in DOMAIN net, j > m + 1
          PROVE  x \notin Sets(net[j])
      <4>1. j # 1 /\ j - 1 > m
        BY <1>2, <3>1, <3>3
      <4> QED BY <2>2, <3>1, <4>1
    <3>4. IsLast(x, m + 1)
      BY <3>1, <3>2, <3>3 DEF IsLast
    <3>5. Shows(x, net[m + 1]) /\ ~Unnoticed(net[m + 1])
      BY <2>1, <3>4 DEF Told
    <3>6. PICK c : c = net[m + 1]
      OBVIOUS
    <3>7. Shows(x, c)'
      BY <1>3, <3>5, <3>6, WindowKept
    <3> QED BY <3>2, <3>5, <3>6, <3>7 DEF Told
  <2> QED BY <2>3, <2>4
<1> QED BY <1>5, <1>6, <1>7, <1>8 DEF InputInv

LEMMA LoseStep ==
  ASSUME InputInv, NEW i, LoseInput(i)
  PROVE  InputInv'
<1>1. InputTypes /\ HeldCounts /\ DraggedOut /\ net \in Seq(Reports)
  BY DEF InputInv, InputTypes
<1>2. /\ i \in DOMAIN net /\ net' = RemoveAt(net, i)
      /\ unknown' = unknown \union (Sets(net[i]) \ SetBy(SubSeq(net, i + 1, Len(net))))
      /\ UNCHANGED <<window, connected, desktop, held, events, odd>>
  BY DEF LoseInput
<1>3. Sets(net[i]) \subseteq Things
  BY <1>1, <1>2, ElementOfSeq, LenProperties, ReportType
<1>4. net' \in Seq(Reports)
  BY <1>1, <1>2, RemovedFacts
<1>5. InputTypes'
  BY <1>1, <1>2, <1>3, <1>4 DEF InputTypes
<1>6. HeldCounts' /\ DraggedOut'
  BY <1>1, <1>2 DEF HeldCounts, DraggedOut
<1>7. \A x \in Things : Tracked(x)'
  BY <1>1, LoseTracks DEF InputInv
<1> QED BY <1>5, <1>6, <1>7 DEF InputInv

-------------------------------------------------------------------------------
(* PlayerInput: what happens in the window.                                    *)

LEMMA SetByFacts ==
  /\ SetBy(<<>>) = {}
  /\ \A a : SetBy(<<a>>) = Sets(a)
  /\ \A a, b : SetBy(<<a, b>>) = Sets(a) \union Sets(b)
<1>1. SetBy(<<>>) = {}
  BY DEF SetBy
<1>2. ASSUME NEW a PROVE SetBy(<<a>>) = Sets(a)
  <2>1. DOMAIN <<a>> = {1} /\ <<a>>[1] = a
    OBVIOUS
  <2> QED BY <2>1, Zenon DEF SetBy
<1>3. ASSUME NEW a, NEW b PROVE SetBy(<<a, b>>) = Sets(a) \union Sets(b)
  <2>1. DOMAIN <<a, b>> = {1, 2} /\ <<a, b>>[1] = a /\ <<a, b>>[2] = b
    OBVIOUS
  <2> QED BY <2>1, Zenon DEF SetBy
<1> QED BY <1>1, <1>2, <1>3

\* What an event changes in the window it reports, or it is not known any more.
Reported(s, inside) ==
  /\ connected /\ inside =>
       /\ s \in Seq(Reports)
       /\ \A x \in Things : \A i \in DOMAIN s : x \in Sets(s[i]) => Shows(x, s[i])'
  /\ \A x \in Things : x \notin SetBy(s) /\ x \notin unknown =>
       /\ Agrees(x) => Agrees(x)'
       /\ \A b \in Reports : Shows(x, b) => Shows(x, b)'
  /\ SetBy(s) \subseteq Things

LEMMA EventStep ==
  ASSUME InputInv, NEW s, NEW inside \in BOOLEAN, Emit(s, inside), WindowEvent,
         window' \in Window, DraggedOut', Reported(s, inside)
  PROVE  InputInv'
<1>1. InputTypes /\ HeldCounts /\ net \in Seq(Reports)
  BY DEF InputInv, InputTypes
<1>2. events' = events - 1 /\ events > 0 /\ UNCHANGED <<connected, desktop, held, odd>>
  BY DEF WindowEvent
<1>3. events' \in 0..MaxEvents
  BY <1>1, <1>2, PlayerInputAssumption DEF InputTypes
<1>4. net' \in Seq(Reports) /\ unknown' \subseteq Things
  <2>1. CASE connected /\ inside
    <3>1. s \in Seq(Reports)
      BY <2>1 DEF Reported
    <3>2. SetUnnoticed(s) \subseteq Things
      BY <3>1, ElementOfSeq, LenProperties, ReportType DEF SetUnnoticed
    <3>3. net' = net \o s /\ unknown' = (unknown \ SetBy(s)) \union SetUnnoticed(s)
      BY <2>1 DEF Emit
    <3> QED BY <1>1, <3>1, <3>2, <3>3, ConcatProperties DEF InputTypes
  <2>2. CASE ~(connected /\ inside)
    BY <1>1, <2>2 DEF Emit, InputTypes, Reported
  <2> QED BY <2>1, <2>2
<1>5. InputTypes'
  BY <1>1, <1>2, <1>3, <1>4 DEF InputTypes
<1>6. HeldCounts'
  BY <1>1, <1>2 DEF HeldCounts
<1>7. ASSUME NEW x \in Things
      PROVE  Tracked(x)'
  <2>1. Tracked(x)
    BY DEF InputInv
  <2>2. connected /\ inside =>
          /\ s \in Seq(Reports)
          /\ \A i \in DOMAIN s : x \in Sets(s[i]) => Shows(x, s[i])'
    BY DEF Reported
  <2>3. x \notin SetBy(s) /\ x \notin unknown =>
          /\ Agrees(x) => Agrees(x)'
          /\ \A b \in Reports : Shows(x, b) => Shows(x, b)'
    BY DEF Reported
  <2> QED BY <1>1, <2>1, <2>2, <2>3, EmitTracks
<1> QED BY <1>5, <1>6, <1>7 DEF InputInv

\* Where the pointer is not in the picture, the bytes are those of no datagram.
LEMMA OutsideFacts ==
  /\ \A right : Sets(Click(Outside, right)) = {}
  /\ \A pressed \in BOOLEAN :
       Sets(MouseMove(Outside, pressed)) = IF pressed THEN {"button"} ELSE {}
<1>1. Percents(Outside) = Nowhere
  BY DEF Percents, Outside, Nowhere
<1> QED BY <1>1 DEF Sets, Click, MouseMove, NoBytes

\* What is reported of a position and a key.
LEMMA ReportOf ==
  /\ \A at \in Positions, p \in BOOLEAN : Click(at, p) \in Clicks /\ MouseMove(at, p) \in Moves
  /\ \A key \in Keys : KeyPressed(key) \in KeyReports /\ KeyReleased(key) \in KeyReports
<1>1. ASSUME NEW at \in Positions, NEW p \in BOOLEAN
      PROVE  Click(at, p) \in Clicks /\ MouseMove(at, p) \in Moves
  <2>1. \E q \in Positions, r \in BOOLEAN : Click(at, p) = Click(q, r)
    BY Zenon
  <2>2. \E q \in Positions, r \in BOOLEAN : MouseMove(at, p) = MouseMove(q, r)
    BY Zenon
  <2>3. Click(at, p) \in Clicks
    BY <2>1 DEF Clicks
  <2>4. MouseMove(at, p) \in Moves
    BY <2>2 DEF Moves
  <2> QED BY <2>3, <2>4
<1>2. ASSUME NEW key \in Keys
      PROVE  KeyPressed(key) \in KeyReports /\ KeyReleased(key) \in KeyReports
  BY Zenon DEF KeyReports
<1> QED BY <1>1, <1>2

LEMMA MoveStep ==
  ASSUME InputInv, NEW at \in Positions \union {Outside}, MovePointer(at)
  PROVE  InputInv'
<1>0. PICK s : s = IF window.down THEN <<MouseMove(at, FALSE), MouseMove(at, TRUE)>>
                                  ELSE <<MouseMove(at, FALSE)>>
  OBVIOUS
<1>1. /\ WindowEvent
      /\ window' = [window EXCEPT !.at = at, !.dragged = @ \/ (window.down /\ at # Outside)]
      /\ Emit(s, at # Outside)
      /\ UNCHANGED <<connected, desktop, held, odd>>
  BY <1>0 DEF MovePointer, WindowEvent
<1>2. window \in Window
  BY DEF InputInv, InputTypes
<1>3. window' \in Window
  BY <1>1, <1>2 DEF Window
<1>4. window'.at = at /\ (window'.down <=> window.down) /\ window'.keys = window.keys
  BY <1>1, <1>2 DEF Window
<1>5. SetBy(s) = Sets(MouseMove(at, FALSE))
                   \union (IF window.down THEN Sets(MouseMove(at, TRUE)) ELSE {})
  BY <1>0, SetByFacts
<1>6. CASE at = Outside
  <2>1. SetBy(s) = IF window.down THEN {"button"} ELSE {}
    BY <1>5, <1>6, OutsideFacts
  <2>2. unknown' = unknown \union SetBy(s)
    BY <1>1, <1>6 DEF Emit
  <2>3. DraggedOut'
    BY <1>4, <2>1, <2>2 DEF DraggedOut
  <2>4. ASSUME NEW x \in Things, x \notin SetBy(s)
        PROVE  /\ Agrees(x) => Agrees(x)'
               /\ \A b \in Reports : Shows(x, b) => Shows(x, b)'
    <3>1. CASE x = "pointer"
      BY <1>4, <1>6, <3>1 DEF Agrees, Shows
    <3>2. CASE x = "button"
      <4>1. ~window.down /\ ~window'.down
        BY <1>4, <2>1, <2>4, <3>2
      <4> QED BY <1>1, <3>2, <4>1 DEF Agrees, Shows
    <3>3. CASE x # "pointer" /\ x # "button"
      BY <1>1, <1>4, <3>3 DEF Agrees, Shows
    <3> QED BY <3>1, <3>2, <3>3
  <2>5. SetBy(s) \subseteq Things
    BY <2>1 DEF Things
  <2>6. Reported(s, at # Outside)
    BY <1>6, <2>4, <2>5 DEF Reported
  <2> QED BY <1>1, <1>3, <2>3, <2>6, EventStep
<1>7. CASE at # Outside
  <2>1. at \in Positions
    BY <1>7
  <2>2. PICK a \in Moves : /\ a = MouseMove(at, FALSE) /\ a.pressed = FALSE /\ Spot(a) = at
                           /\ a.press = {} /\ Sets(a) = {"pointer"}
    <3>1. PICK a : a = MouseMove(at, FALSE)
      OBVIOUS
    <3>2. a \in Moves
      BY <2>1, <3>1, ReportOf
    <3>3. /\ a.pressed = FALSE /\ Spot(a) = at /\ a.press = {}
          /\ "pointer" \in Sets(a) /\ Sets(a) \subseteq {"pointer", "button"}
          /\ "button" \notin Sets(a)
      BY <2>1, <3>1, MoveFacts
    <3> QED BY <3>1, <3>2, <3>3
  <2>3. PICK d \in Moves : /\ d = MouseMove(at, TRUE) /\ d.pressed = TRUE /\ Spot(d) = at
                           /\ d.press = {} /\ Sets(d) = {"pointer", "button"}
    <3>1. PICK d : d = MouseMove(at, TRUE)
      OBVIOUS
    <3>2. d \in Moves
      BY <2>1, <3>1, ReportOf
    <3>3. /\ d.pressed = TRUE /\ Spot(d) = at /\ d.press = {}
          /\ "pointer" \in Sets(d) /\ Sets(d) \subseteq {"pointer", "button"}
          /\ "button" \in Sets(d)
      BY <2>1, <3>1, MoveFacts
    <3> QED BY <3>1, <3>2, <3>3
  <2>4. s = IF window.down THEN <<a, d>> ELSE <<a>>
    BY <1>0, <2>2, <2>3
  <2>5. SetBy(s) = IF window.down THEN {"pointer", "button"} ELSE {"pointer"}
    BY <1>5, <2>2, <2>3
  <2>6. SetBy(s) \subseteq Things
    BY <2>5 DEF Things
  <2>7. DraggedOut'
    BY <1>4, <1>7 DEF DraggedOut
  <2>8. s \in Seq(Reports)
    <3>1. a \in Reports /\ d \in Reports
      BY <2>2, <2>3 DEF Reports
    <3> QED BY <2>4, <3>1
  <2>9. ASSUME NEW x \in Things, x \notin SetBy(s)
        PROVE  /\ Agrees(x) => Agrees(x)'
               /\ \A b \in Reports : Shows(x, b) => Shows(x, b)'
    <3>1. x # "pointer"
      BY <2>5, <2>9
    <3>2. CASE x = "button"
      <4>1. ~window.down /\ ~window'.down
        BY <1>4, <2>5, <2>9, <3>2
      <4> QED BY <1>1, <3>2, <4>1 DEF Agrees, Shows
    <3>3. CASE x # "button"
      BY <1>1, <1>4, <3>1, <3>3 DEF Agrees, Shows
    <3> QED BY <3>2, <3>3
  <2>10. /\ \A x \in Sets(a) : Shows(x, a)'
         /\ window.down => \A x \in Sets(d) : Shows(x, d)'
    BY <1>4, <2>2, <2>3 DEF Shows
  <2>11. ASSUME NEW x \in Things, NEW i \in DOMAIN s, x \in Sets(s[i])
         PROVE  Shows(x, s[i])'
    <3>1. s[i] = a \/ (window.down /\ s[i] = d)
      BY <2>4
    <3>2. PICK b : b = s[i]
      OBVIOUS
    <3>3. Shows(x, b)'
      BY <2>10, <2>11, <3>1, <3>2
    <3> QED BY <3>2, <3>3
  <2>12. Reported(s, at # Outside)
    BY <2>6, <2>8, <2>9, <2>11 DEF Reported
  <2> QED BY <1>1, <1>3, <2>7, <2>12, EventStep
<1> QED BY <1>6, <1>7

\* A click in the picture.
LEMMA ClickReport ==
  ASSUME NEW at \in Positions, NEW right \in BOOLEAN
  PROVE  \E a \in Reports :
           /\ a = Click(at, right) /\ a.pressed = FALSE /\ Spot(a) = at
           /\ Sets(a) = IF right THEN {"pointer"} ELSE {"pointer", "button"}
<1>1. PICK a : a = Click(at, right)
  OBVIOUS
<1>2. a \in Reports
  BY <1>1, ReportOf DEF Reports
<1>3. /\ a.pressed = FALSE /\ Spot(a) = at
      /\ "pointer" \in Sets(a) /\ Sets(a) \subseteq {"pointer", "button"}
      /\ ("button" \in Sets(a) <=> ~right)
  BY <1>1, ClickFacts
<1> QED BY <1>1, <1>2, <1>3

\* A report of its own.
LEMMA OneReport ==
  ASSUME NEW a \in Reports, NEW s, s = <<a>>,
         \A x \in Sets(a) : Shows(x, a)',
         \A x \in Things : x \notin Sets(a) /\ x \notin unknown =>
           /\ Agrees(x) => Agrees(x)'
           /\ \A b \in Reports : Shows(x, b) => Shows(x, b)'
  PROVE  Reported(s, TRUE)
<1>1. s \in Seq(Reports) /\ DOMAIN s = {1} /\ s[1] = a
  OBVIOUS
<1>2. SetBy(s) = Sets(a) /\ Sets(a) \subseteq Things
  BY SetByFacts, ReportType
<1>3. ASSUME NEW x \in Things, NEW i \in DOMAIN s, x \in Sets(s[i])
      PROVE  Shows(x, s[i])'
  <2>1. s[i] = a
    BY <1>1
  <2> QED BY <1>3, <2>1
<1> QED BY <1>1, <1>2, <1>3 DEF Reported

LEMMA PressStep ==
  ASSUME InputInv, PressButton
  PROVE  InputInv'
<1>1. /\ WindowEvent /\ UNCHANGED <<net, unknown, desktop, odd>>
      /\ window' = [window EXCEPT !.down = TRUE, !.dragged = FALSE]
      /\ ~window.down /\ window.at # Outside
  BY DEF PressButton, WindowEvent
<1>2. window \in Window
  BY DEF InputInv, InputTypes
<1>3. window' \in Window
  BY <1>1, <1>2 DEF Window
<1>4. /\ window'.at = window.at /\ window'.down = TRUE /\ window'.dragged = FALSE
      /\ window'.keys = window.keys
  BY <1>1, <1>2 DEF Window
<1>5. PICK s : s = <<>>
  OBVIOUS
<1>6. SetBy(s) = {}
  BY <1>5, SetByFacts
<1>7. Emit(s, FALSE)
  BY <1>1, <1>6 DEF Emit
<1>8. DraggedOut'
  BY <1>1, <1>4 DEF DraggedOut
<1>9. ASSUME NEW x \in Things
      PROVE  /\ Agrees(x) => Agrees(x)'
             /\ \A b \in Reports : Shows(x, b) => Shows(x, b)'
  <2>1. CASE x = "button"
    BY <1>4, <2>1 DEF Agrees, Shows
  <2>2. CASE x # "button"
    BY <1>1, <1>4, <2>2 DEF Agrees, Shows
  <2> QED BY <2>1, <2>2
<1>10. Reported(s, FALSE)
  BY <1>6, <1>9 DEF Reported
<1> QED BY <1>1, <1>3, <1>7, <1>8, <1>10, EventStep

LEMMA ReleaseStep ==
  ASSUME InputInv, ReleaseButton
  PROVE  InputInv'
<1>1. /\ WindowEvent /\ UNCHANGED <<desktop, odd>> /\ window.down
      /\ window' = [window EXCEPT !.down = FALSE]
      /\ Emit(<<Click(window.at, FALSE)>>, window.at # Outside)
  BY DEF ReleaseButton, WindowEvent
<1>2. window \in Window
  BY DEF InputInv, InputTypes
<1>3. window' \in Window
  BY <1>1, <1>2 DEF Window
<1>4. window'.at = window.at /\ window'.down = FALSE /\ window'.keys = window.keys
  BY <1>1, <1>2 DEF Window
<1>5. DraggedOut'
  BY <1>4 DEF DraggedOut
<1>6. PICK s : s = <<Click(window.at, FALSE)>>
  OBVIOUS
<1>7. ASSUME NEW x \in Things, x # "button"
      PROVE  /\ Agrees(x) => Agrees(x)'
             /\ \A b \in Reports : Shows(x, b) => Shows(x, b)'
  BY <1>1, <1>4, <1>7 DEF Agrees, Shows
<1>8. CASE window.at = Outside
  <2>1. SetBy(s) = {}
    BY <1>6, <1>8, SetByFacts, OutsideFacts
  <2>2. "button" \in unknown
    BY <1>1, <1>8 DEF InputInv, DraggedOut
  <2>3. Reported(s, FALSE)
    BY <1>7, <2>1, <2>2 DEF Reported
  <2>4. Emit(s, FALSE)
    BY <1>1, <1>6, <1>8
  <2> QED BY <1>1, <1>3, <1>5, <2>3, <2>4, EventStep
<1>9. CASE window.at # Outside
  <2>1. PICK at \in Positions : at = window.at
    BY <1>2, <1>9 DEF Window
  <2>2. PICK a \in Reports : /\ a = Click(at, FALSE) /\ a.pressed = FALSE /\ Spot(a) = at
                             /\ Sets(a) = {"pointer", "button"}
    BY ClickReport
  <2>3. \A x \in Sets(a) : Shows(x, a)'
    BY <1>4, <2>1, <2>2 DEF Shows
  <2>4. \A x \in Things : x \notin Sets(a) /\ x \notin unknown =>
           /\ Agrees(x) => Agrees(x)'
           /\ \A b \in Reports : Shows(x, b) => Shows(x, b)'
    BY <1>7, <2>2
  <2>5. s = <<a>>
    BY <1>6, <2>1, <2>2
  <2>6. Reported(s, TRUE)
    BY <2>3, <2>4, <2>5, OneReport
  <2>7. Emit(s, TRUE)
    BY <1>1, <1>6, <1>9
  <2> QED BY <1>1, <1>3, <1>5, <2>6, <2>7, EventStep
<1> QED BY <1>8, <1>9

LEMMA OtherStep ==
  ASSUME InputInv, OtherClick
  PROVE  InputInv'
<1>1. /\ WindowEvent /\ UNCHANGED <<desktop, odd>>
      /\ window' = [window EXCEPT !.dragged = FALSE]
      /\ Emit(<<Click(window.at, FALSE)>>, window.at # Outside)
  BY DEF OtherClick, WindowEvent
<1>2. window \in Window
  BY DEF InputInv, InputTypes
<1>3. window' \in Window
  BY <1>1, <1>2 DEF Window
<1>4. /\ window'.at = window.at /\ window'.down = window.down /\ window'.dragged = FALSE
      /\ window'.keys = window.keys
  BY <1>1, <1>2 DEF Window
<1>5. PICK s : s = <<Click(window.at, FALSE)>>
  OBVIOUS
<1>6. ASSUME NEW x \in Things
      PROVE  /\ Agrees(x) => Agrees(x)'
             /\ \A b \in Reports : Shows(x, b) => Shows(x, b)'
  BY <1>1, <1>4, <1>6 DEF Agrees, Shows
<1>7. CASE window.at = Outside
  <2>1. SetBy(s) = {}
    BY <1>5, <1>7, SetByFacts, OutsideFacts
  <2>2. Reported(s, FALSE)
    BY <1>6, <2>1 DEF Reported
  <2>3. Emit(s, FALSE)
    BY <1>1, <1>5, <1>7
  <2>4. unknown' = unknown
    BY <2>1, <2>3 DEF Emit
  <2>5. DraggedOut'
    BY <1>4, <2>4 DEF DraggedOut, InputInv
  <2> QED BY <1>1, <1>3, <2>2, <2>3, <2>5, EventStep
<1>8. CASE window.at # Outside
  <2>1. PICK at \in Positions : at = window.at
    BY <1>2, <1>8 DEF Window
  <2>2. PICK a \in Reports : /\ a = Click(at, FALSE) /\ a.pressed = FALSE /\ Spot(a) = at
                             /\ Sets(a) = {"pointer", "button"}
    BY ClickReport
  <2>3. \A x \in Sets(a) : Shows(x, a)'
    BY <1>4, <2>1, <2>2 DEF Shows
  <2>4. \A x \in Things : x \notin Sets(a) /\ x \notin unknown =>
           /\ Agrees(x) => Agrees(x)'
           /\ \A b \in Reports : Shows(x, b) => Shows(x, b)'
    BY <1>6
  <2>5. s = <<a>>
    BY <1>5, <2>1, <2>2
  <2>6. Reported(s, TRUE)
    BY <2>3, <2>4, <2>5, OneReport
  <2>7. Emit(s, TRUE)
    BY <1>1, <1>5, <1>8
  <2>8. DraggedOut'
    BY <1>4, <1>8 DEF DraggedOut
  <2> QED BY <1>1, <1>3, <2>6, <2>7, <2>8, EventStep
<1> QED BY <1>7, <1>8

LEMMA RightStep ==
  ASSUME InputInv, RightClick
  PROVE  InputInv'
<1>1. /\ WindowEvent /\ UNCHANGED <<desktop, odd, window>>
      /\ Emit(<<Click(window.at, TRUE)>>, window.at # Outside)
  BY DEF RightClick, WindowEvent
<1>2. window \in Window
  BY DEF InputInv, InputTypes
<1>3. window' \in Window
  BY <1>1, <1>2
<1>5. DraggedOut'
  BY <1>1 DEF DraggedOut, InputInv, Emit
<1>6. PICK s : s = <<Click(window.at, TRUE)>>
  OBVIOUS
<1>7. ASSUME NEW x \in Things
      PROVE  /\ Agrees(x) => Agrees(x)'
             /\ \A b \in Reports : Shows(x, b) => Shows(x, b)'
  BY <1>1, WindowKept
<1>8. CASE window.at = Outside
  <2>1. SetBy(s) = {}
    BY <1>6, <1>8, SetByFacts, OutsideFacts
  <2>3. Reported(s, FALSE)
    BY <1>7, <2>1 DEF Reported
  <2>4. Emit(s, FALSE)
    BY <1>1, <1>6, <1>8
  <2> QED BY <1>1, <1>3, <1>5, <2>3, <2>4, EventStep
<1>9. CASE window.at # Outside
  <2>1. PICK at \in Positions : at = window.at
    BY <1>2, <1>9 DEF Window
  <2>2. PICK a \in Reports : /\ a = Click(at, TRUE) /\ Spot(a) = at
                             /\ Sets(a) = {"pointer"}
    BY ClickReport
  <2>3. \A x \in Sets(a) : Shows(x, a)'
    BY <1>1, <2>1, <2>2 DEF Shows
  <2>4. \A x \in Things : x \notin Sets(a) /\ x \notin unknown =>
           /\ Agrees(x) => Agrees(x)'
           /\ \A b \in Reports : Shows(x, b) => Shows(x, b)'
    BY <1>7
  <2>5. s = <<a>>
    BY <1>6, <2>1, <2>2
  <2>6. Reported(s, TRUE)
    BY <2>3, <2>4, <2>5, OneReport
  <2>7. Emit(s, TRUE)
    BY <1>1, <1>6, <1>9
  <2> QED BY <1>1, <1>3, <1>5, <2>6, <2>7, EventStep
<1> QED BY <1>8, <1>9

\* A key goes down or up.
LEMMA KeyStep ==
  ASSUME InputInv, NEW key \in Keys, NEW a \in KeyReports, Sets(a) = {key},
         WindowEvent, Emit(<<a>>, TRUE), NEW keys \in SUBSET Keys,
         window' = [window EXCEPT !.keys = keys],
         key \in a.press <=> key \in keys,
         \A k \in Keys \ {key} : k \in keys <=> k \in window.keys
  PROVE  InputInv'
<1>1. window \in Window
  BY DEF InputInv, InputTypes
<1>2. /\ window'.at = window.at /\ window'.down = window.down
      /\ window'.dragged = window.dragged /\ window'.keys = keys /\ window' \in Window
  BY <1>1 DEF Window
<1>3. key # "button" /\ key # "pointer"
  BY PlayerInputAssumption
<1>4. DraggedOut'
  <2>1. "button" \in unknown => "button" \in unknown'
    BY <1>3, SetByFacts DEF Emit
  <2> QED BY <1>2, <2>1 DEF DraggedOut, InputInv
<1>5. UNCHANGED <<desktop, odd>>
  BY DEF WindowEvent
<1>6. ASSUME NEW x \in Things, x # key
      PROVE  /\ Agrees(x) => Agrees(x)'
             /\ \A b \in Reports : Shows(x, b) => Shows(x, b)'
  <2>1. CASE x = "pointer" \/ x = "button"
    BY <1>2, <1>5, <2>1 DEF Agrees, Shows
  <2>2. CASE x \in Keys
    <3>1. x \in keys <=> x \in window.keys
      BY <1>6, <2>2
    <3>2. x # "pointer" /\ x # "button"
      BY <2>2, ThingFacts
    <3> QED BY <1>2, <1>5, <3>1, <3>2 DEF Agrees, Shows
  <2> QED BY <2>1, <2>2, ThingFacts
<1>7. \A x \in Sets(a) : Shows(x, a)'
  BY <1>2, <1>3 DEF Shows
<1>8. a \in Reports
  BY DEF Reports
<1>9. PICK s : s = <<a>>
  OBVIOUS
<1>10. Reported(s, TRUE)
  BY <1>6, <1>7, <1>8, <1>9, OneReport
<1> QED BY <1>2, <1>4, <1>9, <1>10, EventStep

LEMMA KeysStep ==
  ASSUME InputInv, NEW key \in Keys, PressKey(key) \/ ReleaseKey(key)
  PROVE  InputInv'
<1>1. window \in Window
  BY DEF InputInv, InputTypes
<1>2. window.keys \in SUBSET Keys
  BY <1>1 DEF Window
<1>3. CASE PressKey(key)
  <2>1. PICK keys \in SUBSET Keys : keys = window.keys \union {key}
    BY <1>2
  <2>2. PICK a \in KeyReports : a = KeyPressed(key)
    BY ReportOf
  <2>3. a.press = {key} /\ a.release = {} /\ Sets(a) = {key}
    <3>1. a.press = {key} /\ a.release = {}
      BY <2>2 DEF KeyPressed, NoBytes
    <3> QED BY <3>1, KeyFacts
  <2>4. /\ WindowEvent /\ Emit(<<a>>, TRUE) /\ window' = [window EXCEPT !.keys = keys]
    BY <1>3, <2>1, <2>2 DEF PressKey, KeyPressed
  <2>5. key \in a.press <=> key \in keys
    BY <2>1, <2>3
  <2>6. \A k \in Keys \ {key} : k \in keys <=> k \in window.keys
    BY <2>1
  <2> QED BY <2>3, <2>4, <2>5, <2>6, KeyStep
<1>4. CASE ReleaseKey(key)
  <2>1. PICK keys \in SUBSET Keys : keys = window.keys \ {key}
    BY <1>2
  <2>2. PICK a \in KeyReports : a = KeyReleased(key)
    BY ReportOf
  <2>3. a.press = {} /\ a.release = {key} /\ Sets(a) = {key}
    <3>1. a.press = {} /\ a.release = {key}
      BY <2>2 DEF KeyReleased, NoBytes
    <3> QED BY <3>1, KeyFacts
  <2>4. /\ WindowEvent /\ Emit(<<a>>, TRUE) /\ window' = [window EXCEPT !.keys = keys]
    BY <1>4, <2>1, <2>2 DEF ReleaseKey
  <2>5. key \in a.press <=> key \in keys
    BY <2>1, <2>3
  <2>6. \A k \in Keys \ {key} : k \in keys <=> k \in window.keys
    BY <2>1
  <2> QED BY <2>3, <2>4, <2>5, <2>6, KeyStep
<1> QED BY <1>3, <1>4

LEMMA ConnectedStep ==
  ASSUME InputInv, SetConnected
  PROVE  InputInv'
<1>1. /\ events' = events - 1 /\ events > 0 /\ connected' = ~connected
      /\ UNCHANGED <<window, net, desktop, held, unknown, odd>>
  BY DEF SetConnected
<1>2. InputTypes
  BY DEF InputInv
<1>3. events' \in 0..MaxEvents
  BY <1>1, <1>2, PlayerInputAssumption DEF InputTypes
<1>4. InputTypes'
  BY <1>1, <1>2, <1>3 DEF InputTypes
<1>5. HeldCounts' /\ DraggedOut'
  BY <1>1 DEF InputInv, HeldCounts, DraggedOut
<1>6. ASSUME NEW x \in Things PROVE Tracked(x)'
  BY <1>1 DEF InputInv, Tracked, NoneTells, IsLast, Told, Agrees, Shows
<1> QED BY <1>4, <1>5, <1>6 DEF InputInv

LEMMA InputInvInitially == InputInit => InputInv
<1> SUFFICES ASSUME InputInit PROVE InputInv
  OBVIOUS
<1>1. /\ window = [at |-> Outside, down |-> FALSE, dragged |-> FALSE, keys |-> {}]
      /\ connected = TRUE /\ net = <<>>
      /\ desktop = [at |-> Nowhere, down |-> FALSE, keys |-> {}]
      /\ held = FALSE /\ events = MaxEvents /\ unknown = {"pointer"} /\ odd = FALSE
  BY DEF InputInit
<1>2. MaxEvents \in 0..MaxEvents
  BY PlayerInputAssumption
<1>3. InputTypes
  <2>1. window \in Window
    BY <1>1 DEF Window
  <2>2. desktop \in Desktop
    BY <1>1 DEF Desktop
  <2>3. net \in Seq(Reports)
    BY <1>1, EmptySeq
  <2>4. connected \in BOOLEAN /\ held \in BOOLEAN /\ odd \in BOOLEAN
    BY <1>1
  <2>5. events \in 0..MaxEvents /\ unknown \subseteq Things
    BY <1>1, <1>2 DEF Things
  <2> QED BY <2>1, <2>2, <2>3, <2>4, <2>5 DEF InputTypes
<1>4. HeldCounts /\ DraggedOut
  BY <1>1 DEF HeldCounts, DraggedOut
<1>5. ASSUME NEW x \in Things PROVE Tracked(x)
  <2>1. CASE x = "pointer"
    BY <1>1, <2>1 DEF Tracked
  <2>2. CASE x # "pointer"
    <3>1. Agrees(x)
      BY <1>1, <2>2 DEF Agrees
    <3>2. ~\E i : IsLast(x, i)
      BY <1>1 DEF IsLast
    <3> QED BY <3>1, <3>2 DEF Tracked
  <2> QED BY <2>1, <2>2
<1> QED BY <1>3, <1>4, <1>5 DEF InputInv

LEMMA InputInvStep == InputInv /\ [InputNext]_inputVars => InputInv'
<1> SUFFICES ASSUME InputInv, [InputNext]_inputVars
             PROVE  InputInv'
  OBVIOUS
<1>1. ASSUME NEW at \in Positions \union {Outside}, MovePointer(at)
      PROVE  InputInv'
  BY <1>1, MoveStep
<1>2. CASE PressButton
  BY <1>2, PressStep
<1>3. CASE ReleaseButton
  BY <1>3, ReleaseStep
<1>4. CASE RightClick \/ OtherClick
  BY <1>4, RightStep, OtherStep
<1>5. ASSUME NEW key \in Keys, PressKey(key) \/ ReleaseKey(key)
      PROVE  InputInv'
  BY <1>5, KeysStep
<1>6. CASE SetConnected
  BY <1>6, ConnectedStep
<1>7. CASE HandleInput
  BY <1>7, HandleStep
<1>8. ASSUME NEW i \in 1..MaxInFlight, LoseInput(i)
      PROVE  InputInv'
  BY <1>8, LoseStep
<1>9. CASE UNCHANGED inputVars
  BY <1>9 DEF inputVars, InputInv, InputTypes, HeldCounts, DraggedOut, Tracked, NoneTells,
              IsLast, Told, Agrees, Shows
<1> QED BY <1>1, <1>2, <1>3, <1>4, <1>5, <1>6, <1>7, <1>8, <1>9 DEF InputNext

LEMMA InputInvHolds == InputSpec => []InputInv
BY InputInvInitially, InputInvStep, PTL DEF InputSpec

\* Only datagrams of the kinds the callbacks write are ever on their way, and the desktop
\* has only keys that a byte stands for.
THEOREM InputTypeCorrect == InputSpec => []InputTypeOK
<1>1. InputInv => InputTypeOK
  BY TypesFollow DEF InputInv
<1> QED BY <1>1, InputInvHolds, PTL

\* Whatever has arrived agrees.
LEMMA ArrivedAgrees ==
  ASSUME InputInv, NEW x \in Things, Arrived(x)
  PROVE  Agrees(x)
<1>1. NoneTells(x)
  BY DEF Arrived, NoneTells
<1> QED BY <1>1 DEF Arrived, InputInv, Tracked

\* No key stays down on the server's desktop, nor is one missing, once its last event has
\* arrived, for any keys and however much got lost before.
THEOREM KeysDoAgree == InputSpec => []KeysAgree
<1>1. ASSUME InputInv, NEW k \in Keys, k # "Return", Known(k), Arrived(k)
      PROVE  MetaByte(k) \in desktop.keys <=> k \in window.keys
  <2>1. k \in Things /\ k # "pointer" /\ k # "button"
    BY PlayerInputAssumption DEF Things
  <2>2. Agrees(k)
    BY <1>1, <2>1, ArrivedAgrees
  <2> QED BY <1>1, <2>1, <2>2 DEF Agrees
<1>2. InputInv => KeysAgree
  BY <1>1 DEF KeysAgree
<1> QED BY <1>2, InputInvHolds, PTL

\* The pointer arrives where it is in the window, for all positions in the picture.
THEOREM PointerDoesAgree == InputSpec => []PointerAgrees
<1>1. InputInv => PointerAgrees
  <2> SUFFICES ASSUME InputInv, window.at # Outside, Arrived("pointer")
               PROVE  desktop.at = window.at
    BY DEF PointerAgrees
  <2>1. Agrees("pointer")
    BY ArrivedAgrees DEF Things
  <2> QED BY <2>1 DEF Agrees
<1> QED BY <1>1, InputInvHolds, PTL

\* The left button is never left down, and a drag holds it, once its last event has arrived,
\* whichever other buttons were clicked before and meanwhile.
THEOREM ButtonDoesAgree == InputSpec => []ButtonAgrees
<1>1. InputInv => ButtonAgrees
  <2> SUFFICES ASSUME InputInv, Arrived("button")
               PROVE  /\ desktop.down => window.down
                      /\ window.down /\ window.dragged /\ ~odd => desktop.down
    BY DEF ButtonAgrees
  <2>1. Agrees("button")
    BY ArrivedAgrees DEF Things
  <2> QED BY <2>1 DEF Agrees
<1> QED BY <1>1, InputInvHolds, PTL
===============================================================================
