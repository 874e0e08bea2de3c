--------------------------- MODULE ServerTasksProofs ---------------------------
(***************************************************************************)
(* Proofs about ServerTasks, for every size of the input queue and every      *)
(* sequence of logins and logouts: no restart of the input is lost while the  *)
(* input thread counts on it, and no restart of the stream without a capturer. *)
(***************************************************************************)
EXTENDS ServerTasks, TLAPS

-------------------------------------------------------------------------------
(* What the channels keep.                                                     *)

\* What is sent into a channel is in it, with what was there before.
LEMMA SentIsThere ==
  ASSUME NEW S, NEW q \in Seq(S), NEW item \in S, NEW e
  PROVE  Contains(Append(q, item), e) <=> Contains(q, e) \/ item = e
<1>1. Contains(q, e) => Contains(Append(q, item), e)
  BY DEF Contains
<1>2. item = e => Contains(Append(q, item), e)
  <2>. SUFFICES ASSUME item = e PROVE Contains(Append(q, item), e)
    OBVIOUS
  <2>1. Len(q) + 1 \in 1..Len(Append(q, item)) /\ Append(q, item)[Len(q) + 1] = e
    OBVIOUS
  <2>. QED BY <2>1 DEF Contains
<1>3. Contains(Append(q, item), e) => Contains(q, e) \/ item = e
  BY DEF Contains
<1>. QED BY <1>1, <1>2, <1>3

\* What is received from a channel is its head; the rest stays.
LEMMA RestStays ==
  ASSUME NEW S, NEW q \in Seq(S), q # <<>>, NEW e, Head(q) # e, Contains(q, e)
  PROVE  Contains(Tail(q), e)
<1>1. PICK i \in 1..Len(q) : q[i] = e
  BY DEF Contains
<1>2. i # 1
  BY <1>1
<1>3. i - 1 \in 1..Len(Tail(q)) /\ Tail(q)[i - 1] = e
  BY <1>1, <1>2
<1>. QED BY <1>3 DEF Contains

-------------------------------------------------------------------------------
(* The inductive invariant.                                                    *)

\* A display that ended is followed by another within the bound, and only a thread
\* that runs waits for a restart.
TasksInv ==
  /\ TypeOK
  /\ ~display.up => display.number < MaxDisplays
  /\ thread.restarting => thread.state = "Running"
  /\ RestartOnItsWay
  /\ CapturerComesBack

-------------------------------------------------------------------------------
(* Every step keeps the invariant.                                             *)

\* A display's number is no NoDisplay, and fits where one is kept.
LEMMA DisplayNumber ==
  ASSUME TypeOK
  PROVE  /\ display.number \in Nat \ {0} /\ display.number <= MaxDisplays
         /\ display.number \in 0..MaxDisplays /\ NoDisplay \in 0..MaxDisplays
<1>1. display.number \in 1..MaxDisplays
  BY DEF TypeOK
<1>. QED BY <1>1, TasksAssumption DEF NoDisplay

\* What is put into the input queue, or waits for room, is not lost.
LEMMA PutKeepsTypes ==
  ASSUME TypeOK, sending = Nothing, NEW item \in {"Input", "Restart"}, PutInput(item)
  PROVE  /\ inputQueue' \in Seq({"Input", "Restart"}) /\ Len(inputQueue') <= MaxInputQueue
         /\ sending' \in {Nothing, "Input", "Restart"}
         /\ item = "Restart" => sending' = "Restart" \/ Contains(inputQueue', "Restart")
         /\ Contains(inputQueue, "Restart") => Contains(inputQueue', "Restart")
<1>1. CASE Len(inputQueue) < MaxInputQueue
  <2>1. inputQueue' = Append(inputQueue, item) /\ sending' = sending
    BY <1>1 DEF PutInput
  <2>2. inputQueue \in Seq({"Input", "Restart"})
    BY DEF TypeOK
  <2>3. Contains(Append(inputQueue, item), "Restart")
          <=> Contains(inputQueue, "Restart") \/ item = "Restart"
    BY <2>2, SentIsThere
  <2>4. inputQueue' \in Seq({"Input", "Restart"}) /\ Len(inputQueue') = Len(inputQueue) + 1
    BY <2>1, <2>2
  <2>5. Len(inputQueue') <= MaxInputQueue
    BY <1>1, <2>2, <2>4, TasksAssumption
  <2>. QED BY <2>1, <2>3, <2>4, <2>5 DEF TypeOK
<1>2. CASE ~(Len(inputQueue) < MaxInputQueue)
  BY <1>2 DEF PutInput, TypeOK
<1>. QED BY <1>1, <1>2

\* Taking an action from the channel leaves the others there.
LEMMA HandlesKeeps ==
  ASSUME TypeOK, NEW action, Handles(action)
  PROVE  /\ actions' \in Seq({"RestartSession", "NewUserSession", "RestartStream"})
         /\ \A e : e # action /\ Contains(actions, e) => Contains(actions', e)
  BY RestStays DEF Handles, TypeOK

\* Sending an action leaves the others in the channel.
LEMMA SendKeeps ==
  ASSUME TypeOK, NEW action \in {"RestartSession", "NewUserSession", "RestartStream"},
         actions' = Append(actions, action)
  PROVE  /\ actions' \in Seq({"RestartSession", "NewUserSession", "RestartStream"})
         /\ Contains(actions', action)
         /\ \A e : Contains(actions, e) => Contains(actions', e)
<1> DEFINE S == {"RestartSession", "NewUserSession", "RestartStream"}
<1>1. actions \in Seq(S)
  BY DEF TypeOK
<1>2. \A e : Contains(Append(actions, action), e) <=> Contains(actions, e) \/ action = e
  BY <1>1, SentIsThere
<1>. QED BY <1>1, <1>2

\* At first the display is up, the capturer on it, and no channel holds anything.
LEMMA InitInv == Init => TasksInv
<1>. SUFFICES ASSUME Init PROVE TasksInv
  OBVIOUS
<1>1. SettingOf(user) \in Settings /\ SettingOf(listed) \in Settings /\ listed \in BOOLEAN
  BY DEF Init, SettingOf, Settings
<1>2. 1 \in 1..MaxDisplays /\ 1 \in 0..MaxDisplays /\ NoDisplay \in 0..MaxDisplays
  BY TasksAssumption DEF NoDisplay
<1>3. <<>> \in Seq({"Input", "Restart"}) /\ Len(<<>>) <= MaxInputQueue
  BY TasksAssumption
<1>4. /\ <<>> \in Seq({"RestartSession", "NewUserSession", "RestartStream"})
      /\ <<>> \in Seq({"RestartInputTread"})
  OBVIOUS
<1>5. /\ display \in [number : 1..MaxDisplays, up : BOOLEAN, accepts : SUBSET Settings]
      /\ display.up /\ video.capturer = 1 /\ thread.restarting = FALSE
  BY <1>1, <1>2 DEF Init
<1>6. TypeOK
  BY <1>1, <1>2, <1>3, <1>4, <1>5 DEF Init, TypeOK, Nothing
<1>. QED BY <1>5, <1>6 DEF Init, TasksInv, RestartOnItsWay, CapturerComesBack, NoDisplay

\* The machine does not touch the channels.
LEMMA MachineKeepsInv ==
  ASSUME TasksInv, LogIn \/ LogOut \/ StartDisplay \/ UpdateWho
  PROVE  TasksInv'
<1>1. UNCHANGED <<xenv, watched, video, actions, events, sending, inputQueue, thread>>
  BY DEF LogIn, LogOut, StartDisplay, UpdateWho, inputVars
<1>2. TypeOK /\ (~display.up => display.number < MaxDisplays)
  BY DEF TasksInv
<1>3. user' \in BOOLEAN /\ listed' \in BOOLEAN /\ overlooked' \in BOOLEAN
  BY <1>2 DEF TypeOK, LogIn, LogOut, StartDisplay, UpdateWho, UserChanges
<1>4. /\ display' \in [number : 1..MaxDisplays, up : BOOLEAN, accepts : SUBSET Settings]
      /\ ~display'.up => display'.number < MaxDisplays
  <2>1. CASE LogIn
    <3>1. \/ display' = [display EXCEPT !.accepts = Settings] /\ display.up
          \/ display' = [display EXCEPT !.up = FALSE] /\ display.number < MaxDisplays
      BY <2>1 DEF LogIn, UserChanges
    <3>. QED BY <1>2, <3>1 DEF TypeOK
  <2>2. CASE LogOut
    BY <1>2, <2>2 DEF LogOut, TypeOK
  <2>3. CASE StartDisplay
    <3>1. display.number + 1 \in 1..MaxDisplays
      BY <1>2, <2>3, DisplayNumber, TasksAssumption DEF StartDisplay
    <3>2. {SettingOf(user)} \in SUBSET Settings
      BY DEF SettingOf, Settings
    <3>. QED BY <2>3, <3>1, <3>2 DEF StartDisplay
  <2>4. CASE UpdateWho
    BY <1>2, <2>4 DEF UpdateWho, TypeOK
  <2>. QED BY <2>1, <2>2, <2>3, <2>4
<1>5. TypeOK'
  BY <1>1, <1>2, <1>3, <1>4 DEF TypeOK
<1>. QED BY <1>1, <1>2, <1>4, <1>5 DEF TasksInv, RestartOnItsWay, CapturerComesBack, Contains

\* Polling sends an action and takes none.
LEMMA PollKeepsInv ==
  ASSUME TasksInv, CheckLoggedIn \/ CheckLoggedOut
  PROVE  TasksInv'
<1>1. PICK action \in {"NewUserSession", "RestartSession"} : actions' = Append(actions, action)
  BY DEF CheckLoggedIn, CheckLoggedOut
<1>2. UNCHANGED <<machineVars, xenv, video, inputVars>> /\ watched' \in Settings
  BY DEF CheckLoggedIn, CheckLoggedOut, Settings
<1>3. /\ actions' \in Seq({"RestartSession", "NewUserSession", "RestartStream"})
      /\ \A e : Contains(actions, e) => Contains(actions', e)
  BY <1>1, SendKeeps DEF TasksInv
<1>4. TypeOK'
  BY <1>2, <1>3 DEF TasksInv, TypeOK, machineVars, inputVars
<1>5. RestartOnItsWay' /\ CapturerComesBack'
  <2>1. UNCHANGED <<video, events, sending, inputQueue, thread>>
    BY <1>2 DEF inputVars
  <2>2. Contains(inputQueue, "Restart") => Contains(inputQueue', "Restart")
    BY <2>1
  <2>. QED BY <1>3, <2>1, <2>2 DEF TasksInv, RestartOnItsWay, CapturerComesBack
<1>. QED BY <1>2, <1>4, <1>5 DEF TasksInv, machineVars, inputVars

\* A RestartSession becomes a pair of restarts, a RestartStream in vain another one.
LEMMA VideoKeepsInv ==
  ASSUME TasksInv, VideoStep
  PROVE  TasksInv'
<1>1. UNCHANGED <<machineVars, watched, sending, inputQueue, thread>>
  BY DEF VideoStep, HandleRestartSession, SendRestarts, HandleNewUserSession,
     HandleRestartStream, SendRestartStream, inputVars
<1>2. TypeOK /\ RestartOnItsWay /\ CapturerComesBack
  BY DEF TasksInv
<1>3. Contains(inputQueue, "Restart") => Contains(inputQueue', "Restart")
  BY <1>1
<1>4. SettingOf(listed) \in Settings
  BY DEF SettingOf, Settings
<1>5. CASE HandleRestartSession
  <2>1. /\ actions' \in Seq({"RestartSession", "NewUserSession", "RestartStream"})
        /\ Contains(actions, "RestartStream") => Contains(actions', "RestartStream")
        /\ video.at = "Loop"
    BY <1>2, <1>5, HandlesKeeps DEF HandleRestartSession, Handles
  <2>2. xenv' \in Settings /\ video' = [video EXCEPT !.at = "SendRestarts"] /\ events' = events
    BY <1>4, <1>5 DEF HandleRestartSession, ConfigXenv, inputVars
  <2>3. TypeOK'
    BY <1>1, <1>2, <2>1, <2>2 DEF TypeOK, machineVars
  <2>. QED BY <1>1, <1>2, <1>3, <2>1, <2>2, <2>3
           DEF TasksInv, RestartOnItsWay, CapturerComesBack, machineVars, TypeOK
<1>6. CASE SendRestarts
  <2>1. /\ actions' \in Seq({"RestartSession", "NewUserSession", "RestartStream"})
        /\ Contains(actions', "RestartStream")
    BY <1>2, <1>6, SendKeeps DEF SendRestarts
  <2>2. /\ video' = [video EXCEPT !.at = "Loop"] /\ xenv' = xenv
        /\ events' = Append(events, "RestartInputTread")
    BY <1>6 DEF SendRestarts
  <2>3. events' \in Seq({"RestartInputTread"}) /\ events' # <<>>
    BY <1>2, <2>2 DEF TypeOK
  <2>4. TypeOK'
    BY <1>1, <1>2, <2>1, <2>2, <2>3 DEF TypeOK, machineVars
  <2>. QED BY <1>1, <2>1, <2>2, <2>3, <2>4
           DEF TasksInv, RestartOnItsWay, CapturerComesBack, machineVars, TypeOK
<1>7. CASE HandleNewUserSession
  <2>1. /\ actions' \in Seq({"RestartSession", "NewUserSession", "RestartStream"})
        /\ Contains(actions, "RestartStream") => Contains(actions', "RestartStream")
        /\ Contains(actions, "RestartSession") => Contains(actions', "RestartSession")
        /\ video.at = "Loop"
    BY <1>2, <1>7, HandlesKeeps DEF HandleNewUserSession, Handles
  <2>2. /\ xenv' \in Settings /\ events' = events
        /\ video' = [video EXCEPT !.at = IF listed THEN "SendRestartStream" ELSE "Loop"]
    BY <1>4, <1>7 DEF HandleNewUserSession, ConfigXenv, inputVars
  <2>3. TypeOK'
    BY <1>1, <1>2, <2>1, <2>2 DEF TypeOK, machineVars
  <2>. QED BY <1>1, <1>2, <1>3, <2>1, <2>2, <2>3
           DEF TasksInv, RestartOnItsWay, CapturerComesBack, machineVars, TypeOK
<1>8. CASE HandleRestartStream
  <2>1. /\ actions' \in Seq({"RestartSession", "NewUserSession", "RestartStream"})
        /\ Contains(actions, "RestartSession") => Contains(actions', "RestartSession")
        /\ video.at = "Loop"
    BY <1>2, <1>8, HandlesKeeps DEF HandleRestartStream, Handles
  <2>2. /\ xenv' = xenv /\ events' = events
        /\ \/ video' = [video EXCEPT !.capturer = display.number]
           \/ video' = [at |-> "SendRestartStream", capturer |-> NoDisplay]
    BY <1>8 DEF HandleRestartStream, inputVars
  <2>3. video' \in [at : {"Loop", "SendRestarts", "SendRestartStream"},
                    capturer : 0..MaxDisplays]
    BY <1>2, <2>2, DisplayNumber DEF TypeOK
  <2>4. TypeOK'
    BY <1>1, <1>2, <2>1, <2>2, <2>3 DEF TypeOK, machineVars
  <2>5. CapturerComesBack'
    BY <1>2, <2>2, DisplayNumber DEF TypeOK, CapturerComesBack, NoDisplay
  <2>. QED BY <1>1, <1>2, <1>3, <2>1, <2>2, <2>4, <2>5
           DEF TasksInv, RestartOnItsWay, machineVars, TypeOK
<1>9. CASE SendRestartStream
  <2>1. /\ actions' \in Seq({"RestartSession", "NewUserSession", "RestartStream"})
        /\ Contains(actions', "RestartStream")
        /\ Contains(actions, "RestartSession") => Contains(actions', "RestartSession")
    BY <1>2, <1>9, SendKeeps DEF SendRestartStream
  <2>2. /\ video' = [video EXCEPT !.at = "Loop"] /\ xenv' = xenv /\ events' = events
        /\ video.at = "SendRestartStream"
    BY <1>9 DEF SendRestartStream, inputVars
  <2>3. TypeOK'
    BY <1>1, <1>2, <2>1, <2>2 DEF TypeOK, machineVars
  <2>. QED BY <1>1, <1>2, <1>3, <2>1, <2>2, <2>3
           DEF TasksInv, RestartOnItsWay, CapturerComesBack, machineVars, TypeOK
<1>. QED BY <1>5, <1>6, <1>7, <1>8, <1>9 DEF VideoStep

\* RestartInputTread becomes a Restart in the input queue, or on its way into it.
LEMMA EventsKeepInv ==
  ASSUME TasksInv, HandleInputState \/ FinishSending \/ HandleRestartInput
  PROVE  TasksInv'
<1>1. UNCHANGED <<machineVars, xenv, watched, video, actions>>
  BY DEF HandleInputState, FinishSending, HandleRestartInput
<1>2. TypeOK /\ RestartOnItsWay /\ CapturerComesBack
  BY DEF TasksInv
<1>3. \A e : Contains(actions, e) => Contains(actions', e)
  BY <1>1
<1>4. CapturerComesBack'
  BY <1>1, <1>2, <1>3 DEF CapturerComesBack
<1>5. CASE HandleInputState
  <2>1. /\ inputQueue' \in Seq({"Input", "Restart"}) /\ Len(inputQueue') <= MaxInputQueue
        /\ sending' \in {Nothing, "Input", "Restart"} /\ sending = Nothing
        /\ Contains(inputQueue, "Restart") => Contains(inputQueue', "Restart")
        /\ UNCHANGED <<events, thread>>
    BY <1>2, <1>5, PutKeepsTypes DEF HandleInputState
  <2>2. TypeOK'
    BY <1>1, <1>2, <2>1 DEF TypeOK, machineVars
  <2>3. RestartOnItsWay'
    BY <1>1, <1>2, <1>3, <2>1 DEF RestartOnItsWay, Nothing
  <2>. QED BY <1>1, <1>4, <2>1, <2>2, <2>3 DEF TasksInv, machineVars
<1>6. CASE FinishSending
  <2>1. /\ inputQueue' = Append(inputQueue, sending) /\ Len(inputQueue) < MaxInputQueue
        /\ sending' = Nothing /\ sending \in {"Input", "Restart"}
        /\ UNCHANGED <<events, thread>>
    BY <1>2, <1>6 DEF FinishSending, TypeOK
  <2>2. inputQueue \in Seq({"Input", "Restart"}) /\ Len(inputQueue) \in Nat
    BY <1>2 DEF TypeOK
  <2>3. Contains(Append(inputQueue, sending), "Restart")
          <=> Contains(inputQueue, "Restart") \/ sending = "Restart"
    BY <2>1, <2>2, SentIsThere
  <2>4. inputQueue' \in Seq({"Input", "Restart"}) /\ Len(inputQueue') = Len(inputQueue) + 1
    BY <2>1, <2>2
  <2>5. Len(inputQueue') <= MaxInputQueue
    BY <2>1, <2>2, <2>4, TasksAssumption
  <2>6. TypeOK'
    BY <1>1, <1>2, <2>1, <2>4, <2>5 DEF TypeOK, machineVars
  <2>7. RestartOnItsWay'
    BY <1>1, <1>2, <1>3, <2>1, <2>3 DEF RestartOnItsWay
  <2>. QED BY <1>1, <1>4, <2>1, <2>6, <2>7 DEF TasksInv, machineVars
<1>7. CASE HandleRestartInput /\ thread.state = "Finished"
  <2>1. /\ thread' = [state |-> "Starting", display |-> NoDisplay, restarting |-> FALSE]
        /\ events # <<>> /\ events' = Tail(events)
        /\ UNCHANGED <<sending, inputQueue>>
    BY <1>7 DEF HandleRestartInput
  <2>2. thread' \in [state : {"Starting", "Running", "Finished"},
                     display : 0..MaxDisplays, restarting : BOOLEAN]
    BY <1>2, <2>1, DisplayNumber
  <2>3. events' \in Seq({"RestartInputTread"})
    BY <1>2, <2>1 DEF TypeOK
  <2>4. TypeOK'
    BY <1>1, <1>2, <2>1, <2>2, <2>3 DEF TypeOK, machineVars
  <2>. QED BY <1>1, <1>4, <2>1, <2>4 DEF TasksInv, RestartOnItsWay, machineVars
<1>8. CASE HandleRestartInput /\ thread.state # "Finished"
  <2>1. /\ PutInput("Restart") /\ thread' = thread /\ sending = Nothing
        /\ events # <<>> /\ events' = Tail(events)
    BY <1>8 DEF HandleRestartInput
  <2>2. /\ inputQueue' \in Seq({"Input", "Restart"}) /\ Len(inputQueue') <= MaxInputQueue
        /\ sending' \in {Nothing, "Input", "Restart"}
        /\ sending' = "Restart" \/ Contains(inputQueue', "Restart")
    BY <1>2, <2>1, PutKeepsTypes
  <2>3. TypeOK'
    BY <1>1, <1>2, <2>1, <2>2 DEF TypeOK, machineVars
  <2>. QED BY <1>1, <1>4, <2>1, <2>2, <2>3 DEF TasksInv, RestartOnItsWay, machineVars
<1>. QED BY <1>5, <1>6, <1>7, <1>8

\* The flag is set with a RestartSession and reset with a Restart.
LEMMA ThreadKeepsInv ==
  ASSUME TasksInv, StartInputThread \/ ReconnectInput \/ Input
  PROVE  TasksInv'
<1>1. UNCHANGED <<machineVars, xenv, watched, video, events, sending>>
  BY DEF StartInputThread, ReconnectInput, Input
<1>2. /\ TypeOK /\ RestartOnItsWay /\ CapturerComesBack
      /\ thread.restarting => thread.state = "Running"
  BY DEF TasksInv
<1>3. CASE StartInputThread
  <2>1. /\ thread.state = "Starting" /\ UNCHANGED <<actions, inputQueue>>
        /\ \/ thread' = [thread EXCEPT !.state = "Running", !.display = display.number]
           \/ thread' = [thread EXCEPT !.state = "Finished"]
    BY <1>3 DEF StartInputThread
  <2>2. thread'.restarting = FALSE
    BY <1>2, <2>1 DEF TypeOK
  <2>3. thread' \in [state : {"Starting", "Running", "Finished"},
                     display : 0..MaxDisplays, restarting : BOOLEAN]
    BY <1>2, <2>1, DisplayNumber DEF TypeOK
  <2>4. TypeOK'
    BY <1>1, <1>2, <2>1, <2>3 DEF TypeOK, machineVars
  <2>5. CapturerComesBack'
    BY <1>1, <1>2, <2>1 DEF CapturerComesBack, Contains
  <2>. QED BY <1>1, <2>2, <2>4, <2>5 DEF TasksInv, RestartOnItsWay, machineVars
<1>4. CASE ReconnectInput
  <2>1. /\ inputQueue # <<>> /\ inputQueue' = Tail(inputQueue) /\ actions' = actions
        /\ thread' = [thread EXCEPT !.display = IF DisplayOpens THEN display.number ELSE @,
                                    !.restarting = FALSE]
    BY <1>4 DEF ReconnectInput, Receives
  <2>2. inputQueue' \in Seq({"Input", "Restart"}) /\ Len(inputQueue') <= MaxInputQueue
    BY <1>2, <2>1, TasksAssumption DEF TypeOK
  <2>3. thread' \in [state : {"Starting", "Running", "Finished"},
                     display : 0..MaxDisplays, restarting : BOOLEAN]
    <3>1. \/ thread' = [thread EXCEPT !.display = display.number, !.restarting = FALSE]
          \/ thread' = [thread EXCEPT !.restarting = FALSE]
      <4>1. CASE DisplayOpens
        BY <2>1, <4>1
      <4>2. CASE ~DisplayOpens
        BY <1>2, <2>1, <4>2 DEF TypeOK
      <4>. QED BY <4>1, <4>2
    <3>. QED BY <1>2, <3>1, DisplayNumber DEF TypeOK
  <2>4. TypeOK'
    BY <1>1, <1>2, <2>1, <2>2, <2>3 DEF TypeOK, machineVars
  <2>5. thread'.restarting = FALSE
    BY <1>2, <2>1 DEF TypeOK
  <2>6. CapturerComesBack'
    BY <1>1, <1>2, <2>1 DEF CapturerComesBack, Contains
  <2>. QED BY <1>1, <2>4, <2>5, <2>6 DEF TasksInv, RestartOnItsWay, machineVars
<1>5. CASE Input
  <2>1. /\ inputQueue # <<>> /\ inputQueue' = Tail(inputQueue)
        /\ Head(inputQueue) = "Input" /\ thread.state = "Running"
    BY <1>5 DEF Input, Receives
  <2>2. /\ inputQueue' \in Seq({"Input", "Restart"}) /\ Len(inputQueue') <= MaxInputQueue
        /\ Contains(inputQueue, "Restart") => Contains(inputQueue', "Restart")
    BY <1>2, <2>1, RestStays, TasksAssumption DEF TypeOK
  <2>3. CASE UNCHANGED <<actions, thread>>
    <3>1. TypeOK'
      BY <1>1, <1>2, <2>2, <2>3 DEF TypeOK, machineVars
    <3>2. \A e : Contains(actions, e) => Contains(actions', e)
      BY <2>3
    <3>. QED BY <1>1, <1>2, <2>2, <2>3, <3>1, <3>2
             DEF TasksInv, RestartOnItsWay, CapturerComesBack, machineVars
  <2>4. CASE /\ actions' = Append(actions, "RestartSession")
             /\ thread' = [thread EXCEPT !.restarting = TRUE]
    <3>1. /\ actions' \in Seq({"RestartSession", "NewUserSession", "RestartStream"})
          /\ Contains(actions', "RestartSession")
          /\ Contains(actions, "RestartStream") => Contains(actions', "RestartStream")
      BY <1>2, <2>4, SendKeeps
    <3>2. TypeOK' /\ thread'.state = "Running"
      BY <1>1, <1>2, <2>1, <2>2, <2>4, <3>1 DEF TypeOK, machineVars
    <3>. QED BY <1>1, <1>2, <3>1, <3>2
             DEF TasksInv, RestartOnItsWay, CapturerComesBack, machineVars
  <2>. QED BY <1>5, <2>3, <2>4 DEF Input
<1>. QED BY <1>3, <1>4, <1>5

\* The invariant holds for all of Spec, whatever is fair.
LEMMA InvHolds == Spec => []TasksInv
<1>1. TasksInv /\ [Next]_vars => TasksInv'
  <2>. SUFFICES ASSUME TasksInv, [Next]_vars PROVE TasksInv'
    OBVIOUS
  <2>1. CASE UNCHANGED vars
    <3>1. UNCHANGED <<user, listed, display, overlooked, xenv, watched, video, actions,
                      events, sending, inputQueue, thread>>
      BY <2>1 DEF vars, machineVars, inputVars
    <3>. QED BY <3>1 DEF TasksInv, TypeOK, RestartOnItsWay, CapturerComesBack, Contains
  <2>. QED BY <2>1, MachineKeepsInv, PollKeepsInv, VideoKeepsInv, EventsKeepInv,
              ThreadKeepsInv DEF Next
<1>. QED BY <1>1, InitInv, PTL DEF Spec

-------------------------------------------------------------------------------
(* Theorems.                                                                   *)

\* The tasks' state and channels keep their types: the input queue never holds more
\* than MAX_INPUT_QUEUE.
THEOREM TasksTypeCorrect == Spec => []TypeOK
<1>1. TasksInv => TypeOK
  BY DEF TasksInv
<1>. QED BY <1>1, InvHolds, PTL

\* session_restart_in_progress never outlives the restart it stands for: while it is
\* set, what will reset it is in a channel or in a task's hands.
THEOREM FlagIsReset == Spec => []RestartOnItsWay
<1>1. TasksInv => RestartOnItsWay
  BY DEF TasksInv
<1>. QED BY <1>1, InvHolds, PTL

\* The video loop never spins without a capturer and without a RestartStream to come.
THEOREM StreamComesBack == Spec => []CapturerComesBack
<1>1. TasksInv => CapturerComesBack
  BY DEF TasksInv
<1>. QED BY <1>1, InvHolds, PTL
===============================================================================
