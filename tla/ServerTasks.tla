----------------------------- MODULE ServerTasks -----------------------------
(***************************************************************************)
(* How the tasks of the server follow the logins and logouts of its machine: *)
(* SessionSettingTask (mrial_server/src/video/session.rs) polls them, the     *)
(* actions of VideoServerTask (video/mod.rs) restart the stream, EventsTask   *)
(* and InputThread (events/mod.rs) reconnect the input, and failing input     *)
(* asks for a restart. ConfigUpdate and Inactive are in StreamConfig.         *)
(***************************************************************************)
EXTENDS Naturals, Sequences, SequencesExt

CONSTANTS
  MaxInputQueue,  \* MAX_INPUT_QUEUE (100)
  Devices,        \* VirtualDevice::new can open uinput
  MaxDisplays,    \* bound: X servers, one after the other
  MaxActions      \* bound: actions queued when the input thread asks for more

ASSUME TasksAssumption ==
  /\ MaxInputQueue \in Nat \ {0} /\ Devices \in BOOLEAN
  /\ MaxDisplays \in Nat \ {0} /\ MaxActions \in Nat \ {0}

VARIABLES
  user,        \* somebody is logged in on tty7
  listed,      \* `who | grep tty7' lists the user
  display,     \* the X server: its number, whether it runs, whose cookies open it
  xenv,        \* whose cookie the XAUTHORITY of the process names
  watched,     \* setting of SessionSettingTask
  video,       \* where VideoServerTask is, and the display its capturer is on
  actions,     \* the channel of VideoServerAction
  events,      \* the channel of EventsTaskAction
  sending,     \* what EventsTask waits to put into the full input queue
  inputQueue,  \* the bounded channel of InputThreadAction
  thread,      \* InputThread: the display it moves the mouse on, its flag
  overlooked   \* history: a login or logout ended before a poll saw it

machineVars == <<user, listed, display, overlooked>>
inputVars == <<events, sending, inputQueue, thread>>
vars == <<machineVars, xenv, watched, video, actions, inputVars>>

Settings == {"PreLogin", "PostLogin"}
SettingOf(b) == IF b THEN "PostLogin" ELSE "PreLogin"
NoDisplay == 0
Nothing == "Nothing"

\* VideoServerTask::new has a capturer; the input thread is being spawned.
Init ==
  /\ user \in BOOLEAN
  /\ listed = user
  /\ display = [number |-> 1, up |-> TRUE, accepts |-> {SettingOf(user)}]
  /\ xenv = SettingOf(listed)
  /\ watched = xenv
  /\ video = [at |-> "Loop", capturer |-> 1]
  /\ actions = <<>> /\ events = <<>> /\ inputQueue = <<>>
  /\ sending = Nothing
  /\ thread = [state |-> "Starting", display |-> NoDisplay, restarting |-> FALSE]
  /\ overlooked = FALSE

\* Display::primary, Capturer::new and Enigo::new connect to DISPLAY.
DisplayOpens == display.up /\ xenv \in display.accepts

-------------------------------------------------------------------------------
(* The machine: its login manager, X server and `who'.                         *)

\* The greeter's X server goes on with the user's cookie, or is started anew.
UserChanges(logsIn) ==
  /\ user # logsIn /\ display.up
  /\ user' = logsIn
  /\ overlooked' = (overlooked \/ watched # SettingOf(user))

LogIn ==
  /\ UserChanges(TRUE)
  /\ \/ display' = [display EXCEPT !.accepts = Settings]
     \/ display.number < MaxDisplays /\ display' = [display EXCEPT !.up = FALSE]
  /\ UNCHANGED <<listed, xenv, watched, video, actions, inputVars>>

LogOut ==
  /\ UserChanges(FALSE)
  /\ display.number < MaxDisplays
  /\ display' = [display EXCEPT !.up = FALSE]
  /\ UNCHANGED <<listed, xenv, watched, video, actions, inputVars>>

StartDisplay ==
  /\ ~display.up
  /\ display' = [number |-> display.number + 1, up |-> TRUE,
                 accepts |-> {SettingOf(user)}]
  /\ UNCHANGED <<user, listed, overlooked, xenv, watched, video, actions, inputVars>>

UpdateWho ==
  /\ listed # user
  /\ listed' = user
  /\ UNCHANGED <<user, display, overlooked, xenv, watched, video, actions, inputVars>>

-------------------------------------------------------------------------------
(* SessionSettingTask, once a second.                                          *)

CheckLoggedIn ==
  /\ watched = "PreLogin" /\ listed
  /\ watched' = "PostLogin"
  /\ actions' = Append(actions, "NewUserSession")
  /\ UNCHANGED <<machineVars, xenv, video, inputVars>>

CheckLoggedOut ==
  /\ watched = "PostLogin" /\ ~listed
  /\ watched' = "PreLogin"
  /\ actions' = Append(actions, "RestartSession")
  /\ UNCHANGED <<machineVars, xenv, video, inputVars>>

-------------------------------------------------------------------------------
(* VideoServerTask::handle_server_action.                                      *)

Handles(action) ==
  /\ video.at = "Loop" /\ actions # <<>> /\ Head(actions) = action
  /\ actions' = Tail(actions)

ConfigXenv == xenv' = SettingOf(listed)

HandleRestartSession ==
  /\ Handles("RestartSession")
  /\ ConfigXenv
  /\ video' = [video EXCEPT !.at = "SendRestarts"]
  /\ UNCHANGED <<machineVars, watched, inputVars>>

\* Mutant of SendRestarts: the stream is not restarted.
SendInputRestart ==
  /\ video.at = "SendRestarts"
  /\ events' = Append(events, "RestartInputTread")
  /\ video' = [video EXCEPT !.at = "Loop"]
  /\ UNCHANGED <<machineVars, xenv, watched, actions, sending, inputQueue, thread>>

SendRestarts ==
  /\ video.at = "SendRestarts"
  /\ actions' = Append(actions, "RestartStream")
  /\ events' = Append(events, "RestartInputTread")
  /\ video' = [video EXCEPT !.at = "Loop"]
  /\ UNCHANGED <<machineVars, xenv, watched, sending, inputQueue, thread>>

HandleNewUserSession ==
  /\ Handles("NewUserSession")
  /\ ConfigXenv
  /\ video' = [video EXCEPT !.at = IF listed THEN "SendRestartStream" ELSE "Loop"]
  /\ UNCHANGED <<machineVars, watched, inputVars>>

\* Mutant of HandleRestartStream: a failure is only logged.
HandleRestartStreamOnce ==
  /\ Handles("RestartStream")
  /\ video' = [video EXCEPT !.capturer = IF DisplayOpens THEN display.number ELSE NoDisplay]
  /\ UNCHANGED <<machineVars, xenv, watched, inputVars>>

\* The capturer is dropped first; after a failure the action is sent once more.
HandleRestartStream ==
  /\ Handles("RestartStream")
  /\ video' = IF DisplayOpens THEN [video EXCEPT !.capturer = display.number]
              ELSE [at |-> "SendRestartStream", capturer |-> NoDisplay]
  /\ UNCHANGED <<machineVars, xenv, watched, inputVars>>

SendRestartStream ==
  /\ video.at = "SendRestartStream"
  /\ actions' = Append(actions, "RestartStream")
  /\ video' = [video EXCEPT !.at = "Loop"]
  /\ UNCHANGED <<machineVars, xenv, watched, inputVars>>

VideoStep ==
  \/ HandleRestartSession \/ SendRestarts \/ HandleNewUserSession
  \/ HandleRestartStream \/ SendRestartStream

-------------------------------------------------------------------------------
(* EventsTask: it waits while the input queue is full, whose receiver it keeps  *)
(* itself.                                                                     *)

\* Mutant of PutInput: what finds the queue full is dropped.
TryPutInput(item) ==
  /\ inputQueue' = IF Len(inputQueue) < MaxInputQueue THEN Append(inputQueue, item)
                   ELSE inputQueue
  /\ UNCHANGED sending

PutInput(item) ==
  IF Len(inputQueue) < MaxInputQueue
  THEN inputQueue' = Append(inputQueue, item) /\ UNCHANGED sending
  ELSE sending' = item /\ UNCHANGED inputQueue

\* An InputState of a player.
HandleInputState ==
  /\ sending = Nothing
  /\ PutInput("Input")
  /\ UNCHANGED <<machineVars, xenv, watched, video, actions, events, thread>>

FinishSending ==
  /\ sending # Nothing /\ Len(inputQueue) < MaxInputQueue
  /\ inputQueue' = Append(inputQueue, sending)
  /\ sending' = Nothing
  /\ UNCHANGED <<machineVars, xenv, watched, video, actions, events, thread>>

HandleRestartInput ==
  /\ sending = Nothing /\ events # <<>>
  /\ events' = Tail(events)
  /\ IF thread.state = "Finished"
     THEN /\ thread' = [state |-> "Starting", display |-> NoDisplay, restarting |-> FALSE]
          /\ UNCHANGED <<sending, inputQueue>>
     ELSE PutInput("Restart") /\ UNCHANGED thread
  /\ UNCHANGED <<machineVars, xenv, watched, video, actions>>

-------------------------------------------------------------------------------
(* InputThread.                                                                *)

\* InputThread::new: the thread ends if it fails.
StartInputThread ==
  /\ thread.state = "Starting"
  /\ thread' = IF Devices /\ DisplayOpens
               THEN [thread EXCEPT !.state = "Running", !.display = display.number]
               ELSE [thread EXCEPT !.state = "Finished"]
  /\ UNCHANGED <<machineVars, xenv, watched, video, actions, events, sending, inputQueue>>

Receives(item) ==
  /\ thread.state = "Running" /\ inputQueue # <<>> /\ Head(inputQueue) = item
  /\ inputQueue' = Tail(inputQueue)

\* Mutant of ReconnectInput: the flag stays when reconnecting fails.
ReconnectInputOrWait ==
  /\ Receives("Restart")
  /\ thread' = IF DisplayOpens
               THEN [thread EXCEPT !.display = display.number, !.restarting = FALSE]
               ELSE thread
  /\ UNCHANGED <<machineVars, xenv, watched, video, actions, events, sending>>

\* The flag is reset whether reconnect_input_modules succeeds or not.
ReconnectInput ==
  /\ Receives("Restart")
  /\ thread' = [thread EXCEPT !.display = IF DisplayOpens THEN display.number ELSE @,
                              !.restarting = FALSE]
  /\ UNCHANGED <<machineVars, xenv, watched, video, actions, events, sending>>

MouseMoves == display.up /\ thread.display = display.number

\* A click or a mouse move that fails asks for a restart, once.
Input ==
  /\ Receives("Input")
  /\ IF MouseMoves \/ thread.restarting
     THEN UNCHANGED <<actions, thread>>
     ELSE /\ Len(actions) < MaxActions
          /\ actions' = Append(actions, "RestartSession")
          /\ thread' = [thread EXCEPT !.restarting = TRUE]
  /\ UNCHANGED <<machineVars, xenv, watched, video, events, sending>>

-------------------------------------------------------------------------------
Next ==
  \/ LogIn \/ LogOut \/ StartDisplay \/ UpdateWho
  \/ CheckLoggedIn \/ CheckLoggedOut
  \/ VideoStep
  \/ HandleInputState \/ FinishSending \/ HandleRestartInput
  \/ StartInputThread \/ ReconnectInput \/ Input

Spec == Init /\ [][Next]_vars

\* Tasks and threads run on, a display that ended is started again. The select of
\* EventsTask prefers datagrams, but the players' inputs leave gaps: the channel is
\* read again and again.
Fairness ==
  /\ WF_vars(StartDisplay) /\ WF_vars(UpdateWho)
  /\ WF_vars(CheckLoggedIn) /\ WF_vars(CheckLoggedOut)
  /\ WF_vars(VideoStep)
  /\ WF_vars(FinishSending) /\ SF_vars(HandleRestartInput)
  /\ WF_vars(StartInputThread) /\ WF_vars(ReconnectInput) /\ WF_vars(Input)

FairSpec == Spec /\ Fairness

-------------------------------------------------------------------------------
(* Properties.                                                                 *)

\* The types of the tasks' state and channels; the input queue keeps its bound.
TypeOK ==
  /\ user \in BOOLEAN /\ listed \in BOOLEAN
  /\ display \in [number : 1..MaxDisplays, up : BOOLEAN, accepts : SUBSET Settings]
  /\ xenv \in Settings /\ watched \in Settings
  /\ video \in [at : {"Loop", "SendRestarts", "SendRestartStream"},
                capturer : 0..MaxDisplays]
  /\ actions \in Seq({"RestartSession", "NewUserSession", "RestartStream"})
  /\ events \in Seq({"RestartInputTread"})
  /\ sending \in {Nothing, "Input", "Restart"}
  /\ inputQueue \in Seq({"Input", "Restart"}) /\ Len(inputQueue) <= MaxInputQueue
  /\ overlooked \in BOOLEAN
  /\ thread \in [state : {"Starting", "Running", "Finished"},
                 display : 0..MaxDisplays, restarting : BOOLEAN]

\* session_restart_in_progress, which keeps the thread from asking again, is set only
\* while a restart that resets it is on its way through the tasks and channels.
RestartOnItsWay ==
  thread.state = "Running" /\ thread.restarting =>
    \/ Contains(actions, "RestartSession")
    \/ video.at = "SendRestarts"
    \/ events # <<>>
    \/ sending = "Restart"
    \/ Contains(inputQueue, "Restart")

\* Without a capturer the loop of VideoServerTask does nothing but handle actions:
\* then a RestartStream is queued or about to be.
CapturerComesBack ==
  video.capturer = NoDisplay =>
    video.at = "SendRestartStream" \/ Contains(actions, "RestartStream")

\* As long as mouse inputs keep coming, the mouse moves again after every login and
\* logout, however the restarts of stream and input and the X servers interleave.
InputRecovers ==
  []<><<Input>>_vars => <>[](thread.display = display.number)

\* If every login and logout lasts until a poll sees it, the stream shows the current
\* display in the end, whether inputs come or not.
StreamFollows ==
  [](~overlooked) => <>[](video.capturer = display.number)
===============================================================================
