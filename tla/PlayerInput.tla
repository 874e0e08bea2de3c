------------------------------ MODULE PlayerInput ------------------------------
(***************************************************************************)
(* Pointer and keys from the player's window to the server's desktop: the     *)
(* callbacks of Input::capture (mrial_player/src/input/mod.rs), the bytes of   *)
(* libs/mrial_proto/src/input.rs and InputThread::input                       *)
(* (mrial_server/src/events/mod.rs). SendLoop has the threads in between.      *)
(***************************************************************************)
EXTENDS Integers, Sequences, SequencesExt

CONSTANTS
  Positions,    \* pointer positions in the picture, x and y in TenThousandths of its size
  Keys,         \* keys: "Return", modifiers, "Escape" and others
  MaxEvents,    \* bound: events of the window
  MaxInFlight   \* bound: datagrams between the callbacks and the input thread

Outside == <<-1, -1>>   \* not in the picture, or on the button of the control panel
Nowhere == <<0, 0>>     \* bytes that are zero

TenThousandths == 0..10000

ASSUME PlayerInputAssumption ==
  /\ Positions \subseteq TenThousandths \X TenThousandths
  /\ {"pointer", "button"} \cap Keys = {}
  /\ MaxEvents \in Nat /\ MaxInFlight \in Nat

VARIABLES
  window,     \* where the pointer is, whether the left button is down, whether the pointer
              \* moved since then and since the last other click, and the keys that are down
  connected,  \* Input.connected
  net,        \* InputState datagrams on their way, oldest first
  desktop,    \* pointer, left button and keys as Enigo has them
  held,       \* InputThread.left_mouse_held
  events,     \* how many more events may come
  unknown,    \* history: keys, "pointer" and "button" whose last event got lost
  odd         \* history: left and other clicks that came while the button was up were odd
              \* in number

inputVars == <<window, connected, net, desktop, held, events, unknown, odd>>

InputInit ==
  /\ window = [at |-> Outside, down |-> FALSE, dragged |-> FALSE, keys |-> {}]
  /\ connected = TRUE
  /\ net = <<>>
  /\ desktop = [at |-> Nowhere, down |-> FALSE, keys |-> {}]
  /\ held = FALSE
  /\ events = MaxEvents
  /\ unknown = {"pointer"} /\ odd = FALSE

-------------------------------------------------------------------------------
(* input.rs: what the bytes of a datagram say. Each callback has a buffer of its *)
(* own, so the bytes of the others are zero in it.                              *)

NoBytes == [click |-> Nowhere, right |-> FALSE, move |-> Nowhere, pressed |-> FALSE,
            press |-> {}, release |-> {}]

\* x and y are written plus one, to tell them from zero, and parsed minus one.
Percents(at) == <<at[1] + 1, at[2] + 1>>
Position(percents) == <<percents[1] - 1, percents[2] - 1>>

Click(at, right) == [NoBytes EXCEPT !.click = Percents(at), !.right = right]
MouseMove(at, pressed) == [NoBytes EXCEPT !.move = Percents(at), !.pressed = pressed]

\* The low bytes of x and y.
ClickRequested(b) == \E i \in 1..2 : b.click[i] % 256 # 0

\* Mutant of MouseMoveRequested: both must be there.
MouseMoveRequestedTwice(b) == \A i \in 1..2 : b.move[i] \div 256 # 0

\* The high bytes of x and y.
MouseMoveRequested(b) == \E i \in 1..2 : b.move[i] \div 256 # 0

\* The bytes of meta and control are swapped, so that Command is Control for a Mac.
MetaByte(key) == CASE key = "Meta" -> "Control" [] key = "Control" -> "Meta" [] OTHER -> key

\* Key::from knows no key for the bytes below 33 that it does not list.
Known(key) == key # "Escape"

-------------------------------------------------------------------------------
(* The callbacks.                                                              *)

\* What a datagram sets on the desktop.
Sets(b) ==
  (IF b.click # Nowhere \/ b.move # Nowhere THEN {"pointer"} ELSE {})
    \union (IF (b.click # Nowhere /\ ~b.right) \/ b.pressed THEN {"button"} ELSE {})
    \union b.press \union b.release

SetBy(s) == UNION {Sets(s[i]) : i \in DOMAIN s}

\* The byte of a coordinate that input looks at is zero for both: then it does nothing.
Unnoticed(b) ==
  \/ b.click # Nowhere /\ \A i \in 1..2 : b.click[i] % 256 = 0
  \/ b.move # Nowhere /\ \A i \in 1..2 : b.move[i] < 256

SetUnnoticed(s) == UNION {Sets(s[i]) : i \in {j \in DOMAIN s : Unnoticed(s[j])}}

\* A callback returns early without a connection, and where the pointer is outside.
Emit(s, inside) ==
  IF connected /\ inside
  THEN /\ Len(net \o s) <= MaxInFlight
       /\ net' = net \o s
       /\ unknown' = (unknown \ SetBy(s)) \union SetUnnoticed(s)
  ELSE /\ UNCHANGED net
       /\ unknown' = unknown \union SetBy(s)

WindowEvent == events > 0 /\ events' = events - 1 /\ UNCHANGED <<connected, desktop, held, odd>>

\* A move is reported as such, and once more as a drag while the button is down.
MovePointer(at) ==
  /\ WindowEvent
  /\ at # window.at
  /\ window' = [window EXCEPT !.at = at, !.dragged = @ \/ (window.down /\ at # Outside)]
  /\ Emit(IF window.down THEN <<MouseMove(at, FALSE), MouseMove(at, TRUE)>>
                         ELSE <<MouseMove(at, FALSE)>>, at # Outside)

\* Pressing the button is not reported.
PressButton ==
  /\ WindowEvent
  /\ ~window.down /\ window.at # Outside
  /\ window' = [window EXCEPT !.down = TRUE, !.dragged = FALSE]
  /\ UNCHANGED <<net, unknown>>

ReleaseButton ==
  /\ WindowEvent
  /\ window.down
  /\ window' = [window EXCEPT !.down = FALSE]
  /\ Emit(<<Click(window.at, FALSE)>>, window.at # Outside)

RightClick ==
  /\ WindowEvent
  /\ Emit(<<Click(window.at, TRUE)>>, window.at # Outside)
  /\ UNCHANGED window

\* on_click tells only the right button from others: the release of a middle button is a
\* left click, also while the left button is down.
OtherClick ==
  /\ WindowEvent
  /\ window' = [window EXCEPT !.dragged = FALSE]
  /\ Emit(<<Click(window.at, FALSE)>>, window.at # Outside)

\* A key that is held is pressed again and again.
PressKey(key) ==
  /\ WindowEvent
  /\ window' = [window EXCEPT !.keys = @ \union {key}]
  /\ Emit(<<[NoBytes EXCEPT !.press = {key}]>>, TRUE)

\* Mutant of KeyReleased: it is written to the byte of a pressed key.
KeyReleasedAsPressed(key) == [NoBytes EXCEPT !.press = {key}]

KeyReleased(key) == [NoBytes EXCEPT !.release = {key}]

ReleaseKey(key) ==
  /\ WindowEvent
  /\ key \in window.keys
  /\ window' = [window EXCEPT !.keys = @ \ {key}]
  /\ Emit(<<KeyReleased(key)>>, TRUE)

\* The player connects or disconnects.
SetConnected ==
  /\ events > 0 /\ events' = events - 1
  /\ connected' = ~connected
  /\ UNCHANGED <<window, net, desktop, held, unknown, odd>>

\* Whatever nothing later on its way sets again.
LoseInput(i) ==
  /\ i \in DOMAIN net
  /\ net' = RemoveAt(net, i)
  /\ unknown' = unknown \union (Sets(net[i]) \ SetBy(SubSeq(net, i + 1, Len(net))))
  /\ UNCHANGED <<window, connected, desktop, held, events, odd>>

-------------------------------------------------------------------------------
(* InputThread::input.                                                         *)

\* Return is pressed and released at once.
HandleKeys(keys, b) ==
  (keys \union {MetaByte(k) : k \in {k \in b.press : Known(k) /\ k # "Return"}})
    \ {MetaByte(k) : k \in b.release}

\* Mutant of HandleMouse: a click toggles the button as it toggles the flag.
HandleMouseToggling(b) ==
  \/ /\ ClickRequested(b)
     /\ desktop' = [desktop EXCEPT !.at = Position(b.click), !.down = @ # ~b.right]
     /\ held' = (held # ~b.right)
     /\ odd' = IF b.right \/ desktop.down THEN odd ELSE ~odd
  \/ /\ MouseMoveRequested(b)
     /\ desktop' = [desktop EXCEPT !.at = Position(b.move), !.down = @ \/ (b.pressed /\ ~held)]
     /\ held' = (held \/ b.pressed)
     /\ UNCHANGED odd

\* A left click presses and releases the button, so it ends a drag, too. Each toggles
\* the flag, which a drag only sets.
HandleMouse(b) ==
  \/ /\ ClickRequested(b)
     /\ desktop' = [desktop EXCEPT !.at = Position(b.click), !.down = @ /\ b.right]
     /\ held' = (held # ~b.right)
     /\ odd' = IF b.right \/ desktop.down THEN odd ELSE ~odd
  \/ /\ MouseMoveRequested(b)
     /\ desktop' = [desktop EXCEPT !.at = Position(b.move), !.down = @ \/ (b.pressed /\ ~held)]
     /\ held' = (held \/ b.pressed)
     /\ UNCHANGED odd

HandleInput ==
  /\ net # <<>>
  /\ net' = Tail(net)
  /\ LET b == Head(net) IN
       IF ClickRequested(b) \/ MouseMoveRequested(b) THEN HandleMouse(b)
       ELSE /\ desktop' = [desktop EXCEPT !.keys = HandleKeys(@, b)]
            /\ UNCHANGED <<held, odd>>
  /\ UNCHANGED <<window, connected, events, unknown>>

InputNext ==
  \/ \E at \in Positions \union {Outside} : MovePointer(at)
  \/ PressButton \/ ReleaseButton \/ RightClick \/ OtherClick
  \/ \E key \in Keys : PressKey(key) \/ ReleaseKey(key)
  \/ SetConnected \/ HandleInput
  \/ \E i \in 1..MaxInFlight : LoseInput(i)

InputSpec == InputInit /\ [][InputNext]_inputVars

-------------------------------------------------------------------------------
(* Properties.                                                                 *)

\* Return is never down for longer than a datagram; Escape has no key.
DesktopKeys == {MetaByte(k) : k \in Keys \ {"Return", "Escape"}}

\* The types of the window's, the network's and the desktop's state.
InputTypeOK ==
  /\ window \in [at : Positions \union {Outside}, down : BOOLEAN, dragged : BOOLEAN,
                 keys : SUBSET Keys]
  /\ connected \in BOOLEAN /\ held \in BOOLEAN /\ odd \in BOOLEAN
  /\ \A i \in DOMAIN net :
       /\ net[i].click = Nowhere \/ Position(net[i].click) \in Positions
       /\ net[i].move = Nowhere \/ Position(net[i].move) \in Positions
       /\ net[i].press \union net[i].release \subseteq Keys
  /\ desktop \in [at : Positions \union {Nowhere}, down : BOOLEAN, keys : SUBSET DesktopKeys]
  /\ events \in 0..MaxEvents
  /\ unknown \subseteq Keys \union {"pointer", "button"}

Arrived(what) == net = <<>> /\ what \notin unknown

\* A key is down on the desktop exactly while it is in the window, as soon as its last
\* event has arrived: whatever got lost before, no key stays down.
KeysAgree ==
  \A k \in Keys \ {"Return"} :
    Known(k) /\ Arrived(k) => (MetaByte(k) \in desktop.keys <=> k \in window.keys)

\* The pointer is where it is in the window, except for the corner in which both x and
\* y are written with a high byte of zero.
PointerAgrees ==
  window.at # Outside /\ Arrived("pointer") => desktop.at = window.at

\* As soon as the last event that sets the left button has arrived it is up if it is up in
\* the window; and down while something is dragged, again also after a middle click ended
\* the drag on the desktop, if the left and middle clicks without a drag were even in number.
ButtonAgrees ==
  Arrived("button") =>
    /\ (desktop.down => window.down)
    /\ (window.down /\ window.dragged /\ ~odd => desktop.down)
===============================================================================
