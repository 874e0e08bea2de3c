----------------------------- MODULE MCPlayerInput -----------------------------
(* A small instance of PlayerInput.                                            *)
EXTENDS PlayerInput

\* Two high bytes of zero, two low bytes of zero, and neither.
CornerEdgeAndMiddle == {<<100, 254>>, <<255, 511>>, <<5000, 100>>}

\* One key that is only pressed, one modifier, one that Key::from does not know.
SomeKeys == {"Return", "Control", "Escape"}
===============================================================================
