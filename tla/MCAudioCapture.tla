---------------------------- MODULE MCAudioCapture ----------------------------
(* A small instance of AudioCapture.                                           *)
EXTENDS AudioCapture

\* Less than a third of the buffer, more than half of it, all of it.
OneThreeOrFour == {1, 3, 4}
===============================================================================
