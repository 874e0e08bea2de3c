----------------------------- MODULE FrameDelivery -----------------------------
(***************************************************************************)
(* What the decoder is promised: frames come in the order they were encoded. *)
(* A frame of which nothing arrived may be missing; a frame of which a part   *)
(* arrived is missing only if a key frame came after it, since the frames     *)
(* in between are encoded as differences to their predecessors.               *)
(***************************************************************************)
EXTENDS Integers, Sequences

VARIABLES
  encoded,  \* for each frame, whether it is a key frame
  seen,     \* frames of which something arrived
  decoded   \* numbers of the frames handed to the decoder

deliveryVars == <<encoded, seen, decoded>>

Init == encoded = <<>> /\ seen = {} /\ decoded = <<>>

LastDecoded == IF decoded = <<>> THEN 0 ELSE decoded[Len(decoded)]

Encode ==
  /\ \E key \in BOOLEAN : encoded' = Append(encoded, key)
  /\ UNCHANGED <<seen, decoded>>

See(k) ==
  /\ seen' = seen \union {k}
  /\ UNCHANGED <<encoded, decoded>>

\* Frames j between the last one and k are left out.
Excused(j, k) ==
  j \in seen' => \E later \in (j + 1)..k : later \in seen' /\ encoded[later]

Decode(k) ==
  /\ k > LastDecoded
  /\ seen' = seen \union {k}
  /\ \A j \in (LastDecoded + 1)..(k - 1) : Excused(j, k)
  /\ decoded' = Append(decoded, k)
  /\ UNCHANGED encoded

Next ==
  \/ Encode
  \/ \E k \in DOMAIN encoded : See(k) \/ Decode(k)

Spec == Init /\ [][Next]_deliveryVars

\* No frame is decoded twice or after a later one.
InOrder == \A m, n \in DOMAIN decoded : m < n => decoded[m] < decoded[n]
===============================================================================
