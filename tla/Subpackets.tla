------------------------------ MODULE Subpackets ------------------------------
(***************************************************************************)
(* A frame on the wire: PacketDeployer (libs/mrial_proto/src/deploy.rs)     *)
(* cuts an encrypted frame into subpackets of at most PAYLOAD bytes, each   *)
(* with a header naming its frame id (a u8), the size of the whole frame    *)
(* and the number of subpackets that follow it.                             *)
(*                                                                          *)
(* A payload is abstracted to its origin: the sequence number `seq' of the  *)
(* frame it was cut from.  `seq' is not on the wire; the code only sees the *)
(* frame id.                                                                *)
(***************************************************************************)
EXTENDS Integers, Sequences, FiniteSets

CONSTANTS
  PAYLOAD,      \* bytes of data in a full subpacket (MTU - HEADER, 1192)
  FrameIds,     \* number of frame ids (256, the header's byte)
  MaxFrames,    \* bound: frames the encoder produces
  FrameSizes    \* sizes in bytes an encrypted frame may have

ASSUME SubpacketsAssumption ==
  /\ PAYLOAD \in Nat \ {0}
  /\ FrameIds \in Nat \ {0}
  /\ MaxFrames \in Nat \ {0}
  /\ FrameSizes \subseteq Nat \ {0}

\* How many subpackets a frame of `size' bytes is cut into.
SubpacketCount(size) == (size + PAYLOAD - 1) \div PAYLOAD

\* The header byte of the frame numbered `seq': ids start at 1 and wrap.
IdOf(seq) == seq % FrameIds

(***************************************************************************)
(* A subpacket: `rp' is packets_remaining, `key' the NAL variant bits and   *)
(* `rnal' tells a retransmission (RNAL) from the first transmission (NAL).  *)
(***************************************************************************)
Fragment ==
  [seq : 1..MaxFrames, size : FrameSizes, rp : Nat, key : BOOLEAN, rnal : BOOLEAN]

\* The bytes of data behind the header of a subpacket.
DataLen(f) ==
  IF f.rp = 0 THEN f.size - (SubpacketCount(f.size) - 1) * PAYLOAD ELSE PAYLOAD
===============================================================================
