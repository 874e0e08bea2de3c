---------------------------- MODULE MCAudioStream ----------------------------
(* Small instances of AudioStream: frame sizes in bytes, for PAYLOAD = 2.      *)
EXTENDS AudioStream

CONSTANTS AudioPCM, AudioOpus

OneCodec == {AudioOpus}
BothCodecs == {AudioPCM, AudioOpus}
OneToThree == {2, 3, 5}   \* frames of one, two and three subpackets
===============================================================================
