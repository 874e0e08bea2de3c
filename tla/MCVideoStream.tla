---------------------------- MODULE MCVideoStream ----------------------------
(* Small instances of VideoStream: frame sizes in bytes, for PAYLOAD = 2.      *)
EXTENDS VideoStream

OneTwoOrFive == {2, 3, 9}    \* frames of one, two or five subpackets
OneOrThree == {2, 5}

\* A frame of five subpackets is explored on its own: it is there for the gaps.
FiveAlone == (\E i \in DOMAIN frames : frames[i].size = 9) => Len(frames) = 1

UdpNext == Next /\ FiveAlone'

UdpSpec == Init /\ [][UdpNext]_vars
===============================================================================
