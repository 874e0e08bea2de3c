------------------------------ MODULE AudioStream ------------------------------
(***************************************************************************)
(* Audio from the server's broadcast task to the player's decoder.  The      *)
(* server has one PacketDeployer per codec, each with frame ids of its own;  *)
(* the player has one PacketConstructor (libs/mrial_proto/src/packet.rs) for *)
(* both.  Nothing is retransmitted: a frame with a lost subpacket is given   *)
(* up when a subpacket of another frame comes.                               *)
(***************************************************************************)
EXTENDS Subpackets, SequencesExt

CONSTANTS
  Codecs,       \* the packet types AudioPCM and AudioOpus
  Window,       \* how far the network reorders: 1 is FIFO
  MaxCopies,    \* how often it may deliver one datagram: 1 is no duplicates
  MaxInFlight   \* bound: datagrams in flight to the player, more are dropped

ASSUME AudioStreamAssumption ==
  Window \in Nat \ {0} /\ MaxCopies \in Nat /\ MaxInFlight \in Nat

VARIABLES
  frames,     \* [codec, size, id] of the frames deployed so far
  unsent,     \* subpackets of the last of them that are still to be sent
  net,        \* datagrams on their way to the player, oldest first
  asm,        \* the fields of PacketConstructor
  assembled,  \* history: [codec, frame] handed to the decoding thread
  received,   \* history: <<seq, rp>> of the subpackets that arrived
  panicked,   \* the receiving thread hit an index out of range
  disordered  \* history: the network duplicated a datagram or let one overtake another

vars == <<frames, unsent, net, asm, assembled, received, panicked, disordered>>

NoFrame == -1
Zeroed == 0

AudioFragment ==
  [seq : 1..MaxFrames, codec : Codecs, id : 0..(FrameIds - 1), size : FrameSizes, rp : Nat]

\* `frame' has one entry per PAYLOAD bytes: the number of the frame they are of.
Idle == [id |-> NoFrame, size |-> 0, total |-> 0, frame |-> <<>>, remaining |-> {}]

Init ==
  /\ frames = <<>>
  /\ unsent = 0
  /\ net = <<>>
  /\ asm = Idle
  /\ assembled = <<>>
  /\ received = {}
  /\ panicked = FALSE
  /\ disordered = FALSE

-------------------------------------------------------------------------------
(* The server: AppBroadcastTask takes one frame after the other.               *)

OfCodec(codec) == {k \in DOMAIN frames : frames[k].codec = codec}

DeployFrame(codec, size) ==
  /\ unsent = 0
  /\ Len(frames) < MaxFrames
  /\ frames' = Append(frames, [codec |-> codec, size |-> size,
                               id |-> IdOf(Cardinality(OfCodec(codec)) + 1)])
  /\ unsent' = SubpacketCount(size)
  /\ UNCHANGED <<net, asm, assembled, received, panicked, disordered>>

NextFragment ==
  LET last == Len(frames) IN
  [seq |-> last, codec |-> frames[last].codec, id |-> frames[last].id,
   size |-> frames[last].size, rp |-> unsent - 1]

Transmit(s) == net' = IF Len(net \o s) <= MaxInFlight THEN net \o s ELSE net

BroadcastSubpacket(copies) ==
  /\ unsent > 0
  /\ Transmit([i \in 1..copies |-> NextFragment])
  /\ unsent' = unsent - 1
  /\ disordered' = (disordered \/ copies > 1)
  /\ UNCHANGED <<frames, asm, assembled, received, panicked>>

-------------------------------------------------------------------------------
(* The player: assemble_packet.                                                *)

\* `frame' is resized, so the entries both sizes have keep what they held.
StartFrame(f) ==
  LET total == SubpacketCount(f.size) IN
  [id |-> f.id, size |-> f.size, total |-> total,
   frame |-> [i \in 1..total |-> IF i <= asm.total THEN asm.frame[i] ELSE Zeroed],
   remaining |-> 0..(total - 1)]

\* Mutant of Opened: a frame in progress is not given up.
OpenedWhenIdle(f) == IF asm.id = NoFrame THEN StartFrame(f) ELSE asm

Opened(f) == IF asm.id # f.id THEN StartFrame(f) ELSE asm

\* frame[start..end] exists and has the length of the data.
InBounds(a, f) ==
  /\ f.rp < a.total
  /\ (a.total - 1 - f.rp) * PAYLOAD + DataLen(f) <= a.size

Stored(f) ==
  LET a == Opened(f) IN
  [a EXCEPT !.frame = [@ EXCEPT ![a.total - f.rp] = f.seq], !.remaining = @ \ {f.rp}]

\* Mutant of Incomplete: the last subpacket completes a frame whatever is missing.
IncompleteUnlessLast(f) == Stored(f).remaining # {} /\ f.rp # 0

\* Assembling, or Waiting if f is the last subpacket: the caller takes no notice.
Incomplete(f) == Stored(f).remaining # {}

StoreFragment(f) ==
  /\ InBounds(Opened(f), f)
  /\ Incomplete(f)
  /\ asm' = Stored(f)
  /\ UNCHANGED <<assembled, panicked>>

CompleteFrame(f) ==
  /\ InBounds(Opened(f), f)
  /\ ~Incomplete(f)
  /\ assembled' = Append(assembled, [codec |-> f.codec, frame |-> Stored(f).frame])
  /\ asm' = Idle
  /\ UNCHANGED panicked

Panic(f) ==
  /\ ~InBounds(Opened(f), f)
  /\ panicked' = TRUE
  /\ UNCHANGED <<asm, assembled>>

ReceiveFragment(i) ==
  /\ ~panicked
  /\ i <= Len(net) /\ i <= Window
  /\ net' = RemoveAt(net, i)
  /\ received' = received \union {<<net[i].seq, net[i].rp>>}
  /\ disordered' = (disordered \/ i > 1)
  /\ StoreFragment(net[i]) \/ CompleteFrame(net[i]) \/ Panic(net[i])
  /\ UNCHANGED <<frames, unsent>>

Next ==
  \/ \E codec \in Codecs, size \in FrameSizes : DeployFrame(codec, size)
  \/ \E copies \in 0..MaxCopies : BroadcastSubpacket(copies)
  \/ \E i \in 1..Window : ReceiveFragment(i)

Spec == Init /\ [][Next]_vars

-------------------------------------------------------------------------------
(* Properties.                                                                 *)

\* The types of the server's, the network's and the assembler's state.
TypeOK ==
  /\ frames \in Seq([codec : Codecs, size : FrameSizes, id : 0..(FrameIds - 1)])
  /\ Len(frames) <= MaxFrames
  /\ unsent \in Nat
  /\ net \in Seq(AudioFragment)
  /\ asm \in [id : {NoFrame} \union 0..(FrameIds - 1), size : FrameSizes \union {0},
              total : Nat, frame : Seq(0..MaxFrames), remaining : SUBSET Nat]
  /\ assembled \in Seq([codec : Codecs, frame : Seq(0..MaxFrames)])
  /\ received \subseteq (1..MaxFrames) \X Nat
  /\ panicked \in BOOLEAN /\ disordered \in BOOLEAN

\* The subpackets of one deployed frame, all of them and in their places.
Whole(fr) ==
  /\ fr # <<>> /\ fr[1] \in 1..Len(frames)
  /\ Len(fr) = SubpacketCount(frames[fr[1]].size)
  /\ \A i \in DOMAIN fr : fr[i] = fr[1]

\* With one codec, whatever subpackets are lost, come late or twice: what PacketConstructor
\* hands over is one deployed frame, whole and under its own codec, though all frames share
\* one buffer and a late subpacket starts an old frame again.
DropsIncomplete ==
  \A n \in DOMAIN assembled :
    Whole(assembled[n].frame) /\ frames[assembled[n].frame[1]].codec = assembled[n].codec

\* As long as the network keeps the order a frame is lost only by the loss of one of its
\* subpackets: an incomplete frame does not take the next one with it.
OnlyLossDrops ==
  ~disordered =>
    \A k \in DOMAIN frames :
      (\A rp \in 0..(SubpacketCount(frames[k].size) - 1) : <<k, rp>> \in received) =>
        \E n \in DOMAIN assembled : assembled[n].frame[1] = k

\* What the comment of PacketConstructor says: "Additionally, drops frames that are out of
\* order". It does as long as the network keeps the order, and not otherwise: a frame is
\* handed over after a later one, or twice.
DropsOutOfOrder ==
  \A n \in DOMAIN assembled, m \in DOMAIN assembled :
    m < n => assembled[m].frame[1] < assembled[n].frame[1]
===============================================================================
