----------------------------- MODULE NALAssembler -----------------------------
(***************************************************************************)
(* NALPacketConstructor (libs/mrial_proto/src/packet.rs) as the player's    *)
(* VideoThread::packet (mrial_player/src/video/mod.rs) drives it: one call  *)
(* of assemble_packet per arriving subpacket, the retransmission requests   *)
(* it makes, and the queue of postponed subpackets that is fed through it   *)
(* again once the frame in the way is complete.                             *)
(***************************************************************************)
EXTENDS Subpackets

CONSTANTS
  MaxRequestIds,  \* subpacket ids a Retransmit datagram has room for (593)
  MaxRequests     \* bound: Retransmit datagrams in flight, more are dropped

ASSUME AssemblerAssumption == MaxRequestIds \in Nat /\ MaxRequests \in Nat

VARIABLES
  asm,        \* the fields of NALPacketConstructor
  work,       \* returned by EAssemblerState::Queue, still to be fed back
  assembled,  \* history: contents of the frames handed to `assembled'
  arrived,    \* history: frames of which some NAL was processed
  panicked,   \* the receiving thread hit an assert or an index out of range
  requests    \* Retransmit datagrams on their way to the server

assemblerVars == <<asm, work, assembled, arrived, panicked, requests>>

NoFrame == -1   \* current_frame_id between two frames
Zeroed == 0     \* content of a slot of `frame' nothing was copied to

\* `requested' is the domain of retransmit_requests; `recent' are those whose
\* timestamp is less than NAL_RETRANSMISSION_DELAY old.  `frame' has one entry
\* per PAYLOAD bytes, the number of the frame whose data was copied there.
Idle == [id |-> NoFrame, size |-> 0, total |-> 0, frame |-> <<>>, remaining |-> {},
         previous |-> -1, requested |-> {}, recent |-> {}, queue |-> <<>>,
         waiting |-> FALSE]

AssemblerInit ==
  /\ asm = Idle
  /\ work = <<>>
  /\ assembled = <<>>
  /\ arrived = {}
  /\ panicked = FALSE
  /\ requests = <<>>

-------------------------------------------------------------------------------
(* The pieces of assemble_packet, as functions of the constructor's state.     *)

\* `frame' is resized, so the entries both sizes have keep what they held.
StartFrame(a, f) ==
  LET total == SubpacketCount(f.size) IN
  [a EXCEPT !.id = IdOf(f.seq), !.size = f.size, !.total = total,
            !.remaining = 0..(total - 1),
            !.frame = [i \in 1..total |-> IF i <= a.total THEN a.frame[i] ELSE Zeroed]]

\* Mutant of SwitchToKeyFrame: the list of missing subpackets is not renewed.
SwitchKeepsRemaining(a, f) ==
  [StartFrame(a, f) EXCEPT !.remaining = a.remaining, !.queue = <<>>, !.waiting = FALSE,
                           !.previous = -1, !.requested = {}, !.recent = {}]

\* A key frame gives up the frame in progress and all that waits behind it.
SwitchToKeyFrame(a, f) ==
  [StartFrame(a, f) EXCEPT !.queue = <<>>, !.waiting = FALSE, !.previous = -1,
                           !.requested = {}, !.recent = {}]

\* Mutant of Opened: a key frame is stored into the frame in progress.
OpenedWithoutSwitch(f) == IF asm.id = NoFrame THEN StartFrame(asm, f) ELSE asm

\* The frame f is stored into: started, switched to, or the one in progress.
Opened(f) ==
  IF asm.id = NoFrame THEN StartFrame(asm, f)
  ELSE IF asm.id # IdOf(f.seq) THEN SwitchToKeyFrame(asm, f)
  ELSE asm

\* frame[start..end] exists and has the length of the data.
InBounds(a, f) ==
  /\ f.rp < a.total
  /\ (a.total - 1 - f.rp) * PAYLOAD + DataLen(f) <= a.size

\* Mutant of Store: packets_remaining taken for the index of the slot.
StoreBackwards(a, f) ==
  [a EXCEPT !.frame = [@ EXCEPT ![f.rp + 1] = f.seq], !.remaining = @ \ {f.rp}]

\* Subpackets count down: the highest packets_remaining is the first slot.
Store(a, f) ==
  [a EXCEPT !.frame = [@ EXCEPT ![a.total - f.rp] = f.seq],
            !.remaining = @ \ {f.rp}]

\* Mutant of GapBefore: also what has come already, in another order.
GapRegardless(a, f) ==
  IF a.waiting \/ a.previous <= 0 THEN {}
  ELSE IF f.rp < a.previous
       THEN ((f.rp + 1)..(a.previous - 1)) \ a.recent
       ELSE ((a.previous + 1)..(f.rp - 1)) \ a.requested

\* Missing subpackets between the previous one that came and f.
GapBefore(a, f) ==
  IF a.waiting \/ a.previous <= 0 THEN {}
  ELSE IF f.rp < a.previous
       THEN (((f.rp + 1)..(a.previous - 1)) \cap a.remaining) \ a.recent
       ELSE (((a.previous + 1)..(f.rp - 1)) \cap a.remaining) \ a.requested

Ask(a, ids) ==
  [a EXCEPT !.requested = @ \union ids, !.recent = @ \union ids]

\* Mutant of Unrequested: the last subpacket asks for nothing.
NothingUnrequested(a) == {}

\* After the last subpacket: whatever is missing and was never asked for.
Unrequested(a) == a.remaining \ a.requested

\* While subpackets of later frames pile up: all that is missing, again when
\* the last request is older than the delay.
Overdue(a) == a.remaining \ a.recent

\* The datagram for a set of ids, if there are any.
Asking(id, size, ids) ==
  IF ids = {} THEN <<>> ELSE <<[id |-> id, size |-> size, ids |-> ids]>>

\* Datagrams s are sent, unless the buffer is full.
Send(s) ==
  requests' = IF Len(requests \o s) <= MaxRequests THEN requests \o s ELSE requests

\* write_retransmit_body asserts that all ids fit into one datagram.
Fits(ids) == Cardinality(ids) <= MaxRequestIds

-------------------------------------------------------------------------------
(* One call of assemble_packet for the subpacket f; `rest' is what the caller  *)
(* still has to feed in after it.                                              *)

Useless(f) == f.rnal /\ asm.id # IdOf(f.seq)
Postponed(f) ==
  ~f.rnal /\ asm.id # NoFrame /\ asm.id # IdOf(f.seq) /\ ~f.key
Usable(f) == ~Useless(f) /\ ~Postponed(f)

Seen(f) == arrived' = IF f.rnal THEN arrived ELSE arrived \union {f.seq}

\* f stored, the gap before it asked for.
Stored(f) == Store(Opened(f), f)
Gap(f) == GapBefore(Stored(f), f)
AskingGap(f) == Asking(IdOf(f.seq), f.size, Gap(f))
Received(f) == [Ask(Stored(f), Gap(f)) EXCEPT !.previous = f.rp]

\* A retransmission of a frame that is not being assembled.
SkipFragment(f, rest) ==
  /\ Useless(f)
  /\ work' = rest
  /\ UNCHANGED <<asm, assembled, arrived, panicked, requests>>

\* Mutant of QueueFragment: the newest subpacket goes in front.
QueueInFront(f, rest) ==
  /\ Postponed(f)
  /\ Fits(Overdue(asm))
  /\ asm' = [Ask(asm, Overdue(asm)) EXCEPT !.queue = <<f>> \o @, !.waiting = TRUE]
  /\ Send(Asking(asm.id, asm.size, Overdue(asm)))
  /\ Seen(f)
  /\ work' = rest
  /\ UNCHANGED <<assembled, panicked>>

\* A subpacket of another frame waits until the current one is complete.
QueueFragment(f, rest) ==
  /\ Postponed(f)
  /\ Fits(Overdue(asm))
  /\ asm' = [Ask(asm, Overdue(asm)) EXCEPT !.queue = Append(@, f), !.waiting = TRUE]
  /\ Send(Asking(asm.id, asm.size, Overdue(asm)))
  /\ Seen(f)
  /\ work' = rest
  /\ UNCHANGED <<assembled, panicked>>

\* Returns Assembling.
StoreFragment(f, rest) ==
  /\ Usable(f)
  /\ InBounds(Opened(f), f)
  /\ f.rp # 0 /\ Stored(f).remaining # {}
  /\ Fits(Gap(f))
  /\ asm' = Received(f)
  /\ Send(AskingGap(f))
  /\ Seen(f)
  /\ work' = rest
  /\ UNCHANGED <<assembled, panicked>>

\* Returns Waiting: the last subpacket is here and others are not.
StoreLastFragment(f, rest) ==
  /\ Usable(f)
  /\ InBounds(Opened(f), f)
  /\ f.rp = 0 /\ Stored(f).remaining # {}
  /\ Fits(Gap(f)) /\ Fits(Unrequested(Received(f)))
  /\ asm' = [Ask(Received(f), Unrequested(Received(f))) EXCEPT !.waiting = TRUE]
  /\ Send(AskingGap(f) \o Asking(asm'.id, asm'.size, Unrequested(Received(f))))
  /\ Seen(f)
  /\ work' = rest
  /\ UNCHANGED <<assembled, panicked>>

\* Mutant of CompleteFrame: the queue is handed over but not taken.
CompleteKeepsQueue(f, rest) ==
  /\ Usable(f)
  /\ InBounds(Opened(f), f)
  /\ Stored(f).remaining = {}
  /\ assembled' = Append(assembled, Stored(f).frame)
  /\ work' = Stored(f).queue \o rest
  /\ asm' = [Idle EXCEPT !.queue = Stored(f).queue]
  /\ Seen(f)
  /\ UNCHANGED <<panicked, requests>>

\* Returns Finished, or Queue with the postponed subpackets, which the caller
\* feeds in before anything else.
CompleteFrame(f, rest) ==
  /\ Usable(f)
  /\ InBounds(Opened(f), f)
  /\ Stored(f).remaining = {}
  /\ assembled' = Append(assembled, Stored(f).frame)
  /\ work' = Stored(f).queue \o rest
  /\ asm' = Idle
  /\ Seen(f)
  /\ UNCHANGED <<panicked, requests>>

\* A slice index out of range, or too many ids for one Retransmit datagram.
Panic(f) ==
  /\ \/ Postponed(f) /\ ~Fits(Overdue(asm))
     \/ Usable(f) /\ ~InBounds(Opened(f), f)
     \/ /\ Usable(f)
        /\ InBounds(Opened(f), f)
        /\ Stored(f).remaining # {}
        /\ ~Fits(Gap(f)) \/ (f.rp = 0 /\ ~Fits(Unrequested(Received(f))))
  /\ panicked' = TRUE
  /\ UNCHANGED <<asm, work, assembled, arrived, requests>>

\* VideoThread::packet: one call of assemble_packet.
Packet(f, rest) ==
  /\ ~panicked
  /\ \/ SkipFragment(f, rest)
     \/ QueueFragment(f, rest)
     \/ StoreFragment(f, rest)
     \/ StoreLastFragment(f, rest)
     \/ CompleteFrame(f, rest)
     \/ Panic(f)

\* The loop of VideoThread::packet over the queue it got back.
FeedQueued ==
  /\ work # <<>>
  /\ Packet(Head(work), Tail(work))

\* The newest request for `rp' is NAL_RETRANSMISSION_DELAY old.
RequestExpires(rp) ==
  /\ rp \in asm.recent
  /\ asm' = [asm EXCEPT !.recent = @ \ {rp}]
  /\ UNCHANGED <<work, assembled, arrived, panicked, requests>>

-------------------------------------------------------------------------------
(* What holds of the constructor's state between two calls.                    *)

AssemblerState ==
  [id : {NoFrame} \union 0..(FrameIds - 1), size : FrameSizes \union {0}, total : Nat,
   frame : Seq(0..MaxFrames), remaining : SUBSET Nat, previous : Nat \union {-1},
   requested : SUBSET Nat, recent : SUBSET Nat, queue : Seq(Fragment),
   waiting : BOOLEAN]

RequestType ==
  [id : 0..(FrameIds - 1), size : FrameSizes \union {0}, ids : SUBSET Nat]

AssemblerTypeOK ==
  /\ asm \in AssemblerState
  /\ asm.recent \subseteq asm.requested
  /\ work \in Seq(Fragment)
  /\ assembled \in Seq(Seq(0..MaxFrames))
  /\ arrived \subseteq 1..MaxFrames
  /\ panicked \in BOOLEAN
  /\ requests \in Seq(RequestType)

\* What is not missing was copied from a subpacket with the current frame id,
\* to the place its number gives it.
SlotsFilled(a) ==
  /\ Len(a.frame) = a.total
  /\ a.remaining \subseteq 0..(a.total - 1)
  /\ \A rp \in (0..(a.total - 1)) \ a.remaining :
       /\ a.frame[a.total - rp] # Zeroed
       /\ IdOf(a.frame[a.total - rp]) = a.id

\* What is written into the frame under assembly came from a frame with the
\* current id, in its place; only what is still missing may be left over from
\* an abandoned frame (assemble_packet resizes `frame' and never clears it), and
\* between two frames nothing of the last one remains.
SlotsMatchFrame ==
  IF asm.id = NoFrame THEN asm = Idle ELSE SlotsFilled(asm) /\ asm.remaining # {}

\* The postponed subpackets all belong to other frames than the one in the way:
\* otherwise a frame would wait for a subpacket that waits behind it.  None is a
\* retransmission, and none stays behind when the frame is complete or given up.
QueueHoldsOthers ==
  /\ \A i \in DOMAIN asm.queue :
       ~asm.queue[i].rnal /\ IdOf(asm.queue[i].seq) # asm.id
  /\ asm.id = NoFrame => asm.queue = <<>>

\* An assembler that waits no longer asks for gaps, and one that has the last
\* subpacket gets no other one by itself: both have asked at least once for
\* every subpacket that is missing.
StalledHasAsked ==
  asm.waiting \/ (asm.id # NoFrame /\ 0 \notin asm.remaining) =>
    asm.remaining # {} /\ asm.remaining \subseteq asm.requested
===============================================================================
