--------------------------- MODULE VideoStreamProofs ---------------------------
(***************************************************************************)
(* Proofs about VideoStream for every value of its constants: types and the  *)
(* assembler's invariants; while no frame id comes round again, that an       *)
(* assembled frame is one whole deployed frame, that the receiver does not    *)
(* panic and asks only for what it misses; and, over a network that neither   *)
(* reorders nor duplicates, that only what was sent is asked for and that     *)
(* the stream implements FrameDelivery.                                       *)
(***************************************************************************)
EXTENDS VideoStream, SequenceTheorems, FiniteSetTheorems, TLAPS

\* The inductive invariant: each conjunct needs the others to be preserved.
AssemblerInv ==
  AssemblerTypeOK /\ SlotsMatchFrame /\ QueueHoldsOthers /\ StalledHasAsked

\* A frame has at least one subpacket.
LEMMA CountType ==
  ASSUME NEW size \in FrameSizes
  PROVE  SubpacketCount(size) \in Nat \ {0}
  BY SubpacketsAssumption DEF SubpacketCount

\* A frame id is a byte.
LEMMA IdType ==
  ASSUME NEW k \in Nat
  PROVE  IdOf(k) \in 0..(FrameIds - 1)
  BY SubpacketsAssumption DEF IdOf

\* A function on 1..n is a sequence.
LEMMA FunctionIsSeq ==
  ASSUME NEW S, NEW n \in Nat, NEW s \in [1..n -> S]
  PROVE  s \in Seq(S) /\ Len(s) = n
  OBVIOUS

-------------------------------------------------------------------------------
(* What assemble_packet's pieces preserve.                                     *)

\* A fresh frame is of the right type and has nothing filled in yet.
LEMMA StartFrameFacts ==
  ASSUME NEW a \in AssemblerState, NEW f \in Fragment,
         Len(a.frame) = a.total
  PROVE  LET b == StartFrame(a, f) IN
         /\ b \in AssemblerState
         /\ b.id = IdOf(f.seq) /\ b.size = f.size
         /\ b.total = SubpacketCount(f.size)
         /\ b.remaining = 0..(b.total - 1)
         /\ b.remaining # {}
         /\ SlotsFilled(b)
         /\ b.queue = a.queue /\ b.waiting = a.waiting
         /\ b.requested = a.requested /\ b.recent = a.recent
<1> DEFINE total == SubpacketCount(f.size)
           fr == [i \in 1..total |-> IF i <= a.total THEN a.frame[i] ELSE Zeroed]
           b == StartFrame(a, f)
<1>1. total \in Nat \ {0}
  BY CountType DEF Fragment
<1>2. IdOf(f.seq) \in 0..(FrameIds - 1)
  BY IdType DEF Fragment
<1>3. fr \in Seq(0..MaxFrames) /\ Len(fr) = total
  <2>1. \A i \in 1..total : fr[i] \in 0..MaxFrames
    BY SubpacketsAssumption DEF AssemblerState, Zeroed
  <2>2. fr \in [1..total -> 0..MaxFrames]
    BY <2>1
  <2>3. total \in Nat
    BY <1>1
  <2> HIDE DEF fr, total
  <2>4. QED
    BY <2>2, <2>3, FunctionIsSeq
<1>4. b = [a EXCEPT !.id = IdOf(f.seq), !.size = f.size, !.total = total,
                    !.remaining = 0..(total - 1), !.frame = fr]
  BY DEF StartFrame
<1> HIDE DEF total, fr, b
<1>5. b \in AssemblerState
  <2>1. b = [id |-> IdOf(f.seq), size |-> f.size, total |-> total, frame |-> fr,
             remaining |-> 0..(total - 1), previous |-> a.previous,
             requested |-> a.requested, recent |-> a.recent, queue |-> a.queue,
             waiting |-> a.waiting]
    BY <1>4 DEF AssemblerState
  <2>2. f.size \in FrameSizes /\ 0..(total - 1) \in SUBSET Nat
    BY <1>1 DEF Fragment
  <2>3. QED
    BY <1>1, <1>2, <1>3, <2>1, <2>2 DEF AssemblerState
<1>6. /\ b.id = IdOf(f.seq) /\ b.size = f.size /\ b.total = total /\ b.frame = fr
      /\ b.remaining = 0..(total - 1)
      /\ b.queue = a.queue /\ b.waiting = a.waiting
      /\ b.requested = a.requested /\ b.recent = a.recent
  BY <1>4 DEF AssemblerState
<1>7. 0 \in b.remaining
  BY <1>1, <1>6
<1>8. SlotsFilled(b)
  BY <1>3, <1>6 DEF SlotsFilled
<1>9. QED
  BY <1>5, <1>6, <1>7, <1>8 DEF b, total

\* Whichever way a usable subpacket finds the assembler, the frame it opens is
\* the subpacket's own, with nothing postponed that belongs to it.
LEMMA OpenedFacts ==
  ASSUME AssemblerInv, NEW f \in Fragment, Usable(f)
  PROVE  LET b == Opened(f) IN
         /\ b \in AssemblerState
         /\ b.id = IdOf(f.seq)
         /\ b.total \in Nat
         /\ SlotsFilled(b)
         /\ b.remaining # {}
         /\ \A i \in DOMAIN b.queue : ~b.queue[i].rnal /\ IdOf(b.queue[i].seq) # b.id
         /\ b.waiting \/ 0 \notin b.remaining => b.remaining \subseteq b.requested
         /\ b.recent \subseteq b.requested
<1> DEFINE b == Opened(f)
<1>0. asm \in AssemblerState
  BY DEF AssemblerInv, AssemblerTypeOK
<1>1. CASE asm.id = NoFrame
  <2>1. asm = Idle
    BY <1>1 DEF AssemblerInv, SlotsMatchFrame
  <2>2. /\ Len(asm.frame) = asm.total /\ asm.queue = <<>> /\ asm.waiting = FALSE
        /\ asm.recent = {}
    BY <2>1 DEF Idle
  <2>3. b = StartFrame(asm, f)
    BY <1>1 DEF Opened
  <2>4. b.total \in Nat \ {0}
    BY <1>0, <2>2, <2>3, StartFrameFacts, CountType DEF Fragment
  <2>5. 0 \in b.remaining
    BY <1>0, <2>2, <2>3, <2>4, StartFrameFacts
  <2>6. b.waiting = FALSE /\ b.queue = <<>> /\ b.recent = {}
    BY <1>0, <2>2, <2>3, StartFrameFacts
  <2>7. /\ b \in AssemblerState /\ b.id = IdOf(f.seq) /\ SlotsFilled(b)
    BY <1>0, <2>2, <2>3, StartFrameFacts
  <2>8. QED
    BY <2>4, <2>5, <2>6, <2>7
<1>2. CASE asm.id # NoFrame /\ asm.id # IdOf(f.seq)
  <2>1. Len(asm.frame) = asm.total
    BY <1>2 DEF AssemblerInv, SlotsMatchFrame, SlotsFilled
  <2> DEFINE s == StartFrame(asm, f)
  <2>2. /\ s \in AssemblerState /\ s.id = IdOf(f.seq) /\ s.remaining = 0..(s.total - 1)
        /\ s.remaining # {} /\ SlotsFilled(s)
    BY <1>0, <2>1, StartFrameFacts
  <2>3. b = [s EXCEPT !.queue = <<>>, !.waiting = FALSE, !.previous = -1,
                      !.requested = {}, !.recent = {}]
    BY <1>2 DEF Opened, SwitchToKeyFrame
  <2> HIDE DEF s, b
  <2>4. b \in AssemblerState
    <3>1. b = [id |-> s.id, size |-> s.size, total |-> s.total, frame |-> s.frame,
               remaining |-> s.remaining, previous |-> -1, requested |-> {},
               recent |-> {}, queue |-> <<>>, waiting |-> FALSE]
      BY <2>2, <2>3 DEF AssemblerState
    <3>2. QED
      BY <2>2, <3>1 DEF AssemblerState
  <2>5. /\ b.id = s.id /\ b.total = s.total /\ b.remaining = s.remaining
        /\ b.frame = s.frame /\ b.queue = <<>> /\ b.waiting = FALSE /\ b.recent = {}
    BY <2>2, <2>3 DEF AssemblerState
  <2>6. SlotsFilled(b)
    BY <2>2, <2>5 DEF SlotsFilled
  <2>7. 0 \in b.remaining
    BY <2>2, <2>5 DEF AssemblerState
  <2>8. QED
    BY <2>2, <2>4, <2>5, <2>6, <2>7 DEF AssemblerState, b
<1>3. CASE asm.id # NoFrame /\ asm.id = IdOf(f.seq)
  <2>1. b = asm
    BY <1>3 DEF Opened
  <2>2. QED
    BY <1>0, <1>3, <2>1
       DEF AssemblerInv, AssemblerTypeOK, SlotsMatchFrame, QueueHoldsOthers,
           StalledHasAsked, AssemblerState
<1>4. QED
  BY <1>1, <1>2, <1>3

\* Storing a subpacket fills its slot and no other.
LEMMA StoredFacts ==
  ASSUME AssemblerInv, NEW f \in Fragment, Usable(f), InBounds(Opened(f), f)
  PROVE  LET b == Stored(f) IN
         /\ b \in AssemblerState
         /\ b.id = IdOf(f.seq)
         /\ SlotsFilled(b)
         /\ f.rp \notin b.remaining
         /\ \A i \in DOMAIN b.queue : ~b.queue[i].rnal /\ IdOf(b.queue[i].seq) # b.id
         /\ b.waiting => b.remaining \subseteq b.requested
         /\ 0 \notin b.remaining /\ f.rp # 0 => b.remaining \subseteq b.requested
         /\ b.recent \subseteq b.requested
<1> DEFINE o == Opened(f)
           b == Stored(f)
           fr == [o.frame EXCEPT ![o.total - f.rp] = f.seq]
<1>1. /\ o \in AssemblerState /\ o.id = IdOf(f.seq) /\ o.total \in Nat
      /\ SlotsFilled(o)
      /\ \A i \in DOMAIN o.queue : ~o.queue[i].rnal /\ IdOf(o.queue[i].seq) # o.id
      /\ o.waiting \/ 0 \notin o.remaining => o.remaining \subseteq o.requested
      /\ o.recent \subseteq o.requested
  BY OpenedFacts
<1>2. f.rp \in Nat /\ f.seq \in 0..MaxFrames /\ f.seq # Zeroed
  BY SubpacketsAssumption DEF Fragment, Zeroed
<1>3. f.rp < o.total /\ Len(o.frame) = o.total /\ o.frame \in Seq(0..MaxFrames)
      /\ o.remaining \subseteq 0..(o.total - 1)
  BY <1>1 DEF InBounds, SlotsFilled, AssemblerState
<1>4. b = [o EXCEPT !.frame = fr, !.remaining = o.remaining \ {f.rp}]
  BY <1>1 DEF Stored, Store, AssemblerState
<1> HIDE DEF o, b
<1>5. fr \in Seq(0..MaxFrames) /\ Len(fr) = o.total
      /\ \A j \in 1..o.total : fr[j] = IF j = o.total - f.rp THEN f.seq ELSE o.frame[j]
  <2>1. o.total - f.rp \in 1..Len(o.frame)
    BY <1>1, <1>2, <1>3
  <2>2. QED
    BY <1>2, <1>3, <2>1, ExceptSeq
<1> HIDE DEF fr
<1>6. b = [id |-> o.id, size |-> o.size, total |-> o.total, frame |-> fr,
           remaining |-> o.remaining \ {f.rp}, previous |-> o.previous,
           requested |-> o.requested, recent |-> o.recent, queue |-> o.queue,
           waiting |-> o.waiting]
  BY <1>1, <1>4 DEF AssemblerState
<1>7. b \in AssemblerState
  BY <1>1, <1>5, <1>6 DEF AssemblerState
<1>8. SlotsFilled(b)
  <2> SUFFICES ASSUME NEW rp \in (0..(b.total - 1)) \ b.remaining
               PROVE  b.frame[b.total - rp] # Zeroed /\ IdOf(b.frame[b.total - rp]) = b.id
    BY <1>3, <1>5, <1>6 DEF SlotsFilled
  <2>1. b.total = o.total /\ b.frame = fr /\ b.id = o.id
    BY <1>6
  <2>2. o.total - rp \in 1..o.total
    BY <1>1, <2>1
  <2>3. CASE rp = f.rp
    BY <1>1, <1>2, <1>5, <2>1, <2>2, <2>3
  <2>4. CASE rp # f.rp
    <3>1. rp \in (0..(o.total - 1)) \ o.remaining
      BY <1>6, <2>4
    <3>2. o.total - rp # o.total - f.rp
      BY <1>1, <1>2, <2>4, <3>1
    <3>3. fr[o.total - rp] = o.frame[o.total - rp]
      BY <1>5, <2>2, <3>2
    <3>4. QED
      BY <1>1, <2>1, <3>1, <3>3 DEF SlotsFilled
  <2>5. QED
    BY <2>3, <2>4
<1>9. /\ b.id = o.id /\ b.queue = o.queue /\ b.waiting = o.waiting
      /\ b.requested = o.requested /\ b.remaining = o.remaining \ {f.rp}
      /\ b.recent = o.recent
  BY <1>6
<1>10. QED
  BY <1>1, <1>7, <1>8, <1>9 DEF b

\* Asking changes what was asked for and nothing else.
LEMMA AskFacts ==
  ASSUME NEW a \in AssemblerState, NEW ids \in SUBSET Nat
  PROVE  LET b == Ask(a, ids) IN
         /\ b \in AssemblerState
         /\ b.id = a.id /\ b.size = a.size /\ b.total = a.total /\ b.frame = a.frame
         /\ b.remaining = a.remaining /\ b.queue = a.queue /\ b.waiting = a.waiting
         /\ b.previous = a.previous
         /\ b.requested = a.requested \union ids /\ b.recent = a.recent \union ids
<1> DEFINE b == Ask(a, ids)
<1>1. b = [a EXCEPT !.requested = a.requested \union ids, !.recent = a.recent \union ids]
  BY DEF Ask, AssemblerState
<1> HIDE DEF b
<1>2. b = [id |-> a.id, size |-> a.size, total |-> a.total, frame |-> a.frame,
           remaining |-> a.remaining, previous |-> a.previous,
           requested |-> a.requested \union ids, recent |-> a.recent \union ids,
           queue |-> a.queue, waiting |-> a.waiting]
  BY <1>1 DEF AssemblerState
<1>3. a.requested \union ids \in SUBSET Nat /\ a.recent \union ids \in SUBSET Nat
  BY DEF AssemblerState
<1>4. b \in AssemblerState
  BY <1>2, <1>3 DEF AssemblerState
<1>5. QED
  BY <1>2, <1>4 DEF b

\* What is asked for a gap is missing.
LEMMA GapFacts ==
  ASSUME NEW a \in AssemblerState, NEW f \in Fragment
  PROVE  GapBefore(a, f) \in SUBSET Nat /\ GapBefore(a, f) \subseteq a.remaining
  BY DEF GapBefore, AssemblerState

\* After a subpacket that does not complete its frame.
LEMMA ReceivedFacts ==
  ASSUME AssemblerInv, NEW f \in Fragment, Usable(f), InBounds(Opened(f), f)
  PROVE  LET b == Received(f) IN
         /\ b \in AssemblerState
         /\ b.id = IdOf(f.seq)
         /\ b.remaining = Stored(f).remaining
         /\ SlotsFilled(b)
         /\ f.rp \notin b.remaining
         /\ \A i \in DOMAIN b.queue : ~b.queue[i].rnal /\ IdOf(b.queue[i].seq) # b.id
         /\ b.waiting => b.remaining \subseteq b.requested
         /\ 0 \notin b.remaining /\ f.rp # 0 => b.remaining \subseteq b.requested
         /\ b.recent \subseteq b.requested
<1> DEFINE s == Stored(f)
           k == Ask(s, Gap(f))
           b == Received(f)
<1>1. /\ s \in AssemblerState /\ s.id = IdOf(f.seq) /\ SlotsFilled(s)
      /\ f.rp \notin s.remaining
      /\ \A i \in DOMAIN s.queue : ~s.queue[i].rnal /\ IdOf(s.queue[i].seq) # s.id
      /\ s.waiting => s.remaining \subseteq s.requested
      /\ 0 \notin s.remaining /\ f.rp # 0 => s.remaining \subseteq s.requested
      /\ s.recent \subseteq s.requested
  BY StoredFacts
<1>2. Gap(f) \in SUBSET Nat
  BY <1>1, GapFacts DEF Gap
<1>3. /\ k \in AssemblerState
      /\ k.id = s.id /\ k.total = s.total /\ k.frame = s.frame
      /\ k.remaining = s.remaining /\ k.queue = s.queue /\ k.waiting = s.waiting
      /\ k.requested = s.requested \union Gap(f) /\ k.recent = s.recent \union Gap(f)
  BY <1>1, <1>2, AskFacts
<1>4. b = [k EXCEPT !.previous = f.rp]
  BY DEF Received
<1> HIDE DEF s, k, b
<1>5. /\ b \in AssemblerState
      /\ b.id = k.id /\ b.total = k.total /\ b.frame = k.frame
      /\ b.remaining = k.remaining /\ b.queue = k.queue /\ b.waiting = k.waiting
      /\ b.requested = k.requested /\ b.recent = k.recent
  BY <1>3, <1>4 DEF AssemblerState, Fragment
<1>6. SlotsFilled(b)
  BY <1>1, <1>3, <1>5 DEF SlotsFilled
<1>7. QED
  BY <1>1, <1>3, <1>5, <1>6 DEF b, s

\* What is sent is a list of requests.
LEMMA SendType ==
  ASSUME requests \in Seq(RequestType), NEW s \in Seq(RequestType), Send(s)
  PROVE  requests' \in Seq(RequestType)
  BY ConcatProperties DEF Send

\* A datagram for a set of ids is a request.
LEMMA AskingType ==
  ASSUME NEW id \in 0..(FrameIds - 1), NEW size \in FrameSizes \union {0},
         NEW ids \in SUBSET Nat
  PROVE  Asking(id, size, ids) \in Seq(RequestType)
<1>1. [id |-> id, size |-> size, ids |-> ids] \in RequestType
  BY DEF RequestType
<1>2. QED
  BY <1>1 DEF Asking

-------------------------------------------------------------------------------
(* The steps of the assembler preserve the invariant.                          *)

\* Postponing a subpacket of another frame keeps the assembler's invariant.
LEMMA QueueFragmentInv ==
  ASSUME AssemblerInv, NEW f \in Fragment, NEW rest \in Seq(Fragment),
         QueueFragment(f, rest)
  PROVE  AssemblerInv'
<1> DEFINE k == Ask(asm, Overdue(asm))
<1>1. /\ asm \in AssemblerState /\ asm.id # NoFrame /\ asm.id # IdOf(f.seq) /\ ~f.rnal
      /\ SlotsFilled(asm) /\ asm.remaining # {}
      /\ \A i \in DOMAIN asm.queue : ~asm.queue[i].rnal /\ IdOf(asm.queue[i].seq) # asm.id
  BY DEF AssemblerInv, AssemblerTypeOK, SlotsMatchFrame, QueueHoldsOthers,
         QueueFragment, Postponed
<1>2. Overdue(asm) \in SUBSET Nat
  BY <1>1 DEF Overdue, AssemblerState
<1>3. /\ k \in AssemblerState
      /\ k.id = asm.id /\ k.total = asm.total /\ k.frame = asm.frame
      /\ k.remaining = asm.remaining /\ k.queue = asm.queue
      /\ k.requested = asm.requested \union Overdue(asm)
      /\ k.recent = asm.recent \union Overdue(asm)
  BY <1>1, <1>2, AskFacts
<1>4. asm' = [k EXCEPT !.queue = Append(asm.queue, f), !.waiting = TRUE]
  BY <1>3 DEF QueueFragment
<1>5. requests' \in Seq(RequestType)
  <2>1. asm.id \in 0..(FrameIds - 1) /\ asm.size \in FrameSizes \union {0}
    BY <1>1 DEF AssemblerState
  <2>2. Asking(asm.id, asm.size, Overdue(asm)) \in Seq(RequestType)
    BY <1>2, <2>1, AskingType
  <2>3. requests \in Seq(RequestType) /\ Send(Asking(asm.id, asm.size, Overdue(asm)))
    BY DEF AssemblerInv, AssemblerTypeOK, QueueFragment
  <2>4. QED
    BY <2>2, <2>3, SendType
<1> HIDE DEF k
<1>6. /\ Append(asm.queue, f) \in Seq(Fragment)
      /\ \A i \in DOMAIN Append(asm.queue, f) :
            /\ ~Append(asm.queue, f)[i].rnal
            /\ IdOf(Append(asm.queue, f)[i].seq) # asm.id
  BY <1>1 DEF AssemblerState
<1>7. /\ asm' \in AssemblerState
      /\ asm'.id = asm.id /\ asm'.total = asm.total /\ asm'.frame = asm.frame
      /\ asm'.remaining = asm.remaining /\ asm'.queue = Append(asm.queue, f)
      /\ asm'.requested = asm.requested \union Overdue(asm)
      /\ asm'.recent = asm.recent \union Overdue(asm)
  <2>1. asm' = [id |-> k.id, size |-> k.size, total |-> k.total, frame |-> k.frame,
                remaining |-> k.remaining, previous |-> k.previous,
                requested |-> k.requested, recent |-> k.recent,
                queue |-> Append(asm.queue, f), waiting |-> TRUE]
    BY <1>3, <1>4 DEF AssemblerState
  <2>2. QED
    BY <1>3, <1>6, <2>1 DEF AssemblerState
<1>8. asm.recent \subseteq asm.requested /\ asm.remaining \subseteq asm'.requested
  BY <1>7 DEF AssemblerInv, AssemblerTypeOK, Overdue
<1>9. AssemblerTypeOK'
  BY <1>5, <1>7, <1>8
     DEF AssemblerInv, AssemblerTypeOK, QueueFragment, Seen, Fragment
<1>10. SlotsMatchFrame'
  BY <1>1, <1>7 DEF SlotsMatchFrame, SlotsFilled
<1>11. QueueHoldsOthers'
  BY <1>1, <1>6, <1>7 DEF QueueHoldsOthers
<1>12. StalledHasAsked'
  BY <1>1, <1>7, <1>8 DEF StalledHasAsked
<1>13. QED
  BY <1>9, <1>10, <1>11, <1>12 DEF AssemblerInv

\* Requests go out for a gap or at the end of a frame.
LEMMA SendTwo ==
  ASSUME AssemblerInv, NEW f \in Fragment, NEW a \in AssemblerState,
         NEW g \in SUBSET Nat, NEW u \in SUBSET Nat, a.id = IdOf(f.seq),
         Send(Asking(IdOf(f.seq), f.size, g) \o Asking(a.id, a.size, u))
  PROVE  requests' \in Seq(RequestType)
<1>1. IdOf(f.seq) \in 0..(FrameIds - 1) /\ f.size \in FrameSizes \union {0}
  BY IdType DEF Fragment
<1>2. a.id \in 0..(FrameIds - 1) /\ a.size \in FrameSizes \union {0}
  BY <1>1 DEF AssemblerState
<1>3. /\ Asking(IdOf(f.seq), f.size, g) \in Seq(RequestType)
      /\ Asking(a.id, a.size, u) \in Seq(RequestType)
  BY <1>1, <1>2, AskingType
<1>4. requests \in Seq(RequestType)
  BY DEF AssemblerInv, AssemblerTypeOK
<1>5. QED
  BY <1>3, <1>4, ConcatProperties, SendType

\* What the player has seen arriving stays a set of deployed frames.
LEMMA TypeKept ==
  ASSUME AssemblerInv, NEW f \in Fragment, Seen(f),
         asm' \in AssemblerState, asm'.recent \subseteq asm'.requested,
         work' \in Seq(Fragment), requests' \in Seq(RequestType),
         UNCHANGED <<assembled, panicked>>
  PROVE  AssemblerTypeOK'
<1>1. assembled' \in Seq(Seq(0..MaxFrames)) /\ panicked' \in BOOLEAN
  BY DEF AssemblerInv, AssemblerTypeOK
<1>2. arrived' \subseteq 1..MaxFrames
  BY DEF AssemblerInv, AssemblerTypeOK, Seen, Fragment
<1>3. QED
  BY <1>1, <1>2 DEF AssemblerTypeOK

\* Storing a subpacket in an incomplete frame keeps it.
LEMMA StoreFragmentInv ==
  ASSUME AssemblerInv, NEW f \in Fragment, NEW rest \in Seq(Fragment),
         StoreFragment(f, rest)
  PROVE  AssemblerInv'
<1>1. /\ Usable(f) /\ InBounds(Opened(f), f) /\ f.rp # 0 /\ Stored(f).remaining # {}
      /\ asm' = Received(f)
  BY DEF StoreFragment
<1>2. /\ asm' \in AssemblerState /\ asm'.id = IdOf(f.seq)
      /\ asm'.remaining = Stored(f).remaining /\ SlotsFilled(asm')
      /\ \A i \in DOMAIN asm'.queue : ~asm'.queue[i].rnal /\ IdOf(asm'.queue[i].seq) # asm'.id
      /\ asm'.waiting => asm'.remaining \subseteq asm'.requested
      /\ 0 \notin asm'.remaining => asm'.remaining \subseteq asm'.requested
      /\ asm'.recent \subseteq asm'.requested
  BY <1>1, ReceivedFacts
<1>3. asm'.id # NoFrame
  BY <1>2, IdType DEF Fragment, NoFrame
<1>4. requests' \in Seq(RequestType)
  <2>1. Stored(f) \in AssemblerState
    BY <1>1, StoredFacts
  <2>2. Gap(f) \in SUBSET Nat
    BY <2>1, GapFacts DEF Gap
  <2>3. AskingGap(f) \in Seq(RequestType)
    BY <2>2, IdType, AskingType, SMTT(30) DEF AskingGap, Fragment
  <2>4. requests \in Seq(RequestType) /\ Send(AskingGap(f))
    BY DEF StoreFragment, AssemblerInv, AssemblerTypeOK
  <2>5. QED
    BY <2>3, <2>4, SendType
<1>5. AssemblerTypeOK'
  <2>1. Seen(f) /\ work' = rest /\ UNCHANGED <<assembled, panicked>>
    BY DEF StoreFragment
  <2>2. QED
    BY <1>2, <1>4, <2>1, TypeKept
<1>6. SlotsMatchFrame'
  BY <1>1, <1>2, <1>3 DEF SlotsMatchFrame, SlotsFilled
<1>7. QueueHoldsOthers'
  BY <1>2, <1>3 DEF QueueHoldsOthers
<1>8. StalledHasAsked'
  BY <1>1, <1>2 DEF StalledHasAsked
<1>9. QED
  BY <1>5, <1>6, <1>7, <1>8 DEF AssemblerInv

\* Storing the last subpacket while others are missing asks for them all.
LEMMA StoreLastFragmentInv ==
  ASSUME AssemblerInv, NEW f \in Fragment, NEW rest \in Seq(Fragment),
         StoreLastFragment(f, rest)
  PROVE  AssemblerInv'
<1> DEFINE r == Received(f)
           u == Unrequested(r)
           k == Ask(r, u)
<1>1. /\ Usable(f) /\ InBounds(Opened(f), f) /\ Stored(f).remaining # {}
      /\ asm' = [k EXCEPT !.waiting = TRUE]
  BY DEF StoreLastFragment
<1>2. /\ r \in AssemblerState /\ r.id = IdOf(f.seq)
      /\ r.remaining = Stored(f).remaining /\ SlotsFilled(r)
      /\ \A i \in DOMAIN r.queue : ~r.queue[i].rnal /\ IdOf(r.queue[i].seq) # r.id
      /\ r.recent \subseteq r.requested
  BY <1>1, ReceivedFacts
<1>3. u \in SUBSET Nat /\ r.remaining \subseteq r.requested \union u
  BY <1>2 DEF Unrequested, AssemblerState
<1>4. /\ k \in AssemblerState
      /\ k.id = r.id /\ k.size = r.size /\ k.total = r.total /\ k.frame = r.frame
      /\ k.remaining = r.remaining /\ k.queue = r.queue
      /\ k.requested = r.requested \union u /\ k.recent = r.recent \union u
  BY <1>2, <1>3, AskFacts
<1> HIDE DEF r, u, k
<1>5. /\ asm' \in AssemblerState /\ asm'.waiting = TRUE
      /\ asm'.id = k.id /\ asm'.size = k.size /\ asm'.total = k.total
      /\ asm'.frame = k.frame /\ asm'.remaining = k.remaining /\ asm'.queue = k.queue
      /\ asm'.requested = k.requested /\ asm'.recent = k.recent
  BY <1>1, <1>4 DEF AssemblerState
<1>6. asm'.id # NoFrame
  BY <1>2, <1>4, <1>5, IdType DEF Fragment, NoFrame
<1>7. requests' \in Seq(RequestType)
  <2>1. Stored(f) \in AssemblerState
    BY <1>1, StoredFacts
  <2>2. Gap(f) \in SUBSET Nat
    BY <2>1, GapFacts DEF Gap
  <2>3. Send(Asking(IdOf(f.seq), f.size, Gap(f)) \o Asking(asm'.id, asm'.size, u))
    BY DEF StoreLastFragment, AskingGap, u, r
  <2>4. asm'.id = IdOf(f.seq)
    BY <1>2, <1>4, <1>5
  <2>5. QED
    BY <1>3, <1>5, <2>2, <2>3, <2>4, SendTwo
<1>8. AssemblerTypeOK'
  <2>1. Seen(f) /\ work' = rest /\ UNCHANGED <<assembled, panicked>>
    BY DEF StoreLastFragment
  <2>2. asm'.recent \subseteq asm'.requested
    BY <1>2, <1>4, <1>5
  <2>3. QED
    BY <1>5, <1>7, <2>1, <2>2, TypeKept
<1>9. SlotsMatchFrame'
  BY <1>1, <1>2, <1>4, <1>5, <1>6, SMTT(30) DEF SlotsMatchFrame, SlotsFilled
<1>10. QueueHoldsOthers'
  BY <1>2, <1>4, <1>5, <1>6 DEF QueueHoldsOthers
<1>11. StalledHasAsked'
  BY <1>1, <1>2, <1>3, <1>4, <1>5 DEF StalledHasAsked
<1>12. QED
  BY <1>8, <1>9, <1>10, <1>11 DEF AssemblerInv

\* Between two frames the assembler is as it was made.
LEMMA IdleFacts ==
  /\ Idle \in AssemblerState /\ Idle.id = NoFrame /\ Idle.queue = <<>>
  /\ Idle.recent \subseteq Idle.requested /\ Idle.waiting = FALSE
<1>1. /\ <<>> \in Seq(0..MaxFrames) /\ <<>> \in Seq(Fragment)
  OBVIOUS
<1>2. QED
  BY <1>1 DEF Idle, AssemblerState, NoFrame

\* Completing a frame leaves an idle assembler.
LEMMA CompleteFrameInv ==
  ASSUME AssemblerInv, NEW f \in Fragment, NEW rest \in Seq(Fragment),
         CompleteFrame(f, rest)
  PROVE  AssemblerInv'
<1>1. /\ Usable(f) /\ InBounds(Opened(f), f) /\ asm' = Idle
      /\ assembled' = Append(assembled, Stored(f).frame)
      /\ work' = Stored(f).queue \o rest
  BY DEF CompleteFrame
<1>2. Stored(f).frame \in Seq(0..MaxFrames) /\ Stored(f).queue \in Seq(Fragment)
  BY <1>1, StoredFacts DEF AssemblerState
<1>3. work' \in Seq(Fragment)
  BY <1>1, <1>2, ConcatProperties
<1>4. assembled' \in Seq(Seq(0..MaxFrames))
  BY <1>1, <1>2, AppendProperties DEF AssemblerInv, AssemblerTypeOK
<1>5. AssemblerTypeOK'
  BY <1>1, <1>3, <1>4, IdleFacts
     DEF AssemblerInv, AssemblerTypeOK, CompleteFrame, Seen, Fragment
<1>6. SlotsMatchFrame' /\ QueueHoldsOthers' /\ StalledHasAsked'
  BY <1>1, IdleFacts DEF SlotsMatchFrame, QueueHoldsOthers, StalledHasAsked
<1>7. QED
  BY <1>5, <1>6 DEF AssemblerInv

\* One call of assemble_packet, whatever comes.
LEMMA PacketInv ==
  ASSUME AssemblerInv, NEW f \in Fragment, NEW rest \in Seq(Fragment), Packet(f, rest)
  PROVE  AssemblerInv'
<1>1. CASE SkipFragment(f, rest)
  BY <1>1 DEF SkipFragment, AssemblerInv, AssemblerTypeOK, SlotsMatchFrame, SlotsFilled,
              QueueHoldsOthers, StalledHasAsked
<1>2. CASE QueueFragment(f, rest)
  BY <1>2, QueueFragmentInv
<1>3. CASE StoreFragment(f, rest)
  BY <1>3, StoreFragmentInv
<1>4. CASE StoreLastFragment(f, rest)
  BY <1>4, StoreLastFragmentInv
<1>5. CASE CompleteFrame(f, rest)
  BY <1>5, CompleteFrameInv
<1>6. CASE Panic(f)
  BY <1>6 DEF Panic, AssemblerInv, AssemblerTypeOK, SlotsMatchFrame, SlotsFilled,
              QueueHoldsOthers, StalledHasAsked
<1>7. QED
  BY <1>1, <1>2, <1>3, <1>4, <1>5, <1>6 DEF Packet

-------------------------------------------------------------------------------
(* Types and the assembler's invariant, for every step of the whole.           *)

\* At first the assembler is idle and nothing was sent.
LEMMA InitInv == Init => TypeOK /\ AssemblerInv
<1> SUFFICES ASSUME Init PROVE TypeOK /\ AssemblerInv
  OBVIOUS
<1>1. asm = Idle /\ work = <<>> /\ assembled = <<>> /\ arrived = {} /\ panicked = FALSE
      /\ requests = <<>> /\ frames = <<>> /\ unsent = 0 /\ cache = {} /\ net = <<>>
  BY DEF Init, AssemblerInit
<1>2. AssemblerTypeOK
  <2>1. /\ <<>> \in Seq(Fragment) /\ <<>> \in Seq(Seq(0..MaxFrames))
        /\ <<>> \in Seq(RequestType)
    BY EmptySeq
  <2>2. asm \in AssemblerState /\ asm.recent \subseteq asm.requested
    BY <1>1, IdleFacts
  <2>3. QED
    BY <1>1, <2>1, <2>2 DEF AssemblerTypeOK
<1>3. SlotsMatchFrame /\ QueueHoldsOthers /\ StalledHasAsked
  BY <1>1, IdleFacts DEF SlotsMatchFrame, QueueHoldsOthers, StalledHasAsked
<1>4. TypeOK
  <2>1. /\ <<>> \in Seq(Fragment) /\ <<>> \in Seq([size : FrameSizes, key : BOOLEAN])
        /\ Len(<<>>) = 0
    BY EmptySeq
  <2>2. QED
    BY <1>1, <1>2, <2>1, SubpacketsAssumption DEF TypeOK
<1>5. QED
  BY <1>2, <1>3, <1>4 DEF AssemblerInv

\* A list of datagrams put on the network leaves it well typed.
LEMMA TransmitType ==
  ASSUME net \in Seq(Fragment), NEW s \in Seq(Fragment), Transmit(s)
  PROVE  net' \in Seq(Fragment)
  BY ConcatProperties DEF Transmit

\* Steps that leave the player's variables alone leave its invariant alone.
LEMMA AssemblerUnchanged ==
  ASSUME AssemblerInv, UNCHANGED <<asm, work, assembled, arrived, panicked>>,
         requests' \in Seq(RequestType)
  PROVE  AssemblerInv'
  BY DEF AssemblerInv, AssemblerTypeOK, SlotsMatchFrame, SlotsFilled, QueueHoldsOthers,
         StalledHasAsked

\* Requests that were answered or lost leave requests.
LEMMA RequestsTail ==
  ASSUME AssemblerInv, requests # <<>>
  PROVE  Tail(requests) \in Seq(RequestType)
  BY HeadTailProperties DEF AssemblerInv, AssemblerTypeOK

\* The frame that is being sent is a deployed one.
LEMMA LastFrameType ==
  ASSUME TypeOK, Len(frames) > 0
  PROVE  /\ Len(frames) \in 1..MaxFrames
         /\ frames[Len(frames)] \in [size : FrameSizes, key : BOOLEAN]
<1>1. frames \in Seq([size : FrameSizes, key : BOOLEAN]) /\ Len(frames) <= MaxFrames
  BY DEF TypeOK
<1>2. Len(frames) \in Nat
  BY <1>1
<1>3. Len(frames) \in 1..Len(frames)
  BY <1>2
<1>4. frames[Len(frames)] \in [size : FrameSizes, key : BOOLEAN]
  BY <1>1, <1>3, ElementOfSeq
<1>5. Len(frames) \in 1..MaxFrames
  BY <1>1, <1>2, SubpacketsAssumption
<1>6. QED
  BY <1>4, <1>5

\* What the deployer sends next is a subpacket.
LEMMA NextFragmentType ==
  ASSUME TypeOK, unsent > 0, Len(frames) > 0
  PROVE  NextFragment \in Fragment
<1>1. unsent - 1 \in Nat
  BY DEF TypeOK
<1>2. QED
  BY <1>1, LastFrameType DEF NextFragment, Fragment

\* Something is left to be sent only of a deployed frame.
UnsentOfFrame ==
  unsent > 0 => frames # <<>> /\ unsent <= SubpacketCount(frames[Len(frames)].size)

\* Answers in any order are a sequence of subpackets.
LEMMA ArrangementType ==
  ASSUME NEW S, NEW s \in Arrangements(S)
  PROVE  s \in Seq(S) /\ \A i \in DOMAIN s : s[i] \in S
<1>1. PICK n \in 0..Cardinality(S) : s \in [1..n -> S]
  BY DEF Arrangements
<1>2. n \in Nat
  OBVIOUS
<1>3. QED
  BY <1>1, <1>2, FunctionIsSeq

\* A network that delivered a datagram holds the others.
LEMMA RemoveAtType ==
  ASSUME NEW S, NEW s \in Seq(S), NEW i \in 1..Len(s)
  PROVE  /\ RemoveAt(s, i) \in Seq(S)
         /\ \A j \in DOMAIN RemoveAt(s, i) : \E k \in DOMAIN s : RemoveAt(s, i)[j] = s[k]
<1> DEFINE l == SubSeq(s, 1, i - 1)
           r == SubSeq(s, i + 1, Len(s))
<1>1. /\ l \in Seq(S) /\ Len(l) = i - 1
      /\ \A j \in 1..(i - 1) : l[j] = s[j]
  BY SubSeqProperties, ElementOfSeq
<1>2. /\ r \in Seq(S) /\ Len(r) = Len(s) - i
      /\ \A j \in 1..(Len(s) - i) : r[j] = s[i + j]
  BY SubSeqProperties, ElementOfSeq
<1>3. RemoveAt(s, i) = l \o r
  BY DEF RemoveAt
<1> HIDE DEF l, r
<1>4. /\ l \o r \in Seq(S) /\ Len(l \o r) = Len(l) + Len(r)
      /\ \A j \in 1..(Len(l) + Len(r)) :
           (l \o r)[j] = IF j <= Len(l) THEN l[j] ELSE r[j - Len(l)]
  BY <1>1, <1>2, ConcatProperties
<1>5. Len(s) \in Nat /\ i \in Int /\ 1 <= i /\ i <= Len(s) /\ Len(l) + Len(r) = Len(s) - 1
  BY <1>1, <1>2
<1>6. ASSUME NEW j \in 1..(Len(s) - 1)
      PROVE  \E k \in 1..Len(s) : (l \o r)[j] = s[k]
  <2>1. CASE j <= i - 1
    <3>1. (l \o r)[j] = s[j]
      BY <1>1, <1>4, <1>5, <2>1
    <3>2. QED
      BY <1>5, <3>1
  <2>2. CASE j > i - 1
    <3>1. j - (i - 1) \in 1..(Len(s) - i)
      BY <1>5, <2>2
    <3>2. (l \o r)[j] = r[j - (i - 1)]
      BY <1>1, <1>4, <1>5, <2>2
    <3>3. r[j - (i - 1)] = s[i + (j - (i - 1))]
      BY <1>2, <3>1
    <3>4. j + 1 \in 1..Len(s) /\ i + (j - (i - 1)) = j + 1
      BY <1>5, <2>2
    <3>5. QED
      BY <3>2, <3>3, <3>4
  <2>3. QED
    BY <1>5, <2>1, <2>2
<1>7. DOMAIN (l \o r) = 1..(Len(s) - 1) /\ DOMAIN s = 1..Len(s)
  BY <1>4, <1>5, LenProperties
<1>8. QED
  BY <1>3, <1>4, <1>6, <1>7, Zenon

\* The whole inductive invariant.
Inv == TypeOK /\ AssemblerInv /\ UnsentOfFrame

\* A new frame starts the countdown from its number of subpackets.
LEMMA DeployFrameInv ==
  ASSUME Inv, NEW size \in FrameSizes, NEW key \in BOOLEAN, DeployFrame(size, key)
  PROVE  Inv'
<1> DEFINE rec == [size |-> size, key |-> key]
           T == [size : FrameSizes, key : BOOLEAN]
<1>1. frames \in Seq(T) /\ Len(frames) < MaxFrames /\ rec \in T
      /\ frames' = Append(frames, rec) /\ unsent' = SubpacketCount(size)
      /\ UNCHANGED <<cache, net, assemblerVars>>
  BY DEF Inv, TypeOK, DeployFrame
<1> HIDE DEF T, rec
<1>2. /\ frames' \in Seq(T) /\ frames' # <<>> /\ Len(frames') = Len(frames) + 1
      /\ frames'[Len(frames')] = rec
  BY <1>1, AppendProperties
<1>3. AssemblerInv'
  BY <1>1, AssemblerUnchanged DEF Inv, AssemblerInv, AssemblerTypeOK, assemblerVars
<1>4. Len(frames') <= MaxFrames
  <2>1. Len(frames) \in Nat
    BY <1>1
  <2>2. QED
    BY <1>1, <1>2, <2>1, SubpacketsAssumption
<1>5. unsent' \in Nat
  BY <1>1, CountType
<1>6. TypeOK'
  BY <1>1, <1>2, <1>3, <1>4, <1>5 DEF Inv, TypeOK, AssemblerInv, T
<1>7. UnsentOfFrame'
  BY <1>1, <1>2, <1>5 DEF UnsentOfFrame, rec
<1>8. QED
  BY <1>3, <1>6, <1>7 DEF Inv

\* Sending a subpacket counts down and caches it.
LEMMA BroadcastSubpacketInv ==
  ASSUME Inv, NEW copies \in 0..MaxCopies, BroadcastSubpacket(copies)
  PROVE  Inv'
<1>1. unsent > 0 /\ frames # <<>> /\ unsent' = unsent - 1
      /\ unsent <= SubpacketCount(frames[Len(frames)].size)
      /\ UNCHANGED <<frames, assemblerVars>>
  BY DEF Inv, UnsentOfFrame, BroadcastSubpacket
<1>2. Len(frames) > 0
  BY <1>1, EmptySeq DEF Inv, TypeOK
<1>3. NextFragment \in Fragment
  BY <1>1, <1>2, NextFragmentType DEF Inv
<1> DEFINE s == [i \in 1..copies |-> NextFragment]
<1>4. s \in Seq(Fragment)
  <2>1. copies \in Nat /\ s \in [1..copies -> Fragment]
    BY <1>3
  <2> HIDE DEF s
  <2>2. QED
    BY <2>1, FunctionIsSeq
<1>5. net' \in Seq(Fragment)
  <2>1. Transmit(s)
    BY DEF BroadcastSubpacket
  <2> HIDE DEF s
  <2>2. QED
    BY <1>4, <2>1, TransmitType DEF Inv, TypeOK
<1>6. cache' \subseteq Fragment
  <2>1. [NextFragment EXCEPT !.rnal = TRUE] \in Fragment
    BY <1>3 DEF Fragment
  <2>2. QED
    BY <2>1 DEF Inv, TypeOK, BroadcastSubpacket, Cached
<1>7. unsent' \in Nat
  BY <1>1 DEF Inv, TypeOK
<1>8. AssemblerInv'
  BY <1>1, AssemblerUnchanged DEF Inv, AssemblerInv, AssemblerTypeOK, assemblerVars
<1>9. TypeOK'
  BY <1>1, <1>5, <1>6, <1>7, <1>8 DEF Inv, TypeOK, AssemblerInv
<1>10. UnsentOfFrame'
  <2>1. SubpacketCount(frames[Len(frames)].size) \in Nat
    <3>1. frames[Len(frames)] \in [size : FrameSizes, key : BOOLEAN]
      BY <1>2, LastFrameType DEF Inv
    <3>2. QED
      BY <3>1, CountType
  <2>2. unsent \in Nat
    BY DEF Inv, TypeOK
  <2>3. QED
    BY <1>1, <2>1, <2>2 DEF UnsentOfFrame
<1>11. QED
  BY <1>8, <1>9, <1>10 DEF Inv

\* Answering a request touches neither assembler nor countdown.
LEMMA RetransmitFrameInv ==
  ASSUME Inv, RetransmitFrame
  PROVE  Inv'
<1>1. requests # <<>> /\ requests' = Tail(requests)
      /\ UNCHANGED <<asm, work, assembled, arrived, panicked, serverVars>>
  BY DEF RetransmitFrame
<1>2. PICK s \in Arrangements(Answers(Head(requests))) : Transmit(s)
  BY DEF RetransmitFrame
<1>3. s \in Seq(Fragment)
  <2>1. s \in Seq(Answers(Head(requests)))
    BY <1>2, ArrangementType
  <2>2. Answers(Head(requests)) \subseteq Fragment
    BY DEF Answers, Inv, TypeOK
  <2>3. QED
    BY <2>1, <2>2, SeqMonotonic
<1>4. net' \in Seq(Fragment)
  BY <1>2, <1>3, TransmitType DEF Inv, TypeOK
<1>5. AssemblerInv'
  BY <1>1, RequestsTail, AssemblerUnchanged DEF Inv
<1>6. QED
  BY <1>1, <1>4, <1>5 DEF Inv, TypeOK, AssemblerInv, UnsentOfFrame, serverVars

\* A fragment taken off the network or off the work list is fed to the assembler.
LEMMA FedInv ==
  ASSUME Inv, NEW f \in Fragment, NEW rest \in Seq(Fragment), Packet(f, rest),
         net' \in Seq(Fragment), UNCHANGED serverVars
  PROVE  Inv'
<1>1. AssemblerInv'
  BY PacketInv DEF Inv
<1>2. QED
  BY <1>1 DEF Inv, TypeOK, AssemblerInv, UnsentOfFrame, serverVars

\* Feeding a datagram from the network.
LEMMA ReceiveFragmentInv ==
  ASSUME Inv, NEW i \in 1..Window, ReceiveFragment(i)
  PROVE  Inv'
<1>1. i \in 1..Len(net) /\ net \in Seq(Fragment)
  <2>1. net \in Seq(Fragment)
    BY DEF Inv, TypeOK
  <2>2. Len(net) \in Nat /\ i <= Len(net) /\ i \in Nat /\ i >= 1
    BY <2>1 DEF ReceiveFragment
  <2>3. QED
    BY <2>1, <2>2
<1>2. net[i] \in Fragment /\ net' \in Seq(Fragment)
  BY <1>1, ElementOfSeq, RemoveAtType DEF ReceiveFragment
<1>3. Packet(net[i], <<>>) /\ UNCHANGED serverVars /\ <<>> \in Seq(Fragment)
  BY DEF ReceiveFragment
<1>4. QED
  BY <1>2, <1>3, FedInv

\* Feeding a postponed subpacket.
LEMMA RequeueInv ==
  ASSUME Inv, Requeue
  PROVE  Inv'
<1>1. work # <<>> /\ Packet(Head(work), Tail(work)) /\ UNCHANGED <<serverVars, net>>
  BY DEF Requeue, FeedQueued
<1>2. /\ Head(work) \in Fragment /\ Tail(work) \in Seq(Fragment)
      /\ net' \in Seq(Fragment)
  BY <1>1, HeadTailProperties DEF Inv, TypeOK, AssemblerTypeOK
<1>3. QED
  BY <1>1, <1>2, FedInv

\* An old request is still a request.
LEMMA ExpireInv ==
  ASSUME Inv, NEW rp \in asm.recent, Expire(rp)
  PROVE  Inv'
<1>1. /\ asm \in AssemblerState /\ asm.recent \subseteq asm.requested
      /\ asm' = [asm EXCEPT !.recent = asm.recent \ {rp}]
      /\ UNCHANGED <<work, assembled, arrived, panicked, requests, serverVars, net>>
  BY DEF Inv, AssemblerInv, AssemblerTypeOK, Expire, RequestExpires
<1>2. /\ asm' \in AssemblerState
      /\ asm'.id = asm.id /\ asm'.total = asm.total /\ asm'.frame = asm.frame
      /\ asm'.remaining = asm.remaining /\ asm'.queue = asm.queue
      /\ asm'.waiting = asm.waiting /\ asm'.requested = asm.requested
      /\ asm'.recent = asm.recent \ {rp}
  BY <1>1 DEF AssemblerState
<1>3. asm.id # NoFrame
  BY <1>1 DEF Inv, AssemblerInv, SlotsMatchFrame, Idle
<1>4. AssemblerInv'
  BY <1>1, <1>2, <1>3 DEF Inv, AssemblerInv, AssemblerTypeOK, SlotsMatchFrame, SlotsFilled,
                          QueueHoldsOthers, StalledHasAsked
<1>5. QED
  BY <1>1, <1>4 DEF Inv, TypeOK, AssemblerInv, UnsentOfFrame, serverVars

\* Every step keeps the invariant.
LEMMA NextInv == Inv /\ [Next]_vars => Inv'
<1> SUFFICES ASSUME Inv, [Next]_vars PROVE Inv'
  OBVIOUS
<1>1. ASSUME NEW size \in FrameSizes, NEW key \in BOOLEAN, DeployFrame(size, key)
      PROVE  Inv'
  BY <1>1, DeployFrameInv
<1>2. ASSUME NEW copies \in 0..MaxCopies, BroadcastSubpacket(copies)
      PROVE  Inv'
  BY <1>2, BroadcastSubpacketInv
<1>3. CASE RetransmitFrame
  BY <1>3, RetransmitFrameInv
<1>4. ASSUME NEW old \in 1..MaxFrames, DrainSubpacketCache(old)
      PROVE  Inv'
  BY <1>4 DEF Inv, TypeOK, AssemblerInv, AssemblerTypeOK, UnsentOfFrame, SlotsMatchFrame,
              SlotsFilled, QueueHoldsOthers, StalledHasAsked, DrainSubpacketCache,
              assemblerVars
<1>5. CASE LoseRequest
  <2>1. AssemblerInv'
    BY <1>5, RequestsTail, AssemblerUnchanged DEF Inv, LoseRequest
  <2>2. QED
    BY <1>5, <2>1 DEF Inv, TypeOK, AssemblerInv, UnsentOfFrame, LoseRequest, serverVars
<1>6. ASSUME NEW i \in 1..Window, ReceiveFragment(i)
      PROVE  Inv'
  BY <1>6, ReceiveFragmentInv
<1>7. CASE Requeue
  BY <1>7, RequeueInv
<1>8. ASSUME NEW rp \in asm.recent, Expire(rp)
      PROVE  Inv'
  BY <1>8, ExpireInv
<1>9. CASE UNCHANGED vars
  BY <1>9 DEF vars, assemblerVars, serverVars, Inv, TypeOK, AssemblerInv, AssemblerTypeOK,
              UnsentOfFrame, SlotsMatchFrame, SlotsFilled, QueueHoldsOthers, StalledHasAsked
<1>10. QED
  BY <1>1, <1>2, <1>3, <1>4, <1>5, <1>6, <1>7, <1>8, <1>9 DEF Next

\* The invariant holds throughout.
LEMMA Invariance == Spec => []Inv
<1>1. Init => Inv
  BY InitInv DEF Inv, UnsentOfFrame, Init
<1>2. QED
  BY <1>1, NextInv, PTL DEF Spec

\* Every variable of the assembler, the server and the network keeps its type.
THEOREM TypeCorrect == Spec => []TypeOK
  BY Invariance, PTL DEF Inv

\* The frame under assembly holds only what came with its id, each in its place.
THEOREM SlotsCorrect == Spec => []SlotsMatchFrame
  BY Invariance, PTL DEF Inv, AssemblerInv

\* No subpacket of the frame in the way waits behind it.
THEOREM QueueCorrect == Spec => []QueueHoldsOthers
  BY Invariance, PTL DEF Inv, AssemblerInv

\* An assembler that waits has asked for all it waits for.
THEOREM StalledCorrect == Spec => []StalledHasAsked
  BY Invariance, PTL DEF Inv, AssemblerInv

-------------------------------------------------------------------------------
(* While no frame id comes round again: whole frames, and no panic.            *)

\* Ids are the sequence numbers then.
LEMMA IdIsSeq ==
  ASSUME MaxFrames < FrameIds, NEW k \in 1..MaxFrames
  PROVE  IdOf(k) = k
  BY SubpacketsAssumption DEF IdOf

\* What assembling f leaves of the extent and the queue.
LEMMA ExtentFacts ==
  ASSUME AssemblerInv, NEW f \in Fragment, Usable(f)
  PROVE  /\ Opened(f).queue = asm.queue \/ Opened(f).queue = <<>>
         /\ \/ /\ Opened(f).size = f.size
               /\ Opened(f).total = SubpacketCount(f.size)
            \/ /\ asm.id = IdOf(f.seq) /\ asm.id # NoFrame
               /\ Opened(f).size = asm.size /\ Opened(f).total = asm.total
<1>0. asm \in AssemblerState
  BY DEF AssemblerInv, AssemblerTypeOK
<1>1. CASE asm.id = NoFrame
  <2>1. asm = Idle
    BY <1>1 DEF AssemblerInv, SlotsMatchFrame
  <2>2. Len(asm.frame) = asm.total
    BY <2>1 DEF Idle
  <2>3. Opened(f) = StartFrame(asm, f)
    BY <1>1 DEF Opened
  <2>4. QED
    BY <1>0, <2>2, <2>3, StartFrameFacts
<1>2. CASE asm.id # NoFrame /\ asm.id # IdOf(f.seq)
  <2>1. Len(asm.frame) = asm.total
    BY <1>2 DEF AssemblerInv, SlotsMatchFrame, SlotsFilled
  <2> DEFINE s == StartFrame(asm, f)
             b == Opened(f)
  <2>2. s \in AssemblerState /\ s.size = f.size /\ s.total = SubpacketCount(f.size)
    BY <1>0, <2>1, StartFrameFacts
  <2>3. b = [s EXCEPT !.queue = <<>>, !.waiting = FALSE, !.previous = -1,
                      !.requested = {}, !.recent = {}]
    BY <1>2 DEF Opened, SwitchToKeyFrame
  <2> HIDE DEF s, b
  <2>4. b.queue = <<>> /\ b.size = s.size /\ b.total = s.total
    BY <2>2, <2>3 DEF AssemblerState
  <2>5. QED
    BY <2>2, <2>4 DEF b
<1>3. CASE asm.id # NoFrame /\ asm.id = IdOf(f.seq)
  BY <1>3 DEF Opened
<1>4. QED
  BY <1>1, <1>2, <1>3

\* Storing f and asking for the gap leave queue and extent as they were opened.
LEMMA KeptByReceived ==
  ASSUME AssemblerInv, NEW f \in Fragment, Usable(f), InBounds(Opened(f), f)
  PROVE  /\ Stored(f).queue = Opened(f).queue /\ Received(f).queue = Opened(f).queue
         /\ Stored(f).size = Opened(f).size /\ Received(f).size = Opened(f).size
         /\ Stored(f).total = Opened(f).total /\ Received(f).total = Opened(f).total
<1> DEFINE o == Opened(f)
           s == Stored(f)
           k == Ask(s, Gap(f))
           r == Received(f)
<1>1. o \in AssemblerState
  BY OpenedFacts
<1>2. s = [o EXCEPT !.frame = [o.frame EXCEPT ![o.total - f.rp] = f.seq],
                    !.remaining = o.remaining \ {f.rp}]
  BY <1>1 DEF Stored, Store, AssemblerState
<1>3. s \in AssemblerState
  BY StoredFacts
<1>4. Gap(f) \in SUBSET Nat
  BY <1>3, GapFacts DEF Gap
<1>5. k \in AssemblerState /\ k.queue = s.queue /\ k.size = s.size /\ k.total = s.total
  BY <1>3, <1>4, AskFacts
<1>6. r = [k EXCEPT !.previous = f.rp]
  BY DEF Received
<1> HIDE DEF o, s, k, r
<1>7. s.queue = o.queue /\ s.size = o.size /\ s.total = o.total
  BY <1>1, <1>2 DEF AssemblerState
<1>8. r.queue = k.queue /\ r.size = k.size /\ r.total = k.total
  BY <1>5, <1>6 DEF AssemblerState
<1>9. QED
  BY <1>5, <1>7, <1>8 DEF o, s, r

PlayerGenuine == AllGenuine(work) /\ AllGenuine(asm.queue) /\ ExtentGenuine

\* A genuine subpacket finds or opens a frame of its own extent.
LEMMA OpenedGenuine ==
  ASSUME MaxFrames < FrameIds, AssemblerInv, ExtentGenuine,
         NEW f \in Fragment, Genuine(f), Usable(f)
  PROVE  /\ Opened(f).id = f.seq /\ Opened(f).size = f.size
         /\ Opened(f).total = SubpacketCount(f.size)
<1>1. IdOf(f.seq) = f.seq
  BY IdIsSeq DEF Fragment
<1>2. Opened(f).id = f.seq
  BY <1>1, OpenedFacts
<1>3. CASE Opened(f).size = f.size /\ Opened(f).total = SubpacketCount(f.size)
  BY <1>2, <1>3
<1>4. CASE /\ asm.id = IdOf(f.seq) /\ asm.id # NoFrame
           /\ Opened(f).size = asm.size /\ Opened(f).total = asm.total
  BY <1>1, <1>2, <1>4 DEF ExtentGenuine, Genuine
<1>5. QED
  BY <1>3, <1>4, ExtentFacts

\* Genuine datagrams one after the other.
LEMMA ConcatGenuine ==
  ASSUME NEW s \in Seq(Fragment), NEW t \in Seq(Fragment), AllGenuine(s), AllGenuine(t)
  PROVE  AllGenuine(s \o t)
<1>1. /\ s \o t \in Seq(Fragment) /\ Len(s \o t) = Len(s) + Len(t)
      /\ \A i \in 1..(Len(s) + Len(t)) :
           (s \o t)[i] = IF i <= Len(s) THEN s[i] ELSE t[i - Len(s)]
  BY ConcatProperties
<1>2. DOMAIN s = 1..Len(s) /\ DOMAIN t = 1..Len(t) /\ Len(s) \in Nat /\ Len(t) \in Nat
      /\ DOMAIN (s \o t) = 1..(Len(s) + Len(t))
  BY <1>1, LenProperties
<1>3. ASSUME NEW i \in 1..(Len(s) + Len(t))
      PROVE  Genuine((s \o t)[i])
  <2>1. CASE i <= Len(s)
    <3>1. i \in DOMAIN s /\ (s \o t)[i] = s[i]
      BY <1>1, <1>2, <2>1
    <3>2. QED
      BY <3>1 DEF AllGenuine
  <2>2. CASE i > Len(s)
    <3>1. i - Len(s) \in DOMAIN t /\ (s \o t)[i] = t[i - Len(s)]
      BY <1>1, <1>2, <2>2
    <3>2. QED
      BY <3>1 DEF AllGenuine
  <2>3. QED
    BY <1>2, <2>1, <2>2
<1>4. QED
  BY <1>2, <1>3 DEF AllGenuine

\* The player's queue only ever holds genuine subpackets, and its frame has the
\* extent of the deployed one, whatever comes.
LEMMA PacketGenuine ==
  ASSUME MaxFrames < FrameIds, AssemblerInv, PlayerGenuine,
         NEW f \in Fragment, Genuine(f), NEW rest \in Seq(Fragment), AllGenuine(rest),
         Packet(f, rest), UNCHANGED frames
  PROVE  PlayerGenuine'
<1> USE DEF PlayerGenuine
<1>1. CASE SkipFragment(f, rest)
  BY <1>1 DEF SkipFragment, AllGenuine, ExtentGenuine, Genuine
<1>2. CASE QueueFragment(f, rest)
  <2> DEFINE k == Ask(asm, Overdue(asm))
  <2>1. asm \in AssemblerState /\ asm.queue \in Seq(Fragment)
    BY DEF AssemblerInv, AssemblerTypeOK, AssemblerState
  <2>2. Overdue(asm) \in SUBSET Nat
    BY <2>1 DEF Overdue, AssemblerState
  <2>3. /\ k \in AssemblerState /\ k.id = asm.id /\ k.size = asm.size
        /\ k.total = asm.total /\ k.queue = asm.queue
    BY <2>1, <2>2, AskFacts
  <2>4. asm' = [k EXCEPT !.queue = Append(asm.queue, f), !.waiting = TRUE]
    BY <1>2, <2>3 DEF QueueFragment
  <2> HIDE DEF k
  <2>5. /\ asm'.id = asm.id /\ asm'.size = asm.size /\ asm'.total = asm.total
        /\ asm'.queue = Append(asm.queue, f)
    BY <2>3, <2>4 DEF AssemblerState
  <2>6. AllGenuine(Append(asm.queue, f))
    BY <2>1 DEF AllGenuine
  <2>7. work' = rest
    BY <1>2 DEF QueueFragment
  <2>8. AllGenuine(work)' /\ AllGenuine(asm.queue)'
    BY <2>5, <2>6, <2>7 DEF AllGenuine, Genuine
  <2>9. ExtentGenuine'
    BY <2>5 DEF ExtentGenuine
  <2>10. QED
    BY <2>8, <2>9
<1>3. ASSUME Usable(f), InBounds(Opened(f), f), work' = rest,
             asm'.queue = Received(f).queue, asm'.id = Received(f).id,
             asm'.size = Received(f).size, asm'.total = Received(f).total
      PROVE  PlayerGenuine'
  <2>1. /\ Received(f).id = f.seq /\ Received(f).size = f.size
        /\ Received(f).total = SubpacketCount(f.size)
    BY <1>3, OpenedGenuine, KeptByReceived, ReceivedFacts, IdIsSeq DEF Fragment
  <2>2. Received(f).queue = asm.queue \/ Received(f).queue = <<>>
    BY <1>3, ExtentFacts, KeptByReceived
  <2>3. AllGenuine(asm'.queue)
    BY <1>3, <2>2 DEF AllGenuine
  <2>4. QED
    BY <1>3, <2>1, <2>3 DEF AllGenuine, ExtentGenuine, Genuine
<1>4. CASE StoreFragment(f, rest)
  BY <1>3, <1>4 DEF StoreFragment
<1>5. CASE StoreLastFragment(f, rest)
  <2> DEFINE r == Received(f)
             k == Ask(r, Unrequested(r))
  <2>1. Usable(f) /\ InBounds(Opened(f), f) /\ work' = rest
        /\ asm' = [k EXCEPT !.waiting = TRUE]
    BY <1>5 DEF StoreLastFragment
  <2>2. r \in AssemblerState
    BY <2>1, ReceivedFacts
  <2>3. Unrequested(r) \in SUBSET Nat
    BY <2>2 DEF Unrequested, AssemblerState
  <2>4. /\ k \in AssemblerState /\ k.queue = r.queue /\ k.id = r.id /\ k.size = r.size
        /\ k.total = r.total
    BY <2>2, <2>3, AskFacts
  <2> HIDE DEF r, k
  <2>5. asm'.queue = r.queue /\ asm'.id = r.id /\ asm'.size = r.size /\ asm'.total = r.total
    BY <2>1, <2>4 DEF AssemblerState
  <2>6. QED
    BY <1>3, <2>1, <2>5 DEF r
<1>6. CASE CompleteFrame(f, rest)
  <2>1. /\ Usable(f) /\ InBounds(Opened(f), f) /\ asm' = Idle
        /\ work' = Stored(f).queue \o rest
    BY <1>6 DEF CompleteFrame
  <2>2. Stored(f).queue \in Seq(Fragment)
    BY <2>1, StoredFacts DEF AssemblerState
  <2>3. AllGenuine(Stored(f).queue)
    BY <2>1, ExtentFacts, KeptByReceived DEF AllGenuine
  <2>4. AllGenuine(work)'
    <3>1. AllGenuine(Stored(f).queue \o rest)
      BY <2>2, <2>3, ConcatGenuine
    <3>2. QED
      BY <2>1, <3>1 DEF AllGenuine, Genuine
  <2>5. QED
    BY <2>1, <2>4, IdleFacts DEF AllGenuine, ExtentGenuine
<1>7. CASE Panic(f)
  BY <1>7 DEF Panic, AllGenuine, ExtentGenuine, Genuine
<1>8. QED
  BY <1>1, <1>2, <1>4, <1>5, <1>6, <1>7 DEF Packet

\* A frame that misses nothing is whole.
LEMMA CompletedWhole ==
  ASSUME MaxFrames < FrameIds, Inv, ExtentGenuine,
         NEW f \in Fragment, Genuine(f), NEW rest, CompleteFrame(f, rest)
  PROVE  Whole(Stored(f).frame) /\ Stored(f).frame[1] = f.seq
<1> DEFINE s == Stored(f)
           fr == s.frame
<1>1. Usable(f) /\ InBounds(Opened(f), f) /\ s.remaining = {}
  BY DEF CompleteFrame
<1>2. s \in AssemblerState /\ s.id = f.seq /\ SlotsFilled(s)
  BY <1>1, StoredFacts, IdIsSeq DEF Inv, Fragment
<1>3. s.total = SubpacketCount(f.size)
  BY <1>1, OpenedGenuine, KeptByReceived DEF Inv
<1>4. s.total \in Nat \ {0}
  BY <1>3, CountType DEF Fragment
<1>5. fr \in Seq(0..MaxFrames) /\ Len(fr) = s.total
  BY <1>2 DEF SlotsFilled, AssemblerState
<1> HIDE DEF s
<1>6. ASSUME NEW i \in 1..s.total
      PROVE  fr[i] = f.seq
  <2>1. s.total - i \in (0..(s.total - 1)) \ s.remaining /\ s.total - (s.total - i) = i
    BY <1>1, <1>4 DEF s
  <2>2. fr[i] # Zeroed /\ IdOf(fr[i]) = f.seq
    BY <1>2, <2>1 DEF SlotsFilled
  <2>3. fr[i] \in 1..MaxFrames
    <3>1. fr[i] \in 0..MaxFrames
      BY <1>5, ElementOfSeq
    <3>2. fr[i] # 0
      BY <2>2 DEF Zeroed
    <3> HIDE DEF fr
    <3>3. QED
      BY <3>1, <3>2, SubpacketsAssumption
  <2>4. QED
    BY <2>2, <2>3, IdIsSeq
<1>7. f.seq \in DOMAIN frames /\ f.size = frames[f.seq].size
  BY DEF Genuine
<1>8. DOMAIN fr = 1..s.total /\ 1 \in 1..s.total /\ fr # <<>>
  BY <1>4, <1>5, LenProperties, EmptySeq
<1>9. QED
  BY <1>3, <1>4, <1>5, <1>6, <1>7, <1>8 DEF Whole, s, Inv, TypeOK

\* A step of the assembler hands over whole frames.
LEMMA PacketWhole ==
  ASSUME MaxFrames < FrameIds, Inv, ExtentGenuine, AssembledWhole,
         NEW f \in Fragment, Genuine(f), NEW rest, Packet(f, rest), UNCHANGED frames
  PROVE  AssembledWhole'
<1>1. CASE assembled' = assembled
  BY <1>1 DEF AssembledWhole, Whole
<1>2. CASE CompleteFrame(f, rest)
  <2>1. Whole(Stored(f).frame)
    BY <1>2, CompletedWhole
  <2>2. assembled' = Append(assembled, Stored(f).frame) /\ assembled \in Seq(Seq(0..MaxFrames))
    BY <1>2 DEF CompleteFrame, Inv, TypeOK, AssemblerTypeOK
  <2>3. Stored(f).frame \in Seq(0..MaxFrames)
    BY <1>2, StoredFacts DEF CompleteFrame, Inv, AssemblerState
  <2>4. ASSUME NEW n \in DOMAIN assembled'
        PROVE  \/ assembled'[n] = Stored(f).frame
               \/ n \in DOMAIN assembled /\ assembled'[n] = assembled[n]
    <3>1. /\ Len(assembled') = Len(assembled) + 1
          /\ \A k \in 1..Len(assembled) : assembled'[k] = assembled[k]
          /\ assembled'[Len(assembled) + 1] = Stored(f).frame
      BY <2>2, <2>3, AppendProperties
    <3>2. DOMAIN assembled = 1..Len(assembled) /\ Len(assembled) \in Nat
      BY <2>2, LenProperties
    <3>3. DOMAIN assembled' = 1..(Len(assembled) + 1)
      BY <2>2, <2>3, AppendProperties, LenProperties
    <3>4. n = Len(assembled) + 1 \/ n \in 1..Len(assembled)
      BY <3>2, <3>3
    <3>5. QED
      BY <3>1, <3>2, <3>4
  <2>5. QED
    BY <2>1, <2>4 DEF AssembledWhole, Whole
<1>3. QED
  BY <1>1, <1>2 DEF Packet, SkipFragment, QueueFragment, StoreFragment, StoreLastFragment, Panic

WholeInv == OnlyGenuine /\ AssembledWhole

\* Deploying one more frame leaves what came before genuine.
LEMMA DeployKeeps ==
  ASSUME Inv, NEW size \in FrameSizes, NEW key \in BOOLEAN, DeployFrame(size, key)
  PROVE  /\ DOMAIN frames \subseteq DOMAIN frames'
         /\ \A k \in DOMAIN frames : frames'[k] = frames[k]
<1>1. /\ frames \in Seq([size : FrameSizes, key : BOOLEAN])
      /\ [size |-> size, key |-> key] \in [size : FrameSizes, key : BOOLEAN]
      /\ frames' = Append(frames, [size |-> size, key |-> key])
  BY DEF Inv, TypeOK, DeployFrame
<1>2. QED
  BY <1>1, AppendProperties

\* A new frame changes nothing about the frames deployed before it.
LEMMA DeployWhole ==
  ASSUME Inv, WholeInv, NEW size \in FrameSizes, NEW key \in BOOLEAN,
         DeployFrame(size, key)
  PROVE  WholeInv'
<1>1. /\ DOMAIN frames \subseteq DOMAIN frames'
      /\ \A k \in DOMAIN frames : frames'[k] = frames[k]
      /\ UNCHANGED <<cache, net, asm, work, assembled>>
  BY DeployKeeps DEF DeployFrame, assemblerVars
<1>2. OnlyGenuine'
  BY <1>1 DEF WholeInv, OnlyGenuine, AllGenuine, Genuine, ExtentGenuine
<1>3. frames \in Seq([size : FrameSizes, key : BOOLEAN]) /\ DOMAIN frames = 1..Len(frames)
      /\ DOMAIN frames' = 1..Len(frames')
  BY DEF Inv, TypeOK, DeployFrame
<1>4. AssembledWhole'
  BY <1>1, <1>3 DEF WholeInv, AssembledWhole, Whole
<1>5. QED
  BY <1>2, <1>4 DEF WholeInv

\* The network makes nothing up.
LEMMA TransmitGenuine ==
  ASSUME net \in Seq(Fragment), AllGenuine(net), NEW s \in Seq(Fragment), AllGenuine(s),
         Transmit(s), UNCHANGED frames
  PROVE  AllGenuine(net)'
<1>1. AllGenuine(net \o s)
  BY ConcatGenuine
<1>2. QED
  BY <1>1 DEF Transmit, AllGenuine, Genuine

\* What is sent and cached is cut from the last deployed frame.
LEMMA BroadcastWhole ==
  ASSUME Inv, WholeInv, NEW copies \in 0..MaxCopies, BroadcastSubpacket(copies)
  PROVE  WholeInv'
<1> DEFINE s == [i \in 1..copies |-> NextFragment]
<1>1. unsent > 0 /\ frames # <<>> /\ unsent' = unsent - 1 /\ Transmit(s)
      /\ unsent <= SubpacketCount(frames[Len(frames)].size)
      /\ cache' = Cached(NextFragment)
      /\ UNCHANGED <<frames, asm, work, assembled>>
  BY DEF Inv, UnsentOfFrame, BroadcastSubpacket, assemblerVars
<1>2. Len(frames) > 0
  BY <1>1, EmptySeq DEF Inv, TypeOK
<1>3. NextFragment \in Fragment
  BY <1>1, <1>2, NextFragmentType DEF Inv
<1>4. Genuine(NextFragment)
  <2>1. Len(frames) \in DOMAIN frames
    BY <1>2 DEF Inv, TypeOK
  <2>2. SubpacketCount(frames[Len(frames)].size) \in Nat
    BY <1>2, LastFrameType, CountType DEF Inv
  <2>3. unsent \in Nat
    BY DEF Inv, TypeOK
  <2>4. QED
    BY <1>1, <2>1, <2>2, <2>3 DEF Genuine, NextFragment
<1>5. s \in Seq(Fragment) /\ AllGenuine(s)
  <2>1. copies \in Nat /\ s \in [1..copies -> Fragment]
    BY <1>3
  <2>2. AllGenuine(s)
    BY <1>4 DEF AllGenuine
  <2> HIDE DEF s
  <2>3. QED
    BY <2>1, <2>2, FunctionIsSeq
<1> HIDE DEF s
<1>6. AllGenuine(net)'
  BY <1>1, <1>5, TransmitGenuine DEF Inv, TypeOK, WholeInv, OnlyGenuine
<1>7. \A c \in cache' : Genuine(c)
  <2>1. Genuine([NextFragment EXCEPT !.rnal = TRUE])
    BY <1>3, <1>4 DEF Genuine, Fragment
  <2>2. QED
    BY <1>1, <2>1 DEF Cached, WholeInv, OnlyGenuine
<1>8. QED
  BY <1>1, <1>6, <1>7
     DEF WholeInv, OnlyGenuine, AllGenuine, Genuine, ExtentGenuine, AssembledWhole, Whole

\* What is sent again comes from the cache.
LEMMA RetransmitWhole ==
  ASSUME Inv, WholeInv, RetransmitFrame
  PROVE  WholeInv'
<1>1. UNCHANGED <<frames, cache, asm, work, assembled>>
  BY DEF RetransmitFrame, serverVars
<1>2. PICK s \in Arrangements(Answers(Head(requests))) : Transmit(s)
  BY DEF RetransmitFrame
<1>3. s \in Seq(Fragment) /\ AllGenuine(s)
  <2>1. /\ s \in Seq(Answers(Head(requests)))
        /\ \A i \in DOMAIN s : s[i] \in Answers(Head(requests))
    BY <1>2, ArrangementType
  <2>2. Answers(Head(requests)) \subseteq Fragment
    BY DEF Answers, Inv, TypeOK
  <2>3. AllGenuine(s)
    BY <2>1 DEF Answers, AllGenuine, WholeInv, OnlyGenuine
  <2>4. QED
    BY <2>1, <2>2, <2>3, SeqMonotonic
<1>4. AllGenuine(net)'
  BY <1>1, <1>2, <1>3, TransmitGenuine DEF Inv, TypeOK, WholeInv, OnlyGenuine
<1>5. QED
  BY <1>1, <1>4
     DEF WholeInv, OnlyGenuine, AllGenuine, Genuine, ExtentGenuine, AssembledWhole, Whole

\* The player was fed a genuine subpacket.
LEMMA FedWhole ==
  ASSUME MaxFrames < FrameIds, Inv, WholeInv, NEW f \in Fragment, Genuine(f),
         NEW rest \in Seq(Fragment), AllGenuine(rest), Packet(f, rest),
         UNCHANGED serverVars, AllGenuine(net')
  PROVE  WholeInv'
<1>1. UNCHANGED <<frames, cache>>
  BY DEF serverVars
<1>2. PlayerGenuine'
  BY <1>1, PacketGenuine DEF Inv, PlayerGenuine, WholeInv, OnlyGenuine
<1>3. AssembledWhole'
  BY <1>1, PacketWhole DEF WholeInv, OnlyGenuine
<1>4. AllGenuine(net)'
  BY <1>1 DEF AllGenuine, Genuine
<1>5. QED
  BY <1>1, <1>2, <1>3, <1>4 DEF WholeInv, OnlyGenuine, PlayerGenuine, Genuine

\* A datagram from the network is fed to assemble_packet.
LEMMA ReceiveWhole ==
  ASSUME MaxFrames < FrameIds, Inv, WholeInv, NEW i \in 1..Window, ReceiveFragment(i)
  PROVE  WholeInv'
<1>1. i \in 1..Len(net) /\ net \in Seq(Fragment) /\ i \in DOMAIN net
  <2>1. net \in Seq(Fragment)
    BY DEF Inv, TypeOK
  <2>2. Len(net) \in Nat /\ i <= Len(net) /\ i \in Nat /\ i >= 1
    BY <2>1 DEF ReceiveFragment
  <2>3. QED
    BY <2>1, <2>2
<1>2. net[i] \in Fragment /\ Genuine(net[i])
  BY <1>1, ElementOfSeq DEF WholeInv, OnlyGenuine, AllGenuine
<1>3. net' = RemoveAt(net, i)
  BY DEF ReceiveFragment
<1>4. AllGenuine(net')
  <2>1. \A j \in DOMAIN RemoveAt(net, i) : \E k \in DOMAIN net : RemoveAt(net, i)[j] = net[k]
    BY <1>1, RemoveAtType
  <2>2. QED
    BY <1>3, <2>1 DEF WholeInv, OnlyGenuine, AllGenuine
<1>5. Packet(net[i], <<>>) /\ UNCHANGED serverVars /\ <<>> \in Seq(Fragment)
      /\ AllGenuine(<<>>)
  BY DEF ReceiveFragment, AllGenuine
<1>6. QED
  BY <1>2, <1>4, <1>5, FedWhole

\* A postponed subpacket is fed to it again.
LEMMA RequeueWhole ==
  ASSUME MaxFrames < FrameIds, Inv, WholeInv, Requeue
  PROVE  WholeInv'
<1>1. work # <<>> /\ Packet(Head(work), Tail(work)) /\ UNCHANGED <<serverVars, net>>
      /\ work \in Seq(Fragment)
  BY DEF Requeue, FeedQueued, Inv, TypeOK, AssemblerTypeOK
<1>2. /\ Head(work) \in Fragment /\ Tail(work) \in Seq(Fragment)
      /\ Len(Tail(work)) = Len(work) - 1
      /\ \A j \in 1..Len(Tail(work)) : Tail(work)[j] = work[j + 1]
  BY <1>1, HeadTailProperties
<1>3. Genuine(Head(work)) /\ AllGenuine(Tail(work))
  <2>1. Len(work) \in Nat \ {0} /\ DOMAIN work = 1..Len(work) /\ Head(work) = work[1]
        /\ DOMAIN Tail(work) = 1..Len(Tail(work))
    BY <1>1, <1>2, EmptySeq, LenProperties
  <2>2. AllGenuine(work)
    BY DEF WholeInv, OnlyGenuine
  <2>3. 1 \in DOMAIN work /\ \A j \in DOMAIN Tail(work) : j + 1 \in DOMAIN work
    BY <1>2, <2>1
  <2>4. QED
    BY <1>2, <2>1, <2>2, <2>3 DEF AllGenuine
<1>4. AllGenuine(net')
  BY <1>1 DEF WholeInv, OnlyGenuine, AllGenuine
<1>5. QED
  BY <1>1, <1>2, <1>3, <1>4, FedWhole

\* A request that grows old changes neither frame nor queue.
LEMMA ExpireWhole ==
  ASSUME Inv, WholeInv, NEW rp \in asm.recent, Expire(rp)
  PROVE  WholeInv'
<1>1. /\ asm \in AssemblerState /\ asm' = [asm EXCEPT !.recent = asm.recent \ {rp}]
      /\ UNCHANGED <<work, assembled, frames, cache, net>>
  BY DEF Inv, AssemblerInv, AssemblerTypeOK, Expire, RequestExpires, serverVars
<1>2. /\ asm'.id = asm.id /\ asm'.total = asm.total /\ asm'.size = asm.size
      /\ asm'.queue = asm.queue
  BY <1>1 DEF AssemblerState
<1>3. QED
  BY <1>1, <1>2
     DEF WholeInv, OnlyGenuine, AllGenuine, Genuine, ExtentGenuine, AssembledWhole, Whole

\* Every step keeps genuine what is genuine and whole what is whole.
LEMMA NextWhole ==
  ASSUME MaxFrames < FrameIds
  PROVE  Inv /\ WholeInv /\ [Next]_vars => WholeInv'
<1> SUFFICES ASSUME Inv, WholeInv, [Next]_vars PROVE WholeInv'
  OBVIOUS
<1>1. ASSUME NEW size \in FrameSizes, NEW key \in BOOLEAN, DeployFrame(size, key)
      PROVE  WholeInv'
  BY <1>1, DeployWhole
<1>2. ASSUME NEW copies \in 0..MaxCopies, BroadcastSubpacket(copies)
      PROVE  WholeInv'
  BY <1>2, BroadcastWhole
<1>3. CASE RetransmitFrame
  BY <1>3, RetransmitWhole
<1>4. ASSUME NEW old \in 1..MaxFrames, DrainSubpacketCache(old)
      PROVE  WholeInv'
  BY <1>4 DEF DrainSubpacketCache, assemblerVars, WholeInv, OnlyGenuine, AllGenuine, Genuine,
              ExtentGenuine, AssembledWhole, Whole
<1>5. CASE LoseRequest
  BY <1>5 DEF LoseRequest, serverVars, WholeInv, OnlyGenuine, AllGenuine, Genuine,
              ExtentGenuine, AssembledWhole, Whole
<1>6. ASSUME NEW i \in 1..Window, ReceiveFragment(i)
      PROVE  WholeInv'
  BY <1>6, ReceiveWhole
<1>7. CASE Requeue
  BY <1>7, RequeueWhole
<1>8. ASSUME NEW rp \in asm.recent, Expire(rp)
      PROVE  WholeInv'
  BY <1>8, ExpireWhole
<1>9. CASE UNCHANGED vars
  BY <1>9 DEF vars, assemblerVars, serverVars, WholeInv, OnlyGenuine, AllGenuine, Genuine,
              ExtentGenuine, AssembledWhole, Whole
<1>10. QED
  BY <1>1, <1>2, <1>3, <1>4, <1>5, <1>6, <1>7, <1>8, <1>9 DEF Next

\* The strengthened invariant holds throughout.
LEMMA WholeInvariance ==
  ASSUME MaxFrames < FrameIds
  PROVE  Spec => [](Inv /\ WholeInv)
<1>1. Init => WholeInv
  BY IdleFacts
     DEF Init, AssemblerInit, WholeInv, OnlyGenuine, AllGenuine, ExtentGenuine, AssembledWhole
<1>2. Inv /\ WholeInv /\ [Next]_vars => WholeInv'
  BY NextWhole
<1>3. QED
  BY <1>1, <1>2, Invariance, PTL DEF Spec

\* Whatever the network does, what goes to the decoder is one whole deployed
\* frame, as long as no frame id is used twice.
THEOREM FramesWhole ==
  ASSUME MaxFrames < FrameIds
  PROVE  Spec => []AssembledWhole
  BY WholeInvariance, PTL DEF WholeInv

-------------------------------------------------------------------------------
(* No assert and no index out of range.                                        *)

RoomForAll == \A size \in FrameSizes : SubpacketCount(size) <= MaxRequestIds

\* The subpackets of one frame fit into a Retransmit datagram.
LEMMA IdsFit ==
  ASSUME RoomForAll, NEW size \in FrameSizes,
         NEW S \in SUBSET (0..(SubpacketCount(size) - 1))
  PROVE  Fits(S)
<1> DEFINE n == SubpacketCount(size)
<1>1. n \in Nat \ {0} /\ n <= MaxRequestIds
  BY CountType DEF RoomForAll
<1> HIDE DEF n
<1>2. IsFiniteSet(0..(n - 1)) /\ Cardinality(0..(n - 1)) = n
  BY <1>1, FS_Interval
<1>3. S \in SUBSET (0..(n - 1))
  BY DEF n
<1>4. IsFiniteSet(S) /\ Cardinality(S) <= Cardinality(0..(n - 1))
  BY <1>2, <1>3, FS_Subset
<1>5. Cardinality(S) \in Nat
  BY <1>4, FS_CardinalityType
<1>6. QED
  BY <1>1, <1>2, <1>4, <1>5, AssemblerAssumption DEF Fits

\* The data of a genuine subpacket lies within its frame.
LEMMA GenuineInBounds ==
  ASSUME NEW a \in AssemblerState, NEW f \in Fragment,
         a.size = f.size, a.total = SubpacketCount(f.size),
         f.rp < SubpacketCount(f.size)
  PROVE  InBounds(a, f)
<1>1. f.size \in Nat \ {0} /\ f.rp \in Nat /\ PAYLOAD \in Nat \ {0}
  BY SubpacketsAssumption DEF Fragment
<1> DEFINE n == SubpacketCount(f.size)
<1>2. n \in Nat \ {0} /\ (n - 1) * PAYLOAD <= f.size
  BY <1>1 DEF SubpacketCount
<1> HIDE DEF n
<1>3. CASE f.rp = 0
  BY <1>1, <1>2, <1>3 DEF InBounds, DataLen, n
<1>4. CASE f.rp # 0
  <2>1. (n - 1 - f.rp) * PAYLOAD + PAYLOAD = (n - f.rp) * PAYLOAD
    BY <1>1, <1>2
  <2>2. (n - f.rp) * PAYLOAD <= (n - 1) * PAYLOAD
    BY <1>1, <1>2, <1>4
  <2>3. DataLen(f) = PAYLOAD
    BY <1>4 DEF DataLen
  <2>4. (n - 1 - f.rp) * PAYLOAD + DataLen(f) <= f.size
    BY <1>1, <1>2, <2>1, <2>2, <2>3
  <2>5. QED
    BY <2>4 DEF InBounds, n
<1>5. QED
  BY <1>3, <1>4

\* Nothing the network delivers makes assemble_packet panic.
LEMMA PacketSafe ==
  ASSUME MaxFrames < FrameIds, RoomForAll, Inv, WholeInv,
         NEW f \in Fragment, Genuine(f)
  PROVE  ~Panic(f)
<1>0. AssemblerInv /\ ExtentGenuine /\ asm \in AssemblerState
  BY DEF Inv, WholeInv, OnlyGenuine, AssemblerInv, AssemblerTypeOK
<1>1. ASSUME Postponed(f) PROVE Fits(Overdue(asm))
  <2>1. asm.id # NoFrame /\ SlotsFilled(asm)
    BY <1>0, <1>1 DEF Postponed, AssemblerInv, SlotsMatchFrame
  <2>2. asm.size \in FrameSizes /\ asm.total = SubpacketCount(asm.size)
    <3>1. asm.id \in DOMAIN frames /\ asm.size = frames[asm.id].size
          /\ asm.total = SubpacketCount(asm.size)
      BY <1>0, <2>1 DEF ExtentGenuine
    <3>2. frames \in Seq([size : FrameSizes, key : BOOLEAN])
      BY DEF Inv, TypeOK
    <3>3. asm.id \in 1..Len(frames)
      BY <3>1, <3>2, LenProperties
    <3>4. frames[asm.id] \in [size : FrameSizes, key : BOOLEAN]
      BY <3>2, <3>3, ElementOfSeq
    <3>5. QED
      BY <3>1, <3>4
  <2>3. Overdue(asm) \in SUBSET (0..(SubpacketCount(asm.size) - 1))
    BY <2>1, <2>2 DEF SlotsFilled, Overdue
  <2>4. QED
    BY <2>2, <2>3, IdsFit
<1>2. ASSUME Usable(f) PROVE InBounds(Opened(f), f)
  <2>1. Opened(f) \in AssemblerState
    BY <1>0, <1>2, OpenedFacts
  <2>2. Opened(f).size = f.size /\ Opened(f).total = SubpacketCount(f.size)
    BY <1>0, <1>2, OpenedGenuine
  <2>3. f.rp < SubpacketCount(f.size)
    BY DEF Genuine
  <2>4. QED
    BY <2>1, <2>2, <2>3, GenuineInBounds
<1>3. ASSUME Usable(f) PROVE Fits(Gap(f)) /\ Fits(Unrequested(Received(f)))
  <2>1. InBounds(Opened(f), f)
    BY <1>2, <1>3
  <2>2. /\ Stored(f) \in AssemblerState /\ SlotsFilled(Stored(f))
        /\ Received(f).remaining = Stored(f).remaining
    BY <1>0, <1>3, <2>1, StoredFacts, ReceivedFacts
  <2>3. Stored(f).total = SubpacketCount(f.size) /\ f.size \in FrameSizes
    BY <1>0, <1>3, <2>1, KeptByReceived, OpenedGenuine DEF Fragment
  <2>4. Stored(f).remaining \subseteq 0..(SubpacketCount(f.size) - 1)
    BY <2>2, <2>3 DEF SlotsFilled
  <2>5. Gap(f) \subseteq Stored(f).remaining
    BY <2>2, GapFacts DEF Gap
  <2>6. Unrequested(Received(f)) \subseteq Stored(f).remaining
    BY <2>2 DEF Unrequested
  <2>7. QED
    BY <2>3, <2>4, <2>5, <2>6, IdsFit
<1>4. QED
  BY <1>1, <1>2, <1>3 DEF Panic

\* The receiving thread never panics, as long as no frame id is used twice and
\* one Retransmit datagram has room for every subpacket of a frame.
THEOREM ReceiverSafe ==
  ASSUME MaxFrames < FrameIds, RoomForAll
  PROVE  Spec => []NoPanic
<1>1. Init => NoPanic
  BY DEF Init, AssemblerInit, NoPanic
<1>2. Inv /\ WholeInv /\ NoPanic /\ [Next]_vars => NoPanic'
  <2> SUFFICES ASSUME Inv, WholeInv, NoPanic, [Next]_vars PROVE NoPanic'
    OBVIOUS
  <2> USE DEF NoPanic
  <2>1. ASSUME NEW f \in Fragment, Genuine(f), NEW rest, Packet(f, rest)
        PROVE  NoPanic'
    <3>1. ~Panic(f)
      BY <2>1, PacketSafe
    <3>2. QED
      BY <2>1, <3>1 DEF Packet, SkipFragment, QueueFragment, StoreFragment,
                        StoreLastFragment, CompleteFrame
  <2>2. ASSUME NEW i \in 1..Window, ReceiveFragment(i) PROVE NoPanic'
    <3>1. net \in Seq(Fragment) /\ i \in 1..Len(net) /\ i \in DOMAIN net
      BY <2>2 DEF ReceiveFragment, Inv, TypeOK
    <3>2. net[i] \in Fragment /\ Genuine(net[i])
      BY <3>1, ElementOfSeq DEF WholeInv, OnlyGenuine, AllGenuine
    <3>3. QED
      BY <2>1, <2>2, <3>2 DEF ReceiveFragment
  <2>3. CASE Requeue
    <3>1. work \in Seq(Fragment) /\ work # <<>> /\ Packet(Head(work), Tail(work))
      BY <2>3 DEF Requeue, FeedQueued, Inv, TypeOK, AssemblerTypeOK
    <3>2. Head(work) = work[1] /\ 1 \in DOMAIN work /\ Head(work) \in Fragment
      BY <3>1
    <3>3. Genuine(Head(work))
      BY <3>2 DEF WholeInv, OnlyGenuine, AllGenuine
    <3>4. QED
      BY <2>1, <3>1, <3>2, <3>3
  <2>4. ASSUME NEW size \in FrameSizes, NEW key \in BOOLEAN, DeployFrame(size, key)
        PROVE  NoPanic'
    BY <2>4 DEF DeployFrame, assemblerVars
  <2>5. ASSUME NEW copies \in 0..MaxCopies, BroadcastSubpacket(copies) PROVE NoPanic'
    BY <2>5 DEF BroadcastSubpacket, assemblerVars
  <2>6. CASE RetransmitFrame
    BY <2>6 DEF RetransmitFrame
  <2>7. ASSUME NEW old \in 1..MaxFrames, DrainSubpacketCache(old) PROVE NoPanic'
    BY <2>7 DEF DrainSubpacketCache, assemblerVars
  <2>8. CASE LoseRequest
    BY <2>8 DEF LoseRequest
  <2>9. ASSUME NEW rp \in asm.recent, Expire(rp) PROVE NoPanic'
    BY <2>9 DEF Expire, RequestExpires
  <2>10. CASE UNCHANGED vars
    BY <2>10 DEF vars, assemblerVars
  <2>11. QED
    BY <2>2, <2>3, <2>4, <2>5, <2>6, <2>7, <2>8, <2>9, <2>10 DEF Next
<1>3. QED
  BY <1>1, <1>2, WholeInvariance, PTL DEF Spec

-------------------------------------------------------------------------------
(* What is asked for is missing.                                               *)

\* What is sent is new at the end of requests.
LEMMA SentRequests ==
  ASSUME requests \in Seq(RequestType), NEW s \in Seq(RequestType), Send(s),
         NEW n \in DOMAIN requests' \ DOMAIN requests
  PROVE  \E i \in DOMAIN s : requests'[n] = s[i]
<1>1. requests' = requests \o s
  BY DEF Send
<1>2. /\ requests \o s \in Seq(RequestType)
      /\ Len(requests \o s) = Len(requests) + Len(s)
      /\ \A i \in 1..(Len(requests) + Len(s)) :
           (requests \o s)[i] = IF i <= Len(requests) THEN requests[i] ELSE s[i - Len(requests)]
  BY ConcatProperties
<1>3. /\ DOMAIN requests = 1..Len(requests) /\ DOMAIN s = 1..Len(s)
      /\ Len(requests) \in Nat /\ Len(s) \in Nat
      /\ DOMAIN requests' = 1..(Len(requests) + Len(s))
  BY <1>1, <1>2, LenProperties
<1>4. n - Len(requests) \in 1..Len(s) /\ n \in 1..(Len(requests) + Len(s)) /\ n > Len(requests)
  BY <1>3
<1> QED BY <1>1, <1>2, <1>3, <1>4

LEMMA SendKeeps ==
  ASSUME requests \in Seq(RequestType), NEW s \in Seq(RequestType), Send(s),
         NEW n \in DOMAIN requests
  PROVE  n \in DOMAIN requests' /\ requests'[n] = requests[n]
<1>1. requests' = requests \o s \/ requests' = requests
  BY DEF Send
<1>2. /\ requests \o s \in Seq(RequestType)
      /\ Len(requests \o s) = Len(requests) + Len(s)
      /\ \A i \in 1..(Len(requests) + Len(s)) :
           (requests \o s)[i] = IF i <= Len(requests) THEN requests[i] ELSE s[i - Len(requests)]
  BY ConcatProperties
<1>3. /\ DOMAIN requests = 1..Len(requests) /\ Len(requests) \in Nat /\ Len(s) \in Nat
      /\ DOMAIN (requests \o s) = 1..(Len(requests) + Len(s))
  BY <1>2, LenProperties
<1>4. n \in 1..(Len(requests) + Len(s)) /\ n <= Len(requests)
  BY <1>3
<1> QED BY <1>1, <1>2, <1>3, <1>4

\* A datagram for some ids asks for just those.
LEMMA AskingContent ==
  ASSUME NEW id, NEW size, NEW ids, NEW n \in DOMAIN Asking(id, size, ids)
  PROVE  /\ Asking(id, size, ids)[n] = [id |-> id, size |-> size, ids |-> ids]
         /\ ids # {}
BY DEF Asking

\* What a postponed subpacket leaves of the frame in its way.
LEMMA QueuedFacts ==
  ASSUME AssemblerInv, NEW f \in Fragment, NEW rest, QueueFragment(f, rest)
  PROVE  /\ asm'.id = asm.id /\ asm'.size = asm.size /\ asm'.total = asm.total
         /\ asm'.remaining = asm.remaining /\ asm'.previous = asm.previous
         /\ asm'.queue = Append(asm.queue, f)
<1>1. asm \in AssemblerState
  BY DEF AssemblerInv, AssemblerTypeOK
<1>2. Overdue(asm) \in SUBSET Nat
  BY <1>1 DEF Overdue, AssemblerState
<1> DEFINE k == Ask(asm, Overdue(asm))
<1>3. /\ k \in AssemblerState /\ k.id = asm.id /\ k.size = asm.size /\ k.total = asm.total
      /\ k.remaining = asm.remaining /\ k.previous = asm.previous /\ k.queue = asm.queue
  BY <1>1, <1>2, AskFacts
<1>4. asm' = [k EXCEPT !.queue = Append(asm.queue, f), !.waiting = TRUE]
  BY <1>3 DEF QueueFragment
<1> HIDE DEF k
<1> QED BY <1>3, <1>4 DEF AssemblerState

\* What the last subpacket leaves of its frame.
LEMMA LastStoredFacts ==
  ASSUME AssemblerInv, NEW f \in Fragment, NEW rest, StoreLastFragment(f, rest)
  PROVE  /\ asm'.id = Received(f).id /\ asm'.size = Received(f).size
         /\ asm'.total = Received(f).total /\ asm'.remaining = Received(f).remaining
         /\ asm'.previous = Received(f).previous /\ asm'.queue = Received(f).queue
<1> DEFINE r == Received(f)
           k == Ask(r, Unrequested(r))
<1>1. r \in AssemblerState
  BY ReceivedFacts DEF StoreLastFragment
<1>2. Unrequested(r) \in SUBSET Nat
  BY <1>1 DEF Unrequested, AssemblerState
<1>3. /\ k \in AssemblerState /\ k.id = r.id /\ k.size = r.size /\ k.total = r.total
      /\ k.remaining = r.remaining /\ k.previous = r.previous /\ k.queue = r.queue
  BY <1>1, <1>2, AskFacts
<1>4. asm' = [k EXCEPT !.waiting = TRUE]
  BY DEF StoreLastFragment
<1> HIDE DEF r, k
<1> QED BY <1>3, <1>4 DEF AssemblerState, r

\* A request for subpackets that the frame under assembly misses.
ForMissing(r) ==
  r.id = asm.id /\ r.size = asm.size /\ r.ids # {} /\ r.ids \subseteq asm.remaining

\* One call of assemble_packet asks only for what it leaves missing; in the middle of a frame,
\* only for a gap.
LEMMA PacketSends ==
  ASSUME MaxFrames < FrameIds, AssemblerInv, ExtentGenuine,
         NEW f \in Fragment, Genuine(f), NEW rest, Packet(f, rest)
  PROVE  \/ requests' = requests
         \/ \E s \in Seq(RequestType) :
              /\ Send(s)
              /\ \A i \in DOMAIN s : ForMissing(s[i])'
              /\ StoreFragment(f, rest) => \A i \in DOMAIN s : s[i].ids = Gap(f)
<1>1. requests \in Seq(RequestType) /\ asm \in AssemblerState
  BY DEF AssemblerInv, AssemblerTypeOK
<1>2. CASE QueueFragment(f, rest)
  <2>1. asm.id \in 0..(FrameIds - 1) /\ asm.size \in FrameSizes \union {0}
        /\ Overdue(asm) \in SUBSET Nat /\ Overdue(asm) \subseteq asm.remaining
    BY <1>1, <1>2 DEF QueueFragment, Postponed, AssemblerState, Overdue
  <2> PICK s : s = Asking(asm.id, asm.size, Overdue(asm))
    OBVIOUS
  <2>2. s \in Seq(RequestType) /\ Send(s) /\ ~StoreFragment(f, rest)
    BY <1>2, <2>1, AskingType DEF QueueFragment, StoreFragment, Usable
  <2>3. ASSUME NEW i \in DOMAIN s PROVE ForMissing(s[i])'
    <3>1. s[i] = [id |-> asm.id, size |-> asm.size, ids |-> Overdue(asm)]
          /\ Overdue(asm) # {}
      BY AskingContent
    <3>2. PICK r : r = s[i]
      OBVIOUS
    <3>3. r.id = asm.id /\ r.size = asm.size /\ r.ids = Overdue(asm) /\ Overdue(asm) # {}
      BY <3>1, <3>2
    <3>4. ForMissing(r)'
      BY <1>2, <2>1, <3>3, QueuedFacts DEF ForMissing
    <3> QED BY <3>2, <3>4
  <2> QED BY <2>2, <2>3
<1>3. ASSUME Usable(f), InBounds(Opened(f), f)
      PROVE  /\ Gap(f) \in SUBSET Nat /\ Gap(f) \subseteq Received(f).remaining
             /\ Received(f).id = IdOf(f.seq) /\ Received(f).size = f.size
             /\ AskingGap(f) \in Seq(RequestType)
             /\ \A i \in DOMAIN AskingGap(f) :
                  /\ AskingGap(f)[i] = [id |-> IdOf(f.seq), size |-> f.size, ids |-> Gap(f)]
                  /\ Gap(f) # {}
  <2>1. Gap(f) \in SUBSET Nat /\ Gap(f) \subseteq Received(f).remaining
    BY <1>3, StoredFacts, ReceivedFacts, GapFacts DEF Gap
  <2>2. Received(f).id = IdOf(f.seq) /\ Received(f).size = f.size
    BY <1>3, ReceivedFacts, KeptByReceived, OpenedGenuine
  <2>3. AskingGap(f) \in Seq(RequestType)
    BY <2>1, IdType, AskingType DEF AskingGap, Fragment
  <2> QED BY <2>1, <2>2, <2>3, AskingContent DEF AskingGap
<1>4. CASE StoreFragment(f, rest)
  <2> PICK s : s = AskingGap(f)
    OBVIOUS
  <2>1. /\ Usable(f) /\ InBounds(Opened(f), f) /\ asm' = Received(f) /\ Send(s)
        /\ s \in Seq(RequestType)
    BY <1>3, <1>4 DEF StoreFragment
  <2>2. ASSUME NEW i \in DOMAIN s PROVE ForMissing(s[i])' /\ s[i].ids = Gap(f)
    <3>1. PICK r : r = s[i]
      OBVIOUS
    <3>2. r.id = IdOf(f.seq) /\ r.size = f.size /\ r.ids = Gap(f) /\ Gap(f) # {}
      BY <1>3, <2>1, <3>1
    <3>3. ForMissing(r)'
      BY <1>3, <2>1, <3>2 DEF ForMissing
    <3> QED BY <3>1, <3>2, <3>3
  <2> QED BY <2>1, <2>2
<1>5. CASE StoreLastFragment(f, rest)
  <2>1. Usable(f) /\ InBounds(Opened(f), f) /\ ~StoreFragment(f, rest)
    BY <1>5 DEF StoreLastFragment, StoreFragment
  <2>2. /\ asm'.id = IdOf(f.seq) /\ asm'.size = f.size
        /\ asm'.remaining = Received(f).remaining
    BY <1>3, <1>5, <2>1, LastStoredFacts
  <2> PICK u : u = Unrequested(Received(f))
    OBVIOUS
  <2> PICK s : s = AskingGap(f)
    OBVIOUS
  <2> PICK t : t = Asking(IdOf(f.seq), f.size, u)
    OBVIOUS
  <2>3. u \in SUBSET Nat /\ u \subseteq asm'.remaining
    BY <2>1, <2>2, ReceivedFacts DEF Unrequested, AssemblerState
  <2>4. t \in Seq(RequestType) /\ s \in Seq(RequestType)
    <3>1. IdOf(f.seq) \in 0..(FrameIds - 1) /\ f.size \in FrameSizes \union {0}
      BY IdType DEF Fragment
    <3> QED BY <1>3, <2>1, <2>3, <3>1, AskingType
  <2>5. \A i \in DOMAIN t : t[i] = [id |-> IdOf(f.seq), size |-> f.size, ids |-> u] /\ u # {}
    BY AskingContent
  <2>6. Send(s \o t)
    BY <1>5, <2>2 DEF StoreLastFragment
  <2>7. \A i \in DOMAIN s :
          s[i] = [id |-> IdOf(f.seq), size |-> f.size, ids |-> Gap(f)] /\ Gap(f) # {}
    BY <1>3, <2>1
  <2>8. /\ s \o t \in Seq(RequestType)
        /\ \A i \in DOMAIN (s \o t) :
             \/ i \in DOMAIN s /\ (s \o t)[i] = s[i]
             \/ i - Len(s) \in DOMAIN t /\ (s \o t)[i] = t[i - Len(s)]
    <3>1. /\ s \o t \in Seq(RequestType) /\ Len(s \o t) = Len(s) + Len(t)
          /\ \A i \in 1..(Len(s) + Len(t)) :
               (s \o t)[i] = IF i <= Len(s) THEN s[i] ELSE t[i - Len(s)]
      BY <2>4, ConcatProperties
    <3>2. /\ DOMAIN s = 1..Len(s) /\ DOMAIN t = 1..Len(t)
          /\ Len(s) \in Nat /\ Len(t) \in Nat /\ DOMAIN (s \o t) = 1..(Len(s) + Len(t))
      BY <2>4, <3>1, LenProperties
    <3> QED BY <3>1, <3>2
  <2>9. ASSUME NEW i \in DOMAIN (s \o t) PROVE ForMissing((s \o t)[i])'
    <3>1. PICK r : r = (s \o t)[i]
      OBVIOUS
    <3>2. \/ r.id = IdOf(f.seq) /\ r.size = f.size /\ r.ids = Gap(f) /\ Gap(f) # {}
          \/ r.id = IdOf(f.seq) /\ r.size = f.size /\ r.ids = u /\ u # {}
      BY <2>5, <2>7, <2>8, <3>1
    <3>3. ForMissing(r)'
      BY <1>3, <2>1, <2>2, <2>3, <3>2 DEF ForMissing
    <3> QED BY <3>1, <3>3
  <2> QED BY <2>1, <2>6, <2>8, <2>9
<1>6. CASE requests' = requests
  BY <1>6
<1> QED BY <1>2, <1>4, <1>5, <1>6 DEF Packet, SkipFragment, CompleteFrame, Panic

\* So each new request is for what is missing, and the others stay.
LEMMA PacketAsks ==
  ASSUME MaxFrames < FrameIds, AssemblerInv, ExtentGenuine,
         NEW f \in Fragment, Genuine(f), NEW rest, Packet(f, rest),
         NEW n \in DOMAIN requests', NEW r, r = requests'[n]
  PROVE  \/ n \in DOMAIN requests /\ r = requests[n]
         \/ /\ n \notin DOMAIN requests /\ ForMissing(r)'
            /\ StoreFragment(f, rest) => r.ids = Gap(f)
<1>1. CASE requests' = requests
  BY <1>1
<1>2. ASSUME NEW s \in Seq(RequestType), Send(s),
             \A i \in DOMAIN s : ForMissing(s[i])',
             StoreFragment(f, rest) => \A i \in DOMAIN s : s[i].ids = Gap(f)
      PROVE  \/ n \in DOMAIN requests /\ r = requests[n]
             \/ /\ n \notin DOMAIN requests /\ ForMissing(r)'
                /\ StoreFragment(f, rest) => r.ids = Gap(f)
  <2>1. requests \in Seq(RequestType)
    BY DEF AssemblerInv, AssemblerTypeOK
  <2>2. CASE n \in DOMAIN requests
    BY <1>2, <2>1, <2>2, SendKeeps
  <2>3. CASE n \notin DOMAIN requests
    <3>1. PICK i \in DOMAIN s : requests'[n] = s[i]
      BY <1>2, <2>1, <2>3, SentRequests
    <3>2. ForMissing(s[i])' /\ r = s[i]
      BY <1>2, <3>1
    <3>3. ForMissing(r)'
      BY <3>2
    <3> QED BY <1>2, <2>3, <3>1, <3>3
  <2> QED BY <2>2, <2>3
<1> QED BY <1>1, <1>2, PacketSends

\* The head of the requests leaves no new index behind.
LEMMA TailAsksNothing ==
  ASSUME AssemblerInv, requests # <<>>
  PROVE  DOMAIN Tail(requests) \subseteq DOMAIN requests
BY HeadTailProperties, LenProperties DEF AssemblerInv, AssemblerTypeOK

\* While no frame id comes round again, retransmission is only asked for subpackets of the
\* frame under assembly that it still misses.
THEOREM AsksCorrect ==
  ASSUME MaxFrames < FrameIds
  PROVE  Spec => AsksOnlyForMissing
<1>1. ASSUME Inv, WholeInv, [Next]_vars
      PROVE  \A n \in DOMAIN requests' \ DOMAIN requests :
               /\ requests'[n].id = asm'.id
               /\ requests'[n].size = asm'.size
               /\ requests'[n].ids # {} /\ requests'[n].ids \subseteq asm'.remaining
  <2> SUFFICES ASSUME NEW n \in DOMAIN requests' \ DOMAIN requests, NEW r, r = requests'[n]
               PROVE  ForMissing(r)'
    BY DEF ForMissing
  <2>1. AssemblerInv /\ ExtentGenuine
    BY <1>1 DEF Inv, WholeInv, OnlyGenuine
  <2>2. ASSUME NEW i \in 1..Window, ReceiveFragment(i) PROVE ForMissing(r)'
    <3>1. net \in Seq(Fragment) /\ i \in 1..Len(net) /\ i \in DOMAIN net
      BY <1>1, <2>2 DEF ReceiveFragment, Inv, TypeOK
    <3>2. net[i] \in Fragment /\ Genuine(net[i])
      BY <1>1, <3>1, ElementOfSeq DEF WholeInv, OnlyGenuine, AllGenuine
    <3>3. Packet(net[i], <<>>) /\ <<>> \in Seq(Fragment)
      BY <2>2 DEF ReceiveFragment
    <3> QED BY <2>1, <3>2, <3>3, PacketAsks
  <2>3. CASE Requeue
    <3>1. work \in Seq(Fragment) /\ work # <<>> /\ Packet(Head(work), Tail(work))
      BY <1>1, <2>3 DEF Requeue, FeedQueued, Inv, TypeOK, AssemblerTypeOK
    <3>2. Head(work) = work[1] /\ 1 \in DOMAIN work /\ Head(work) \in Fragment
          /\ Tail(work) \in Seq(Fragment)
      BY <3>1
    <3>3. Genuine(Head(work))
      BY <1>1, <3>2 DEF WholeInv, OnlyGenuine, AllGenuine
    <3> QED BY <2>1, <3>1, <3>2, <3>3, PacketAsks
  <2>4. CASE requests' = requests
    BY <2>4
  <2>5. CASE requests # <<>> /\ requests' = Tail(requests)
    BY <2>1, <2>5, TailAsksNothing
  <2> QED BY <1>1, <2>2, <2>3, <2>4, <2>5
          DEF Next, DeployFrame, BroadcastSubpacket, RetransmitFrame, DrainSubpacketCache,
              LoseRequest, Expire, RequestExpires, vars, assemblerVars
<1>2. Spec => [](Inv /\ WholeInv)
  BY Invariance, WholeInvariance, PTL
<1>3. Inv /\ WholeInv /\ [Next]_vars =>
        [\A n \in DOMAIN requests' \ DOMAIN requests :
           /\ requests'[n].id = asm'.id
           /\ requests'[n].size = asm'.size
           /\ requests'[n].ids # {} /\ requests'[n].ids \subseteq asm'.remaining]_vars
  BY <1>1
<1> QED BY <1>2, <1>3, PTL DEF Spec, AsksOnlyForMissing

-------------------------------------------------------------------------------
(* In order: subpackets that follow one another.                               *)

\* The order of sending: frame by frame, and the numbers count down.
Earlier(k, rp, l, rq) == k < l \/ (k = l /\ rp > rq)

\* Each NAL of s was sent after subpacket rp of frame k.
AheadOf(k, rp, s) == \A i \in DOMAIN s : ~s[i].rnal => Earlier(k, rp, s[i].seq, s[i].rp)

Ordered(s) ==
  \A i, j \in DOMAIN s :
    i < j /\ ~s[i].rnal /\ ~s[j].rnal => Earlier(s[i].seq, s[i].rp, s[j].seq, s[j].rp)

Precedes(s, t) == \A i \in DOMAIN s : ~s[i].rnal => AheadOf(s[i].seq, s[i].rp, t)

\* The NALs still to be assembled come in the order they were sent.
Lined(q, w, n) ==
  /\ Ordered(q) /\ Ordered(w) /\ Ordered(n)
  /\ Precedes(q, w) /\ Precedes(q, n) /\ Precedes(w, n)

\* f was taken from between q and what is left, w and n.
Taken(f, q, w, n) ==
  /\ Lined(q, w, n)
  /\ Precedes(q, <<f>>)
  /\ ~f.rnal => AheadOf(f.seq, f.rp, w) /\ AheadOf(f.seq, f.rp, n)

\* The elements of two sequences one after the other.
LEMMA ConcatElements ==
  ASSUME NEW s \in Seq(Fragment), NEW t \in Seq(Fragment)
  PROVE  /\ s \o t \in Seq(Fragment)
         /\ Len(s) \in Nat /\ DOMAIN s \subseteq Nat /\ DOMAIN t \subseteq Nat
         /\ \A i \in DOMAIN s : i \in DOMAIN (s \o t) /\ (s \o t)[i] = s[i] /\ i <= Len(s)
         /\ \A i \in DOMAIN t : /\ Len(s) + i \in DOMAIN (s \o t) /\ (s \o t)[Len(s) + i] = t[i]
                                /\ i > 0
         /\ \A i \in DOMAIN (s \o t) :
              \/ i \in DOMAIN s /\ (s \o t)[i] = s[i]
              \/ /\ i - Len(s) \in DOMAIN t /\ (s \o t)[i] = t[i - Len(s)]
                 /\ i \in Nat /\ i > Len(s)
<1>1. /\ s \o t \in Seq(Fragment) /\ Len(s \o t) = Len(s) + Len(t)
      /\ \A i \in 1..(Len(s) + Len(t)) :
           (s \o t)[i] = IF i <= Len(s) THEN s[i] ELSE t[i - Len(s)]
  BY ConcatProperties
<1>2. /\ DOMAIN s = 1..Len(s) /\ DOMAIN t = 1..Len(t)
      /\ Len(s) \in Nat /\ Len(t) \in Nat /\ DOMAIN (s \o t) = 1..(Len(s) + Len(t))
  BY <1>1, LenProperties
<1>3. \A i \in 1..Len(t) : /\ Len(s) + i \in 1..(Len(s) + Len(t)) /\ ~(Len(s) + i <= Len(s))
                           /\ Len(s) + i - Len(s) = i
  BY <1>2
<1>4. \A i \in 1..Len(s) : i \in 1..(Len(s) + Len(t))
  BY <1>2
<1>5. \A i \in 1..(Len(s) + Len(t)) :
        ~(i <= Len(s)) => i - Len(s) \in 1..Len(t) /\ i \in Nat /\ i > Len(s)
  BY <1>2
<1>6. \A i \in 1..(Len(s) + Len(t)) : i <= Len(s) => i \in 1..Len(s)
  BY <1>2
<1>7. \A i \in DOMAIN t : Len(s) + i \in DOMAIN (s \o t) /\ (s \o t)[Len(s) + i] = t[i] /\ i > 0
  <2> SUFFICES ASSUME NEW i \in 1..Len(t)
               PROVE  (s \o t)[Len(s) + i] = t[i]
    BY <1>2, <1>3
  <2> QED BY <1>1, <1>3
<1> QED BY <1>1, <1>2, <1>4, <1>5, <1>6, <1>7

LEMMA ConcatMembers ==
  ASSUME NEW s \in Seq(Fragment), NEW t \in Seq(Fragment)
  PROVE  /\ \A i \in DOMAIN s : \E j \in DOMAIN (s \o t) : (s \o t)[j] = s[i]
         /\ \A i \in DOMAIN t : \E j \in DOMAIN (s \o t) : (s \o t)[j] = t[i]
         /\ \A i \in DOMAIN (s \o t) : \/ \E j \in DOMAIN s : (s \o t)[i] = s[j]
                                       \/ \E j \in DOMAIN t : (s \o t)[i] = t[j]
<1>1. ASSUME NEW i \in DOMAIN s PROVE \E j \in DOMAIN (s \o t) : (s \o t)[j] = s[i]
  BY ConcatElements
<1>2. ASSUME NEW i \in DOMAIN t PROVE \E j \in DOMAIN (s \o t) : (s \o t)[j] = t[i]
  <2>1. Len(s) + i \in DOMAIN (s \o t) /\ (s \o t)[Len(s) + i] = t[i]
    BY ConcatElements
  <2> QED BY <2>1
<1>3. ASSUME NEW i \in DOMAIN (s \o t)
      PROVE  \/ \E j \in DOMAIN s : (s \o t)[i] = s[j]
             \/ \E j \in DOMAIN t : (s \o t)[i] = t[j]
  <2>1. CASE i \in DOMAIN s /\ (s \o t)[i] = s[i]
    BY <2>1
  <2>2. CASE i - Len(s) \in DOMAIN t /\ (s \o t)[i] = t[i - Len(s)]
    BY <2>2
  <2> QED BY <2>1, <2>2, ConcatElements
<1> QED BY <1>1, <1>2, <1>3

LEMMA AheadConcat ==
  ASSUME NEW k, NEW rp, NEW s \in Seq(Fragment), NEW t \in Seq(Fragment)
  PROVE  AheadOf(k, rp, s \o t) <=> AheadOf(k, rp, s) /\ AheadOf(k, rp, t)
<1>1. ASSUME AheadOf(k, rp, s \o t) PROVE AheadOf(k, rp, s) /\ AheadOf(k, rp, t)
  BY <1>1, ConcatMembers DEF AheadOf
<1>2. ASSUME AheadOf(k, rp, s), AheadOf(k, rp, t) PROVE AheadOf(k, rp, s \o t)
  BY <1>2, ConcatElements DEF AheadOf
<1> QED BY <1>1, <1>2

LEMMA PrecedesConcat ==
  ASSUME NEW s \in Seq(Fragment), NEW t \in Seq(Fragment), NEW u \in Seq(Fragment)
  PROVE  /\ Precedes(u, s \o t) <=> Precedes(u, s) /\ Precedes(u, t)
         /\ Precedes(s \o t, u) <=> Precedes(s, u) /\ Precedes(t, u)
<1>1. Precedes(u, s \o t) <=> Precedes(u, s) /\ Precedes(u, t)
  BY AheadConcat DEF Precedes
<1>2. ASSUME Precedes(s \o t, u) PROVE Precedes(s, u) /\ Precedes(t, u)
  BY <1>2, ConcatMembers DEF Precedes
<1>3. ASSUME Precedes(s, u), Precedes(t, u) PROVE Precedes(s \o t, u)
  BY <1>3, ConcatElements DEF Precedes
<1> QED BY <1>1, <1>2, <1>3

LEMMA OrderedConcat ==
  ASSUME NEW s \in Seq(Fragment), NEW t \in Seq(Fragment)
  PROVE  Ordered(s \o t) <=> Ordered(s) /\ Ordered(t) /\ Precedes(s, t)
<1>0. /\ Len(s) \in Nat /\ DOMAIN s \subseteq Nat /\ DOMAIN t \subseteq Nat
      /\ \A i \in DOMAIN s : i \in DOMAIN (s \o t) /\ (s \o t)[i] = s[i] /\ i <= Len(s)
      /\ \A i \in DOMAIN t : /\ Len(s) + i \in DOMAIN (s \o t) /\ (s \o t)[Len(s) + i] = t[i]
                             /\ i > 0
      /\ \A i \in DOMAIN (s \o t) :
           \/ i \in DOMAIN s /\ (s \o t)[i] = s[i]
           \/ /\ i - Len(s) \in DOMAIN t /\ (s \o t)[i] = t[i - Len(s)]
              /\ i \in Nat /\ i > Len(s)
  BY ConcatElements
<1>1. ASSUME Ordered(s \o t) PROVE Ordered(s)
  BY <1>0, <1>1 DEF Ordered
<1>2. ASSUME Ordered(s \o t) PROVE Ordered(t)
  <2> SUFFICES ASSUME NEW i \in DOMAIN t, NEW j \in DOMAIN t, i < j, ~t[i].rnal, ~t[j].rnal
               PROVE  Earlier(t[i].seq, t[i].rp, t[j].seq, t[j].rp)
    BY DEF Ordered
  <2>1. /\ Len(s) + i \in DOMAIN (s \o t) /\ (s \o t)[Len(s) + i] = t[i]
        /\ Len(s) + j \in DOMAIN (s \o t) /\ (s \o t)[Len(s) + j] = t[j]
        /\ Len(s) + i < Len(s) + j
    BY <1>0
  <2> QED BY <1>2, <2>1 DEF Ordered
<1>3. ASSUME Ordered(s \o t) PROVE Precedes(s, t)
  <2> SUFFICES ASSUME NEW i \in DOMAIN s, NEW j \in DOMAIN t, ~s[i].rnal, ~t[j].rnal
               PROVE  Earlier(s[i].seq, s[i].rp, t[j].seq, t[j].rp)
    BY DEF Precedes, AheadOf
  <2>1. /\ i \in DOMAIN (s \o t) /\ (s \o t)[i] = s[i]
        /\ Len(s) + j \in DOMAIN (s \o t) /\ (s \o t)[Len(s) + j] = t[j]
        /\ i < Len(s) + j
    BY <1>0
  <2> QED BY <1>3, <2>1 DEF Ordered
<1>4. ASSUME Ordered(s), Ordered(t), Precedes(s, t) PROVE Ordered(s \o t)
  <2> DEFINE u == s \o t
  <2> SUFFICES ASSUME NEW i \in DOMAIN u, NEW j \in DOMAIN u, i < j, ~u[i].rnal, ~u[j].rnal
               PROVE  Earlier(u[i].seq, u[i].rp, u[j].seq, u[j].rp)
    BY DEF Ordered
  <2> HIDE DEF u
  <2>0. /\ (i \in DOMAIN s /\ u[i] = s[i]) \/ (i - Len(s) \in DOMAIN t /\ u[i] = t[i - Len(s)]
                                               /\ i \in Nat /\ i > Len(s))
        /\ (j \in DOMAIN s /\ u[j] = s[j]) \/ (j - Len(s) \in DOMAIN t /\ u[j] = t[j - Len(s)]
                                               /\ j \in Nat /\ j > Len(s))
    BY <1>0 DEF u
  <2>1. CASE i \in DOMAIN s /\ u[i] = s[i] /\ j \in DOMAIN s /\ u[j] = s[j]
    BY <1>4, <2>1 DEF Ordered
  <2>2. CASE i \in DOMAIN s /\ u[i] = s[i] /\ j - Len(s) \in DOMAIN t /\ u[j] = t[j - Len(s)]
    BY <1>4, <2>2 DEF Precedes, AheadOf
  <2>3. CASE /\ i - Len(s) \in DOMAIN t /\ u[i] = t[i - Len(s)] /\ i \in Nat
             /\ j - Len(s) \in DOMAIN t /\ u[j] = t[j - Len(s)] /\ j \in Nat
    <3>1. i - Len(s) < j - Len(s)
      BY <1>0, <2>3
    <3> QED BY <1>4, <2>3, <3>1 DEF Ordered
  <2>4. CASE i > Len(s) /\ i \in Nat /\ j \in DOMAIN s
    BY <1>0, <2>4
  <2> QED BY <2>0, <2>1, <2>2, <2>3, <2>4
<1> QED BY <1>1, <1>2, <1>3, <1>4

\* One subpacket, and none.
LEMMA SingleLine ==
  ASSUME NEW f \in Fragment
  PROVE  /\ <<f>> \in Seq(Fragment) /\ <<>> \in Seq(Fragment)
         /\ Ordered(<<f>>) /\ Ordered(<<>>)
         /\ \A s : Precedes(<<>>, s) /\ Precedes(s, <<>>)
         /\ \A s : Precedes(<<f>>, s) <=> (~f.rnal => AheadOf(f.seq, f.rp, s))
         /\ \A k, rp : AheadOf(k, rp, <<f>>) <=> (~f.rnal => Earlier(k, rp, f.seq, f.rp))
         /\ \A k, rp : AheadOf(k, rp, <<>>)
<1>1. DOMAIN <<f>> = {1} /\ <<f>>[1] = f /\ <<f>> \in Seq(Fragment)
  OBVIOUS
<1>2. DOMAIN <<>> = {} /\ <<>> \in Seq(Fragment)
  OBVIOUS
<1>3. Ordered(<<f>>)
  BY <1>1 DEF Ordered
<1>4. \A k, rp : AheadOf(k, rp, <<f>>) <=> (~f.rnal => Earlier(k, rp, f.seq, f.rp))
  BY <1>1 DEF AheadOf
<1>5. \A s : Precedes(<<f>>, s) <=> (~f.rnal => AheadOf(f.seq, f.rp, s))
  BY <1>1 DEF Precedes
<1>6. Ordered(<<>>) /\ \A s : Precedes(<<>>, s)
  BY <1>2 DEF Ordered, Precedes
<1>7. \A k, rp : AheadOf(k, rp, <<>>)
  BY <1>2 DEF AheadOf
<1>8. \A s : Precedes(s, <<>>)
  BY <1>7 DEF Precedes
<1> QED BY <1>1, <1>2, <1>3, <1>4, <1>5, <1>6, <1>7, <1>8

\* A sequence is its head and the rest.
LEMMA HeadRest ==
  ASSUME NEW s \in Seq(Fragment), s # <<>>
  PROVE  /\ s[1] \in Fragment /\ Tail(s) \in Seq(Fragment)
         /\ s = <<s[1]>> \o Tail(s) /\ Head(s) = s[1] /\ RemoveAt(s, 1) = Tail(s)
         /\ \A i \in DOMAIN Tail(s) : i + 1 \in DOMAIN s /\ Tail(s)[i] = s[i + 1]
         /\ 1 \in DOMAIN s
<1>1. Len(s) \in Nat \ {0} /\ DOMAIN s = 1..Len(s)
  BY EmptySeq, LenProperties
<1>2. /\ Head(s) = s[1] /\ s[1] \in Fragment /\ Tail(s) \in Seq(Fragment)
      /\ Len(Tail(s)) = Len(s) - 1 /\ \A i \in 1..Len(Tail(s)) : Tail(s)[i] = s[i + 1]
  BY <1>1, HeadTailProperties, ElementOfSeq
<1>3. s = <<s[1]>> \o Tail(s)
  <2>1. SubSeq(s, 1, Len(s)) = s
    BY SubSeqFull
  <2>2. SubSeq(s, 1, Len(s)) = <<s[1]>> \o SubSeq(s, 2, Len(s))
    <3>1. 1 \in 1..Len(s) /\ Len(s) \in 1..Len(s) /\ 1 + 1 = 2
      BY <1>1
    <3>2. SubSeq(s, 1, Len(s)) = <<s[1]>> \o SubSeq(s, 1 + 1, Len(s))
      BY <3>1, SubSeqRecursiveFirst
    <3> QED BY <3>1, <3>2
  <2> QED BY <2>1, <2>2, TailIsSubSeq
<1>4. RemoveAt(s, 1) = Tail(s)
  <2>1. RemoveAt(s, 1) = SubSeq(s, 1, 1 - 1) \o SubSeq(s, 1 + 1, Len(s))
    BY DEF RemoveAt
  <2>2. 1 - 1 = 0 /\ 1 + 1 = 2 /\ 0 < 1
    OBVIOUS
  <2>3. SubSeq(s, 1, 0) = <<>>
    BY <2>2, SubSeqEmpty
  <2>4. RemoveAt(s, 1) = <<>> \o Tail(s)
    BY <2>1, <2>2, <2>3, TailIsSubSeq
  <2> QED BY <1>2, <2>4, ConcatEmptySeq
<1>5. \A i \in DOMAIN Tail(s) : i + 1 \in DOMAIN s /\ Tail(s)[i] = s[i + 1]
  <2>1. DOMAIN Tail(s) = 1..(Len(s) - 1)
    BY <1>2, LenProperties
  <2> QED BY <1>1, <1>2, <2>1
<1> QED BY <1>1, <1>2, <1>3, <1>4, <1>5

\* A subpacket read from the network, when no queue is worked off.
LEMMA TakenFromNet ==
  ASSUME NEW q \in Seq(Fragment), NEW n \in Seq(Fragment), n # <<>>, Lined(q, <<>>, n)
  PROVE  Taken(n[1], q, <<>>, Tail(n))
<1> DEFINE f == n[1]
           m == Tail(n)
<1>1. f \in Fragment /\ m \in Seq(Fragment) /\ n = <<f>> \o m
  BY HeadRest
<1> HIDE DEF f, m
<1>2. <<f>> \in Seq(Fragment)
  BY <1>1, SingleLine
<1>3. Ordered(m) /\ Precedes(<<f>>, m) /\ Precedes(q, <<f>>) /\ Precedes(q, m)
  BY <1>1, <1>2, OrderedConcat, PrecedesConcat DEF Lined
<1> QED BY <1>1, <1>3, SingleLine DEF Lined, Taken, f, m

\* A subpacket from the queue that is worked off.
LEMMA TakenFromWork ==
  ASSUME NEW q \in Seq(Fragment), NEW w \in Seq(Fragment), NEW n \in Seq(Fragment),
         w # <<>>, Lined(q, w, n)
  PROVE  Taken(w[1], q, Tail(w), n)
<1> DEFINE f == w[1]
           r == Tail(w)
<1>1. f \in Fragment /\ r \in Seq(Fragment) /\ w = <<f>> \o r
  BY HeadRest
<1> HIDE DEF f, r
<1>2. <<f>> \in Seq(Fragment)
  BY <1>1, SingleLine
<1>3. /\ Ordered(r) /\ Precedes(<<f>>, r) /\ Precedes(q, <<f>>) /\ Precedes(q, r)
      /\ Precedes(<<f>>, n) /\ Precedes(r, n)
  BY <1>1, <1>2, OrderedConcat, PrecedesConcat DEF Lined
<1> QED BY <1>1, <1>3, SingleLine DEF Lined, Taken, f, r

\* What is done with f leaves the others in line: q given up or put before w, or f put behind q.
LEMMA LinedAfter ==
  ASSUME NEW q \in Seq(Fragment), NEW w \in Seq(Fragment), NEW n \in Seq(Fragment),
         NEW f \in Fragment, Taken(f, q, w, n)
  PROVE  /\ Lined(q, w, n) /\ Lined(<<>>, w, n) /\ Lined(<<>>, q \o w, n)
         /\ ~f.rnal => Lined(q \o <<f>>, w, n)
<1>1. <<f>> \in Seq(Fragment) /\ Ordered(<<f>>) /\ Ordered(<<>>)
  BY SingleLine
<1>2. Lined(<<>>, w, n)
  BY <1>1, SingleLine DEF Taken, Lined
<1>3. Lined(<<>>, q \o w, n)
  <2>1. Ordered(q \o w) /\ Precedes(q \o w, n)
    BY OrderedConcat, PrecedesConcat DEF Taken, Lined
  <2> QED BY <1>1, <2>1, SingleLine DEF Taken, Lined
<1>4. ASSUME ~f.rnal PROVE Lined(q \o <<f>>, w, n)
  <2>1. Precedes(<<f>>, w) /\ Precedes(<<f>>, n)
    BY <1>4, SingleLine DEF Taken
  <2>2. Ordered(q \o <<f>>) /\ Precedes(q \o <<f>>, w) /\ Precedes(q \o <<f>>, n)
    BY <1>1, <2>1, OrderedConcat, PrecedesConcat DEF Taken, Lined
  <2> QED BY <2>2 DEF Taken, Lined
<1> QED BY <1>2, <1>3, <1>4 DEF Taken

\* Whatever is ahead of a sequence is ahead of its head and the rest, and of an appended one.
LEMMA AheadHead ==
  ASSUME NEW k, NEW rp, NEW s \in Seq(Fragment), s # <<>>, AheadOf(k, rp, s)
  PROVE  AheadOf(k, rp, Tail(s)) /\ (~s[1].rnal => Earlier(k, rp, s[1].seq, s[1].rp))
BY HeadRest DEF AheadOf

\* What is ahead of s with a number is so with a higher one, and what is earlier is ahead too.
LEMMA AheadMonotone ==
  ASSUME NEW k \in Nat, NEW lo \in Nat, NEW rp \in Nat, NEW s \in Seq(Fragment),
         NEW l \in Nat
  PROVE  /\ AheadOf(k, lo, s) /\ rp >= lo => AheadOf(k, rp, s)
         /\ AheadOf(k, 0, s) => AheadOf(k, rp, s)
         /\ AheadOf(l, lo, s) /\ Earlier(k, rp, l, lo) => AheadOf(k, rp, s)
<1>1. \A i \in DOMAIN s : s[i].seq \in Nat /\ s[i].rp \in Nat
  <2>1. \A i \in DOMAIN s : s[i] \in Fragment
    BY ElementOfSeq, LenProperties
  <2> QED BY <2>1, SubpacketsAssumption DEF Fragment
<1> QED BY <1>1 DEF AheadOf, Earlier

-------------------------------------------------------------------------------
(* In order: the inductive invariant.                                          *)

\* One datagram after the other: none overtakes or doubles another, and no frame id comes
\* round again.
FifoNetwork == Window = 1 /\ MaxCopies <= 1 /\ MaxFrames < FrameIds

Total(k) == SubpacketCount(frames[k].size)

Sent(k, rp) ==
  /\ k \in DOMAIN frames /\ rp \in 0..(Total(k) - 1)
  /\ k < Len(frames) \/ rp >= unsent

AllSent(s) == \A i \in DOMAIN s : Sent(s[i].seq, s[i].rp)

\* Subpacket rp of frame k was sent, and its NAL came or is lost.
Past(k, rp) ==
  Sent(k, rp) /\ AheadOf(k, rp, asm.queue) /\ AheadOf(k, rp, work) /\ AheadOf(k, rp, net)

LineInv ==
  /\ Lined(asm.queue, work, net)
  /\ AllSent(asm.queue) /\ AllSent(work) /\ AllSent(net)
  /\ \A i \in DOMAIN work : ~work[i].rnal
  /\ \A i \in DOMAIN net : net[i].rnal => Past(net[i].seq, net[i].rp)

\* What came of the frame under assembly, and last of all its previous subpacket.
ProgressInv ==
  asm.id # NoFrame =>
    /\ asm.previous \in (0..(asm.total - 1)) \ asm.remaining
    /\ \A rp \in (0..(asm.total - 1)) \ asm.remaining : Past(asm.id, rp)

RequestPast(r) ==
  /\ r.id \in DOMAIN frames /\ r.size = frames[r.id].size
  /\ \A rp \in r.ids : Past(r.id, rp)

RequestsPast == \A n \in DOMAIN requests : RequestPast(requests[n])

CacheInv ==
  /\ \A c \in cache : c.rnal
  /\ \A k \in DOMAIN frames : \A rp \in 0..(Total(k) - 1) :
       Sent(k, rp) => \/ k <= Len(frames) - CacheFrames
                      \/ \E c \in cache : c.seq = k /\ c.size = frames[k].size /\ c.rp = rp

Waits(j, s) == \E i \in DOMAIN s : s[i].seq = j

OrderInv == LineInv /\ ProgressInv /\ RequestsPast /\ CacheInv

\* The types these conjuncts need.
LEMMA LineTypes ==
  ASSUME Inv
  PROVE  /\ asm \in AssemblerState /\ asm.queue \in Seq(Fragment) /\ work \in Seq(Fragment)
         /\ net \in Seq(Fragment) /\ requests \in Seq(RequestType)
         /\ assembled \in Seq(Seq(0..MaxFrames))
         /\ frames \in Seq([size : FrameSizes, key : BOOLEAN])
         /\ DOMAIN frames = 1..Len(frames) /\ Len(frames) \in Nat /\ unsent \in Nat
         /\ DOMAIN frames \subseteq 1..MaxFrames
         /\ \A k \in DOMAIN frames : Total(k) \in Nat \ {0}
<1>1. asm \in AssemblerState /\ asm.queue \in Seq(Fragment)
  BY DEF Inv, AssemblerInv, AssemblerTypeOK, AssemblerState
<1>2. /\ work \in Seq(Fragment) /\ net \in Seq(Fragment) /\ requests \in Seq(RequestType)
      /\ assembled \in Seq(Seq(0..MaxFrames)) /\ unsent \in Nat
      /\ frames \in Seq([size : FrameSizes, key : BOOLEAN]) /\ Len(frames) <= MaxFrames
  BY DEF Inv, TypeOK, AssemblerTypeOK
<1>3. DOMAIN frames = 1..Len(frames) /\ Len(frames) \in Nat
  BY <1>2, LenProperties
<1>4. \A k \in DOMAIN frames : Total(k) \in Nat \ {0}
  <2> SUFFICES ASSUME NEW k \in 1..Len(frames) PROVE Total(k) \in Nat \ {0}
    BY <1>3
  <2>1. frames[k] \in [size : FrameSizes, key : BOOLEAN]
    BY <1>2, ElementOfSeq
  <2> QED BY <2>1, CountType DEF Total
<1> QED BY <1>1, <1>2, <1>3, <1>4, SubpacketsAssumption

\* While frames are sent as before, so is each subpacket.
LEMMA SentUnchanged ==
  ASSUME UNCHANGED <<frames, unsent>>
  PROVE  /\ \A k, rp : Sent(k, rp)' <=> Sent(k, rp)
         /\ \A k : Total(k)' = Total(k)
BY DEF Sent, Total

\* What is past with a number is past with a higher one.
LEMMA PastHigher ==
  ASSUME Inv', UNCHANGED <<frames, unsent>>, NEW k, NEW lo, Past(k, lo)',
         NEW rp \in 0..(Total(k) - 1), rp >= lo
  PROVE  Past(k, rp)'
<1>1. Sent(k, lo)
  BY SentUnchanged DEF Past
<1>2. asm'.queue \in Seq(Fragment) /\ work' \in Seq(Fragment) /\ net' \in Seq(Fragment)
  BY DEF Inv, TypeOK, AssemblerTypeOK, AssemblerState
<1>3. k \in Nat /\ lo \in Nat /\ rp \in Nat /\ unsent' = unsent
  <2>1. frames' \in Seq([size : FrameSizes, key : BOOLEAN]) /\ frames' = frames
    BY DEF Inv, TypeOK
  <2>2. DOMAIN frames = 1..Len(frames)
    BY <2>1, LenProperties
  <2> QED BY <1>1, <2>2 DEF Sent
<1>4. Sent(k, rp)'
  <2>1. Sent(k, rp)
    <3>1. unsent \in Nat
      BY DEF Inv, TypeOK
    <3> QED BY <1>1, <1>3, <3>1 DEF Sent
  <2> QED BY <2>1, SentUnchanged
<1> QED BY <1>2, <1>3, <1>4, AheadMonotone DEF Past

-------------------------------------------------------------------------------
(* In order: a subpacket is fed to the assembler.                              *)

\* f is the next subpacket, from the network or from the queue that is worked off; `rest' is
\* what is left of that queue.
Fed(f, rest) ==
  /\ f \in Fragment /\ rest \in Seq(Fragment) /\ net' \in Seq(Fragment) /\ Genuine(f)
  /\ Taken(f, asm.queue, rest, net')
  /\ Sent(f.seq, f.rp) /\ AllSent(rest) /\ AllSent(net')
  /\ \A i \in DOMAIN rest : ~rest[i].rnal
  /\ \A i \in DOMAIN net' : net'[i].rnal => Past(net'[i].seq, net'[i].rp)
  /\ f.rnal => Past(f.seq, f.rp)
  /\ \A k, rp : Past(k, rp) => /\ AheadOf(k, rp, rest) /\ AheadOf(k, rp, net')
                               /\ ~f.rnal => Earlier(k, rp, f.seq, f.rp)
  /\ \A j : Waits(j, work) => (~f.rnal /\ j = f.seq) \/ Waits(j, rest)
  /\ UNCHANGED serverVars

LEMMA FedFromNet ==
  ASSUME FifoNetwork, Inv, WholeInv, LineInv, NEW i \in 1..Window, ReceiveFragment(i)
  PROVE  Fed(net[i], <<>>) /\ Packet(net[i], <<>>) /\ work = <<>>
<1>1. /\ i = 1 /\ work = <<>> /\ net # <<>> /\ net' = RemoveAt(net, 1) /\ UNCHANGED serverVars
      /\ Packet(net[1], <<>>)
  <2>1. i = 1 /\ Len(net) >= 1
    BY DEF ReceiveFragment, FifoNetwork, Inv, TypeOK
  <2> QED BY <2>1 DEF ReceiveFragment
<1> PICK f : f = net[1]
  OBVIOUS
<1>2. /\ asm.queue \in Seq(Fragment) /\ net \in Seq(Fragment)
      /\ f \in Fragment /\ Tail(net) \in Seq(Fragment) /\ net = <<f>> \o Tail(net)
      /\ net' = Tail(net) /\ <<>> \in Seq(Fragment) /\ <<f>> \in Seq(Fragment)
      /\ \A j \in DOMAIN net' : j + 1 \in DOMAIN net /\ net'[j] = net[j + 1]
      /\ 1 \in DOMAIN net
  BY <1>1, LineTypes, HeadRest, SingleLine
<1>3. Taken(f, asm.queue, <<>>, net')
  BY <1>1, <1>2, TakenFromNet DEF LineInv
<1>4. /\ Genuine(f) /\ Sent(f.seq, f.rp)
      /\ f.rnal => Past(f.seq, f.rp)
  BY <1>1, <1>2 DEF WholeInv, OnlyGenuine, AllGenuine, LineInv, AllSent
<1>5. AllSent(net') /\ \A j \in DOMAIN net' : net'[j].rnal => Past(net'[j].seq, net'[j].rp)
  BY <1>2 DEF LineInv, AllSent
<1>6. ASSUME NEW k, NEW rp, Past(k, rp)
      PROVE  AheadOf(k, rp, net') /\ (~f.rnal => Earlier(k, rp, f.seq, f.rp))
  <2>1. AheadOf(k, rp, net)
    BY <1>6 DEF Past
  <2> QED BY <1>1, <1>2, <2>1, AheadHead
<1>7. \A j : ~Waits(j, work)
  BY <1>1 DEF Waits
<1>8. DOMAIN <<>> = {}
  OBVIOUS
<1>9. AllSent(<<>>) /\ \A k, rp : AheadOf(k, rp, <<>>)
  BY <1>8 DEF AllSent, AheadOf
<1>10. Fed(f, <<>>)
  BY <1>1, <1>2, <1>3, <1>4, <1>5, <1>6, <1>7, <1>8, <1>9 DEF Fed
<1> QED BY <1>1, <1>10

LEMMA FedFromWork ==
  ASSUME Inv, WholeInv, LineInv, Requeue
  PROVE  /\ Fed(Head(work), Tail(work)) /\ Packet(Head(work), Tail(work)) /\ UNCHANGED net
         /\ ~Head(work).rnal
<1>1. work # <<>> /\ UNCHANGED <<serverVars, net>> /\ Packet(Head(work), Tail(work))
  BY DEF Requeue, FeedQueued
<1> PICK f : f = work[1]
  OBVIOUS
<1> PICK rest : rest = Tail(work)
  OBVIOUS
<1>2. /\ asm.queue \in Seq(Fragment) /\ net \in Seq(Fragment) /\ work \in Seq(Fragment)
      /\ f \in Fragment /\ rest \in Seq(Fragment) /\ work = <<f>> \o rest
      /\ \A j \in DOMAIN rest : j + 1 \in DOMAIN work /\ rest[j] = work[j + 1]
      /\ 1 \in DOMAIN work /\ Head(work) = f /\ <<f>> \in Seq(Fragment)
  BY <1>1, LineTypes, HeadRest, SingleLine
<1>3. Taken(f, asm.queue, rest, net')
  BY <1>1, <1>2, TakenFromWork DEF LineInv
<1>4. Genuine(f) /\ Sent(f.seq, f.rp) /\ ~f.rnal
  BY <1>2 DEF WholeInv, OnlyGenuine, AllGenuine, LineInv, AllSent
<1>5. /\ AllSent(net') /\ \A j \in DOMAIN net' : net'[j].rnal => Past(net'[j].seq, net'[j].rp)
      /\ AllSent(rest) /\ \A j \in DOMAIN rest : ~rest[j].rnal
  BY <1>1, <1>2 DEF LineInv, AllSent
<1>6. ASSUME NEW k, NEW rp, Past(k, rp)
      PROVE  AheadOf(k, rp, rest) /\ AheadOf(k, rp, net') /\ Earlier(k, rp, f.seq, f.rp)
  <2>1. AheadOf(k, rp, work) /\ AheadOf(k, rp, net)
    BY <1>6 DEF Past
  <2>2. AheadOf(k, rp, Tail(work)) /\ (~work[1].rnal => Earlier(k, rp, work[1].seq, work[1].rp))
    BY <1>1, <1>2, <2>1, AheadHead
  <2> QED BY <1>1, <1>4, <2>1, <2>2
<1>7. \A j : Waits(j, work) => (~f.rnal /\ j = f.seq) \/ Waits(j, rest)
  <2> SUFFICES ASSUME NEW j, NEW i \in DOMAIN work, work[i].seq = j
               PROVE  (~f.rnal /\ j = f.seq) \/ Waits(j, rest)
    BY DEF Waits
  <2>1. CASE i \in DOMAIN <<f>> /\ work[i] = <<f>>[i]
    BY <1>4, <2>1
  <2>2. CASE i - Len(<<f>>) \in DOMAIN rest /\ work[i] = rest[i - Len(<<f>>)]
    BY <2>2 DEF Waits
  <2> QED BY <1>2, <2>1, <2>2, ConcatElements
<1> QED BY <1>1, <1>2, <1>3, <1>4, <1>5, <1>6, <1>7 DEF Fed

\* When f is used or skipped, what waits behind the frame stays, is fed next or given up.
Consumed(rest) ==
  \/ asm'.queue \in {asm.queue, <<>>} /\ work' = rest
  \/ asm'.queue = <<>> /\ work' = asm.queue \o rest

LEMMA ConsumedLine ==
  ASSUME Inv, LineInv, QueueHoldsOthers, NEW f, NEW rest, Fed(f, rest), Consumed(rest)
  PROVE  /\ LineInv'
         /\ \A k, rp : Past(k, rp) => Past(k, rp)'
<1>1. /\ asm.queue \in Seq(Fragment) /\ rest \in Seq(Fragment) /\ net' \in Seq(Fragment)
      /\ f \in Fragment /\ <<>> \in Seq(Fragment)
  BY LineTypes, SingleLine DEF Fed
<1>2. \A k, rp : Sent(k, rp)' <=> Sent(k, rp)
  BY SentUnchanged DEF Fed, serverVars
<1>3. Lined(asm'.queue, work', net')
  BY <1>1, LinedAfter DEF Fed, Consumed
<1>4. ASSUME NEW k, NEW rp, Past(k, rp) PROVE Past(k, rp)'
  <2>1. AheadOf(k, rp, asm.queue) /\ AheadOf(k, rp, rest) /\ AheadOf(k, rp, net')
    BY <1>4 DEF Fed, Past
  <2>2. AheadOf(k, rp, asm.queue \o rest) /\ AheadOf(k, rp, <<>>)
    BY <1>1, <2>1, AheadConcat, SingleLine
  <2>3. AheadOf(k, rp, asm'.queue) /\ AheadOf(k, rp, work')
    BY <2>1, <2>2 DEF Consumed
  <2> QED BY <1>2, <1>4, <2>1, <2>3 DEF Past
<1>5. /\ \A i \in DOMAIN asm'.queue : i \in DOMAIN asm.queue /\ asm'.queue[i] = asm.queue[i]
      /\ \A i \in DOMAIN work' : \/ \E j \in DOMAIN asm.queue : work'[i] = asm.queue[j]
                                 \/ \E j \in DOMAIN rest : work'[i] = rest[j]
  <2>1. \A i \in DOMAIN (asm.queue \o rest) :
          \/ \E j \in DOMAIN asm.queue : (asm.queue \o rest)[i] = asm.queue[j]
          \/ \E j \in DOMAIN rest : (asm.queue \o rest)[i] = rest[j]
    BY <1>1, ConcatMembers
  <2>2. DOMAIN <<>> = {}
    OBVIOUS
  <2> QED BY <2>1, <2>2 DEF Consumed
<1>6. AllSent(asm'.queue) /\ AllSent(work') /\ AllSent(net')
  BY <1>5 DEF LineInv, Fed, AllSent
<1>7. \A i \in DOMAIN work' : ~work'[i].rnal
  BY <1>5 DEF QueueHoldsOthers, Fed
<1>8. \A i \in DOMAIN net' : net'[i].rnal => Past(net'[i].seq, net'[i].rp)
  BY DEF Fed
<1>9. LineInv'
  <2>1. /\ AllSent(asm.queue)' /\ AllSent(work)' /\ AllSent(net)'
    BY <1>2, <1>6 DEF AllSent
  <2>2. ASSUME NEW i \in DOMAIN net', NEW g, g = net'[i], g.rnal
        PROVE  Past(g.seq, g.rp)'
    BY <1>4, <1>8, <2>2
  <2> QED BY <1>3, <1>7, <2>1, <2>2 DEF LineInv
<1> QED BY <1>4, <1>9

\* f itself is past when nothing waits that was sent before it.
LEMMA ConsumedPast ==
  ASSUME Inv, LineInv, QueueHoldsOthers, NEW f, NEW rest, Fed(f, rest), Consumed(rest),
         f.rnal \/ (asm'.queue = <<>> /\ work' = rest)
  PROVE  Past(f.seq, f.rp)'
<1>1. CASE f.rnal
  BY <1>1, ConsumedLine DEF Fed
<1>2. CASE ~f.rnal /\ asm'.queue = <<>> /\ work' = rest
  <2>1. AheadOf(f.seq, f.rp, rest) /\ AheadOf(f.seq, f.rp, net') /\ Sent(f.seq, f.rp)'
    BY <1>2, SentUnchanged DEF Fed, Taken, serverVars
  <2>2. AheadOf(f.seq, f.rp, <<>>)
    BY DEF AheadOf
  <2> QED BY <1>2, <2>1, <2>2 DEF Past
<1> QED BY <1>1, <1>2

\* A postponed subpacket is behind the others, and before what is left.
LEMMA PostponedLine ==
  ASSUME Inv, LineInv, NEW f, NEW rest, Fed(f, rest), ~f.rnal,
         asm'.queue = Append(asm.queue, f), work' = rest
  PROVE  /\ LineInv'
         /\ \A k, rp : Past(k, rp) => Past(k, rp)'
<1>1. /\ asm.queue \in Seq(Fragment) /\ rest \in Seq(Fragment) /\ net' \in Seq(Fragment)
      /\ f \in Fragment /\ <<f>> \in Seq(Fragment)
  BY LineTypes, SingleLine DEF Fed
<1>2. \A k, rp : Sent(k, rp)' <=> Sent(k, rp)
  BY SentUnchanged DEF Fed, serverVars
<1>3. asm'.queue = asm.queue \o <<f>>
  BY <1>1, AppendIsConcat
<1>4. Lined(asm'.queue, work', net')
  BY <1>1, <1>3, LinedAfter DEF Fed
<1>5. ASSUME NEW k, NEW rp, Past(k, rp) PROVE Past(k, rp)'
  <2>1. AheadOf(k, rp, asm.queue) /\ AheadOf(k, rp, rest) /\ AheadOf(k, rp, net')
        /\ AheadOf(k, rp, <<f>>)
    BY <1>1, <1>5, SingleLine DEF Fed, Past
  <2>2. AheadOf(k, rp, asm.queue \o <<f>>)
    BY <1>1, <2>1, AheadConcat
  <2> QED BY <1>2, <1>3, <1>5, <2>1, <2>2 DEF Past
<1>6. \A i \in DOMAIN asm'.queue : \/ i \in DOMAIN asm.queue /\ asm'.queue[i] = asm.queue[i]
                                   \/ asm'.queue[i] = f
  BY <1>1
<1>7. AllSent(asm.queue)' /\ AllSent(work)' /\ AllSent(net)'
  BY <1>2, <1>6 DEF LineInv, Fed, AllSent
<1>8. ASSUME NEW i \in DOMAIN net', NEW g, g = net'[i], g.rnal
      PROVE  Past(g.seq, g.rp)'
  BY <1>5, <1>8 DEF Fed
<1>9. \A i \in DOMAIN work' : ~work'[i].rnal
  BY DEF Fed
<1> QED BY <1>4, <1>5, <1>7, <1>8, <1>9 DEF LineInv

\* What of the frame in progress is kept when f is put into it.
LEMMA OpenedFields ==
  ASSUME AssemblerInv, NEW f \in Fragment, Usable(f)
  PROVE  IF asm.id = IdOf(f.seq)
         THEN Opened(f) = asm
         ELSE /\ Opened(f).queue = <<>> /\ Opened(f).previous = -1
              /\ Opened(f).remaining = 0..(Opened(f).total - 1)
<1>1. IdOf(f.seq) \in 0..(FrameIds - 1) /\ NoFrame \notin 0..(FrameIds - 1)
  BY IdType DEF Fragment, NoFrame
<1>2. asm \in AssemblerState
  BY DEF AssemblerInv, AssemblerTypeOK
<1> DEFINE b == StartFrame(asm, f)
<1>3. /\ b.remaining = 0..(b.total - 1) /\ b.queue = asm.queue /\ b.previous = asm.previous
  BY <1>2 DEF StartFrame, AssemblerState
<1>4. CASE asm.id = IdOf(f.seq)
  BY <1>1, <1>4 DEF Opened
<1>5. CASE asm.id = NoFrame
  <2>1. asm.queue = <<>> /\ asm.previous = -1 /\ Opened(f) = b
    BY <1>5 DEF AssemblerInv, SlotsMatchFrame, Idle, Opened
  <2> QED BY <1>1, <1>3, <1>5, <2>1
<1>6. CASE asm.id # NoFrame /\ asm.id # IdOf(f.seq)
  <2>1. Opened(f) = [b EXCEPT !.queue = <<>>, !.waiting = FALSE, !.previous = -1,
                              !.requested = {}, !.recent = {}]
    BY <1>6 DEF Opened, SwitchToKeyFrame
  <2>2. b \in AssemblerState
    BY <1>2, <1>6, StartFrameFacts DEF AssemblerInv, SlotsMatchFrame, SlotsFilled
  <2> HIDE DEF b
  <2>3. /\ Opened(f).queue = <<>> /\ Opened(f).previous = -1
        /\ Opened(f).remaining = b.remaining /\ Opened(f).total = b.total
    BY <2>1, <2>2 DEF AssemblerState
  <2> QED BY <1>3, <1>6, <2>3
<1> QED BY <1>4, <1>5, <1>6

\* What storing f changes.
LEMMA StoredFields ==
  ASSUME AssemblerInv, NEW f \in Fragment, Usable(f), InBounds(Opened(f), f)
  PROVE  /\ Stored(f).remaining = Opened(f).remaining \ {f.rp}
         /\ Stored(f).previous = Opened(f).previous
         /\ Received(f).previous = f.rp
<1> DEFINE o == Opened(f)
           s == Stored(f)
           k == Ask(s, Gap(f))
           r == Received(f)
<1>1. o \in AssemblerState
  BY OpenedFacts
<1>2. s = [o EXCEPT !.frame = [o.frame EXCEPT ![o.total - f.rp] = f.seq],
                    !.remaining = o.remaining \ {f.rp}]
  BY <1>1 DEF Stored, Store, AssemblerState
<1>3. s \in AssemblerState
  BY StoredFacts
<1>4. k \in AssemblerState
  BY <1>3, GapFacts, AskFacts DEF Gap
<1>5. r = [k EXCEPT !.previous = f.rp]
  BY DEF Received
<1> HIDE DEF o, s, k, r
<1>6. s.remaining = o.remaining \ {f.rp} /\ s.previous = o.previous
  BY <1>1, <1>2 DEF AssemblerState
<1>7. r.previous = f.rp
  BY <1>4, <1>5 DEF AssemblerState
<1> QED BY <1>6, <1>7 DEF o, s, r

\* Which subpackets are put into which frame when none overtakes another.
LEMMA UsableFacts ==
  ASSUME FifoNetwork, Inv, WholeInv, LineInv, ProgressInv,
         NEW f, NEW rest, Fed(f, rest), Usable(f)
  PROVE  /\ IdOf(f.seq) = f.seq /\ f.seq # NoFrame /\ f.seq \in DOMAIN frames
         /\ Opened(f).total = Total(f.seq) /\ Opened(f).id = f.seq
         /\ Opened(f).size = frames[f.seq].size
         /\ f.rnal => asm.id = f.seq
         /\ ~f.rnal => Opened(f).queue = <<>>
<1>1. /\ f \in Fragment /\ Genuine(f) /\ AssemblerInv /\ ExtentGenuine /\ MaxFrames < FrameIds
      /\ f.seq \in 1..MaxFrames
  BY DEF Fed, Inv, WholeInv, OnlyGenuine, FifoNetwork, Fragment
<1>2. IdOf(f.seq) = f.seq /\ f.seq # NoFrame /\ f.seq \in DOMAIN frames
  BY <1>1, IdIsSeq DEF NoFrame, Genuine
<1>3. /\ Opened(f).total = Total(f.seq) /\ Opened(f).id = f.seq
      /\ Opened(f).size = frames[f.seq].size
  BY <1>1, OpenedGenuine DEF Genuine, Total
<1>4. f.rnal => asm.id = f.seq
  BY <1>2 DEF Usable, Useless
<1>5. ASSUME ~f.rnal, asm.id = f.seq, asm.queue # <<>> PROVE FALSE
  <2> PICK g : g = asm.queue[1]
    OBVIOUS
  <2>1. asm.queue \in Seq(Fragment) /\ g \in Fragment /\ 1 \in DOMAIN asm.queue
    BY <1>5, LineTypes, HeadRest
  <2>2. ~g.rnal /\ IdOf(g.seq) # asm.id
    BY <1>1, <2>1 DEF AssemblerInv, QueueHoldsOthers
  <2>3. g.seq # f.seq
    BY <1>1, <1>5, <2>1, <2>2, IdIsSeq DEF Fragment
  <2>4. Past(asm.id, asm.previous)
    BY <1>2, <1>5 DEF ProgressInv
  <2>5. Earlier(f.seq, asm.previous, g.seq, g.rp)
    BY <1>5, <2>1, <2>2, <2>4 DEF Past, AheadOf
  <2>6. Earlier(g.seq, g.rp, f.seq, f.rp)
    <3>1. Precedes(asm.queue, <<f>>)
      BY DEF Fed, Taken
    <3>2. AheadOf(g.seq, g.rp, <<f>>)
      BY <2>1, <2>2, <3>1 DEF Precedes
    <3> QED BY <1>1, <1>5, <3>2, SingleLine
  <2> QED BY <1>1, <2>1, <2>3, <2>5, <2>6 DEF Earlier, Fragment
<1>6. ~f.rnal => Opened(f).queue = <<>>
  <2>1. CASE asm.id = f.seq
    BY <1>1, <1>2, <1>5, <2>1, OpenedFields
  <2>2. CASE asm.id # f.seq
    BY <1>1, <1>2, <2>2, OpenedFields
  <2> QED BY <2>1, <2>2
<1> QED BY <1>2, <1>3, <1>4, <1>6

\* After f is stored, all that is stored of its frame is past.
LEMMA StoredPast ==
  ASSUME FifoNetwork, Inv, WholeInv, LineInv, ProgressInv,
         NEW f, NEW rest, Fed(f, rest), Usable(f), InBounds(Opened(f), f),
         \/ asm'.queue = Opened(f).queue /\ work' = rest
         \/ asm'.queue = <<>> /\ work' = Opened(f).queue \o rest
  PROVE  /\ LineInv'
         /\ \A k, rp : Past(k, rp) => Past(k, rp)'
         /\ f.rp \in 0..(Total(f.seq) - 1) /\ Past(f.seq, f.rp)'
         /\ \A rp \in (0..(Total(f.seq) - 1)) \ Stored(f).remaining : Past(f.seq, rp)'
<1>1. /\ f \in Fragment /\ Genuine(f) /\ AssemblerInv /\ QueueHoldsOthers
      /\ rest \in Seq(Fragment)
  BY DEF Fed, Inv, AssemblerInv
<1>2. Opened(f).queue = asm.queue \/ Opened(f).queue = <<>>
  BY <1>1, ExtentFacts
<1>3. <<>> \o rest = rest
  BY <1>1, ConcatEmptySeq
<1>4. Consumed(rest)
  BY <1>2, <1>3 DEF Consumed
<1>5. LineInv' /\ \A k, rp : Past(k, rp) => Past(k, rp)'
  BY <1>1, <1>4, ConsumedLine
<1>6. f.rnal \/ (asm'.queue = <<>> /\ work' = rest)
  BY <1>3, UsableFacts
<1>7. Past(f.seq, f.rp)'
  BY <1>1, <1>4, <1>6, ConsumedPast
<1>8. f.rp \in 0..(Total(f.seq) - 1)
  BY DEF Fed, Sent
<1>9. ASSUME NEW rp \in (0..(Total(f.seq) - 1)) \ Stored(f).remaining PROVE Past(f.seq, rp)'
  <2>1. rp = f.rp \/ rp \notin Opened(f).remaining
    BY <1>1, StoredFields
  <2>2. CASE rp = f.rp
    BY <1>7, <2>2
  <2>3. CASE rp \notin Opened(f).remaining /\ asm.id = f.seq
    <3>1. asm.id # NoFrame /\ Opened(f) = asm /\ asm.total = Total(f.seq)
      BY <1>1, <2>3, UsableFacts, OpenedFields
    <3>2. Past(asm.id, rp)
      BY <2>3, <3>1 DEF ProgressInv
    <3> QED BY <1>5, <2>3, <3>2
  <2>4. CASE rp \notin Opened(f).remaining /\ asm.id # f.seq
    <3>1. Opened(f).remaining = 0..(Total(f.seq) - 1)
      BY <1>1, <2>4, UsableFacts, OpenedFields
    <3> QED BY <2>4, <3>1
  <2> QED BY <2>1, <2>2, <2>3, <2>4
<1> QED BY <1>5, <1>7, <1>8, <1>9

\* A request for what was past stays one.
LEMMA KeepRequest ==
  ASSUME DOMAIN frames \subseteq DOMAIN frames', \A k \in DOMAIN frames : frames'[k] = frames[k],
         \A k, rp : Past(k, rp) => Past(k, rp)', NEW r, RequestPast(r)
  PROVE  RequestPast(r)'
BY DEF RequestPast

LEMMA RequestsKept ==
  ASSUME Inv, RequestsPast,
         DOMAIN frames \subseteq DOMAIN frames', \A k \in DOMAIN frames : frames'[k] = frames[k],
         \A k, rp : Past(k, rp) => Past(k, rp)',
         requests' = requests \/ (requests # <<>> /\ requests' = Tail(requests))
  PROVE  RequestsPast'
<1> SUFFICES ASSUME NEW n \in DOMAIN requests', NEW r, r = requests'[n] PROVE RequestPast(r)'
  BY DEF RequestsPast
<1>1. \E m \in DOMAIN requests : requests[m] = r
  <2>1. CASE requests' = requests
    BY <2>1
  <2>2. CASE requests # <<>> /\ requests' = Tail(requests)
    <3>1. requests \in Seq(RequestType)
      BY LineTypes
    <3>2. /\ Tail(requests) \in Seq(RequestType) /\ Len(Tail(requests)) = Len(requests) - 1
          /\ \A i \in 1..Len(Tail(requests)) : Tail(requests)[i] = requests[i + 1]
      BY <2>2, <3>1, HeadTailProperties
    <3>3. /\ DOMAIN requests = 1..Len(requests) /\ Len(requests) \in Nat
          /\ DOMAIN Tail(requests) = 1..Len(Tail(requests))
      BY <3>1, <3>2, LenProperties
    <3>4. n \in 1..(Len(requests) - 1) /\ r = requests[n + 1]
      BY <2>2, <3>2, <3>3, Zenon
    <3>5. n + 1 \in DOMAIN requests
      BY <3>3, <3>4
    <3> QED BY <3>4, <3>5
  <2> QED BY <2>1, <2>2
<1>2. RequestPast(r)
  BY <1>1 DEF RequestsPast
<1> QED BY <1>2, KeepRequest

\* The new requests are for what is past, when all that is asked for is.
LEMMA PlayerRequests ==
  ASSUME FifoNetwork, Inv, Inv', WholeInv, WholeInv', RequestsPast,
         NEW f, NEW rest, Fed(f, rest), Packet(f, rest),
         \A k, rp : Past(k, rp) => Past(k, rp)',
         \A rp \in asm'.remaining :
           (StoreFragment(f, rest) => rp \in Gap(f)) => Past(asm.id, rp)'
  PROVE  RequestsPast'
<1>1. /\ f \in Fragment /\ Genuine(f) /\ AssemblerInv /\ ExtentGenuine /\ MaxFrames < FrameIds
      /\ UNCHANGED frames
  BY DEF Fed, Inv, WholeInv, OnlyGenuine, FifoNetwork, serverVars
<1> SUFFICES ASSUME NEW n \in DOMAIN requests', NEW r, r = requests'[n]
             PROVE  RequestPast(r)'
  BY DEF RequestsPast
<1>2. \/ n \in DOMAIN requests /\ r = requests[n]
      \/ ForMissing(r)' /\ (StoreFragment(f, rest) => r.ids = Gap(f))
  BY <1>1, PacketAsks
<1>3. CASE n \in DOMAIN requests /\ r = requests[n]
  BY <1>1, <1>3, KeepRequest DEF RequestsPast
<1>4. CASE ForMissing(r)' /\ (StoreFragment(f, rest) => r.ids = Gap(f))
  <2>1. /\ r.id = asm'.id /\ r.size = asm'.size /\ r.ids \subseteq asm'.remaining
        /\ \A rp \in r.ids : Past(r.id, rp)'
    BY <1>4 DEF ForMissing
  <2>2. r.id \in DOMAIN frames' /\ r.size = frames'[r.id].size
    <3>1. asm'.id # NoFrame
      <4>1. asm'.remaining # {}
        BY <1>4 DEF ForMissing
      <4> QED BY <4>1 DEF Inv, AssemblerInv, SlotsMatchFrame, Idle
    <3> QED BY <2>1, <3>1 DEF WholeInv, OnlyGenuine, ExtentGenuine
  <2> QED BY <2>1, <2>2 DEF RequestPast
<1> QED BY <1>2, <1>3, <1>4

\* A step of the assembler that stores f into a frame it does not complete.
LEMMA StoreOrder ==
  ASSUME FifoNetwork, Inv, Inv', WholeInv, WholeInv', LineInv, ProgressInv, RequestsPast,
         NEW f, NEW rest, Fed(f, rest), Packet(f, rest),
         StoreFragment(f, rest) \/ StoreLastFragment(f, rest)
  PROVE  /\ LineInv' /\ ProgressInv' /\ RequestsPast'
         /\ \A k, rp : Past(k, rp) => Past(k, rp)'
<1>1. /\ f \in Fragment /\ Genuine(f) /\ AssemblerInv /\ Usable(f) /\ InBounds(Opened(f), f)
      /\ work' = rest /\ UNCHANGED <<frames, unsent>>
  BY DEF Fed, Inv, StoreFragment, StoreLastFragment, serverVars
<1>2. /\ asm'.id = Received(f).id /\ asm'.total = Received(f).total
      /\ asm'.remaining = Received(f).remaining /\ asm'.previous = Received(f).previous
      /\ asm'.queue = Received(f).queue
  BY <1>1, LastStoredFacts DEF StoreFragment
<1>3. /\ asm'.id = f.seq /\ asm'.total = Total(f.seq) /\ asm'.remaining = Stored(f).remaining
      /\ asm'.previous = f.rp /\ asm'.queue = Opened(f).queue /\ f.seq \in DOMAIN frames
      /\ f.rp \notin Stored(f).remaining
  BY <1>1, <1>2, UsableFacts, ReceivedFacts, KeptByReceived, StoredFields, StoredFacts
<1>4. /\ LineInv' /\ \A k, rp : Past(k, rp) => Past(k, rp)'
      /\ f.rp \in 0..(Total(f.seq) - 1) /\ Past(f.seq, f.rp)'
      /\ \A rp \in (0..(Total(f.seq) - 1)) \ Stored(f).remaining : Past(f.seq, rp)'
  BY <1>1, <1>3, StoredPast
<1>5. ProgressInv'
  <2>1. /\ asm'.previous \in (0..(asm'.total - 1)) \ asm'.remaining
        /\ \A rp \in (0..(asm'.total - 1)) \ asm'.remaining : Past(f.seq, rp)'
    BY <1>3, <1>4
  <2>2. \A rp : Past(asm.id, rp)' <=> Past(f.seq, rp)'
    BY <1>3 DEF Past, Sent, Total
  <2> QED BY <2>1, <2>2 DEF ProgressInv
<1>6. ASSUME NEW rp \in asm'.remaining, StoreFragment(f, rest) => rp \in Gap(f)
      PROVE  Past(f.seq, rp)'
  <2>1. rp \in 0..(Total(f.seq) - 1) /\ rp \in Nat /\ f.rp \in Nat
    <3>1. asm'.remaining \subseteq 0..(asm'.total - 1)
      <4>1. asm'.id # NoFrame
        BY <1>1, <1>3, UsableFacts
      <4> QED BY <4>1 DEF Inv, AssemblerInv, SlotsMatchFrame, SlotsFilled
    <3> QED BY <1>1, <1>3, <3>1 DEF Fragment
  <2>2. CASE rp >= f.rp
    BY <1>1, <1>4, <2>1, <2>2, PastHigher
  <2>3. CASE StoreFragment(f, rest) /\ rp < f.rp
    <3>1. /\ Stored(f).previous > 0 /\ rp > Stored(f).previous
          /\ Stored(f).previous = Opened(f).previous /\ Stored(f).previous \in Nat \union {-1}
      <4>1. Stored(f) \in AssemblerState /\ rp \in GapBefore(Stored(f), f)
        BY <1>1, <1>6, <2>3, StoredFacts DEF Gap
      <4>2. Stored(f).previous \in Nat \union {-1}
        BY <4>1 DEF AssemblerState
      <4> QED BY <1>1, <2>1, <2>3, <4>1, <4>2, StoredFields DEF GapBefore
    <3>2. asm.id = f.seq /\ asm.id # NoFrame /\ Opened(f) = asm
      BY <1>1, <3>1, UsableFacts, OpenedFields
    <3> PICK lo : lo = asm.previous
      OBVIOUS
    <3>3. Past(f.seq, lo)'
      BY <1>4, <3>2 DEF ProgressInv
    <3>4. lo \in Nat /\ rp >= lo
      BY <2>1, <3>1, <3>2
    <3> QED BY <1>1, <2>1, <3>3, <3>4, PastHigher
  <2>4. CASE StoreLastFragment(f, rest)
    <3>1. rp >= f.rp
      BY <2>1, <2>4 DEF StoreLastFragment
    <3> QED BY <2>2, <3>1
  <2> QED BY <2>1, <2>2, <2>3, <2>4
<1>7. \A rp \in asm'.remaining :
        (StoreFragment(f, rest) => rp \in Gap(f)) => Past(asm.id, rp)'
  <2>1. \A rp : Past(asm.id, rp)' <=> Past(f.seq, rp)'
    BY <1>3 DEF Past, Sent, Total
  <2> QED BY <1>6, <2>1
<1>8. RequestsPast'
  BY <1>4, <1>7, PlayerRequests
<1> QED BY <1>4, <1>5, <1>8

\* A step of the assembler that completes the frame of f.
LEMMA CompleteOrder ==
  ASSUME FifoNetwork, Inv, WholeInv, LineInv, ProgressInv, RequestsPast,
         NEW f, NEW rest, Fed(f, rest), CompleteFrame(f, rest)
  PROVE  /\ LineInv' /\ ProgressInv' /\ RequestsPast'
         /\ \A k, rp : Past(k, rp) => Past(k, rp)'
<1>1. /\ f \in Fragment /\ Genuine(f) /\ AssemblerInv /\ Usable(f) /\ InBounds(Opened(f), f)
      /\ asm' = Idle /\ work' = Stored(f).queue \o rest /\ UNCHANGED <<frames, unsent, requests>>
  BY DEF Fed, Inv, CompleteFrame, serverVars
<1>2. asm'.queue = <<>> /\ work' = Opened(f).queue \o rest /\ asm'.id = NoFrame
  BY <1>1, KeptByReceived, IdleFacts
<1>3. LineInv' /\ \A k, rp : Past(k, rp) => Past(k, rp)'
  BY <1>1, <1>2, StoredPast
<1>4. ProgressInv'
  BY <1>2 DEF ProgressInv
<1>5. RequestsPast'
  BY <1>1, <1>3, RequestsKept
<1> QED BY <1>3, <1>4, <1>5

\* While the frame in progress keeps its extent and what it misses, progress is kept.
LEMMA ProgressKept ==
  ASSUME ProgressInv, \A k, rp : Past(k, rp) => Past(k, rp)',
         asm'.id = asm.id, asm'.total = asm.total, asm'.remaining = asm.remaining,
         asm'.previous = asm.previous
  PROVE  ProgressInv'
<1> PICK id : id = asm.id
  OBVIOUS
<1>1. asm.id # NoFrame => \A rp \in (0..(asm.total - 1)) \ asm.remaining : Past(id, rp)'
  BY DEF ProgressInv
<1>2. \A rp : Past(asm.id, rp)' <=> Past(id, rp)'
  BY DEF Past, Sent, Total
<1> QED BY <1>1, <1>2 DEF ProgressInv

\* The frame in progress is past when a subpacket of a later one is postponed.
LEMMA PostponedPast ==
  ASSUME FifoNetwork, Inv, WholeInv, LineInv, ProgressInv,
         NEW f, NEW rest, Fed(f, rest), Postponed(f),
         asm'.queue = Append(asm.queue, f), work' = rest
  PROVE  /\ asm.id < f.seq /\ asm.id \in DOMAIN frames /\ asm.total = Total(asm.id)
         /\ \A id : id = asm.id => \A rp \in 0..(Total(id) - 1) : Past(id, rp)'
<1>1. /\ f \in Fragment /\ Genuine(f) /\ ExtentGenuine /\ MaxFrames < FrameIds
      /\ f.seq \in 1..MaxFrames /\ f.seq \in Nat /\ f.rp \in Nat
      /\ ~f.rnal /\ asm.id # NoFrame /\ asm.id # f.seq /\ QueueHoldsOthers
  BY IdIsSeq DEF Fed, Inv, AssemblerInv, WholeInv, OnlyGenuine, FifoNetwork, Fragment, Postponed
<1>2. /\ asm.queue \in Seq(Fragment) /\ rest \in Seq(Fragment) /\ net' \in Seq(Fragment)
      /\ <<f>> \in Seq(Fragment)
  BY <1>1, LineTypes, SingleLine DEF Fed
<1> PICK id : id = asm.id
  OBVIOUS
<1> PICK lo : lo = asm.previous
  OBVIOUS
<1>3. /\ id \in DOMAIN frames /\ asm.total = Total(id) /\ id \in Nat
      /\ Total(id) \in Nat \ {0} /\ id \in 1..MaxFrames
      /\ lo \in 0..(Total(id) - 1) /\ Past(id, lo) /\ lo \in Nat
  <2>1. id \in DOMAIN frames /\ asm.total = Total(id)
    BY <1>1 DEF ExtentGenuine, Total
  <2>2. id \in Nat /\ Total(id) \in Nat \ {0} /\ id \in 1..MaxFrames
    BY <2>1, LineTypes
  <2>3. lo \in (0..(asm.total - 1)) \ asm.remaining /\ Past(id, lo)
    BY <1>1 DEF ProgressInv
  <2> QED BY <2>1, <2>2, <2>3
<1>4. id < f.seq
  <2>1. Earlier(id, lo, f.seq, f.rp)
    BY <1>1, <1>3 DEF Fed
  <2> QED BY <1>1, <1>3, <2>1 DEF Earlier
<1>5. f.seq \in DOMAIN frames /\ f.seq <= Len(frames) /\ Len(frames) \in Nat
  BY <1>1, LineTypes DEF Genuine
<1>6. ASSUME NEW rp \in 0..(Total(id) - 1) PROVE Past(id, rp)'
  <2>1. Sent(id, rp)'
    <3>1. Sent(id, rp)
      BY <1>3, <1>4, <1>5, <1>6, <1>1 DEF Sent
    <3> QED BY <3>1, SentUnchanged DEF Fed, serverVars
  <2>2. AheadOf(id, rp, asm.queue)
    <3> SUFFICES ASSUME NEW i \in DOMAIN asm.queue, ~asm.queue[i].rnal
                 PROVE  Earlier(id, rp, asm.queue[i].seq, asm.queue[i].rp)
      BY DEF AheadOf
    <3> PICK g : g = asm.queue[i]
      OBVIOUS
    <3>1. g \in Fragment /\ ~g.rnal /\ IdOf(g.seq) # id /\ Earlier(id, lo, g.seq, g.rp)
      BY <1>1, <1>2, <1>3, ElementOfSeq, LenProperties DEF QueueHoldsOthers, Past, AheadOf
    <3>2. g.seq # id
      BY <1>1, <1>3, <3>1, IdIsSeq
    <3> QED BY <1>3, <3>1, <3>2 DEF Earlier, Fragment
  <2>3. Earlier(id, rp, f.seq, f.rp)
    BY <1>4 DEF Earlier
  <2>4. AheadOf(id, rp, rest) /\ AheadOf(id, rp, net')
    <3>1. AheadOf(f.seq, f.rp, rest) /\ AheadOf(f.seq, f.rp, net')
      BY <1>1 DEF Fed, Taken
    <3>2. rp \in Nat
      BY <1>3
    <3> QED BY <1>1, <1>2, <1>3, <2>3, <3>1, <3>2, AheadMonotone
  <2>5. AheadOf(id, rp, asm'.queue)
    <3>1. AheadOf(id, rp, <<f>>)
      BY <1>1, <2>3, SingleLine
    <3>2. AheadOf(id, rp, asm.queue \o <<f>>)
      BY <1>2, <2>2, <3>1, AheadConcat
    <3>3. asm'.queue = asm.queue \o <<f>>
      BY <1>1, <1>2, AppendIsConcat
    <3> QED BY <3>2, <3>3
  <2> QED BY <2>1, <2>4, <2>5 DEF Past
<1> QED BY <1>3, <1>4, <1>6

\* A step of the assembler that postpones f.
LEMMA QueueOrder ==
  ASSUME FifoNetwork, Inv, Inv', WholeInv, WholeInv', LineInv, ProgressInv, RequestsPast,
         NEW f, NEW rest, Fed(f, rest), Packet(f, rest), QueueFragment(f, rest)
  PROVE  /\ LineInv' /\ ProgressInv' /\ RequestsPast'
         /\ \A k, rp : Past(k, rp) => Past(k, rp)'
<1>1. /\ f \in Fragment /\ AssemblerInv /\ Postponed(f) /\ work' = rest /\ ~f.rnal
      /\ ~StoreFragment(f, rest) /\ UNCHANGED <<frames, unsent>>
  BY DEF Fed, Inv, QueueFragment, Postponed, StoreFragment, Usable, serverVars
<1>2. /\ asm'.id = asm.id /\ asm'.total = asm.total /\ asm'.remaining = asm.remaining
      /\ asm'.previous = asm.previous /\ asm'.queue = Append(asm.queue, f)
  BY <1>1, QueuedFacts
<1>3. LineInv' /\ \A k, rp : Past(k, rp) => Past(k, rp)'
  BY <1>1, <1>2, PostponedLine
<1>4. ProgressInv'
  BY <1>2, <1>3, ProgressKept
<1>5. \A rp \in asm'.remaining : Past(asm.id, rp)'
  <2> PICK id : id = asm.id
    OBVIOUS
  <2>1. \A rp \in 0..(Total(id) - 1) : Past(id, rp)'
    BY <1>1, <1>2, PostponedPast
  <2>2. asm'.remaining \subseteq 0..(Total(id) - 1)
    <3>1. asm.id # NoFrame /\ asm.total = Total(id)
      BY <1>1, <1>2, PostponedPast DEF Postponed
    <3> QED BY <1>2, <3>1 DEF Inv, AssemblerInv, SlotsMatchFrame, SlotsFilled
  <2>3. \A rp : Past(asm.id, rp)' <=> Past(id, rp)'
    BY <1>2 DEF Past, Sent, Total
  <2> QED BY <2>1, <2>2, <2>3
<1>6. RequestsPast'
  BY <1>3, <1>5, PlayerRequests
<1> QED BY <1>3, <1>4, <1>6

\* A step of the assembler that changes nothing but what is left to feed.
LEMMA SkipOrder ==
  ASSUME Inv, LineInv, ProgressInv, RequestsPast, NEW f, NEW rest, Fed(f, rest),
         UNCHANGED <<asm, requests>>, work' = rest
  PROVE  /\ LineInv' /\ ProgressInv' /\ RequestsPast'
         /\ \A k, rp : Past(k, rp) => Past(k, rp)'
<1>1. Consumed(rest) /\ QueueHoldsOthers /\ UNCHANGED frames
  BY DEF Consumed, Inv, AssemblerInv, Fed, serverVars
<1>2. LineInv' /\ \A k, rp : Past(k, rp) => Past(k, rp)'
  BY <1>1, ConsumedLine
<1>3. ProgressInv'
  BY <1>2, ProgressKept
<1>4. RequestsPast'
  BY <1>1, <1>2, RequestsKept
<1> QED BY <1>2, <1>3, <1>4

\* The copies that were sent stay in the cache while the server does nothing.
LEMMA CacheUnchanged ==
  ASSUME CacheInv, UNCHANGED <<frames, unsent, cache>>
  PROVE  CacheInv'
BY SentUnchanged DEF CacheInv

\* One call of assemble_packet, unless it panics.
LEMMA PacketOrder ==
  ASSUME FifoNetwork, Inv, Inv', WholeInv, WholeInv', OrderInv,
         NEW f, NEW rest, Fed(f, rest), Packet(f, rest), Panic(f) => work' = rest
  PROVE  OrderInv' /\ \A k, rp : Past(k, rp) => Past(k, rp)'
<1>1. CacheInv'
  BY CacheUnchanged DEF OrderInv, Fed, serverVars
<1>2. CASE SkipFragment(f, rest)
  BY <1>1, <1>2, SkipOrder DEF OrderInv, SkipFragment
<1>3. CASE QueueFragment(f, rest)
  BY <1>1, <1>3, QueueOrder DEF OrderInv
<1>4. CASE StoreFragment(f, rest) \/ StoreLastFragment(f, rest)
  BY <1>1, <1>4, StoreOrder DEF OrderInv
<1>5. CASE CompleteFrame(f, rest)
  BY <1>1, <1>5, CompleteOrder DEF OrderInv
<1>6. CASE Panic(f)
  BY <1>1, <1>6, SkipOrder DEF OrderInv, Panic
<1> QED BY <1>2, <1>3, <1>4, <1>5, <1>6 DEF Packet

\* Steps that change neither what is sent nor what waits, or only drop requests.
LEMMA OrderUnchanged ==
  ASSUME Inv, OrderInv, UNCHANGED <<frames, unsent, cache, net, work>>,
         asm'.id = asm.id, asm'.total = asm.total, asm'.remaining = asm.remaining,
         asm'.previous = asm.previous, asm'.queue = asm.queue,
         requests' = requests \/ (requests # <<>> /\ requests' = Tail(requests))
  PROVE  OrderInv' /\ \A k, rp : Past(k, rp) => Past(k, rp)'
<1>1. \A k, rp : Past(k, rp)' <=> Past(k, rp)
  BY SentUnchanged DEF Past
<1>2. ProgressInv' /\ CacheInv'
  BY <1>1, ProgressKept, CacheUnchanged DEF OrderInv
<1>3. LineInv'
  <2>1. AllSent(asm.queue)' /\ AllSent(work)' /\ AllSent(net)'
    BY SentUnchanged DEF AllSent, OrderInv, LineInv
  <2>2. ASSUME NEW i \in DOMAIN net', NEW g, g = net'[i], g.rnal PROVE Past(g.seq, g.rp)'
    BY <1>1, <2>2 DEF OrderInv, LineInv
  <2> QED BY <2>1, <2>2 DEF OrderInv, LineInv
<1>4. RequestsPast'
  BY <1>1, RequestsKept DEF OrderInv
<1> QED BY <1>1, <1>2, <1>3, <1>4 DEF OrderInv

LEMMA ReceiveOrder ==
  ASSUME FifoNetwork, Inv, Inv', WholeInv, WholeInv', OrderInv,
         NEW i \in 1..Window, ReceiveFragment(i)
  PROVE  OrderInv' /\ \A k, rp : Past(k, rp) => Past(k, rp)'
<1> PICK f : f = net[i]
  OBVIOUS
<1>1. Fed(f, <<>>) /\ Packet(f, <<>>) /\ work = <<>>
  BY FedFromNet DEF OrderInv
<1>2. Panic(f) => work' = <<>>
  BY <1>1 DEF Panic
<1> QED BY <1>1, <1>2, PacketOrder

LEMMA RequeueOrder ==
  ASSUME FifoNetwork, Inv, Inv', WholeInv, WholeInv', OrderInv, Requeue
  PROVE  OrderInv' /\ \A k, rp : Past(k, rp) => Past(k, rp)'
<1> PICK f : f = Head(work)
  OBVIOUS
<1> PICK rest : rest = Tail(work)
  OBVIOUS
<1>1. Fed(f, rest) /\ Packet(f, rest) /\ UNCHANGED <<serverVars, net>>
  BY FedFromWork DEF OrderInv, Requeue
<1>2. CASE Panic(f)
  BY <1>1, <1>2, OrderUnchanged DEF Panic, serverVars
<1>3. CASE ~Panic(f)
  BY <1>1, <1>3, PacketOrder
<1> QED BY <1>2, <1>3

LEMMA ExpireOrder ==
  ASSUME Inv, OrderInv, NEW rp \in asm.recent, Expire(rp)
  PROVE  OrderInv' /\ \A k, rq : Past(k, rq) => Past(k, rq)'
<1>1. /\ asm \in AssemblerState /\ asm' = [asm EXCEPT !.recent = asm.recent \ {rp}]
      /\ UNCHANGED <<work, requests, frames, unsent, cache, net>>
  BY DEF Inv, AssemblerInv, AssemblerTypeOK, Expire, RequestExpires, serverVars
<1>2. /\ asm'.id = asm.id /\ asm'.total = asm.total /\ asm'.remaining = asm.remaining
      /\ asm'.previous = asm.previous /\ asm'.queue = asm.queue
  BY <1>1 DEF AssemblerState
<1> QED BY <1>1, <1>2, OrderUnchanged

-------------------------------------------------------------------------------
(* In order: the server's steps.                                               *)

\* Datagrams that were sent behind all others are put behind them, or are lost.
LEMMA TransmitOrder ==
  ASSUME Inv, LineInv, NEW s \in Seq(Fragment), Transmit(s), UNCHANGED <<asm, work>>,
         \A k, rp : Sent(k, rp) => Sent(k, rp)',
         Lined(asm.queue, work, s), Precedes(net, s),
         \A i \in DOMAIN s : Sent(s[i].seq, s[i].rp)',
         \A k, rp : Past(k, rp) => AheadOf(k, rp, s),
         \A i \in DOMAIN s : s[i].rnal => Past(s[i].seq, s[i].rp)
  PROVE  LineInv' /\ \A k, rp : Past(k, rp) => Past(k, rp)'
<1>1. asm.queue \in Seq(Fragment) /\ work \in Seq(Fragment) /\ net \in Seq(Fragment)
  BY LineTypes
<1>2. net' = net \o s \/ net' = net
  BY DEF Transmit
<1>3. Lined(asm.queue, work, net')
  <2>1. /\ Ordered(asm.queue) /\ Ordered(work) /\ Ordered(net) /\ Ordered(s)
        /\ Precedes(asm.queue, work) /\ Precedes(asm.queue, net) /\ Precedes(work, net)
        /\ Precedes(asm.queue, s) /\ Precedes(work, s) /\ Precedes(net, s)
    BY DEF LineInv, Lined
  <2>2. Ordered(net \o s)
    BY <1>1, <2>1, OrderedConcat
  <2>3. Precedes(asm.queue, net \o s) /\ Precedes(work, net \o s)
    BY <1>1, <2>1, PrecedesConcat
  <2>4. Ordered(net') /\ Precedes(asm.queue, net') /\ Precedes(work, net')
    BY <1>2, <2>1, <2>2, <2>3
  <2> QED BY <2>1, <2>4 DEF Lined
<1>4. ASSUME NEW k, NEW rp, Past(k, rp) PROVE Past(k, rp)'
  <2>1. AheadOf(k, rp, net \o s)
    BY <1>1, <1>4, AheadConcat DEF Past
  <2> QED BY <1>2, <1>4, <2>1 DEF Past
<1>5. \A i \in DOMAIN net' : \/ \E j \in DOMAIN net : net'[i] = net[j]
                             \/ \E j \in DOMAIN s : net'[i] = s[j]
  <2>1. CASE net' = net
    BY <2>1
  <2>2. CASE net' = net \o s
    <3>1. \A i \in DOMAIN (net \o s) : \/ \E j \in DOMAIN net : (net \o s)[i] = net[j]
                                       \/ \E j \in DOMAIN s : (net \o s)[i] = s[j]
      BY <1>1, ConcatMembers
    <3> QED BY <2>2, <3>1
  <2> QED BY <1>2, <2>1, <2>2
<1>6. AllSent(asm.queue)' /\ AllSent(work)'
  BY DEF LineInv, AllSent
<1>7. AllSent(net)'
  <2> SUFFICES ASSUME NEW i \in DOMAIN net', NEW g, g = net'[i] PROVE Sent(g.seq, g.rp)'
    BY DEF AllSent
  <2>1. ASSUME NEW j \in DOMAIN net, g = net[j] PROVE Sent(g.seq, g.rp)'
    BY <2>1 DEF LineInv, AllSent
  <2>2. ASSUME NEW j \in DOMAIN s, g = s[j] PROVE Sent(g.seq, g.rp)'
    BY <2>2
  <2> QED BY <1>5, <2>1, <2>2
<1>8. ASSUME NEW i \in DOMAIN net', NEW g, g = net'[i], g.rnal PROVE Past(g.seq, g.rp)'
  <2>1. Past(g.seq, g.rp)
    BY <1>5, <1>8 DEF LineInv
  <2> QED BY <1>4, <2>1
<1> QED BY <1>3, <1>4, <1>6, <1>7, <1>8 DEF LineInv

\* Retransmissions keep any line.
LEMMA AnswersLine ==
  ASSUME NEW s, \A i \in DOMAIN s : s[i].rnal
  PROVE  /\ Ordered(s) /\ \A t : Precedes(t, s)
         /\ \A k, rp : AheadOf(k, rp, s)
BY DEF Ordered, Precedes, AheadOf

LEMMA DeployOrder ==
  ASSUME Inv, Inv', OrderInv, NEW size \in FrameSizes, NEW key \in BOOLEAN,
         DeployFrame(size, key)
  PROVE  OrderInv' /\ \A k, rp : Past(k, rp) => Past(k, rp)'
<1>1. /\ DOMAIN frames \subseteq DOMAIN frames' /\ \A k \in DOMAIN frames : frames'[k] = frames[k]
      /\ UNCHANGED <<asm, work, requests, cache, net>> /\ unsent = 0
  BY DeployKeeps DEF DeployFrame, assemblerVars
<1>2. /\ DOMAIN frames = 1..Len(frames) /\ Len(frames) \in Nat
      /\ Len(frames') = Len(frames) + 1 /\ DOMAIN frames' = 1..(Len(frames) + 1)
      /\ frames'[Len(frames) + 1].size = size /\ unsent' = SubpacketCount(size)
      /\ SubpacketCount(size) \in Nat
  <2>1. /\ frames \in Seq([size : FrameSizes, key : BOOLEAN])
        /\ frames' = Append(frames, [size |-> size, key |-> key])
        /\ [size |-> size, key |-> key] \in [size : FrameSizes, key : BOOLEAN]
        /\ unsent' = SubpacketCount(size) /\ SubpacketCount(size) \in Nat
    BY CountType DEF DeployFrame, Inv, TypeOK
  <2>2. frames' \in Seq([size : FrameSizes, key : BOOLEAN])
    BY DEF Inv, TypeOK
  <2> QED BY <2>1, <2>2, AppendProperties, LenProperties
<1>3. ASSUME NEW k, NEW rp PROVE Sent(k, rp)' <=> Sent(k, rp)
  <2>1. CASE k \in DOMAIN frames
    <3>1. Total(k)' = Total(k) /\ k \in DOMAIN frames'
      BY <1>1, <2>1 DEF Total
    <3>2. k < Len(frames') /\ (k < Len(frames) \/ k = Len(frames))
      BY <1>2, <2>1
    <3>3. rp \in 0..(Total(k) - 1) => rp >= unsent
      BY <1>1
    <3> QED BY <2>1, <3>1, <3>2, <3>3 DEF Sent
  <2>2. CASE k = Len(frames) + 1
    <3> PICK t : t = unsent'
      OBVIOUS
    <3>0. t \in Nat
      BY <1>2
    <3>1. Total(k)' = t
      BY <1>2, <2>2 DEF Total
    <3>2. ~(k < Len(frames')) /\ k \notin DOMAIN frames
      BY <1>2, <2>2
    <3>3. \A n \in Nat : \A r \in 0..(n - 1) : ~(r >= n)
      OBVIOUS
    <3> QED BY <3>0, <3>1, <3>2, <3>3 DEF Sent
  <2>3. CASE k \notin DOMAIN frames'
    BY <1>1, <2>3 DEF Sent
  <2> QED BY <1>2, <2>1, <2>2, <2>3
<1>4. \A k, rp : Past(k, rp)' <=> Past(k, rp)
  BY <1>1, <1>3 DEF Past
<1>5. ProgressInv'
  BY <1>1, <1>4, ProgressKept DEF OrderInv
<1>6. RequestsPast'
  BY <1>1, <1>4, RequestsKept DEF OrderInv
<1>7. LineInv'
  <2>1. AllSent(asm.queue)' /\ AllSent(work)' /\ AllSent(net)'
    BY <1>1, <1>3 DEF AllSent, OrderInv, LineInv
  <2>2. ASSUME NEW i \in DOMAIN net', NEW g, g = net'[i], g.rnal PROVE Past(g.seq, g.rp)'
    BY <1>1, <1>4, <2>2 DEF OrderInv, LineInv
  <2> QED BY <1>1, <2>1, <2>2 DEF OrderInv, LineInv
<1>8. CacheInv'
  <2> SUFFICES ASSUME NEW k, NEW rp, Sent(k, rp)'
               PROVE  \/ k <= Len(frames') - CacheFrames
                      \/ \E c \in cache : c.seq = k /\ c.size = frames'[k].size /\ c.rp = rp
    BY <1>1 DEF CacheInv, OrderInv
  <2>1. Sent(k, rp) /\ k \in DOMAIN frames /\ rp \in 0..(Total(k) - 1)
    BY <1>3 DEF Sent
  <2>2. \/ k <= Len(frames) - CacheFrames
        \/ \E c \in cache : c.seq = k /\ c.size = frames[k].size /\ c.rp = rp
    BY <2>1 DEF CacheInv, OrderInv
  <2> QED BY <1>1, <1>2, <2>1, <2>2, VideoStreamAssumption
<1> QED BY <1>4, <1>5, <1>6, <1>7, <1>8 DEF OrderInv

\* The next subpacket comes after all that were sent.
LEMMA BroadcastOrder ==
  ASSUME FifoNetwork, Inv, Inv', OrderInv, NEW copies \in 0..MaxCopies,
         BroadcastSubpacket(copies)
  PROVE  OrderInv' /\ \A k, rp : Past(k, rp) => Past(k, rp)'
<1> PICK g : g = NextFragment
  OBVIOUS
<1> PICK L : L = Len(frames)
  OBVIOUS
<1> PICK s : s = [i \in 1..copies |-> g]
  OBVIOUS
<1>1. /\ g \in Fragment /\ g.seq = L /\ g.rp = unsent - 1 /\ g.size = frames[L].size /\ ~g.rnal
      /\ L \in DOMAIN frames /\ DOMAIN frames = 1..L /\ L \in Nat
      /\ unsent \in Nat \ {0} /\ unsent <= Total(L) /\ unsent' = unsent - 1
      /\ UNCHANGED <<asm, work, requests, frames>> /\ cache' = Cached(g) /\ Transmit(s)
      /\ DOMAIN frames \subseteq 1..MaxFrames
  <2>1. frames # <<>> /\ unsent > 0 /\ unsent <= Total(L) /\ TypeOK
    BY DEF BroadcastSubpacket, Inv, UnsentOfFrame, Total
  <2>2. DOMAIN frames = 1..L /\ L \in Nat /\ L > 0 /\ DOMAIN frames \subseteq 1..MaxFrames
    BY <2>1, LineTypes, EmptySeq DEF Inv
  <2>3. g \in Fragment
    BY <2>1, <2>2, NextFragmentType
  <2> QED BY <2>1, <2>2, <2>3, LineTypes DEF BroadcastSubpacket, NextFragment, assemblerVars
<1>2. /\ s \in Seq(Fragment) /\ \A i \in DOMAIN s : s[i] = g
      /\ s = <<>> \/ s = <<g>>
  <2>1. copies \in {0, 1}
    BY VideoStreamAssumption DEF FifoNetwork
  <2>2. copies = 0 => s = <<>>
    OBVIOUS
  <2>3. copies = 1 => s = <<g>>
    OBVIOUS
  <2> QED BY <1>1, <2>1, <2>2, <2>3
<1>3. ASSUME NEW k, NEW rp
      PROVE  Sent(k, rp)' <=> Sent(k, rp) \/ (k = L /\ rp = unsent - 1)
  <2>1. Total(k)' = Total(k)
    BY <1>1 DEF Total
  <2>2. Total(L) \in Nat
    BY <1>1, LineTypes
  <2>3. CASE rp \in 0..(Total(k) - 1) /\ k \in 1..L
    BY <1>1, <2>1, <2>3 DEF Sent
  <2>4. CASE ~(rp \in 0..(Total(k) - 1) /\ k \in 1..L)
    <3>1. ~(k = L /\ rp = unsent - 1)
      BY <1>1, <2>2, <2>4
    <3> QED BY <1>1, <2>1, <2>4, <3>1 DEF Sent
  <2> QED BY <2>3, <2>4
<1>4. \A k, rp : Sent(k, rp) => Earlier(k, rp, g.seq, g.rp)
  BY <1>1 DEF Sent, Earlier
<1>5. /\ \A k, rp : Sent(k, rp) => AheadOf(k, rp, s)
      /\ \A t : AllSent(t) => Precedes(t, s)
  <2>1. \A k, rp : Sent(k, rp) => AheadOf(k, rp, s)
    BY <1>2, <1>4 DEF AheadOf
  <2> QED BY <2>1 DEF AllSent, Precedes
<1>6. Lined(asm.queue, work, s) /\ Precedes(net, s)
  BY <1>1, <1>2, <1>5, SingleLine DEF OrderInv, LineInv, Lined
<1>7. LineInv' /\ \A k, rp : Past(k, rp) => Past(k, rp)'
  <2>1. \A k, rp : Past(k, rp) => AheadOf(k, rp, s)
    BY <1>5 DEF Past
  <2>2. \A i \in DOMAIN s : ~s[i].rnal
    BY <1>1, <1>2
  <2>3. \A i \in DOMAIN s : Sent(s[i].seq, s[i].rp)'
    <3>1. Sent(g.seq, g.rp)'
      BY <1>1, <1>3
    <3> SUFFICES ASSUME NEW i \in DOMAIN s, NEW h, h = s[i] PROVE Sent(h.seq, h.rp)'
      OBVIOUS
    <3> QED BY <1>2, <3>1
  <2> QED BY <1>1, <1>2, <1>3, <1>6, <2>1, <2>2, <2>3, TransmitOrder DEF OrderInv
<1>8. ProgressInv' /\ RequestsPast'
  BY <1>1, <1>7, ProgressKept, RequestsKept DEF OrderInv
<1>9. CacheInv'
  <2> PICK copy : copy = [g EXCEPT !.rnal = TRUE]
    OBVIOUS
  <2>1. copy.rnal /\ copy.seq = g.seq /\ copy.rp = g.rp /\ copy.size = g.size
    BY <1>1 DEF Fragment
  <2>2. cache' = {c \in cache : CacheKey(c) # CacheKey(g)} \union {copy}
    BY <1>1 DEF Cached
  <2>3. \A c \in cache' : c.rnal
    BY <2>1, <2>2 DEF OrderInv, CacheInv
  <2>4. ASSUME NEW k, NEW rp, Sent(k, rp)'
        PROVE  \/ k <= Len(frames') - CacheFrames
               \/ \E c \in cache' : c.seq = k /\ c.size = frames'[k].size /\ c.rp = rp
    <3>1. CASE k = L /\ rp = unsent - 1
      BY <1>1, <2>1, <2>2, <3>1
    <3>2. CASE Sent(k, rp) /\ ~(k = L /\ rp = unsent - 1)
      <4>1. \/ k <= Len(frames) - CacheFrames
            \/ \E c \in cache : c.seq = k /\ c.size = frames[k].size /\ c.rp = rp
        BY <3>2 DEF OrderInv, CacheInv, Sent
      <4>2. ASSUME NEW c \in cache, c.seq = k, c.rp = rp PROVE CacheKey(c) # CacheKey(g)
        <5>1. k \in 1..MaxFrames /\ L \in 1..MaxFrames
          BY <1>1, <3>2 DEF Sent
        <5>2. IdOf(k) = k /\ IdOf(L) = L
          BY <5>1, IdIsSeq DEF FifoNetwork
        <5> QED BY <1>1, <3>2, <4>2, <5>2 DEF CacheKey
      <4> QED BY <1>1, <2>2, <4>1, <4>2
    <3> QED BY <1>3, <2>4, <3>1, <3>2
  <2> QED BY <2>3, <2>4 DEF CacheInv
<1> QED BY <1>7, <1>8, <1>9 DEF OrderInv

\* Answers are copies of what was past when it was asked for.
LEMMA RetransmitOrder ==
  ASSUME FifoNetwork, Inv, Inv', OrderInv, RetransmitFrame
  PROVE  OrderInv' /\ \A k, rp : Past(k, rp) => Past(k, rp)'
<1> PICK r : r = Head(requests)
  OBVIOUS
<1>1. /\ requests # <<>> /\ requests' = Tail(requests)
      /\ UNCHANGED <<asm, work, frames, unsent, cache>>
  BY DEF RetransmitFrame, serverVars
<1>2. PICK s \in Arrangements(Answers(r)) : Transmit(s)
  BY DEF RetransmitFrame
<1>3. RequestPast(r) /\ r.id \in 1..MaxFrames
  <2>1. requests \in Seq(RequestType) /\ DOMAIN frames \subseteq 1..MaxFrames
    BY LineTypes
  <2>2. 1 \in DOMAIN requests /\ r = requests[1]
    BY <1>1, <2>1
  <2> QED BY <2>1, <2>2 DEF OrderInv, RequestsPast, RequestPast
<1>4. \A i \in DOMAIN s : s[i] \in cache /\ s[i] \in Answers(r)
  BY <1>2, ArrangementType DEF Answers
<1>5. s \in Seq(Fragment)
  <2>1. s \in Seq(Answers(r)) /\ Answers(r) \subseteq Fragment
    BY <1>2, ArrangementType DEF Answers, Inv, TypeOK
  <2> QED BY <2>1
<1>6. ASSUME NEW i \in DOMAIN s, NEW c, c = s[i]
      PROVE  c.rnal /\ Past(c.seq, c.rp) /\ Sent(c.seq, c.rp)
  <2>1. c \in cache /\ IdOf(c.seq) = r.id /\ c.rp \in r.ids /\ c \in Fragment
    BY <1>4, <1>6 DEF Answers, Inv, TypeOK
  <2>2. c.seq = r.id
    BY <2>1, IdIsSeq DEF Fragment, FifoNetwork
  <2>3. Past(c.seq, c.rp)
    BY <1>3, <2>1, <2>2 DEF RequestPast
  <2> QED BY <2>1, <2>3 DEF OrderInv, CacheInv, Past
<1>7. Ordered(s) /\ (\A t : Precedes(t, s)) /\ \A k, rp : AheadOf(k, rp, s)
  BY <1>6, AnswersLine
<1>8. Lined(asm.queue, work, s)
  BY <1>7 DEF OrderInv, LineInv, Lined
<1>9. \A i \in DOMAIN s : Sent(s[i].seq, s[i].rp)'
  <2> SUFFICES ASSUME NEW i \in DOMAIN s, NEW c, c = s[i] PROVE Sent(c.seq, c.rp)'
    OBVIOUS
  <2> QED BY <1>1, <1>6, SentUnchanged
<1>10. LineInv' /\ \A k, rp : Past(k, rp) => Past(k, rp)'
  BY <1>1, <1>2, <1>5, <1>6, <1>7, <1>8, <1>9, SentUnchanged, TransmitOrder DEF OrderInv
<1>11. ProgressInv' /\ RequestsPast' /\ CacheInv'
  BY <1>1, <1>10, ProgressKept, RequestsKept, CacheUnchanged DEF OrderInv
<1> QED BY <1>10, <1>11 DEF OrderInv

\* Only copies of old frames are drained.
LEMMA DrainOrder ==
  ASSUME Inv, OrderInv, NEW old \in 1..MaxFrames, DrainSubpacketCache(old)
  PROVE  OrderInv' /\ \A k, rp : Past(k, rp) => Past(k, rp)'
<1>1. /\ old <= Len(frames) - CacheFrames /\ cache' = {c \in cache : c.seq > old}
      /\ UNCHANGED <<frames, unsent, net, asm, work, requests>>
      /\ old \in Nat /\ Len(frames) \in Nat /\ CacheFrames \in Nat
      /\ DOMAIN frames = 1..Len(frames)
  BY LineTypes, VideoStreamAssumption, SubpacketsAssumption DEF DrainSubpacketCache, assemblerVars
<1>2. \A k, rp : Past(k, rp)' <=> Past(k, rp)
  BY <1>1, SentUnchanged DEF Past
<1>3. ProgressInv' /\ RequestsPast'
  BY <1>1, <1>2, ProgressKept, RequestsKept DEF OrderInv
<1>4. LineInv'
  <2>1. AllSent(asm.queue)' /\ AllSent(work)' /\ AllSent(net)'
    BY <1>1, SentUnchanged DEF AllSent, OrderInv, LineInv
  <2>2. ASSUME NEW i \in DOMAIN net', NEW g, g = net'[i], g.rnal PROVE Past(g.seq, g.rp)'
    BY <1>1, <1>2, <2>2 DEF OrderInv, LineInv
  <2> QED BY <1>1, <2>1, <2>2 DEF OrderInv, LineInv
<1>5. CacheInv'
  <2>1. ASSUME NEW k \in DOMAIN frames, NEW rp, Sent(k, rp)
        PROVE  \/ k <= Len(frames) - CacheFrames
               \/ \E c \in cache' : c.seq = k /\ c.size = frames[k].size /\ c.rp = rp
    <3>1. \/ k <= Len(frames) - CacheFrames
          \/ \E c \in cache : c.seq = k /\ c.size = frames[k].size /\ c.rp = rp
      BY <2>1 DEF OrderInv, CacheInv, Sent
    <3>2. CASE k <= old
      BY <1>1, <2>1, <3>2
    <3>3. CASE k > old
      BY <1>1, <3>1, <3>3
    <3> QED BY <1>1, <2>1, <3>2, <3>3
  <2>2. \A c \in cache' : c.rnal
    BY <1>1 DEF OrderInv, CacheInv
  <2> QED BY <1>1, <2>1, <2>2, SentUnchanged DEF CacheInv
<1> QED BY <1>2, <1>3, <1>4, <1>5 DEF OrderInv

\* Every step keeps the order.
LEMMA NextOrder ==
  ASSUME FifoNetwork
  PROVE  Inv /\ Inv' /\ WholeInv /\ WholeInv' /\ OrderInv /\ [Next]_vars =>
           OrderInv' /\ \A k, rp : Past(k, rp) => Past(k, rp)'
<1> SUFFICES ASSUME Inv, Inv', WholeInv, WholeInv', OrderInv, [Next]_vars
             PROVE  OrderInv' /\ \A k, rp : Past(k, rp) => Past(k, rp)'
  OBVIOUS
<1>1. ASSUME NEW size \in FrameSizes, NEW key \in BOOLEAN, DeployFrame(size, key)
      PROVE  OrderInv' /\ \A k, rp : Past(k, rp) => Past(k, rp)'
  BY <1>1, DeployOrder
<1>2. ASSUME NEW copies \in 0..MaxCopies, BroadcastSubpacket(copies)
      PROVE  OrderInv' /\ \A k, rp : Past(k, rp) => Past(k, rp)'
  BY <1>2, BroadcastOrder
<1>3. CASE RetransmitFrame
  BY <1>3, RetransmitOrder
<1>4. ASSUME NEW old \in 1..MaxFrames, DrainSubpacketCache(old)
      PROVE  OrderInv' /\ \A k, rp : Past(k, rp) => Past(k, rp)'
  BY <1>4, DrainOrder
<1>5. CASE LoseRequest
  BY <1>5, OrderUnchanged DEF LoseRequest, serverVars
<1>6. ASSUME NEW i \in 1..Window, ReceiveFragment(i)
      PROVE  OrderInv' /\ \A k, rp : Past(k, rp) => Past(k, rp)'
  BY <1>6, ReceiveOrder
<1>7. CASE Requeue
  BY <1>7, RequeueOrder
<1>8. ASSUME NEW rp \in asm.recent, Expire(rp)
      PROVE  OrderInv' /\ \A k, rq : Past(k, rq) => Past(k, rq)'
  BY <1>8, ExpireOrder
<1>9. CASE UNCHANGED vars
  BY <1>9, OrderUnchanged DEF vars, assemblerVars, serverVars
<1> QED BY <1>1, <1>2, <1>3, <1>4, <1>5, <1>6, <1>7, <1>8, <1>9 DEF Next

LEMMA InitOrder == Init => OrderInv
<1> SUFFICES ASSUME Init PROVE OrderInv
  OBVIOUS
<1>1. /\ asm.queue = <<>> /\ asm.id = NoFrame /\ work = <<>> /\ net = <<>> /\ requests = <<>>
      /\ frames = <<>> /\ cache = {}
  BY IdleFacts DEF Init, AssemblerInit
<1>2. DOMAIN <<>> = {}
  OBVIOUS
<1> QED BY <1>1, <1>2 DEF OrderInv, LineInv, Lined, Ordered, Precedes, AheadOf, AllSent,
                          ProgressInv, RequestsPast, CacheInv

LEMMA OrderInvariance ==
  ASSUME FifoNetwork
  PROVE  Spec => [](Inv /\ WholeInv /\ OrderInv)
<1>1. Inv /\ WholeInv /\ OrderInv /\ [Next]_vars => (Inv /\ WholeInv /\ OrderInv)'
  BY NextInv, NextWhole, NextOrder DEF FifoNetwork
<1>2. Spec => [](Inv /\ WholeInv)
  BY WholeInvariance DEF FifoNetwork
<1>3. Inv /\ Inv' /\ WholeInv /\ WholeInv' /\ OrderInv /\ [Next]_vars => OrderInv'
  BY NextOrder
<1> QED BY <1>2, <1>3, InitOrder, PTL DEF Spec

\* Over a network that neither reorders nor duplicates, and while no frame id comes round
\* again, only what was sent and may still be cached is asked for again.
THEOREM RequestsSent ==
  ASSUME FifoNetwork
  PROVE  Spec => []RequestsWereSent
<1>1. ASSUME Inv, OrderInv PROVE RequestsWereSent
  <2> SUFFICES ASSUME NEW n \in DOMAIN requests, NEW r, r = requests[n], NEW rp \in r.ids
               PROVE  \/ \E c \in cache : c \in Answers([r EXCEPT !.ids = {rp}])
                      \/ \E k \in 1..(Len(frames) - CacheFrames) : IdOf(k) = r.id
    BY DEF RequestsWereSent
  <2>1. /\ r \in RequestType /\ r.id \in DOMAIN frames /\ r.size = frames[r.id].size
        /\ Sent(r.id, rp) /\ DOMAIN frames = 1..Len(frames) /\ Len(frames) \in Nat
        /\ r.id \in 1..MaxFrames
    <3>1. /\ requests \in Seq(RequestType) /\ DOMAIN frames = 1..Len(frames)
          /\ Len(frames) \in Nat /\ DOMAIN frames \subseteq 1..MaxFrames
      BY <1>1, LineTypes
    <3>2. r \in RequestType
      BY <3>1, ElementOfSeq, LenProperties
    <3> QED BY <1>1, <3>1, <3>2 DEF OrderInv, RequestsPast, RequestPast, Past
  <2>2. IdOf(r.id) = r.id
    BY <2>1, IdIsSeq DEF FifoNetwork
  <2>3. CASE r.id <= Len(frames) - CacheFrames
    BY <2>1, <2>2, <2>3, VideoStreamAssumption
  <2>4. ASSUME NEW c \in cache, c.seq = r.id, c.size = frames[r.id].size, c.rp = rp
        PROVE  c \in Answers([r EXCEPT !.ids = {rp}])
    <3> PICK q : q = [r EXCEPT !.ids = {rp}]
      OBVIOUS
    <3>1. q.id = r.id /\ q.size = r.size /\ q.ids = {rp}
      BY <2>1 DEF RequestType
    <3> QED BY <2>1, <2>2, <2>4, <3>1 DEF Answers
  <2>5. \/ r.id <= Len(frames) - CacheFrames
        \/ \E c \in cache : c.seq = r.id /\ c.size = frames[r.id].size /\ c.rp = rp
    BY <1>1, <2>1 DEF OrderInv, CacheInv, Sent
  <2> QED BY <2>3, <2>4, <2>5
<1> QED BY <1>1, OrderInvariance, PTL

-------------------------------------------------------------------------------
(* In order: what reaches the decoder.                                         *)

\* The assembled frames are past, and before the one in progress.
AssembledPast ==
  \A n \in DOMAIN assembled :
    /\ Past(assembled[n][1], 0)
    /\ asm.id # NoFrame => assembled[n][1] < asm.id

LastAssembled == IF assembled = <<>> THEN 0 ELSE assembled[Len(assembled)][1]

\* A frame of which a NAL came is or was decoded, is at work or waits, or was given up for a
\* key frame up to the one at work.
Accounted(j) ==
  \/ j <= LastAssembled \/ j = asm.id \/ Waits(j, asm.queue) \/ Waits(j, work)
  \/ \E later \in arrived : j < later /\ later <= asm.id /\ frames[later].key

ArrivedInv ==
  /\ arrived \subseteq DOMAIN frames
  /\ asm.id # NoFrame => asm.id \in arrived
  /\ \A j \in arrived : Accounted(j)

DeliveryInv == AssembledPast /\ ArrivedInv

\* Steps that change no history and no frame in progress.
LEMMA DeliveryUnchanged ==
  ASSUME Inv, DeliveryInv, \A k, rp : Past(k, rp) => Past(k, rp)',
         DOMAIN frames \subseteq DOMAIN frames', \A k \in DOMAIN frames : frames'[k] = frames[k],
         UNCHANGED <<work, assembled, arrived>>, asm'.id = asm.id, asm'.queue = asm.queue
  PROVE  DeliveryInv'
<1>1. AssembledPast'
  <2> SUFFICES ASSUME NEW n \in DOMAIN assembled', NEW k, k = assembled'[n][1]
               PROVE  Past(k, 0)' /\ (asm'.id # NoFrame => k < asm'.id)
    BY DEF AssembledPast
  <2> QED BY DEF DeliveryInv, AssembledPast
<1>2. ASSUME NEW j \in arrived PROVE Accounted(j)'
  <2>1. Accounted(j) /\ LastAssembled' = LastAssembled
    BY DEF DeliveryInv, ArrivedInv, LastAssembled
  <2>2. \A later \in arrived : frames'[later] = frames[later]
    BY DEF DeliveryInv, ArrivedInv
  <2> QED BY <2>1, <2>2 DEF Accounted
<1>3. ArrivedInv'
  BY <1>2 DEF DeliveryInv, ArrivedInv
<1> QED BY <1>1, <1>3 DEF DeliveryInv

\* The frames of the history.
LEMMA HistoryTypes ==
  ASSUME Inv, WholeInv, NEW n \in DOMAIN assembled
  PROVE  assembled[n][1] \in 1..Len(frames) /\ assembled[n][1] \in Nat
<1>1. Whole(assembled[n]) /\ Len(frames) \in Nat
  BY LineTypes DEF WholeInv, AssembledWhole
<1> QED BY <1>1 DEF Whole

LEMMA LastType ==
  ASSUME Inv, WholeInv
  PROVE  /\ LastAssembled \in Nat
         /\ assembled # <<>> => \E n \in DOMAIN assembled : LastAssembled = assembled[n][1]
<1>1. assembled \in Seq(Seq(0..MaxFrames))
  BY LineTypes
<1>2. CASE assembled = <<>>
  BY <1>2 DEF LastAssembled
<1>3. CASE assembled # <<>>
  <2>1. Len(assembled) \in DOMAIN assembled
    <3>1. Len(assembled) \in Nat \ {0} /\ DOMAIN assembled = 1..Len(assembled)
      BY <1>1, <1>3, EmptySeq, LenProperties
    <3> QED BY <3>1
  <2>2. LastAssembled = assembled[Len(assembled)][1]
    BY <1>3 DEF LastAssembled
  <2> QED BY <2>1, <2>2, HistoryTypes
<1> QED BY <1>2, <1>3

\* A usable subpacket belongs to a frame that comes after all that are assembled, and not before
\* the one in progress.
LEMMA UsableLater ==
  ASSUME FifoNetwork, Inv, WholeInv, OrderInv, DeliveryInv,
         NEW f, NEW rest, Fed(f, rest), Usable(f)
  PROVE  /\ asm.id # NoFrame /\ asm.id # f.seq => asm.id < f.seq /\ ~f.rnal /\ f.key
         /\ asm.id # NoFrame => asm.id \in 1..MaxFrames
         /\ \A n \in DOMAIN assembled : assembled[n][1] < f.seq
         /\ LastAssembled < f.seq
<1>1. /\ f \in Fragment /\ f.seq \in Nat \ {0} /\ f.rp \in Nat /\ IdOf(f.seq) = f.seq
      /\ f.seq # NoFrame /\ (f.rnal => asm.id = f.seq)
  <2>1. f \in Fragment
    BY DEF Fed
  <2>2. f.seq \in Nat \ {0} /\ f.rp \in Nat
    BY <2>1, SubpacketsAssumption DEF Fragment
  <2> QED BY <2>1, <2>2, UsableFacts DEF OrderInv
<1>2. asm.id # NoFrame => asm.id \in 1..MaxFrames
  BY LineTypes DEF WholeInv, OnlyGenuine, ExtentGenuine
<1>3. ASSUME asm.id # NoFrame, asm.id # f.seq PROVE asm.id < f.seq /\ ~f.rnal /\ f.key
  <2>1. ~f.rnal /\ f.key
    BY <1>1, <1>3 DEF Usable, Postponed
  <2>2. Past(asm.id, asm.previous)
    BY <1>3 DEF OrderInv, ProgressInv
  <2>3. Earlier(asm.id, asm.previous, f.seq, f.rp)
    BY <2>1, <2>2 DEF Fed
  <2> QED BY <1>1, <1>2, <1>3, <2>1, <2>3, SubpacketsAssumption DEF Earlier
<1>4. ASSUME NEW n \in DOMAIN assembled PROVE assembled[n][1] < f.seq
  <2> PICK k : k = assembled[n][1]
    OBVIOUS
  <2>1. Past(k, 0) /\ (asm.id # NoFrame => k < asm.id) /\ k \in Nat
    BY HistoryTypes DEF DeliveryInv, AssembledPast
  <2>2. CASE f.rnal
    BY <1>1, <2>1, <2>2
  <2>3. CASE ~f.rnal
    <3>1. Earlier(k, 0, f.seq, f.rp)
      BY <2>1, <2>3 DEF Fed
    <3> QED BY <1>1, <2>1, <3>1 DEF Earlier
  <2> QED BY <2>2, <2>3
<1>5. LastAssembled < f.seq
  BY <1>1, <1>4, LastType DEF LastAssembled
<1> QED BY <1>2, <1>3, <1>4, <1>5

\* What was accounted for before a subpacket f is put into its frame.
Reckoned(j, f, rest) ==
  \/ j <= LastAssembled \/ j = f.seq
  \/ asm.id = f.seq /\ Waits(j, asm.queue)
  \/ Waits(j, rest)
  \/ \E later \in arrived' : j < later /\ later <= f.seq /\ frames[later].key

LEMMA UsableReckoned ==
  ASSUME FifoNetwork, Inv, WholeInv, OrderInv, DeliveryInv,
         NEW f, NEW rest, Fed(f, rest), Usable(f), Seen(f), NEW j \in arrived'
  PROVE  Reckoned(j, f, rest)
<1>1. /\ f \in Fragment /\ f.seq \in Nat /\ f.rp \in Nat /\ Genuine(f)
      /\ f.rnal => asm.id = f.seq
  <2>1. f \in Fragment /\ Genuine(f)
    BY DEF Fed
  <2> QED BY <2>1, UsableFacts, SubpacketsAssumption DEF Fragment, OrderInv
<1>2. j = f.seq \/ (j \in arrived /\ Accounted(j))
  BY DEF Seen, DeliveryInv, ArrivedInv
<1>3. /\ arrived \subseteq arrived' /\ (~f.rnal => f.seq \in arrived')
      /\ arrived \subseteq 1..MaxFrames
  BY DEF Seen, Inv, TypeOK, AssemblerTypeOK
<1>4. ASSUME asm.id # NoFrame, asm.id # f.seq, j < f.seq
      PROVE  \E later \in arrived' : j < later /\ later <= f.seq /\ frames[later].key
  <2>1. ~f.rnal /\ f.key
    BY <1>4, UsableLater
  <2>2. frames[f.seq].key
    BY <1>1, <2>1, Zenon DEF Genuine
  <2>3. f.seq \in arrived' /\ j < f.seq /\ f.seq <= f.seq
    BY <1>1, <1>3, <1>4, <2>1
  <2> QED BY <2>2, <2>3
<1>5. CASE j = asm.id /\ j \in arrived
  <2>1. asm.id # NoFrame
    BY <1>3, <1>5, SubpacketsAssumption DEF NoFrame
  <2>2. CASE asm.id # f.seq
    <3>1. j < f.seq
      BY <1>5, <2>1, <2>2, UsableLater
    <3> QED BY <1>4, <2>1, <2>2, <3>1 DEF Reckoned
  <2> QED BY <1>5, <2>2 DEF Reckoned
<1>6. CASE Waits(j, asm.queue)
  <2>1. asm.id # NoFrame
    <3>1. asm.queue # <<>>
      BY <1>6 DEF Waits
    <3> QED BY <3>1 DEF Inv, AssemblerInv, QueueHoldsOthers
  <2>2. CASE asm.id # f.seq
    <3> PICK i \in DOMAIN asm.queue : asm.queue[i].seq = j
      BY <1>6 DEF Waits
    <3> PICK g : g = asm.queue[i]
      OBVIOUS
    <3>1. ~g.rnal /\ ~f.rnal /\ g \in Fragment /\ g.seq = j
      <4>1. asm.queue \in Seq(Fragment)
        BY LineTypes
      <4>2. g \in Fragment
        BY <4>1, ElementOfSeq, LenProperties
      <4> QED BY <1>1, <2>2, <4>2 DEF Inv, AssemblerInv, QueueHoldsOthers
    <3>2. Earlier(g.seq, g.rp, f.seq, f.rp)
      <4>1. Precedes(asm.queue, <<f>>)
        BY DEF Fed, Taken
      <4>2. AheadOf(g.seq, g.rp, <<f>>)
        BY <3>1, <4>1 DEF Precedes
      <4> QED BY <1>1, <3>1, <4>2, SingleLine
    <3>3. j = f.seq \/ j < f.seq
      BY <1>1, <3>1, <3>2 DEF Earlier
    <3> QED BY <1>4, <2>1, <2>2, <3>3 DEF Reckoned
  <2> QED BY <1>6, <2>2 DEF Reckoned
<1>7. CASE Waits(j, work)
  BY <1>7 DEF Fed, Reckoned
<1>8. ASSUME NEW later \in arrived, j < later, later <= asm.id, frames[later].key
      PROVE  Reckoned(j, f, rest)
  <2>1. later \in Nat /\ later >= 1 /\ later \in arrived'
    BY <1>3, <1>8, SubpacketsAssumption
  <2>2. asm.id = f.seq \/ asm.id < f.seq
    <3>1. asm.id # NoFrame
      BY <1>8, <2>1 DEF NoFrame
    <3> QED BY <3>1, UsableLater
  <2>3. asm.id \in Int
    BY LineTypes, SubpacketsAssumption DEF AssemblerState, NoFrame
  <2>4. later <= f.seq
    BY <1>1, <1>8, <2>1, <2>2, <2>3
  <2> QED BY <1>8, <2>1, <2>4 DEF Reckoned
<1>9. CASE j <= LastAssembled \/ j = f.seq
  BY <1>9 DEF Reckoned
<1> QED BY <1>2, <1>5, <1>6, <1>7, <1>8, <1>9 DEF Accounted

\* What still waits is not before the frame of f.
LEMMA WaitingLater ==
  ASSUME FifoNetwork, Inv, WholeInv, OrderInv,
         NEW f, NEW rest, Fed(f, rest), Usable(f), NEW j,
         (asm.id = f.seq /\ Waits(j, asm.queue)) \/ Waits(j, rest)
  PROVE  j >= f.seq
<1>1. f \in Fragment /\ f.seq \in Nat /\ (f.rnal => asm.id = f.seq) /\ f.seq # NoFrame
  <2>1. f \in Fragment
    BY DEF Fed
  <2> QED BY <2>1, UsableFacts, SubpacketsAssumption DEF Fragment, OrderInv
<1>2. ASSUME asm.id = f.seq, Waits(j, asm.queue) PROVE j >= f.seq
  <2> PICK i \in DOMAIN asm.queue : asm.queue[i].seq = j
    BY <1>2 DEF Waits
  <2> PICK g : g = asm.queue[i]
    OBVIOUS
  <2>1. ~g.rnal /\ g \in Fragment /\ g.seq = j
    <3>1. asm.queue \in Seq(Fragment)
      BY LineTypes
    <3>2. g \in Fragment
      BY <3>1, ElementOfSeq, LenProperties
    <3> QED BY <3>2 DEF Inv, AssemblerInv, QueueHoldsOthers
  <2>2. Past(asm.id, asm.previous)
    BY <1>1, <1>2 DEF OrderInv, ProgressInv
  <2>3. Earlier(asm.id, asm.previous, g.seq, g.rp)
    BY <2>1, <2>2 DEF Past, AheadOf
  <2>4. j \in Nat
    BY <2>1, SubpacketsAssumption DEF Fragment
  <2> QED BY <1>1, <1>2, <2>1, <2>3, <2>4 DEF Earlier
<1>3. ASSUME Waits(j, rest) PROVE j >= f.seq
  <2> PICK i \in DOMAIN rest : rest[i].seq = j
    BY <1>3 DEF Waits
  <2> PICK g : g = rest[i]
    OBVIOUS
  <2>1. ~g.rnal /\ g \in Fragment /\ g.seq = j /\ j \in Nat
    <3>1. g \in Fragment
      BY ElementOfSeq, LenProperties DEF Fed
    <3>2. g.seq \in Nat
      BY <3>1, SubpacketsAssumption DEF Fragment
    <3> QED BY <3>1, <3>2 DEF Fed
  <2>2. AheadOf(f.seq, f.rp, rest)
    BY DEF Fed, Taken
  <2>3. Earlier(f.seq, f.rp, g.seq, g.rp)
    BY <2>1, <2>2 DEF AheadOf
  <2> QED BY <1>1, <2>1, <2>3 DEF Earlier
<1> QED BY <1>2, <1>3

\* What waits in one of two sequences waits in the two together.
LEMMA WaitsConcat ==
  ASSUME NEW s \in Seq(Fragment), NEW t \in Seq(Fragment), NEW j, Waits(j, s) \/ Waits(j, t)
  PROVE  Waits(j, s \o t)
<1>1. ASSUME NEW i \in DOMAIN s, s[i].seq = j PROVE Waits(j, s \o t)
  BY <1>1, ConcatMembers DEF Waits
<1>2. ASSUME NEW i \in DOMAIN t, t[i].seq = j PROVE Waits(j, s \o t)
  <2>1. PICK k \in DOMAIN (s \o t) : (s \o t)[k] = t[i]
    BY ConcatMembers
  <2> QED BY <1>2, <2>1 DEF Waits
<1> QED BY <1>1, <1>2 DEF Waits

\* f is put into a frame it does not complete.
LEMMA StoreDelivery ==
  ASSUME FifoNetwork, Inv, WholeInv, OrderInv, DeliveryInv,
         NEW f, NEW rest, Fed(f, rest), Usable(f), Seen(f),
         \A k, rp : Past(k, rp) => Past(k, rp)',
         asm'.id = f.seq, asm'.queue = Opened(f).queue, work' = rest, assembled' = assembled
  PROVE  DeliveryInv'
<1>1. /\ f \in Fragment /\ f.seq \in DOMAIN frames /\ UNCHANGED frames /\ AssemblerInv
      /\ IdOf(f.seq) = f.seq /\ f.seq # NoFrame /\ (f.rnal => asm.id = f.seq)
  <2>1. f \in Fragment /\ UNCHANGED frames /\ AssemblerInv
    BY DEF Fed, serverVars, Inv
  <2> QED BY <2>1, UsableFacts DEF OrderInv
<1>2. asm.id = f.seq => asm'.queue = asm.queue
  BY <1>1, OpenedFields
<1>3. AssembledPast'
  <2> SUFFICES ASSUME NEW n \in DOMAIN assembled', NEW k, k = assembled'[n][1]
               PROVE  Past(k, 0)' /\ k < asm'.id
    BY DEF AssembledPast
  <2> QED BY UsableLater DEF DeliveryInv, AssembledPast
<1>4. ASSUME NEW j \in arrived' PROVE Accounted(j)'
  <2>1. Reckoned(j, f, rest) /\ LastAssembled' = LastAssembled
    BY UsableReckoned DEF LastAssembled
  <2>2. asm.id = f.seq /\ Waits(j, asm.queue) => Waits(j, asm'.queue)
    BY <1>2
  <2> QED BY <1>1, <2>1, <2>2 DEF Reckoned, Accounted
<1>5. arrived' \subseteq DOMAIN frames' /\ asm'.id \in arrived'
  BY <1>1 DEF Seen, DeliveryInv, ArrivedInv
<1> QED BY <1>3, <1>4, <1>5 DEF DeliveryInv, ArrivedInv

\* Frames between the last assembled and frame k came not at all, or a key frame came since.
LeftOut(k) ==
  \A j \in (LastAssembled + 1)..(k - 1) :
    j \in arrived' => \E later \in (j + 1)..k : later \in arrived' /\ frames[later].key

\* One sequence behind another is longer.
LEMMA AppendedMember ==
  ASSUME NEW S, NEW s \in Seq(S), NEW e, e \in S
  PROVE  /\ Append(s, e) # <<>> /\ Append(s, e)[Len(Append(s, e))] = e
         /\ \A n \in DOMAIN Append(s, e) : \/ n \in DOMAIN s /\ Append(s, e)[n] = s[n]
                                           \/ Append(s, e)[n] = e
<1>1. /\ Append(s, e) \in Seq(S) /\ Len(Append(s, e)) = Len(s) + 1
      /\ \A i \in 1..Len(s) : Append(s, e)[i] = s[i]
      /\ Append(s, e)[Len(s) + 1] = e
  BY AppendProperties
<1>2. /\ DOMAIN s = 1..Len(s) /\ Len(s) \in Nat /\ DOMAIN Append(s, e) = 1..(Len(s) + 1)
  BY <1>1, LenProperties
<1>3. \A n \in 1..(Len(s) + 1) : n \in 1..Len(s) \/ n = Len(s) + 1
  BY <1>2
<1>4. Append(s, e) # <<>>
  <2>1. 1 \in DOMAIN Append(s, e)
    BY <1>2
  <2> QED BY <2>1
<1> QED BY <1>1, <1>2, <1>3, <1>4

\* f completes its frame: what is left out before it is lost or given up.
LEMMA CompleteDelivery ==
  ASSUME FifoNetwork, Inv, WholeInv, OrderInv, DeliveryInv,
         NEW f, NEW rest, Fed(f, rest), CompleteFrame(f, rest)
  PROVE  /\ DeliveryInv'
         /\ f.seq > LastAssembled /\ arrived' = arrived \union {f.seq} /\ LeftOut(f.seq)
         /\ \E fr \in Seq(0..MaxFrames) : assembled' = Append(assembled, fr) /\ fr[1] = f.seq
<1>1. /\ f \in Fragment /\ Genuine(f) /\ AssemblerInv /\ Usable(f) /\ InBounds(Opened(f), f)
      /\ asm' = Idle /\ Seen(f) /\ UNCHANGED frames /\ rest \in Seq(Fragment)
      /\ Stored(f).remaining = {} /\ work' = Stored(f).queue \o rest
      /\ assembled' = Append(assembled, Stored(f).frame) /\ MaxFrames < FrameIds /\ ExtentGenuine
  BY DEF Fed, Inv, CompleteFrame, serverVars, FifoNetwork, WholeInv, OnlyGenuine
<1>2. /\ asm'.queue = <<>> /\ work' = Opened(f).queue \o rest /\ asm'.id = NoFrame
      /\ Opened(f).queue \in Seq(Fragment)
  BY <1>1, KeptByReceived, IdleFacts, OpenedFacts DEF AssemblerState
<1>3. /\ IdOf(f.seq) = f.seq /\ f.seq # NoFrame /\ (f.rnal => asm.id = f.seq)
      /\ f.seq \in DOMAIN frames /\ DOMAIN frames = 1..Len(frames) /\ Len(frames) \in Nat
      /\ Total(f.seq) \in Nat \ {0}
  BY <1>1, UsableFacts, LineTypes DEF OrderInv
<1>4. /\ \A k, rp : Past(k, rp) => Past(k, rp)'
      /\ Past(f.seq, 0)'
  <2>1. 0 \in (0..(Total(f.seq) - 1)) \ Stored(f).remaining
    BY <1>1, <1>3
  <2> QED BY <1>1, <1>2, <2>1, StoredPast DEF OrderInv
<1> PICK fr : fr = Stored(f).frame
  OBVIOUS
<1>5. /\ fr \in Seq(0..MaxFrames) /\ fr[1] = f.seq /\ assembled' = Append(assembled, fr)
      /\ assembled \in Seq(Seq(0..MaxFrames))
  <2>1. fr \in Seq(0..MaxFrames)
    BY <1>1, StoredFacts DEF AssemblerState
  <2>2. fr[1] = f.seq
    BY <1>1, CompletedWhole
  <2> QED BY <1>1, <2>1, <2>2, LineTypes
<1>6. /\ assembled' # <<>> /\ assembled'[Len(assembled')] = fr
      /\ \A n \in DOMAIN assembled' : \/ n \in DOMAIN assembled /\ assembled'[n] = assembled[n]
                                      \/ assembled'[n] = fr
  BY <1>5, AppendedMember
<1>7. LastAssembled' = f.seq
  BY <1>5, <1>6 DEF LastAssembled
<1>8. arrived' = arrived \union {f.seq} /\ arrived' \subseteq DOMAIN frames
  <2>1. f.rnal => f.seq \in arrived
    BY <1>3 DEF DeliveryInv, ArrivedInv
  <2>2. arrived' = IF f.rnal THEN arrived ELSE arrived \union {f.seq}
    BY <1>1 DEF Seen
  <2>3. arrived' = arrived \union {f.seq}
    BY <2>1, <2>2
  <2> QED BY <1>3, <2>3 DEF DeliveryInv, ArrivedInv
<1>9. LastAssembled < f.seq /\ LastAssembled \in Nat /\ f.seq \in Nat
  BY <1>1, <1>3, UsableLater, LastType
<1>10. LeftOut(f.seq)
  <2> SUFFICES ASSUME NEW j \in (LastAssembled + 1)..(f.seq - 1), j \in arrived'
               PROVE  \E later \in (j + 1)..f.seq : later \in arrived' /\ frames[later].key
    BY DEF LeftOut
  <2>1. j \in Nat /\ ~(j <= LastAssembled) /\ ~(j >= f.seq) /\ j # f.seq
    BY <1>9
  <2>2. Reckoned(j, f, rest)
    BY <1>1, UsableReckoned
  <2>3. PICK later \in arrived' : j < later /\ later <= f.seq /\ frames[later].key
    BY <1>1, <2>1, <2>2, WaitingLater DEF Reckoned
  <2>4. later \in (j + 1)..f.seq
    BY <1>3, <1>8, <2>1, <2>3
  <2> QED BY <2>3, <2>4
<1>11. AssembledPast'
  <2> SUFFICES ASSUME NEW n \in DOMAIN assembled', NEW k, k = assembled'[n][1]
               PROVE  Past(k, 0)'
    BY <1>2 DEF AssembledPast
  <2>1. k = f.seq \/ Past(k, 0)
    BY <1>5, <1>6 DEF DeliveryInv, AssembledPast
  <2> QED BY <1>4, <2>1
<1>12. ASSUME NEW j \in arrived' PROVE Accounted(j)'
  <2>1. Reckoned(j, f, rest)
    BY <1>1, UsableReckoned
  <2>2. j \in Nat
    BY <1>3, <1>8
  <2>3. Waits(j, rest) => Waits(j, work')
    BY <1>1, <1>2, WaitsConcat
  <2>4. asm.id = f.seq /\ Waits(j, asm.queue) => Waits(j, work')
    <3> SUFFICES ASSUME asm.id = f.seq, Waits(j, asm.queue) PROVE Waits(j, work')
      OBVIOUS
    <3>1. Opened(f).queue = asm.queue
      BY <1>1, <1>3, OpenedFields
    <3> QED BY <1>1, <1>2, <3>1, WaitsConcat
  <2>5. \A later \in arrived' : j < later /\ later <= f.seq => j <= f.seq
    BY <1>3, <1>8, <1>9, <2>2
  <2>6. j <= f.seq \/ Waits(j, work')
    BY <1>9, <2>1, <2>2, <2>3, <2>4, <2>5 DEF Reckoned
  <2> QED BY <1>7, <2>6 DEF Accounted
<1>13. DeliveryInv'
  BY <1>1, <1>2, <1>8, <1>11, <1>12 DEF DeliveryInv, ArrivedInv
<1> QED BY <1>5, <1>8, <1>9, <1>10, <1>13

\* f is postponed.
LEMMA QueueDelivery ==
  ASSUME Inv, WholeInv, DeliveryInv, NEW f, NEW rest, Fed(f, rest), Seen(f), ~f.rnal,
         \A k, rp : Past(k, rp) => Past(k, rp)',
         asm'.id = asm.id, asm'.queue = Append(asm.queue, f), work' = rest,
         assembled' = assembled
  PROVE  DeliveryInv'
<1>1. /\ f \in Fragment /\ f.seq \in DOMAIN frames /\ UNCHANGED frames
      /\ asm.queue \in Seq(Fragment) /\ <<f>> \in Seq(Fragment)
  BY LineTypes, SingleLine DEF Fed, Genuine, serverVars
<1>2. AssembledPast'
  <2> SUFFICES ASSUME NEW n \in DOMAIN assembled', NEW k, k = assembled'[n][1]
               PROVE  Past(k, 0)' /\ (asm'.id # NoFrame => k < asm'.id)
    BY DEF AssembledPast
  <2> QED BY DEF DeliveryInv, AssembledPast
<1>3. ASSUME NEW j \in arrived' PROVE Accounted(j)'
  <2>1. Waits(j, asm.queue) \/ j = f.seq => Waits(j, asm'.queue)
    <3>1. asm'.queue = asm.queue \o <<f>>
      BY <1>1, AppendIsConcat
    <3>2. 1 \in DOMAIN <<f>> /\ <<f>>[1] = f
      OBVIOUS
    <3>3. Waits(j, asm.queue) => Waits(j, asm'.queue)
      BY <1>1, <3>1, WaitsConcat
    <3>4. Waits(f.seq, asm'.queue)
      <4>1. Waits(f.seq, <<f>>)
        BY <3>2 DEF Waits
      <4> QED BY <1>1, <3>1, <4>1, WaitsConcat
    <3> QED BY <3>3, <3>4
  <2>2. j = f.seq \/ (j \in arrived /\ Accounted(j))
    BY DEF Seen, DeliveryInv, ArrivedInv
  <2>3. Waits(j, work) => j = f.seq \/ Waits(j, work')
    BY DEF Fed
  <2>4. LastAssembled' = LastAssembled /\ arrived \subseteq arrived'
    BY DEF LastAssembled, Seen
  <2> QED BY <1>1, <2>1, <2>2, <2>3, <2>4 DEF Accounted
<1>4. arrived' \subseteq DOMAIN frames' /\ (asm'.id # NoFrame => asm'.id \in arrived')
  BY <1>1 DEF Seen, DeliveryInv, ArrivedInv
<1> QED BY <1>2, <1>3, <1>4 DEF DeliveryInv, ArrivedInv

\* A retransmission is ignored.
LEMMA SkipDelivery ==
  ASSUME Inv, DeliveryInv, NEW f, NEW rest, Fed(f, rest), f.rnal \/ work = rest,
         \A k, rp : Past(k, rp) => Past(k, rp)',
         UNCHANGED <<asm, assembled, arrived>>, work' = rest
  PROVE  DeliveryInv'
<1>1. AssembledPast'
  <2> SUFFICES ASSUME NEW n \in DOMAIN assembled', NEW k, k = assembled'[n][1]
               PROVE  Past(k, 0)' /\ (asm'.id # NoFrame => k < asm'.id)
    BY DEF AssembledPast
  <2> QED BY DEF DeliveryInv, AssembledPast
<1>2. ASSUME NEW j \in arrived PROVE Accounted(j)'
  <2>1. Accounted(j) /\ LastAssembled' = LastAssembled /\ UNCHANGED frames
    BY DEF DeliveryInv, ArrivedInv, LastAssembled, Fed, serverVars
  <2>2. Waits(j, work) => Waits(j, work')
    BY DEF Fed
  <2> QED BY <2>1, <2>2 DEF Accounted
<1> QED BY <1>1, <1>2 DEF DeliveryInv, ArrivedInv, Fed, serverVars

\* What a step of the player may do to the history.
PlayerDelivers(k) ==
  \/ assembled' = assembled /\ arrived' \in {arrived, arrived \union {k}}
  \/ /\ k > LastAssembled /\ arrived' = arrived \union {k} /\ LeftOut(k)
     /\ \E fr \in Seq(0..MaxFrames) : assembled' = Append(assembled, fr) /\ fr[1] = k

LEMMA PacketDelivery ==
  ASSUME FifoNetwork, Inv, Inv', WholeInv, WholeInv', OrderInv, DeliveryInv,
         NEW f, NEW rest, Fed(f, rest), Packet(f, rest),
         Panic(f) => work = rest
  PROVE  DeliveryInv' /\ PlayerDelivers(f.seq)
<1>1. \A k, rp : Past(k, rp) => Past(k, rp)'
  <2>1. Panic(f) => work' = rest
    BY DEF Panic
  <2> QED BY <2>1, PacketOrder
<1>2. f \in Fragment /\ AssemblerInv /\ IdOf(f.seq) = f.seq
  BY IdIsSeq DEF Fed, Inv, FifoNetwork, Fragment
<1>3. CASE SkipFragment(f, rest)
  BY <1>1, <1>3, SkipDelivery DEF SkipFragment, Useless, PlayerDelivers
<1>4. CASE QueueFragment(f, rest)
  <2>1. asm'.id = asm.id /\ asm'.queue = Append(asm.queue, f)
    BY <1>2, <1>4, QueuedFacts
  <2>2. work' = rest /\ assembled' = assembled /\ Seen(f) /\ ~f.rnal
    BY <1>4 DEF QueueFragment, Postponed
  <2> QED BY <1>1, <2>1, <2>2, QueueDelivery DEF PlayerDelivers, Seen
<1>5. CASE StoreFragment(f, rest) \/ StoreLastFragment(f, rest)
  <2>1. /\ Usable(f) /\ InBounds(Opened(f), f) /\ work' = rest /\ assembled' = assembled
        /\ Seen(f)
    BY <1>5 DEF StoreFragment, StoreLastFragment
  <2>2. asm'.id = Received(f).id /\ asm'.queue = Received(f).queue
    BY <1>2, <1>5, LastStoredFacts DEF StoreFragment
  <2>3. asm'.id = f.seq /\ asm'.queue = Opened(f).queue
    BY <1>2, <2>1, <2>2, ReceivedFacts, KeptByReceived
  <2> QED BY <1>1, <2>1, <2>3, StoreDelivery DEF PlayerDelivers, Seen
<1>6. CASE CompleteFrame(f, rest)
  BY <1>6, CompleteDelivery DEF PlayerDelivers
<1>7. CASE Panic(f)
  BY <1>1, <1>7, SkipDelivery DEF Panic, PlayerDelivers
<1> QED BY <1>3, <1>4, <1>5, <1>6, <1>7 DEF Packet

\* The steps of the specification, as FrameDelivery sees them.
Delivers ==
  \/ /\ UNCHANGED <<arrived, assembled>>
     /\ \/ UNCHANGED frames
        \/ \E size \in FrameSizes, key \in BOOLEAN :
             frames' = Append(frames, [size |-> size, key |-> key])
  \/ UNCHANGED frames /\ \E k \in DOMAIN frames : PlayerDelivers(k)

LEMMA NextDelivers ==
  ASSUME FifoNetwork
  PROVE  Inv /\ Inv' /\ WholeInv /\ WholeInv' /\ OrderInv /\ DeliveryInv /\ [Next]_vars =>
           DeliveryInv' /\ Delivers
<1> SUFFICES ASSUME Inv, Inv', WholeInv, WholeInv', OrderInv, DeliveryInv, [Next]_vars
             PROVE  DeliveryInv' /\ Delivers
  OBVIOUS
<1>1. \A k, rp : Past(k, rp) => Past(k, rp)'
  BY NextOrder
<1>2. ASSUME NEW size \in FrameSizes, NEW key \in BOOLEAN, DeployFrame(size, key)
      PROVE  DeliveryInv' /\ Delivers
  <2>1. DeliveryInv'
    BY <1>1, <1>2, DeployKeeps, DeliveryUnchanged DEF DeployFrame, assemblerVars
  <2> QED BY <1>2, <2>1 DEF DeployFrame, assemblerVars, Delivers
<1>3. CASE UNCHANGED <<frames, work, assembled, arrived>> /\ asm'.id = asm.id
           /\ asm'.queue = asm.queue
  BY <1>1, <1>3, DeliveryUnchanged DEF Delivers
<1>4. ASSUME NEW i \in 1..Window, ReceiveFragment(i)
      PROVE  DeliveryInv' /\ Delivers
  <2> PICK f : f = net[i]
    OBVIOUS
  <2>1. Fed(f, <<>>) /\ Packet(f, <<>>) /\ work = <<>>
    BY <1>4, FedFromNet DEF OrderInv
  <2>2. f.seq \in DOMAIN frames /\ UNCHANGED frames
    BY <2>1 DEF Fed, Genuine, serverVars
  <2> QED BY <2>1, <2>2, PacketDelivery DEF Delivers
<1>5. CASE Requeue
  <2> PICK f : f = Head(work)
    OBVIOUS
  <2> PICK rest : rest = Tail(work)
    OBVIOUS
  <2>1. Fed(f, rest) /\ Packet(f, rest)
    <3>1. LineInv
      BY DEF OrderInv
    <3> QED BY <1>5, <3>1, FedFromWork
  <2>2. f.seq \in DOMAIN frames /\ UNCHANGED frames
    BY <2>1 DEF Fed, Genuine, serverVars
  <2>3. CASE Panic(f)
    BY <1>3, <2>2, <2>3 DEF Panic
  <2>4. CASE ~Panic(f)
    BY <2>1, <2>2, <2>4, PacketDelivery DEF Delivers
  <2> QED BY <2>3, <2>4
<1>6. ASSUME NEW rp \in asm.recent, Expire(rp)
      PROVE  DeliveryInv' /\ Delivers
  <2>1. /\ asm \in AssemblerState /\ asm' = [asm EXCEPT !.recent = asm.recent \ {rp}]
        /\ UNCHANGED <<work, assembled, arrived, frames>>
    BY <1>6 DEF Inv, AssemblerInv, AssemblerTypeOK, Expire, RequestExpires, serverVars
  <2>2. asm'.id = asm.id /\ asm'.queue = asm.queue
    BY <2>1 DEF AssemblerState
  <2> QED BY <1>3, <2>1, <2>2
<1> QED BY <1>2, <1>3, <1>4, <1>5, <1>6
        DEF Next, BroadcastSubpacket, RetransmitFrame, DrainSubpacketCache, LoseRequest, vars,
            assemblerVars, serverVars

\* The state of FrameDelivery.
EncodedKeys == [n \in DOMAIN frames |-> frames[n].key]
DecodedFrames == [n \in DOMAIN assembled |-> assembled[n][1]]

\* The last frame decoded is the last one assembled.
LEMMA LastDecodedIs ==
  ASSUME Inv
  PROVE  (IF DecodedFrames = <<>> THEN 0 ELSE DecodedFrames[Len(DecodedFrames)])
           = LastAssembled
<1>1. assembled \in Seq(Seq(0..MaxFrames)) /\ DOMAIN assembled = 1..Len(assembled)
      /\ Len(assembled) \in Nat
  BY LineTypes, LenProperties
<1>2. CASE assembled = <<>>
  <2>1. DOMAIN assembled = {}
    BY <1>2
  <2>2. DecodedFrames = <<>>
    BY <2>1 DEF DecodedFrames
  <2> QED BY <1>2, <2>2 DEF LastAssembled
<1>3. CASE assembled # <<>>
  <2>1. Len(assembled) \in Nat \ {0}
    BY <1>1, <1>3, EmptySeq
  <2> DEFINE T == {assembled[n][1] : n \in 1..Len(assembled)}
  <2>2. DecodedFrames \in [1..Len(assembled) -> T]
    BY <1>1 DEF DecodedFrames
  <2>3. Len(DecodedFrames) = Len(assembled) /\ DecodedFrames \in Seq(T)
    BY <1>1, <2>2, FunctionIsSeq
  <2>4. DecodedFrames # <<>>
    BY <2>1, <2>3, EmptySeq
  <2>5. DecodedFrames[Len(assembled)] = assembled[Len(assembled)][1]
    BY <1>1, <2>1 DEF DecodedFrames
  <2> QED BY <1>3, <2>3, <2>4, <2>5 DEF LastAssembled
<1> QED BY <1>2, <1>3

\* Over a network that neither reorders nor duplicates, and while no frame id comes round
\* again, the stream implements FrameDelivery: frames reach the decoder in the order of
\* encoding, and one of which a NAL came is left out only for a later key frame.
THEOREM DeliveredInOrder ==
  ASSUME FifoNetwork
  PROVE  Spec => DeliversInOrder
<1>1. Init => Delivery!Init
  <2> SUFFICES ASSUME Init PROVE Delivery!Init
    OBVIOUS
  <2>1. frames = <<>> /\ arrived = {} /\ assembled = <<>> /\ DOMAIN <<>> = {}
    BY DEF Init, AssemblerInit
  <2> QED BY <2>1 DEF Delivery!Init
<1>2. ASSUME Inv, Inv', WholeInv, WholeInv', OrderInv, DeliveryInv, [Next]_vars
      PROVE  DeliveryInv' /\ [Delivery!Next]_(Delivery!deliveryVars)
  <2>1. DeliveryInv' /\ Delivers
    BY <1>2, NextDelivers
  <2> SUFFICES [Delivery!Next]_(Delivery!deliveryVars)
    BY <2>1
  <2>2. CASE UNCHANGED <<frames, arrived, assembled>>
    BY <2>2 DEF Delivery!deliveryVars
  <2>3. ASSUME UNCHANGED <<arrived, assembled>>, NEW size \in FrameSizes, NEW key \in BOOLEAN,
               frames' = Append(frames, [size |-> size, key |-> key])
        PROVE  Delivery!Encode
    <3> PICK fr : fr = [size |-> size, key |-> key]
      OBVIOUS
    <3>1. /\ frames \in Seq([size : FrameSizes, key : BOOLEAN])
          /\ fr \in [size : FrameSizes, key : BOOLEAN] /\ fr.key = key
      BY <1>2, LineTypes
    <3> DEFINE F(x) == x.key
    <3>2. [n \in DOMAIN Append(frames, fr) |-> F(Append(frames, fr)[n])]
            = Append([n \in DOMAIN frames |-> F(frames[n])], F(fr))
      <4> HIDE DEF F
      <4> QED BY <3>1
    <3>3. EncodedKeys' = Append(EncodedKeys, key)
      BY <2>3, <3>1, <3>2 DEF EncodedKeys
    <3> QED BY <2>3, <3>3 DEF Delivery!Encode, EncodedKeys
  <2>4. ASSUME UNCHANGED <<frames, assembled>>, NEW k \in DOMAIN frames,
               arrived' = arrived \union {k}
        PROVE  Delivery!See(k)
    BY <2>4 DEF Delivery!See
  <2>5. ASSUME UNCHANGED frames, NEW k \in DOMAIN frames, k > LastAssembled,
               arrived' = arrived \union {k}, LeftOut(k),
               NEW fr \in Seq(0..MaxFrames), assembled' = Append(assembled, fr), fr[1] = k
        PROVE  Delivery!Decode(k)
    <3>1. assembled \in Seq(Seq(0..MaxFrames)) /\ Delivery!LastDecoded = LastAssembled
      BY <1>2, LineTypes, LastDecodedIs DEF Delivery!LastDecoded, DecodedFrames
    <3> DEFINE F(x) == x[1]
    <3>2. [n \in DOMAIN Append(assembled, fr) |-> F(Append(assembled, fr)[n])]
            = Append([n \in DOMAIN assembled |-> F(assembled[n])], F(fr))
      <4> HIDE DEF F
      <4> QED BY <3>1
    <3>3. DecodedFrames' = Append(DecodedFrames, k)
      BY <2>5, <3>2 DEF DecodedFrames
    <3>4. ASSUME NEW j \in (LastAssembled + 1)..(k - 1)
          PROVE  Delivery!Excused(j, k)
      <4>1. LastAssembled \in Nat /\ DOMAIN frames = 1..Len(frames) /\ Len(frames) \in Nat
        BY <1>2, LastType, LineTypes
      <4>2. \A later \in (j + 1)..k : later \in DOMAIN frames
        BY <4>1
      <4> QED BY <2>5, <4>2 DEF LeftOut, Delivery!Excused
    <3> QED BY <2>5, <3>1, <3>3, <3>4 DEF Delivery!Decode, DecodedFrames
  <2>6. DOMAIN EncodedKeys = DOMAIN frames
    BY DEF EncodedKeys
  <2>7. CASE UNCHANGED frames /\ \E k \in DOMAIN frames : PlayerDelivers(k)
    <3> PICK k \in DOMAIN frames : PlayerDelivers(k)
      BY <2>7
    <3>1. CASE assembled' = assembled /\ arrived' \in {arrived, arrived \union {k}}
      BY <2>2, <2>4, <2>6, <2>7, <3>1 DEF Delivery!Next, EncodedKeys
    <3>2. CASE /\ k > LastAssembled /\ arrived' = arrived \union {k} /\ LeftOut(k)
               /\ \E fr \in Seq(0..MaxFrames) : assembled' = Append(assembled, fr) /\ fr[1] = k
      BY <2>5, <2>6, <2>7, <3>2 DEF Delivery!Next, EncodedKeys
    <3> QED BY <3>1, <3>2 DEF PlayerDelivers
  <2> QED BY <2>1, <2>2, <2>3, <2>7 DEF Delivers, Delivery!Next
<1>3. Init => DeliveryInv
  <2> SUFFICES ASSUME Init PROVE DeliveryInv
    OBVIOUS
  <2>1. arrived = {} /\ assembled = <<>> /\ DOMAIN <<>> = {} /\ asm.id = NoFrame
    BY IdleFacts DEF Init, AssemblerInit
  <2> QED BY <2>1 DEF DeliveryInv, AssembledPast, ArrivedInv
<1>4. Spec => [](Inv /\ WholeInv /\ OrderInv)
  BY OrderInvariance
<1>5. Inv /\ Inv' /\ WholeInv /\ WholeInv' /\ OrderInv /\ DeliveryInv /\ [Next]_vars =>
        DeliveryInv' /\ [Delivery!Next]_(Delivery!deliveryVars)
  BY <1>2
<1> QED BY <1>1, <1>3, <1>4, <1>5, PTL DEF Spec, DeliversInOrder, Delivery!Spec
===============================================================================
