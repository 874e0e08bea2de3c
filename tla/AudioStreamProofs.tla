--------------------------- MODULE AudioStreamProofs ---------------------------
(***************************************************************************)
(* Proofs about AudioStream: types for every network and any codecs; for one   *)
(* codec on any network that frames are handed over whole; and, where the      *)
(* network neither reorders nor duplicates, that they are handed over in order *)
(* and lost only with their subpackets.                                        *)
(***************************************************************************)
EXTENDS AudioStream, SequenceTheorems, FiniteSetTheorems, TLAPS

AudioFrame == [codec : Codecs, size : FrameSizes, id : 0..(FrameIds - 1)]

Assembler ==
  [id : {NoFrame} \union 0..(FrameIds - 1), size : FrameSizes \union {0},
   total : Nat, frame : Seq(0..MaxFrames), remaining : SUBSET Nat]

Handed == [codec : Codecs, frame : Seq(0..MaxFrames)]

\* `frame' has a slot for each subpacket of the frame under assembly.
Slotted == Len(asm.frame) = asm.total

\* Only of a deployed frame is anything left to be sent.
UnsentOfFrame ==
  unsent > 0 => frames # <<>> /\ unsent <= SubpacketCount(frames[Len(frames)].size)

TypeInv == TypeOK /\ Slotted /\ UnsentOfFrame

-------------------------------------------------------------------------------
(* Operators.                                                                  *)

LEMMA CountType ==
  ASSUME NEW size \in FrameSizes
  PROVE  SubpacketCount(size) \in Nat \ {0}
BY SubpacketsAssumption DEF SubpacketCount

\* All but the last of n pieces of p bytes are full.
LEMMA CountBound ==
  ASSUME NEW size \in Nat \ {0}, NEW p \in Nat \ {0}
  PROVE  /\ (size + p - 1) \div p \in Nat \ {0}
         /\ ((size + p - 1) \div p - 1) * p <= size
<1> PICK n : n = (size + p - 1) \div p
  OBVIOUS
<1>1. n \in Int /\ p * n <= size + p - 1 /\ size + p - 1 < p * n + p
  BY SMTT(30)
<1>2. n >= 1
  <2> SUFFICES ASSUME n <= 0 PROVE FALSE
    BY <1>1
  <2>1. p * n <= 0
    BY <1>1
  <2> QED BY <1>1, <2>1
<1>3. (n - 1) * p = p * n - p
  BY <1>1
<1> QED BY <1>1, <1>2, <1>3

LEMMA IdType ==
  ASSUME NEW k \in Nat
  PROVE  IdOf(k) \in 0..(FrameIds - 1)
BY SubpacketsAssumption DEF IdOf

LEMMA ProductMonotone ==
  ASSUME NEW a \in Nat, NEW b \in Nat, NEW p \in Nat, a <= b
  PROVE  a * p <= b * p
OBVIOUS

\* A function on 1..n is a sequence.
LEMMA FunctionIsSeq ==
  ASSUME NEW S, NEW n \in Nat, NEW s \in [1..n -> S]
  PROVE  s \in Seq(S) /\ Len(s) = n
OBVIOUS

\* A network that delivered its i-th datagram is still one.
LEMMA RemoveAtType ==
  ASSUME NEW S, NEW s \in Seq(S), NEW i \in 1..Len(s)
  PROVE  RemoveAt(s, i) \in Seq(S)
<1>1. SubSeq(s, 1, i - 1) \in Seq(S)
  BY SubSeqProperties, ElementOfSeq
<1>2. SubSeq(s, i + 1, Len(s)) \in Seq(S)
  BY SubSeqProperties, ElementOfSeq
<1> QED BY <1>1, <1>2, ConcatProperties DEF RemoveAt

\* What is left was there before.
LEMMA RemoveAtKeeps ==
  ASSUME NEW S, NEW s \in Seq(S), NEW i \in 1..Len(s)
  PROVE  \A j \in DOMAIN RemoveAt(s, i) : \E l \in DOMAIN s : RemoveAt(s, i)[j] = s[l]
<1> DEFINE a == SubSeq(s, 1, i - 1)
           b == SubSeq(s, i + 1, Len(s))
<1>1. Len(s) \in Nat /\ i \in Nat /\ DOMAIN s = 1..Len(s) /\ i >= 1 /\ i <= Len(s)
  BY LenProperties
<1>2. \A j \in 1..Len(s) : s[j] \in S
  BY ElementOfSeq
<1>3. /\ a \in Seq(S) /\ Len(a) = i - 1
      /\ \A j \in 1..(i - 1) : a[j] = s[j]
  <2>1. \A j \in 1..(i - 1) : s[j] \in S
    BY <1>1, <1>2
  <2>2. /\ a \in Seq(S) /\ Len(a) = IF 1 <= i - 1 THEN i - 1 - 1 + 1 ELSE 0
        /\ \A j \in 1..(i - 1 - 1 + 1) : a[j] = s[1 + j - 1]
    BY <1>1, <2>1, SubSeqProperties
  <2> HIDE DEF a
  <2> QED BY <1>1, <2>2
<1>4. /\ b \in Seq(S) /\ Len(b) = Len(s) - i
      /\ \A j \in 1..(Len(s) - i) : b[j] = s[i + j]
  <2>1. \A j \in (i + 1)..Len(s) : s[j] \in S
    BY <1>1, <1>2
  <2>2. b \in Seq(S) /\ Len(b) = IF i + 1 <= Len(s) THEN Len(s) - (i + 1) + 1 ELSE 0
    BY <1>1, <2>1, SubSeqProperties
  <2>3. \A j \in 1..(Len(s) - (i + 1) + 1) : b[j] = s[i + 1 + j - 1]
    BY <1>1, <2>1, SubSeqProperties
  <2> HIDE DEF b
  <2>4. Len(b) = Len(s) - i
    <3>1. CASE i + 1 <= Len(s)
      <4>1. Len(b) = Len(s) - (i + 1) + 1
        BY <2>2, <3>1
      <4>2. Len(s) - (i + 1) + 1 = Len(s) - i
        BY <1>1
      <4> QED BY <4>1, <4>2
    <3>2. CASE ~(i + 1 <= Len(s))
      <4>1. Len(b) = 0
        BY <2>2, <3>2
      <4>2. \A n \in Nat, l \in Nat : l <= n /\ ~(l + 1 <= n) => n - l = 0
        OBVIOUS
      <4>3. Len(s) - i = 0
        BY <1>1, <3>2, <4>2
      <4> QED BY <4>1, <4>3
    <3> QED BY <3>1, <3>2
  <2>5. ASSUME NEW j \in 1..(Len(s) - i)
        PROVE  b[j] = s[i + j]
    <3>1. j \in 1..(Len(s) - (i + 1) + 1) /\ i + 1 + j - 1 = i + j
      <4>1. Len(s) - (i + 1) + 1 = Len(s) - i
        BY <1>1
      <4>2. j \in Int /\ i \in Int
        BY <1>1
      <4>3. i + 1 + j - 1 = i + j
        BY <4>2
      <4> QED BY <4>1, <4>3
    <3>2. b[j] = s[i + 1 + j - 1]
      BY <2>3, <3>1
    <3> QED BY <3>1, <3>2, Zenon
  <2> QED BY <2>2, <2>4, <2>5
<1> HIDE DEF a, b
<1>5. /\ a \o b \in Seq(S) /\ Len(a \o b) = Len(s) - 1
      /\ \A j \in 1..(Len(s) - 1) : (a \o b)[j] = IF j <= i - 1 THEN a[j] ELSE b[j - (i - 1)]
  <2>1. /\ a \o b \in Seq(S) /\ Len(a \o b) = Len(a) + Len(b)
        /\ \A j \in 1..(Len(a) + Len(b)) :
             (a \o b)[j] = IF j <= Len(a) THEN a[j] ELSE b[j - Len(a)]
    BY <1>3, <1>4, ConcatProperties
  <2>2. Len(a) + Len(b) = Len(s) - 1
    BY <1>1, <1>3, <1>4
  <2> QED BY <1>3, <2>1, <2>2
<1>6. DOMAIN (a \o b) = 1..(Len(s) - 1)
  BY <1>5, LenProperties
<1>7. ASSUME NEW j \in 1..(Len(s) - 1)
      PROVE  \E l \in DOMAIN s : (a \o b)[j] = s[l]
  <2>1. CASE j <= i - 1
    <3>1. j \in DOMAIN s /\ j \in 1..(i - 1)
      BY <1>1, <2>1
    <3> QED BY <1>3, <1>5, <2>1, <3>1
  <2>2. CASE ~(j <= i - 1)
    <3>1. j - (i - 1) \in 1..(Len(s) - i) /\ i + (j - (i - 1)) = j + 1 /\ j + 1 \in 1..Len(s)
      BY <1>1, <2>2
    <3>2. (a \o b)[j] = b[j - (i - 1)]
      BY <1>5, <2>2
    <3>3. (a \o b)[j] = s[j + 1]
      BY <1>4, <3>1, <3>2
    <3> QED BY <1>1, <3>1, <3>3
  <2> QED BY <2>1, <2>2
<1> QED BY <1>6, <1>7 DEF RemoveAt, a, b

\* The oldest datagram is the head, and the others move up.
LEMMA RemoveFirstFacts ==
  ASSUME NEW S, NEW s \in Seq(S), s # <<>>
  PROVE  /\ RemoveAt(s, 1) = Tail(s)
         /\ DOMAIN Tail(s) = 1..(Len(s) - 1)
         /\ \A j \in DOMAIN Tail(s) : Tail(s)[j] = s[j + 1] /\ j + 1 \in DOMAIN s
<1>1. Len(s) \in Nat \ {0}
  BY EmptySeq
<1>2. SubSeq(s, 1, 0) = <<>>
  BY SubSeqEmpty
<1>3. Tail(s) = SubSeq(s, 2, Len(s)) /\ Tail(s) \in Seq(S)
  BY TailIsSubSeq, HeadTailProperties
<1>4. <<>> \o Tail(s) = Tail(s)
  BY <1>3, ConcatEmptySeq
<1>5. /\ Len(Tail(s)) = Len(s) - 1
      /\ \A j \in 1..Len(Tail(s)) : Tail(s)[j] = s[j + 1]
  BY HeadTailProperties
<1>6. RemoveAt(s, 1) = Tail(s)
  BY <1>2, <1>3, <1>4 DEF RemoveAt
<1>7. DOMAIN Tail(s) = 1..Len(Tail(s)) /\ DOMAIN s = 1..Len(s)
  BY <1>3, LenProperties
<1> QED BY <1>1, <1>5, <1>6, <1>7

\* What a resized `frame' is.
LEMMA StartFrameFacts ==
  ASSUME TypeInv, NEW f \in AudioFragment
  PROVE  /\ StartFrame(f) \in Assembler
         /\ StartFrame(f).id = f.id /\ StartFrame(f).size = f.size
         /\ StartFrame(f).total = SubpacketCount(f.size)
         /\ Len(StartFrame(f).frame) = SubpacketCount(f.size)
         /\ StartFrame(f).remaining = 0..(SubpacketCount(f.size) - 1)
<1> DEFINE total == SubpacketCount(f.size)
           fr == [i \in 1..total |-> IF i <= asm.total THEN asm.frame[i] ELSE Zeroed]
<1>1. total \in Nat \ {0} /\ f.size \in FrameSizes /\ f.id \in 0..(FrameIds - 1)
  BY CountType DEF AudioFragment
<1>2. StartFrame(f) = [id |-> f.id, size |-> f.size, total |-> total, frame |-> fr,
                       remaining |-> 0..(total - 1)]
  BY DEF StartFrame
<1>3. \A i \in 1..total : fr[i] \in 0..MaxFrames
  <2> SUFFICES ASSUME NEW i \in 1..total
               PROVE  (IF i <= asm.total THEN asm.frame[i] ELSE Zeroed) \in 0..MaxFrames
    OBVIOUS
  <2>1. asm.frame \in Seq(0..MaxFrames) /\ asm.total \in Nat /\ Len(asm.frame) = asm.total
    BY DEF TypeInv, TypeOK, Slotted
  <2>2. CASE i <= asm.total
    <3>1. i \in 1..Len(asm.frame)
      BY <1>1, <2>1, <2>2
    <3> QED BY <2>1, <2>2, <3>1, ElementOfSeq
  <2>3. CASE ~(i <= asm.total)
    BY <2>3, SubpacketsAssumption DEF Zeroed
  <2> QED BY <2>2, <2>3
<1>4. fr \in [1..total -> 0..MaxFrames]
  BY <1>3
<1> HIDE DEF fr, total
<1>5. fr \in Seq(0..MaxFrames) /\ Len(fr) = total
  BY <1>1, <1>4, FunctionIsSeq
<1>6. 0..(total - 1) \in SUBSET Nat
  BY <1>1
<1>7. StartFrame(f) \in Assembler
  BY <1>1, <1>2, <1>5, <1>6 DEF Assembler
<1> QED BY <1>2, <1>5, <1>7 DEF total

LEMMA OpenedType ==
  ASSUME TypeInv, NEW f \in AudioFragment
  PROVE  /\ Opened(f) \in Assembler /\ Len(Opened(f).frame) = Opened(f).total
         /\ Opened(f).id = f.id
<1>1. asm \in Assembler /\ Len(asm.frame) = asm.total
  BY DEF TypeInv, TypeOK, Assembler, Slotted
<1> QED BY <1>1, StartFrameFacts DEF Opened

\* Storing f fills the slot that its number gives it.
LEMMA StoredFacts ==
  ASSUME TypeInv, NEW f \in AudioFragment, InBounds(Opened(f), f)
  PROVE  /\ Stored(f) \in Assembler
         /\ Stored(f).id = f.id /\ Stored(f).size = Opened(f).size
         /\ Stored(f).total = Opened(f).total
         /\ Len(Stored(f).frame) = Stored(f).total
         /\ Stored(f).remaining = Opened(f).remaining \ {f.rp}
         /\ \A j \in 1..Opened(f).total :
              Stored(f).frame[j] = IF j = Opened(f).total - f.rp THEN f.seq
                                   ELSE Opened(f).frame[j]
<1> DEFINE o == Opened(f)
           fr == [o.frame EXCEPT ![o.total - f.rp] = f.seq]
<1>1. o \in Assembler /\ Len(o.frame) = o.total /\ o.id = f.id
  BY OpenedType
<1>2. Stored(f) = [o EXCEPT !.frame = fr, !.remaining = o.remaining \ {f.rp}]
  BY <1>1 DEF Stored, Assembler
<1>3. f.rp < o.total /\ f.rp \in Nat /\ f.seq \in 0..MaxFrames
  BY SubpacketsAssumption DEF InBounds, AudioFragment
<1> HIDE DEF o
<1>4. o.total - f.rp \in 1..Len(o.frame) /\ o.frame \in Seq(0..MaxFrames)
  BY <1>1, <1>3 DEF Assembler
<1>5. /\ fr \in Seq(0..MaxFrames) /\ Len(fr) = o.total
      /\ \A j \in 1..o.total : fr[j] = IF j = o.total - f.rp THEN f.seq ELSE o.frame[j]
  BY <1>1, <1>3, <1>4, ExceptSeq
<1> HIDE DEF fr
<1>6. Stored(f) = [id |-> o.id, size |-> o.size, total |-> o.total, frame |-> fr,
                   remaining |-> o.remaining \ {f.rp}]
  BY <1>1, <1>2 DEF Assembler
<1>7. Stored(f) \in Assembler
  BY <1>1, <1>5, <1>6 DEF Assembler
<1> QED BY <1>1, <1>5, <1>6, <1>7 DEF o

-------------------------------------------------------------------------------
(* Types.                                                                      *)

LEMMA LastFrame ==
  ASSUME TypeInv, unsent > 0
  PROVE  /\ Len(frames) \in 1..MaxFrames /\ Len(frames) \in DOMAIN frames
         /\ frames[Len(frames)] \in AudioFrame
         /\ unsent \in 1..SubpacketCount(frames[Len(frames)].size)
         /\ SubpacketCount(frames[Len(frames)].size) \in Nat
<1>1. frames \in Seq(AudioFrame) /\ frames # <<>> /\ Len(frames) <= MaxFrames
  BY DEF TypeInv, TypeOK, AudioFrame, UnsentOfFrame
<1>2. Len(frames) \in Nat \ {0} /\ DOMAIN frames = 1..Len(frames)
  BY <1>1, EmptySeq, LenProperties
<1>3. Len(frames) \in 1..MaxFrames /\ Len(frames) \in 1..Len(frames)
  BY <1>1, <1>2, SubpacketsAssumption
<1>4. frames[Len(frames)] \in AudioFrame
  BY <1>1, <1>3, ElementOfSeq
<1>5. SubpacketCount(frames[Len(frames)].size) \in Nat
  BY <1>4, CountType DEF AudioFrame
<1> QED BY <1>2, <1>3, <1>4, <1>5 DEF TypeInv, TypeOK, UnsentOfFrame

LEMMA NextFragmentType ==
  ASSUME TypeInv, unsent > 0
  PROVE  NextFragment \in AudioFragment
<1>1. unsent - 1 \in Nat
  BY DEF TypeInv, TypeOK
<1> QED BY <1>1, LastFrame DEF NextFragment, AudioFragment, AudioFrame

LEMMA DeployFrameType ==
  ASSUME TypeInv, NEW codec \in Codecs, NEW size \in FrameSizes, DeployFrame(codec, size)
  PROVE  /\ TypeInv' /\ Len(frames') = Len(frames) + 1
         /\ frames'[Len(frames')].codec = codec /\ frames'[Len(frames')].size = size
         /\ frames'[Len(frames')].id = IdOf(Cardinality(OfCodec(codec)) + 1)
         /\ DOMAIN frames' = 1..(Len(frames) + 1) /\ DOMAIN frames = 1..Len(frames)
         /\ \A k \in DOMAIN frames : frames'[k] = frames[k]
<1> DEFINE rec == [codec |-> codec, size |-> size,
                   id |-> IdOf(Cardinality(OfCodec(codec)) + 1)]
<1>1. frames \in Seq(AudioFrame) /\ Len(frames) \in Nat /\ Len(frames) < MaxFrames
  BY DEF TypeInv, TypeOK, AudioFrame, DeployFrame
<1>2. DOMAIN frames = 1..Len(frames)
  BY <1>1, LenProperties
<1>3. Cardinality(OfCodec(codec)) \in Nat
  <2>1. IsFiniteSet(1..Len(frames))
    BY <1>1, FS_Interval
  <2> QED BY <1>2, <2>1, FS_Subset, FS_CardinalityType DEF OfCodec
<1>4. rec \in AudioFrame /\ frames' = Append(frames, rec)
  <2>1. IdOf(Cardinality(OfCodec(codec)) + 1) \in 0..(FrameIds - 1)
    BY <1>3, IdType
  <2> QED BY <2>1 DEF AudioFrame, DeployFrame
<1> HIDE DEF rec
<1>5. /\ frames' \in Seq(AudioFrame) /\ Len(frames') = Len(frames) + 1
      /\ frames'[Len(frames) + 1] = rec
      /\ \A k \in 1..Len(frames) : frames'[k] = frames[k]
  BY <1>1, <1>4, AppendProperties
<1>6. DOMAIN frames' = 1..(Len(frames) + 1) /\ frames' # <<>>
  BY <1>1, <1>5, LenProperties
<1>7. unsent' = SubpacketCount(size) /\ unsent' \in Nat /\ rec.size = size
  BY CountType DEF DeployFrame, rec
<1>8. TypeOK'
  BY <1>1, <1>5, <1>7, SubpacketsAssumption DEF TypeInv, TypeOK, AudioFrame, DeployFrame
<1>9. Slotted' /\ UnsentOfFrame'
  BY <1>1, <1>5, <1>6, <1>7 DEF TypeInv, Slotted, UnsentOfFrame, DeployFrame
<1> QED BY <1>2, <1>5, <1>6, <1>8, <1>9 DEF TypeInv, rec

LEMMA BroadcastSubpacketType ==
  ASSUME TypeInv, NEW copies \in 0..MaxCopies, BroadcastSubpacket(copies)
  PROVE  TypeInv'
<1> DEFINE s == [i \in 1..copies |-> NextFragment]
<1>1. s \in Seq(AudioFragment)
  <2>1. copies \in Nat /\ s \in [1..copies -> AudioFragment]
    BY AudioStreamAssumption, NextFragmentType DEF BroadcastSubpacket
  <2> HIDE DEF s
  <2> QED BY <2>1, FunctionIsSeq
<1>2. net' = net \o s \/ net' = net
  BY DEF BroadcastSubpacket, Transmit
<1> HIDE DEF s
<1>3. net' \in Seq(AudioFragment)
  <2>1. net \in Seq(AudioFragment)
    BY DEF TypeInv, TypeOK
  <2> QED BY <1>1, <1>2, <2>1, ConcatProperties
<1>4. unsent' \in Nat /\ unsent' <= unsent
  BY DEF BroadcastSubpacket, TypeInv, TypeOK
<1>5. TypeOK' /\ Slotted'
  BY <1>3, <1>4 DEF TypeInv, TypeOK, Slotted, BroadcastSubpacket
<1>6. UnsentOfFrame'
  BY <1>4, LastFrame DEF TypeInv, TypeOK, UnsentOfFrame, BroadcastSubpacket
<1> QED BY <1>5, <1>6 DEF TypeInv

LEMMA ReceiveFragmentType ==
  ASSUME TypeInv, NEW i \in 1..Window, ReceiveFragment(i)
  PROVE  TypeInv' /\ i \in 1..Len(net) /\ net[i] \in AudioFragment
<1>1. net \in Seq(AudioFragment) /\ i \in 1..Len(net)
  BY AudioStreamAssumption DEF TypeInv, TypeOK, ReceiveFragment
<1> DEFINE f == net[i]
<1>2. f \in AudioFragment
  BY <1>1, ElementOfSeq
<1>3. net' \in Seq(AudioFragment)
  BY <1>1, RemoveAtType DEF ReceiveFragment
<1>4. received' \subseteq (1..MaxFrames) \X Nat
  BY <1>2, SMTT(30) DEF ReceiveFragment, AudioFragment, TypeInv, TypeOK
<1>5. UNCHANGED <<frames, unsent>>
  BY DEF ReceiveFragment
<1>a. disordered' \in BOOLEAN
  BY DEF ReceiveFragment
<1> SUFFICES /\ asm' \in Assembler /\ Len(asm'.frame) = asm'.total
             /\ assembled' \in Seq(Handed) /\ panicked' \in BOOLEAN
  BY <1>1, <1>2, <1>3, <1>4, <1>5, <1>a
     DEF TypeInv, TypeOK, Slotted, UnsentOfFrame, Assembler, Handed
<1>6. /\ asm \in Assembler /\ Len(asm.frame) = asm.total
      /\ assembled \in Seq(Handed) /\ panicked \in BOOLEAN
  BY DEF TypeInv, TypeOK, Slotted, Assembler, Handed
<1> HIDE DEF f
<1>7. CASE StoreFragment(f)
  BY <1>2, <1>6, <1>7, StoredFacts DEF StoreFragment
<1>8. CASE CompleteFrame(f)
  <2>1. [codec |-> f.codec, frame |-> Stored(f).frame] \in Handed
    BY <1>2, <1>8, StoredFacts DEF CompleteFrame, AudioFragment, Assembler, Handed
  <2>2. assembled' \in Seq(Handed)
    BY <1>6, <1>8, <2>1, AppendProperties DEF CompleteFrame
  <2>3. asm' = Idle
    BY <1>8 DEF CompleteFrame
  <2>4. Idle \in Assembler /\ Len(Idle.frame) = Idle.total
    BY DEF Idle, Assembler
  <2> QED BY <1>6, <1>8, <2>2, <2>3, <2>4 DEF CompleteFrame
<1>9. CASE Panic(f)
  BY <1>6, <1>9 DEF Panic
<1> QED BY <1>7, <1>8, <1>9 DEF ReceiveFragment, f

LEMMA TypeInit ==
  ASSUME Init
  PROVE  TypeInv
<1>1. Idle \in Assembler /\ Len(Idle.frame) = Idle.total
  BY DEF Idle, Assembler
<1>2. /\ frames \in Seq(AudioFrame) /\ Len(frames) <= MaxFrames
      /\ net \in Seq(AudioFragment) /\ assembled \in Seq(Handed)
  BY SubpacketsAssumption, EmptySeq DEF Init
<1>3. TypeOK
  BY <1>1, <1>2 DEF Init, TypeOK, Assembler, AudioFrame, Handed
<1> QED BY <1>1, <1>3 DEF Init, TypeInv, Slotted, UnsentOfFrame

LEMMA TypeStep ==
  ASSUME TypeInv, [Next]_vars
  PROVE  TypeInv'
<1>1. ASSUME NEW codec \in Codecs, NEW size \in FrameSizes, DeployFrame(codec, size)
      PROVE  TypeInv'
  BY <1>1, DeployFrameType
<1>2. ASSUME NEW copies \in 0..MaxCopies, BroadcastSubpacket(copies)
      PROVE  TypeInv'
  BY <1>2, BroadcastSubpacketType
<1>3. ASSUME NEW i \in 1..Window, ReceiveFragment(i)
      PROVE  TypeInv'
  BY <1>3, ReceiveFragmentType
<1>4. CASE UNCHANGED vars
  BY <1>4 DEF vars, TypeInv, TypeOK, Slotted, UnsentOfFrame
<1> QED BY <1>1, <1>2, <1>3, <1>4 DEF Next

LEMMA TypeInvHolds == Spec => []TypeInv
BY TypeInit, TypeStep, PTL DEF Spec

\* Frames, datagrams, the assembler and what it handed over keep their types, whatever the
\* network does and however many codecs share the assembler.
THEOREM AudioTypeCorrect == Spec => []TypeOK
BY TypeInvHolds, PTL DEF TypeInv

-------------------------------------------------------------------------------
(* Any network: the inductive invariant.                                       *)

\* One codec has the assembler to itself, and no frame id comes round again.
OneCodec ==
  /\ \E codec : Codecs = {codec}
  /\ MaxFrames < FrameIds

IdsFollow == \A k \in DOMAIN frames : frames[k].id = k

Total(k) == SubpacketCount(frames[k].size)

Cut(f) ==
  /\ f.seq \in DOMAIN frames /\ f.codec = frames[f.seq].codec /\ f.id = f.seq
  /\ f.size = frames[f.seq].size

\* A subpacket that the server cut.
Genuine(f) == Cut(f) /\ f.rp \in 0..(Total(f.seq) - 1)

\* Assembler a has frame k in progress: what is not missing is there.
OfFrame(a, k) ==
  /\ k \in DOMAIN frames /\ a.id = k /\ a.size = frames[k].size /\ a.total = Total(k)
  /\ \A rp \in 0..(a.total - 1) : rp \notin a.remaining => a.frame[a.total - rp] = k

WholeInv ==
  /\ IdsFollow
  /\ \A i \in DOMAIN net : Genuine(net[i])
  /\ asm.id # NoFrame => OfFrame(asm, asm.id)
  /\ DropsIncomplete
  /\ ~panicked

LEMMA TotalType ==
  ASSUME TypeInv, NEW k \in DOMAIN frames
  PROVE  /\ Total(k) \in Nat \ {0} /\ k \in 1..Len(frames) /\ k \in 1..MaxFrames
         /\ frames[k] \in AudioFrame /\ 0 \in 0..(Total(k) - 1)
<1>1. frames \in Seq(AudioFrame) /\ Len(frames) <= MaxFrames /\ Len(frames) \in Nat
      /\ DOMAIN frames = 1..Len(frames)
  BY LenProperties DEF TypeInv, TypeOK, AudioFrame
<1>2. frames[k] \in AudioFrame
  BY <1>1, ElementOfSeq
<1>3. Total(k) \in Nat \ {0}
  BY <1>2, CountType DEF Total, AudioFrame
<1> QED BY <1>1, <1>2, <1>3, SubpacketsAssumption

\* A genuine subpacket fits into the frame that is open for it.
LEMMA OpenedOfFrame ==
  ASSUME TypeInv, WholeInv, NEW f \in AudioFragment, Genuine(f)
  PROVE  /\ OfFrame(Opened(f), f.seq) /\ InBounds(Opened(f), f)
         /\ f.seq \in Nat /\ f.rp \in Nat /\ f.id = f.seq /\ f.seq # NoFrame
<1>1. f.seq \in Nat /\ f.rp \in Nat
  BY SubpacketsAssumption, SMTT(30) DEF AudioFragment
<1>2. /\ f.seq \in DOMAIN frames /\ f.id = f.seq /\ f.size = frames[f.seq].size
      /\ f.rp < Total(f.seq) /\ Total(f.seq) = SubpacketCount(f.size)
      /\ Total(f.seq) \in Nat \ {0} /\ f.seq # NoFrame
  BY <1>1, TotalType DEF Genuine, Cut, Total, NoFrame
<1>3. OfFrame(Opened(f), f.seq)
  <2>1. CASE asm.id # f.id
    <3>1. Opened(f) = StartFrame(f)
      BY <2>1 DEF Opened
    <3> QED BY <1>1, <1>2, <3>1, StartFrameFacts, SMTT(30) DEF OfFrame
  <2>2. CASE asm.id = f.id
    BY <1>2, <2>2 DEF WholeInv, Opened
  <2> QED BY <2>1, <2>2
<1>4. InBounds(Opened(f), f)
  <2> DEFINE n == SubpacketCount(f.size)
  <2>1. f.size \in Nat \ {0} /\ PAYLOAD \in Nat \ {0} /\ f.rp \in Nat
    BY <1>1, SubpacketsAssumption DEF AudioFragment
  <2>2. n \in Nat \ {0} /\ (n - 1) * PAYLOAD <= f.size
    BY <2>1, CountBound DEF SubpacketCount
  <2>3. Opened(f).total = n /\ Opened(f).size = f.size /\ f.rp < n
    BY <1>2, <1>3 DEF OfFrame
  <2> HIDE DEF n
  <2>4. (n - 1 - f.rp) * PAYLOAD + DataLen(f) <= f.size
    <3>1. CASE f.rp = 0
      BY <2>1, <2>2, <3>1 DEF DataLen, n
    <3>2. CASE f.rp # 0
      <4>1. (n - 1 - f.rp) * PAYLOAD + PAYLOAD = (n - f.rp) * PAYLOAD
        BY <2>1, <2>2
      <4>2. n - f.rp \in Nat /\ n - 1 \in Nat /\ n - f.rp <= n - 1
        BY <2>1, <2>2, <2>3, <3>2
      <4>3. (n - f.rp) * PAYLOAD <= (n - 1) * PAYLOAD
        BY <2>1, <4>2, ProductMonotone
      <4>4. DataLen(f) = PAYLOAD
        BY <3>2 DEF DataLen
      <4>5. (n - 1 - f.rp) * PAYLOAD \in Int /\ (n - f.rp) * PAYLOAD \in Int
            /\ (n - 1) * PAYLOAD \in Int
        BY <2>1, <2>2
      <4> QED BY <2>1, <2>2, <4>1, <4>3, <4>4, <4>5
    <3> QED BY <3>1, <3>2
  <2> QED BY <2>3, <2>4 DEF InBounds
<1> QED BY <1>1, <1>2, <1>3, <1>4

\* With f stored, the frame still holds only what is of f's frame.
LEMMA StoredOfFrame ==
  ASSUME TypeInv, WholeInv, NEW f \in AudioFragment, Genuine(f)
  PROVE  OfFrame(Stored(f), f.seq) /\ Stored(f) \in Assembler
         /\ Len(Stored(f).frame) = Total(f.seq)
<1> DEFINE o == Opened(f)
           b == Stored(f)
<1>1. /\ OfFrame(o, f.seq) /\ InBounds(o, f) /\ f.rp \in Nat /\ f.id = f.seq
      /\ Total(f.seq) \in Nat /\ f.seq \in DOMAIN frames
  BY OpenedOfFrame, TotalType DEF Genuine, Cut
<1>2. /\ b \in Assembler
      /\ b.id = f.id /\ b.size = o.size /\ b.total = o.total /\ Len(b.frame) = b.total
      /\ b.remaining = o.remaining \ {f.rp}
      /\ \A j \in 1..o.total : b.frame[j] = IF j = o.total - f.rp THEN f.seq ELSE o.frame[j]
  BY <1>1, StoredFacts
<1> HIDE DEF o, b
<1>3. ASSUME NEW rp \in 0..(Total(f.seq) - 1), rp \notin b.remaining
      PROVE  b.frame[Total(f.seq) - rp] = f.seq
  <2>1. o.total = Total(f.seq) /\ Total(f.seq) - rp \in 1..o.total
    BY <1>1 DEF OfFrame
  <2>2. CASE rp = f.rp
    BY <1>2, <2>1, <2>2
  <2>3. CASE rp # f.rp
    <3>1. rp \notin o.remaining
      BY <1>2, <1>3, <2>3
    <3> QED BY <1>1, <1>2, <2>1, <3>1 DEF OfFrame
  <2> QED BY <2>2, <2>3
<1>4. OfFrame(b, f.seq)
  BY <1>1, <1>2, <1>3 DEF OfFrame
<1> QED BY <1>1, <1>2, <1>4 DEF o, b, OfFrame

\* A frame that misses nothing is whole.
LEMMA StoredWhole ==
  ASSUME TypeInv, WholeInv, NEW f \in AudioFragment, Genuine(f), Stored(f).remaining = {}
  PROVE  Whole(Stored(f).frame) /\ Stored(f).frame[1] = f.seq
<1> PICK fr : fr = Stored(f).frame
  OBVIOUS
<1>1. /\ Len(fr) = Total(f.seq) /\ fr \in Seq(0..MaxFrames)
      /\ Total(f.seq) \in Nat \ {0} /\ f.seq \in 1..Len(frames)
  BY StoredOfFrame, TotalType DEF Assembler, Genuine, Cut
<1>2. ASSUME NEW j \in 1..Total(f.seq)
      PROVE  fr[j] = f.seq
  <2>1. Total(f.seq) - j \in 0..(Total(f.seq) - 1) /\ Total(f.seq) - (Total(f.seq) - j) = j
    BY <1>1
  <2>2. Stored(f).frame[Total(f.seq) - (Total(f.seq) - j)] = f.seq
    BY <2>1, StoredOfFrame DEF OfFrame
  <2> QED BY <2>1, <2>2
<1>3. fr # <<>> /\ 1 \in 1..Total(f.seq) /\ DOMAIN fr = 1..Total(f.seq)
  BY <1>1, EmptySeq, LenProperties
<1>4. fr[1] = f.seq
  BY <1>2, <1>3
<1> QED BY <1>1, <1>2, <1>3, <1>4 DEF Whole, Total

-------------------------------------------------------------------------------
(* Any network: the steps.                                                     *)

LEMMA DeployFrameWhole ==
  ASSUME TypeInv, OneCodec, WholeInv,
         NEW codec \in Codecs, NEW size \in FrameSizes, DeployFrame(codec, size)
  PROVE  WholeInv'
<1>1. /\ Len(frames') = Len(frames) + 1
      /\ DOMAIN frames' = 1..(Len(frames) + 1) /\ DOMAIN frames = 1..Len(frames)
      /\ \A k \in DOMAIN frames : frames'[k] = frames[k]
      /\ frames'[Len(frames) + 1].id = IdOf(Cardinality(OfCodec(codec)) + 1)
  BY DeployFrameType
<1>2. Len(frames) \in Nat /\ Len(frames) + 1 \in 1..MaxFrames
  BY SubpacketsAssumption DEF TypeInv, TypeOK, DeployFrame
<1>3. /\ DOMAIN frames \subseteq DOMAIN frames'
      /\ UNCHANGED <<net, asm, assembled, panicked>>
      /\ \A k \in DOMAIN frames : Total(k)' = Total(k)
  BY <1>1, <1>2 DEF DeployFrame, Total
<1>4. IdsFollow'
  <2>1. OfCodec(codec) = 1..Len(frames)
    <3>1. \A k \in DOMAIN frames : frames[k].codec = codec
      BY TotalType DEF OneCodec, AudioFrame
    <3> QED BY <1>1, <3>1 DEF OfCodec
  <2>2. Cardinality(OfCodec(codec)) = Len(frames)
    <3>1. Cardinality(1..Len(frames)) = IF 1 > Len(frames) THEN 0 ELSE Len(frames) - 1 + 1
      <4>1. Len(frames) \in Int /\ 1 \in Int
        BY <1>2
      <4> QED BY <4>1, FS_Interval, Zenon
    <3> QED BY <1>2, <2>1, <3>1
  <2>3. IdOf(Len(frames) + 1) = Len(frames) + 1
    BY <1>2, SubpacketsAssumption DEF OneCodec, IdOf
  <2> QED BY <1>1, <2>2, <2>3 DEF WholeInv, IdsFollow
<1>5. \A f : Genuine(f) => Genuine(f)'
  BY <1>1, <1>3 DEF Genuine, Cut
<1>6. asm'.id # NoFrame => OfFrame(asm, asm.id)'
  BY <1>1, <1>3 DEF WholeInv, OfFrame
<1>7. DropsIncomplete'
  <2> SUFFICES ASSUME NEW n \in DOMAIN assembled
               PROVE  /\ Whole(assembled[n].frame)'
                      /\ frames'[assembled[n].frame[1]].codec = assembled[n].codec
    BY <1>3 DEF DropsIncomplete
  <2>1. /\ Whole(assembled[n].frame) /\ assembled' = assembled
        /\ assembled[n].frame[1] \in DOMAIN frames
    BY <1>1, <1>3 DEF WholeInv, DropsIncomplete, Whole
  <2>2. /\ assembled[n].frame[1] \in 1..Len(frames')
        /\ frames'[assembled[n].frame[1]] = frames[assembled[n].frame[1]]
    BY <1>1, <1>2, <2>1
  <2> QED BY <2>1, <2>2 DEF Whole, WholeInv, DropsIncomplete
<1> QED BY <1>3, <1>4, <1>5, <1>6, <1>7 DEF WholeInv

LEMMA BroadcastSubpacketWhole ==
  ASSUME TypeInv, OneCodec, WholeInv,
         NEW copies \in 0..MaxCopies, BroadcastSubpacket(copies)
  PROVE  WholeInv'
<1>1. /\ unsent > 0 /\ unsent \in Nat /\ copies \in Nat
      /\ UNCHANGED <<frames, asm, assembled, panicked>>
  BY AudioStreamAssumption DEF BroadcastSubpacket, TypeInv, TypeOK
<1>2. /\ Len(frames) \in DOMAIN frames
      /\ unsent \in 1..Total(Len(frames)) /\ Total(Len(frames)) \in Nat
  BY <1>1, LastFrame DEF Total
<1> PICK f \in AudioFragment : f = NextFragment
  BY <1>1, NextFragmentType
<1>3. Genuine(f)
  <2>1. /\ f.seq = Len(frames) /\ f.rp = unsent - 1 /\ f.codec = frames[Len(frames)].codec
        /\ f.id = frames[Len(frames)].id /\ f.size = frames[Len(frames)].size
    BY DEF NextFragment
  <2> QED BY <1>2, <2>1 DEF Genuine, Cut, WholeInv, IdsFollow
<1> DEFINE s == [i \in 1..copies |-> f]
<1>4. s \in Seq(AudioFragment) /\ Len(s) = copies /\ \A i \in 1..copies : s[i] = f
  <2>1. s \in [1..copies -> AudioFragment]
    OBVIOUS
  <2>2. \A i \in 1..copies : s[i] = f
    OBVIOUS
  <2> HIDE DEF s
  <2> QED BY <1>1, <2>1, <2>2, FunctionIsSeq
<1>5. net \in Seq(AudioFragment) /\ (net' = net \o s \/ net' = net)
  BY DEF BroadcastSubpacket, Transmit, TypeInv, TypeOK
<1> HIDE DEF s
<1>6. \A i \in DOMAIN net' : Genuine(net'[i])
  <2>1. CASE net' = net
    BY <2>1 DEF WholeInv
  <2>2. CASE net' = net \o s
    <3>1. /\ Len(net') = Len(net) + Len(s) /\ net' \in Seq(AudioFragment)
          /\ \A i \in 1..(Len(net) + Len(s)) :
               net'[i] = IF i <= Len(net) THEN net[i] ELSE s[i - Len(net)]
      BY <1>4, <1>5, <2>2, ConcatProperties
    <3>2. Len(net) \in Nat /\ DOMAIN net = 1..Len(net) /\ DOMAIN net' = 1..Len(net')
      BY <1>5, <3>1, LenProperties
    <3> SUFFICES ASSUME NEW i \in DOMAIN net'
                 PROVE  Genuine(net'[i])
      OBVIOUS
    <3>3. CASE i <= Len(net)
      <4>1. i \in DOMAIN net /\ net'[i] = net[i]
        BY <3>1, <3>2, <3>3
      <4> QED BY <4>1 DEF WholeInv
    <3>4. CASE ~(i <= Len(net))
      <4>1. i - Len(net) \in 1..copies /\ net'[i] = s[i - Len(net)]
        BY <1>1, <1>4, <3>1, <3>2, <3>4
      <4> QED BY <1>3, <1>4, <4>1
    <3> QED BY <3>3, <3>4
  <2> QED BY <1>5, <2>1, <2>2
<1> QED BY <1>1, <1>6 DEF WholeInv, IdsFollow, Genuine, Cut, OfFrame, Total, DropsIncomplete, Whole

LEMMA ReceiveFragmentWhole ==
  ASSUME TypeInv, OneCodec, WholeInv, NEW i \in 1..Window, ReceiveFragment(i)
  PROVE  WholeInv'
<1>1. net \in Seq(AudioFragment) /\ i \in 1..Len(net) /\ net[i] \in AudioFragment
      /\ DOMAIN net = 1..Len(net) /\ Len(net) \in Nat /\ UNCHANGED frames
  BY ReceiveFragmentType, LenProperties DEF TypeInv, TypeOK, ReceiveFragment
<1> PICK f \in AudioFragment : f = net[i]
  BY <1>1
<1>2. Genuine(f)
  BY <1>1 DEF WholeInv
<1>3. \A j \in DOMAIN net' : Genuine(net'[j])
  <2>1. net' = RemoveAt(net, i)
    BY DEF ReceiveFragment
  <2>2. \A j \in DOMAIN RemoveAt(net, i) : \E l \in DOMAIN net : RemoveAt(net, i)[j] = net[l]
    BY <1>1, RemoveAtKeeps
  <2> QED BY <2>1, <2>2 DEF WholeInv
<1>4. CASE StoreFragment(f)
  <2>1. asm' = Stored(f) /\ OfFrame(Stored(f), f.seq) /\ Stored(f).id = f.seq
    BY <1>2, <1>4, StoredOfFrame DEF StoreFragment, OfFrame
  <2>2. OfFrame(asm', asm'.id)
    BY <2>1
  <2> QED BY <1>1, <1>3, <1>4, <2>2
          DEF StoreFragment, WholeInv, IdsFollow, Genuine, Cut, OfFrame, Total, DropsIncomplete, Whole
<1>5. CASE CompleteFrame(f)
  <2> PICK fr : fr = Stored(f).frame
    OBVIOUS
  <2>1. Whole(fr) /\ fr[1] = f.seq /\ f.codec = frames[f.seq].codec
    BY <1>2, <1>5, StoredWhole DEF CompleteFrame, Incomplete, Genuine, Cut
  <2>2. /\ DOMAIN assembled' = 1..(Len(assembled) + 1) /\ Len(assembled) \in Nat
        /\ DOMAIN assembled = 1..Len(assembled)
        /\ \A n \in DOMAIN assembled : assembled'[n] = assembled[n]
        /\ assembled'[Len(assembled) + 1] = [codec |-> f.codec, frame |-> fr]
    <3>1. assembled \in Seq(Handed) /\ [codec |-> f.codec, frame |-> fr] \in Handed
      BY <1>2, StoredOfFrame DEF TypeInv, TypeOK, Handed, AudioFragment, Assembler
    <3>2. assembled' = Append(assembled, [codec |-> f.codec, frame |-> fr])
      BY <1>5 DEF CompleteFrame
    <3> QED BY <3>1, <3>2, AppendProperties, LenProperties
  <2>3. DropsIncomplete'
    <3> SUFFICES ASSUME NEW n \in DOMAIN assembled', NEW h, h = assembled'[n]
                 PROVE  Whole(h.frame) /\ frames[h.frame[1]].codec = h.codec
      BY <1>1 DEF DropsIncomplete, Whole
    <3>1. CASE n = Len(assembled) + 1
      <4>1. h.frame = fr /\ h.codec = f.codec
        BY <2>2, <3>1
      <4> QED BY <2>1, <4>1
    <3>2. CASE n \in DOMAIN assembled
      BY <2>2, <3>2 DEF WholeInv, DropsIncomplete
    <3> QED BY <2>2, <3>1, <3>2
  <2> QED BY <1>1, <1>3, <1>5, <2>3
          DEF CompleteFrame, Idle, WholeInv, IdsFollow, Genuine, Cut, Total
<1>6. ~Panic(f)
  BY <1>2, OpenedOfFrame DEF Panic
<1> QED BY <1>4, <1>5, <1>6 DEF ReceiveFragment

LEMMA WholeInvHolds ==
  ASSUME OneCodec
  PROVE  Spec => [](TypeInv /\ WholeInv)
<1>1. Init => WholeInv
  BY DEF Init, Idle, WholeInv, IdsFollow, DropsIncomplete
<1>2. ASSUME TypeInv, WholeInv, [Next]_vars
      PROVE  WholeInv'
  <2>1. CASE UNCHANGED vars
    BY <1>2, <2>1 DEF vars, WholeInv, IdsFollow, Genuine, Cut, OfFrame, Total, DropsIncomplete, Whole
  <2> QED BY <1>2, <2>1, DeployFrameWhole, BroadcastSubpacketWhole, ReceiveFragmentWhole DEF Next
<1> QED BY <1>1, <1>2, TypeInvHolds, PTL DEF Spec

\* One codec, any network, however it reorders and duplicates: what the constructor hands over
\* is one deployed frame, whole and under its own codec. It "drops any frames that dont't
\* arrive completely or are missing".
THEOREM AudioDropsIncomplete ==
  ASSUME OneCodec
  PROVE  Spec => []DropsIncomplete
BY WholeInvHolds, PTL DEF WholeInv

\* One codec, any network: assemble_packet never slices out of range, so the receiving thread
\* lives.
THEOREM AudioNeverPanics ==
  ASSUME OneCodec
  PROVE  Spec => []~panicked
BY WholeInvHolds, PTL DEF WholeInv

-------------------------------------------------------------------------------
(* In order: the inductive invariant.                                          *)

\* The order of sending: frame by frame, and the numbers count down.
Earlier(k, rp, l, rq) == k < l \/ (k = l /\ rp > rq)

Sent(k, rp) ==
  /\ k \in DOMAIN frames /\ rp \in 0..(Total(k) - 1)
  /\ k < Len(frames) \/ rp >= unsent

\* What came, what is on its way and what is still to be sent follow one another.
InOrder ==
  /\ \A i \in DOMAIN net : Sent(net[i].seq, net[i].rp)
  /\ \A i, j \in DOMAIN net :
       i < j => Earlier(net[i].seq, net[i].rp, net[j].seq, net[j].rp)
  /\ \A r \in received :
       /\ Sent(r[1], r[2])
       /\ \A i \in DOMAIN net : Earlier(r[1], r[2], net[i].seq, net[i].rp)

\* Assembler a has frame k in progress: what is missing did not come, the rest is there.
Progress(a, k) ==
  /\ k \in DOMAIN frames /\ a.id = k /\ a.size = frames[k].size /\ a.total = Total(k)
  /\ a.remaining \subseteq 0..(a.total - 1)
  /\ \A rp \in 0..(a.total - 1) :
       /\ rp \in a.remaining <=> <<k, rp>> \notin received
       /\ rp \notin a.remaining => a.frame[a.total - rp] = k

InProgress ==
  IF asm.id = NoFrame THEN asm = Idle
  ELSE Progress(asm, asm.id) /\ asm.remaining # {} /\ \A r \in received : r[1] <= asm.id

\* The frame of which something came last is in progress, or its last subpacket came.
LastIsOpen ==
  \A r \in received :
    \/ asm.id = r[1] \/ <<r[1], 0>> \in received
    \/ \E s \in received : s[1] > r[1]

AllReceived(k) == \A rp \in 0..(Total(k) - 1) : <<k, rp>> \in received

AssembledReceived == \A n \in DOMAIN assembled : AllReceived(assembled[n].frame[1])

\* A frame that came is handed over.
WholeComes == \A k \in DOMAIN frames :
  AllReceived(k) => \E n \in DOMAIN assembled : assembled[n].frame[1] = k

\* All of this holds as long as the network keeps the order (~disordered).
DeliveryInv ==
  /\ InOrder /\ InProgress /\ LastIsOpen /\ AssembledReceived
  /\ DropsOutOfOrder /\ WholeComes

LEMMA EarlierIsOrder ==
  ASSUME NEW k \in Nat, NEW rp \in Nat, NEW l \in Nat, NEW rq \in Nat
  PROVE  /\ ~Earlier(k, rp, k, rp)
         /\ Earlier(k, rp, l, rq) => k <= l
         /\ Earlier(k, rp, k, rq) => rp > rq
BY DEF Earlier

-------------------------------------------------------------------------------
(* In order: the steps of the server.                                          *)

LEMMA DeployFrameDelivery ==
  ASSUME TypeInv, OneCodec, WholeInv, DeliveryInv,
         NEW codec \in Codecs, NEW size \in FrameSizes, DeployFrame(codec, size)
  PROVE  DeliveryInv'
<1>1. /\ Len(frames') = Len(frames) + 1
      /\ DOMAIN frames' = 1..(Len(frames) + 1) /\ DOMAIN frames = 1..Len(frames)
      /\ \A k \in DOMAIN frames : frames'[k] = frames[k]
      /\ TypeInv'
  BY DeployFrameType
<1>2. Len(frames) \in Nat /\ Len(frames) + 1 \in 1..MaxFrames
  BY SubpacketsAssumption DEF TypeInv, TypeOK, DeployFrame
<1>3. /\ DOMAIN frames \subseteq DOMAIN frames' /\ unsent = 0
      /\ UNCHANGED <<net, asm, assembled, received, panicked>>
      /\ \A k \in DOMAIN frames : Total(k)' = Total(k) /\ k < Len(frames')
  BY <1>1, <1>2 DEF DeployFrame, Total
<1>5. \A k, rp : Sent(k, rp) => Sent(k, rp)'
  BY <1>3 DEF Sent
<1>6. InOrder'
  BY <1>3, <1>5 DEF DeliveryInv, InOrder
<1>7. InProgress'
  BY <1>1, <1>3 DEF DeliveryInv, InProgress, Progress
<1>8. LastIsOpen'
  BY <1>3 DEF DeliveryInv, LastIsOpen
<1>9. AssembledReceived' /\ DropsOutOfOrder'
  <2>1. \A n \in DOMAIN assembled : assembled[n].frame[1] \in DOMAIN frames
    BY <1>1 DEF WholeInv, DropsIncomplete, Whole
  <2>2. AssembledReceived'
    BY <1>3, <2>1 DEF DeliveryInv, AssembledReceived, AllReceived
  <2> QED BY <1>3, <2>2 DEF DeliveryInv, DropsOutOfOrder
<1>10. WholeComes'
  <2> SUFFICES ASSUME NEW k \in DOMAIN frames', AllReceived(k)'
               PROVE  \E n \in DOMAIN assembled : assembled[n].frame[1] = k
    BY <1>3 DEF WholeComes, AllReceived, Total
  <2>1. <<k, 0>> \in received
    <3>1. SubpacketCount(frames'[k].size) \in Nat \ {0}
      <4>1. frames' \in Seq(AudioFrame) /\ k \in 1..Len(frames')
        BY <1>1 DEF TypeInv, TypeOK, AudioFrame
      <4>2. frames'[k] \in AudioFrame
        BY <4>1, ElementOfSeq
      <4> QED BY <4>2, CountType DEF AudioFrame
    <3> QED BY <1>3, <3>1 DEF AllReceived, Total
  <2>2. k \in DOMAIN frames
    BY <2>1 DEF DeliveryInv, InOrder, Sent
  <2>3. AllReceived(k)
    BY <1>3, <2>2 DEF AllReceived
  <2> QED BY <2>2, <2>3 DEF DeliveryInv, WholeComes, AllReceived, Total
<1> QED BY <1>6, <1>7, <1>8, <1>9, <1>10 DEF DeliveryInv

LEMMA BroadcastSubpacketDelivery ==
  ASSUME TypeInv, OneCodec, WholeInv, DeliveryInv,
         NEW copies \in 0..MaxCopies, copies <= 1, BroadcastSubpacket(copies)
  PROVE  DeliveryInv'
<1>0. /\ unsent > 0 /\ unsent' = unsent - 1 /\ unsent \in Nat
      /\ UNCHANGED <<frames, asm, assembled, received, panicked>>
  BY DEF BroadcastSubpacket, TypeInv, TypeOK
<1>1. /\ Len(frames) \in DOMAIN frames /\ Len(frames) \in Nat
      /\ frames[Len(frames)] \in AudioFrame
      /\ unsent \in 1..Total(Len(frames)) /\ Total(Len(frames)) \in Nat
  BY <1>0, LastFrame DEF Total
<1> PICK f \in AudioFragment : f = NextFragment
  BY <1>0, NextFragmentType
<1>2. /\ f.seq = Len(frames) /\ f.rp = unsent - 1 /\ f \in AudioFragment
      /\ Sent(f.seq, f.rp)'
  <2>2. f.seq = Len(frames) /\ f.rp = unsent - 1
    BY DEF NextFragment
  <2>4. Sent(f.seq, f.rp)'
    BY <1>0, <1>1, <2>2 DEF Sent, Total
  <2> QED BY <2>2, <2>4
<1>3. \A k, rp : Sent(k, rp) => Sent(k, rp)' /\ Earlier(k, rp, f.seq, f.rp)
  <2> SUFFICES ASSUME NEW k, NEW rp, Sent(k, rp)
               PROVE  Sent(k, rp)' /\ Earlier(k, rp, f.seq, f.rp)
    OBVIOUS
  <2>1. k \in 1..Len(frames) /\ rp \in Nat /\ k \in Nat
    BY TotalType DEF Sent
  <2> QED BY <1>0, <1>1, <1>2, <2>1 DEF Sent, Total, Earlier
<1>5. \/ net' = net
      \/ /\ net \in Seq(AudioFragment) /\ Len(net) \in Nat /\ DOMAIN net = 1..Len(net)
         /\ DOMAIN net' = 1..(Len(net) + 1) /\ net'[Len(net) + 1] = f
         /\ \A i \in DOMAIN net : net'[i] = net[i]
  <2> DEFINE s == [i \in 1..copies |-> f]
  <2>1. net \in Seq(AudioFragment) /\ copies \in {0, 1}
    BY AudioStreamAssumption DEF TypeInv, TypeOK
  <2>2. s \in Seq(AudioFragment) /\ Len(s) = copies /\ \A i \in 1..copies : s[i] = f
    <3>1. s \in [1..copies -> AudioFragment] /\ copies \in Nat
      BY <1>2, <2>1
    <3>2. \A i \in 1..copies : s[i] = f
      OBVIOUS
    <3> HIDE DEF s
    <3> QED BY <3>1, <3>2, FunctionIsSeq
  <2>3. net' = net \o s \/ net' = net
    BY DEF BroadcastSubpacket, Transmit
  <2> HIDE DEF s
  <2>4. CASE copies = 0
    <3>1. s = <<>>
      BY <2>2, <2>4, EmptySeq
    <3> QED BY <2>1, <2>3, <3>1, ConcatEmptySeq
  <2>5. CASE copies = 1 /\ net' = net \o s
    <3>1. /\ net' \in Seq(AudioFragment) /\ Len(net') = Len(net) + 1
          /\ \A i \in 1..(Len(net) + 1) :
               net'[i] = IF i <= Len(net) THEN net[i] ELSE s[i - Len(net)]
      <4>1. /\ net \o s \in Seq(AudioFragment) /\ Len(net \o s) = Len(net) + Len(s)
            /\ \A i \in 1..(Len(net) + Len(s)) :
                 (net \o s)[i] = IF i <= Len(net) THEN net[i] ELSE s[i - Len(net)]
        BY <2>1, <2>2, ConcatProperties
      <4> QED BY <2>2, <2>5, <4>1
    <3>2. Len(net) \in Nat /\ DOMAIN net = 1..Len(net) /\ DOMAIN net' = 1..Len(net')
      BY <2>1, <3>1, LenProperties
    <3>3. net'[Len(net) + 1] = f
      BY <2>2, <2>5, <3>1, <3>2
    <3> QED BY <2>1, <3>1, <3>2, <3>3
  <2> QED BY <2>1, <2>3, <2>4, <2>5
<1>6. InOrder'
  <2>1. CASE net' = net
    BY <1>0, <1>3, <2>1 DEF DeliveryInv, InOrder
  <2>2. CASE net' # net
    <3>1. \A i \in DOMAIN net' :
            (i \in DOMAIN net /\ net'[i] = net[i]) \/ (i = Len(net) + 1 /\ net'[i] = f)
      BY <1>5, <2>2
    <3>2. \A i \in DOMAIN net' : Sent(net[i].seq, net[i].rp)'
      BY <1>2, <1>3, <3>1 DEF DeliveryInv, InOrder
    <3>3. ASSUME NEW i \in DOMAIN net', NEW j \in DOMAIN net', i < j
          PROVE  Earlier(net'[i].seq, net'[i].rp, net'[j].seq, net'[j].rp)
      <4>1. i \in DOMAIN net /\ net'[i] = net[i]
        BY <1>5, <2>2, <3>1, <3>3
      <4>2. CASE j \in DOMAIN net /\ net'[j] = net[j]
        BY <3>3, <4>1, <4>2 DEF DeliveryInv, InOrder
      <4>3. CASE net'[j] = f
        BY <1>3, <4>1, <4>3 DEF DeliveryInv, InOrder
      <4> QED BY <3>1, <4>2, <4>3
    <3>4. ASSUME NEW r \in received
          PROVE  /\ Sent(r[1], r[2])'
                 /\ \A i \in DOMAIN net' : Earlier(r[1], r[2], net'[i].seq, net'[i].rp)
      BY <1>3, <3>1 DEF DeliveryInv, InOrder
    <3> QED BY <1>0, <3>2, <3>3, <3>4 DEF InOrder
  <2> QED BY <2>1, <2>2
<1> QED BY <1>0, <1>6 DEF DeliveryInv, InProgress, Progress, Total, LastIsOpen,
                          AssembledReceived, AllReceived, DropsOutOfOrder, WholeComes

-------------------------------------------------------------------------------
(* In order: the steps of the assembler.                                       *)

\* The oldest datagram comes after all that came and before all that are to come.
LEMMA OldestFacts ==
  ASSUME TypeInv, OneCodec, WholeInv, DeliveryInv, NEW i \in 1..Window, i = 1, ReceiveFragment(i),
         NEW f, f = net[i]
  PROVE  /\ i = 1 /\ f \in AudioFragment /\ f.seq \in Nat /\ f.rp \in Nat
         /\ Cut(f) /\ Sent(f.seq, f.rp)
         /\ \A r \in received : /\ Earlier(r[1], r[2], f.seq, f.rp)
                                /\ r[1] \in Nat /\ r[2] \in Nat /\ r = <<r[1], r[2]>>
         /\ received' = received \union {<<f.seq, f.rp>>}
         /\ \A j \in DOMAIN net' : /\ j + 1 \in DOMAIN net /\ net'[j] = net[j + 1]
                                  /\ j \in Nat /\ j + 1 > 1
                                  /\ Earlier(f.seq, f.rp, net'[j].seq, net'[j].rp)
<1>1. i = 1
  OBVIOUS
<1>2. net \in Seq(AudioFragment) /\ 1 \in 1..Len(net) /\ f \in AudioFragment
  BY <1>1, ReceiveFragmentType DEF TypeInv, TypeOK
<1>3. 1 \in DOMAIN net /\ f = net[1] /\ net # <<>> /\ Len(net) \in Nat /\ DOMAIN net = 1..Len(net)
  BY <1>1, <1>2, LenProperties
<1>4. f.seq \in Nat /\ f.rp \in Nat
  BY <1>2, SubpacketsAssumption, SMTT(30) DEF AudioFragment
<1>5. net' = Tail(net) /\ received' = received \union {<<f.seq, f.rp>>}
  BY <1>1, <1>2, <1>3, RemoveFirstFacts DEF ReceiveFragment
<1>6. \A j \in DOMAIN net' : j + 1 \in DOMAIN net /\ net'[j] = net[j + 1] /\ j \in Nat /\ j + 1 > 1
  BY <1>2, <1>3, <1>5, RemoveFirstFacts
<1>7. \A j \in DOMAIN net' : Earlier(f.seq, f.rp, net'[j].seq, net'[j].rp)
  BY <1>3, <1>6 DEF DeliveryInv, InOrder
<1>8. Cut(f) /\ Sent(f.seq, f.rp)
  BY <1>3 DEF DeliveryInv, InOrder, WholeInv, Genuine
<1>9. \A r \in received : /\ Earlier(r[1], r[2], f.seq, f.rp)
                         /\ r[1] \in Nat /\ r[2] \in Nat /\ r = <<r[1], r[2]>>
  <2>1. \A r \in received : Earlier(r[1], r[2], f.seq, f.rp)
    BY <1>3 DEF DeliveryInv, InOrder
  <2>2. \A r \in received : r[1] \in Nat /\ r[2] \in Nat /\ r = <<r[1], r[2]>>
    BY SubpacketsAssumption DEF TypeInv, TypeOK
  <2> QED BY <2>1, <2>2
<1> QED BY <1>1, <1>2, <1>4, <1>5, <1>6, <1>7, <1>8, <1>9

\* The frame that f is stored into is its own, and what it holds is what came of it.
LEMMA OpenedProgress ==
  ASSUME TypeInv, OneCodec, WholeInv, DeliveryInv, NEW i \in 1..Window, i = 1, ReceiveFragment(i),
         NEW f, f = net[i]
  PROVE  Progress(Opened(f), f.seq) /\ InBounds(Opened(f), f)
<1>1. /\ f \in AudioFragment /\ f.seq \in Nat /\ f.rp \in Nat
      /\ Cut(f) /\ Sent(f.seq, f.rp)
      /\ \A r \in received : /\ Earlier(r[1], r[2], f.seq, f.rp)
                             /\ r[1] \in Nat /\ r[2] \in Nat /\ r = <<r[1], r[2]>>
  BY OldestFacts
<1>2. /\ f.seq \in DOMAIN frames /\ f.id = f.seq /\ f.size = frames[f.seq].size
      /\ f.rp < Total(f.seq) /\ Total(f.seq) = SubpacketCount(f.size)
      /\ Total(f.seq) \in Nat \ {0} /\ f.seq # NoFrame
  BY <1>1, TotalType DEF Cut, Sent, Total, NoFrame
<1>3. Progress(Opened(f), f.seq)
  <2>1. CASE asm.id # f.id
    <3>1. \A rp \in 0..(Total(f.seq) - 1) : <<f.seq, rp>> \notin received
      <4> SUFFICES ASSUME NEW rp \in 0..(Total(f.seq) - 1), <<f.seq, rp>> \in received
                   PROVE  FALSE
        OBVIOUS
      <4>1. CASE <<f.seq, 0>> \in received
        <5>1. Earlier(f.seq, 0, f.seq, f.rp)
          BY <1>1, <4>1
        <5> QED BY <1>1, <5>1, EarlierIsOrder, SMTT(30)
      <4>2. CASE \E s \in received : s[1] > f.seq
        BY <1>1, <4>2, EarlierIsOrder
      <4>3. asm.id # f.seq
        BY <1>2, <2>1
      <4> QED BY <4>1, <4>2, <4>3 DEF DeliveryInv, LastIsOpen
    <3>2. Opened(f) = StartFrame(f)
      BY <2>1 DEF Opened
    <3> QED BY <1>1, <1>2, <3>1, <3>2, StartFrameFacts, SMTT(30) DEF Progress
  <2>2. CASE asm.id = f.id
    <3>1. Opened(f) = asm
      BY <2>2 DEF Opened
    <3> QED BY <1>2, <2>2, <3>1 DEF DeliveryInv, InProgress
  <2> QED BY <2>1, <2>2
<1>4. InBounds(Opened(f), f)
  BY <1>1, <1>2, OpenedOfFrame DEF Genuine
<1> QED BY <1>3, <1>4

\* After f, what is missing is what did not come; f's frame is full when all came.
LEMMA StoredProgress ==
  ASSUME TypeInv, OneCodec, WholeInv, DeliveryInv, NEW i \in 1..Window, i = 1, ReceiveFragment(i),
         NEW f, f = net[i]
  PROVE  /\ Stored(f).id = f.seq /\ Stored(f).size = frames[f.seq].size
         /\ Stored(f).total = Total(f.seq) /\ Len(Stored(f).frame) = Total(f.seq)
         /\ Stored(f).remaining \subseteq 0..(Total(f.seq) - 1)
         /\ \A rp \in 0..(Total(f.seq) - 1) :
              /\ rp \in Stored(f).remaining <=> <<f.seq, rp>> \notin received'
              /\ rp \notin Stored(f).remaining => Stored(f).frame[Total(f.seq) - rp] = f.seq
<1>1. /\ f \in AudioFragment /\ f.rp \in Nat /\ f.seq \in DOMAIN frames /\ f.id = f.seq
      /\ received' = received \union {<<f.seq, f.rp>>} /\ f.rp < Total(f.seq)
      /\ Total(f.seq) \in Nat
  BY OldestFacts, TotalType DEF Cut, Sent
<1>2. Progress(Opened(f), f.seq) /\ InBounds(Opened(f), f)
  BY OpenedProgress
<1> DEFINE o == Opened(f)
           b == Stored(f)
<1>3. /\ b.id = f.id /\ b.size = o.size /\ b.total = o.total /\ Len(b.frame) = b.total
      /\ b.remaining = o.remaining \ {f.rp}
      /\ \A j \in 1..o.total : b.frame[j] = IF j = o.total - f.rp THEN f.seq ELSE o.frame[j]
  BY <1>1, <1>2, StoredFacts
<1>4. /\ o.id = f.seq /\ o.size = frames[f.seq].size /\ o.total = Total(f.seq)
      /\ o.remaining \subseteq 0..(Total(f.seq) - 1)
      /\ \A rp \in 0..(Total(f.seq) - 1) :
           /\ rp \in o.remaining <=> <<f.seq, rp>> \notin received
           /\ rp \notin o.remaining => o.frame[Total(f.seq) - rp] = f.seq
  BY <1>2 DEF Progress
<1> HIDE DEF o, b
<1>5. ASSUME NEW rp \in 0..(Total(f.seq) - 1)
      PROVE  /\ rp \in b.remaining <=> <<f.seq, rp>> \notin received'
             /\ rp \notin b.remaining => b.frame[Total(f.seq) - rp] = f.seq
  <2>1. rp \in b.remaining <=> <<f.seq, rp>> \notin received'
    BY <1>1, <1>3, <1>4
  <2>2. Total(f.seq) - rp \in 1..o.total
    BY <1>1, <1>4
  <2>3. b.frame[Total(f.seq) - rp] = f.seq \/ rp \in b.remaining
    BY <1>1, <1>3, <1>4, <2>2
  <2> QED BY <2>1, <2>3
<1> QED BY <1>1, <1>3, <1>4, <1>5 DEF o, b

\* What holds before f is also said of the state after it.
LEMMA ReceivedFacts ==
  ASSUME TypeInv, OneCodec, WholeInv, DeliveryInv, NEW i \in 1..Window, i = 1, ReceiveFragment(i),
         NEW f, f = net[i]
  PROVE  /\ InOrder' /\ UNCHANGED frames
         /\ \A k : AllReceived(k) => AllReceived(k)'
         /\ \A k : AllReceived(k)' => AllReceived(k) \/ k = f.seq
         /\ \A r \in received' : r[1] <= f.seq
         /\ Earlier(f.seq, f.rp, f.seq, 0) \/ f.rp = 0
<1>1. UNCHANGED <<frames, unsent>>
  BY DEF ReceiveFragment
<1>2. /\ f.seq \in Nat /\ f.rp \in Nat /\ Sent(f.seq, f.rp)
      /\ \A r \in received : /\ Earlier(r[1], r[2], f.seq, f.rp)
                             /\ r[1] \in Nat /\ r[2] \in Nat
      /\ received' = received \union {<<f.seq, f.rp>>}
      /\ \A j \in DOMAIN net' : /\ j + 1 \in DOMAIN net /\ net'[j] = net[j + 1] /\ j \in Nat
                               /\ Earlier(f.seq, f.rp, net'[j].seq, net'[j].rp)
  BY OldestFacts
<1>3. \A k, rp : Sent(k, rp)' <=> Sent(k, rp)
  BY <1>1 DEF Sent, Total
<1>5. InOrder'
  <2>1. \A j \in DOMAIN net' : Sent(net[j].seq, net[j].rp)'
    BY <1>2, <1>3 DEF DeliveryInv, InOrder
  <2>2. ASSUME NEW j \in DOMAIN net', NEW l \in DOMAIN net', j < l
        PROVE  Earlier(net'[j].seq, net'[j].rp, net'[l].seq, net'[l].rp)
    <3>1. j + 1 \in DOMAIN net /\ l + 1 \in DOMAIN net /\ j + 1 < l + 1
          /\ net'[j] = net[j + 1] /\ net'[l] = net[l + 1]
      BY <1>2, <2>2
    <3> QED BY <3>1 DEF DeliveryInv, InOrder
  <2>3. ASSUME NEW r \in received'
        PROVE  /\ Sent(r[1], r[2])'
               /\ \A j \in DOMAIN net' : Earlier(r[1], r[2], net'[j].seq, net'[j].rp)
    <3>1. CASE r \in received
      BY <1>2, <1>3, <3>1 DEF DeliveryInv, InOrder
    <3>2. CASE r = <<f.seq, f.rp>>
      BY <1>2, <1>3, <3>2
    <3> QED BY <1>2, <3>1, <3>2
  <2> QED BY <2>1, <2>2, <2>3 DEF InOrder
<1>6. \A k : AllReceived(k) => AllReceived(k)'
  BY <1>1, <1>2 DEF AllReceived, Total
<1>7. \A k : AllReceived(k)' => AllReceived(k) \/ k = f.seq
  BY <1>1, <1>2 DEF AllReceived, Total
<1>8. \A r \in received' : r[1] <= f.seq
  BY <1>2, EarlierIsOrder
<1>9. Earlier(f.seq, f.rp, f.seq, 0) \/ f.rp = 0
  BY <1>2 DEF Earlier
<1> QED BY <1>1, <1>5, <1>6, <1>7, <1>8, <1>9

LEMMA StoreFragmentDelivery ==
  ASSUME TypeInv, OneCodec, WholeInv, DeliveryInv, NEW i \in 1..Window, i = 1, ReceiveFragment(i),
         StoreFragment(net[i])
  PROVE  DeliveryInv'
<1> PICK f : f = net[i]
  OBVIOUS
<1>1. /\ InOrder' /\ UNCHANGED frames
      /\ \A k : AllReceived(k) => AllReceived(k)'
      /\ \A k : AllReceived(k)' => AllReceived(k) \/ k = f.seq
      /\ \A r \in received' : r[1] <= f.seq
  BY ReceivedFacts
<1>2. /\ asm' = Stored(f) /\ UNCHANGED <<assembled, panicked>> /\ Stored(f).remaining # {}
  BY DEF StoreFragment, Incomplete
<1>3. /\ asm'.id = f.seq /\ asm'.size = frames[f.seq].size
      /\ asm'.total = Total(f.seq)
      /\ asm'.remaining \subseteq 0..(Total(f.seq) - 1)
      /\ \A rp \in 0..(Total(f.seq) - 1) :
           /\ rp \in asm'.remaining <=> <<f.seq, rp>> \notin received'
           /\ rp \notin asm'.remaining => asm'.frame[Total(f.seq) - rp] = f.seq
  BY <1>2, StoredProgress
<1>4. /\ f.seq \in DOMAIN frames /\ f.seq \in Nat /\ Total(f.seq)' = Total(f.seq)
      /\ f.seq # NoFrame
      /\ received' = received \union {<<f.seq, f.rp>>}
      /\ \A r \in received : r[1] \in Nat /\ r[1] <= f.seq
  BY <1>1, OldestFacts, EarlierIsOrder DEF Cut, Total, NoFrame
<1>5. InProgress'
  BY <1>1, <1>2, <1>3, <1>4 DEF InProgress, Progress
<1>6. LastIsOpen'
  <2> SUFFICES ASSUME NEW r \in received'
               PROVE  asm'.id = r[1] \/ \E s \in received' : s[1] > r[1]
    BY DEF LastIsOpen
  <2>1. CASE r[1] = f.seq
    BY <1>3, <2>1
  <2>2. CASE r[1] # f.seq
    <3>1. r[1] < f.seq
      BY <1>4, <2>2
    <3>2. <<f.seq, f.rp>> \in received' /\ <<f.seq, f.rp>>[1] > r[1]
      BY <1>4, <3>1, <2>2
    <3> QED BY <3>2
  <2> QED BY <2>1, <2>2
<1>7. AssembledReceived' /\ DropsOutOfOrder'
  BY <1>1, <1>2 DEF DeliveryInv, AssembledReceived, DropsOutOfOrder
<1>8. ~AllReceived(f.seq)'
  <2>1. PICK rp \in asm'.remaining : TRUE
    BY <1>2
  <2> QED BY <1>3, <1>4, <2>1 DEF AllReceived
<1>9. WholeComes'
  <2> SUFFICES ASSUME NEW k \in DOMAIN frames, AllReceived(k)'
               PROVE  \E n \in DOMAIN assembled : assembled[n].frame[1] = k
    BY <1>1, <1>2 DEF WholeComes, AllReceived, Total
  <2> QED BY <1>1, <1>8 DEF DeliveryInv, WholeComes, AllReceived, Total
<1> QED BY <1>1, <1>2, <1>5, <1>6, <1>7, <1>9 DEF DeliveryInv

LEMMA CompleteFrameDelivery ==
  ASSUME TypeInv, OneCodec, WholeInv, DeliveryInv, NEW i \in 1..Window, i = 1, ReceiveFragment(i),
         CompleteFrame(net[i])
  PROVE  DeliveryInv'
<1> PICK f : f = net[i]
  OBVIOUS
<1> PICK fr : fr = Stored(f).frame
  OBVIOUS
<1>1. /\ InOrder' /\ UNCHANGED frames
      /\ \A k : AllReceived(k) => AllReceived(k)'
      /\ \A k : AllReceived(k)' => AllReceived(k) \/ k = f.seq
      /\ \A r \in received' : r[1] <= f.seq
  BY ReceivedFacts
<1>2. /\ asm' = Idle /\ Stored(f).remaining = {} /\ UNCHANGED panicked
      /\ assembled' = Append(assembled, [codec |-> f.codec, frame |-> fr])
  BY DEF CompleteFrame, Incomplete
<1>3. /\ f \in AudioFragment /\ Cut(f) /\ f.seq \in DOMAIN frames /\ f.seq \in Nat
      /\ f.codec = frames[f.seq].codec /\ f.rp \in Nat
      /\ Total(f.seq)' = Total(f.seq) /\ Total(f.seq) \in Nat \ {0}
      /\ 0 \in 0..(Total(f.seq) - 1) /\ f.seq \in 1..Len(frames)
      /\ received' = received \union {<<f.seq, f.rp>>}
      /\ \A r \in received : /\ r[1] \in Nat /\ r[1] <= f.seq
                             /\ Earlier(r[1], r[2], f.seq, f.rp)
  BY <1>1, OldestFacts, EarlierIsOrder, TotalType DEF Cut, Total
<1>4. AllReceived(f.seq)'
  BY <1>2, <1>3, StoredProgress DEF AllReceived
<1>5. <<f.seq, 0>> \in received'
  BY <1>3, <1>4 DEF AllReceived
<1>6. Genuine(f)
  BY <1>3, OldestFacts DEF Genuine, Sent
<1>7. fr[1] = f.seq /\ fr \in Seq(0..MaxFrames)
  BY <1>2, <1>3, <1>6, StoredWhole, StoredOfFrame DEF Assembler
<1>8. /\ assembled \in Seq(Handed) /\ Len(assembled) \in Nat
      /\ DOMAIN assembled = 1..Len(assembled)
      /\ DOMAIN assembled' = 1..(Len(assembled) + 1)
      /\ \A n \in DOMAIN assembled : assembled'[n] = assembled[n]
      /\ assembled'[Len(assembled) + 1] = [codec |-> f.codec, frame |-> fr]
  <2>1. assembled \in Seq(Handed) /\ [codec |-> f.codec, frame |-> fr] \in Handed
    BY <1>3, <1>7 DEF TypeInv, TypeOK, Handed, AudioFragment
  <2> QED BY <1>2, <2>1, AppendProperties, LenProperties
<1>9. \A n \in DOMAIN assembled : assembled[n].frame[1] < f.seq
  <2> SUFFICES ASSUME NEW n \in DOMAIN assembled
               PROVE  assembled[n].frame[1] < f.seq
    OBVIOUS
  <2>1. assembled[n].frame[1] \in DOMAIN frames /\ AllReceived(assembled[n].frame[1])
    <3>1. assembled[n].frame[1] \in 1..Len(frames)
      BY DEF WholeInv, DropsIncomplete, Whole
    <3>2. DOMAIN frames = 1..Len(frames)
      BY LenProperties DEF TypeInv, TypeOK
    <3> QED BY <3>1, <3>2 DEF DeliveryInv, AssembledReceived
  <2>2. <<assembled[n].frame[1], 0>> \in received
    BY <2>1, TotalType DEF AllReceived
  <2>3. assembled[n].frame[1] \in Nat /\ Earlier(assembled[n].frame[1], 0, f.seq, f.rp)
    BY <1>3, <2>2
  <2> QED BY <1>3, <2>3 DEF Earlier
<1>10. AssembledReceived' /\ DropsOutOfOrder'
  <2>1. \A n \in DOMAIN assembled' :
          \/ n \in DOMAIN assembled /\ assembled'[n].frame[1] = assembled[n].frame[1]
          \/ n = Len(assembled) + 1 /\ assembled'[n].frame[1] = f.seq
    BY <1>7, <1>8
  <2>2. AssembledReceived'
    BY <1>1, <1>4, <2>1 DEF DeliveryInv, AssembledReceived
  <2>3. ASSUME NEW n \in DOMAIN assembled', NEW m \in DOMAIN assembled', m < n
        PROVE  assembled'[m].frame[1] < assembled'[n].frame[1]
    <3>1. m \in DOMAIN assembled /\ assembled'[m].frame[1] = assembled[m].frame[1]
      BY <1>8, <2>1, <2>3
    <3> QED BY <1>9, <2>1, <2>3, <3>1 DEF DeliveryInv, DropsOutOfOrder
  <2> QED BY <2>2, <2>3 DEF DropsOutOfOrder
<1>11. WholeComes'
  <2> SUFFICES ASSUME NEW k \in DOMAIN frames, AllReceived(k)'
               PROVE  \E n \in DOMAIN assembled' : assembled'[n].frame[1] = k
    BY <1>1 DEF WholeComes, AllReceived, Total
  <2>1. CASE k = f.seq
    <3>1. Len(assembled) + 1 \in DOMAIN assembled'
          /\ assembled'[Len(assembled) + 1].frame[1] = f.seq
      BY <1>7, <1>8
    <3> QED BY <2>1, <3>1
  <2>2. CASE AllReceived(k)
    <3>1. PICK n \in DOMAIN assembled : assembled[n].frame[1] = k
      BY <2>2 DEF DeliveryInv, WholeComes, AllReceived, Total
    <3> QED BY <1>8, <3>1
  <2> QED BY <1>1, <2>1, <2>2
<1>12. InProgress'
  BY <1>2 DEF InProgress, Idle
<1>13. LastIsOpen'
  <2> SUFFICES ASSUME NEW r \in received'
               PROVE  <<r[1], 0>> \in received' \/ \E s \in received' : s[1] > r[1]
    BY DEF LastIsOpen
  <2>1. CASE r[1] = f.seq
    BY <1>5, <2>1
  <2>2. CASE r[1] # f.seq
    <3>1. r[1] < f.seq
      BY <1>3, <2>2
    <3>2. <<f.seq, f.rp>> \in received' /\ <<f.seq, f.rp>>[1] > r[1]
      BY <1>3, <3>1, <2>2
    <3> QED BY <3>2
  <2> QED BY <2>1, <2>2
<1> QED BY <1>1, <1>2, <1>10, <1>11, <1>12, <1>13 DEF DeliveryInv

-------------------------------------------------------------------------------
(* In order: the theorems.                                                     *)

LEMMA DeliveryInit ==
  ASSUME Init
  PROVE  DeliveryInv
BY DEF Init, Idle, DeliveryInv, InOrder, InProgress, LastIsOpen, AssembledReceived,
       DropsOutOfOrder, WholeComes

LEMMA DeliveryStep ==
  ASSUME TypeInv, OneCodec, WholeInv, ~disordered => DeliveryInv, [Next]_vars
  PROVE  (~disordered => DeliveryInv)'
<1> SUFFICES ASSUME ~disordered'
             PROVE  DeliveryInv'
  OBVIOUS
<1>1. ASSUME NEW codec \in Codecs, NEW size \in FrameSizes, DeployFrame(codec, size)
      PROVE  DeliveryInv'
  <2>1. DeliveryInv
    BY <1>1 DEF DeployFrame
  <2> QED BY <1>1, <2>1, DeployFrameDelivery
<1>2. ASSUME NEW copies \in 0..MaxCopies, BroadcastSubpacket(copies)
      PROVE  DeliveryInv'
  <2>1. DeliveryInv /\ ~(copies > 1)
    BY <1>2, Zenon DEF BroadcastSubpacket
  <2>2. copies <= 1
    BY <2>1, AudioStreamAssumption
  <2> QED BY <1>2, <2>1, <2>2, BroadcastSubpacketDelivery
<1>3. ASSUME NEW i \in 1..Window, ReceiveFragment(i)
      PROVE  DeliveryInv'
  <2>1. DeliveryInv /\ ~(i > 1)
    BY <1>3, Zenon DEF ReceiveFragment
  <2>2. i = 1
    BY <2>1, AudioStreamAssumption
  <2>3. ~Panic(net[i])
    BY <1>3, <2>1, <2>2, OpenedProgress DEF Panic
  <2>4. StoreFragment(net[i]) \/ CompleteFrame(net[i])
    BY <1>3, <2>3 DEF ReceiveFragment
  <2> QED BY <1>3, <2>1, <2>2, <2>4, StoreFragmentDelivery, CompleteFrameDelivery
<1>4. CASE UNCHANGED vars
  BY <1>4 DEF vars, DeliveryInv, InOrder, InProgress, LastIsOpen, AssembledReceived,
              DropsOutOfOrder, WholeComes, Progress, Total, Sent, AllReceived
<1> QED BY <1>1, <1>2, <1>3, <1>4 DEF Next

LEMMA DeliveryInvHolds ==
  ASSUME OneCodec
  PROVE  Spec => [](~disordered => DeliveryInv)
<1>1. Init => (~disordered => DeliveryInv)
  BY DeliveryInit
<1>2. TypeInv /\ WholeInv /\ (~disordered => DeliveryInv) /\ [Next]_vars
        => (~disordered => DeliveryInv)'
  BY DeliveryStep
<1>3. Spec => [](TypeInv /\ WholeInv)
  BY WholeInvHolds
<1> QED BY <1>1, <1>2, <1>3, PTL DEF Spec

\* One codec, any network: as long as it keeps the order, frames are handed over in the order
\* they were sent in, and none twice. "Drops frames that are out of order" has nothing to do
\* then; when something did overtake, PacketConstructor does not do it.
THEOREM AudioInOrder ==
  ASSUME OneCodec
  PROVE  Spec => [](~disordered => DropsOutOfOrder)
BY DeliveryInvHolds, PTL DEF DeliveryInv

\* One codec, any network: as long as it keeps the order, a frame all of whose subpackets came
\* is handed over, and a frame that lost one does not take the next with it.
THEOREM AudioOnlyLossDrops ==
  ASSUME OneCodec
  PROVE  Spec => []OnlyLossDrops
<1>1. (~disordered => DeliveryInv) => OnlyLossDrops
  BY DEF DeliveryInv, WholeComes, AllReceived, Total, OnlyLossDrops
<1> QED BY <1>1, DeliveryInvHolds, PTL
===============================================================================
