-------------------------- MODULE AudioCaptureProofs --------------------------
(***************************************************************************)
(* AudioCapture for every length of the buffer and all sizes of chunks.       *)
(* The invariants of AudioCapture speak of sequences put together; these say  *)
(* the same index by index of what was played and of what is kept.            *)
(***************************************************************************)
EXTENDS AudioCapture, SequenceTheorems, TLAPS

\* The first cursor places of buf are samples, in the order of their capture.
KeptInOrder ==
  /\ \A i \in 1..cursor : buf[i] \in 1..captured
  /\ \A i, j \in 1..cursor : i < j => buf[i] < buf[j]

\* Samples are played once, and not while they are kept.
PlayedOnce ==
  /\ \A i \in 1..Len(played) : played[i] \in 1..captured
  /\ \A i, j \in 1..Len(played) : i # j => played[i] # played[j]
  /\ \A i \in 1..Len(played), j \in 1..cursor : played[i] # buf[j]

PlayedInOrder ==
  ~overtaken =>
    /\ \A i, j \in 1..Len(played) : i < j => played[i] < played[j]
    /\ \A i \in 1..Len(played), j \in 1..cursor : played[i] < buf[j]

KeptSet == {buf[i] : i \in 1..cursor}

\* What is neither played nor kept is lost, and only that.
Accounted ==
  /\ lost \subseteq 1..captured
  /\ Range(played) \union KeptSet = (1..captured) \ lost

SamplesInv == KeptInOrder /\ PlayedOnce /\ PlayedInOrder /\ Accounted

CaptureInv == TypeOK /\ SamplesInv

-------------------------------------------------------------------------------
(* The operators.                                                              *)

LEMMA ChunkIs ==
  ASSUME NEW n \in Nat, captured \in Nat
  PROVE  /\ Chunk(n) \in Seq(Nat) /\ Len(Chunk(n)) = n
         /\ \A i \in 1..n : Chunk(n)[i] = captured + i
BY DEF Chunk

LEMMA ChunkParts ==
  ASSUME NEW n \in Nat, captured \in Nat, NEW k \in 0..n
  PROVE  /\ SubSeq(Chunk(n), 1, k) \in Seq(Nat)
         /\ Len(SubSeq(Chunk(n), 1, k)) = k
         /\ \A i \in 1..k : SubSeq(Chunk(n), 1, k)[i] = captured + i
         /\ SubSeq(Chunk(n), k + 1, n) \in Seq(Nat)
         /\ Len(SubSeq(Chunk(n), k + 1, n)) = n - k
         /\ \A i \in 1..(n - k) : SubSeq(Chunk(n), k + 1, n)[i] = captured + k + i
<1>1. Chunk(n) \in Seq(Nat) /\ Len(Chunk(n)) = n
  BY ChunkIs
<1>2. \A i \in 1..n : Chunk(n)[i] = captured + i
  BY ChunkIs
<1>3. /\ SubSeq(Chunk(n), 1, k) \in Seq(Nat) /\ Len(SubSeq(Chunk(n), 1, k)) = k
      /\ \A i \in 1..k : SubSeq(Chunk(n), 1, k)[i] = Chunk(n)[i]
  BY <1>1
<1>4. /\ SubSeq(Chunk(n), k + 1, n) \in Seq(Nat) /\ Len(SubSeq(Chunk(n), k + 1, n)) = n - k
      /\ \A i \in 1..(n - k) : SubSeq(Chunk(n), k + 1, n)[i] = Chunk(n)[k + i]
  BY <1>1
<1>5. \A i \in 1..(n - k) : k + i \in 1..n
  OBVIOUS
<1> QED BY <1>2, <1>3, <1>4, <1>5

LEMMA PlayedIsSeq ==
  ASSUME TypeOK
  PROVE  played \in Seq(Nat) /\ Len(played) \in Nat /\ cursor \in Nat /\ captured \in Nat
<1>1. 1..MaxSamples \subseteq Nat
  OBVIOUS
<1>2. played \in Seq(Nat)
  BY <1>1, SeqMonotonic DEF TypeOK
<1>3. Len(played) \in Nat
  BY <1>2
<1> QED BY <1>2, <1>3, CaptureAssumption DEF TypeOK

\* Samples that are there, and new ones, are lost.
LEMMA AccountedStep ==
  ASSUME NEW c \in Nat, NEW d \in Nat, c <= d, NEW L, L \subseteq 1..c,
         NEW D, D \subseteq ((1..c) \ L) \union ((c + 1)..d),
         NEW A, A = (((1..c) \ L) \union ((c + 1)..d)) \ D
  PROVE  L \union D \subseteq 1..d /\ A = (1..d) \ (L \union D)
<1>1. 1..d = (1..c) \union ((c + 1)..d) /\ (1..c) \intersect ((c + 1)..d) = {}
  OBVIOUS
<1>2. 1..c \subseteq 1..d
  BY <1>1
<1>3. L \union D \subseteq 1..d
  BY <1>1, <1>2
<1>4. L \intersect ((c + 1)..d) = {}
  BY <1>1
<1> QED BY <1>1, <1>3, <1>4

LEMMA ChunkRange ==
  ASSUME NEW n \in Nat, captured \in Nat
  PROVE  Range(Chunk(n)) = Samples(n)
<1>1. /\ Chunk(n) \in Seq(Nat) /\ Len(Chunk(n)) = n
      /\ \A i \in 1..n : Chunk(n)[i] = captured + i
  BY ChunkIs
<1>2. Range(Chunk(n)) = {Chunk(n)[i] : i \in 1..n}
  BY <1>1, RangeEquality
<1>3. Range(Chunk(n)) = {captured + i : i \in 1..n}
  BY <1>1, <1>2
<1>4. ASSUME NEW s \in (captured + 1)..(captured + n)
      PROVE  s - captured \in 1..n /\ s = captured + (s - captured)
  OBVIOUS
<1>5. \A i \in 1..n : captured + i \in (captured + 1)..(captured + n)
  OBVIOUS
<1> QED BY <1>3, <1>4, <1>5 DEF Samples

-------------------------------------------------------------------------------
(* What a step does to the samples, whichever action takes it.                 *)

\* What is kept stays, and n samples that are captured go behind it.
LEMMA KeepStep ==
  ASSUME TypeOK, SamplesInv, NEW n \in Nat,
         UNCHANGED <<played, lost, overtaken>>,
         cursor' = cursor + n, captured' = captured + n,
         \A i \in 1..cursor : buf'[i] = buf[i],
         \A i \in (cursor + 1)..(cursor + n) : buf'[i] = captured + i - cursor
  PROVE  SamplesInv'
<1>0. played \in Seq(Nat) /\ Len(played) \in Nat /\ cursor \in Nat /\ captured \in Nat
  BY PlayedIsSeq
<1> USE <1>0 DEF SamplesInv
<1>1. KeptInOrder'
  BY SMTT(30) DEF KeptInOrder
<1>2. PlayedOnce'
  BY DEF KeptInOrder, PlayedOnce
<1>3. PlayedInOrder'
  BY DEF PlayedOnce, PlayedInOrder
<1>4. KeptSet' = KeptSet \union ((captured + 1)..(captured + n))
  <2>1. \A i \in 1..cursor' : i \in 1..cursor \/ i \in (cursor + 1)..(cursor + n)
    OBVIOUS
  <2>2. ASSUME NEW s \in (captured + 1)..(captured + n)
        PROVE  \E i \in 1..cursor' : buf'[i] = s
    <3>1. s - captured + cursor \in (cursor + 1)..(cursor + n) /\ s - captured + cursor \in 1..cursor'
      OBVIOUS
    <3>2. buf'[s - captured + cursor] = captured + (s - captured + cursor) - cursor
      BY <3>1
    <3> QED BY <3>1, <3>2
  <2>3. \A i \in (cursor + 1)..(cursor + n) : buf'[i] \in (captured + 1)..(captured + n)
    OBVIOUS
  <2>4. \A i \in 1..cursor : i \in 1..cursor'
    OBVIOUS
  <2> QED BY <2>1, <2>2, <2>3, <2>4 DEF KeptSet
<1>5. Accounted'
  <2>1. /\ lost \subseteq 1..captured
        /\ Range(played) \union KeptSet = (1..captured) \ lost
    BY DEF Accounted
  <2>2. Range(played') \union KeptSet'
          = (((1..captured) \ lost) \union ((captured + 1)..(captured + n))) \ {}
    BY <1>4, <2>1
  <2>3. captured + n \in Nat /\ captured <= captured + n
    OBVIOUS
  <2>4. /\ lost \union {} \subseteq 1..(captured + n)
        /\ Range(played') \union KeptSet' = (1..(captured + n)) \ (lost \union {})
    BY <2>1, <2>2, <2>3, AccountedStep
  <2> QED BY <2>4 DEF Accounted
<1> QED BY <1>1, <1>2, <1>3, <1>5

\* What is kept and k samples after it leave the buffer as one frame.
LEMMA FrameRange ==
  ASSUME cursor \in Nat, captured \in Nat, NEW frame \in Seq(Nat), NEW k \in Nat,
         Len(frame) = cursor + k,
         \A i \in 1..cursor : frame[i] = buf[i],
         \A i \in (cursor + 1)..(cursor + k) : frame[i] = captured + i - cursor
  PROVE  Range(frame) = KeptSet \union ((captured + 1)..(captured + k))
<1>1. Range(frame) = {frame[i] : i \in 1..(cursor + k)}
  BY RangeEquality
<1>2. 1..(cursor + k) = (1..cursor) \union ((cursor + 1)..(cursor + k))
  OBVIOUS
<1>3. {frame[i] : i \in (cursor + 1)..(cursor + k)} = (captured + 1)..(captured + k)
  <2>1. ASSUME NEW s \in (captured + 1)..(captured + k)
        PROVE  /\ s - captured + cursor \in (cursor + 1)..(cursor + k)
               /\ frame[s - captured + cursor] = s
    <3>1. s - captured + cursor \in (cursor + 1)..(cursor + k)
      OBVIOUS
    <3>2. frame[s - captured + cursor] = captured + (s - captured + cursor) - cursor
      BY <3>1
    <3> QED BY <3>1, <3>2
  <2>2. ASSUME NEW i \in (cursor + 1)..(cursor + k)
        PROVE  frame[i] \in (captured + 1)..(captured + k)
    OBVIOUS
  <2> QED BY <2>1, <2>2
<1>4. {frame[i] : i \in 1..cursor} = KeptSet
  BY DEF KeptSet
<1> QED BY <1>1, <1>2, <1>3, <1>4

\* The samples that are kept next.
LEMMA KeptNext ==
  ASSUME NEW c \in Nat, NEW u \in Nat, cursor' = u, \A i \in 1..u : buf'[i] = c + i
  PROVE  KeptSet' = (c + 1)..(c + u)
<1>1. ASSUME NEW s \in (c + 1)..(c + u)
      PROVE  s - c \in 1..u /\ buf'[s - c] = s
  <2>1. s - c \in 1..u
    OBVIOUS
  <2>2. buf'[s - c] = c + (s - c)
    BY <2>1
  <2> QED BY <2>1, <2>2
<1>2. \A i \in 1..u : c + i \in (c + 1)..(c + u)
  OBVIOUS
<1> QED BY <1>1, <1>2 DEF KeptSet

\* The new samples: in the frame, kept, and dropped.
SampleParts(c, k, u, e) ==
  LET framed == (c + 1)..(c + k)
      kept == (c + k + 1)..(c + k + u)
      dropped == (c + k + u + 1)..e
  IN /\ e \in Nat /\ c <= e
     /\ (c + 1)..e = framed \union kept \union dropped
     /\ framed \intersect kept = {} /\ (framed \union kept) \intersect dropped = {}
     /\ (1..c) \intersect ((c + 1)..e) = {}

LEMMA NewParts ==
  ASSUME NEW c \in Nat, NEW k \in Nat, NEW u \in Nat, NEW d \in Nat
  PROVE  SampleParts(c, k, u, c + k + u + d)
BY DEF SampleParts

\* A place among the first samples is one among more of them.
LEMMA MoreSamples ==
  ASSUME NEW c \in Nat, NEW m \in Nat
  PROVE  1..c \subseteq 1..(c + m)
OBVIOUS

\* The frame may fail, the next samples are kept, and the rest is dropped.
LEMMA FrameAccounted ==
  ASSUME TypeOK, SamplesInv, NEW frame \in Seq(Nat), NEW New, NEW Next1, NEW dropped,
         BroadcastsBut(frame, dropped), captured' \in Nat, captured <= captured',
         Range(frame) = KeptSet \union New, KeptSet' = Next1,
         (captured + 1)..captured' = New \union Next1 \union dropped,
         New \intersect Next1 = {}, (New \union Next1) \intersect dropped = {},
         (1..captured) \intersect ((captured + 1)..captured') = {}
  PROVE  Accounted'
<1>0. played \in Seq(Nat) /\ Len(played) \in Nat /\ cursor \in Nat /\ captured \in Nat
  BY PlayedIsSeq
<1>3. /\ lost \subseteq 1..captured
      /\ Range(played) \union KeptSet = (1..captured) \ lost
  BY DEF SamplesInv, Accounted
<1>4. Range(played) \intersect KeptSet = {}
  <2>1. Range(played) = {played[i] : i \in 1..Len(played)}
    BY <1>0, RangeEquality
  <2> QED BY <2>1 DEF SamplesInv, PlayedOnce, KeptSet
<1>8. CASE played' = played \o frame /\ lost' = lost \union dropped
  <2>1. Range(played') = Range(played) \union Range(frame)
    BY <1>0, <1>8, RangeConcatenation
  <2>2. Range(played') \union KeptSet'
          = (((1..captured) \ lost) \union ((captured + 1)..captured')) \ dropped
    BY <1>3, <2>1
  <2>3. dropped \subseteq ((1..captured) \ lost) \union ((captured + 1)..captured')
    OBVIOUS
  <2>4. /\ lost \union dropped \subseteq 1..captured'
        /\ Range(played') \union KeptSet' = (1..captured') \ (lost \union dropped)
    <3> HIDE <1>8
    <3>1. captured \in Nat /\ captured' \in Nat /\ captured <= captured' /\ lost \subseteq 1..captured
      BY <1>0, <1>3
    <3> QED BY <2>2, <2>3, <3>1, AccountedStep, SMTT(30)
  <2> QED BY <1>8, <2>4 DEF Accounted
<1>9. CASE played' = played /\ lost' = lost \union dropped \union Range(frame)
  <2> DEFINE gone == dropped \union Range(frame)
  <2>1. Range(played') \union KeptSet'
          = (((1..captured) \ lost) \union ((captured + 1)..captured')) \ gone
    BY <1>3, <1>4, <1>9
  <2>2. gone \subseteq ((1..captured) \ lost) \union ((captured + 1)..captured')
    BY <1>3
  <2> HIDE DEF gone
  <2>3. /\ lost \union gone \subseteq 1..captured'
        /\ Range(played') \union KeptSet' = (1..captured') \ (lost \union gone)
    BY <1>0, <1>3, <2>1, <2>2, AccountedStep
  <2>4. lost' = lost \union gone
    BY <1>9 DEF gone
  <2> QED BY <2>3, <2>4 DEF Accounted
<1> QED BY <1>8, <1>9 DEF BroadcastsBut

LEMMA FrameOrder ==
  ASSUME TypeOK, SamplesInv, NEW frame \in Seq(Nat), NEW k \in Nat,
         played' = played \/ played' = played \o frame, overtaken' = overtaken,
         Len(frame) = cursor + k,
         \A i \in 1..cursor : frame[i] = buf[i],
         \A i \in (cursor + 1)..(cursor + k) : frame[i] = captured + i - cursor,
         cursor' \in Nat, NEW d \in Nat, captured' = captured + k + cursor' + d,
         \A i \in 1..cursor' : buf'[i] = captured + k + i
  PROVE  KeptInOrder' /\ PlayedOnce' /\ PlayedInOrder'
<1>0. played \in Seq(Nat) /\ Len(played) \in Nat /\ cursor \in Nat /\ captured \in Nat
  BY PlayedIsSeq
<1>b. /\ 1..captured \subseteq 1..captured'
      /\ 1..(captured + k) \subseteq 1..captured'
  <2>1. captured + k \in Nat /\ captured' = (captured + k) + (cursor' + d)
        /\ cursor' + d \in Nat
    <3>1. ASSUME NEW c \in Nat, NEW u \in Nat
          PROVE  c + k \in Nat /\ u + d \in Nat /\ c + k + u + d = (c + k) + (u + d)
      OBVIOUS
    <3>2. /\ captured + k \in Nat /\ cursor' + d \in Nat
          /\ captured + k + cursor' + d = (captured + k) + (cursor' + d)
      BY <1>0, <3>1
    <3> QED BY <3>2
  <2>2. 1..captured \subseteq 1..(captured + k)
    BY <1>0, MoreSamples
  <2>3. 1..(captured + k) \subseteq 1..((captured + k) + (cursor' + d))
    BY <2>1, MoreSamples
  <2> QED BY <2>1, <2>2, <2>3
<1> USE <1>0 DEF SamplesInv
<1>1. KeptInOrder'
  BY DEF KeptInOrder
<1>2. CASE played' = played
  <2>0. ASSUME NEW i \in 1..Len(played), NEW j \in 1..cursor'
        PROVE  played[i] \in 1..captured' /\ buf'[j] > captured /\ played[i] < buf'[j]
    <3>1. played[i] \in 1..captured
      BY DEF PlayedOnce
    <3>2. buf'[j] = captured + k + j
      OBVIOUS
    <3> QED BY <3>1, <3>2, SMTT(30)
  <2>1. PlayedOnce'
    <3>1. \A i, j \in 1..Len(played) : i # j => played[i] # played[j]
      BY DEF PlayedOnce
    <3>2. \A i \in 1..Len(played), j \in 1..cursor' :
            played[i] \in 1..captured' /\ played[i] # buf'[j]
      <4>1. ASSUME NEW i \in 1..Len(played), NEW j \in 1..cursor'
            PROVE  played[i] # buf'[j]
        <5>1. played[i] \in 1..captured /\ buf'[j] > captured
          BY <2>0 DEF PlayedOnce
        <5> QED BY <5>1
      <4> QED BY <2>0, <4>1
    <3>3. \A i \in 1..Len(played) : played[i] \in 1..captured'
      BY <1>b DEF PlayedOnce
    <3> QED BY <1>2, <3>1, <3>2, <3>3 DEF PlayedOnce
  <2>2. PlayedInOrder'
    BY <1>2, SMTT(30) DEF PlayedOnce, PlayedInOrder
  <2> QED BY <1>1, <2>1, <2>2
<1>3. CASE played' = played \o frame
  <2>0. /\ Len(played \o frame) = Len(played) + Len(frame)
        /\ \A i \in 1..(Len(played) + Len(frame)) : (played \o frame)[i] =
             IF i <= Len(played) THEN played[i] ELSE frame[i - Len(played)]
    BY ConcatProperties
  <2>1. /\ Len(played) \in Nat /\ Len(played') = Len(played) + cursor + k
        /\ \A i \in 1..Len(played) : played'[i] = played[i]
        /\ \A i \in (Len(played) + 1)..Len(played') : played'[i] = frame[i - Len(played)]
    BY <1>3, <2>0
  <2> DEFINE M == Len(played)
             Early == 1..M
             Kept1 == (M + 1)..(M + cursor)
             New == (M + cursor + 1)..(M + cursor + k)
  <2> HIDE <1>3, <2>0
  <2>2. ASSUME NEW i \in Kept1
        PROVE  i - M \in 1..cursor /\ i \in 1..Len(played') /\ played'[i] = buf[i - M]
    <3>1. i - M \in 1..cursor /\ i \in (M + 1)..Len(played')
      BY <2>1
    <3> QED BY <2>1, <3>1
  <2>3. ASSUME NEW i \in New
        PROVE  i \in 1..Len(played') /\ played'[i] = captured + i - M - cursor
    <3>1. i - M \in (cursor + 1)..(cursor + k) /\ i \in (M + 1)..Len(played')
      BY <2>1
    <3>2. played'[i] = frame[i - M]
      BY <2>1, <3>1
    <3> QED BY <2>1, <3>1, <3>2
  <2>4. \A i \in 1..Len(played') : i \in Early \/ i \in Kept1 \/ i \in New
    BY <2>1
  <2>5. ASSUME NEW i \in 1..Len(played')
        PROVE  /\ played'[i] \in 1..(captured + k)
               /\ i \notin New => played'[i] <= captured
    <3>1. CASE i \in Early
      BY <2>1, <3>1, SMTT(30) DEF PlayedOnce
    <3>2. CASE i \in Kept1
      <4>1. i - M \in 1..cursor /\ played'[i] = buf[i - M]
        BY <2>2, <3>2
      <4>2. buf[i - M] \in 1..captured
        BY <4>1 DEF KeptInOrder
      <4>3. i \notin New
        BY <3>2
      <4> QED BY <4>1, <4>2, <4>3
    <3>3. CASE i \in New
      <4>1. played'[i] = captured + i - M - cursor
        BY <2>3, <3>3
      <4>2. i - M - cursor \in 1..k
        BY <2>1, <3>3
      <4> QED BY <3>3, <4>1, <4>2, SMTT(60)
    <3> QED BY <2>4, <3>1, <3>2, <3>3
  <2>6. ASSUME NEW i \in 1..Len(played'), NEW j \in 1..Len(played'), i < j
        PROVE  /\ played'[i] # played'[j]
               /\ ~overtaken => played'[i] < played'[j]
    <3>1. CASE j \in New
      <4>1. CASE i \in New
        BY <2>3, <2>6, <3>1, <4>1, SMTT(30)
      <4>2. CASE i \notin New
        <5>1. played'[j] > captured
          <6>1. j - M - cursor \in 1..k /\ played'[j] = captured + j - M - cursor
            BY <2>1, <2>3, <3>1
          <6> QED BY <6>1
        <5>2. played'[i] <= captured /\ played'[i] \in Nat
          BY <2>5, <4>2
        <5> QED BY <2>5, <5>1, <5>2, SMTT(30)
      <4> QED BY <4>1, <4>2
    <3>2. CASE j \in Kept1 /\ i \in Kept1
      <4>1. i - M \in 1..cursor /\ j - M \in 1..cursor /\ i - M < j - M
        BY <2>2, <2>6, <3>2, <2>1
      <4>2. played'[i] = buf[i - M] /\ played'[j] = buf[j - M]
        BY <2>2, <3>2
      <4>3. buf[i - M] < buf[j - M] /\ buf[i - M] \in Nat /\ buf[j - M] \in Nat
        BY <4>1, SMTT(30) DEF KeptInOrder
      <4> QED BY <4>2, <4>3
    <3>3. CASE j \in Kept1 /\ i \in Early
      <4>1. j - M \in 1..cursor /\ played'[j] = buf[j - M]
        BY <2>2, <3>3
      <4>2. played'[i] = played[i]
        BY <2>1, <3>3
      <4> QED BY <4>1, <4>2, <3>3 DEF PlayedOnce, PlayedInOrder
    <3>4. CASE j \in Early
      <4>1. i \in Early
        BY <2>6, <3>4, <2>1
      <4>2. played'[i] = played[i] /\ played'[j] = played[j]
        BY <2>1, <3>4, <4>1
      <4> QED BY <2>6, <3>4, <4>1, <4>2 DEF PlayedOnce, PlayedInOrder
    <3>5. j \in Kept1 => i \in Kept1 \/ i \in Early
      BY <2>1, <2>4, <2>6
    <3> QED BY <2>4, <3>1, <3>2, <3>3, <3>4, <3>5
  <2>7. ASSUME NEW i \in 1..Len(played'), NEW j \in 1..cursor'
        PROVE  played'[i] \in 1..captured' /\ played'[i] < buf'[j]
    BY <2>5, SMTT(30)
  <2>8. PlayedOnce'
    <3>1. \A i \in 1..Len(played') : played'[i] \in 1..captured'
      BY <1>b, <2>5
    <3>2. \A i, j \in 1..Len(played') : i # j => played'[i] # played'[j]
      <4>1. \A i, j \in 1..Len(played') : i # j => i < j \/ j < i
        BY <2>1
      <4> QED BY <2>6, <4>1
    <3>3. \A i \in 1..Len(played'), j \in 1..cursor' : played'[i] # buf'[j]
      BY <2>7
    <3> QED BY <3>1, <3>2, <3>3 DEF PlayedOnce
  <2>9. PlayedInOrder'
    BY <2>6, <2>7 DEF PlayedInOrder
  <2> QED BY <1>1, <2>8, <2>9
<1> QED BY <1>2, <1>3

LEMMA FrameStep ==
  ASSUME TypeOK, SamplesInv, NEW frame \in Seq(Nat), NEW k \in Nat,
         BroadcastsBut(frame, (captured + k + cursor' + 1)..captured'), overtaken' = overtaken,
         Len(frame) = cursor + k,
         \A i \in 1..cursor : frame[i] = buf[i],
         \A i \in (cursor + 1)..(cursor + k) : frame[i] = captured + i - cursor,
         cursor' \in Nat, NEW d \in Nat, captured' = captured + k + cursor' + d,
         \A i \in 1..cursor' : buf'[i] = captured + k + i
  PROVE  SamplesInv'
<1>0. cursor \in Nat /\ captured \in Nat /\ captured + k \in Nat
  BY PlayedIsSeq
<1>1. Accounted'
  <2>0. captured' = captured + k + cursor' + d /\ cursor' \in Nat
    OBVIOUS
  <2>1. Range(frame) = KeptSet \union ((captured + 1)..(captured + k))
    BY <1>0, FrameRange
  <2>2. KeptSet' = (captured + k + 1)..(captured + k + cursor')
    BY <1>0, KeptNext
  <2>3. SampleParts(captured, k, cursor', captured + k + cursor' + d)
    BY <1>0, <2>0, NewParts
  <2>4. SampleParts(captured, k, cursor', captured')
    BY <2>0, <2>3, Zenon
  <2> QED BY <2>1, <2>2, <2>4, FrameAccounted DEF SampleParts
<1>2. played' = played \/ played' = played \o frame
  BY DEF BroadcastsBut
<1>3. KeptInOrder' /\ PlayedOnce' /\ PlayedInOrder'
  BY <1>2, FrameOrder
<1> QED BY <1>1, <1>3 DEF SamplesInv

\* Samples are captured and lost.
LEMMA LossStep ==
  ASSUME TypeOK, SamplesInv, UNCHANGED <<played, cursor, overtaken>>,
         captured' \in Nat, captured <= captured',
         lost' = lost \union ((captured + 1)..captured'),
         \A i \in 1..cursor : buf'[i] = buf[i]
  PROVE  SamplesInv'
<1>1. played \in Seq(Nat) /\ Len(played) \in Nat /\ cursor \in Nat /\ captured \in Nat
  BY PlayedIsSeq
<1>2. Accounted'
  <2> DEFINE D == (captured + 1)..captured'
  <2>1. /\ lost \subseteq 1..captured
        /\ Range(played) \union KeptSet = (1..captured) \ lost
    BY DEF SamplesInv, Accounted
  <2>2. KeptSet' = KeptSet
    BY DEF KeptSet
  <2>3. (1..captured) \intersect D = {}
    BY <1>1
  <2>4. Range(played') \union KeptSet' = (((1..captured) \ lost) \union D) \ D
    BY <2>1, <2>2, <2>3
  <2>5. /\ lost \union D \subseteq 1..captured'
        /\ Range(played') \union KeptSet' = (1..captured') \ (lost \union D)
    BY <1>1, <2>1, <2>4, AccountedStep
  <2> QED BY <2>5 DEF Accounted
<1>3. KeptInOrder' /\ PlayedOnce' /\ PlayedInOrder'
  BY <1>1 DEF SamplesInv, KeptInOrder, PlayedOnce, PlayedInOrder
<1> QED BY <1>2, <1>3 DEF SamplesInv

-------------------------------------------------------------------------------
(* The actions.                                                                *)

LEMMA FunctionIsSeq ==
  ASSUME NEW m \in Nat, NEW f \in [1..m -> Nat]
  PROVE  f \in Seq(Nat) /\ Len(f) = m
<1>1. f \in Seq(Nat)
  BY SeqDef
<1>2. Len(f) \in Nat /\ 1..Len(f) = 1..m
  BY <1>1, LenProperties
<1> QED BY <1>1, <1>2

LEMMA BufferIsSeq ==
  ASSUME NEW f \in [1..BufLen -> Nat]
  PROVE  f \in Seq(Nat) /\ Len(f) = BufLen
BY FunctionIsSeq, CaptureAssumption

LEMMA PlayedType ==
  ASSUME NEW p \in Seq(Nat), NEW m \in Nat, \A i \in 1..Len(p) : p[i] \in 1..m
  PROVE  p \in Seq(1..m)
<1>1. p \in [1..Len(p) -> 1..m] /\ Len(p) \in Nat
  BY LenProperties
<1> QED BY <1>1, SeqDef

LEMMA BroadcastType ==
  ASSUME TypeOK, NEW frame \in Seq(Nat), NEW dropped, BroadcastsBut(frame, dropped)
  PROVE  played' \in Seq(Nat)
<1>1. played \in Seq(Nat)
  BY PlayedIsSeq
<1>2. played \o frame \in Seq(Nat)
  BY <1>1, ConcatProperties
<1> QED BY <1>1, <1>2 DEF BroadcastsBut

\* What buf is after a chunk, or a part of it, went behind what it kept.
LEMMA OverwrittenType ==
  ASSUME TypeOK, NEW n \in ChunkSizes, captured + n <= MaxSamples,
         NEW b \in [1..BufLen -> 0..MaxSamples], NEW from \in Nat \ {0},
         NEW s \in Seq(Nat), \A i \in 1..Len(s) : s[i] <= captured + n
  PROVE  Overwritten(b, from, s) \in [1..BufLen -> 0..MaxSamples]
<1>1. captured \in Nat /\ n \in Nat /\ MaxSamples \in Nat
  BY CaptureAssumption DEF TypeOK
<1>2. Len(s) \in Nat /\ \A i \in 1..Len(s) : s[i] \in Nat
  OBVIOUS
<1>3. ASSUME NEW i \in 1..BufLen, from <= i, i < from + Len(s)
      PROVE  s[i - from + 1] \in 0..MaxSamples
  <2>1. i - from + 1 \in 1..Len(s)
    BY <1>2, <1>3, CaptureAssumption
  <2> QED BY <1>1, <1>2, <2>1
<1>4. \A i \in 1..BufLen : i \in from..(from + Len(s) - 1) <=> from <= i /\ i < from + Len(s)
  BY <1>2, CaptureAssumption
<1> QED BY <1>3, <1>4 DEF Overwritten

LEMMA CaptureOpusStep ==
  ASSUME CaptureInv, NEW n \in ChunkSizes, CaptureOpus(n)
  PROVE  CaptureInv'
<1>0. /\ n \in Nat \ {0} /\ n <= BufLen /\ BufLen \in Nat \ {0} /\ MaxSamples \in Nat
      /\ cursor \in Nat /\ captured \in Nat /\ cursor < BufLen
      /\ buf \in [1..BufLen -> 0..MaxSamples] /\ played \in Seq(Nat)
  BY CaptureAssumption, PlayedIsSeq DEF CaptureInv, TypeOK
<1>1. captured' = captured + n /\ captured' <= MaxSamples /\ overtaken' = overtaken
  BY DEF CaptureOpus, Captures
<1>2. /\ Chunk(n) \in Seq(Nat) /\ Len(Chunk(n)) = n
      /\ \A i \in 1..n : Chunk(n)[i] = captured + i
  BY <1>0, ChunkIs
<1>3. ASSUME SamplesInv', played' \in Seq(Nat),
             buf' \in [1..BufLen -> 0..MaxSamples], cursor' \in 0..(BufLen - 1)
      PROVE  CaptureInv'
  <2>1. \A i \in 1..Len(played') : played'[i] \in 1..MaxSamples
    BY <1>0, <1>1, <1>3, SMTT(30) DEF SamplesInv, PlayedOnce
  <2>2. played' \in Seq(1..MaxSamples)
    BY <1>0, <1>3, <2>1, PlayedType
  <2>3. lost' \subseteq 1..MaxSamples
    <3>1. lost' \subseteq 1..captured' /\ captured' \in Nat
      BY <1>0, <1>1, <1>3 DEF SamplesInv, Accounted
    <3> QED BY <1>0, <1>1, <3>1
  <2> QED BY <1>0, <1>1, <1>3, <2>2, <2>3 DEF CaptureInv, TypeOK, CaptureOpus
<1>4. CASE KeepChunk(n) \/ EncodeFull(n)
  <2>1. buf' = Overwritten(buf, cursor + 1, Chunk(n))
    BY <1>4 DEF KeepChunk, EncodeFull
  <2>2. buf' \in [1..BufLen -> 0..MaxSamples]
    <3>1. \A i \in 1..Len(Chunk(n)) : Chunk(n)[i] <= captured + n
      BY <1>0, <1>2
    <3>2. captured + n <= MaxSamples /\ cursor + 1 \in Nat \ {0}
      BY <1>0, <1>1
    <3> QED BY <1>0, <1>2, <2>1, <3>1, <3>2, OverwrittenType DEF CaptureInv
  <2>3. /\ \A i \in 1..cursor : buf'[i] = buf[i]
        /\ \A i \in (cursor + 1)..(cursor + n) :
             i <= BufLen => buf'[i] = captured + i - cursor
    <3>1. cursor + 1 \in 1..(BufLen + 1)
      BY <1>0
    <3>2. /\ \A i \in 1..BufLen : i < cursor + 1 => buf'[i] = buf[i]
          /\ \A i \in 1..BufLen : cursor + 1 <= i /\ i < cursor + 1 + n =>
               buf'[i] = Chunk(n)[i - (cursor + 1) + 1]
      BY <1>0, <1>2, <2>1 DEF Overwritten
    <3>3. \A i \in (cursor + 1)..(cursor + n) : i - cursor \in 1..n /\ i - (cursor + 1) + 1 = i - cursor
      BY <1>0
    <3>4. \A i \in 1..cursor : i \in 1..BufLen /\ i < cursor + 1
      BY <1>0
    <3>5. ASSUME NEW i \in (cursor + 1)..(cursor + n), i <= BufLen
          PROVE  buf'[i] = captured + i - cursor
      <4>1. /\ i \in 1..BufLen /\ cursor + 1 <= i /\ i < cursor + 1 + n
            /\ i - cursor \in 1..n
        BY <1>0, <3>5
      <4>2. buf'[i] = Chunk(n)[i - cursor]
        BY <3>2, <3>3, <4>1
      <4> QED BY <1>0, <1>2, <4>1, <4>2
    <3> QED BY <3>2, <3>4, <3>5
  <2>4. CASE KeepChunk(n)
    <3>1. SamplesInv'
      BY <1>0, <1>1, <2>3, <2>4, KeepStep DEF CaptureInv, KeepChunk
    <3>2. cursor' \in 0..(BufLen - 1) /\ UNCHANGED <<played, lost>>
      BY <1>0, <2>4 DEF KeepChunk
    <3>3. played' \in Seq(Nat)
      BY <1>0, <3>2
    <3> QED BY <1>3, <2>2, <3>1, <3>2, <3>3
  <2>5. CASE EncodeFull(n)
    <3>1. buf' \in Seq(Nat) /\ Len(buf') = BufLen
      BY <2>2, BufferIsSeq
    <3>2. SamplesInv'
      <4>1. cursor + n = BufLen /\ cursor' = 0 /\ BroadcastsBut(buf', {})
        BY <2>5 DEF EncodeFull, Broadcasts
      <4>2. /\ \A i \in (cursor + 1)..(cursor + n) : buf'[i] = captured + i - cursor
            /\ captured' = captured + n + cursor' + 0 /\ cursor' \in Nat /\ 0 \in Nat
            /\ \A i \in 1..cursor' : buf'[i] = captured + n + i
            /\ {} = (captured + n + cursor' + 1)..captured'
        BY <1>0, <1>1, <2>3, <4>1
      <4>3. BroadcastsBut(buf', (captured + n + cursor' + 1)..captured')
        BY <4>1, <4>2
      <4> QED BY <1>0, <1>1, <2>3, <3>1, <4>1, <4>2, <4>3, FrameStep DEF CaptureInv
    <3>3. played' \in Seq(Nat)
      BY <2>5, <3>1, BroadcastType DEF CaptureInv, EncodeFull, Broadcasts
    <3> QED BY <1>0, <1>3, <2>2, <2>5, <3>2, <3>3 DEF EncodeFull
  <2> QED BY <1>4, <2>4, <2>5
<1>5. CASE EncodeOverfull(n) \/ EncodeOverfullFails(n)
  <2>0. cursor + n > BufLen
    BY <1>0, <1>5 DEF EncodeOverfull, EncodeOverfullFails, Fits
  <2> DEFINE k == BufLen - cursor
             First == SubSeq(Chunk(n), 1, k)
  <2>a. k \in 0..n /\ k \in Nat /\ n - k \in Nat /\ cursor + k = BufLen
    BY <1>0, <2>0
  <2>1. /\ First \in Seq(Nat) /\ Len(First) = k
        /\ \A i \in 1..k : First[i] = captured + i
    BY <1>0, <2>a, ChunkParts
  <2>2. /\ Rest(n) \in Seq(Nat) /\ Len(Rest(n)) = n - k
        /\ \A i \in 1..(n - k) : Rest(n)[i] = captured + k + i
    BY <1>0, <2>a, ChunkParts DEF Rest
  <2>c. Filled(n) = Overwritten(buf, cursor + 1, First)
    BY DEF Filled
  <2> HIDE DEF k, First
  <2>b. captured + n <= MaxSamples /\ cursor + 1 \in Nat \ {0} /\ 1 \in Nat \ {0}
    BY <1>0, <1>1
  <2>3. Filled(n) \in [1..BufLen -> 0..MaxSamples]
    <3>1. \A i \in 1..Len(First) : First[i] <= captured + n
      BY <1>0, <2>a, <2>1
    <3>2. Overwritten(buf, cursor + 1, First) \in [1..BufLen -> 0..MaxSamples]
      BY <1>0, <2>b, <2>1, <3>1, OverwrittenType DEF CaptureInv
    <3> QED BY <2>c, <3>2
  <2>4. /\ \A i \in 1..cursor : Filled(n)[i] = buf[i]
        /\ \A i \in (cursor + 1)..(cursor + k) : Filled(n)[i] = captured + i - cursor
    <3>1. cursor + 1 \in 1..(BufLen + 1)
      BY <1>0
    <3>2. /\ \A i \in 1..BufLen : i < cursor + 1 => Filled(n)[i] = buf[i]
          /\ \A i \in 1..BufLen : cursor + 1 <= i /\ i < cursor + 1 + k =>
               Filled(n)[i] = First[i - (cursor + 1) + 1]
      BY <1>0, <2>1, <2>a, <2>c DEF Overwritten
    <3>3. \A i \in (cursor + 1)..(cursor + k) :
            i - cursor \in 1..k /\ i - (cursor + 1) + 1 = i - cursor /\ i <= BufLen
      BY <1>0, <2>a
    <3>4. \A i \in 1..cursor : i \in 1..BufLen /\ i < cursor + 1
      BY <1>0
    <3>5. ASSUME NEW i \in (cursor + 1)..(cursor + k)
          PROVE  Filled(n)[i] = captured + i - cursor
      <4>1. /\ i \in 1..BufLen /\ cursor + 1 <= i /\ i < cursor + 1 + k
            /\ i - cursor \in 1..k
        BY <1>0, <2>a
      <4>2. Filled(n)[i] = First[i - cursor]
        BY <3>2, <3>3, <4>1
      <4> QED BY <1>0, <2>1, <4>1, <4>2
    <3> QED BY <3>2, <3>4, <3>5
  <2>5. CASE EncodeOverfull(n)
    <3>1. Filled(n) \in Seq(Nat) /\ Len(Filled(n)) = cursor + k
      <4>1. Filled(n) \in [1..BufLen -> Nat]
        BY <2>3
      <4> QED BY <2>a, <4>1, BufferIsSeq
    <3>2. buf' \in [1..BufLen -> 0..MaxSamples]
      <4>1. \A i \in 1..Len(Rest(n)) : Rest(n)[i] <= captured + n
        BY <1>0, <2>a, <2>2
      <4> QED BY <2>b, <2>2, <2>3, <2>5, <4>1, OverwrittenType DEF EncodeOverfull, CaptureInv
    <3>3. cursor' = n - k /\ \A i \in 1..cursor' : buf'[i] = captured + k + i
      <4>1. 1 \in 1..(BufLen + 1)
        BY <1>0
      <4>2. \A i \in 1..BufLen : 1 <= i /\ i < 1 + (n - k) =>
              Overwritten(Filled(n), 1, Rest(n))[i] = Rest(n)[i - 1 + 1]
        BY <1>0, <2>2, <2>a DEF Overwritten
      <4>3. \A i \in 1..(n - k) : i \in 1..BufLen /\ i < 1 + (n - k) /\ i - 1 + 1 = i
        BY <1>0, <2>a
      <4> QED BY <2>2, <2>5, <4>2, <4>3 DEF EncodeOverfull
    <3>4. SamplesInv'
      <4>1. /\ captured' = captured + k + cursor' /\ cursor' \in Nat /\ k \in Nat
            /\ captured' = captured + k + cursor' + 0 /\ 0 \in Nat
            /\ {} = (captured + k + cursor' + 1)..captured'
        BY <1>0, <1>1, <2>a, <3>3
      <4>2. BroadcastsBut(Filled(n), {})
        BY <2>5 DEF EncodeOverfull, Broadcasts
      <4>3. BroadcastsBut(Filled(n), (captured + k + cursor' + 1)..captured')
        BY <4>1, <4>2
      <4> QED BY <1>1, <2>4, <3>1, <3>3, <4>1, <4>3, FrameStep DEF CaptureInv
    <3>5. played' \in Seq(Nat)
      BY <2>5, <3>1, BroadcastType DEF CaptureInv, EncodeOverfull, Broadcasts
    <3>6. cursor' \in 0..(BufLen - 1)
      BY <1>0, <2>0, <2>a, <3>3 DEF k
    <3> QED BY <1>3, <3>2, <3>4, <3>5, <3>6
  <2>6. CASE EncodeOverfullFails(n)
    <3>1. SamplesInv'
      <4>1. /\ UNCHANGED <<played, cursor>> /\ buf' = Filled(n)
            /\ lost' = lost \union ((captured + 1)..captured')
        BY <1>1, <2>6 DEF EncodeOverfullFails, Samples
      <4>2. captured' \in Nat /\ captured <= captured'
        BY <1>0, <1>1
      <4> QED BY <1>1, <2>4, <4>1, <4>2, LossStep DEF CaptureInv
    <3> QED BY <1>0, <1>3, <2>3, <2>6, <3>1 DEF EncodeOverfullFails
  <2> QED BY <1>5, <2>5, <2>6
<1> QED BY <1>4, <1>5 DEF CaptureOpus

\* What the actions besides CaptureOpus have in common: buf stays.
LEMMA TypeStep ==
  ASSUME CaptureInv, SamplesInv', buf' = buf, cursor' \in {0, cursor},
         played' \in Seq(Nat), overtaken' \in BOOLEAN,
         opus' \in BOOLEAN, clients' \in BOOLEAN, captured' \in 0..MaxSamples
  PROVE  CaptureInv'
<1>1. MaxSamples \in Nat /\ BufLen \in Nat \ {0}
  BY CaptureAssumption
<1>2. \A i \in 1..Len(played') : played'[i] \in 1..MaxSamples
  BY <1>1 DEF SamplesInv, PlayedOnce
<1>3. played' \in Seq(1..MaxSamples)
  BY <1>1, <1>2, PlayedType
<1>4. lost' \subseteq 1..MaxSamples
  <2>1. lost' \subseteq 1..captured'
    BY DEF SamplesInv, Accounted
  <2> QED BY <1>1, <2>1
<1> QED BY <1>1, <1>3, <1>4 DEF CaptureInv, TypeOK

LEMMA CapturePCMStep ==
  ASSUME CaptureInv, NEW n \in ChunkSizes, CapturePCM(n)
  PROVE  CaptureInv'
<1>0. /\ n \in Nat \ {0} /\ MaxSamples \in Nat /\ BufLen \in Nat
      /\ cursor \in Nat /\ captured \in Nat /\ played \in Seq(Nat) /\ Len(played) \in Nat
      /\ TypeOK /\ SamplesInv
  BY CaptureAssumption, PlayedIsSeq DEF CaptureInv
<1>1. /\ captured' = captured + n /\ captured' <= MaxSamples
      /\ UNCHANGED <<buf, cursor>> /\ BroadcastsBut(Chunk(n), {})
      /\ overtaken' = (overtaken \/ cursor > 0)
  BY DEF CapturePCM, Captures, SendPCM, Broadcasts
<1>2. /\ Chunk(n) \in Seq(Nat) /\ Len(Chunk(n)) = n
      /\ \A i \in 1..n : Chunk(n)[i] = captured + i
  BY <1>0, ChunkIs
<1>3. played' \in Seq(Nat)
  BY <1>0, <1>1, <1>2, BroadcastType
<1> SUFFICES SamplesInv'
  <2>1. overtaken' \in BOOLEAN
    BY <1>1
  <2>2. opus' \in BOOLEAN /\ clients' \in BOOLEAN
    BY <1>0 DEF CapturePCM, TypeOK
  <2>3. captured' \in 0..MaxSamples /\ cursor' \in {0, cursor} /\ buf' = buf
    BY <1>0, <1>1
  <2> QED BY <1>3, <2>1, <2>2, <2>3, TypeStep
<1>4. CASE cursor = 0
  <2>1. overtaken' = overtaken
    BY <1>0, <1>1, <1>4 DEF TypeOK
  <2>2. /\ captured' = captured + n + cursor' + 0 /\ cursor' = 0 /\ 0 \in Nat
        /\ {} = (captured + n + cursor' + 1)..captured'
        /\ \A i \in (cursor + 1)..(cursor + n) : Chunk(n)[i] = captured + i - cursor
    BY <1>0, <1>1, <1>2, <1>4
  <2>3. BroadcastsBut(Chunk(n), (captured + n + cursor' + 1)..captured')
    BY <1>1, <2>2
  <2> QED BY <1>0, <1>1, <1>2, <1>4, <2>1, <2>2, <2>3, FrameStep
<1>5. CASE cursor > 0
  <2>1. overtaken'
    BY <1>1, <1>5
  <2>2. KeptInOrder'
    BY <1>0, <1>1 DEF SamplesInv, KeptInOrder
  <2> DEFINE New == (captured + 1)..captured'
  <2>a. /\ lost \subseteq 1..captured
        /\ Range(played) \union KeptSet = (1..captured) \ lost
    BY <1>0 DEF SamplesInv, Accounted
  <2>b. Range(Chunk(n)) = New
    BY <1>0, <1>1, ChunkRange DEF Samples
  <2>c. KeptSet' = KeptSet
    BY <1>1 DEF KeptSet
  <2>d. captured \in Nat /\ captured' \in Nat /\ captured <= captured'
        /\ (1..captured) \intersect New = {}
    BY <1>0, <1>1
  <2> HIDE DEF New
  <2>3. CASE played' = played /\ lost' = lost \union Range(Chunk(n))
    <3>1. PlayedOnce' /\ PlayedInOrder'
      BY <1>0, <1>1, <2>1, <2>3 DEF SamplesInv, PlayedOnce, PlayedInOrder
    <3>2. Range(played') \union KeptSet' = (((1..captured) \ lost) \union New) \ New
      BY <2>3, <2>a, <2>c, <2>d
    <3>3. /\ lost \union New \subseteq 1..captured'
          /\ Range(played') \union KeptSet' = (1..captured') \ (lost \union New)
      BY <2>a, <2>d, <3>2, AccountedStep DEF New
    <3> QED BY <2>2, <2>3, <2>b, <3>1, <3>3 DEF SamplesInv, Accounted
  <2>4. CASE played' = played \o Chunk(n) /\ lost' = lost \union {}
    <3>0. /\ Len(played \o Chunk(n)) = Len(played) + Len(Chunk(n))
          /\ \A i \in 1..(Len(played) + Len(Chunk(n))) : (played \o Chunk(n))[i] =
               IF i <= Len(played) THEN played[i] ELSE Chunk(n)[i - Len(played)]
      BY <1>0, <1>2, ConcatProperties
    <3>1. /\ Len(played') = Len(played) + n
          /\ \A i \in 1..Len(played') : played'[i] =
               IF i <= Len(played) THEN played[i] ELSE Chunk(n)[i - Len(played)]
      BY <1>2, <2>4, <3>0
    <3>2. \A i \in 1..Len(played') :
            IF i <= Len(played) THEN i \in 1..Len(played) /\ played'[i] = played[i]
                                ELSE played'[i] = captured + i - Len(played)
      BY <1>0, <1>2, <3>1, SMTT(30)
    <3>3. PlayedOnce'
      <4>1. ASSUME NEW i \in 1..Len(played')
            PROVE  /\ played'[i] \in 1..captured'
                   /\ \A j \in 1..cursor' : played'[i] # buf'[j]
        <5>1. CASE i <= Len(played)
          BY <1>0, <1>1, <3>1, <3>2, <5>1 DEF SamplesInv, PlayedOnce
        <5>2. CASE i > Len(played)
          <6>1. played'[i] > captured /\ played'[i] <= captured' /\ played'[i] \in Nat
            BY <1>0, <1>1, <3>1, <3>2, <5>2
          <6> QED BY <1>0, <1>1, <6>1 DEF SamplesInv, KeptInOrder
        <5> QED BY <1>0, <3>1, <5>1, <5>2
      <4>2. ASSUME NEW i \in 1..Len(played'), NEW j \in 1..Len(played'), i # j
            PROVE  played'[i] # played'[j]
        <5>1. CASE i <= Len(played) /\ j <= Len(played)
          BY <1>0, <3>2, <4>2, <5>1 DEF SamplesInv, PlayedOnce
        <5>2. CASE i <= Len(played) /\ j > Len(played)
          BY <1>0, <3>1, <3>2, <5>2 DEF SamplesInv, PlayedOnce
        <5>3. CASE i > Len(played) /\ j <= Len(played)
          BY <1>0, <3>1, <3>2, <5>3 DEF SamplesInv, PlayedOnce
        <5>4. CASE i > Len(played) /\ j > Len(played)
          BY <1>0, <3>1, <3>2, <4>2, <5>4
        <5> QED BY <1>0, <3>1, <5>1, <5>2, <5>3, <5>4
      <4> QED BY <4>1, <4>2 DEF PlayedOnce
    <3>4. Range(played') = Range(played) \union New
      BY <1>0, <1>2, <2>4, <2>b, RangeConcatenation
    <3>5. Range(played') \union KeptSet' = (((1..captured) \ lost) \union New) \ {}
      BY <2>a, <2>c, <3>4
    <3>6. /\ lost \union {} \subseteq 1..captured'
          /\ Range(played') \union KeptSet' = (1..captured') \ (lost \union {})
      BY <2>a, <2>d, <3>5, AccountedStep DEF New
    <3>7. Accounted'
      BY <2>4, <3>6 DEF Accounted
    <3>8. PlayedInOrder'
      BY <2>1 DEF PlayedInOrder
    <3> QED BY <2>2, <3>3, <3>7, <3>8 DEF SamplesInv
  <2> QED BY <1>1, <2>3, <2>4 DEF BroadcastsBut
<1> QED BY <1>0, <1>4, <1>5

LEMMA KeptIs ==
  ASSUME CaptureInv
  PROVE  /\ Kept \in Seq(Nat) /\ Len(Kept) = cursor
         /\ \A i \in 1..cursor : Kept[i] = buf[i]
<1>0. BufLen \in Nat /\ cursor \in 0..BufLen /\ buf \in [1..BufLen -> Nat]
  BY CaptureAssumption DEF CaptureInv, TypeOK
<1>1. \A i \in 1..cursor : buf[i] \in Nat
  BY <1>0
<1>2. 1 \in Int /\ cursor \in Int
  BY <1>0
<1>3. /\ Kept \in Seq(Nat) /\ Len(Kept) = IF 1 <= cursor THEN cursor - 1 + 1 ELSE 0
      /\ \A i \in 1..(cursor - 1 + 1) : Kept[i] = buf[1 + i - 1]
  BY <1>1, <1>2, SubSeqProperties DEF Kept
<1> QED BY <1>0, <1>3

LEMMA CaptureSilentStartStep ==
  ASSUME CaptureInv, NEW n \in ChunkSizes, CaptureSilentStart(n)
  PROVE  CaptureInv'
<1>0. /\ MaxSamples \in Nat /\ BufLen \in Nat \ {0} /\ cursor \in 0..BufLen
      /\ captured \in Nat /\ n \in Nat /\ cursor \in Nat /\ TypeOK /\ SamplesInv
      /\ buf \in [1..BufLen -> Nat]
  BY CaptureAssumption, PlayedIsSeq DEF CaptureInv, TypeOK
<1>1. /\ Kept \in Seq(Nat) /\ Len(Kept) = cursor
      /\ \A i \in 1..cursor : Kept[i] = buf[i]
  BY KeptIs
<1>2. /\ captured' = captured + n /\ captured' <= MaxSamples
      /\ UNCHANGED <<buf, opus, clients, overtaken>>
  BY DEF CaptureSilentStart, Captures
<1>3. captured' \in 0..MaxSamples /\ captured' \in Nat /\ captured <= captured'
  BY <1>0, <1>2
<1>4. CASE BroadcastsBut(Kept, Samples(n)) /\ cursor' = 0
  <2>1. played' \in Seq(Nat)
    BY <1>0, <1>1, <1>4, BroadcastType
  <2>2. /\ captured' = captured + 0 + cursor' + n /\ 0 \in Nat /\ Len(Kept) = cursor + 0
        /\ \A i \in (cursor + 1)..(cursor + 0) : Kept[i] = captured + i - cursor
        /\ \A i \in 1..cursor' : buf'[i] = captured + 0 + i
        /\ cursor' \in Nat
    BY <1>0, <1>1, <1>2, <1>4
  <2>3. Samples(n) = (captured + 0 + cursor' + 1)..captured'
    BY <1>0, <1>2, <1>4 DEF Samples
  <2>a. BroadcastsBut(Kept, (captured + 0 + cursor' + 1)..captured')
    BY <1>4, <2>3
  <2>4. SamplesInv'
    BY <1>0, <1>1, <1>2, <1>3, <2>2, <2>a, FrameStep
  <2> QED BY <1>0, <1>2, <1>3, <1>4, <2>1, <2>4, TypeStep DEF TypeOK
<1>5. CASE lost' = lost \union Samples(n) /\ UNCHANGED <<cursor, played>>
  <2>1. Samples(n) = (captured + 1)..captured'
    BY <1>2 DEF Samples
  <2>2. SamplesInv'
    BY <1>0, <1>2, <1>3, <1>5, <2>1, LossStep
  <2>3. played' \in Seq(Nat)
    BY <1>5, PlayedIsSeq DEF CaptureInv
  <2> QED BY <1>0, <1>2, <1>3, <1>5, <2>2, <2>3, TypeStep DEF TypeOK
<1> QED BY <1>4, <1>5 DEF CaptureSilentStart, FlushRaw, Kept

LEMMA CaptureInvStep == CaptureInv /\ [Next]_vars => CaptureInv'
<1> SUFFICES ASSUME CaptureInv, [Next]_vars PROVE CaptureInv'
  OBVIOUS
<1>0. TypeOK /\ SamplesInv /\ played \in Seq(Nat) /\ captured \in Nat /\ MaxSamples \in Nat
  BY PlayedIsSeq, CaptureAssumption DEF CaptureInv
<1>1. ASSUME NEW n \in ChunkSizes, CaptureOpus(n) PROVE CaptureInv'
  BY <1>1, CaptureOpusStep
<1>2. ASSUME NEW n \in ChunkSizes, CapturePCM(n) PROVE CaptureInv'
  BY <1>2, CapturePCMStep
<1>3. ASSUME NEW n \in ChunkSizes, CaptureForNobody(n) PROVE CaptureInv'
  <2>1. n \in Nat
    BY CaptureAssumption
  <2>2. captured' \in 0..MaxSamples /\ captured' \in Nat /\ captured <= captured'
    BY <1>0, <1>3, <2>1 DEF CaptureForNobody, Captures
  <2>3. /\ UNCHANGED <<buf, cursor, played, overtaken, opus, clients>>
        /\ lost' = lost \union ((captured + 1)..captured')
    BY <1>3 DEF CaptureForNobody, Captures, Samples
  <2>4. SamplesInv'
    BY <1>0, <2>2, <2>3, LossStep
  <2> QED BY <1>0, <2>2, <2>3, <2>4, TypeStep DEF TypeOK
<1>4. ASSUME NEW n \in ChunkSizes, CaptureSilentStart(n) PROVE CaptureInv'
  BY <1>4, CaptureSilentStartStep
<1>5. CASE SetOpus \/ ClientsComeOrGo \/ UNCHANGED vars
  <2>1. UNCHANGED <<buf, cursor, captured, played, lost, overtaken>>
    BY <1>5 DEF SetOpus, ClientsComeOrGo, vars
  <2>2. SamplesInv'
    BY <1>0, <2>1 DEF SamplesInv, KeptInOrder, PlayedOnce, PlayedInOrder, Accounted, KeptSet
  <2>3. opus' \in BOOLEAN /\ clients' \in BOOLEAN
    BY <1>0, <1>5 DEF SetOpus, ClientsComeOrGo, vars, TypeOK
  <2> QED BY <1>0, <2>1, <2>2, <2>3, TypeStep DEF TypeOK
<1> QED BY <1>1, <1>2, <1>3, <1>4, <1>5 DEF Next

LEMMA CaptureInvInit == Init => CaptureInv
<1> SUFFICES ASSUME Init PROVE CaptureInv
  OBVIOUS
<1>1. MaxSamples \in Nat /\ BufLen \in Nat \ {0} /\ Len(<<>>) = 0
  BY CaptureAssumption
<1>2. TypeOK
  <2>1. buf \in [1..BufLen -> 0..MaxSamples] /\ cursor \in 0..(BufLen - 1)
        /\ captured \in 0..MaxSamples
    BY <1>1 DEF Init
  <2>2. played \in Seq(1..MaxSamples)
    BY EmptySeq DEF Init
  <2> QED BY <2>1, <2>2 DEF Init, TypeOK
<1>3. Accounted
  <2>1. Range(<<>>) = {} /\ KeptSet = {}
    <3>1. \A i \in Nat : i \notin 1..cursor
      BY DEF Init
    <3> QED BY <3>1 DEF Range, KeptSet, Init
  <2> QED BY <2>1 DEF Init, Accounted
<1>4. SamplesInv
  BY <1>1, <1>3 DEF Init, SamplesInv, KeptInOrder, PlayedOnce, PlayedInOrder
<1> QED BY <1>2, <1>4 DEF CaptureInv

LEMMA CaptureInvHolds == Spec => []CaptureInv
BY CaptureInvInit, CaptureInvStep, PTL DEF Spec

-------------------------------------------------------------------------------
(* The theorems.                                                               *)

\* For every length of the buffer and all chunks not longer than it: the cursor stays
\* inside the buffer, which is never left full (OpusEncoder.cursor).
THEOREM CaptureTypeCorrect == Spec => []TypeOK
<1>1. CaptureInv => TypeOK
  BY DEF CaptureInv
<1> QED BY <1>1, CaptureInvHolds, PTL

\* The samples that were played, and behind them those that are kept.
LEMMA AllIs ==
  ASSUME CaptureInv
  PROVE  /\ Len(played) \in Nat /\ cursor \in Nat /\ captured \in Nat
         /\ played \o Kept \in Seq(Nat) /\ Len(played \o Kept) = Len(played) + cursor
         /\ \A i \in 1..Len(played) : (played \o Kept)[i] = played[i]
         /\ \A i \in (Len(played) + 1)..(Len(played) + cursor) :
              i - Len(played) \in 1..cursor /\ (played \o Kept)[i] = buf[i - Len(played)]
<1>0. /\ BufLen \in Nat /\ cursor \in 0..BufLen /\ captured \in Nat
      /\ buf \in [1..BufLen -> Nat] /\ played \in Seq(Nat) /\ Len(played) \in Nat
  BY CaptureAssumption, PlayedIsSeq DEF CaptureInv, TypeOK
<1>1. /\ Kept \in Seq(Nat) /\ Len(Kept) = cursor
      /\ \A i \in 1..cursor : Kept[i] = buf[i]
  BY KeptIs
<1>2. /\ played \o Kept \in Seq(Nat) /\ Len(played \o Kept) = Len(played) + Len(Kept)
      /\ \A i \in 1..(Len(played) + Len(Kept)) : (played \o Kept)[i] =
           IF i <= Len(played) THEN played[i] ELSE Kept[i - Len(played)]
  BY <1>0, <1>1, ConcatProperties
<1> QED BY <1>0, <1>1, <1>2

\* For every length of the buffer: what was captured is played or kept, but for exactly what
\* failed or was dropped (encode_f32, flush_raw, and the process callback's silent chunks).
THEOREM AllIsPlayed == Spec => []PlaysAll
<1>1. ASSUME CaptureInv PROVE PlaysAll
  <2>0. /\ played \in Seq(Nat) /\ buf \in [1..BufLen -> Nat] /\ cursor \in 0..BufLen
    BY <1>1, CaptureAssumption, PlayedIsSeq DEF CaptureInv, TypeOK
  <2>1. /\ Kept \in Seq(Nat) /\ Len(Kept) = cursor
        /\ \A i \in 1..cursor : Kept[i] = buf[i]
    BY <1>1, KeptIs
  <2>2. Range(Kept) = KeptSet
    <3>1. Range(Kept) = {Kept[i] : i \in 1..cursor}
      BY <2>1, RangeEquality
    <3> QED BY <2>1, <3>1 DEF KeptSet
  <2>3. Range(played \o Kept) = Range(played) \union Range(Kept)
    BY <2>0, <2>1, RangeConcatenation
  <2> QED BY <1>1, <2>2, <2>3 DEF PlaysAll, CaptureInv, SamplesInv, Accounted
<1> QED BY <1>1, CaptureInvHolds, PTL

\* For every length of the buffer, whatever fails and however the codec changes: no
\* sample is played twice or made up, and none after a later one unless PCM overtook.
THEOREM EachIsPlayedOnce == Spec => []PlaysOnce
<1>1. ASSUME CaptureInv,
             NEW i \in 1..(Len(played) + cursor), NEW j \in 1..(Len(played) + cursor)
      PROVE  LET all == played \o Kept IN
             /\ all[i] \in 1..captured
             /\ i < j => all[i] # all[j]
             /\ ~overtaken /\ i < j => all[i] < all[j]
  <2> DEFINE all == played \o Kept
             M == Len(played)
  <2>0. KeptInOrder /\ PlayedOnce /\ PlayedInOrder /\ M \in Nat /\ cursor \in Nat /\ captured \in Nat
    BY <1>1, AllIs DEF CaptureInv, SamplesInv
  <2>1. ASSUME NEW k \in 1..(M + cursor)
        PROVE  \/ k \in 1..M /\ all[k] = played[k]
               \/ k > M /\ k - M \in 1..cursor /\ all[k] = buf[k - M]
    <3>1. k \in 1..M \/ k \in (M + 1)..(M + cursor)
      BY <2>0
    <3> QED BY <1>1, <2>0, <3>1, AllIs
  <2>2. all[i] \in 1..captured
    BY <2>0, <2>1 DEF KeptInOrder, PlayedOnce
  <2>a. i \in 1..(M + cursor) /\ j \in 1..(M + cursor)
    OBVIOUS
  <2> HIDE DEF all, M
  <2>3. ASSUME i < j
        PROVE all[i] # all[j] /\ (~overtaken => all[i] < all[j])
    <3>1. CASE j \in 1..M /\ all[j] = played[j]
      <4>1. i \in 1..M /\ all[i] = played[i]
        BY <2>0, <2>1, <2>3, <3>1
      <4> QED BY <2>0, <2>3, <3>1, <4>1 DEF PlayedOnce, PlayedInOrder, M
    <3>2. CASE j > M /\ j - M \in 1..cursor /\ all[j] = buf[j - M]
      <4>1. CASE i \in 1..M /\ all[i] = played[i]
        BY <2>0, <3>2, <4>1 DEF PlayedOnce, PlayedInOrder, KeptInOrder, M
      <4>2. CASE i > M /\ i - M \in 1..cursor /\ all[i] = buf[i - M]
        <5>1. i - M < j - M
          BY <2>0, <2>3
        <5>2. buf[i - M] < buf[j - M] /\ buf[i - M] \in 1..captured /\ buf[j - M] \in 1..captured
          BY <2>0, <3>2, <4>2, <5>1 DEF KeptInOrder
        <5> QED BY <2>0, <3>2, <4>2, <5>2
      <4>3. \/ i \in 1..M /\ all[i] = played[i]
            \/ i > M /\ i - M \in 1..cursor /\ all[i] = buf[i - M]
        BY <2>1, <2>a
      <4> QED BY <4>1, <4>2, <4>3
    <3> QED BY <2>1, <2>a, <3>1, <3>2
  <2> QED BY <2>2, <2>3 DEF all
<1>2. ASSUME CaptureInv PROVE PlaysOnce
  <2> DEFINE all == played \o Kept
  <2>1. DOMAIN all = 1..(Len(played) + cursor)
    <3>1. all \in Seq(Nat) /\ Len(all) = Len(played) + cursor
      BY <1>2, AllIs
    <3> HIDE DEF all
    <3> QED BY <3>1, LenProperties
  <2>2. \A i, j \in 1..(Len(played) + cursor) : i # j => i < j \/ j < i
    BY <1>2, AllIs
  <2> QED BY <1>1, <1>2, <2>1, <2>2 DEF PlaysOnce
<1> QED BY <1>2, CaptureInvHolds, PTL
===============================================================================
