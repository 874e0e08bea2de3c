----------------------------- MODULE AudioCapture -----------------------------
(***************************************************************************)
(* The audio stream's process callback (mrial_server/src/audio/linux.rs) and  *)
(* OpusEncoder (encoder.rs), which collects the captured chunks in a buffer   *)
(* of fixed length, encodes it whenever it is full and keeps the rest. A      *)
(* sample is the number of its capture; what Opus does to it is left out.     *)
(***************************************************************************)
EXTENDS Integers, Sequences, Functions

CONSTANTS
  BufLen,       \* samples in OpusEncoder.buf: ENCODE_FRAME_SIZE * channels
  ChunkSizes,   \* samples PipeWire may hand over at once
  MaxSamples    \* bound: samples captured

\* encode_f32 asserts that a chunk is no longer than the buffer.
ASSUME CaptureAssumption ==
  BufLen \in Nat \ {0} /\ ChunkSizes \subseteq 1..BufLen /\ MaxSamples \in Nat

VARIABLES
  buf, cursor,  \* the fields of OpusEncoder; buf[1..cursor] is what it keeps
  opus,         \* ServerMeta.opus
  clients,      \* some app client is connected
  captured,     \* samples captured so far
  played,       \* history: the samples broadcast, frame after frame
  lost,         \* history: the samples of chunks and frames that failed or were dropped
  overtaken     \* history: PCM was broadcast while the buffer kept samples

vars == <<buf, cursor, opus, clients, captured, played, lost, overtaken>>

Init ==
  /\ buf = [i \in 1..BufLen |-> 0] /\ cursor = 0
  /\ opus = TRUE /\ clients = FALSE
  /\ captured = 0 /\ played = <<>>
  /\ lost = {} /\ overtaken = FALSE

Chunk(n) == [i \in 1..n |-> captured + i]
Samples(n) == (captured + 1)..(captured + n)

\* b with s copied to the places from onwards.
Overwritten(b, from, s) ==
  [i \in 1..BufLen |-> IF i \in from..(from + Len(s) - 1) THEN s[i - from + 1] ELSE b[i]]

\* broadcast_app_audio; the symmetric key may be gone, which is only logged. Some samples
\* may be dropped besides.
BroadcastsBut(frame, dropped) ==
  \/ played' = played \o frame /\ lost' = lost \union dropped
  \/ lost' = lost \union dropped \union Range(frame) /\ UNCHANGED played

Broadcasts(frame) == BroadcastsBut(frame, {})

-------------------------------------------------------------------------------
(* encode_f32.                                                                 *)

Fits(n) == cursor + n <= BufLen

KeepChunk(n) ==
  /\ cursor + n < BufLen
  /\ buf' = Overwritten(buf, cursor + 1, Chunk(n))
  /\ cursor' = cursor + n
  /\ UNCHANGED <<played, lost>>

\* An error of the encoder loses the frame: as when it is not broadcast.
EncodeFull(n) ==
  /\ cursor + n = BufLen
  /\ buf' = Overwritten(buf, cursor + 1, Chunk(n))
  /\ cursor' = 0
  /\ Broadcasts(buf')

Filled(n) == Overwritten(buf, cursor + 1, SubSeq(Chunk(n), 1, BufLen - cursor))

\* Mutant of Rest: one sample too few.
RestOffByOne(n) == SubSeq(Chunk(n), BufLen - cursor + 2, n)

\* The samples that did not fit.
Rest(n) == SubSeq(Chunk(n), BufLen - cursor + 1, n)

EncodeOverfull(n) ==
  /\ ~Fits(n)
  /\ buf' = Overwritten(Filled(n), 1, Rest(n))
  /\ cursor' = Len(Rest(n))
  /\ Broadcasts(Filled(n))

\* The error returns before the cursor moves: the rest of the chunk is dropped, and
\* the samples that completed the frame are overwritten by the next ones.
EncodeOverfullFails(n) ==
  /\ ~Fits(n)
  /\ buf' = Filled(n)
  /\ lost' = lost \union Samples(n)
  /\ UNCHANGED <<cursor, played>>

-------------------------------------------------------------------------------
(* The callback.                                                               *)

Captures(n) == captured + n <= MaxSamples /\ captured' = captured + n

CaptureOpus(n) ==
  /\ opus /\ clients
  /\ Captures(n)
  /\ KeepChunk(n) \/ EncodeFull(n) \/ EncodeOverfull(n) \/ EncodeOverfullFails(n)
  /\ UNCHANGED <<opus, clients, overtaken>>

\* The encoder is passed by, with what it keeps.
SendPCM(n) ==
  /\ Broadcasts(Chunk(n))
  /\ overtaken' = (overtaken \/ cursor > 0)
  /\ UNCHANGED <<buf, cursor>>

\* opus and the clients are asked for one after the other, so a client may connect
\* after the first time it was asked for and before the second.
CapturePCM(n) ==
  /\ Captures(n)
  /\ SendPCM(n)
  /\ \/ ~opus /\ clients /\ UNCHANGED clients
     \/ opus /\ ~clients /\ clients' = TRUE
  /\ UNCHANGED opus

CaptureForNobody(n) ==
  /\ ~clients
  /\ Captures(n)
  /\ lost' = lost \union Samples(n)
  /\ UNCHANGED <<buf, cursor, opus, clients, played, overtaken>>

\* Mutant of FlushRaw: the buffer is flushed but not emptied.
FlushAndKeep(n) == BroadcastsBut(SubSeq(buf, 1, cursor), Samples(n)) /\ UNCHANGED cursor

\* What the encoder keeps goes out as PCM; the n new samples do not.
FlushRaw(n) == BroadcastsBut(SubSeq(buf, 1, cursor), Samples(n)) /\ cursor' = 0

\* A chunk whose first 32 bytes are zero is taken for silence and dropped, whatever follows
\* them.
CaptureSilentStart(n) ==
  /\ Captures(n)
  /\ \/ opus /\ FlushRaw(n)
     \/ ~opus /\ lost' = lost \union Samples(n) /\ UNCHANGED <<cursor, played>>
  /\ UNCHANGED <<buf, opus, clients, overtaken>>

\* set_meta.
SetOpus ==
  /\ opus' = ~opus
  /\ UNCHANGED <<buf, cursor, clients, captured, played, lost, overtaken>>

ClientsComeOrGo ==
  /\ clients' = ~clients
  /\ UNCHANGED <<buf, cursor, opus, captured, played, lost, overtaken>>

Next ==
  \/ \E n \in ChunkSizes : CaptureOpus(n) \/ CapturePCM(n) \/ CaptureForNobody(n)
                            \/ CaptureSilentStart(n)
  \/ SetOpus \/ ClientsComeOrGo

Spec == Init /\ [][Next]_vars

-------------------------------------------------------------------------------
(* Properties.                                                                 *)

\* The types of the encoder's state; the buffer is never left full.
TypeOK ==
  /\ buf \in [1..BufLen -> 0..MaxSamples]
  /\ cursor \in 0..(BufLen - 1)
  /\ opus \in BOOLEAN /\ clients \in BOOLEAN
  /\ captured \in 0..MaxSamples
  /\ played \in Seq(1..MaxSamples)
  /\ lost \subseteq 1..MaxSamples /\ overtaken \in BOOLEAN

Kept == SubSeq(buf, 1, cursor)

\* Whatever fails and is dropped, and however often the codec changes: what is broadcast
\* or kept is every captured sample but exactly those of the chunks and frames that failed
\* or were dropped. None is lost where two chunks meet in a frame, none that was kept goes
\* with a chunk that is dropped behind it, and none that failed is broadcast later.
PlaysAll == Range(played \o Kept) = (1..captured) \ lost

\* However often the codec changes, clients come and go or the encoder fails: no sample
\* is broadcast twice, nor one that was overwritten or is from nowhere; and unless PCM
\* overtook what the buffer kept, they are broadcast in the order of their capture.
PlaysOnce ==
  LET all == played \o Kept IN
  \A i, j \in DOMAIN all :
    /\ all[i] \in 1..captured
    /\ i # j => all[i] # all[j]
    /\ ~overtaken /\ i < j => all[i] < all[j]
===============================================================================
