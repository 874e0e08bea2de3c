------------------------------ MODULE VideoStream ------------------------------
(***************************************************************************)
(* Video from the server's broadcast task to the player's frame assembler:  *)
(* PacketDeployer slices a frame, AppVideoBroadcaster sends each subpacket   *)
(* and keeps a copy for retransmission, the network loses, duplicates and    *)
(* delays datagrams, NALAssembler puts frames together and asks for what is  *)
(* missing, AppConnection::retransmit_frame answers from the copies.         *)
(***************************************************************************)
EXTENDS NALAssembler, SequencesExt

CONSTANTS
  Window,       \* how far the network reorders: 1 is FIFO
  MaxCopies,    \* how often it may deliver one datagram: 1 is no duplicates
  MaxInFlight,  \* bound: datagrams in flight to the player, more are dropped
  CacheFrames   \* frames sent within SUBPACKET_CACHE_LIFETIME, never drained

ASSUME VideoStreamAssumption ==
  /\ Window \in Nat \ {0}
  /\ MaxCopies \in Nat
  /\ MaxInFlight \in Nat
  /\ CacheFrames \in Nat

VARIABLES
  frames,   \* [size, key] of the frames deployed so far, by sequence number
  unsent,   \* subpackets of the last of them that are still to be sent
  cache,    \* subpacket_cache: the copies that answer requests
  net       \* datagrams on their way to the player, oldest first

serverVars == <<frames, unsent, cache>>
vars == <<assemblerVars, serverVars, net>>

Init ==
  /\ AssemblerInit
  /\ frames = <<>>
  /\ unsent = 0
  /\ cache = {}
  /\ net = <<>>

-------------------------------------------------------------------------------
(* The server.                                                                 *)

\* slice_and_send_variant starts on an encoded and encrypted frame.  The first
\* picture of the encoder is a key frame.
DeployFrame(size, key) ==
  /\ unsent = 0
  /\ Len(frames) < MaxFrames
  /\ frames = <<>> => key
  /\ frames' = Append(frames, [size |-> size, key |-> key])
  /\ unsent' = SubpacketCount(size)
  /\ UNCHANGED <<cache, net, assemblerVars>>

\* The subpacket slice_and_send sends next, from the highest number down to 0.
NextFragment ==
  LET last == Len(frames) IN
  [seq |-> last, size |-> frames[last].size, rp |-> unsent - 1,
   key |-> frames[last].key, rnal |-> FALSE]

\* Mutant of CacheKey: the subpackets of a frame replace one another.
CacheKeyOfFrame(f) == <<IdOf(f.seq), f.size>>

\* subpacket_key
CacheKey(f) == <<IdOf(f.seq), f.size, f.rp>>

Cached(f) ==
  {c \in cache : CacheKey(c) # CacheKey(f)} \union {[f EXCEPT !.rnal = TRUE]}

\* What the network makes of datagrams s that are sent one after the other.
Transmit(s) == net' = IF Len(net \o s) <= MaxInFlight THEN net \o s ELSE net

\* AppVideoBroadcaster::broadcast holds the client table's read lock while it
\* sends the subpacket and caches it; retransmit_frame holds the write lock.
BroadcastSubpacket(copies) ==
  /\ unsent > 0
  /\ Transmit([i \in 1..copies |-> NextFragment])
  /\ cache' = Cached(NextFragment)
  /\ unsent' = unsent - 1
  /\ UNCHANGED <<frames, assemblerVars>>

\* The copies asked for: those not cached are left out.
Answers(r) ==
  {c \in cache : /\ IdOf(c.seq) = r.id
                 /\ c.size = r.size
                 /\ c.rp \in r.ids}

\* The ids are iterated in no particular order, and answers may get lost.
Arrangements(S) ==
  {s \in UNION {[1..n -> S] : n \in 0..Cardinality(S)} : IsInjective(s)}

RetransmitFrame ==
  /\ requests # <<>>
  /\ requests' = Tail(requests)
  /\ \E s \in Arrangements(Answers(Head(requests))) : Transmit(s)
  /\ UNCHANGED <<asm, work, assembled, arrived, panicked, serverVars>>

\* drain_subpacket_cache: what was sent up to frame `old' is too old.
DrainSubpacketCache(old) ==
  /\ old <= Len(frames) - CacheFrames
  /\ cache' = {c \in cache : c.seq > old}
  /\ cache' # cache
  /\ UNCHANGED <<frames, unsent, net, assemblerVars>>

-------------------------------------------------------------------------------
(* The network and the player.                                                 *)

LoseRequest ==
  /\ requests # <<>>
  /\ requests' = Tail(requests)
  /\ UNCHANGED <<asm, work, assembled, arrived, panicked, serverVars, net>>

\* The player reads a datagram when the queue it got back is worked off.
ReceiveFragment(i) ==
  /\ work = <<>>
  /\ i <= Len(net) /\ i <= Window
  /\ net' = RemoveAt(net, i)
  /\ Packet(net[i], <<>>)
  /\ UNCHANGED serverVars

Requeue == FeedQueued /\ UNCHANGED <<serverVars, net>>

Expire(rp) == RequestExpires(rp) /\ UNCHANGED <<serverVars, net>>

Next ==
  \/ \E size \in FrameSizes, key \in BOOLEAN : DeployFrame(size, key)
  \/ \E copies \in 0..MaxCopies : BroadcastSubpacket(copies)
  \/ RetransmitFrame
  \/ \E old \in 1..MaxFrames : DrainSubpacketCache(old)
  \/ LoseRequest
  \/ \E i \in 1..Window : ReceiveFragment(i)
  \/ Requeue
  \/ \E rp \in asm.recent : Expire(rp)

Spec == Init /\ [][Next]_vars

-------------------------------------------------------------------------------
(* Properties.                                                                 *)

\* The types of the assembler's, the server's and the network's state.
TypeOK ==
  /\ AssemblerTypeOK
  /\ frames \in Seq([size : FrameSizes, key : BOOLEAN])
  /\ Len(frames) <= MaxFrames
  /\ unsent \in Nat
  /\ cache \subseteq Fragment
  /\ net \in Seq(Fragment)

\* f was cut from one of the deployed frames.
Genuine(f) ==
  /\ f.seq \in DOMAIN frames
  /\ f.size = frames[f.seq].size /\ f.key = frames[f.seq].key
  /\ f.rp < SubpacketCount(f.size)

AllGenuine(s) == \A i \in DOMAIN s : Genuine(s[i])

\* The frame under assembly has the extent of the deployed frame with its id.
ExtentGenuine ==
  asm.id # NoFrame =>
    /\ asm.id \in DOMAIN frames
    /\ asm.size = frames[asm.id].size
    /\ asm.total = SubpacketCount(asm.size)

\* While no frame id comes round again: whatever is under way, postponed or
\* cached was cut from a deployed frame, and so was the frame under assembly.
OnlyGenuine ==
  /\ AllGenuine(net) /\ AllGenuine(work) /\ AllGenuine(asm.queue)
  /\ \A c \in cache : Genuine(c)
  /\ ExtentGenuine

\* A frame as the decoder gets it: decrypt_frame authenticates the assembled
\* bytes and drops a frame in which anything is missing or foreign.
Whole(fr) ==
  /\ fr # <<>> /\ fr[1] \in 1..Len(frames)
  /\ Len(fr) = SubpacketCount(frames[fr[1]].size)
  /\ \A i \in DOMAIN fr : fr[i] = fr[1]

\* Whatever is lost, duplicated, reordered or retransmitted, an assembled frame
\* is exactly one deployed frame (while no frame id comes round again).
AssembledWhole == \A n \in DOMAIN assembled : Whole(assembled[n])

\* No assert and no slice index fails in the receiving thread.
NoPanic == ~panicked

\* Retransmission is only asked for subpackets of the frame under assembly that
\* it still misses: a step that sends a request leaves those ids missing.
AsksOnlyForMissing ==
  [][\A n \in DOMAIN requests' \ DOMAIN requests :
       /\ requests'[n].id = asm'.id
       /\ requests'[n].size = asm'.size
       /\ requests'[n].ids # {} /\ requests'[n].ids \subseteq asm'.remaining]_vars

\* Without reordering and duplication the stream delivers as FrameDelivery says:
\* frames reach the decoder in the order of encoding, none twice, and a frame of
\* which a NAL came is left out only for a later key frame.
Delivery == INSTANCE FrameDelivery WITH
  encoded <- [n \in DOMAIN frames |-> frames[n].key],
  seen <- arrived,
  decoded <- [n \in DOMAIN assembled |-> assembled[n][1]]

DeliversInOrder == Delivery!Spec

\* Nor is anything asked for that was not sent: each id in a request is in
\* the cache, unless its frame is old enough to have been drained.
RequestsWereSent ==
  \A n \in DOMAIN requests : \A rp \in requests[n].ids :
    \/ \E c \in cache : c \in Answers([requests[n] EXCEPT !.ids = {rp}])
    \/ \E k \in 1..(Len(frames) - CacheFrames) : IdOf(k) = requests[n].id
===============================================================================
