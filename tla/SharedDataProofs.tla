---------------------------- MODULE SharedDataProofs ----------------------------
(***************************************************************************)
(* What several tasks or processes share: behind locks (ClientTableLocks) and *)
(* without any (Storage).                                                     *)
(*                                                                            *)
(* ClientTableLocks for every set of players and every number of subpackets:  *)
(* the order in which the locks are taken, and that what retransmit_frame     *)
(* looks up is in the cache. Both follow from which places of a task hold a   *)
(* lock, and which wait for one (OrderInv).                                   *)
(*                                                                            *)
(* Storage for every number of processes, names and commands: what the file   *)
(* holds, and whether it can be read. Both follow from what a process that    *)
(* writes started from, and that it is alone unless there was a conflict      *)
(* (OneWriter).                                                               *)
(***************************************************************************)
EXTENDS ClientTableLocks, Storage, SequenceTheorems, WellFoundedInduction, TLAPS

Entries == [task : Tasks, mode : {"read", "write"}]
LockType == [Locks -> [readers : SUBSET Tasks, writers : SUBSET Tasks, queue : Seq(Entries)]]

\* The tasks in a queue, and that each is in it once.
Waits(q) == {q[i].task : i \in DOMAIN q}
Once(q) == \A i, j \in DOMAIN q : q[i].task = q[j].task => i = j

Failing == {"RemoveFailed"}
AsksTable == {"AskVideo", "AskAudio", "HasClients", "SymKey", "FilterIdle", "Filter",
              "Retransmit", "ShakeUE", "ShakeAE", "Connect", "ClientState", "Mute", "Ping",
              "Pinged", "Disconnect", "AnyLeft"}
AsksCache == {"AskCache", "Drain", "LookUp"}
Sending == {"SendVideo", "SendAudio", "AskCache"}
Answering == {"Answer", "LookUp", "SendCopy"}

\* One task's place fits what it holds and waits for.
PlaceFits(t) ==
  /\ t \in Waits(lock["clients"].queue) => at[t].place \in AsksTable \union Failing
  /\ t \in Waits(lock["subpacket_cache"].queue) => at[t].place \in AsksCache
  /\ Holds(t, "clients") => at[t].place \in Sending \union Answering \union Failing
  /\ Holds(t, "subpacket_cache") => at[t].place \in {"SendCopy"} \union Failing
  /\ at[t].place \in Failing => failed
  /\ t = "Broadcast" /\ at[t].place \in Sending \union Failing
       => t \in lock["clients"].readers
  /\ t = "Events" /\ at[t].place \in Answering \union Failing
       => t \in lock["clients"].writers

\* A writer of the table is alone.
WriterAlone == lock["clients"].writers # {} => lock["clients"].readers = {}

OrderInv ==
  /\ \A l \in Locks : Once(lock[l].queue)
  /\ \A t \in Tasks : PlaceFits(t)
  /\ WriterAlone

-------------------------------------------------------------------------------
(* Queues.                                                                     *)

LEMMA AskedOnce ==
  ASSUME NEW q \in Seq(Entries), NEW e \in Entries, Once(q), e.task \notin Waits(q)
  PROVE  /\ Append(q, e) \in Seq(Entries)
         /\ Once(Append(q, e))
         /\ Waits(Append(q, e)) = Waits(q) \union {e.task}
<1> DEFINE r == Append(q, e)
<1>1. /\ Len(q) \in Nat /\ DOMAIN q = 1..Len(q) /\ DOMAIN r = 1..(Len(q) + 1)
      /\ \A i \in 1..Len(q) : r[i] = q[i]
      /\ r[Len(q) + 1] = e /\ r \in Seq(Entries)
  OBVIOUS
<1> HIDE DEF r
<1>2. Once(r)
  BY <1>1 DEF Once, Waits
<1>3. Waits(r) = Waits(q) \union {e.task}
  BY <1>1 DEF Waits
<1> QED BY <1>1, <1>2, <1>3 DEF r

LEMMA ServedOnce ==
  ASSUME NEW q \in Seq(Entries), Once(q), q # <<>>
  PROVE  /\ Tail(q) \in Seq(Entries)
         /\ Once(Tail(q))
         /\ Waits(Tail(q)) = Waits(q) \ {Head(q).task}
         /\ Head(q).task \in Waits(q)
<1> DEFINE r == Tail(q)
<1>1. /\ Len(q) \in Nat \ {0} /\ DOMAIN q = 1..Len(q) /\ DOMAIN r = 1..(Len(q) - 1)
      /\ \A i \in 1..(Len(q) - 1) : r[i] = q[i + 1]
      /\ Head(q) = q[1] /\ r \in Seq(Entries)
  OBVIOUS
<1> HIDE DEF r
<1>2. Once(r)
  <2>1. ASSUME NEW i \in DOMAIN r, NEW j \in DOMAIN r, r[i].task = r[j].task
        PROVE  i = j
    <3>1. /\ i \in Int /\ j \in Int /\ i + 1 \in DOMAIN q /\ j + 1 \in DOMAIN q
          /\ q[i + 1].task = q[j + 1].task
      BY <1>1, <2>1
    <3>2. i + 1 = j + 1
      BY <3>1 DEF Once
    <3> QED BY <3>1, <3>2
  <2> QED BY <2>1 DEF Once
<1>3. \A i \in 1..(Len(q) - 1) : q[i + 1].task # q[1].task
  BY <1>1 DEF Once
<1>4. \A i \in DOMAIN q : i = 1 \/ (i - 1 \in DOMAIN r /\ r[i - 1] = q[i])
  BY <1>1
<1>5. Waits(r) = Waits(q) \ {q[1].task}
  <2>1. \A i \in DOMAIN r : i + 1 \in DOMAIN q /\ r[i].task = q[i + 1].task /\ r[i].task # q[1].task
    BY <1>1, <1>3
  <2>2. Waits(r) \subseteq Waits(q) \ {q[1].task}
    BY <2>1 DEF Waits
  <2>3. Waits(q) \ {q[1].task} \subseteq Waits(r)
    BY <1>4 DEF Waits
  <2> QED BY <2>2, <2>3
<1>6. q[1].task \in Waits(q)
  BY <1>1 DEF Waits
<1> QED BY <1>1, <1>2, <1>5, <1>6 DEF r

-------------------------------------------------------------------------------
(* What a step of a task does to the order.                                    *)

\* A step of t leaves what the others hold and wait for, and their places.
LEMMA OrderStep ==
  ASSUME OrderInv, NEW t \in Tasks,
         \A s \in Tasks \ {t} : at'[s] = at[s],
         \A l \in Locks :
           /\ Once(lock'[l].queue)
           /\ Waits(lock'[l].queue) \ {t} = Waits(lock[l].queue) \ {t}
           /\ lock'[l].readers \ {t} = lock[l].readers \ {t}
           /\ lock'[l].writers \ {t} = lock[l].writers \ {t},
         failed => failed',
         PlaceFits(t)', WriterAlone'
  PROVE  OrderInv'
<1>1. ASSUME NEW s \in Tasks \ {t}
      PROVE  PlaceFits(s)'
  <2>1. /\ PlaceFits(s) /\ at'[s] = at[s]
        /\ \A l \in Locks : s \in Waits(lock'[l].queue) <=> s \in Waits(lock[l].queue)
        /\ \A l \in Locks : Holds(s, l)' <=> Holds(s, l)
    BY DEF OrderInv, Holds
  <2> QED BY <2>1 DEF PlaceFits, Locks
<1> QED BY <1>1 DEF OrderInv

-------------------------------------------------------------------------------
(* The operators on locks.                                                     *)

LEMMA QueuedIs ==
  ASSUME NEW locks \in LockType, NEW l \in Locks, NEW t \in Tasks,
         NEW mode \in {"read", "write"},
         Once(locks[l].queue), t \notin Waits(locks[l].queue)
  PROVE  /\ Queued(locks, l, t, mode) \in LockType
         /\ \A m \in Locks :
              /\ Queued(locks, l, t, mode)[m].readers = locks[m].readers
              /\ Queued(locks, l, t, mode)[m].writers = locks[m].writers
              /\ m # l => Queued(locks, l, t, mode)[m].queue = locks[m].queue
         /\ Once(Queued(locks, l, t, mode)[l].queue)
         /\ Waits(Queued(locks, l, t, mode)[l].queue) = Waits(locks[l].queue) \union {t}
<1> DEFINE e == [task |-> t, mode |-> mode]
<1>1. e \in Entries /\ e.task = t /\ locks[l].queue \in Seq(Entries)
  BY DEF Entries, LockType
<1>2. /\ Append(locks[l].queue, e) \in Seq(Entries) /\ Once(Append(locks[l].queue, e))
      /\ Waits(Append(locks[l].queue, e)) = Waits(locks[l].queue) \union {t}
  BY <1>1, AskedOnce
<1>3. Queued(locks, l, t, mode) =
        [locks EXCEPT ![l] = [locks[l] EXCEPT !.queue = Append(locks[l].queue, e)]]
  BY DEF Queued
<1> DEFINE r == [locks[l] EXCEPT !.queue = Append(locks[l].queue, e)]
<1>4. /\ r \in [readers : SUBSET Tasks, writers : SUBSET Tasks, queue : Seq(Entries)]
      /\ r.readers = locks[l].readers /\ r.writers = locks[l].writers
      /\ r.queue = Append(locks[l].queue, e)
  <2> HIDE DEF e
  <2> QED BY <1>2 DEF LockType
<1> HIDE DEF r
<1>5. Queued(locks, l, t, mode) = [locks EXCEPT ![l] = r]
  BY <1>3 DEF r
<1>6. /\ [locks EXCEPT ![l] = r] \in LockType /\ [locks EXCEPT ![l] = r][l] = r
      /\ \A m \in Locks : m # l => [locks EXCEPT ![l] = r][m] = locks[m]
  BY <1>4 DEF LockType
<1> HIDE DEF e
<1> QED BY <1>2, <1>4, <1>5, <1>6

\* t has left the head of l's queue, and nothing else has changed.
ServedFacts(l, t) ==
  /\ Served(l) \in LockType
  /\ \A m \in Locks :
       /\ Served(l)[m].readers = lock[m].readers
       /\ Served(l)[m].writers = lock[m].writers
       /\ m # l => Served(l)[m].queue = lock[m].queue
  /\ Once(Served(l)[l].queue)
  /\ Waits(Served(l)[l].queue) = Waits(lock[l].queue) \ {t}

LEMMA ServedIs ==
  ASSUME lock \in LockType, OrderInv, NEW t \in Tasks, NEW place, NEW l \in Locks,
         NEW mode, Enters(t, place, l, mode)
  PROVE  /\ ServedFacts(l, t)
         /\ t \in Waits(lock[l].queue)
         /\ lock[l].writers = {} /\ (mode = "write" => lock[l].readers = {})
<1>1. /\ lock[l].queue \in Seq(Entries) /\ lock[l].queue # <<>> /\ Once(lock[l].queue)
      /\ Head(lock[l].queue).task = t
      /\ lock[l].writers = {} /\ (mode = "write" => lock[l].readers = {})
  BY DEF LockType, Enters, OrderInv
<1>2. /\ Tail(lock[l].queue) \in Seq(Entries) /\ Once(Tail(lock[l].queue))
      /\ Waits(Tail(lock[l].queue)) = Waits(lock[l].queue) \ {t}
      /\ t \in Waits(lock[l].queue)
  BY <1>1, ServedOnce
<1>3. Served(l) = [lock EXCEPT ![l] = [lock[l] EXCEPT !.queue = Tail(lock[l].queue)]]
  BY DEF Served
<1> DEFINE r == [lock[l] EXCEPT !.queue = Tail(lock[l].queue)]
<1>4. /\ r \in [readers : SUBSET Tasks, writers : SUBSET Tasks, queue : Seq(Entries)]
      /\ r.readers = lock[l].readers /\ r.writers = lock[l].writers
      /\ r.queue = Tail(lock[l].queue)
  BY <1>2 DEF LockType
<1> HIDE DEF r
<1>5. Served(l) = [lock EXCEPT ![l] = r]
  BY <1>3 DEF r
<1>6. /\ [lock EXCEPT ![l] = r] \in LockType /\ [lock EXCEPT ![l] = r][l] = r
      /\ \A m \in Locks : m # l => [lock EXCEPT ![l] = r][m] = lock[m]
  BY <1>4 DEF LockType
<1>7. ServedFacts(l, t)
  BY <1>2, <1>4, <1>5, <1>6 DEF ServedFacts
<1> QED BY <1>1, <1>2, <1>7

LEMMA ReleasedIs ==
  ASSUME NEW locks \in LockType, NEW l \in Locks, NEW t \in Tasks
  PROVE  /\ Released(locks, l, t) \in LockType
         /\ \A m \in Locks :
              /\ Released(locks, l, t)[m].queue = locks[m].queue
              /\ m # l => /\ Released(locks, l, t)[m].readers = locks[m].readers
                          /\ Released(locks, l, t)[m].writers = locks[m].writers
         /\ Released(locks, l, t)[l].readers = locks[l].readers \ {t}
         /\ Released(locks, l, t)[l].writers = locks[l].writers \ {t}
<1>1. Released(locks, l, t) =
        [locks EXCEPT ![l] = [locks[l] EXCEPT !.readers = locks[l].readers \ {t},
                                              !.writers = locks[l].writers \ {t}]]
  BY DEF Released, LockType
<1> DEFINE r == [locks[l] EXCEPT !.readers = locks[l].readers \ {t},
                                 !.writers = locks[l].writers \ {t}]
<1>2. /\ r \in [readers : SUBSET Tasks, writers : SUBSET Tasks, queue : Seq(Entries)]
      /\ r.readers = locks[l].readers \ {t} /\ r.writers = locks[l].writers \ {t}
      /\ r.queue = locks[l].queue
  BY DEF LockType
<1> HIDE DEF r
<1>3. Released(locks, l, t) = [locks EXCEPT ![l] = r]
  BY <1>1 DEF r
<1>4. /\ [locks EXCEPT ![l] = r] \in LockType /\ [locks EXCEPT ![l] = r][l] = r
      /\ \A m \in Locks : m # l => [locks EXCEPT ![l] = r][m] = locks[m]
  BY <1>2 DEF LockType
<1> QED BY <1>2, <1>3, <1>4

LEMMA ReadingIs ==
  ASSUME NEW locks \in LockType, NEW l \in Locks, NEW t \in Tasks
  PROVE  /\ Reading(locks, l, t) \in LockType
         /\ \A m \in Locks :
              /\ Reading(locks, l, t)[m].queue = locks[m].queue
              /\ Reading(locks, l, t)[m].writers = locks[m].writers
              /\ m # l => Reading(locks, l, t)[m].readers = locks[m].readers
         /\ Reading(locks, l, t)[l].readers = locks[l].readers \union {t}
<1>1. Reading(locks, l, t) =
        [locks EXCEPT ![l] = [locks[l] EXCEPT !.readers = locks[l].readers \union {t}]]
  BY DEF Reading, LockType
<1> QED BY <1>1, SMTT(30) DEF LockType

LEMMA WritingIs ==
  ASSUME NEW locks \in LockType, NEW l \in Locks, NEW t \in Tasks
  PROVE  /\ Writing(locks, l, t) \in LockType
         /\ \A m \in Locks :
              /\ Writing(locks, l, t)[m].queue = locks[m].queue
              /\ Writing(locks, l, t)[m].readers = locks[m].readers
              /\ m # l => Writing(locks, l, t)[m].writers = locks[m].writers
         /\ Writing(locks, l, t)[l].writers = locks[l].writers \union {t}
<1>1. Writing(locks, l, t) =
        [locks EXCEPT ![l] = [locks[l] EXCEPT !.writers = locks[l].writers \union {t}]]
  BY DEF Writing, LockType
<1> QED BY <1>1 DEF LockType

AtType == [Tasks -> [place : Places, src : SUBSET Players, ids : SUBSET (1..subpacket)]]

LEMMA MovesIs ==
  ASSUME at \in AtType, NEW t \in Tasks, NEW place \in Places, Moves(t, place)
  PROVE  /\ at'[t].place = place /\ \A s \in Tasks \ {t} : at'[s] = at[s]
         /\ at' \in AtType
BY DEF AtType, Moves

LEMMA EndsIs ==
  ASSUME at \in AtType, NEW t \in Tasks, Ends(t)
  PROVE  /\ at'[t].place = "Idle" /\ \A s \in Tasks \ {t} : at'[s] = at[s]
         /\ at' \in AtType
BY DEF AtType, Ends, Idle, Places

-------------------------------------------------------------------------------
(* Steps that ask for a lock, and steps in which one is taken and left again.   *)

Typed == lock \in LockType /\ at \in AtType

LEMMA AskStep ==
  ASSUME Typed, OrderInv, NEW t \in Tasks, NEW l \in Locks, NEW mode \in {"read", "write"},
         NEW place, at'[t].place = place, \A s \in Tasks \ {t} : at'[s] = at[s],
         lock' = Queued(lock, l, t, mode),
         at[t].place \notin AsksTable \union AsksCache \union Failing,
         l = "clients" => place \in AsksTable \union Failing,
         l = "subpacket_cache" => place \in AsksCache,
         place \in Failing => failed', failed => failed',
         Holds(t, "clients") => place \in Sending \union Answering \union Failing,
         Holds(t, "subpacket_cache") => place \in Failing,
         t = "Broadcast" /\ place \in Sending \union Failing => t \in lock["clients"].readers,
         t = "Events" /\ place \in Answering \union Failing => t \in lock["clients"].writers
  PROVE  OrderInv' /\ lock' \in LockType
<1>1. /\ \A m \in Locks : t \notin Waits(lock[m].queue) /\ Once(lock[m].queue)
      /\ WriterAlone /\ lock \in LockType
  BY DEF OrderInv, PlaceFits, Locks, Typed
<1>2. /\ lock' \in LockType
      /\ \A m \in Locks :
           /\ lock'[m].readers = lock[m].readers /\ lock'[m].writers = lock[m].writers
           /\ m # l => lock'[m].queue = lock[m].queue
      /\ Once(lock'[l].queue) /\ Waits(lock'[l].queue) = Waits(lock[l].queue) \union {t}
  BY <1>1, QueuedIs
<1>3. \A m \in Locks :
        /\ Once(lock'[m].queue)
        /\ Waits(lock'[m].queue) \ {t} = Waits(lock[m].queue) \ {t}
        /\ t \in Waits(lock'[m].queue) <=> m = l
  BY <1>1, <1>2
<1>4. \A m \in Locks : Holds(t, m)' <=> Holds(t, m)
  BY <1>2 DEF Holds
<1>5. PlaceFits(t)'
  BY <1>2, <1>3, <1>4 DEF PlaceFits, Locks
<1>6. WriterAlone'
  BY <1>1, <1>2 DEF WriterAlone, Locks
<1> QED BY <1>2, <1>3, <1>5, <1>6, OrderStep

\* Where a task waits for a lock and holds none.
Outside(l, place) ==
  \/ l = "clients" /\ place \in AsksTable
  \/ l = "subpacket_cache" /\ place = "Drain"

LEMMA PassEndStep ==
  ASSUME Typed, OrderInv, NEW t \in Tasks, NEW l \in Locks, NEW mode, NEW place,
         PassesAndEnds(t, place, l, mode), Outside(l, place), failed' = failed
  PROVE  OrderInv' /\ lock' \in LockType /\ at' \in AtType
<1>1. Enters(t, place, l, mode) /\ lock' = Served(l) /\ at[t].place = place
  BY DEF PassesAndEnds, Enters
<1>2. /\ at'[t].place = "Idle" /\ \A s \in Tasks \ {t} : at'[s] = at[s]
      /\ at' \in AtType
  BY EndsIs DEF PassesAndEnds, Typed
<1>3. /\ lock' \in LockType
      /\ \A m \in Locks :
           /\ lock'[m].readers = lock[m].readers /\ lock'[m].writers = lock[m].writers
           /\ m # l => lock'[m].queue = lock[m].queue
      /\ Once(lock'[l].queue) /\ Waits(lock'[l].queue) = Waits(lock[l].queue) \ {t}
  <2>1. ServedFacts(l, t)
    BY <1>1, ServedIs DEF Typed
  <2> QED BY <1>1, <2>1 DEF ServedFacts
<1>4. /\ PlaceFits(t) /\ WriterAlone /\ \A m \in Locks : Once(lock[m].queue)
  BY DEF OrderInv
<1>5. \A m \in Locks : ~Holds(t, m)' /\ t \notin Waits(lock'[m].queue)
  BY <1>1, <1>3, <1>4 DEF PlaceFits, Outside, Holds, Locks, AsksTable, AsksCache, Sending,
                           Answering, Failing
<1>6. \A m \in Locks :
        /\ Once(lock'[m].queue)
        /\ Waits(lock'[m].queue) \ {t} = Waits(lock[m].queue) \ {t}
  BY <1>3, <1>4
<1>7. PlaceFits(t)'
  BY <1>2, <1>5 DEF PlaceFits, Locks, Sending, Answering, Failing
<1>8. WriterAlone'
  BY <1>3, <1>4 DEF WriterAlone, Locks
<1> QED BY <1>2, <1>3, <1>6, <1>7, <1>8, OrderStep

LEMMA PassAskStep ==
  ASSUME Typed, OrderInv, NEW t \in Tasks, NEW l \in Locks, NEW mode, NEW place,
         NEW l2 \in Locks, NEW mode2 \in {"read", "write"}, NEW next \in Places,
         PassesAndAsks(t, place, l, mode, next, l2, mode2),
         Outside(l, place), Outside(l2, next), failed' = failed
  PROVE  OrderInv' /\ lock' \in LockType /\ at' \in AtType
<1>1. /\ Enters(t, place, l, mode) /\ lock' = Queued(Served(l), l2, t, mode2)
      /\ at[t].place = place
  BY DEF PassesAndAsks, Enters
<1>2. /\ at'[t].place = next /\ \A s \in Tasks \ {t} : at'[s] = at[s]
      /\ at' \in AtType
  BY MovesIs DEF PassesAndAsks, Typed
<1>3. PICK mid : mid = Served(l)
  OBVIOUS
<1>4. ServedFacts(l, t)
  BY <1>1, ServedIs DEF Typed
<1>5. /\ mid \in LockType
      /\ \A m \in Locks :
           /\ mid[m].readers = lock[m].readers /\ mid[m].writers = lock[m].writers
           /\ m # l => mid[m].queue = lock[m].queue
      /\ Once(mid[l].queue) /\ Waits(mid[l].queue) = Waits(lock[l].queue) \ {t}
  BY <1>3, <1>4 DEF ServedFacts
<1>6. /\ PlaceFits(t) /\ WriterAlone /\ \A m \in Locks : Once(lock[m].queue)
  BY DEF OrderInv
<1>7. \A m \in Locks : /\ ~Holds(t, m) /\ t \notin Waits(mid[m].queue) /\ Once(mid[m].queue)
                       /\ Waits(mid[m].queue) \ {t} = Waits(lock[m].queue) \ {t}
  BY <1>1, <1>5, <1>6 DEF PlaceFits, Outside, Holds, Locks, AsksTable, AsksCache, Sending,
                           Answering, Failing
<1>8. lock' = Queued(mid, l2, t, mode2)
  BY <1>1, <1>3
<1>9. /\ lock' \in LockType
      /\ \A m \in Locks :
           /\ lock'[m].readers = mid[m].readers /\ lock'[m].writers = mid[m].writers
           /\ m # l2 => lock'[m].queue = mid[m].queue
      /\ Once(lock'[l2].queue) /\ Waits(lock'[l2].queue) = Waits(mid[l2].queue) \union {t}
  <2>1. mid \in LockType /\ Once(mid[l2].queue) /\ t \notin Waits(mid[l2].queue)
    BY <1>5, <1>7
  <2> QED BY <1>8, <2>1, QueuedIs, SMTT(60)
<1>10. \A m \in Locks :
        /\ Once(lock'[m].queue)
        /\ Waits(lock'[m].queue) \ {t} = Waits(lock[m].queue) \ {t}
        /\ t \in Waits(lock'[m].queue) <=> m = l2
        /\ ~Holds(t, m)'
        /\ lock'[m].readers = lock[m].readers /\ lock'[m].writers = lock[m].writers
  BY <1>5, <1>7, <1>9 DEF Holds
<1>11. PlaceFits(t)'
  BY <1>2, <1>10 DEF PlaceFits, Outside, Locks, AsksTable, AsksCache, Sending, Answering, Failing
<1>12. WriterAlone'
  BY <1>6, <1>10 DEF WriterAlone, Locks
<1> QED BY <1>2, <1>9, <1>10, <1>11, <1>12, OrderStep

\* What every step keeps of the order.
Settled == OrderInv' /\ lock' \in LockType /\ at' \in AtType

\* An operation begins.
LEMMA StartStep ==
  ASSUME Typed, OrderInv, NEW t \in Tasks, NEW l \in Locks, NEW mode \in {"read", "write"},
         NEW place, at[t] = Idle, at'[t].place = place,
         \A s \in Tasks \ {t} : at'[s] = at[s], at' \in AtType,
         lock' = Queued(lock, l, t, mode), Outside(l, place), failed' = failed
  PROVE  Settled
<1>1. at[t].place = "Idle" /\ PlaceFits(t)
  BY DEF Idle, OrderInv
<1>2. /\ \A m \in Locks : ~Holds(t, m)
      /\ "Idle" \notin AsksTable \union AsksCache \union Failing
      /\ l = "clients" => place \in AsksTable
      /\ l = "subpacket_cache" => place \in AsksCache
      /\ place \notin Sending \union Answering \union Failing
  BY <1>1 DEF PlaceFits, Outside, Locks, Sending, Answering, Failing, AsksTable, AsksCache
<1>3. OrderInv' /\ lock' \in LockType
  BY <1>1, <1>2, AskStep DEF Locks
<1> QED BY <1>3 DEF Settled

LEMMA StartsStep ==
  ASSUME Typed, OrderInv, NEW t \in Tasks, NEW l \in Locks, NEW mode \in {"read", "write"},
         NEW place \in Places, Starts(t, place, l, mode), Outside(l, place), failed' = failed
  PROVE  Settled
<1>1. at[t] = Idle /\ lock' = Queued(lock, l, t, mode) /\ Moves(t, place)
  BY DEF Starts
<1>2. at'[t].place = place /\ (\A s \in Tasks \ {t} : at'[s] = at[s]) /\ at' \in AtType
  BY <1>1, MovesIs DEF Typed
<1> QED BY <1>1, <1>2, StartStep

\* A task that sends, or answers, asks for another lock.
LEMMA NestedAskStep ==
  ASSUME Typed, OrderInv, NEW t \in {"Broadcast", "Events"}, NEW l \in Locks,
         NEW mode \in {"read", "write"}, NEW place \in Places, Moves(t, place),
         lock' = Queued(lock, l, t, mode), failed => failed',
         t = "Broadcast" => at[t].place \in {"SendVideo", "SendAudio"},
         t = "Events" => at[t].place \in {"Answer", "SendCopy"},
         \/ l = "clients" /\ place \in Failing /\ failed'
         \/ /\ l = "subpacket_cache" /\ at[t].place # "SendCopy"
            /\ \/ t = "Broadcast" /\ place = "AskCache"
               \/ t = "Events" /\ place = "LookUp"
  PROVE  Settled
<1>1. at'[t].place = place /\ (\A s \in Tasks \ {t} : at'[s] = at[s]) /\ at' \in AtType
  BY MovesIs DEF Typed, Tasks
<1>2. PlaceFits(t) /\ t \in Tasks
  BY DEF OrderInv, Tasks
<1>3. /\ at[t].place \notin AsksTable \union AsksCache \union Failing
      /\ l = "clients" => place \in AsksTable \union Failing
      /\ l = "subpacket_cache" => place \in AsksCache
      /\ place \in Failing => failed'
      /\ Holds(t, "clients") => place \in Sending \union Answering \union Failing
      /\ Holds(t, "subpacket_cache") => place \in Failing
      /\ t = "Broadcast" /\ place \in Sending \union Failing => t \in lock["clients"].readers
      /\ t = "Events" /\ place \in Answering \union Failing => t \in lock["clients"].writers
  BY <1>2 DEF PlaceFits, Sending, Answering, Failing, AsksTable, AsksCache
<1>4. OrderInv' /\ lock' \in LockType
  BY <1>1, <1>2, <1>3, AskStep
<1> QED BY <1>1, <1>4 DEF Settled

-------------------------------------------------------------------------------
(* The steps that keep a guard, and those that drop one.                       *)

LEMMA HoldStep ==
  ASSUME Typed, OrderInv, NEW place \in {"AskVideo", "AskAudio"},
         NEW next \in {"SendVideo", "SendAudio"}, HoldsForSending(place, next), failed' = failed
  PROVE  Settled
<1> DEFINE t == "Broadcast"
<1>1. /\ Enters(t, place, "clients", "read") /\ at[t].place = place /\ Moves(t, next)
      /\ lock' = Reading(Served("clients"), "clients", t)
      /\ t \in Tasks /\ "clients" \in Locks /\ next \in Places /\ lock \in LockType
  BY DEF HoldsForSending, Enters, Tasks, Locks, Places, Typed
<1>2. /\ at'[t].place = next /\ \A s \in Tasks \ {t} : at'[s] = at[s]
      /\ at' \in AtType
  BY <1>1, MovesIs DEF Typed
<1>3. PICK mid : mid = Served("clients")
  OBVIOUS
<1>4. /\ mid \in LockType
      /\ \A m \in Locks :
           /\ mid[m].readers = lock[m].readers /\ mid[m].writers = lock[m].writers
           /\ m # "clients" => mid[m].queue = lock[m].queue
      /\ Once(mid["clients"].queue)
      /\ Waits(mid["clients"].queue) = Waits(lock["clients"].queue) \ {t}
      /\ lock["clients"].writers = {}
  <2>1. ServedFacts("clients", t) /\ lock["clients"].writers = {}
    BY <1>1, ServedIs
  <2> QED BY <1>3, <2>1 DEF ServedFacts
<1>5. /\ lock' \in LockType
      /\ \A m \in Locks :
           /\ lock'[m].queue = mid[m].queue /\ lock'[m].writers = mid[m].writers
           /\ m # "clients" => lock'[m].readers = mid[m].readers
      /\ lock'["clients"].readers = mid["clients"].readers \union {t}
  BY <1>1, <1>3, <1>4, ReadingIs
<1>6. /\ PlaceFits(t) /\ WriterAlone /\ \A m \in Locks : Once(lock[m].queue)
  BY DEF OrderInv, Tasks
<1>7. \A m \in Locks :
        /\ Once(lock'[m].queue)
        /\ Waits(lock'[m].queue) \ {t} = Waits(lock[m].queue) \ {t}
        /\ lock'[m].readers \ {t} = lock[m].readers \ {t}
        /\ lock'[m].writers \ {t} = lock[m].writers \ {t}
        /\ t \notin Waits(lock'[m].queue)
        /\ Holds(t, m)' => m = "clients"
  BY <1>1, <1>4, <1>5, <1>6 DEF PlaceFits, Holds, Locks, AsksCache, Failing
<1>8. PlaceFits(t)'
  BY <1>2, <1>5, <1>7 DEF PlaceFits, Locks, Sending, Answering, Failing
<1>9. WriterAlone'
  BY <1>4, <1>5 DEF WriterAlone, Locks
<1>10. OrderInv'
  BY <1>1, <1>2, <1>7, <1>8, <1>9, OrderStep
<1> QED BY <1>2, <1>5, <1>10 DEF Settled

\* The table's guard is dropped at the end, the cache's after a copy was sent.
LEMMA DropStep ==
  ASSUME Typed, OrderInv, NEW t \in {"Broadcast", "Events"}, NEW l \in Locks,
         lock' = Released(lock, l, t), failed' = failed,
         \/ l = "clients" /\ Ends(t) /\ at[t].place \in {"SendAudio", "Answer"}
         \/ /\ l = "subpacket_cache" /\ t = "Events" /\ Moves(t, "Answer")
            /\ at[t].place = "SendCopy"
  PROVE  Settled
<1>1. t \in Tasks /\ "Answer" \in Places /\ lock \in LockType /\ at \in AtType
  BY DEF Tasks, Places, Typed
<1>2. /\ at'[t].place = IF l = "clients" THEN "Idle" ELSE "Answer"
      /\ \A s \in Tasks \ {t} : at'[s] = at[s]
      /\ at' \in AtType
  BY <1>1, MovesIs, EndsIs
<1>3. /\ lock' \in LockType
      /\ \A m \in Locks :
           /\ lock'[m].queue = lock[m].queue
           /\ m # l => lock'[m].readers = lock[m].readers /\ lock'[m].writers = lock[m].writers
      /\ lock'[l].readers = lock[l].readers \ {t}
      /\ lock'[l].writers = lock[l].writers \ {t}
  BY <1>1, ReleasedIs
<1>4. /\ PlaceFits(t) /\ WriterAlone /\ \A m \in Locks : Once(lock[m].queue)
  BY <1>1 DEF OrderInv
<1>5. \A m \in Locks :
        /\ Once(lock'[m].queue)
        /\ Waits(lock'[m].queue) \ {t} = Waits(lock[m].queue) \ {t}
        /\ lock'[m].readers \ {t} = lock[m].readers \ {t}
        /\ lock'[m].writers \ {t} = lock[m].writers \ {t}
  BY <1>3, <1>4
<1>6. \A m \in Locks : t \notin Waits(lock'[m].queue)
  BY <1>3, <1>4 DEF PlaceFits, Locks, AsksTable, AsksCache, Failing
<1>7. /\ ~Holds(t, "subpacket_cache")'
      /\ l = "clients" => ~Holds(t, "clients")'
      /\ l # "clients" => t \in lock'["clients"].writers
  BY <1>3, <1>4 DEF PlaceFits, Holds, Locks, Answering, Failing
<1>8. PlaceFits(t)'
  BY <1>2, <1>6, <1>7 DEF PlaceFits, Locks, Sending, Answering, Failing
<1>9. WriterAlone'
  BY <1>3, <1>4 DEF WriterAlone, Locks
<1>10. OrderInv'
  BY <1>1, <1>2, <1>5, <1>8, <1>9, OrderStep
<1> QED BY <1>2, <1>3, <1>10 DEF Settled

LEMMA CacheStep ==
  ASSUME Typed, OrderInv, CacheSubpacket
  PROVE  Settled
<1> DEFINE t == "Broadcast"
<1>1. /\ Enters(t, "AskCache", "subpacket_cache", "write") /\ at[t].place = "AskCache" /\ Ends(t)
      /\ lock' = Released(Served("subpacket_cache"), "clients", t) /\ failed' = failed
      /\ t \in Tasks /\ "clients" \in Locks /\ "subpacket_cache" \in Locks
      /\ lock \in LockType /\ at \in AtType
  BY DEF CacheSubpacket, Enters, Tasks, Locks, Typed
<1>2. /\ at'[t].place = "Idle" /\ \A s \in Tasks \ {t} : at'[s] = at[s]
      /\ at' \in AtType
  BY <1>1, EndsIs
<1>3. PICK mid : mid = Served("subpacket_cache")
  OBVIOUS
<1>4. /\ mid \in LockType
      /\ \A m \in Locks :
           /\ mid[m].readers = lock[m].readers /\ mid[m].writers = lock[m].writers
           /\ m # "subpacket_cache" => mid[m].queue = lock[m].queue
      /\ Once(mid["subpacket_cache"].queue)
      /\ Waits(mid["subpacket_cache"].queue) = Waits(lock["subpacket_cache"].queue) \ {t}
  <2>1. ServedFacts("subpacket_cache", t)
    BY <1>1, ServedIs
  <2> QED BY <1>3, <2>1 DEF ServedFacts
<1>5. /\ lock' \in LockType
      /\ \A m \in Locks :
           /\ lock'[m].queue = mid[m].queue
           /\ m # "clients" => lock'[m].readers = mid[m].readers /\ lock'[m].writers = mid[m].writers
      /\ lock'["clients"].readers = mid["clients"].readers \ {t}
      /\ lock'["clients"].writers = mid["clients"].writers \ {t}
  BY <1>1, <1>3, <1>4, ReleasedIs
<1>6. /\ PlaceFits(t) /\ WriterAlone /\ \A m \in Locks : Once(lock[m].queue)
  BY <1>1 DEF OrderInv
<1>7. \A m \in Locks :
        /\ Once(lock'[m].queue)
        /\ Waits(lock'[m].queue) \ {t} = Waits(lock[m].queue) \ {t}
        /\ lock'[m].readers \ {t} = lock[m].readers \ {t}
        /\ lock'[m].writers \ {t} = lock[m].writers \ {t}
  BY <1>4, <1>5, <1>6
<1>8. \A m \in Locks : t \notin Waits(lock'[m].queue) /\ ~Holds(t, m)'
  BY <1>1, <1>4, <1>5, <1>6 DEF PlaceFits, Holds, Locks, AsksTable, Failing
<1>9. PlaceFits(t)'
  BY <1>2, <1>8 DEF PlaceFits, Locks, Sending, Answering, Failing
<1>10. WriterAlone'
  BY <1>4, <1>5, <1>6 DEF WriterAlone, Locks
<1>11. OrderInv'
  BY <1>1, <1>2, <1>7, <1>9, <1>10, OrderStep
<1> QED BY <1>2, <1>5, <1>11 DEF Settled

LEMMA EnterRetransmitStep ==
  ASSUME Typed, OrderInv, EnterRetransmit
  PROVE  Settled
<1> DEFINE t == "Events"
<1>1. /\ Enters(t, "Retransmit", "clients", "write") /\ at[t].place = "Retransmit"
      /\ failed' = failed /\ t \in Tasks /\ "clients" \in Locks /\ "Answer" \in Places
      /\ lock \in LockType /\ at \in AtType
  BY DEF EnterRetransmit, dataVars, Enters, Tasks, Locks, Places, Typed
<1>2. CASE ~(Asker \subseteq DOMAIN table)
  <2>1. PassesAndEnds(t, "Retransmit", "clients", "write") /\ Outside("clients", "Retransmit")
    BY <1>1, <1>2 DEF EnterRetransmit, PassesAndEnds, Outside, AsksTable
  <2> QED BY <1>1, <2>1, PassEndStep DEF Settled
<1>3. CASE Asker \subseteq DOMAIN table
  <2>1. lock' = Writing(Served("clients"), "clients", t) /\ Moves(t, "Answer")
    BY <1>3 DEF EnterRetransmit
  <2>2. /\ at'[t].place = "Answer" /\ \A s \in Tasks \ {t} : at'[s] = at[s]
        /\ at' \in AtType
    BY <1>1, <2>1, MovesIs
  <2>3. PICK mid : mid = Served("clients")
    OBVIOUS
  <2>4. /\ mid \in LockType
        /\ \A m \in Locks :
             /\ mid[m].readers = lock[m].readers /\ mid[m].writers = lock[m].writers
             /\ m # "clients" => mid[m].queue = lock[m].queue
        /\ Once(mid["clients"].queue)
        /\ Waits(mid["clients"].queue) = Waits(lock["clients"].queue) \ {t}
        /\ lock["clients"].readers = {}
    <3>1. ServedFacts("clients", t) /\ lock["clients"].readers = {}
      BY <1>1, ServedIs
    <3> QED BY <2>3, <3>1 DEF ServedFacts
  <2>5. /\ lock' \in LockType
        /\ \A m \in Locks :
             /\ lock'[m].queue = mid[m].queue /\ lock'[m].readers = mid[m].readers
             /\ m # "clients" => lock'[m].writers = mid[m].writers
        /\ lock'["clients"].writers = mid["clients"].writers \union {t}
    BY <1>1, <2>1, <2>3, <2>4, WritingIs
  <2>6. /\ PlaceFits(t) /\ WriterAlone /\ \A m \in Locks : Once(lock[m].queue)
    BY <1>1 DEF OrderInv
  <2>7. \A m \in Locks :
          /\ Once(lock'[m].queue)
          /\ Waits(lock'[m].queue) \ {t} = Waits(lock[m].queue) \ {t}
          /\ lock'[m].readers \ {t} = lock[m].readers \ {t}
          /\ lock'[m].writers \ {t} = lock[m].writers \ {t}
          /\ t \notin Waits(lock'[m].queue)
          /\ Holds(t, m)' => m = "clients"
    BY <1>1, <2>4, <2>5, <2>6 DEF PlaceFits, Holds, Locks, AsksCache, Failing
  <2>8. PlaceFits(t)'
    BY <2>2, <2>5, <2>7 DEF PlaceFits, Locks, Sending, Answering, Failing
  <2>9. WriterAlone'
    BY <2>4, <2>5 DEF WriterAlone, Locks
  <2>10. OrderInv'
    BY <1>1, <2>2, <2>7, <2>8, <2>9, OrderStep
  <2> QED BY <2>2, <2>5, <2>10 DEF Settled
<1> QED BY <1>2, <1>3

LEMMA LookUpStep ==
  ASSUME Typed, OrderInv, LookUp
  PROVE  Settled
<1> DEFINE t == "Events"
<1>1. /\ Enters(t, "LookUp", "subpacket_cache", "read") /\ at[t].place = "LookUp"
      /\ failed' = failed /\ t \in Tasks /\ "subpacket_cache" \in Locks
      /\ lock \in LockType /\ at \in AtType
  BY DEF LookUp, dataVars, Enters, Tasks, Locks, Typed
<1>2. PICK mid : mid = Served("subpacket_cache")
  OBVIOUS
<1>3. PICK id \in Asked :
        /\ at' = [at EXCEPT !["Events"].place = IF id \in cache THEN "SendCopy" ELSE "Answer",
                            !["Events"].ids = @ \ {id}]
        /\ lock' = IF id \in cache THEN Reading(mid, "subpacket_cache", t) ELSE mid
  BY <1>2 DEF LookUp
<1>4. /\ at'[t].place = IF id \in cache THEN "SendCopy" ELSE "Answer"
      /\ \A s \in Tasks \ {t} : at'[s] = at[s]
      /\ at' \in AtType
  <2> DEFINE place == IF id \in cache THEN "SendCopy" ELSE "Answer"
             entry == [at[t] EXCEPT !.place = place, !.ids = at[t].ids \ {id}]
  <2>1. /\ entry \in [place : Places, src : SUBSET Players, ids : SUBSET (1..subpacket)]
        /\ entry.place = place
    BY <1>1 DEF AtType, Places
  <2> HIDE DEF entry
  <2>2. at' = [at EXCEPT ![t] = entry]
    BY <1>3 DEF entry
  <2> QED BY <1>1, <2>1, <2>2 DEF AtType
<1>5. /\ mid \in LockType
      /\ \A m \in Locks :
           /\ mid[m].readers = lock[m].readers /\ mid[m].writers = lock[m].writers
           /\ m # "subpacket_cache" => mid[m].queue = lock[m].queue
      /\ Once(mid["subpacket_cache"].queue)
      /\ Waits(mid["subpacket_cache"].queue) = Waits(lock["subpacket_cache"].queue) \ {t}
  <2>1. ServedFacts("subpacket_cache", t)
    BY <1>1, ServedIs
  <2> QED BY <1>2, <2>1 DEF ServedFacts
<1>6. /\ lock' \in LockType
      /\ \A m \in Locks :
           /\ lock'[m].queue = mid[m].queue /\ lock'[m].writers = mid[m].writers
           /\ m # "subpacket_cache" => lock'[m].readers = mid[m].readers
      /\ lock'["subpacket_cache"].readers \ {t} = mid["subpacket_cache"].readers \ {t}
      /\ id \notin cache => lock' = mid
  <2>1. CASE id \in cache
    BY <1>1, <1>3, <1>5, <2>1, ReadingIs
  <2>2. CASE id \notin cache
    BY <1>3, <1>5, <2>2
  <2> QED BY <2>1, <2>2
<1>7. /\ PlaceFits(t) /\ WriterAlone /\ \A m \in Locks : Once(lock[m].queue)
  BY <1>1 DEF OrderInv
<1>8. \A m \in Locks :
        /\ Once(lock'[m].queue)
        /\ Waits(lock'[m].queue) \ {t} = Waits(lock[m].queue) \ {t}
        /\ lock'[m].readers \ {t} = lock[m].readers \ {t}
        /\ lock'[m].writers \ {t} = lock[m].writers \ {t}
        /\ t \notin Waits(lock'[m].queue)
  BY <1>1, <1>5, <1>6, <1>7 DEF PlaceFits, Locks, AsksTable, Failing
<1>9. /\ t \in lock'["clients"].writers
      /\ id \notin cache => ~Holds(t, "subpacket_cache")'
  BY <1>1, <1>5, <1>6, <1>7 DEF PlaceFits, Holds, Locks, Answering, Failing
<1>10. PlaceFits(t)'
  BY <1>4, <1>8, <1>9 DEF PlaceFits, Locks, Sending, Answering, Failing
<1>11. WriterAlone'
  BY <1>5, <1>6, <1>7 DEF WriterAlone, Locks
<1>12. OrderInv'
  BY <1>1, <1>4, <1>8, <1>10, <1>11, OrderStep
<1> QED BY <1>4, <1>6, <1>12 DEF Settled

-------------------------------------------------------------------------------
(* Every action keeps the order.                                               *)

LEMMA KnownNames ==
  /\ Tasks = {"Broadcast", "Video", "Audio", "Events"}
  /\ Locks = {"clients", "subpacket_cache"}
  /\ AsksTable \union Sending \union Answering \union Failing \union {"Drain"} \subseteq Places
  /\ \A place \in AsksTable : Outside("clients", place)
  /\ Outside("subpacket_cache", "Drain")
BY DEF Tasks, Locks, Places, AsksTable, Sending, Answering, Failing, Outside

LEMMA BroadcastOrder ==
  ASSUME Typed, OrderInv, BeginVideo \/ BeginAudio \/ BroadcastStep
  PROVE  Settled
<1>1. CASE BeginVideo
  BY <1>1, StartsStep, KnownNames DEF BeginVideo, AsksTable
<1>2. CASE BeginAudio
  BY <1>2, StartsStep, KnownNames DEF BeginAudio, dataVars, AsksTable
<1>3. CASE EnterVideo
  BY <1>3, HoldStep DEF EnterVideo
<1>4. CASE EnterAudio
  BY <1>4, HoldStep DEF EnterAudio
<1>5. CASE FinishSending
  BY <1>5, NestedAskStep, KnownNames DEF FinishSending, dataVars, Sending
<1>6. CASE CacheSubpacket
  BY <1>6, CacheStep
<1>7. CASE FinishAudio
  BY <1>7, DropStep, KnownNames DEF FinishAudio, dataVars
<1>8. ASSUME NEW p \in Players, SendTo(p)
      PROVE  Settled
  <2>1. UNCHANGED lock /\ UNCHANGED at /\ UNCHANGED failed
    BY <1>8 DEF SendTo
  <2> QED BY <2>1 DEF Settled, Typed, OrderInv, PlaceFits, Holds, WriterAlone
<1>9. ASSUME NEW p \in Players, BroadcastFails(p)
      PROVE  Settled
  BY <1>9, NestedAskStep, KnownNames DEF BroadcastFails, Failing
<1> QED BY <1>1, <1>2, <1>3, <1>4, <1>5, <1>6, <1>7, <1>8, <1>9 DEF BroadcastStep

LEMMA LoopsOrder ==
  ASSUME Typed, OrderInv, BeginLoop \/ VideoStep \/ AudioStep
  PROVE  Settled
<1>1. CASE BeginLoop
  BY <1>1, StartsStep, KnownNames DEF BeginLoop, dataVars, AsksTable
<1>2. ASSUME NEW t \in {"Video", "Audio"}, HasClients(t)
      PROVE  Settled
  BY <1>2, PassEndStep, PassAskStep, KnownNames DEF HasClients, dataVars, AsksTable, Settled
<1>3. ASSUME NEW t \in {"Video", "Audio"}, GetSymKey(t)
      PROVE  Settled
  BY <1>3, PassEndStep, PassAskStep, KnownNames DEF GetSymKey, dataVars, AsksTable, Settled
<1>4. CASE FilterClients
  BY <1>4, PassEndStep, PassAskStep, KnownNames DEF FilterClients, AsksTable, Settled
<1>5. CASE DrainSubpacketCache
  BY <1>5, PassEndStep, KnownNames DEF DrainSubpacketCache, Settled
<1> QED BY <1>1, <1>2, <1>3, <1>4, <1>5 DEF VideoStep, AudioStep

LEMMA EventsOrder ==
  ASSUME Typed, OrderInv, (\E p \in Players : ReceiveDatagram(p)) \/ EventsStep
  PROVE  Settled
<1>1. ASSUME NEW p \in Players, NEW ids \in SUBSET (1..subpacket), NEW place \in AsksTable,
             NEW mode \in {"read", "write"}, Receives(place, mode, p, ids)
      PROVE  Settled
  <2>1. /\ at["Events"] = Idle /\ lock' = Queued(lock, "clients", "Events", mode)
        /\ at' = [at EXCEPT !["Events"] = [place |-> place, src |-> {p}, ids |-> ids]]
        /\ at \in AtType /\ failed' = failed
    BY <1>1 DEF Receives, dataVars, Typed
  <2>2. /\ at'["Events"].place = place /\ \A s \in Tasks \ {"Events"} : at'[s] = at[s]
        /\ at' \in AtType
    BY <2>1, KnownNames DEF AtType
  <2> QED BY <2>1, <2>2, StartStep, KnownNames
<1>2. ASSUME NEW p \in Players, ReceiveDatagram(p)
      PROVE  Settled
  BY <1>1, <1>2 DEF ReceiveDatagram, AsksTable
<1>3. CASE EnterRetransmit
  BY <1>3, EnterRetransmitStep
<1>4. CASE AskForCache
  BY <1>4, NestedAskStep, KnownNames DEF AskForCache, dataVars, Answering
<1>5. CASE LookUp
  BY <1>5, LookUpStep
<1>6. CASE SendCopy
  BY <1>6, DropStep, KnownNames DEF SendCopy, dataVars
<1>7. CASE SendCopyFails
  BY <1>7, NestedAskStep, KnownNames DEF SendCopyFails, Failing
<1>8. CASE FinishRetransmit
  BY <1>8, DropStep, KnownNames DEF FinishRetransmit, dataVars
<1>9. CASE InitializeClient
  BY <1>9, PassEndStep, KnownNames DEF InitializeClient, AsksTable, Settled
<1>10. CASE GetClientPrivKey
  BY <1>10, PassEndStep, PassAskStep, KnownNames
     DEF GetClientPrivKey, dataVars, AsksTable, Settled
<1>11. CASE ConnectClient
  BY <1>11, PassEndStep, PassAskStep, KnownNames DEF ConnectClient, AsksTable, Settled
<1>12. CASE HandleClientState
  BY <1>12, PassEndStep, PassAskStep, KnownNames
     DEF HandleClientState, dataVars, AsksTable, Settled
<1>13. CASE MuteClient
  BY <1>13, PassEndStep, KnownNames DEF MuteClient, dataVars, AsksTable, Settled
<1>14. CASE ReceivedPing
  BY <1>14, PassEndStep, PassAskStep, KnownNames DEF ReceivedPing, dataVars, AsksTable, Settled
<1>15. CASE SetLastPing
  BY <1>15, PassEndStep, KnownNames DEF SetLastPing, dataVars, AsksTable, Settled
<1>16. CASE RemoveClient
  BY <1>16, PassAskStep, KnownNames DEF RemoveClient, AsksTable, Settled
<1>17. CASE AnyClientLeft
  BY <1>17, PassEndStep, KnownNames DEF AnyClientLeft, dataVars, AsksTable, Settled
<1> QED BY <1>2, <1>3, <1>4, <1>5, <1>6, <1>7, <1>8, <1>9, <1>10, <1>11, <1>12, <1>13, <1>14,
           <1>15, <1>16, <1>17 DEF EventsStep

LEMMA NextOrder ==
  ASSUME Typed, OrderInv, [Next]_vars
  PROVE  Settled
<1>1. CASE Next
  BY <1>1, BroadcastOrder, LoopsOrder, EventsOrder DEF Next
<1>2. CASE UNCHANGED vars
  <2>1. UNCHANGED lock /\ UNCHANGED at /\ UNCHANGED failed
    BY <1>2 DEF vars, dataVars
  <2> QED BY <2>1 DEF Settled, Typed, OrderInv, PlaceFits, Holds, WriterAlone
<1> QED BY <1>1, <1>2

-------------------------------------------------------------------------------
(* The data behind the locks.                                                  *)

TableOK == DOMAIN table \subseteq Players /\ \A p \in DOMAIN table : table[p] \in BOOLEAN

DataOK ==
  /\ TableOK
  /\ subpacket \in 0..MaxSubpackets
  /\ cache \subseteq 1..subpacket /\ sent \subseteq 1..subpacket /\ drained \subseteq 1..subpacket
  /\ unsent \subseteq Players
  /\ failed \in BOOLEAN

\* A subpacket that is broadcast has a number.
Counted == at["Broadcast"].place \in {"AskVideo", "SendVideo", "AskCache"} => subpacket # 0

\* What was sent is in the cache or drained, but for what is being broadcast.
SentKept ==
  \A i \in sent :
    \/ i \in cache \union drained
    \/ i = subpacket /\ at["Broadcast"].place \in {"SendVideo", "AskCache", "RemoveFailed"}

DataInv == DataOK /\ Counted /\ SentKept

\* What a step of another task than the broadcaster does to the data.
Elsewhere ==
  /\ at'["Broadcast"] = at["Broadcast"]
  /\ TableOK' /\ failed' \in BOOLEAN
  /\ subpacket' = subpacket /\ unsent' = unsent /\ sent' = sent
  /\ cache' \union drained' = cache \union drained

LEMMA ElsewhereStep ==
  ASSUME DataInv, Elsewhere
  PROVE  DataInv'
<1>1. DataOK'
  BY DEF DataInv, Elsewhere, DataOK
<1>2. Counted'
  BY DEF DataInv, Elsewhere, Counted
<1>3. SentKept'
  BY DEF DataInv, Elsewhere, SentKept
<1> QED BY <1>1, <1>2, <1>3 DEF DataInv

LEMMA StaysAside ==
  ASSUME at \in AtType, NEW t \in Tasks \ {"Broadcast"}, NEW place,
         Moves(t, place) \/ Ends(t)
  PROVE  at'["Broadcast"] = at["Broadcast"]
BY DEF AtType, Moves, Ends, Tasks

\* A step of another task that leaves all data alone.
LEMMA IdleData ==
  ASSUME DataInv, at'["Broadcast"] = at["Broadcast"], UNCHANGED dataVars
  PROVE  Elsewhere
BY DEF DataInv, DataOK, TableOK, Elsewhere, dataVars

\* The table may change, the rest not.
LEMMA TableData ==
  ASSUME DataInv, at'["Broadcast"] = at["Broadcast"], TableOK',
         UNCHANGED <<cache, subpacket, unsent, sent, drained, failed>>
  PROVE  Elsewhere
BY DEF DataInv, DataOK, Elsewhere

LEMMA LoopsData ==
  ASSUME Typed, DataInv, BeginLoop \/ VideoStep \/ AudioStep
  PROVE  Elsewhere
<1>1. at \in AtType /\ "Video" \in Tasks \ {"Broadcast"} /\ "Audio" \in Tasks \ {"Broadcast"}
  BY DEF Typed, Tasks
<1>2. CASE BeginLoop
  BY <1>1, <1>2, IdleData, StaysAside DEF BeginLoop, Starts
<1>3. ASSUME NEW t \in {"Video", "Audio"}, HasClients(t) \/ GetSymKey(t)
      PROVE  Elsewhere
  <2>1. at'["Broadcast"] = at["Broadcast"]
    BY <1>1, <1>3, StaysAside DEF HasClients, GetSymKey, PassesAndEnds, PassesAndAsks
  <2> QED BY <1>3, <2>1, IdleData DEF HasClients, GetSymKey
<1>4. CASE FilterClients
  <2>1. at'["Broadcast"] = at["Broadcast"]
    BY <1>1, <1>4, StaysAside DEF FilterClients, PassesAndEnds, PassesAndAsks
  <2>2. PICK alive \in SUBSET DOMAIN table : table' = Restrict(table, alive)
    BY <1>4 DEF FilterClients
  <2>3. TableOK'
    BY <2>2 DEF DataInv, DataOK, TableOK, Restrict
  <2> QED BY <1>4, <2>1, <2>3, TableData DEF FilterClients
<1>5. CASE DrainSubpacketCache
  <2>1. at'["Broadcast"] = at["Broadcast"]
    BY <1>1, <1>5, StaysAside DEF DrainSubpacketCache, PassesAndEnds
  <2>2. /\ cache' = cache \ drained'
        /\ drained \subseteq drained' /\ drained' \subseteq cache \union drained
        /\ UNCHANGED table /\ UNCHANGED subpacket /\ UNCHANGED unsent
        /\ UNCHANGED sent /\ UNCHANGED failed
    BY <1>5 DEF DrainSubpacketCache
  <2> QED BY <2>1, <2>2 DEF Elsewhere, DataInv, DataOK, TableOK
<1> QED BY <1>2, <1>3, <1>4, <1>5 DEF VideoStep, AudioStep

LEMMA EventsData ==
  ASSUME Typed, DataInv, (\E p \in Players : ReceiveDatagram(p)) \/ EventsStep
  PROVE  Elsewhere
<1>1. at \in AtType /\ "Events" \in Tasks \ {"Broadcast"}
  BY DEF Typed, Tasks
<1>2. at'["Broadcast"] = at["Broadcast"]
  <2>1. ASSUME NEW p \in Players, ReceiveDatagram(p)
        PROVE  at'["Broadcast"] = at["Broadcast"]
    BY <1>1, <2>1 DEF ReceiveDatagram, Receives, AtType, Tasks
  <2>2. CASE LookUp
    BY <1>1, <2>2 DEF LookUp, AtType, Tasks
  <2>3. CASE EventsStep /\ ~LookUp
    BY <1>1, <2>3, StaysAside
       DEF EventsStep, EnterRetransmit, AskForCache, SendCopy, SendCopyFails, FinishRetransmit,
           InitializeClient, GetClientPrivKey, ConnectClient, HandleClientState, MuteClient,
           ReceivedPing, SetLastPing, RemoveClient, AnyClientLeft, PassesAndEnds, PassesAndAsks
  <2> QED BY <2>1, <2>2, <2>3
<1>3. ASSUME UNCHANGED dataVars
      PROVE  Elsewhere
  BY <1>2, <1>3, IdleData
<1>4. CASE SendCopyFails
  BY <1>2, <1>4 DEF SendCopyFails, Elsewhere, DataInv, DataOK, TableOK
<1>5. CASE InitializeClient \/ ConnectClient \/ RemoveClient
  <2>1. Asker \subseteq Players
    BY <1>1 DEF AtType, Asker, Tasks
  <2>2. TableOK'
    BY <1>5, <2>1 DEF InitializeClient, ConnectClient, RemoveClient, DataInv, DataOK, TableOK,
                      Restrict
  <2> QED BY <1>2, <1>5, <2>2, TableData DEF InitializeClient, ConnectClient, RemoveClient
<1>6. CASE EventsStep /\ ~SendCopyFails /\ ~InitializeClient /\ ~ConnectClient /\ ~RemoveClient
  <2>1. UNCHANGED dataVars
    BY <1>6 DEF EventsStep, EnterRetransmit, AskForCache, LookUp, SendCopy, FinishRetransmit,
                GetClientPrivKey, HandleClientState, MuteClient, ReceivedPing, SetLastPing,
                AnyClientLeft
  <2> QED BY <1>3, <2>1
<1>7. ASSUME NEW p \in Players, ReceiveDatagram(p)
      PROVE  Elsewhere
  BY <1>3, <1>7 DEF ReceiveDatagram, Receives
<1> QED BY <1>4, <1>5, <1>6, <1>7

LEMMA BroadcastData ==
  ASSUME Typed, DataInv, BeginVideo \/ BeginAudio \/ BroadcastStep
  PROVE  DataInv'
<1> DEFINE t == "Broadcast"
<1>1. at \in AtType /\ t \in Tasks /\ MaxSubpackets \in Nat
  BY LocksAssumption DEF Typed, Tasks
<1>2. ASSUME NEW place \in Places, Moves(t, place)
      PROVE  at'[t].place = place
  BY <1>1, <1>2, MovesIs
<1>3. Ends(t) => at'[t].place = "Idle"
  BY <1>1, EndsIs
<1>4. {"AskVideo", "AskAudio", "SendVideo", "SendAudio", "AskCache", "RemoveFailed"} \subseteq Places
  BY DEF Places
<1>5. CASE BeginVideo
  <2>1. /\ at[t].place = "Idle" /\ at'[t].place = "AskVideo"
        /\ subpacket < MaxSubpackets /\ subpacket' = subpacket + 1
        /\ UNCHANGED table /\ UNCHANGED cache /\ UNCHANGED unsent /\ UNCHANGED sent
        /\ UNCHANGED drained /\ UNCHANGED failed
    BY <1>2, <1>4, <1>5 DEF BeginVideo, Starts, Idle
  <2>2. subpacket' \in 0..MaxSubpackets /\ subpacket' # 0 /\ 1..subpacket \subseteq 1..subpacket'
    BY <1>1, <2>1 DEF DataInv, DataOK
  <2> QED BY <2>1, <2>2 DEF DataInv, DataOK, TableOK, Counted, SentKept
<1>6. CASE BeginAudio \/ FinishAudio
  <2>1. /\ at[t].place \in {"Idle", "SendAudio"} /\ at'[t].place \in {"AskAudio", "Idle"}
        /\ UNCHANGED table /\ UNCHANGED cache /\ UNCHANGED subpacket /\ UNCHANGED unsent
        /\ UNCHANGED sent /\ UNCHANGED drained /\ UNCHANGED failed
    BY <1>2, <1>3, <1>4, <1>6 DEF BeginAudio, FinishAudio, Starts, Idle, dataVars
  <2> QED BY <2>1 DEF DataInv, DataOK, TableOK, Counted, SentKept
<1>7. CASE EnterVideo \/ EnterAudio
  <2>1. /\ \/ at[t].place = "AskVideo" /\ at'[t].place = "SendVideo"
           \/ at[t].place = "AskAudio" /\ at'[t].place = "SendAudio"
        /\ unsent' \subseteq DOMAIN table
        /\ UNCHANGED table /\ UNCHANGED cache /\ UNCHANGED subpacket
        /\ UNCHANGED sent /\ UNCHANGED drained /\ UNCHANGED failed
    BY <1>2, <1>4, <1>7 DEF EnterVideo, EnterAudio, HoldsForSending, Enters
  <2> QED BY <2>1 DEF DataInv, DataOK, TableOK, Counted, SentKept
<1>8. CASE FinishSending
  <2>1. /\ at[t].place = "SendVideo" /\ at'[t].place = "AskCache"
        /\ UNCHANGED table /\ UNCHANGED cache /\ UNCHANGED subpacket /\ UNCHANGED unsent
        /\ UNCHANGED sent /\ UNCHANGED drained /\ UNCHANGED failed
    BY <1>2, <1>4, <1>8 DEF FinishSending, dataVars
  <2> QED BY <2>1 DEF DataInv, DataOK, TableOK, Counted, SentKept
<1>9. CASE CacheSubpacket
  <2>1. /\ at[t].place = "AskCache" /\ at'[t].place = "Idle"
        /\ cache' = cache \union {subpacket}
        /\ UNCHANGED table /\ UNCHANGED subpacket /\ UNCHANGED unsent
        /\ UNCHANGED sent /\ UNCHANGED drained /\ UNCHANGED failed
    BY <1>3, <1>9 DEF CacheSubpacket, Enters
  <2>2. subpacket \in 1..subpacket
    BY <1>1, <2>1 DEF DataInv, DataOK, Counted
  <2> QED BY <2>1, <2>2 DEF DataInv, DataOK, TableOK, Counted, SentKept
<1>10. ASSUME NEW p \in Players, SendTo(p)
       PROVE  DataInv'
  <2>1. /\ at[t].place \in {"SendVideo", "SendAudio"} /\ UNCHANGED at
        /\ unsent' \subseteq unsent
        /\ sent' = IF at[t].place = "SendVideo" THEN sent \union {subpacket} ELSE sent
        /\ UNCHANGED table /\ UNCHANGED cache /\ UNCHANGED subpacket
        /\ UNCHANGED drained /\ UNCHANGED failed
    BY <1>10 DEF SendTo
  <2>2. at[t].place = "SendVideo" => subpacket \in 1..subpacket
    BY <1>1 DEF DataInv, DataOK, Counted
  <2> QED BY <2>1, <2>2 DEF DataInv, DataOK, TableOK, Counted, SentKept
<1>11. ASSUME NEW p \in Players, BroadcastFails(p)
       PROVE  DataInv'
  <2>1. /\ at[t].place \in {"SendVideo", "SendAudio"} /\ at'[t].place = "RemoveFailed"
        /\ failed' = TRUE
        /\ UNCHANGED table /\ UNCHANGED cache /\ UNCHANGED subpacket /\ UNCHANGED unsent
        /\ UNCHANGED sent /\ UNCHANGED drained
    BY <1>2, <1>4, <1>11 DEF BroadcastFails
  <2> QED BY <2>1 DEF DataInv, DataOK, TableOK, Counted, SentKept
<1> QED BY <1>5, <1>6, <1>7, <1>8, <1>9, <1>10, <1>11 DEF BroadcastStep

LEMMA NextData ==
  ASSUME Typed, DataInv, [Next]_vars
  PROVE  DataInv'
<1>1. CASE Next
  BY <1>1, BroadcastData, LoopsData, EventsData, ElsewhereStep DEF Next
<1>2. CASE UNCHANGED vars
  <2>1. UNCHANGED at /\ UNCHANGED dataVars
    BY <1>2 DEF vars
  <2>2. Elsewhere
    BY <2>1, IdleData
  <2> QED BY <2>2, ElsewhereStep
<1> QED BY <1>1, <1>2

-------------------------------------------------------------------------------
(* The inductive invariant.                                                    *)

LocksInv == Typed /\ OrderInv /\ DataInv

LEMMA LocksInit == Init => LocksInv
<1> SUFFICES ASSUME Init PROVE LocksInv
  OBVIOUS
<1>1. /\ lock \in LockType
      /\ \A l \in Locks : lock[l].readers = {} /\ lock[l].writers = {} /\ lock[l].queue = <<>>
  BY DEF Init, LockType
<1>2. at \in AtType /\ \A t \in Tasks : at[t].place = "Idle"
  BY DEF Init, AtType, Idle, Places
<1>3. OrderInv
  BY <1>1, <1>2 DEF OrderInv, Once, PlaceFits, Waits, Holds, WriterAlone, Locks, Sending,
                    Answering, Failing
<1>4. DataInv
  <2>1. DOMAIN table = {}
    BY DEF Init
  <2>2. /\ cache = {} /\ subpacket = 0 /\ unsent = {} /\ sent = {} /\ drained = {}
        /\ failed = FALSE /\ subpacket \in 0..MaxSubpackets
    BY LocksAssumption DEF Init
  <2> QED BY <1>2, <2>1, <2>2 DEF DataInv, DataOK, TableOK, Counted, SentKept, Tasks
<1> QED BY <1>1, <1>2, <1>3, <1>4 DEF LocksInv, Typed

LEMMA LocksNext == LocksInv /\ [Next]_vars => LocksInv'
<1> SUFFICES ASSUME LocksInv, [Next]_vars PROVE LocksInv'
  OBVIOUS
<1>1. Settled /\ DataInv'
  BY NextOrder, NextData DEF LocksInv
<1>2. subpacket \in Nat /\ subpacket' \in Nat /\ subpacket <= subpacket'
  <2>1. subpacket \in 0..MaxSubpackets /\ subpacket' \in 0..MaxSubpackets
    BY <1>1 DEF LocksInv, DataInv, DataOK
  <2>2. subpacket' \in {subpacket, subpacket + 1}
    <3>1. CASE BeginVideo
      BY <3>1 DEF BeginVideo
    <3>2. CASE BeginAudio \/ BroadcastStep
      BY <3>2 DEF BeginAudio, BroadcastStep, EnterVideo, EnterAudio, FinishSending, CacheSubpacket,
                  FinishAudio, SendTo, BroadcastFails, dataVars
    <3>3. CASE BeginLoop \/ VideoStep \/ AudioStep
                \/ (\E p \in Players : ReceiveDatagram(p)) \/ EventsStep
      BY <3>3, LoopsData, EventsData DEF LocksInv, Elsewhere
    <3>4. CASE UNCHANGED vars
      BY <3>4 DEF vars, dataVars
    <3> QED BY <3>1, <3>2, <3>3, <3>4 DEF Next
  <2> QED BY <2>1, <2>2, LocksAssumption
<1>3. AtType \subseteq [Tasks -> [place : Places, src : SUBSET Players, ids : SUBSET (1..subpacket')]]
  <2>1. 1..subpacket \subseteq 1..subpacket'
    BY <1>2
  <2>2. [place : Places, src : SUBSET Players, ids : SUBSET (1..subpacket)]
          \subseteq [place : Places, src : SUBSET Players, ids : SUBSET (1..subpacket')]
    BY <2>1
  <2> QED BY <2>2 DEF AtType
<1> QED BY <1>1, <1>3 DEF LocksInv, Settled, Typed, AtType

LEMMA LocksInvariant == Spec => []LocksInv
BY LocksInit, LocksNext, PTL DEF Spec

\* The locks, the tasks' places and the data behind the locks have their types: no
\* numbers of subpackets that were never broadcast, no addresses but the players'.
THEOREM LocksTypeCorrect == Spec => []TypeOK
<1>1. LocksInv => TypeOK
  BY DEF LocksInv, Typed, LockType, AtType, Entries, DataInv, DataOK, TableOK, TypeOK
<1> QED BY <1>1, LocksInvariant, PTL

\* app.rs takes the client table's lock before the cache's, and none it holds, as long
\* as no send fails: no circle of tasks that wait for one another.
THEOREM TableIsTakenFirst == Spec => []TableFirst
<1>1. LocksInv => TableFirst
  <2> SUFFICES ASSUME LocksInv, ~failed, NEW t \in Tasks
               PROVE  /\ WaitsFor(t, "clients") => \A l \in Locks : ~Holds(t, l)
                      /\ WaitsFor(t, "subpacket_cache") => ~Holds(t, "subpacket_cache")
    BY DEF TableFirst
  <2>1. PlaceFits(t)
    BY DEF LocksInv, OrderInv
  <2>2. \A l \in Locks : WaitsFor(t, l) => t \in Waits(lock[l].queue)
    BY DEF WaitsFor, Waits
  <2> QED BY <2>1, <2>2 DEF PlaceFits, Locks, AsksTable, AsksCache, Sending, Answering, Failing
<1> QED BY <1>1, LocksInvariant, PTL

\* The head of a queue gets its lock, unless somebody has it.
LEMMA HeadGoesOn ==
  ASSUME LocksInv, NEW l \in Locks, NEW t \in Tasks, WaitsFor(t, l)
  PROVE  \E s \in Tasks : Hinders(s, t) /\ (GoesOn(s) \/ Holds(s, l))
<1> DEFINE q == lock[l].queue
<1>1. /\ q \in Seq(Entries) /\ lock[l].readers \subseteq Tasks /\ lock[l].writers \subseteq Tasks
  BY DEF LocksInv, Typed, LockType
<1>2. q # <<>>
  BY <1>1 DEF WaitsFor
<1>3. Head(q) \in Entries
  BY <1>1, <1>2
<1>4. CASE lock[l].writers = {} /\ (Head(q).mode = "write" => lock[l].readers = {})
  <2>1. GoesOn(Head(q).task) /\ Hinders(Head(q).task, t) /\ Head(q).task \in Tasks
    BY <1>2, <1>3, <1>4 DEF GoesOn, Hinders, Entries
  <2> QED BY <2>1
<1>5. CASE lock[l].writers \union lock[l].readers # {}
  <2>1. PICK s \in Tasks : Holds(s, l)
    BY <1>1, <1>5 DEF Holds
  <2> QED BY <2>1 DEF Hinders
<1> QED BY <1>4, <1>5

\* No task of app.rs is stuck in a lock as long as no send fails: who has the cache waits
\* for nothing, and who has the table waits for nothing but the cache.
THEOREM NobodyIsStuck == Spec => []WaitsAreShort
<1>1. LocksInv => WaitsAreShort
  <2> SUFFICES ASSUME LocksInv, ~failed, NEW t \in Tasks, ~GoesOn(t)
               PROVE  \E s \in Tasks :
                        /\ Hinders(s, t)
                        /\ GoesOn(s) \/ \E r \in Tasks : Hinders(r, s) /\ GoesOn(r)
    BY DEF WaitsAreShort
  <2>1. \A s \in Tasks : PlaceFits(s)
    BY DEF LocksInv, OrderInv
  <2>2. \A s \in Tasks, l \in Locks : WaitsFor(s, l) => s \in Waits(lock[l].queue)
    BY DEF WaitsFor, Waits
  <2>3. ASSUME NEW s \in Tasks, Holds(s, "subpacket_cache")
        PROVE  GoesOn(s)
    BY <2>1, <2>2, <2>3 DEF PlaceFits, GoesOn, Locks, AsksTable, AsksCache, Failing
  <2>4. ASSUME NEW s \in Tasks, Holds(s, "clients"), ~GoesOn(s)
        PROVE  WaitsFor(s, "subpacket_cache")
    <3>1. ~WaitsFor(s, "clients")
      BY <2>1, <2>2, <2>4 DEF PlaceFits, Locks, AsksTable, Sending, Answering, Failing
    <3> QED BY <2>4, <3>1 DEF GoesOn, Locks
  <2>5. ASSUME NEW s \in Tasks, WaitsFor(s, "subpacket_cache")
        PROVE  \E r \in Tasks : Hinders(r, s) /\ GoesOn(r)
    BY <2>3, <2>5, HeadGoesOn DEF Locks
  <2>6. CASE WaitsFor(t, "subpacket_cache")
    BY <2>5, <2>6
  <2>7. CASE WaitsFor(t, "clients")
    <3>1. PICK s \in Tasks : Hinders(s, t) /\ (GoesOn(s) \/ Holds(s, "clients"))
      BY <2>7, HeadGoesOn DEF Locks
    <3> QED BY <2>4, <2>5, <3>1
  <2> QED BY <2>6, <2>7 DEF GoesOn, Locks
<1> QED BY <1>1, LocksInvariant, PTL

\* retransmit_frame finds what it is asked for, unless it was drained: the broadcaster
\* lets go of the table only when the subpacket it has sent is in the cache.
THEOREM RequestsFindTheirSubpackets == Spec => []AnswersAreCached
<1>1. LocksInv => AnswersAreCached
  <2> SUFFICES ASSUME LocksInv, at["Events"].place \in {"Answer", "LookUp"}
               PROVE  sent \subseteq cache \union drained
    BY DEF AnswersAreCached
  <2>1. PlaceFits("Events") /\ PlaceFits("Broadcast") /\ WriterAlone
    BY DEF LocksInv, OrderInv, Tasks
  <2>2. lock["clients"].readers = {}
    BY <2>1 DEF PlaceFits, WriterAlone, Answering
  <2>3. at["Broadcast"].place \notin {"SendVideo", "AskCache", "RemoveFailed"}
    BY <2>1, <2>2 DEF PlaceFits, Sending, Failing
  <2> QED BY <2>3 DEF LocksInv, DataInv, SentKept
<1> QED BY <1>1, LocksInvariant, PTL

-------------------------------------------------------------------------------
(* Storage: the list and what a command makes of it.                           *)

\* A list without one of its items.
LEMMA WithoutOne ==
  ASSUME NEW S, NEW s \in Seq(S), NEW i \in DOMAIN s
  PROVE  RemoveAt(s, i) \in Seq(S) /\ Len(RemoveAt(s, i)) = Len(s) - 1
<1> DEFINE l == SubSeq(s, 1, i - 1)
           r == SubSeq(s, i + 1, Len(s))
<1>1. i \in 1..Len(s) /\ Len(s) \in Nat
  BY LenProperties
<1>2. l \in Seq(S) /\ Len(l) = i - 1
  BY <1>1, SubSeqProperties, ElementOfSeq
<1>3. r \in Seq(S) /\ Len(r) = Len(s) - i
  BY <1>1, SubSeqProperties, ElementOfSeq
<1>4. RemoveAt(s, i) = l \o r
  BY DEF RemoveAt
<1> HIDE DEF l, r
<1>5. l \o r \in Seq(S) /\ Len(l \o r) = Len(l) + Len(r)
  BY <1>2, <1>3, ConcatProperties
<1> QED BY <1>1, <1>2, <1>3, <1>4, <1>5

\* Of the numbers that are there, one is the first.
LEMMA FirstThere ==
  ASSUME NEW T, T \subseteq Nat, T # {}
  PROVE  \E i \in T : \A j \in T : ~(j < i)
<1> DEFINE R == OpToRel(<, Nat)
<1>1. IsWellFoundedOn(R, Nat)
  BY NatLessThanWellFounded
<1>2. \A i, j \in Nat : <<j, i>> \in R <=> j < i
  BY DEF OpToRel
<1> HIDE DEF R
<1>3. \E i \in T : \A j \in T : ~(<<j, i>> \in R)
  BY <1>1, WFMin
<1> QED BY <1>2, <1>3

\* Whatever a command does to a list: it stays a list of names, one longer at most.
LEMMA ChangedType ==
  ASSUME NEW users \in Seq(Names), NEW c \in Commands
  PROVE  /\ Changed(users, c) \in Seq(Names)
         /\ Len(Changed(users, c)) \in Nat /\ Len(users) \in Nat
         /\ Len(Changed(users, c)) <= Len(users) + 1
<1>1. Len(users) \in Nat /\ DOMAIN users = 1..Len(users) /\ c.name \in Names
  BY LenProperties DEF Commands
<1>2. CASE c.op = "add"
  <2>1. Append(users, c.name) \in Seq(Names) /\ Len(Append(users, c.name)) = Len(users) + 1
    BY <1>1, AppendProperties
  <2> QED BY <1>1, <1>2, <2>1 DEF Changed
<1>3. CASE c.op # "add" /\ Contains(users, c.name)
  <2> DEFINE T == {i \in 1..Len(users) : users[i] = c.name}
  <2>1. T \subseteq Nat /\ T # {}
    BY <1>3 DEF Contains
  <2>2. PICK i \in T : \A j \in T : ~(j < i)
    BY <2>1, FirstThere
  <2>3. i \in DOMAIN users /\ users[i] = c.name /\ \A j \in 1..(i - 1) : users[j] # c.name
    BY <1>1, <2>2
  <2> DEFINE k == CHOOSE k \in DOMAIN users :
                    users[k] = c.name /\ \A j \in 1..(k - 1) : users[j] # c.name
  <2>4. k \in DOMAIN users
    BY <2>3
  <2>5. Changed(users, c) = RemoveAt(users, k)
    BY <1>3 DEF Changed, Removed
  <2> HIDE DEF k
  <2>6. RemoveAt(users, k) \in Seq(Names) /\ Len(RemoveAt(users, k)) = Len(users) - 1
    BY <2>4, WithoutOne
  <2>7. Len(users) # 0
    BY <1>1, <2>3
  <2> QED BY <1>1, <2>5, <2>6, <2>7
<1>4. CASE c.op # "add" /\ ~Contains(users, c.name)
  BY <1>1, <1>4 DEF Changed
<1> QED BY <1>2, <1>3, <1>4

-------------------------------------------------------------------------------
(* Storage: the invariant.                                                     *)

\* The command a process of the command line will save is counted already.
Room ==
  /\ Len(file.users) + commands <= MaxCommands
  /\ \A p \in CLIs : phase[p] = "Open" => Len(list[p]) + commands < MaxCommands

\* What a process has is what it loaded, and the command it saves.
ListsFollow ==
  \A p \in Processes :
    /\ phase[p] = "Open" => list[p] = base[p]
    /\ phase[p] = "Writing" => list[p] = Changed(base[p], command[p])

\* Without a conflict one process writes at a time, and to an empty file, what follows
\* from the commands before.
OneWriter ==
  ~conflict =>
    /\ \A p, q \in Processes : phase[p] = "Writing" /\ phase[q] = "Writing" => p = q
    /\ \A p \in Processes : phase[p] = "Writing" => base[p] = done /\ file = Truncated

StorageInv == StorageTypeOK /\ Room /\ ListsFollow /\ OneWriter /\ CarriesOut /\ Readable

LEMMA CommandFacts == NoCommand \notin Commands
BY DEF NoCommand, Commands

\* What a process can load.
LEMMA LoadedType ==
  ASSUME StorageTypeOK, Room
  PROVE  /\ Loaded \in Seq(Names)
         /\ Len(Loaded) \in Nat /\ commands \in Nat /\ Len(Loaded) + commands <= MaxCommands
<1>1. /\ file.users \in Seq(Names) /\ commands \in Nat /\ <<>> \in Seq(Names)
      /\ Len(file.users) + commands <= MaxCommands
  BY EmptySeq DEF StorageTypeOK, Room
<1>2. Len(file.users) \in Nat /\ Len(<<>>) = 0
  BY <1>1, LenProperties
<1> QED BY <1>1, <1>2, StorageAssumption DEF Loaded

LEMMA CountsDown ==
  ASSUME StorageTypeOK, StartsCommand
  PROVE  commands \in Nat /\ commands' \in Nat /\ commands' = commands - 1
BY DEF StorageTypeOK, StartsCommand

\* What a save opens.
LEMMA TruncatedType ==
  /\ Truncated \in [exists : BOOLEAN, readable : BOOLEAN, users : Seq(Names), size : Nat]
  /\ Truncated.exists /\ ~Truncated.readable /\ Truncated.users = <<>> /\ Truncated.size = 0
BY EmptySeq DEF Truncated

\* What it leaves.
LEMMA WrittenType ==
  ASSUME StorageTypeOK, NEW users \in Seq(Names)
  PROVE  /\ Written(users) \in [exists : BOOLEAN, readable : BOOLEAN, users : Seq(Names),
                                size : Nat]
         /\ Written(users).readable =>
              /\ Written(users).exists /\ Written(users).users = users
              /\ Written(users).size = SizeOf(users)
         /\ Written(users).users \in {users, <<>>}
         /\ file = Truncated => Written(users).readable
<1>1. /\ Len(users) \in Nat /\ SizeOf(users) \in Nat /\ <<>> \in Seq(Names)
      /\ file \in [exists : BOOLEAN, readable : BOOLEAN, users : Seq(Names), size : Nat]
  BY LenProperties, EmptySeq DEF SizeOf, StorageTypeOK
<1>2. CASE file.size <= SizeOf(users)
  BY <1>1, <1>2 DEF Written
<1>3. CASE ~(file.size <= SizeOf(users))
  <2>1. file # Truncated
    BY <1>1, <1>3, TruncatedType
  <2>2. Written(users) = [file EXCEPT !.readable = FALSE, !.users = <<>>]
    BY <1>3 DEF Written
  <2> QED BY <1>1, <2>1, <2>2
<1> QED BY <1>2, <1>3

\* A save begins.
LEMMA BeginSaveStep ==
  ASSUME StorageInv, NEW p \in Processes, NEW c \in Commands, BeginSave(p, c),
         phase[p] = "Open", commands' \in Nat, commands' <= commands,
         Len(list[p]) + commands' < MaxCommands
  PROVE  StorageInv'
<1> USE DEF StorageInv
<1>1. /\ list[p] \in Seq(Names) /\ list[p] = base[p] /\ commands \in Nat
      /\ MaxCommands \in Nat
  BY StorageAssumption DEF StorageTypeOK, ListsFollow
<1>2. /\ Changed(list[p], c) \in Seq(Names) /\ Len(Changed(list[p], c)) \in Nat
      /\ Len(list[p]) \in Nat /\ Len(Changed(list[p], c)) <= Len(list[p]) + 1
  BY <1>1, ChangedType
<1>3. /\ file' = Truncated /\ phase' = [phase EXCEPT ![p] = "Writing"]
      /\ list' = [list EXCEPT ![p] = Changed(list[p], c)]
      /\ command' = [command EXCEPT ![p] = c]
      /\ base' = base /\ done' = done /\ broken' = broken
      /\ conflict' = (conflict \/ base[p] # done \/ \E q \in Processes : phase[q] = "Writing")
  BY DEF BeginSave
<1>4. /\ phase' \in [Processes -> {"Closed", "Open", "Writing"}]
      /\ list' \in [Processes -> Seq(Names)] /\ base' \in [Processes -> Seq(Names)]
      /\ command' \in [Processes -> Commands \union {NoCommand}]
      /\ \A q \in Processes :
           /\ phase'[q] = IF q = p THEN "Writing" ELSE phase[q]
           /\ list'[q] = IF q = p THEN Changed(list[p], c) ELSE list[q]
           /\ command'[q] = IF q = p THEN c ELSE command[q]
  BY <1>2, <1>3 DEF StorageTypeOK
<1>5. \A q \in Processes : Len(list'[q]) + commands' <= MaxCommands
  <2> SUFFICES ASSUME NEW q \in Processes PROVE Len(list'[q]) + commands' <= MaxCommands
    OBVIOUS
  <2>1. CASE q = p
    BY <1>1, <1>2, <1>4, <2>1
  <2>2. CASE q # p
    <3>1. Len(list[q]) + commands <= MaxCommands /\ list'[q] = list[q] /\ Len(list[q]) \in Nat
      BY <1>4, <2>2, LenProperties DEF StorageTypeOK
    <3> QED BY <1>1, <3>1
  <2> QED BY <2>1, <2>2
<1>6. \A q \in Processes : command'[q] # NoCommand <=> phase'[q] = "Writing"
  BY <1>4, CommandFacts DEF StorageTypeOK
<1>7. done' \in Seq(Names) /\ conflict' \in BOOLEAN /\ broken' \in BOOLEAN
  BY <1>3 DEF StorageTypeOK
<1>8. StorageTypeOK'
  BY <1>3, <1>4, <1>5, <1>6, <1>7, TruncatedType DEF StorageTypeOK
<1>9. Room'
  <2>1. Len(file'.users) = 0
    BY <1>3, TruncatedType
  <2>2. commands' <= MaxCommands
    BY <1>1, <1>2
  <2>3. ASSUME NEW q \in CLIs, phase'[q] = "Open"
        PROVE  Len(list'[q]) + commands' < MaxCommands
    <3>1. q \in Processes /\ q # p /\ list'[q] = list[q] /\ phase[q] = "Open"
      BY <1>4, <2>3 DEF Processes
    <3>2. Len(list[q]) + commands < MaxCommands /\ Len(list[q]) \in Nat
      BY <2>3, <3>1, LenProperties DEF Room, StorageTypeOK
    <3>3. Len(list[q]) + commands' < MaxCommands
      BY <1>1, <3>2
    <3> QED BY <3>1, <3>3
  <2>4. Len(file'.users) + commands' <= MaxCommands
    <3>1. 0 + commands' <= MaxCommands
      BY <2>2
    <3> QED BY <2>1, <3>1, Zenon
  <2> QED BY <2>3, <2>4 DEF Room
<1>10. ListsFollow'
  BY <1>1, <1>3, <1>4 DEF ListsFollow
<1>11. OneWriter'
  <2> SUFFICES ASSUME ~conflict'
               PROVE  /\ \A q, r \in Processes : phase'[q] = "Writing" /\ phase'[r] = "Writing" => q = r
                      /\ \A q \in Processes :
                           phase'[q] = "Writing" => base'[q] = done' /\ file' = Truncated'
    BY DEF OneWriter
  <2>1. base[p] = done /\ \A q \in Processes : phase[q] # "Writing"
    BY <1>3
  <2>2. Truncated' = Truncated
    BY DEF Truncated
  <2> QED BY <1>3, <1>4, <2>1, <2>2
<1>12. CarriesOut' /\ Readable'
  BY <1>3, <1>4, TruncatedType DEF CarriesOut, Readable
<1> QED BY <1>8, <1>9, <1>10, <1>11, <1>12

\* A save ends.
LEMMA FinishSaveStep ==
  ASSUME StorageInv, NEW p \in Processes, FinishSave(p)
  PROVE  StorageInv'
<1> USE DEF StorageInv
<1>1. /\ phase[p] = "Writing" /\ file' = Written(list[p])
      /\ phase' = [phase EXCEPT ![p] = IF p = Page THEN "Open" ELSE "Closed"]
      /\ command' = [command EXCEPT ![p] = NoCommand]
      /\ done' = Changed(done, command[p])
      /\ base' = [base EXCEPT ![p] = list[p]]
      /\ list' = list /\ commands' = commands /\ conflict' = conflict /\ broken' = broken
  BY DEF FinishSave
<1>2. /\ list[p] \in Seq(Names) /\ command[p] \in Commands
      /\ list[p] = Changed(base[p], command[p])
  BY <1>1 DEF StorageTypeOK, ListsFollow
<1>3. /\ phase' \in [Processes -> {"Closed", "Open", "Writing"}]
      /\ base' \in [Processes -> Seq(Names)]
      /\ command' \in [Processes -> Commands \union {NoCommand}]
      /\ \A q \in Processes :
           /\ phase'[q] = IF q = p THEN IF p = Page THEN "Open" ELSE "Closed" ELSE phase[q]
           /\ base'[q] = IF q = p THEN list[p] ELSE base[q]
           /\ command'[q] = IF q = p THEN NoCommand ELSE command[q]
  BY <1>1, <1>2 DEF StorageTypeOK
<1>4. done' \in Seq(Names)
  BY <1>1, <1>2, ChangedType DEF StorageTypeOK
<1>5. /\ file' \in [exists : BOOLEAN, readable : BOOLEAN, users : Seq(Names), size : Nat]
      /\ file'.readable =>
           file'.exists /\ file'.users = list[p] /\ file'.size = SizeOf(list[p])
      /\ file'.users \in {list[p], <<>>}
      /\ file = Truncated => file'.readable
  BY <1>1, <1>2, WrittenType
<1>6. file'.readable => file'.exists /\ file'.size = SizeOf(file'.users)
  BY <1>5
<1>7. \A q \in Processes : command'[q] # NoCommand <=> phase'[q] = "Writing"
  BY <1>3 DEF StorageTypeOK
<1>8. StorageTypeOK'
  BY <1>1, <1>3, <1>4, <1>5, <1>6, <1>7 DEF StorageTypeOK
<1>9. Room'
  <2>1. Len(list[p]) + commands <= MaxCommands /\ Len(list[p]) \in Nat /\ Len(<<>>) = 0
        /\ commands \in Nat
    BY <1>2, LenProperties DEF StorageTypeOK
  <2>2. Len(file'.users) + commands <= MaxCommands
    BY <1>5, <2>1, StorageAssumption
  <2>3. \A q \in CLIs : phase'[q] = "Open" => phase[q] = "Open"
    BY <1>1, <1>3, StorageAssumption DEF Processes
  <2> QED BY <1>1, <2>2, <2>3 DEF Room
<1>10. ListsFollow'
  BY <1>1, <1>3 DEF ListsFollow
<1>11. ASSUME ~conflict
       PROVE  /\ \A q \in Processes : phase'[q] # "Writing"
              /\ base[p] = done /\ file = Truncated
  <2>1. \A q \in Processes : phase[q] = "Writing" => q = p
    BY <1>1, <1>11 DEF OneWriter
  <2>2. phase'[p] # "Writing"
    BY <1>3
  <2> QED BY <1>1, <1>3, <1>11, <2>1, <2>2 DEF OneWriter
<1>12. OneWriter'
  BY <1>1, <1>11 DEF OneWriter
<1>13. CarriesOut'
  BY <1>1, <1>2, <1>5, <1>11 DEF CarriesOut
<1>14. Readable'
  BY <1>1, <1>5, <1>11 DEF Readable
<1> QED BY <1>8, <1>9, <1>10, <1>12, <1>13, <1>14

\* A process that does not write takes up a list, or ends.
TakesUp(p, to, l, b) ==
  /\ phase[p] # "Writing" /\ phase' = [phase EXCEPT ![p] = to]
  /\ list' = [list EXCEPT ![p] = l] /\ base' = [base EXCEPT ![p] = b]
  /\ commands' \in Nat /\ commands' <= commands /\ Len(l) + commands' <= MaxCommands
  /\ to = "Open" => l = b
  /\ p \in CLIs /\ to = "Open" => Len(l) + commands' < MaxCommands
  /\ UNCHANGED <<file, command, done, conflict, broken>>

LEMMA ListStep ==
  ASSUME StorageInv, NEW p \in Processes, NEW to \in {"Closed", "Open"},
         NEW l \in Seq(Names), NEW b \in Seq(Names), TakesUp(p, to, l, b)
  PROVE  StorageInv'
<1> USE DEF TakesUp
<1> USE DEF StorageInv
<1>1. /\ phase' \in [Processes -> {"Closed", "Open", "Writing"}]
      /\ list' \in [Processes -> Seq(Names)] /\ base' \in [Processes -> Seq(Names)]
      /\ \A q \in Processes :
           /\ phase'[q] = IF q = p THEN to ELSE phase[q]
           /\ list'[q] = IF q = p THEN l ELSE list[q]
           /\ base'[q] = IF q = p THEN b ELSE base[q]
           /\ phase'[q] = "Writing" <=> phase[q] = "Writing"
  BY DEF StorageTypeOK
<1>2. commands \in Nat /\ MaxCommands \in Nat
  BY StorageAssumption DEF StorageTypeOK
<1>3. \A q \in Processes : Len(list'[q]) + commands' <= MaxCommands
  <2> SUFFICES ASSUME NEW q \in Processes, q # p
               PROVE  Len(list'[q]) + commands' <= MaxCommands
    BY <1>1
  <2>1. Len(list[q]) + commands <= MaxCommands /\ list'[q] = list[q] /\ Len(list[q]) \in Nat
    BY <1>1, LenProperties DEF StorageTypeOK
  <2> QED BY <1>2, <2>1
<1>4. StorageTypeOK'
  BY <1>1, <1>3 DEF StorageTypeOK, SizeOf
<1>5. Room'
  <2>1. Len(file.users) \in Nat /\ Len(file.users) + commands <= MaxCommands
    BY LenProperties DEF Room, StorageTypeOK
  <2>2. ASSUME NEW q \in CLIs, q # p, phase'[q] = "Open"
        PROVE  Len(list'[q]) + commands' < MaxCommands
    <3>1. q \in Processes /\ list'[q] = list[q] /\ phase[q] = "Open"
      BY <1>1, <2>2 DEF Processes
    <3>2. Len(list[q]) + commands < MaxCommands /\ Len(list[q]) \in Nat
      BY <2>2, <3>1, LenProperties DEF Room, StorageTypeOK
    <3> QED BY <1>2, <3>1, <3>2
  <2>3. \A q \in CLIs : phase'[q] = "Open" => Len(list'[q]) + commands' < MaxCommands
    BY <1>1, <2>2
  <2> QED BY <1>2, <2>1, <2>3 DEF Room
<1>6. ListsFollow'
  <2> SUFFICES ASSUME NEW q \in Processes
               PROVE  /\ phase'[q] = "Open" => list'[q] = base'[q]
                      /\ phase'[q] = "Writing" => list'[q] = Changed(base'[q], command'[q])
    BY DEF ListsFollow, Changed, Removed
  <2>1. CASE q = p
    BY <1>1, <2>1
  <2>2. CASE q # p
    BY <1>1, <2>2 DEF ListsFollow
  <2> QED BY <2>1, <2>2
<1>7. OneWriter'
  BY <1>1 DEF OneWriter, Truncated
<1>8. CarriesOut' /\ Readable'
  BY <1>1 DEF CarriesOut, Readable
<1> QED BY <1>4, <1>5, <1>6, <1>7, <1>8

\* A process is killed while it writes.
LEMMA BreakOffStep ==
  ASSUME StorageInv, NEW p \in Processes, BreakOff(p)
  PROVE  StorageInv'
<1> USE DEF StorageInv
<1>1. /\ phase[p] = "Writing" /\ phase' = [phase EXCEPT ![p] = "Closed"]
      /\ command' = [command EXCEPT ![p] = NoCommand] /\ broken' = TRUE
      /\ UNCHANGED <<file, list, base, commands, done, conflict>>
  BY DEF BreakOff
<1>2. /\ phase' \in [Processes -> {"Closed", "Open", "Writing"}]
      /\ command' \in [Processes -> Commands \union {NoCommand}]
      /\ \A q \in Processes :
           /\ phase'[q] = IF q = p THEN "Closed" ELSE phase[q]
           /\ command'[q] = IF q = p THEN NoCommand ELSE command[q]
  BY <1>1 DEF StorageTypeOK
<1>3. StorageTypeOK'
  BY <1>1, <1>2 DEF StorageTypeOK, SizeOf
<1>4. Room'
  BY <1>1, <1>2 DEF Room, Processes
<1>5. ListsFollow'
  <2> SUFFICES ASSUME NEW q \in Processes
               PROVE  /\ phase'[q] = "Open" => list'[q] = base'[q]
                      /\ phase'[q] = "Writing" => list'[q] = Changed(base'[q], command'[q])
    BY DEF ListsFollow, Changed, Removed
  <2> QED BY <1>1, <1>2 DEF ListsFollow
<1>6. OneWriter'
  BY <1>1, <1>2 DEF OneWriter, Truncated
<1>7. CarriesOut' /\ Readable'
  BY <1>1 DEF CarriesOut, Readable
<1> QED BY <1>3, <1>4, <1>5, <1>6, <1>7

LEMMA StorageStep ==
  ASSUME StorageInv, [StorageNext]_storageVars
  PROVE  StorageInv'
<1> USE StorageAssumption
<1>1. /\ Loaded \in Seq(Names) /\ Len(Loaded) \in Nat /\ commands \in Nat
      /\ Len(Loaded) + commands <= MaxCommands
  BY LoadedType DEF StorageInv
<1>2. \A p \in Processes :
        /\ list[p] \in Seq(Names) /\ base[p] \in Seq(Names) /\ Len(list[p]) \in Nat
        /\ Len(list[p]) + commands <= MaxCommands
        /\ list[p] = list[p] /\ list = [list EXCEPT ![p] = list[p]]
        /\ base = [base EXCEPT ![p] = base[p]]
  BY LenProperties DEF StorageInv, StorageTypeOK
<1>3. StartsCommand => commands' \in Nat /\ commands' = commands - 1 /\ commands' <= commands
  BY <1>1, CountsDown DEF StorageInv
<1>4. Page \in Processes /\ Page \notin CLIs /\ \A p \in CLIs : p \in Processes
  BY DEF Processes
<1>5. ASSUME NEW p \in CLIs, CLILoad(p)
      PROVE  StorageInv'
  <2>1. Len(Loaded) + commands' < MaxCommands /\ commands' \in Nat /\ commands' <= commands
    BY <1>1, <1>3, <1>5 DEF CLILoad
  <2>2. TakesUp(p, "Open", Loaded, Loaded)
    BY <1>1, <1>5, <2>1 DEF CLILoad, TakesUp
  <2> QED BY <1>1, <1>4, <2>2, ListStep
<1>6. ASSUME NEW p \in Processes, phase[p] = "Open", phase' = [phase EXCEPT ![p] = "Closed"],
             UNCHANGED <<file, list, base, command, commands, done, conflict, broken>>
      PROVE  StorageInv'
  <2>1. TakesUp(p, "Closed", list[p], base[p])
    BY <1>1, <1>2, <1>6 DEF TakesUp
  <2> QED BY <1>2, <2>1, ListStep
<1>7. ASSUME NEW p \in CLIs, CLIEnd(p)
      PROVE  StorageInv'
  BY <1>4, <1>6, <1>7 DEF CLIEnd
<1>8. ASSUME NEW p \in CLIs, CLISave(p)
      PROVE  StorageInv'
  <2>1. PICK c \in Commands : BeginSave(p, c)
    BY <1>8 DEF CLISave
  <2>2. phase[p] = "Open" /\ commands' = commands
    BY <1>8 DEF CLISave
  <2>3. Len(list[p]) + commands' < MaxCommands
    BY <2>2 DEF StorageInv, Room
  <2> QED BY <1>1, <1>4, <2>1, <2>2, <2>3, BeginSaveStep
<1>9. CASE PageLoad
  <2>1. TakesUp(Page, "Open", Loaded, Loaded)
    BY <1>1, <1>4, <1>9 DEF PageLoad, TakesUp
  <2> QED BY <1>1, <1>4, <2>1, ListStep
<1>10. CASE PageSave
  <2>1. PICK c \in Commands : BeginSave(Page, c)
    BY <1>10 DEF PageSave
  <2>2. phase[Page] = "Open" /\ StartsCommand
    BY <1>10 DEF PageSave
  <2>3. Len(list[Page]) + commands' < MaxCommands
    BY <1>1, <1>2, <1>3, <1>4, <2>2
  <2> QED BY <1>3, <1>4, <2>1, <2>2, <2>3, BeginSaveStep
<1>11. CASE PageRefused
  <2> DEFINE to == IF LoadFails THEN "Closed" ELSE "Open"
  <2>1. /\ Len(Loaded) + commands' <= MaxCommands /\ commands' \in Nat /\ commands' <= commands
        /\ to \in {"Closed", "Open"}
    BY <1>1, <1>3, <1>11 DEF PageRefused
  <2>2. TakesUp(Page, to, Loaded, Loaded)
    BY <1>4, <1>11, <2>1 DEF PageRefused, TakesUp
  <2> HIDE DEF to
  <2> QED BY <1>1, <1>4, <2>1, <2>2, ListStep
<1>12. CASE PageEnd
  BY <1>4, <1>6, <1>12 DEF PageEnd
<1>13. ASSUME NEW p \in Processes, FinishSave(p) \/ BreakOff(p)
       PROVE  StorageInv'
  BY <1>13, FinishSaveStep, BreakOffStep
<1>14. CASE UNCHANGED storageVars
  <2>1. UNCHANGED <<file, phase, list, base, command, commands, done, conflict, broken>>
    BY <1>14 DEF storageVars
  <2>2. StorageTypeOK' /\ Room'
    BY <2>1 DEF StorageInv, StorageTypeOK, Room, SizeOf
  <2>3. ListsFollow' /\ OneWriter' /\ CarriesOut' /\ Readable'
    BY <2>1 DEF StorageInv, ListsFollow, Changed, Removed, OneWriter, Truncated, CarriesOut,
                Readable
  <2> QED BY <2>2, <2>3 DEF StorageInv
<1> QED BY <1>5, <1>7, <1>8, <1>9, <1>10, <1>11, <1>12, <1>13, <1>14 DEF StorageNext

LEMMA StorageStart == StorageInit => StorageInv
<1> SUFFICES ASSUME StorageInit PROVE StorageInv
  OBVIOUS
<1>1. <<>> \in Seq(Names) /\ Len(<<>>) = 0
  BY EmptySeq
<1>2. /\ file = [readable |-> FALSE, users |-> <<>>, size |-> 0, exists |-> FALSE]
      /\ file \in [exists : BOOLEAN, readable : BOOLEAN, users : Seq(Names), size : Nat]
      /\ commands = MaxCommands /\ MaxCommands \in Nat /\ done = <<>>
      /\ \A p \in Processes : phase[p] = "Closed" /\ list[p] = <<>> /\ command[p] = NoCommand
  BY <1>1, StorageAssumption DEF StorageInit
<1>3. StorageTypeOK
  <2>1. /\ phase \in [Processes -> {"Closed", "Open", "Writing"}]
        /\ list \in [Processes -> Seq(Names)] /\ base \in [Processes -> Seq(Names)]
        /\ command \in [Processes -> Commands \union {NoCommand}]
    BY <1>1 DEF StorageInit
  <2>2. ~file.readable
    BY <1>2
  <2>3. \A p \in Processes : Len(list[p]) + commands <= MaxCommands
    BY <1>1, <1>2
  <2>4. conflict \in BOOLEAN /\ broken \in BOOLEAN
    BY DEF StorageInit
  <2>5. \A p \in Processes : command[p] # NoCommand <=> phase[p] = "Writing"
    BY <1>2
  <2> QED BY <1>1, <1>2, <2>1, <2>2, <2>3, <2>4, <2>5 DEF StorageTypeOK
<1>4. Room
  BY <1>1, <1>2 DEF Room, Processes
<1>5. ListsFollow /\ OneWriter /\ CarriesOut /\ Readable
  BY <1>2 DEF ListsFollow, OneWriter, CarriesOut, Readable
<1> QED BY <1>3, <1>4, <1>5 DEF StorageInv

LEMMA StorageInvHolds == StorageSpec => []StorageInv
BY StorageStart, StorageStep, PTL DEF StorageSpec

-------------------------------------------------------------------------------
(* Storage: the theorems.                                                      *)

\* Whatever processes there are and however many users: the types hold, and a list has
\* no more users than there were commands (StorageMulti).
THEOREM StorageTypeCorrect == StorageSpec => []StorageTypeOK
<1>1. StorageInv => StorageTypeOK
  BY DEF StorageInv
<1> QED BY <1>1, StorageInvHolds, PTL

\* Without a conflict the file holds what the commands of all processes come to, in the
\* order of their saves: a refused save, a process that ends and a crash leave no trace.
THEOREM CommandsAreCarriedOut == StorageSpec => []CarriesOut
<1>1. StorageInv => CarriesOut
  BY DEF StorageInv
<1> QED BY <1>1, StorageInvHolds, PTL

\* What cannot be loaded is being written, or was left by a crash or by two processes
\* that wrote at once (save truncates the file before it writes).
THEOREM FileStaysReadable == StorageSpec => []Readable
<1>1. StorageInv => Readable
  BY DEF StorageInv
<1> QED BY <1>1, StorageInvHolds, PTL
===============================================================================
