---------------------------- MODULE SendLoopProofs ----------------------------
(***************************************************************************)
(* SendLoop for every number of attempts, inputs and clicks of the user: its  *)
(* types, how many input threads there are, and which of them may disconnect.  *)
(***************************************************************************)
EXTENDS SendLoop, SequenceTheorems, FiniteSetTheorems, TLAPS

\* A connected client has a socket, so that each loop gets one.
ConnectedHasSocket == state = "Connected" => socket # NoSocket

LoopInv == TypeOK /\ ConnectedHasSocket /\ LoopsAccounted

Actions == {"Connect", "Disconnect", "Volume", "UpdateState", "Handshake", "Reconnect"}
Loops == [socket : 1..MaxAttempts, at : {"Top", "Receiving", "Stopping", "Ended"}]

LEMMA SpendsType ==
  ASSUME TypeOK, NEW bound \in {"user", "losses", "attempts", "inputs"}, Spends(bound)
  PROVE  /\ bounds' \in [{"user", "losses", "attempts", "inputs"} -> Nat]
         /\ bounds'.attempts <= MaxAttempts
BY SendLoopAssumption, SMTT(30) DEF TypeOK, Spends

LEMMA QueueType ==
  ASSUME NEW S, NEW q \in Seq(S), NEW e \in S
  PROVE  /\ Append(q, e) \in Seq(S)
         /\ q # <<>> => Tail(q) \in Seq(S) /\ Append(Tail(q), e) \in Seq(S)
OBVIOUS

\* What an attempt leaves of the client.
LEMMA AttemptType ==
  ASSUME TypeOK, ConnectedHasSocket, NEW outcome \in Outcomes, Attempt(outcome)
  PROVE  /\ socket' \in 0..MaxAttempts
         /\ state' \in {"Disconnected", "Connecting", "Connected"}
         /\ ConnectedHasSocket'
         /\ entries' \subseteq 1..MaxAttempts
         /\ bounds' \in [{"user", "losses", "attempts", "inputs"} -> Nat]
         /\ bounds'.attempts <= MaxAttempts
<1>1. Spends("attempts") /\ bounds.attempts \in 1..MaxAttempts
  BY SendLoopAssumption DEF TypeOK, Attempt, Spends
<1>2. NextSocket \in 1..MaxAttempts
  BY <1>1, SendLoopAssumption DEF NextSocket
<1>3. AttemptSocket \in 0..MaxAttempts /\ (socket # NoSocket => AttemptSocket # NoSocket)
  BY <1>2, SendLoopAssumption DEF AttemptSocket, OpensSocket, TypeOK, NoSocket
<1>4. bounds' \in [{"user", "losses", "attempts", "inputs"} -> Nat]
      /\ bounds'.attempts <= MaxAttempts
  BY <1>1, SpendsType
<1>5. /\ socket' \in 0..MaxAttempts
      /\ state' \in {"Disconnected", "Connecting", "Connected"}
      /\ ConnectedHasSocket'
  <2>1. socket \in 0..MaxAttempts /\ state \in {"Disconnected", "Connecting", "Connected"}
    BY DEF TypeOK
  <2>2. /\ socket' \in {socket, AttemptSocket, NoSocket}
        /\ state' \in {state, "Connected", "Disconnected"}
        /\ socket' = NoSocket => state' = "Disconnected" \/ (socket = NoSocket /\ state' = state)
    <3>1. CASE outcome = "succeeds"
      BY <3>1 DEF Attempt
    <3>2. CASE outcome = "fails"
      BY <1>3, <3>2 DEF Attempt
    <3>3. CASE outcome = "mismatch"
      BY <3>3 DEF Attempt
    <3> QED BY <3>1, <3>2, <3>3 DEF Outcomes
  <2>3. NoSocket \in 0..MaxAttempts
    BY SendLoopAssumption DEF NoSocket, SendLoopAssumption
  <2>4. ConnectedHasSocket'
    BY <2>2 DEF ConnectedHasSocket
  <2> QED BY <1>3, <2>1, <2>2, <2>3, <2>4
<1>6. entries' \subseteq 1..MaxAttempts
  <2>1. /\ entries \subseteq 1..MaxAttempts
        /\ {AttemptSocket} \ {NoSocket} \subseteq 1..MaxAttempts
        /\ {socket'} \ {NoSocket} \subseteq 1..MaxAttempts
    <3>1. entries \subseteq 1..MaxAttempts
      BY DEF TypeOK
    <3>2. \A s \in 0..MaxAttempts : {s} \ {NoSocket} \subseteq 1..MaxAttempts
      BY SendLoopAssumption DEF NoSocket, SendLoopAssumption
    <3> QED BY <1>3, <1>5, <3>1, <3>2
  <2>2. \/ entries' = entries
        \/ entries' = entries \union ({socket'} \ {NoSocket})
        \/ entries' = entries \union ({AttemptSocket} \ {NoSocket})
        \/ entries' = entries \ {AttemptSocket}
    <3>1. CASE outcome = "succeeds"
      BY <3>1 DEF Attempt
    <3>2. CASE outcome = "fails"
      BY <3>2 DEF Attempt
    <3>3. CASE outcome = "mismatch"
      BY <3>3 DEF Attempt
    <3> QED BY <3>1, <3>2, <3>3 DEF Outcomes
  <2> QED BY <2>1, <2>2
<1> QED BY <1>4, <1>5, <1>6

\* The queue after an attempt.
LEMMA AfterType ==
  ASSUME TypeOK, NEW action, Takes(action), NEW outcome
  PROVE  /\ After(outcome) \in Seq(Actions)
         /\ Append(Tail(actions), "Handshake") \in Seq(Actions) /\ Tail(actions) \in Seq(Actions)
<1>1. /\ actions \in Seq(Actions) /\ actions # <<>>
      /\ "UpdateState" \in Actions /\ "Handshake" \in Actions
  BY DEF TypeOK, Takes, Actions
<1>2. /\ Tail(actions) \in Seq(Actions)
      /\ Append(Tail(actions), "UpdateState") \in Seq(Actions)
      /\ Append(Tail(actions), "Handshake") \in Seq(Actions)
  BY <1>1
<1> QED BY <1>2 DEF After

LEMMA StartLoopType ==
  ASSUME TypeOK, StartLoop, socket' \in 1..MaxAttempts
  PROVE  connected' = TRUE /\ loops' \in Seq(Loops) /\ leaks' \in Nat
<1>1. [socket |-> socket', at |-> "Top"] \in Loops
  BY DEF Loops
<1> QED BY <1>1, QueueType DEF TypeOK, StartLoop, Loops

LEMMA LoopGoesType ==
  ASSUME TypeOK, NEW k \in DOMAIN loops,
         NEW place \in {"Top", "Receiving", "Stopping", "Ended"}, LoopGoes(k, place)
  PROVE  loops' \in Seq(Loops)
<1>1. loops \in Seq(Loops) /\ k \in 1..Len(loops)
  BY DEF TypeOK, Loops
<1>2. loops[k] \in Loops
  BY <1>1
<1>3. [loops[k] EXCEPT !.at = place] \in Loops
  BY <1>2 DEF Loops
<1> QED BY <1>1, <1>3, ExceptSeq DEF LoopGoes

LEMMA DisconnectsType ==
  ASSUME TypeOK, ConnectedHasSocket, Disconnects
  PROVE  /\ socket' \in 0..MaxAttempts /\ entries' \subseteq 1..MaxAttempts
         /\ ConnectedHasSocket' /\ state' \in {"Disconnected", "Connecting", "Connected"}
<1>1. /\ socket' \in {socket, 0} /\ entries' = entries \ {socket}
      /\ (state' = state /\ socket' = socket) \/ state' = "Disconnected"
  BY DEF Disconnects, NoSocket
<1>2. socket' \in 0..MaxAttempts /\ entries' \subseteq 1..MaxAttempts
  BY <1>1, SendLoopAssumption, SMTT(30) DEF TypeOK, SendLoopAssumption
<1>3. ConnectedHasSocket' /\ state' \in {"Disconnected", "Connecting", "Connected"}
  BY <1>1 DEF TypeOK, ConnectedHasSocket, NoSocket
<1> QED BY <1>2, <1>3

LEMMA TypeStep ==
  ASSUME TypeOK, ConnectedHasSocket, [Next]_vars
  PROVE  TypeOK' /\ ConnectedHasSocket'
<1> USE SendLoopAssumption
<1>1. CASE UserAction
  <2>1. actions' \in Seq(Actions)
    BY <1>1, QueueType DEF TypeOK, UserAction, Actions
  <2>2. /\ UNCHANGED <<state, socket, at, connected, channel, checked, loops, entries, leaks>>
        /\ unserved' = unserved
    BY <1>1 DEF UserAction, inputVars, history
  <2> QED BY <1>1, <2>1, <2>2, SpendsType DEF TypeOK, UserAction, Actions, ConnectedHasSocket
<1>2. CASE CheckFlag
  BY <1>2, SpendsType DEF TypeOK, CheckFlag, mainVars, history, ConnectedHasSocket
<1>3. CASE QueueInput
  <2>1. channel' \in Seq({Input, EOL})
    BY <1>3, QueueType DEF TypeOK, QueueInput
  <2> QED BY <1>3, <2>1 DEF TypeOK, QueueInput, mainVars, history, ConnectedHasSocket
<1>4. CASE HandleConnect
  <2>1. actions' \in Seq(Actions)
    BY <1>4, AfterType DEF HandleConnect
  <2> QED BY <1>4, <2>1
          DEF TypeOK, HandleConnect, Actions, inputVars, history, ConnectedHasSocket
<1>5. CASE HandleOther
  <2>1. actions' \in Seq(Actions)
    BY <1>5, AfterType DEF HandleOther
  <2> QED BY <1>5, <2>1
          DEF TypeOK, HandleOther, Actions, inputVars, history, ConnectedHasSocket
<1>6. CASE HandleHandshake
  <2>1. PICK outcome \in Outcomes :
          /\ Attempt(outcome)
          /\ actions' \in {After(outcome), Tail(actions), Append(Tail(actions), "Handshake")}
          /\ at' \in {"Recv", at}
          /\ \/ state' = "Connected" /\ StartLoop
             \/ UNCHANGED <<connected, loops, leaks>>
    BY <1>6 DEF HandleHandshake
  <2>2. actions' \in Seq(Actions)
    BY <1>6, <2>1, AfterType DEF HandleHandshake
  <2>3. connected' \in BOOLEAN /\ loops' \in Seq(Loops) /\ leaks' \in Nat
    <3>1. CASE state' = "Connected" /\ StartLoop
      <4>1. socket' \in 1..MaxAttempts
        BY <2>1, <3>1, AttemptType DEF ConnectedHasSocket, NoSocket
      <4> QED BY <3>1, <4>1, StartLoopType
    <3>2. CASE UNCHANGED <<connected, loops, leaks>>
      BY <3>2 DEF TypeOK, Loops
    <3> QED BY <2>1, <3>1, <3>2
  <2>4. UNCHANGED <<channel, checked, unserved>>
    BY <1>6 DEF HandleHandshake
  <2> QED BY <2>1, <2>2, <2>3, <2>4, AttemptType DEF TypeOK, Actions, Loops
<1>7. CASE HandleReconnect
  <2>1. PICK outcome \in Outcomes : Attempt(outcome) /\ actions' = After(outcome)
    BY <1>7 DEF HandleReconnect
  <2>2. actions' \in Seq(Actions)
    BY <1>7, <2>1, AfterType DEF HandleReconnect
  <2>3. /\ unserved' \in BOOLEAN /\ at' = "Recv"
        /\ UNCHANGED <<connected, channel, checked, loops, leaks>>
    BY <1>7 DEF HandleReconnect, inputVars, TypeOK
  <2> QED BY <2>1, <2>2, <2>3, AttemptType DEF TypeOK, Actions
<1>13. CASE BeginReceive \/ ReceivePacket
  BY <1>13 DEF TypeOK, BeginReceive, ReceivePacket, inputVars, history, ConnectedHasSocket
<1>14. CASE ReceiveFails
  <2>1. actions' \in Seq(Actions)
    <3>1. actions \in Seq(Actions) /\ "Reconnect" \in Actions
      BY DEF TypeOK, Actions
    <3>2. actions' = actions \/ actions' = Append(actions, "Reconnect")
      BY <1>14 DEF ReceiveFails
    <3>3. Append(actions, "Reconnect") \in Seq(Actions)
      BY <3>1, QueueType
    <3> QED BY <3>1, <3>2, <3>3
  <2>2. /\ bounds' \in [{"user", "losses", "attempts", "inputs"} -> Nat]
        /\ bounds'.attempts <= MaxAttempts
    BY <1>14, SpendsType DEF TypeOK, ReceiveFails
  <2>3. /\ at' = "Loop" /\ state' = "Disconnected"
        /\ UNCHANGED <<socket, connected, channel, checked, loops, entries, leaks, unserved>>
    BY <1>14 DEF ReceiveFails, inputVars, history
  <2> QED BY <2>1, <2>2, <2>3 DEF TypeOK, Actions, ConnectedHasSocket
<1>8. CASE DisconnectUnconnected
  <2>1. actions' \in Seq(Actions)
    BY <1>8, AfterType DEF DisconnectUnconnected
  <2>2. /\ Disconnects
        /\ UNCHANGED <<at, connected, channel, checked, loops, bounds, leaks, unserved>>
    BY <1>8 DEF DisconnectUnconnected, inputVars, history
  <2> QED BY <2>1, <2>2, DisconnectsType DEF TypeOK, Actions
<1>9. CASE CloseSendLoop
  <2>1. actions' \in Seq(Actions) /\ channel' \in Seq({Input, EOL})
    BY <1>9, QueueType, AfterType DEF TypeOK, CloseSendLoop
  <2>2. /\ at' = "Closing"
        /\ UNCHANGED <<state, socket, connected, checked, loops, entries, bounds, leaks, unserved>>
    BY <1>9 DEF CloseSendLoop, history
  <2> QED BY <2>1, <2>2 DEF TypeOK, Actions, ConnectedHasSocket
<1>10. CASE FinishDisconnect
  <2>1. /\ Disconnects
        /\ at' = "Loop"
        /\ UNCHANGED <<actions, connected, channel, checked, loops, bounds, leaks, unserved>>
    BY <1>10 DEF FinishDisconnect, inputVars, history
  <2> QED BY <2>1, DisconnectsType DEF TypeOK
<1>11. ASSUME NEW k \in DOMAIN loops, LoopStep(k)
       PROVE  TypeOK' /\ ConnectedHasSocket'
  <2>1. loops' \in Seq(Loops)
    BY <1>11, LoopGoesType DEF LoopStep, CheckConnected, SendInput, ReceiveEOL, StopLoop,
                               LoopDisconnects
  <2>2. channel' \in Seq({Input, EOL})
    <3>1. channel \in Seq({Input, EOL})
      BY DEF TypeOK
    <3>2. channel' = channel \/ (channel # <<>> /\ channel' = Tail(channel))
      BY <1>11 DEF LoopStep, CheckConnected, SendInput, ReceiveEOL, StopLoop
    <3>3. channel # <<>> => Tail(channel) \in Seq({Input, EOL})
      BY <3>1, QueueType
    <3> QED BY <3>1, <3>2, <3>3
  <2>3. entries' \subseteq 1..MaxAttempts
    BY <1>11 DEF TypeOK, LoopStep, CheckConnected, SendInput, ReceiveEOL, StopLoop,
                 LoopDisconnects
  <2> QED BY <1>11, <2>1, <2>2, <2>3
          DEF TypeOK, LoopStep, CheckConnected, SendInput, ReceiveEOL, StopLoop, mainVars,
              history, ConnectedHasSocket, Loops
<1>12. CASE UNCHANGED vars
  <2>1. UNCHANGED <<actions, state, socket, at, connected, channel, checked, loops, entries,
                    bounds, leaks, unserved>>
    BY <1>12 DEF vars, mainVars, inputVars
  <2> QED BY <2>1 DEF TypeOK, ConnectedHasSocket
<1> QED BY <1>1, <1>2, <1>3, <1>4, <1>5, <1>6, <1>7, <1>8, <1>9, <1>10, <1>11, <1>12,
           <1>13, <1>14 DEF Next

-------------------------------------------------------------------------------
(* How many loops there are.                                                   *)

LEMMA AliveFinite ==
  ASSUME TypeOK
  PROVE  IsFiniteSet(Alive) /\ Cardinality(Alive) \in Nat
<1>1. DOMAIN loops = 1..Len(loops) /\ Len(loops) \in Nat
  BY LenProperties DEF TypeOK
<1>2. IsFiniteSet(1..Len(loops))
  BY <1>1, FS_Interval
<1>3. Alive \subseteq 1..Len(loops)
  BY <1>1 DEF Alive
<1> QED BY <1>2, <1>3, FS_Subset, FS_CardinalityType

LEMMA StartedIsAlive ==
  ASSUME TypeOK, StartLoop
  PROVE  Alive' # {} /\ Cardinality(Alive') = Cardinality(Alive) + 1
<1>1. loops \in Seq(Loops) /\ Len(loops) \in Nat
  BY LenProperties DEF TypeOK, Loops
<1>2. /\ DOMAIN loops = 1..Len(loops) /\ DOMAIN loops' = 1..(Len(loops) + 1)
      /\ \A k \in 1..Len(loops) : loops'[k] = loops[k]
      /\ loops'[Len(loops) + 1].at = "Top"
  BY <1>1 DEF StartLoop
<1>3. Alive' = Alive \union {Len(loops) + 1} /\ Len(loops) + 1 \notin Alive
  BY <1>1, <1>2 DEF Alive
<1> QED BY <1>3, AliveFinite, FS_AddElement

LEMMA GoingStaysAlive ==
  ASSUME TypeOK, NEW k \in DOMAIN loops, loops[k].at # "Ended",
         NEW place, LoopGoes(k, place)
  PROVE  Alive' = IF place = "Ended" THEN Alive \ {k} ELSE Alive
<1>1. loops \in Seq(Loops) /\ DOMAIN loops' = DOMAIN loops
  BY DEF TypeOK, Loops, LoopGoes
<1>2. \A j \in DOMAIN loops : loops'[j].at = IF j = k THEN place ELSE loops[j].at
  <2>1. loops[k] \in Loops
    BY <1>1
  <2> QED BY <1>1, <2>1 DEF LoopGoes, Loops
<1> QED BY <1>1, <1>2 DEF Alive

LEMMA AccountedStep ==
  ASSUME TypeOK, LoopsAccounted, [Next]_vars
  PROVE  LoopsAccounted'
<1>0. IsFiniteSet(Alive) /\ Cardinality(Alive) \in Nat /\ leaks \in Nat /\ connected \in BOOLEAN
  BY AliveFinite DEF TypeOK
<1>1. CASE StartLoop
  <2>1. Alive' # {} /\ Cardinality(Alive') = Cardinality(Alive) + 1
    BY <1>1, StartedIsAlive
  <2>2. connected' = TRUE /\ leaks' = IF connected THEN leaks + 1 ELSE leaks
    BY <1>1 DEF StartLoop
  <2> QED BY <1>0, <2>1, <2>2 DEF LoopsAccounted
<1>2. CASE UNCHANGED <<connected, loops, leaks>>
  BY <1>2 DEF LoopsAccounted, Alive
<1>3. ASSUME NEW k \in DOMAIN loops, StopLoop(k)
      PROVE  LoopsAccounted'
  <2>1. /\ loops[k].at = "Stopping" /\ LoopGoes(k, "Ended")
        /\ connected' = FALSE /\ leaks' = leaks
    BY <1>3 DEF StopLoop, history
  <2>2. Alive' = Alive \ {k} /\ k \in Alive
    BY <2>1, GoingStaysAlive DEF Alive
  <2>3. Cardinality(Alive') = Cardinality(Alive) - 1
    BY <1>0, <2>2, FS_RemoveElement
  <2> QED BY <1>0, <2>1, <2>3 DEF LoopsAccounted
<1>4. ASSUME NEW k \in DOMAIN loops, CheckConnected(k) \/ SendInput(k) \/ ReceiveEOL(k)
      PROVE  LoopsAccounted'
  <2>1. /\ loops[k].at # "Ended"
        /\ \E place \in {"Top", "Receiving", "Stopping"} : LoopGoes(k, place)
        /\ UNCHANGED <<connected, leaks>>
    BY <1>4 DEF CheckConnected, SendInput, ReceiveEOL, LoopDisconnects, history
  <2>2. Alive' = Alive
    BY <2>1, GoingStaysAlive
  <2> QED BY <2>1, <2>2 DEF LoopsAccounted
<1>5. ASSUME ~(\E k \in DOMAIN loops : LoopStep(k)), Next
      PROVE  StartLoop \/ UNCHANGED <<connected, loops, leaks>>
  BY <1>5 DEF Next, UserAction, CheckFlag, QueueInput, HandleConnect, HandleOther,
              HandleHandshake, HandleReconnect, BeginReceive, ReceivePacket, ReceiveFails,
              DisconnectUnconnected, CloseSendLoop, FinishDisconnect, inputVars, history
<1>6. UNCHANGED vars => UNCHANGED <<connected, loops, leaks>>
  BY DEF vars, inputVars
<1> QED BY <1>1, <1>2, <1>3, <1>4, <1>5, <1>6 DEF LoopStep

LEMMA LoopInvInit == Init => LoopInv
<1> SUFFICES ASSUME Init PROVE LoopInv
  OBVIOUS
<1>1. TypeOK /\ ConnectedHasSocket
  <2>1. actions \in Seq(Actions) /\ channel \in Seq({Input, EOL}) /\ loops \in Seq(Loops)
    BY EmptySeq DEF Init
  <2>2. /\ bounds \in [{"user", "losses", "attempts", "inputs"} -> Nat]
        /\ bounds.attempts <= MaxAttempts
    BY SendLoopAssumption DEF Init
  <2>3. socket \in 0..MaxAttempts
    BY SendLoopAssumption DEF Init, NoSocket
  <2> QED BY <2>1, <2>2, <2>3 DEF Init, TypeOK, ConnectedHasSocket, Actions, Loops
<1>2. Alive = {}
  BY DEF Init, Alive
<1>3. LoopsAccounted
  BY <1>2, FS_EmptySet DEF Init, LoopsAccounted
<1> QED BY <1>1, <1>3 DEF LoopInv

LEMMA LoopInvHolds == Spec => []LoopInv
<1>1. LoopInv /\ [Next]_vars => LoopInv'
  BY TypeStep, AccountedStep DEF LoopInv
<1> QED BY <1>1, LoopInvInit, PTL DEF Spec

-------------------------------------------------------------------------------
(* Why a loop is not cut off: there is no second one, and the end that waits   *)
(* in the channel is the one close_send_loop queued and waits for.             *)

Has(q, e) == \E i \in DOMAIN q : q[i] = e
Once(q, e) == \A i, j \in DOMAIN q : q[i] = e /\ q[j] = e => i = j

\* A connected client has its loop running, so the flag is set when close_send_loop queues
\* the end.
LoopServes == Connected /\ at # "Closing" => Serves(socket)

\* One end at a time, and a loop stops only after it took it.
EndsAreOwn ==
  /\ Once(channel, EOL)
  /\ Has(channel, EOL) => at = "Closing" /\ connected
  /\ \A k \in DOMAIN loops : loops[k].at = "Stopping" => at = "Closing" /\ ~Has(channel, EOL)

Undisturbed == Disturbed \/ (LoopServes /\ EndsAreOwn)

\* What is left of a queue when its first element is taken.
LEMMA TailHas ==
  ASSUME NEW S, NEW q \in Seq(S), q # <<>>, NEW e
  PROVE  /\ Has(Tail(q), e) => Has(q, e)
         /\ Once(q, e) => Once(Tail(q), e)
         /\ Once(q, e) /\ Head(q) = e => ~Has(Tail(q), e)
         /\ Head(q) = e => Has(q, e)
         /\ Tail(q) # q
<1>1. /\ Len(q) \in Nat /\ Len(q) >= 1 /\ DOMAIN q = 1..Len(q) /\ Head(q) = q[1]
      /\ Len(Tail(q)) = Len(q) - 1 /\ DOMAIN Tail(q) = 1..(Len(q) - 1)
      /\ \A i \in 1..(Len(q) - 1) : Tail(q)[i] = q[i + 1]
  <2>1. Tail(q) \in Seq(S) /\ Len(Tail(q)) = Len(q) - 1
        /\ \A i \in 1..Len(Tail(q)) : Tail(q)[i] = q[i + 1]
    BY HeadTailProperties
  <2>2. Len(q) \in Nat /\ Len(q) >= 1 /\ DOMAIN q = 1..Len(q) /\ Head(q) = q[1]
    BY EmptySeq, LenProperties
  <2>3. DOMAIN Tail(q) = 1..Len(Tail(q))
    BY <2>1, LenProperties
  <2> QED BY <2>1, <2>2, <2>3
<1>2. \A i \in DOMAIN Tail(q) : i + 1 \in DOMAIN q /\ i + 1 # 1 /\ Tail(q)[i] = q[i + 1]
  BY <1>1
<1>3. 1 \in DOMAIN q /\ Tail(q) # q
  <2> DEFINE t == Tail(q)
  <2>1. Len(t) = Len(q) - 1 /\ Len(q) \in Nat /\ Len(q) >= 1 /\ DOMAIN q = 1..Len(q)
    BY <1>1
  <2> HIDE DEF t
  <2>2. 1 \in DOMAIN q /\ Len(t) # Len(q)
    BY <2>1
  <2>3. t # q
    BY <2>2
  <2> QED BY <2>2, <2>3 DEF t
<1>4. Has(Tail(q), e) => Has(q, e)
  BY <1>2 DEF Has
<1>5. ASSUME Once(q, e) PROVE Once(Tail(q), e)
  <2> SUFFICES ASSUME NEW i \in DOMAIN Tail(q), NEW j \in DOMAIN Tail(q),
                      Tail(q)[i] = e, Tail(q)[j] = e
               PROVE  i = j
    BY DEF Once
  <2>1. i + 1 = j + 1
    BY <1>2, <1>5 DEF Once
  <2> QED BY <1>1, <2>1
<1>6. Once(q, e) /\ Head(q) = e => ~Has(Tail(q), e)
  BY <1>1, <1>2, <1>3 DEF Once, Has
<1> QED BY <1>1, <1>3, <1>4, <1>5, <1>6 DEF Has

\* What a queue holds when something is added.
LEMMA AppendHas ==
  ASSUME NEW S, NEW q \in Seq(S), NEW x \in S, NEW e
  PROVE  /\ x # e /\ Has(Append(q, x), e) => Has(q, e)
         /\ x # e /\ Once(q, e) => Once(Append(q, x), e)
         /\ ~Has(q, e) => Once(Append(q, x), e)
<1>1. /\ Len(q) \in Nat /\ DOMAIN q = 1..Len(q) /\ DOMAIN Append(q, x) = 1..(Len(q) + 1)
      /\ \A i \in 1..Len(q) : Append(q, x)[i] = q[i]
      /\ Append(q, x)[Len(q) + 1] = x
  BY AppendProperties, LenProperties
<1>2. \A i \in DOMAIN Append(q, x) :
        IF i = Len(q) + 1 THEN Append(q, x)[i] = x
        ELSE i \in DOMAIN q /\ Append(q, x)[i] = q[i]
  BY <1>1
<1>3. x # e /\ Has(Append(q, x), e) => Has(q, e)
  BY <1>2 DEF Has
<1>4. x # e /\ Once(q, e) => Once(Append(q, x), e)
  BY <1>2 DEF Once
<1>5. ~Has(q, e) => Once(Append(q, x), e)
  BY <1>2 DEF Has, Once
<1> QED BY <1>3, <1>4, <1>5

\* With no loop beside another, at most one is alive, and none while the flag is not set.
LEMMA OneAlive ==
  ASSUME TypeOK, LoopsAccounted, leaks = 0, NEW k \in DOMAIN loops, loops[k].at # "Ended"
  PROVE  connected /\ \A j \in DOMAIN loops : loops[j].at # "Ended" => j = k
<1>1. IsFiniteSet(Alive) /\ Cardinality(Alive) \in Nat /\ k \in Alive
  BY AliveFinite DEF Alive
<1>2. Cardinality(Alive) <= IF connected THEN 1 ELSE 0
  BY <1>1 DEF LoopsAccounted
<1>3. Cardinality(Alive) # 0
  BY <1>1, FS_EmptySet
<1>4. connected /\ Cardinality(Alive) = 1
  BY <1>1, <1>2, <1>3
<1>5. PICK l : Alive = {l}
  BY <1>1, <1>4, FS_Singleton
<1> QED BY <1>1, <1>4, <1>5 DEF Alive

\* With the flag not set and no loop beside another, none is alive.
LEMMA NoneAlive ==
  ASSUME TypeOK, LoopsAccounted, leaks = 0, ~connected
  PROVE  \A j \in DOMAIN loops : loops[j].at = "Ended"
BY OneAlive

\* A loop takes a step: nothing the connection thread owns changes.
LEMMA LoopUndisturbed ==
  ASSUME LoopInv, Undisturbed, NEW k \in DOMAIN loops, LoopStep(k)
  PROVE  Undisturbed'
<1> SUFFICES ASSUME ~Disturbed' PROVE LoopServes' /\ EndsAreOwn'
  BY DEF Undisturbed
<1>1. /\ UNCHANGED <<actions, state, socket, at, leaks, unserved>>
      /\ loops[k].at # "Ended" /\ loops \in Seq(Loops) /\ channel \in Seq({Input, EOL})
  BY DEF LoopStep, CheckConnected, SendInput, ReceiveEOL, StopLoop, mainVars, history, LoopInv,
         TypeOK, Loops
<1>2. LoopServes /\ EndsAreOwn /\ leaks = 0
  BY <1>1 DEF Undisturbed, Disturbed, LoopInv, TypeOK
<1>3. connected /\ \A j \in DOMAIN loops : loops[j].at # "Ended" => j = k
  BY <1>1, <1>2, OneAlive DEF LoopInv
<1>4. ASSUME NEW place, LoopGoes(k, place)
      PROVE  /\ DOMAIN loops' = DOMAIN loops
             /\ \A j \in DOMAIN loops : /\ loops'[j].at = IF j = k THEN place ELSE loops[j].at
                                        /\ loops'[j].socket = loops[j].socket
  <2>1. loops[k] \in Loops
    BY <1>1
  <2> QED BY <1>1, <1>4, <2>1 DEF LoopGoes, Loops
<1>5. ASSUME NEW place, LoopGoes(k, place), connected' = connected
      PROVE  LoopServes'
  BY <1>1, <1>2, <1>4, <1>5 DEF LoopServes, Connected, Serves, Alive
<1>6. CASE CheckConnected(k)
  <2>1. LoopGoes(k, "Receiving") /\ UNCHANGED <<connected, channel>>
    BY <1>3, <1>6 DEF CheckConnected
  <2>2. EndsAreOwn'
    BY <1>1, <1>2, <1>4, <2>1 DEF EndsAreOwn
  <2> QED BY <1>5, <2>1, <2>2
<1>7. CASE SendInput(k)
  <2>1. LoopGoes(k, "Top") /\ connected' = connected
        /\ channel # <<>> /\ channel' = Tail(channel)
    BY <1>7 DEF SendInput
  <2>2. (Has(channel', EOL) => Has(channel, EOL)) /\ Once(channel', EOL)
    BY <1>1, <1>2, <2>1, TailHas DEF EndsAreOwn
  <2>3. EndsAreOwn'
    BY <1>1, <1>2, <1>4, <2>1, <2>2 DEF EndsAreOwn
  <2> QED BY <1>5, <2>1, <2>3
<1>8. CASE ReceiveEOL(k)
  <2>1. LoopGoes(k, "Stopping") /\ connected' = connected
        /\ channel # <<>> /\ Head(channel) = EOL /\ channel' = Tail(channel)
    BY <1>8 DEF ReceiveEOL, LoopDisconnects
  <2>2. at = "Closing" /\ ~Has(channel', EOL) /\ Once(channel', EOL)
    BY <1>1, <1>2, <2>1, TailHas DEF EndsAreOwn
  <2>3. EndsAreOwn'
    BY <1>1, <2>2 DEF EndsAreOwn
  <2> QED BY <1>5, <2>1, <2>3
<1>9. CASE StopLoop(k)
  <2>1. LoopGoes(k, "Ended") /\ loops[k].at = "Stopping" /\ channel' = channel
    BY <1>9 DEF StopLoop
  <2>2. at = "Closing" /\ ~Has(channel, EOL)
    BY <1>2, <2>1 DEF EndsAreOwn
  <2>3. LoopServes'
    BY <1>1, <2>2 DEF LoopServes
  <2>4. EndsAreOwn'
    BY <1>1, <1>2, <1>4, <2>1, <2>2 DEF EndsAreOwn
  <2> QED BY <2>3, <2>4
<1> QED BY <1>6, <1>7, <1>8, <1>9 DEF LoopStep

\* The connection thread and the UI thread take theirs.
LEMMA UndisturbedStep ==
  ASSUME LoopInv, Undisturbed, [Next]_vars
  PROVE  Undisturbed'
<1> SUFFICES ASSUME ~Disturbed' PROVE LoopServes' /\ EndsAreOwn'
  BY DEF Undisturbed
<1>1. actions \in Seq(Actions) /\ channel \in Seq({Input, EOL}) /\ connected \in BOOLEAN
      /\ leaks \in Nat /\ unserved \in BOOLEAN
  BY DEF LoopInv, TypeOK, Actions
<1>2. ASSUME leaks = 0, ~unserved PROVE LoopServes /\ EndsAreOwn
  BY <1>2 DEF Undisturbed, Disturbed
\* What is only about the loops and their channel stays, where these do.
<1>3. ASSUME leaks = 0, ~unserved, UNCHANGED <<connected, channel, loops>>,
             (at' = "Closing") <=> (at = "Closing")
      PROVE  EndsAreOwn'
  BY <1>2, <1>3 DEF EndsAreOwn
<1>4. ASSUME UNCHANGED <<leaks, unserved>> PROVE leaks = 0 /\ ~unserved
  BY <1>1, <1>4 DEF Disturbed
<1>5. CASE UserAction \/ CheckFlag
  <2>1. UNCHANGED <<state, socket, at, connected, channel, loops, leaks, unserved>>
    BY <1>5 DEF UserAction, CheckFlag, mainVars, inputVars, history
  <2>2. LoopServes'
    BY <1>2, <1>4, <2>1 DEF LoopServes, Connected, Serves, Alive
  <2> QED BY <1>3, <1>4, <2>1, <2>2
<1>6. CASE QueueInput
  <2>1. UNCHANGED <<actions, state, socket, at, connected, loops, leaks, unserved>>
        /\ channel' = Append(channel, Input)
    BY <1>6 DEF QueueInput, mainVars, history
  <2>2. /\ Has(channel', EOL) => Has(channel, EOL)
        /\ Once(channel, EOL) => Once(channel', EOL)
    <3>1. Input \in {Input, EOL} /\ Input # EOL
      BY DEF Input, EOL
    <3> QED BY <1>1, <2>1, <3>1, AppendHas
  <2>3. LoopServes'
    BY <1>2, <1>4, <2>1 DEF LoopServes, Connected, Serves, Alive
  <2>4. EndsAreOwn'
    BY <1>2, <1>4, <2>1, <2>2 DEF EndsAreOwn
  <2> QED BY <2>3, <2>4
<1>7. CASE HandleConnect \/ ReceiveFails
  <2>1. UNCHANGED <<connected, channel, loops, leaks, unserved>> /\ ~Connected'
        /\ at # "Closing" /\ at' # "Closing"
    BY <1>7 DEF HandleConnect, ReceiveFails, Takes, inputVars, history, Connected
  <2> QED BY <1>3, <1>4, <2>1 DEF LoopServes
<1>8. CASE HandleOther \/ BeginReceive \/ ReceivePacket
  <2>1. UNCHANGED <<state, socket, connected, channel, loops, leaks, unserved>>
        /\ at # "Closing" /\ at' # "Closing"
    BY <1>8 DEF HandleOther, BeginReceive, ReceivePacket, Takes, inputVars, history
  <2>2. LoopServes'
    BY <1>2, <1>4, <2>1 DEF LoopServes, Connected, Serves, Alive
  <2> QED BY <1>3, <1>4, <2>1, <2>2
<1>9. CASE HandleHandshake
  <2>1. at # "Closing" /\ at' # "Closing" /\ UNCHANGED <<channel, unserved>>
    BY <1>9 DEF HandleHandshake, Takes
  <2>2. CASE StartLoop
    <3>a. ~(leaks' > 0)
      BY <1>1 DEF Disturbed
    <3>b. leaks \in Nat
      BY DEF LoopInv, TypeOK
    <3>c. ASSUME connected PROVE FALSE
      <4>1. leaks' = leaks + 1
        BY <2>2, <3>c DEF StartLoop
      <4> QED BY <3>a, <3>b, <4>1
    <3>1. /\ connected' = TRUE /\ ~connected
          /\ loops' = Append(loops, [socket |-> socket', at |-> "Top"])
      BY <2>2, <3>c DEF StartLoop
    <3>d. leaks = 0
      BY <2>2, <3>a, <3>b, <3>c DEF StartLoop
    <3>2. loops \in Seq(Loops)
      BY DEF LoopInv, TypeOK, Loops
    <3>3. \A j \in DOMAIN loops' : loops'[j] = [socket |-> socket', at |-> "Top"] \/
                                  (j \in DOMAIN loops /\ loops'[j] = loops[j])
      BY <3>1, <3>2
    <3>4. \A j \in DOMAIN loops : loops[j].at = "Ended"
      BY <3>1, <3>d, NoneAlive DEF LoopInv
    <3>5. Serves(socket)'
      BY <3>1, <3>3, <3>4 DEF Serves, Alive
    <3>6. EndsAreOwn'
      <4>1. ~unserved
        BY <2>1 DEF Disturbed
      <4>2. EndsAreOwn
        BY <1>2, <3>d, <4>1
      <4>3. ~Has(channel, EOL) /\ Once(channel, EOL)
        BY <2>1, <4>2 DEF EndsAreOwn
      <4>4. \A j \in DOMAIN loops' : loops'[j].at # "Stopping"
        BY <3>3, <3>4
      <4>5. ~Has(channel', EOL) /\ Once(channel', EOL)
        BY <2>1, <4>3
      <4> QED BY <4>4, <4>5 DEF EndsAreOwn
    <3> QED BY <3>5, <3>6 DEF LoopServes
  <2>3. CASE state' # "Connected" /\ UNCHANGED <<connected, loops, leaks>>
    <3>1. LoopServes'
      BY <2>3 DEF LoopServes, Connected
    <3> QED BY <1>3, <1>4, <2>1, <2>3, <3>1
  <2> QED BY <1>9, <2>2, <2>3 DEF HandleHandshake
<1>10. CASE HandleReconnect
  <2>1. /\ at # "Closing" /\ at' = "Recv" /\ UNCHANGED <<connected, channel, loops, leaks>>
        /\ unserved' = (unserved \/ (state' = "Connected" /\ ~Serves(socket')))
    BY <1>10 DEF HandleReconnect, Takes, inputVars
  <2>a. ~(leaks' > 0) /\ ~unserved'
    BY DEF Disturbed
  <2>b. leaks = 0
    BY <1>1, <2>1, <2>a
  <2>2. leaks = 0 /\ ~unserved /\ ~(state' = "Connected" /\ ~Serves(socket'))
    BY <2>1, <2>a, <2>b, Zenon
  <2>3. Connected' => Serves(socket)'
    BY <2>1, <2>2 DEF Connected, Serves, Alive
  <2> QED BY <1>3, <2>1, <2>2, <2>3 DEF LoopServes
<1>11. CASE DisconnectUnconnected
  <2>1. /\ ~Connected /\ Disconnects
        /\ UNCHANGED <<at, connected, channel, loops, leaks, unserved>>
    BY <1>11 DEF DisconnectUnconnected, inputVars, history
  <2>2. ~Connected'
    BY <2>1 DEF Disconnects, Connected
  <2> QED BY <1>3, <1>4, <2>1, <2>2 DEF LoopServes
<1>12. CASE CloseSendLoop
  <2>1. /\ at # "Closing" /\ at' = "Closing" /\ Connected /\ channel' = Append(channel, EOL)
        /\ UNCHANGED <<state, socket, connected, loops, leaks, unserved>>
    BY <1>12 DEF CloseSendLoop, Takes, history
  <2>2. LoopServes /\ EndsAreOwn
    BY <1>2, <1>4, <2>1
  <2>3. connected /\ ~Has(channel, EOL) /\ \A k \in DOMAIN loops : loops[k].at # "Stopping"
    BY <2>1, <2>2 DEF LoopServes, Serves, EndsAreOwn
  <2>4. Once(channel', EOL)
    BY <1>1, <2>1, <2>3, AppendHas
  <2>5. EndsAreOwn'
    BY <2>1, <2>3, <2>4 DEF EndsAreOwn
  <2> QED BY <2>1, <2>5 DEF LoopServes
<1>13. CASE FinishDisconnect
  <2>1. /\ at = "Closing" /\ ~connected /\ Disconnects
        /\ UNCHANGED <<connected, channel, loops, leaks, unserved>>
    BY <1>13 DEF FinishDisconnect, inputVars, history
  <2>2. EndsAreOwn /\ leaks = 0
    BY <1>2, <1>4, <2>1
  <2>3. ~Connected'
    BY <2>1 DEF Disconnects, Connected
  <2>4. \A k \in DOMAIN loops : loops[k].at = "Ended"
    BY <2>1, <2>2, NoneAlive DEF LoopInv
  <2>5. EndsAreOwn'
    BY <2>1, <2>2, <2>4 DEF EndsAreOwn
  <2> QED BY <2>3, <2>5 DEF LoopServes
<1>14. CASE \E k \in DOMAIN loops : LoopStep(k)
  BY <1>14, LoopUndisturbed DEF Undisturbed
<1>15. CASE UNCHANGED vars
  <2>1. UNCHANGED <<state, socket, at, connected, channel, loops, leaks, unserved>>
    BY <1>15 DEF vars, mainVars, inputVars
  <2>2. LoopServes'
    BY <1>2, <1>4, <2>1 DEF LoopServes, Connected, Serves, Alive
  <2> QED BY <1>3, <1>4, <2>1, <2>2
<1> QED BY <1>5, <1>6, <1>7, <1>8, <1>9, <1>10, <1>11, <1>12, <1>13, <1>14, <1>15 DEF Next

\* Nothing but a loop's disconnecting takes an entry away from the server while the
\* connection thread does nothing, and a loop disconnects only after close_send_loop.
LEMMA CutsOffNone ==
  ASSUME LoopInv, Undisturbed, Next,
         entries' # entries, entries' \subseteq entries, mainVars' = mainVars
  PROVE  at = "Closing" \/ Disturbed
<1> SUFFICES ASSUME ~Disturbed PROVE at = "Closing"
  OBVIOUS
<1>1. /\ EndsAreOwn /\ leaks = 0 /\ actions \in Seq(Actions)
      /\ UNCHANGED <<actions, state, socket, at>>
  BY DEF Undisturbed, Disturbed, mainVars, LoopInv, TypeOK, Actions
<1>2. actions = <<>> \/ Tail(actions) # actions
  BY <1>1, TailHas
<1>3. CASE HandleHandshake
  <2>1. PICK outcome \in Outcomes :
          /\ Attempt(outcome) /\ actions # <<>> /\ at = "Loop"
          /\ \/ at' = "Recv"
             \/ state' = "Connecting"
             \/ state' = "Disconnected" /\ actions' = Tail(actions)
    BY <1>3 DEF HandleHandshake, Takes
  <2>2. state' = "Connecting"
    BY <1>1, <1>2, <2>1
  <2>3. ~(entries \subseteq entries')
    OBVIOUS
  <2>4. state' = "Disconnected"
    BY <2>1, <2>3 DEF Attempt
  <2> QED BY <2>2, <2>4
<1>4. CASE HandleReconnect
  BY <1>1, <1>4 DEF HandleReconnect, Takes
<1>5. CASE DisconnectUnconnected
  BY <1>1, <1>2, <1>5 DEF DisconnectUnconnected, Takes
<1>6. CASE FinishDisconnect
  BY <1>6 DEF FinishDisconnect
<1>7. ASSUME NEW k \in DOMAIN loops, LoopStep(k)
      PROVE  at = "Closing"
  <2>1. LoopDisconnects(k) /\ loops[k].at # "Ended"
    BY <1>7 DEF LoopStep, CheckConnected, SendInput, ReceiveEOL, StopLoop
  <2>2. connected
    BY <1>1, <2>1, OneAlive DEF LoopInv
  <2>3. ReceiveEOL(k)
    BY <1>7, <2>2 DEF LoopStep, CheckConnected, SendInput, ReceiveEOL, StopLoop
  <2>4. channel \in Seq({Input, EOL}) /\ channel # <<>> /\ Head(channel) = EOL
    BY <2>3 DEF ReceiveEOL, LoopInv, TypeOK
  <2>5. Has(channel, EOL)
    BY <2>4, TailHas
  <2> QED BY <1>1, <2>5 DEF EndsAreOwn
<1> QED BY <1>3, <1>4, <1>5, <1>6, <1>7
        DEF Next, UserAction, CheckFlag, QueueInput, HandleConnect, HandleOther, BeginReceive,
            ReceivePacket, ReceiveFails, CloseSendLoop

LEMMA UndisturbedHolds == Spec => []Undisturbed
<1>1. Init => Undisturbed
  <2> SUFFICES ASSUME Init PROVE LoopServes /\ EndsAreOwn
    BY DEF Undisturbed
  <2>1. actions = <<>> /\ channel = <<>> /\ loops = <<>> /\ ~Connected
    BY DEF Init, Connected
  <2> QED BY <2>1 DEF LoopServes, EndsAreOwn, Has, Once
<1>2. LoopInv /\ Undisturbed /\ [Next]_vars => Undisturbed'
  BY UndisturbedStep
<1> QED BY <1>1, <1>2, LoopInvHolds, PTL DEF Spec

-------------------------------------------------------------------------------
(* The theorems.                                                               *)

\* The types hold for all bounds; every loop has the socket of a connection
\* (client.try_clone in send_loop's caller).
THEOREM LoopTypeCorrect == Spec => []TypeOK
<1>1. LoopInv => TypeOK
  BY DEF LoopInv
<1> QED BY <1>1, LoopInvHolds, PTL

\* However often the user connects and disconnects and reads fail: one input thread while the
\* flag is set, none while it is not, and one more for each time a loop was started while
\* the flag was set (send_loop and close_send_loop).
THEOREM LoopsAreAccounted == Spec => []LoopsAccounted
<1>1. LoopInv => LoopsAccounted
  BY DEF LoopInv
<1> QED BY <1>1, LoopInvHolds, PTL

\* A connected client has its input thread, on the socket of its connection, whatever was
\* lost, unless a loop was started beside another or a Reconnect succeeded without one
\* (send_loop clones the client; the arms Handshake and Reconnect of main).
THEOREM LoopsServe == Spec => []InputsGoOut
<1>1. Undisturbed => InputsGoOut
  BY DEF Undisturbed, LoopServes, InputsGoOut
<1> QED BY <1>1, UndisturbedHolds, PTL

\* With the same premise no input thread says goodbye to the server but the one
\* close_send_loop ended: an end left in the channel, or a flag cleared by someone else, would
\* have the next connection's thread do it (send_loop).
THEOREM OnlyTheClosedDisconnect == Spec => NotCutOff
<1> DEFINE CutOff == entries' # entries /\ entries' \subseteq entries /\ mainVars' = mainVars
<1>1. LoopInv /\ Undisturbed /\ [Next]_vars => [CutOff => at = "Closing" \/ Disturbed]_vars
  BY CutsOffNone
<1> QED BY <1>1, LoopInvHolds, UndisturbedHolds, PTL DEF Spec, NotCutOff
===============================================================================
