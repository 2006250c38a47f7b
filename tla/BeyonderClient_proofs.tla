------------------------- MODULE BeyonderClient_proofs -------------------------
(****************************************************************************)
(* For every capacity of the channel and any number of messages, inputs and *)
(* probes: what the reader forwards reaches the user whole and in order,    *)
(* and the user learns of the end only when it has seen everything.         *)
(****************************************************************************)
EXTENDS BeyonderClient, SequenceTheorems, TLAPS

\* How the reader's end, the channel and the close of the client go together:
\* only the user closes the client, and only as its last step.
Ending ==
    /\ rpc = "forward" => hand \in Msgs
    /\ chanClosed <=> rpc = "stopped"
    /\ readerEnd = "done" => done
    /\ done => upc = "closed"

\* MessagesInOrder also after the reader's end, unless Close made it drop the
\* message in hand.
Order ==
    rpc # "stopped" \/ readerEnd # "done" => taken \o chan \o InHand = forwarded

IInv == TypeOK /\ Ending /\ Order

-----------------------------------------------------------------------------
\* The steps at which the user sends are among those of the user.
LEMMA UserSteps == Sends = {"hello", "input", "launch"}
BY DEF Sends, Frame

LEMMA Initially == Init => IInv
<1>. SUFFICES ASSUME Init PROVE IInv
  OBVIOUS
<1>. USE DEF Init
<1>1. /\ <<>> \in Seq(Msgs) /\ <<>> \in Seq({"hello", "input", "launch", "probe"})
      /\ Len(<<>>) = 0
  BY EmptySeq
<1>2. TypeOK
  <2>1. upc \in Sends
    BY UserSteps
  <2>2. 0 \in 0..MaxMsgs /\ 0 \in 0..MaxOps /\ 0 \in 0..MaxProbes /\ 0 <= ChanCap
    BY BeyonderAssumption
  <2>. QED
    BY <1>1, <2>1, <2>2 DEF TypeOK, Ends
<1>3. Ending
  BY DEF Ending
<1>4. Order
  BY <1>1, ConcatEmptySeq DEF Order, InHand
<1>. QED
  BY <1>2, <1>3, <1>4 DEF IInv

\* A queue of messages, taken apart at its front.
LEMMA Front ==
    ASSUME chan \in Seq(Msgs), chan # <<>>
    PROVE  /\ Head(chan) \in Msgs /\ Tail(chan) \in Seq(Msgs)
           /\ Len(chan) \in Nat /\ Len(Tail(chan)) = Len(chan) - 1
           /\ chan = <<Head(chan)>> \o Tail(chan)
<1>1. /\ Head(chan) \in Msgs /\ Tail(chan) \in Seq(Msgs)
      /\ Len(Tail(chan)) = Len(chan) - 1
  BY HeadTailProperties
<1>2. <<Head(chan)>> \in Seq(Msgs) /\ Len(<<Head(chan)>>) = 1
  BY <1>1
<1>3. chan = <<Head(chan)>> \o Tail(chan)
  BY <1>1, <1>2, ConcatProperties, HeadTailProperties, SeqEqual, LenProperties
<1>. QED
  BY <1>1, <1>3, LenProperties

\* The same for the inbox, of which only types matter.
LEMMA InboxFront ==
    ASSUME inbox \in Seq(Msgs), inbox # <<>>
    PROVE  Head(inbox) \in Msgs /\ Tail(inbox) \in Seq(Msgs)
BY HeadTailProperties

\* To append one message is to concatenate it.
LEMMA OneMore ==
    ASSUME NEW s \in Seq(Msgs), NEW m \in Msgs
    PROVE  /\ Append(s, m) \in Seq(Msgs) /\ Append(s, m) = s \o <<m>>
           /\ Len(s) \in Nat /\ Len(Append(s, m)) = Len(s) + 1
BY AppendProperties, AppendIsConcat, LenProperties

-----------------------------------------------------------------------------
(* The device and the reader *)

LEMMA DeviceKeeps ==
    ASSUME IInv, DeviceSends \/ DeviceLeaves \/ CtxEnds
    PROVE  IInv'
<1>. USE DEF IInv, readerVars, writeVars, keepVars, userVars, deviceVars
<1>1. TypeOK'
  <2>1. CASE DeviceSends
    <3>1. inbox' \in Seq(Msgs)
      BY <2>1, OneMore DEF TypeOK, DeviceSends
    <3>2. total' \in 0..MaxMsgs
      BY <2>1, BeyonderAssumption DEF TypeOK, DeviceSends
    <3>. QED
      BY <2>1, <3>1, <3>2 DEF TypeOK, DeviceSends
  <2>2. CASE DeviceLeaves \/ CtxEnds
    BY <2>2 DEF TypeOK, DeviceLeaves, CtxEnds
  <2>. QED
    BY <2>1, <2>2
<1>2. Ending' /\ Order'
  BY DEF Ending, Order, InHand, DeviceSends, DeviceLeaves, CtxEnds
<1>. QED
  BY <1>1, <1>2

LEMMA ReadMessageKeeps == ASSUME IInv, ReadMessage PROVE IInv'
<1>. USE DEF IInv, ReadMessage, writeVars, keepVars, userVars
<1>1. Head(inbox) \in Msgs /\ Tail(inbox) \in Seq(Msgs)
  BY InboxFront DEF TypeOK
<1>2. Append(forwarded, Head(inbox)) \in Seq(Msgs)
  BY <1>1, OneMore DEF TypeOK
<1>3. TypeOK' /\ Ending'
  <2>1. CASE Head(inbox) = "rtt"
    BY <1>1, <2>1 DEF TypeOK, Ending
  <2>2. CASE Head(inbox) # "rtt"
    <3>1. forwarded' \in Seq(Msgs) /\ hand' \in Msgs /\ rpc' = "forward"
      BY <1>1, <1>2, <2>2
    <3>2. TypeOK'
      BY <1>1, <3>1 DEF TypeOK
    <3>3. Ending'
      BY <3>1 DEF Ending
    <3>. QED
      BY <3>2, <3>3
  <2>. QED
    BY <2>1, <2>2
<1>4. Order'
  <2>1. CASE Head(inbox) = "rtt"
    BY <2>1 DEF Order, InHand
  <2>2. CASE Head(inbox) # "rtt"
    <3>1. taken \o chan = forwarded
      BY ConcatEmptySeq, ConcatProperties DEF Order, InHand, TypeOK
    <3>2. forwarded' = forwarded \o <<Head(inbox)>>
      BY <1>1, <2>2, OneMore DEF TypeOK
    <3>. QED
      BY <2>2, <3>1, <3>2 DEF Order, InHand
  <2>. QED
    BY <2>1, <2>2
<1>. QED
  BY <1>3, <1>4

LEMMA ForwardKeeps == ASSUME IInv, Forward PROVE IInv'
<1>. USE DEF IInv, Forward, writeVars, keepVars, userVars, deviceVars
<1>1. hand \in Msgs
  BY DEF Ending
<1>2. /\ chan' \in Seq(Msgs) /\ chan' = chan \o <<hand>> /\ Len(chan) \in Nat
      /\ Len(chan') = Len(chan) + 1
  BY <1>1, OneMore DEF TypeOK
<1>3. TypeOK' /\ Ending'
  BY <1>1, <1>2, BeyonderAssumption DEF TypeOK, Ending
<1>4. Order'
  <2>1. (taken \o chan) \o <<hand>> = forwarded
    BY DEF Order, InHand
  <2>2. taken \o (chan \o <<hand>>) = (taken \o chan) \o <<hand>>
    <3>1. taken \in Seq(Msgs) /\ chan \in Seq(Msgs) /\ <<hand>> \in Seq(Msgs)
      BY <1>1 DEF TypeOK
    <3>. QED
      BY <3>1, ConcatAssociative
  <2>3. taken \o chan' \in Seq(Msgs)
    BY <1>2, ConcatProperties DEF TypeOK
  <2>. QED
    BY <1>2, <2>1, <2>2, <2>3, ConcatEmptySeq DEF Order, InHand
<1>. QED
  BY <1>3, <1>4

LEMMA ForwardDoneKeeps == ASSUME IInv, ForwardDone PROVE IInv'
<1>. USE DEF IInv, ForwardDone, ReaderStops, writeVars, keepVars, userVars, deviceVars
<1>1. TypeOK' /\ Ending' /\ Order'
  BY DEF TypeOK, Ends, Ending, Order
<1>. QED
  BY <1>1

LEMMA ReaderFailsKeeps == ASSUME IInv, ReadBad \/ ReadFails PROVE IInv'
<1>. USE DEF IInv, ReadBad, ReadFails, ReaderStops, SetErr, writeVars, keepVars,
         userVars, deviceVars
<1>1. inbox' \in Seq(Msgs)
  BY InboxFront DEF TypeOK
<1>2. err' \in (Ends \ {"done"}) \cup {"deadline", "write"} /\ readerEnd' \in Ends
  BY DEF TypeOK, Ends
<1>3. TypeOK'
  BY <1>1, <1>2 DEF TypeOK
<1>4. Ending'
  BY DEF Ending
<1>5. Order'
  BY DEF Order, InHand, Ending
<1>. QED
  BY <1>3, <1>4, <1>5

LEMMA ReaderKeeps == ASSUME IInv, Reader PROVE IInv'
BY ReadMessageKeeps, ForwardKeeps, ForwardDoneKeeps, ReaderFailsKeeps DEF Reader

-----------------------------------------------------------------------------
(* The keepalive *)

Wires == Seq({"hello", "input", "launch", "probe"})

LEMMA Written ==
    ASSUME wire \in Wires, NEW f \in {"hello", "input", "launch", "probe"}
    PROVE  Append(wire, f) \in Wires
BY AppendProperties DEF Wires

\* What a step of the keepalive leaves alone.
LEMMA KeepaliveLeaves ==
    ASSUME Keepalive
    PROVE  UNCHANGED <<deviceVars, readerVars, done, userVars, ctx>>
BY DEF Keepalive, KeepStops, KeepTick, KeepSend, KeepLock,
   KeepWritten, KeepFails, LockSend, writeVars

LEMMA KeepaliveKeeps == ASSUME IInv, Keepalive PROVE IInv'
<1>. USE DEF IInv
<1>1. wire' \in Wires
  BY Written DEF TypeOK, Wires, Keepalive, KeepStops, KeepTick, KeepSend, KeepLock,
     KeepWritten, KeepFails, LockSend, WriteOk, WriteFails, writeVars
<1>2. err' \in (Ends \ {"done"}) \cup {"deadline", "write"}
  BY DEF TypeOK, SetErr, Keepalive, KeepStops, KeepTick, KeepSend, KeepLock,
     KeepWritten, KeepFails
<1>3. probes' \in 0..MaxProbes
  BY BeyonderAssumption DEF TypeOK, Keepalive, KeepStops, KeepTick, KeepSend,
     KeepLock, KeepWritten, KeepFails
<1>4. /\ wmu' \in {"none", "keepalive", "user"}
      /\ kpc' \in {"off", "select", "send", "lock", "write", "stopped"}
  BY DEF TypeOK, Keepalive, KeepStops, KeepTick, KeepSend, KeepLock, KeepWritten,
     KeepFails, LockSend, WriteOk, WriteFails, writeVars
<1>5. TypeOK'
  BY <1>1, <1>2, <1>3, <1>4, KeepaliveLeaves
     DEF TypeOK, Wires, deviceVars, readerVars, userVars
<1>6. Ending' /\ Order'
  BY KeepaliveLeaves DEF Ending, Order, InHand, deviceVars, readerVars, userVars
<1>. QED
  BY <1>5, <1>6

-----------------------------------------------------------------------------
(* The user *)

\* The reader and the channel as a step of the user finds and leaves them.
LEMMA UserWritesKeeps ==
    ASSUME IInv, NEW s \in Sends,
           UserSend(s) \/ UserLock(s) \/ UserWritten(s) \/ UserWriteFails(s)
    PROVE  IInv'
<1>. USE DEF IInv, UserSend, UserLock, UserWritten, UserWriteFails, LockSend,
         WriteOk, WriteFails, UserRest, writeVars, deviceVars
<1>0. s \in {"hello", "input", "launch"}
  BY DEF Sends, Frame
<1>1. wire' \in Wires
  <2>1. Frame[s] \in {"hello", "input", "launch", "probe"}
    BY <1>0 DEF Frame
  <2>. QED
    BY <2>1, Written DEF TypeOK, Wires
<1>2. upc' \in {Locking[x] : x \in Sends} \cup {Writing[x] : x \in Sends} \cup Waiting
                \cup {"ready", "close"}
  BY <1>0 DEF Waiting, AfterWrite
<1>3. upc # "closed"
  BY <1>0 DEF Locking, Writing
<1>4. TypeOK'
  BY <1>1, <1>2 DEF TypeOK, Wires
<1>5. Ending'
  BY <1>3 DEF Ending
<1>6. Order'
  BY DEF Order, InHand
<1>. QED
  BY <1>4, <1>5, <1>6

LEMMA UserStepsKeep ==
    ASSUME IInv, WaitCancelled \/ WaitClosed \/ Operate \/ Close
    PROVE  IInv'
<1>. USE DEF IInv, WaitCancelled, WaitClosed, Operate, Close, UserRest, writeVars,
         deviceVars
<1>1. upc' \in {"close", "closed", "input", "launch"} /\ ops' \in 0..MaxOps
  BY BeyonderAssumption DEF TypeOK
<1>3. TypeOK'
  <2>1. upc' \in Sends \cup {"close", "closed"}
    BY <1>1, UserSteps
  <2>2. CASE WaitCancelled \/ WaitClosed
    BY <2>1, <2>2 DEF TypeOK
  <2>3. CASE Operate
    BY <1>1, <2>1, <2>3 DEF TypeOK
  <2>4. CASE Close
    BY <2>1, <2>4 DEF TypeOK
  <2>. QED
    BY <2>2, <2>3, <2>4
<1>2. Ending' /\ Order'
  BY DEF Ending, Order, InHand, Waiting
<1>. QED
  BY <1>2, <1>3

LEMMA ReceiveKeeps ==
    ASSUME IInv, NEW m \in Msgs, Receive(m), UNCHANGED <<forwarded, hand, rpc, readerEnd>>
    PROVE  /\ Order' /\ taken' \in Seq(Msgs) /\ chan' \in Seq(Msgs)
           /\ Len(chan') <= ChanCap
<1>. USE DEF IInv, Receive
<1>1. /\ chan' \in Seq(Msgs) /\ Len(chan') = Len(chan) - 1 /\ Len(chan) \in Nat
      /\ chan = <<m>> \o chan'
  BY Front DEF TypeOK
<1>2. taken' \in Seq(Msgs) /\ taken' = taken \o <<m>>
  BY OneMore DEF TypeOK
<1>3. taken' \o chan' = taken \o chan
  <2>1. taken \in Seq(Msgs) /\ <<m>> \in Seq(Msgs)
    BY DEF TypeOK
  <2>. QED
    BY <1>1, <1>2, <2>1, ConcatAssociative
<1>4. Order'
  BY <1>3 DEF Order, InHand
<1>5. Len(chan') <= ChanCap
  BY <1>1, BeyonderAssumption DEF TypeOK
<1>. QED
  BY <1>1, <1>2, <1>4, <1>5

LEMMA UserWaitsKeeps == ASSUME IInv, WaitSkips \/ WaitAuth \/ WaitLaunch PROVE IInv'
<1>. USE DEF IInv, UserRest, writeVars, deviceVars
<1>1. CASE WaitSkips
  <2>1. PICK m \in Msgs : Receive(m)
    BY <1>1 DEF WaitSkips
  <2>2. /\ Order' /\ taken' \in Seq(Msgs) /\ chan' \in Seq(Msgs)
        /\ Len(chan') <= ChanCap
    BY <1>1, <2>1, ReceiveKeeps DEF WaitSkips
  <2>. QED
    BY <1>1, <2>2 DEF WaitSkips, TypeOK, Ending
<1>2. CASE WaitAuth
  <2>1. PICK m \in Auth : Receive(m) /\ level' = m
    BY <1>2 DEF WaitAuth
  <2>2. /\ Order' /\ taken' \in Seq(Msgs) /\ chan' \in Seq(Msgs)
        /\ Len(chan') <= ChanCap
    BY <1>2, <2>1, ReceiveKeeps DEF WaitAuth, Auth, Msgs
  <2>. QED
    BY <1>2, <2>1, <2>2 DEF WaitAuth, TypeOK, Ending
<1>3. CASE WaitLaunch
  <2>1. Receive("launched")
    BY <1>3 DEF WaitLaunch
  <2>2. /\ Order' /\ taken' \in Seq(Msgs) /\ chan' \in Seq(Msgs)
        /\ Len(chan') <= ChanCap
    BY <1>3, <2>1, ReceiveKeeps DEF WaitLaunch, Msgs
  <2>. QED
    BY <1>3, <2>2 DEF WaitLaunch, TypeOK, Ending
<1>. QED
  BY <1>1, <1>2, <1>3

LEMMA UserKeeps == ASSUME IInv, User PROVE IInv'
BY UserWritesKeeps, UserStepsKeep, UserWaitsKeeps DEF User

LEMMA Preserved == ASSUME IInv, [Next]_vars PROVE IInv'
<1>1. CASE Next
  BY <1>1, DeviceKeeps, ReaderKeeps, KeepaliveKeeps, UserKeeps DEF Next
<1>2. CASE UNCHANGED vars
  <2>. USE <1>2 DEF vars, deviceVars, readerVars, writeVars, keepVars, userVars
  <2>1. TypeOK'
    BY DEF IInv, TypeOK
  <2>2. Order'
    BY DEF IInv, Order, InHand
  <2>3. Ending'
    BY DEF IInv, Ending
  <2>. QED
    BY <2>1, <2>2, <2>3 DEF IInv
<1>. QED
  BY <1>1, <1>2

-----------------------------------------------------------------------------
(* The results *)

LEMMA Inductive == Spec => []IInv
<1>. QED
  BY Initially, Preserved, PTL DEF Spec

\* Every variable of the connection keeps its type: its goroutines are at no
\* step but those of client.go and session.go.
THEOREM TypeCorrect == Spec => []TypeOK
<1>1. IInv => TypeOK
  BY DEF IInv
<1>. QED
  BY <1>1, Inductive, PTL

\* While the reader runs, what it has forwarded is what the user has taken, what
\* waits in the channel and what the reader holds, in this order (readLoop).
THEOREM InOrder == Spec => []MessagesInOrder
<1>1. IInv => MessagesInOrder
  BY DEF IInv, TypeOK, Order, MessagesInOrder
<1>. QED
  BY <1>1, Inductive, PTL

\* The user gives up waiting in a live context only when it has taken all that
\* was forwarded: a reply that made it before the end is not missed (wait).
THEOREM RepliesSeen == Spec => NoReplyMissed
<1>1. ASSUME IInv, [Next]_vars, ctx = "live", upc \in Waiting, upc' = "close"
      PROVE  taken = forwarded
  <2>1. WaitClosed
    <3>1. User
      BY <1>1 DEF Next, DeviceSends, DeviceLeaves, CtxEnds, Reader, ReadMessage, Forward,
         ForwardDone, ReadBad, ReadFails, Keepalive, KeepStops, KeepTick, KeepSend,
         KeepLock, KeepWritten, KeepFails, userVars, vars, Waiting
    <3>2. \A s \in Sends :
              s \notin Waiting /\ Locking[s] \notin Waiting /\ Writing[s] \notin Waiting
      BY DEF Sends, Frame, Locking, Writing, Waiting
    <3>. QED
      BY <1>1, <3>1, <3>2 DEF User, UserSend, UserLock, UserWritten, UserWriteFails,
         WaitCancelled, WaitSkips, WaitAuth, WaitLaunch, Operate, Close, Waiting
  <2>2. chan = <<>> /\ rpc = "stopped" /\ readerEnd # "done"
    BY <1>1, <2>1 DEF WaitClosed, IInv, Ending, Waiting
  <2>3. taken \o chan \o InHand = forwarded
    BY <1>1, <2>2 DEF IInv, Order
  <2>. QED
    BY <1>1, <2>2, <2>3, ConcatEmptySeq DEF IInv, TypeOK, InHand
<1>2. IInv /\ [Next]_vars
      => [ctx = "live" /\ upc \in Waiting /\ upc' = "close" => taken = forwarded]_vars
  BY <1>1
<1>. QED
  BY <1>2, Inductive, PTL DEF Spec, NoReplyMissed
=============================================================================
