-------------------------- MODULE RemoteClient_proofs --------------------------
(****************************************************************************)
(* For any number of messages and operations: the frames of the two         *)
(* goroutines stay whole, readiness is earned, a success means that nothing *)
(* before it was lost, and the connection implements SessionView.           *)
(****************************************************************************)
EXTENDS RemoteClient, SequenceTheorems, FiniteSetTheorems, TLAPS

writing == <<broken, wire, writeVars>>

\* The lock is held between the two writes of a frame and around them.
Lock == \A p \in Procs : wpc[p] \in {"prefix", "payload"} <=> writeMu = p

\* The last half on the wire is a prefix just when its goroutine is about to
\* write the payload; a failed write leaves a torn end that nobody follows.
LastHalf ==
    ~broken =>
        /\ \A p \in Procs : wpc[p] = "payload" =>
               /\ wire # <<>>
               /\ wire[Len(wire)] = [by |-> p, part |-> "prefix", frame |-> frame[p]]
        /\ (\A p \in Procs : wpc[p] # "payload") =>
               wire = <<>> \/ wire[Len(wire)].part = "payload"

Whole == Lock /\ LastHalf /\ FramesWhole

\* Where the goroutines are in writeMessage, and what for.
Steps ==
    /\ rpc = "reply" <=> wpc["reader"] # "idle"
    /\ rpc = "reply" => rmsg \in Replies /\ frame["reader"] = rmsg
    /\ upc = "write" <=> wpc["user"] # "idle"
    /\ upc = "write" => frame["user"] = "key"
    /\ \A p \in Procs : wpc[p] = "failed" => broken

\* The error of the reader is its last act.
ErrorIsLast == lastErr # "none" => rpc = "stopped"

Answered ==
    \E i \in 1..Len(wire) :
        wire[i] = [by |-> "reader", part |-> "payload", frame |-> "setActive"]

\* What is known of the handshake where the reader is about to report it.
Handshake ==
    /\ rpc = "reply" /\ rmsg = "setActive" /\ wpc["reader"] = "written" => Answered
    /\ rpc = "markStarted" => power # "unknown"
    /\ rpc = "markReady" => power # "unknown" \/ Answered
    /\ ReadyWasEarned

\* The frames of the user that are on the wire, while no error shows.
NoGap ==
    lastErr = "none" =>
        /\ wpc["user"] = "written" => UserFrames = ops
        /\ ~broken /\ wpc["user"] = "idle" => UserFrames = ops
        /\ ~broken /\ wpc["user"] \in {"lock", "prefix", "payload"} => UserFrames + 1 = ops

IInv == TypeOK /\ Whole /\ Steps /\ ErrorIsLast /\ Handshake /\ NoGap

-----------------------------------------------------------------------------
(* Sequences of half-frames *)

\* One more half-frame leaves the others where they were.
LEMMA OneMore ==
    ASSUME wire \in Seq(HalfFrame), NEW h \in HalfFrame, wire' = Append(wire, h)
    PROVE  /\ wire' \in Seq(HalfFrame) /\ wire' # <<>>
           /\ Len(wire) \in Nat /\ Len(wire') = Len(wire) + 1
           /\ wire'[Len(wire')] = h
           /\ \A i \in 1..Len(wire) : wire'[i] = wire[i]
BY AppendProperties, LenProperties

\* The user's payloads are counted as they are written.
LEMMA Counted ==
    ASSUME wire \in Seq(HalfFrame), NEW h \in HalfFrame, wire' = Append(wire, h)
    PROVE  /\ UserFrames \in Nat
           /\ UserFrames' = IF h.by = "user" /\ h.part = "payload"
                            THEN UserFrames + 1 ELSE UserFrames
<1>. DEFINE mine(w) == {i \in 1..Len(w) : w[i].by = "user" /\ w[i].part = "payload"}
<1>1. /\ Len(wire) \in Nat /\ Len(wire') = Len(wire) + 1 /\ wire'[Len(wire')] = h
      /\ \A i \in 1..Len(wire) : wire'[i] = wire[i]
  BY OneMore
<1>2. IsFiniteSet(mine(wire))
  <2>1. IsFiniteSet(1..Len(wire))
    BY <1>1, FS_Interval
  <2>2. mine(wire) \in SUBSET (1..Len(wire))
    OBVIOUS
  <2>. QED
    BY <2>1, <2>2, FS_Subset
<1>3. mine(wire') = IF h.by = "user" /\ h.part = "payload"
                    THEN mine(wire) \cup {Len(wire')} ELSE mine(wire)
  BY <1>1
<1>4. Len(wire') \notin mine(wire)
  BY <1>1
<1>5. /\ Cardinality(mine(wire)) \in Nat
      /\ Cardinality(mine(wire) \cup {Len(wire')}) = Cardinality(mine(wire)) + 1
  BY <1>2, <1>4, FS_AddElement, FS_CardinalityType
<1>. QED
  BY <1>3, <1>5 DEF UserFrames

-----------------------------------------------------------------------------
LEMMA Initially == Init => IInv
<1>. SUFFICES ASSUME Init PROVE IInv
  OBVIOUS
<1>. USE DEF Init
<1>1. <<>> \in Seq(Msgs) /\ <<>> \in Seq(HalfFrame) /\ Len(<<>>) = 0 /\ 1..0 = {}
  BY EmptySeq
<1>2. TypeOK
  <2>1. 0 \in 0..MaxMsgs /\ 0 \in 0..MaxOps
    BY ClientAssumption
  <2>2. wpc \in [Procs -> {"idle"}] /\ frame \in [Procs -> {"none"}]
    OBVIOUS
  <2>3. /\ wpc \in [Procs -> {"idle", "lock", "prefix", "payload", "written", "failed"}]
        /\ frame \in [Procs -> Frames \cup {"none"}]
    BY <2>2
  <2>4. inbox \in Seq(Msgs) /\ wire \in Seq(HalfFrame)
    BY <1>1
  <2>5. sentMsgs \in 0..MaxMsgs /\ ops \in 0..MaxOps /\ ready \in 0..1 /\ started \in 0..1
    BY <2>1
  <2>6. /\ link \in {"up", "eof", "reset"} /\ open \in BOOLEAN /\ broken \in BOOLEAN
        /\ writeMu \in Procs \cup {"none"} /\ rmsg \in Msgs \cup {"none"}
    OBVIOUS
  <2>7. /\ rpc \in {"read", "handle", "reply", "markStarted", "markReady", "stopped"}
        /\ upc \in {"waitReady", "grace", "accept", "session", "write", "closed"}
        /\ power \in {"unknown", "off", "on"} /\ lastErr \in Errors
        /\ result \in Errors \cup {"ok", "timeout", "closed"}
    BY DEF Errors
  <2>. HIDE DEF Init
  <2>. QED
    BY <2>3, <2>4, <2>5, <2>6, <2>7 DEF TypeOK
<1>3. Whole /\ Steps
  BY <1>1 DEF Whole, Lock, LastHalf, FramesWhole, Steps, Procs
<1>4. ErrorIsLast /\ Handshake
  BY DEF ErrorIsLast, Handshake, ReadyWasEarned
<1>5. NoGap
  <2>1. UserFrames = 0
    <3>1. {i \in 1..Len(wire) : wire[i].by = "user" /\ wire[i].part = "payload"} = {}
      BY <1>1
    <3>. QED
      BY <3>1, FS_EmptySet DEF UserFrames
  <2>. QED
    BY <2>1 DEF NoGap, Procs
<1>. QED
  BY <1>2, <1>3, <1>4, <1>5 DEF IInv

-----------------------------------------------------------------------------
(* Steps that do not write *)

\* What depends only on the writing survives a step that leaves it alone.
LEMMA StillWhole == ASSUME Whole, UNCHANGED writing PROVE Whole'
BY DEF Whole, Lock, LastHalf, FramesWhole, writing, writeVars

LEMMA DeviceKeeps == ASSUME IInv, Device PROVE IInv'
<1>. USE DEF IInv, Device, connVars, writeVars, stateVars, readVars, userVars
<1>1. TypeOK'
  <2>1. CASE DeviceSends
    <3>1. inbox' \in Seq(Msgs)
      BY <2>1, AppendProperties DEF TypeOK, DeviceSends
    <3>2. sentMsgs' \in 0..MaxMsgs
      BY <2>1, ClientAssumption DEF TypeOK, DeviceSends
    <3>. QED
      BY <2>1, <3>1, <3>2 DEF TypeOK, DeviceSends
  <2>2. CASE DeviceCloses \/ DeviceResets
    <3>1. inbox' \in {inbox, <<>>} /\ <<>> \in Seq(Msgs)
      BY <2>2, EmptySeq DEF DeviceCloses, DeviceResets
    <3>2. inbox' \in Seq(Msgs)
      BY <3>1 DEF TypeOK
    <3>. QED
      BY <2>2, <3>2 DEF TypeOK, DeviceCloses, DeviceResets
  <2>. QED
    BY <2>1, <2>2
<1>2. UNCHANGED <<writing, stateVars, readVars, userVars>>
  BY DEF DeviceSends, DeviceCloses, DeviceResets, writing
<1>3. Whole'
  BY <1>2, StillWhole
<1>4. Steps' /\ ErrorIsLast' /\ Handshake' /\ NoGap'
  BY <1>2 DEF Steps, ErrorIsLast, Handshake, ReadyWasEarned, Answered, NoGap,
     UserFrames, writing
<1>. QED
  BY <1>1, <1>3, <1>4

QuietRead == ReadMessage \/ ReadMalformed \/ ReadEnds \/ ReadFails
QuietHandle == HandleStart \/ MarkStarted \/ MarkReady \/ HandleError \/ HandleBenign

LEMMA QuietReaderKeeps == ASSUME IInv, QuietRead \/ QuietHandle PROVE IInv'
<1>. USE DEF IInv, QuietRead, QuietHandle, envVars, connVars, writeVars, stateVars,
         userVars, SetErr, Stop, ReadOn, CloseOnce
<1>1. UNCHANGED <<writing, userVars>>
  BY DEF ReadMessage, ReadMalformed, ReadEnds, ReadFails, HandleStart, MarkStarted,
     MarkReady, HandleError, HandleBenign, writing
<1>2. TypeOK'
  <2>1. CASE QuietRead
    <3>1. inbox # <<>> => Head(inbox) \in Msgs /\ Tail(inbox) \in Seq(Msgs)
      BY HeadTailProperties DEF TypeOK
    <3>2. CASE ReadMessage
      BY <3>1, <3>2 DEF ReadMessage, TypeOK
    <3>3. CASE ReadMalformed
      BY <3>1, <3>3 DEF ReadMalformed, TypeOK, Errors
    <3>4. CASE ReadEnds \/ ReadFails
      BY <3>4 DEF ReadEnds, ReadFails, TypeOK, Errors
    <3>. QED
      BY <2>1, <3>2, <3>3, <3>4
  <2>2. CASE QuietHandle
    BY <2>2 DEF HandleStart, MarkStarted, MarkReady, HandleError, HandleBenign, TypeOK,
       Errors
  <2>. QED
    BY <2>1, <2>2
<1>3. Whole'
  BY <1>1, StillWhole
<1>4. rpc # "reply" /\ rpc' # "reply" /\ rpc # "stopped"
  BY DEF ReadMessage, ReadMalformed, ReadEnds, ReadFails, HandleStart, MarkStarted,
     MarkReady, HandleError, HandleBenign
<1>5. Steps'
  BY <1>1, <1>4 DEF Steps, writing
<1>6. ErrorIsLast'
  BY <1>4 DEF ErrorIsLast, ReadMessage, ReadMalformed, ReadEnds, ReadFails, HandleStart,
     MarkStarted, MarkReady, HandleError, HandleBenign
<1>7. Handshake'
  <2>1. Answered' <=> Answered
    BY <1>1 DEF Answered, writing
  <2>2. ready <= 1 /\ started <= 1 /\ (ready > 0 => power # "unknown" \/ Answered)
    BY DEF Handshake, ReadyWasEarned, Answered
  <2>3. /\ ready' <= 1 /\ started' <= 1
        /\ rpc' = "markStarted" => power' # "unknown"
        /\ rpc' = "markReady" => power' # "unknown" \/ Answered
        /\ ready' > 0 => power' # "unknown" \/ Answered
    BY <2>2 DEF Handshake, ReadMessage, ReadMalformed, ReadEnds, ReadFails, HandleStart,
       MarkStarted, MarkReady, HandleError, HandleBenign, TypeOK
  <2>. QED
    BY <1>4, <2>1, <2>3 DEF Handshake, ReadyWasEarned, Answered
<1>8. NoGap'
  BY <1>1, <1>4 DEF NoGap, UserFrames, ErrorIsLast, writing
<1>. QED
  BY <1>2, <1>3, <1>5, <1>6, <1>7, <1>8

QuietUser == \/ Ready \/ ReadyTimesOut \/ GraceOver \/ DialRejected \/ DialAccepted
             \/ OpRefused \/ Close

LEMMA QuietUserKeeps == ASSUME IInv, QuietUser PROVE IInv'
<1>. USE DEF IInv, QuietUser, Ready, ReadyTimesOut, GraceOver, DialRejected, DialAccepted,
         OpRefused, Close, CloseConn, UserAt, envVars, connVars, writeVars, stateVars,
         readVars
<1>1. UNCHANGED <<writing, stateVars, readVars>> /\ upc # "write" /\ upc' # "write"
  BY DEF writing
<1>2. TypeOK'
  <2>1. upc' \in {"grace", "accept", "session", "closed"} /\ open' \in BOOLEAN
    BY DEF TypeOK
  <2>2. ops' \in 0..MaxOps /\ result' \in Errors \cup {"ok", "timeout", "closed"}
    BY ClientAssumption DEF TypeOK
  <2>3. UNCHANGED <<broken, wire, envVars>>
    OBVIOUS
  <2>. QED
    BY <1>1, <2>1, <2>2, <2>3 DEF TypeOK
<1>3. Whole'
  BY <1>1, StillWhole
<1>4. Steps' /\ ErrorIsLast' /\ Handshake'
  BY <1>1 DEF Steps, ErrorIsLast, Handshake, ReadyWasEarned, Answered, writing
<1>5. ops' = ops \/ lastErr # "none"
  OBVIOUS
<1>6. NoGap'
  BY <1>1, <1>5 DEF NoGap, UserFrames, writing
<1>. QED
  BY <1>2, <1>3, <1>4, <1>6

-----------------------------------------------------------------------------
(* Entering and leaving writeMessage *)

LEMMA StartKeepsWhole ==
    ASSUME TypeOK, Whole, NEW p \in Procs, NEW f, wpc[p] = "idle", StartWrite(p, f),
           UNCHANGED <<broken, wire>>
    PROVE  Whole'
BY DEF TypeOK, Whole, Lock, LastHalf, FramesWhole, StartWrite

LEMMA EndKeepsWhole ==
    ASSUME TypeOK, Whole, NEW p \in Procs, wpc[p] \in {"written", "failed"}, EndWrite(p),
           UNCHANGED <<broken, wire>>
    PROVE  Whole'
BY DEF TypeOK, Whole, Lock, LastHalf, FramesWhole, EndWrite

LEMMA HandleRequestKeeps == ASSUME IInv, HandleRequest PROVE IInv'
<1>. USE DEF IInv, HandleRequest, envVars, connVars, stateVars, userVars
<1>1. wpc["reader"] = "idle" /\ "reader" \in Procs /\ "user" \in Procs
  BY DEF Steps, Procs, TypeOK
<1>2. /\ wpc' = [wpc EXCEPT !["reader"] = "lock"]
      /\ frame' = [frame EXCEPT !["reader"] = rmsg]
      /\ wpc'["reader"] = "lock" /\ frame'["reader"] = rmsg
      /\ wpc'["user"] = wpc["user"] /\ frame'["user"] = frame["user"]
  BY <1>1 DEF StartWrite, TypeOK, Procs
<1>3. TypeOK'
  BY <1>1, <1>2 DEF TypeOK, StartWrite, Frames
<1>4. Whole'
  BY <1>1, StartKeepsWhole
<1>5. Steps' /\ ErrorIsLast' /\ Handshake'
  BY <1>2 DEF Steps, ErrorIsLast, Handshake, ReadyWasEarned, Answered, Procs
<1>6. NoGap'
  BY <1>2 DEF NoGap, UserFrames
<1>. QED
  BY <1>3, <1>4, <1>5, <1>6

LEMMA ReplyEndsKeeps == ASSUME IInv, ReplyWritten \/ ReplyFails PROVE IInv'
<1>. USE DEF IInv, ReplyWritten, ReplyFails, envVars, connVars, stateVars, userVars,
         ReadOn, Stop, SetErr
<1>1. wpc["reader"] \in {"written", "failed"} /\ "reader" \in Procs /\ "user" \in Procs
  BY DEF Procs
<1>2. /\ wpc' = [wpc EXCEPT !["reader"] = "idle"]
      /\ frame' = [frame EXCEPT !["reader"] = "none"]
      /\ wpc'["reader"] = "idle"
      /\ wpc'["user"] = wpc["user"] /\ frame'["user"] = frame["user"]
  BY <1>1 DEF EndWrite, TypeOK, Procs
<1>3. TypeOK'
  BY <1>1, <1>2 DEF TypeOK, EndWrite, Errors
<1>4. Whole'
  BY <1>1, EndKeepsWhole
<1>5. Steps' /\ ErrorIsLast'
  BY <1>2 DEF Steps, ErrorIsLast, Procs
<1>6. Handshake'
  BY DEF Handshake, ReadyWasEarned, Answered
<1>7. NoGap'
  BY <1>2 DEF NoGap, UserFrames
<1>. QED
  BY <1>3, <1>4, <1>5, <1>6, <1>7

LEMMA OpStartsKeeps == ASSUME IInv, OpStarts PROVE IInv'
<1>. USE DEF IInv, OpStarts, UserAt, envVars, connVars, stateVars, readVars
<1>1. wpc["user"] = "idle" /\ "reader" \in Procs /\ "user" \in Procs
  BY DEF Steps, Procs, TypeOK
<1>2. /\ wpc' = [wpc EXCEPT !["user"] = "lock"]
      /\ frame' = [frame EXCEPT !["user"] = "key"]
      /\ wpc'["user"] = "lock" /\ frame'["user"] = "key"
      /\ wpc'["reader"] = wpc["reader"] /\ frame'["reader"] = frame["reader"]
  BY <1>1 DEF StartWrite, TypeOK, Procs
<1>3. TypeOK'
  BY <1>1, <1>2, ClientAssumption DEF TypeOK, StartWrite, Frames
<1>4. Whole'
  BY <1>1, StartKeepsWhole
<1>5. Steps' /\ ErrorIsLast' /\ Handshake'
  BY <1>2 DEF Steps, ErrorIsLast, Handshake, ReadyWasEarned, Answered, Procs
<1>6. NoGap'
  BY <1>1, <1>2 DEF NoGap, UserFrames
<1>. QED
  BY <1>3, <1>4, <1>5, <1>6

LEMMA OpEndsKeeps == ASSUME IInv, OpWritten \/ OpFails PROVE IInv'
<1>. USE DEF IInv, OpWritten, OpFails, UserAt, envVars, connVars, stateVars, readVars
<1>1. wpc["user"] \in {"written", "failed"} /\ "reader" \in Procs /\ "user" \in Procs
  BY DEF Procs
<1>2. /\ wpc' = [wpc EXCEPT !["user"] = "idle"]
      /\ frame' = [frame EXCEPT !["user"] = "none"]
      /\ wpc'["user"] = "idle"
      /\ wpc'["reader"] = wpc["reader"] /\ frame'["reader"] = frame["reader"]
  BY <1>1 DEF EndWrite, TypeOK, Procs
<1>3. TypeOK'
  BY <1>1, <1>2 DEF TypeOK, EndWrite, Errors
<1>4. Whole'
  BY <1>1, EndKeepsWhole
<1>5. Steps' /\ ErrorIsLast' /\ Handshake'
  BY <1>2 DEF Steps, ErrorIsLast, Handshake, ReadyWasEarned, Answered, Procs
<1>6. NoGap'
  <2>1. UserFrames' = UserFrames
    BY DEF UserFrames
  <2>2. wpc["user"] = "failed" => broken
    BY <1>1 DEF Steps
  <2>. QED
    BY <1>1, <1>2, <2>1, <2>2 DEF NoGap
<1>. QED
  BY <1>3, <1>4, <1>5, <1>6

-----------------------------------------------------------------------------
(* Inside writeMessage *)

LEMMA LockWriteKeeps == ASSUME IInv, NEW p \in Procs, LockWrite(p) PROVE IInv'
<1>. USE DEF IInv, LockWrite, envVars, connVars, stateVars, readVars, userVars
<1>1. /\ wpc' = [wpc EXCEPT ![p] = "prefix"] /\ wpc'[p] = "prefix"
      /\ \A q \in Procs \ {p} : wpc'[q] = wpc[q]
      /\ "user" \in Procs /\ "reader" \in Procs
  BY DEF TypeOK, Procs
<1>2. TypeOK'
  BY <1>1 DEF TypeOK
<1>3. Whole'
  <2>1. Lock'
    BY <1>1 DEF Whole, Lock, Procs
  <2>2. LastHalf'
    BY <1>1 DEF Whole, LastHalf
  <2>3. FramesWhole'
    BY DEF Whole, FramesWhole
  <2>. QED
    BY <2>1, <2>2, <2>3 DEF Whole
<1>4. Steps' /\ ErrorIsLast'
  BY <1>1 DEF Steps, ErrorIsLast, Procs
<1>5. Handshake'
  BY <1>1 DEF Handshake, ReadyWasEarned, Answered, Procs
<1>6. NoGap'
  BY <1>1 DEF NoGap, UserFrames
<1>. QED
  BY <1>2, <1>3, <1>4, <1>5, <1>6

LEMMA WriteFailsKeeps == ASSUME IInv, NEW p \in Procs, WriteFails(p) PROVE IInv'
<1>. USE DEF IInv, WriteFails, envVars, stateVars, readVars, userVars
<1>1. /\ wpc' = [wpc EXCEPT ![p] = "failed"] /\ wpc'[p] = "failed"
      /\ \A q \in Procs \ {p} : wpc'[q] = wpc[q]
      /\ "user" \in Procs /\ "reader" \in Procs
  BY DEF TypeOK, Procs
<1>2. TypeOK'
  BY <1>1 DEF TypeOK
<1>3. Whole'
  BY <1>1 DEF Whole, Lock, LastHalf, FramesWhole, Procs
<1>4. Steps' /\ ErrorIsLast'
  BY <1>1 DEF Steps, ErrorIsLast, Procs
<1>5. Handshake'
  BY <1>1 DEF Handshake, ReadyWasEarned, Answered, Procs
<1>6. NoGap'
  BY <1>1 DEF NoGap, UserFrames
<1>. QED
  BY <1>2, <1>3, <1>4, <1>5, <1>6

LEMMA WriteHalfKeeps == ASSUME IInv, NEW p \in Procs, WriteHalf(p) PROVE IInv'
<1>. USE DEF IInv, WriteHalf, envVars, stateVars, readVars, userVars
<1>. DEFINE to == IF wpc[p] = "prefix" THEN "payload" ELSE "written"
<1>1. /\ wpc' = [wpc EXCEPT ![p] = to] /\ wpc'[p] = to
      /\ \A q \in Procs \ {p} : wpc'[q] = wpc[q]
      /\ "user" \in Procs /\ "reader" \in Procs
      /\ wpc[p] \in {"prefix", "payload"} /\ writeMu = p
      /\ \A q \in Procs \ {p} : wpc[q] \notin {"prefix", "payload"}
  BY DEF TypeOK, Procs, Whole, Lock
<1>2. Half(p) \in HalfFrame /\ frame[p] \in Frames
  <2>1. frame[p] \in Frames
    BY <1>1 DEF Steps, Procs, Frames
  <2>. QED
    BY <1>1, <2>1 DEF Half, HalfFrame
<1>3. /\ wire' \in Seq(HalfFrame) /\ wire' # <<>>
      /\ Len(wire) \in Nat /\ Len(wire') = Len(wire) + 1
      /\ wire'[Len(wire')] = Half(p)
      /\ \A i \in 1..Len(wire) : wire'[i] = wire[i]
  BY <1>2, OneMore DEF TypeOK
<1>4. TypeOK'
  BY <1>1, <1>3 DEF TypeOK
<1>5. Lock'
  BY <1>1 DEF Whole, Lock, Procs, TypeOK
<1>6. LastHalf'
  BY <1>1, <1>3 DEF LastHalf, Half
<1>7. FramesWhole'
  <2>1. CASE wpc[p] = "prefix"
    <3>1. wire = <<>> \/ wire[Len(wire)].part = "payload"
      BY <1>1, <2>1 DEF Whole, LastHalf
    <3>2. Half(p).part = "prefix"
      BY <2>1 DEF Half
    <3>. QED
      BY <1>3, <3>1, <3>2, EmptySeq DEF Whole, FramesWhole
  <2>2. CASE wpc[p] = "payload"
    <3>1. /\ wire # <<>>
          /\ wire[Len(wire)] = [by |-> p, part |-> "prefix", frame |-> frame[p]]
      BY <2>2 DEF Whole, LastHalf
    <3>2. Half(p) = [by |-> p, part |-> "payload", frame |-> frame[p]]
      BY <2>2 DEF Half
    <3>3. Len(wire) > 0
      BY <1>3, <3>1, EmptySeq DEF TypeOK
    <3>4. Half(p) = [wire[Len(wire)] EXCEPT !.part = "payload"]
          /\ wire[Len(wire)] = [Half(p) EXCEPT !.part = "prefix"]
          /\ wire[Len(wire)].part = "prefix" /\ Half(p).part = "payload"
      BY <3>1, <3>2
    <3>5. ASSUME NEW i \in 1..Len(wire')
          PROVE  /\ wire'[i].part = "payload" =>
                        i > 1 /\ wire'[i - 1] = [wire'[i] EXCEPT !.part = "prefix"]
                 /\ wire'[i].part = "prefix" /\ i < Len(wire') =>
                        wire'[i + 1] = [wire'[i] EXCEPT !.part = "payload"]
      <4>1. CASE i = Len(wire')
        <5>1. wire'[i] = Half(p) /\ wire'[i - 1] = wire[Len(wire)] /\ i > 1
          BY <1>3, <3>3, <4>1
        <5>. QED
          BY <3>4, <4>1, <5>1
      <4>2. CASE i = Len(wire)
        <5>1. wire'[i] = wire[Len(wire)] /\ wire'[i + 1] = Half(p)
          BY <1>3, <3>3, <4>2
        <5>. QED
          BY <3>4, <5>1
      <4>3. CASE i < Len(wire)
        <5>1. wire'[i] = wire[i] /\ wire'[i + 1] = wire[i + 1]
              /\ (i > 1 => wire'[i - 1] = wire[i - 1])
          BY <1>3, <4>3
        <5>. QED
          BY <1>3, <4>3, <5>1 DEF Whole, FramesWhole
      <4>4. i = Len(wire') \/ i = Len(wire) \/ i < Len(wire)
        BY <1>3
      <4>. QED
        BY <4>1, <4>2, <4>3, <4>4
    <3>. QED
      BY <3>5 DEF FramesWhole
  <2>. QED
    BY <1>1, <2>1, <2>2
<1>8. Steps' /\ ErrorIsLast'
  BY <1>1 DEF Steps, ErrorIsLast, Procs
<1>9. Handshake'
  <2>1. Answered => Answered'
    BY <1>3 DEF Answered
  <2>2. p = "reader" /\ wpc[p] = "payload" /\ rmsg = "setActive" => Answered'
    BY <1>1, <1>3 DEF Answered, Half, Steps
  <2>. QED
    BY <1>1, <2>1, <2>2 DEF Handshake, ReadyWasEarned, Answered, Procs
<1>10. NoGap'
  <2>1. /\ UserFrames \in Nat
        /\ UserFrames' = IF Half(p).by = "user" /\ Half(p).part = "payload"
                         THEN UserFrames + 1 ELSE UserFrames
    BY <1>2, Counted DEF TypeOK
  <2>. QED
    BY <1>1, <2>1 DEF NoGap, Half, Procs
<1>. QED
  BY <1>4, <1>5, <1>6, <1>7, <1>8, <1>9, <1>10 DEF Whole

LEMMA Preserved == ASSUME IInv, [Next]_vars PROVE IInv'
<1>1. CASE Reader
  BY <1>1, QuietReaderKeeps, HandleRequestKeeps, ReplyEndsKeeps
     DEF Reader, Handle, QuietRead, QuietHandle
<1>2. CASE User
  BY <1>2, QuietUserKeeps, OpStartsKeeps, OpEndsKeeps DEF User, QuietUser
<1>3. CASE \E p \in Procs : WriteMessage(p)
  BY <1>3, LockWriteKeeps, WriteHalfKeeps, WriteFailsKeeps DEF WriteMessage
<1>4. CASE UNCHANGED vars
  <2>1. /\ UNCHANGED <<envVars, connVars, writeVars, stateVars, readVars, userVars>>
        /\ UNCHANGED writing
    BY <1>4 DEF vars, connVars, writing
  <2>. USE DEF IInv, envVars, connVars, writeVars, stateVars, readVars, userVars
  <2>2. TypeOK' /\ Whole'
    BY <2>1, StillWhole DEF TypeOK
  <2>3. Steps' /\ ErrorIsLast' /\ Handshake' /\ NoGap'
    BY <2>1 DEF Steps, ErrorIsLast, Handshake, ReadyWasEarned, Answered, NoGap,
       UserFrames
  <2>. QED
    BY <2>2, <2>3
<1>. QED
  BY <1>1, <1>2, <1>3, <1>4, DeviceKeeps DEF Next

-----------------------------------------------------------------------------
(* The results *)

LEMMA Inductive == Spec => []IInv
<1>. QED
  BY Initially, Preserved, PTL DEF Spec

\* Every variable of the connection keeps its type: reader and user are at no
\* step but those of remote.go and session.go, and no channel is closed twice.
THEOREM TypeCorrect == Spec => []TypeOK
<1>1. IInv => TypeOK
  BY DEF IInv
<1>. QED
  BY <1>1, Inductive, PTL

\* The device reads whole frames, whoever writes them (writeMessage).
THEOREM WholeFrames == Spec => []FramesWhole
<1>1. IInv => FramesWhole
  BY DEF IInv, Whole
<1>. QED
  BY <1>1, Inductive, PTL

\* The session is ready only after a power report or an answered
\* remote_set_active (handleIncoming).
THEOREM EarnedReady == Spec => []ReadyWasEarned
<1>1. IInv => ReadyWasEarned
  BY DEF IInv, Handshake
<1>. QED
  BY <1>1, Inductive, PTL

\* When an operation reports success, all operations so far are on the wire
\* (sendKeyCodeWithDelay, LaunchAppLink).
THEOREM NothingLost == Spec => SuccessHasNoGap
<1>1. ASSUME IInv, [Next]_vars, upc = "write", upc' = "session", result' = "ok"
      PROVE  UserFrames = ops
  <2>1. OpWritten \/ OpFails
    BY <1>1 DEF Next, Device, DeviceSends, DeviceCloses, DeviceResets, Reader, ReadMessage,
       ReadMalformed, ReadEnds, ReadFails, Handle, HandleRequest, ReplyWritten,
       ReplyFails, HandleStart, MarkStarted, MarkReady, HandleError, HandleBenign,
       User, Ready, ReadyTimesOut, GraceOver, DialRejected, DialAccepted, OpRefused,
       OpStarts, Close, CloseConn, UserAt, WriteMessage, LockWrite, WriteHalf,
       WriteFails, userVars, vars
  <2>2. wpc["user"] = "written" /\ lastErr = "none"
    BY <1>1, <2>1 DEF OpWritten, OpFails, IInv, TypeOK, Errors
  <2>. QED
    BY <1>1, <2>2 DEF IInv, NoGap
<1>2. IInv /\ [Next]_vars
      => [upc = "write" /\ upc' = "session" /\ result' = "ok" => UserFrames = ops]_vars
  BY <1>1
<1>. QED
  BY <1>2, Inductive, PTL DEF Spec, SuccessHasNoGap

-----------------------------------------------------------------------------
(* The connection as its user sees it *)

\* What SessionView is told of the connection.
viewVars == <<open, power, lastErr, ready>>

LEMMA ViewStutters ==
    ASSUME UNCHANGED viewVars
    PROVE  UNCHANGED View!vars
BY DEF viewVars, View!vars

LEMMA ViewReader ==
    ASSUME IInv, Reader, ~UNCHANGED viewVars
    PROVE  View!Next \/ UNCHANGED View!vars
<1>. USE DEF viewVars, View!vars, View!Next
<1>1. CASE ~open
  <2>1. open' = open /\ open = FALSE
    BY <1>1 DEF Reader, ReadMessage, ReadMalformed, ReadEnds, ReadFails, Handle,
       HandleRequest, ReplyWritten, ReplyFails, HandleStart, MarkStarted, MarkReady,
       HandleError, HandleBenign, connVars, IInv, TypeOK
  <2>. QED
    BY <1>1, <2>1
<1>2. CASE open
  <2>1. open' = open /\ lastErr = "none" /\ ready \in 0..1
    BY <1>2 DEF Reader, ReadMessage, ReadMalformed, ReadEnds, ReadFails, Handle,
       HandleRequest, ReplyWritten, ReplyFails, HandleStart, MarkStarted, MarkReady,
       HandleError, HandleBenign, connVars, stateVars, IInv, ErrorIsLast, TypeOK
  <2>2. CASE HandleStart
    <3>1. View!ReportPower
      BY <1>2, <2>1, <2>2 DEF HandleStart, View!ReportPower
    <3>. QED
      BY <3>1
  <2>3. CASE MarkReady
    <3>1. View!Activate \/ UNCHANGED View!vars
      BY <1>2, <2>1, <2>3 DEF MarkReady, CloseOnce, View!Activate
    <3>. QED
      BY <3>1
  <2>4. CASE ReadMalformed \/ ReadFails \/ ReplyFails \/ HandleError
    <3>1. lastErr' \in {"read", "write", "device"} /\ UNCHANGED <<power, ready>>
      BY <2>1, <2>4 DEF ReadMalformed, ReadFails, ReplyFails, HandleError, SetErr
    <3>2. View!Fail
      BY <1>2, <2>1, <3>1 DEF View!Fail
    <3>. QED
      BY <3>2
  <2>5. CASE \/ ReadMessage \/ ReadEnds \/ HandleRequest \/ ReplyWritten
             \/ MarkStarted \/ HandleBenign
    BY <2>1, <2>5 DEF ReadMessage, ReadEnds, HandleRequest, ReplyWritten, MarkStarted,
       HandleBenign, stateVars
  <2>. QED
    BY <2>2, <2>3, <2>4, <2>5 DEF Reader, Handle
<1>. QED
  BY <1>1, <1>2

LEMMA ViewUser ==
    ASSUME IInv, User, ~UNCHANGED viewVars
    PROVE  View!Next \/ UNCHANGED View!vars
<1>1. open' = FALSE /\ open \in BOOLEAN
  BY DEF viewVars, User, Ready, ReadyTimesOut, GraceOver, DialRejected, DialAccepted,
     OpRefused, OpStarts, OpWritten, OpFails, Close, CloseConn, stateVars, connVars,
     IInv, TypeOK
<1>2. CASE open
  <2>1. View!Close
    BY <1>1, <1>2 DEF View!Close, View!Blank
  <2>. QED
    BY <2>1 DEF View!Next
<1>3. CASE ~open
  BY <1>1, <1>3 DEF View!vars
<1>. QED
  BY <1>1, <1>2, <1>3

\* The connection with its reader, its lock and its frames implements the
\* connection that AndroidTVSender is built on (SessionView).
THEOREM Refinement == Spec => ImplementsView
<1>1. Init => View!Init
  BY DEF Init, View!Init
<1>2. ASSUME IInv, [Next]_vars
      PROVE  View!Next \/ UNCHANGED View!vars
  <2>1. CASE Device \/ (\E p \in Procs : WriteMessage(p)) \/ UNCHANGED vars
    <3>1. UNCHANGED viewVars
      BY <2>1 DEF Device, DeviceSends, DeviceCloses, DeviceResets, WriteMessage,
         LockWrite, WriteHalf, WriteFails, connVars, stateVars, vars, viewVars
    <3>. QED
      BY <3>1, ViewStutters
  <2>. QED
    BY <1>2, <2>1, ViewReader, ViewUser, ViewStutters DEF Next
<1>3. IInv /\ [Next]_vars => [View!Next]_(View!vars)
  BY <1>2
<1>. QED
  BY <1>1, <1>3, Inductive, PTL DEF Spec, ImplementsView, View!Spec
=============================================================================
