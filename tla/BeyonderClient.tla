---------------------------- MODULE BeyonderClient ----------------------------
(****************************************************************************)
(* One connection of NVIDIA's own protocol (internal/beyonder client.go and *)
(* session.go), used as adapters/out/beyonder uses it: dial, Hello, then    *)
(* power inputs or app launches, then Close, all under one context with a   *)
(* deadline.  The reader forwards what the device sends through a bounded   *)
(* channel and closes it when it ends; Hello may start a keepalive, which   *)
(* writes on the same connection under the same lock.                       *)
(****************************************************************************)
EXTENDS Naturals, Sequences

CONSTANTS
    ChanCap,    \* capacity of the msgs channel: 64 in the code
    MaxMsgs,    \* bound: messages the device sends
    MaxOps,     \* bound: inputs and launches by the user
    MaxProbes   \* bound: keepalive probes

ASSUME BeyonderAssumption ==
    /\ ChanCap \in Nat \ {0}
    /\ MaxMsgs \in Nat /\ MaxOps \in Nat /\ MaxProbes \in Nat

\* AUTHORIZATION_LEVEL with or without VIRTUAL_INPUT, a launch result, a
\* round-trip message, anything else, and bytes that do not decode.
Msgs == {"granted", "denied", "launched", "rtt", "other", "bad"}
Auth == {"granted", "denied"}

VARIABLES
    inbox, total, link,     \* device: unread messages, their number, the link
    forwarded,              \* messages the reader meant for the user (history)
    chan, chanClosed,       \* the msgs channel
    hand,                   \* message the reader is about to forward
    rpc, readerEnd,         \* the reader's step; what ended it (history)
    done, err,              \* Client.done and Client.err
    wmu, wire,              \* owner of the write lock; frames written
    kpc, probes,            \* the keepalive's step; probes so far
    upc, ops, taken,        \* the user's step, operations, messages received
    level,                  \* Client.level
    ctx                     \* "live", "canceled" or "deadline"

deviceVars == <<inbox, total, link>>
readerVars == <<forwarded, chan, chanClosed, hand, rpc, readerEnd>>
writeVars == <<wmu, wire>>
keepVars == <<kpc, probes>>
userVars == <<upc, ops, taken, level>>
vars == <<deviceVars, readerVars, done, err, writeVars, keepVars, userVars, ctx>>

Init ==
    /\ inbox = <<>> /\ total = 0 /\ link = "up"
    /\ forwarded = <<>> /\ chan = <<>> /\ chanClosed = FALSE
    /\ hand = "none" /\ rpc = "read" /\ readerEnd = "none"
    /\ done = FALSE /\ err = "none"
    /\ wmu = "none" /\ wire = <<>>
    /\ kpc = "off" /\ probes = 0
    /\ upc = "hello" /\ ops = 0 /\ taken = <<>> /\ level = "none"
    /\ ctx = "live"

-----------------------------------------------------------------------------
(* The device and the clock *)

DeviceSends ==
    /\ link = "up" /\ ~done /\ total < MaxMsgs
    /\ \E m \in Msgs : inbox' = Append(inbox, m)
    /\ total' = total + 1
    /\ UNCHANGED <<link, readerVars, done, err, writeVars, keepVars, userVars, ctx>>

DeviceLeaves ==
    /\ link = "up" /\ link' \in {"eof", "reset"}
    /\ UNCHANGED <<inbox, total, readerVars, done, err, writeVars, keepVars,
                   userVars, ctx>>

\* The step budget runs out, or the caller cancels.
CtxEnds ==
    /\ ctx = "live" /\ ctx' \in {"canceled", "deadline"}
    /\ UNCHANGED <<deviceVars, readerVars, done, err, writeVars, keepVars, userVars>>

-----------------------------------------------------------------------------
(* readLoop *)

SetErr(e) == err' = IF err = "none" THEN e ELSE err

\* The deferred close(c.msgs) runs on every way out.
ReaderStops(e) ==
    /\ rpc' = "stopped" /\ readerEnd' = e /\ chanClosed' = TRUE
    /\ hand' = "none"
    /\ UNCHANGED <<forwarded, chan>>

\* RTT messages are absorbed.
ReadMessage ==
    /\ rpc = "read" /\ inbox # <<>> /\ Head(inbox) # "bad"
    /\ inbox' = Tail(inbox)
    /\ IF Head(inbox) = "rtt"
       THEN UNCHANGED <<forwarded, hand, rpc>>
       ELSE /\ forwarded' = Append(forwarded, Head(inbox))
            /\ hand' = Head(inbox) /\ rpc' = "forward"
    /\ UNCHANGED <<chan, chanClosed, readerEnd, total, link, done, err,
                   writeVars, keepVars, userVars, ctx>>

\* Mutant for MessagesInOrder: a select whose default drops the message.
ForwardOrDrop ==
    /\ rpc = "forward"
    /\ chan' = IF Len(chan) < ChanCap THEN Append(chan, hand) ELSE chan
    /\ hand' = "none" /\ rpc' = "read"
    /\ UNCHANGED <<forwarded, chanClosed, readerEnd, deviceVars, done, err,
                   writeVars, keepVars, userVars, ctx>>

\* Blocked while the channel is full.
Forward ==
    /\ rpc = "forward" /\ Len(chan) < ChanCap
    /\ chan' = Append(chan, hand)
    /\ hand' = "none" /\ rpc' = "read"
    /\ UNCHANGED <<forwarded, chanClosed, readerEnd, deviceVars, done, err,
                   writeVars, keepVars, userVars, ctx>>

ForwardDone ==
    /\ rpc = "forward" /\ done
    /\ ReaderStops("done")
    /\ UNCHANGED <<deviceVars, done, err, writeVars, keepVars, userVars, ctx>>

ReadBad ==
    /\ rpc = "read" /\ inbox # <<>> /\ Head(inbox) = "bad"
    /\ inbox' = Tail(inbox)
    /\ SetErr("decode") /\ ReaderStops("decode")
    /\ UNCHANGED <<total, link, done, writeVars, keepVars, userVars, ctx>>

ReadFails ==
    /\ rpc = "read"
    /\ \E e \in {"eof", "reset", "closed"} :
          /\ e = IF done THEN "closed" ELSE link
          /\ e # "closed" => inbox = <<>>
          /\ SetErr(e) /\ ReaderStops(e)
    /\ UNCHANGED <<deviceVars, done, writeVars, keepVars, userVars, ctx>>

Reader == ReadMessage \/ Forward \/ ForwardDone \/ ReadBad \/ ReadFails

-----------------------------------------------------------------------------
(* Send: one look at the context, then the lock, then the write.  Whoever waits
   for the lock no longer looks at the context, and gets it as long as everyone
   gives it back.  A write may be lost or refused once the device is gone; it
   fails after Close, and past the deadline unless it had begun before. *)

LockSend(p) == wmu = "none" /\ wmu' = p /\ UNCHANGED wire

WriteOk(p, f) ==
    /\ wmu = p /\ ~done
    /\ wire' = Append(wire, f)
    /\ wmu' = "none"

\* Mutant for ClientIsClosed: the lock is given back by a write that succeeds.
WriteFailsLocked(p) ==
    /\ wmu = p
    /\ done \/ link # "up" \/ ctx = "deadline"
    /\ UNCHANGED <<wmu, wire>>

WriteFails(p) ==
    /\ wmu = p
    /\ done \/ link # "up" \/ ctx = "deadline"
    /\ wmu' = "none" /\ UNCHANGED wire

-----------------------------------------------------------------------------
(* StartKeepalive *)

KeepStops ==
    /\ kpc = "select" /\ (ctx # "live" \/ done)
    /\ kpc' = "stopped"
    /\ UNCHANGED <<probes, deviceVars, readerVars, done, err, writeVars, userVars, ctx>>

\* The tick may win against a context or a Close that is already over.
KeepTick ==
    /\ kpc = "select" /\ probes < MaxProbes
    /\ probes' = probes + 1
    /\ kpc' = "send"
    /\ UNCHANGED <<deviceVars, readerVars, done, err, writeVars, userVars, ctx>>

\* A failed probe ends the keepalive; unless it was cancelled its error is
\* kept as the client's.
KeepSend ==
    /\ kpc = "send"
    /\ IF ctx = "live" THEN kpc' = "lock" /\ UNCHANGED err
       ELSE /\ kpc' = "stopped"
            /\ IF ctx = "canceled" THEN UNCHANGED err ELSE SetErr("deadline")
    /\ UNCHANGED <<probes, deviceVars, readerVars, done, writeVars, userVars, ctx>>

KeepLock ==
    /\ kpc = "lock" /\ kpc' = "write"
    /\ LockSend("keepalive")
    /\ UNCHANGED <<probes, deviceVars, readerVars, done, err, userVars, ctx>>

KeepWritten ==
    /\ kpc = "write" /\ kpc' = "select"
    /\ WriteOk("keepalive", "probe")
    /\ UNCHANGED <<probes, deviceVars, readerVars, done, err, userVars, ctx>>

KeepFails ==
    /\ kpc = "write" /\ kpc' = "stopped"
    /\ WriteFails("keepalive")
    /\ SetErr("write")
    /\ UNCHANGED <<probes, deviceVars, readerVars, done, userVars, ctx>>

Keepalive ==
    KeepStops \/ KeepTick \/ KeepSend \/ KeepLock \/ KeepWritten \/ KeepFails

-----------------------------------------------------------------------------
(* The user: Hello, SendSpecialInput, LaunchApp, Close *)

UserRest == <<deviceVars, forwarded, chanClosed, hand, rpc, readerEnd, err,
              probes, ctx>>

\* What the user sends at each step, and where it goes when that is written.
Frame == [hello |-> "hello", input |-> "input", launch |-> "launch"]
Locking == [hello |-> "helloLock", input |-> "inputLock", launch |-> "launchLock"]
Writing == [hello |-> "helloWrite", input |-> "inputWrite",
            launch |-> "launchWrite"]
AfterWrite == [hello |-> "waitAuth", input |-> "ready", launch |-> "waitLaunch"]

UserSend(s) ==
    /\ upc = s
    /\ upc' = IF ctx = "live" THEN Locking[s] ELSE "close"
    /\ UNCHANGED <<UserRest, chan, done, kpc, writeVars, ops, taken, level>>

UserLock(s) ==
    /\ upc = Locking[s] /\ upc' = Writing[s]
    /\ LockSend("user")
    /\ UNCHANGED <<UserRest, chan, done, kpc, ops, taken, level>>

UserWritten(s) ==
    /\ upc = Writing[s]
    /\ WriteOk("user", Frame[s])
    /\ upc' = AfterWrite[s]
    /\ UNCHANGED <<UserRest, chan, done, kpc, ops, taken, level>>

UserWriteFails(s) ==
    /\ upc = Writing[s]
    /\ WriteFails("user")
    /\ upc' = "close"
    /\ UNCHANGED <<UserRest, chan, done, kpc, ops, taken, level>>

Waiting == {"waitAuth", "waitLaunch"}

WaitCancelled ==
    /\ upc \in Waiting /\ ctx # "live"
    /\ upc' = "close"
    /\ UNCHANGED <<UserRest, chan, done, kpc, writeVars, ops, taken, level>>

\* Mutant for NoReplyMissed: wait learns of the end by another way than the
\* channel that holds the messages.
WaitClosedEarly ==
    /\ upc \in Waiting /\ chanClosed
    /\ upc' = "close"
    /\ UNCHANGED <<UserRest, chan, done, kpc, writeVars, ops, taken, level>>

\* A closed channel is seen only when what it held has been received.
WaitClosed ==
    /\ upc \in Waiting /\ chan = <<>> /\ chanClosed
    /\ upc' = "close"
    /\ UNCHANGED <<UserRest, chan, done, kpc, writeVars, ops, taken, level>>

Receive(m) ==
    /\ chan # <<>> /\ m = Head(chan)
    /\ chan' = Tail(chan)
    /\ taken' = Append(taken, m)

\* wait drops what it is not waiting for.
WaitSkips ==
    /\ \E m \in Msgs : /\ Receive(m)
                       /\ \/ upc = "waitAuth" /\ m \notin Auth
                          \/ upc = "waitLaunch" /\ m # "launched"
    /\ UNCHANGED <<UserRest, upc, done, kpc, writeVars, ops, level>>

\* Hello stores the level; the device may ask for a keepalive.
WaitAuth ==
    /\ upc = "waitAuth" /\ upc' = "ready"
    /\ \E m \in Auth : Receive(m) /\ level' = m
    /\ kpc' \in {"off", "select"}
    /\ UNCHANGED <<UserRest, done, writeVars, ops>>

WaitLaunch ==
    /\ upc = "waitLaunch" /\ upc' = "ready"
    /\ Receive("launched")
    /\ UNCHANGED <<UserRest, done, kpc, writeVars, ops, level>>

\* ErrNotPaired unless the device granted VIRTUAL_INPUT.
Operate ==
    /\ upc = "ready" /\ ops < MaxOps
    /\ ops' = ops + 1
    /\ upc' \in IF level = "granted" THEN {"input", "launch"} ELSE {"close"}
    /\ UNCHANGED <<UserRest, chan, done, kpc, writeVars, taken, level>>

Close ==
    /\ upc \in {"ready", "close"} /\ upc' = "closed"
    /\ done' = TRUE
    /\ UNCHANGED <<UserRest, chan, kpc, writeVars, ops, taken, level>>

Sends == DOMAIN Frame

User == \/ \E s \in Sends :
              UserSend(s) \/ UserLock(s) \/ UserWritten(s) \/ UserWriteFails(s)
        \/ WaitCancelled \/ WaitClosed \/ WaitSkips \/ WaitAuth \/ WaitLaunch
        \/ Operate \/ Close

Next == DeviceSends \/ DeviceLeaves \/ CtxEnds \/ Reader \/ Keepalive \/ User

Spec == Init /\ [][Next]_vars

\* Goroutines run, Go mutexes and selects starve nobody for ever, writes end
\* (they have the context's deadline), and the context ends.  The device owes
\* nothing, and nothing but its lock lets a goroutine leave LockSend.
Fairness ==
    /\ WF_vars(Reader) /\ WF_vars(CtxEnds)
    /\ WF_vars(KeepSend) /\ SF_vars(KeepStops) /\ SF_vars(KeepLock)
    /\ WF_vars(KeepWritten \/ KeepFails)
    /\ WF_vars(User) /\ \A s \in Sends : SF_vars(UserLock(s))

FairSpec == Spec /\ Fairness

-----------------------------------------------------------------------------
(* Properties *)

Ends == {"none", "eof", "reset", "closed", "decode", "done"}

\* Every variable has the shape of the Go value it stands for.
TypeOK ==
    /\ inbox \in Seq(Msgs) /\ total \in 0..MaxMsgs
    /\ link \in {"up", "eof", "reset"}
    /\ forwarded \in Seq(Msgs) /\ chan \in Seq(Msgs) /\ Len(chan) <= ChanCap
    /\ chanClosed \in BOOLEAN /\ hand \in Msgs \cup {"none"}
    /\ rpc \in {"read", "forward", "stopped"} /\ readerEnd \in Ends
    /\ done \in BOOLEAN /\ err \in (Ends \ {"done"}) \cup {"deadline", "write"}
    /\ wmu \in {"none", "keepalive", "user"}
    /\ wire \in Seq({"hello", "input", "launch", "probe"})
    /\ kpc \in {"off", "select", "send", "lock", "write", "stopped"}
    /\ probes \in 0..MaxProbes
    /\ upc \in Sends \cup {Locking[s] : s \in Sends} \cup {Writing[s] : s \in Sends}
                \cup Waiting \cup {"ready", "close", "closed"}
    /\ ops \in 0..MaxOps /\ taken \in Seq(Msgs)
    /\ level \in Auth \cup {"none"}
    /\ ctx \in {"live", "canceled", "deadline"}

InHand == IF rpc = "forward" THEN <<hand>> ELSE <<>>

\* While the connection lives nothing is lost, doubled or overtaken between
\* the reader and the user, even when the channel is full (readLoop, wait).
MessagesInOrder ==
    /\ Len(chan) <= ChanCap
    /\ rpc # "stopped" => taken \o chan \o InHand = forwarded

\* The user is told that the connection is closed only after it has looked at
\* everything that arrived, so a reply that made it is never missed (wait).
NoReplyMissed ==
    [][ctx = "live" /\ upc \in Waiting /\ upc' = "close" =>
          taken = forwarded]_vars

\* Whatever the device does, the user's calls end and the client is closed, and
\* Close stops the background goroutines (client.go:154), also the reader that
\* is blocked on a full channel.  A goroutine that waits for the write lock is
\* freed by nothing but the lock: everyone has to give it back, also after a
\* write that failed, for the calls and the keepalive to end (client.go:139).
ClientIsClosed ==
    <>(upc = "closed" /\ rpc = "stopped" /\ kpc \in {"off", "stopped"})
=============================================================================
