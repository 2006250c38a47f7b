----------------------------- MODULE RemoteClient -----------------------------
(****************************************************************************)
(* One Android TV connection from the inside (internal/atvremote remote.go  *)
(* and session.go).  Two goroutines share it: the reader, started by        *)
(* DialSession, which handles and answers what the device sends, and the    *)
(* user, which waits for the handshake, sends keys and app links, and       *)
(* closes.  They meet in writeMu, which keeps the two writes of a frame     *)
(* together, in stateMu, whose critical sections are single steps here, and *)
(* in the two channels that are closed once.                                *)
(****************************************************************************)
EXTENDS Naturals, Sequences, FiniteSets

CONSTANTS
    MaxMsgs,    \* bound: messages the device sends
    MaxOps      \* bound: keys and links the user sends

ASSUME ClientAssumption == MaxMsgs \in Nat /\ MaxOps \in Nat

Procs == {"reader", "user"}

\* "benign" is remote_error without its flag, or an empty or unknown message;
\* "malformed" is too large, truncated by end of file, or does not unmarshal.
Msgs == {"configure", "setActive", "ping", "startOn", "startOff",
         "error", "benign", "malformed"}
Replies == {"configure", "setActive", "ping"}

VARIABLES
    inbox, sentMsgs,            \* messages from the device, and their number
    link,                       \* "up", "eof" or "reset" by the device
    open,                       \* the user has not closed the connection
    broken,                     \* a write failed: TLS fails every later one
    wire,                       \* half-frames written so far
    writeMu,                    \* owner of the write lock
    wpc,                        \* where each goroutine is in writeMessage
    frame,                      \* what it writes there
    rpc, rmsg,                  \* the reader's step and its message
    upc, ops,                   \* the user's step and its operations so far
    power, lastErr,             \* remoteClient fields
    ready, started,             \* readyCh and startCh: times closed
    result                      \* how the user's last operation ended

envVars == <<inbox, sentMsgs, link>>
connVars == <<open, broken, wire>>
writeVars == <<writeMu, wpc, frame>>
stateVars == <<power, lastErr, ready, started>>
readVars == <<rpc, rmsg>>
userVars == <<upc, ops, result>>
vars == <<envVars, connVars, writeVars, stateVars, readVars, userVars>>

Init ==
    /\ inbox = <<>> /\ sentMsgs = 0 /\ link = "up"
    /\ open = TRUE /\ broken = FALSE /\ wire = <<>>
    /\ writeMu = "none"
    /\ wpc = [p \in Procs |-> "idle"]
    /\ frame = [p \in Procs |-> "none"]
    /\ rpc = "read" /\ rmsg = "none"
    /\ upc = "waitReady" /\ ops = 0 /\ result = "none"
    /\ power = "unknown" /\ lastErr = "none"
    /\ ready = 0 /\ started = 0

-----------------------------------------------------------------------------
(* The device *)

DeviceSends ==
    /\ link = "up" /\ open /\ sentMsgs < MaxMsgs
    /\ \E m \in Msgs : inbox' = Append(inbox, m)
    /\ sentMsgs' = sentMsgs + 1
    /\ UNCHANGED <<link, connVars, writeVars, stateVars, readVars, userVars>>

DeviceCloses ==
    /\ link = "up" /\ link' = "eof"
    /\ UNCHANGED <<inbox, sentMsgs, connVars, writeVars, stateVars, readVars,
                   userVars>>

\* A reset may discard what was not read yet.
DeviceResets ==
    /\ link = "up" /\ link' = "reset"
    /\ inbox' \in {inbox, <<>>}
    /\ UNCHANGED <<sentMsgs, connVars, writeVars, stateVars, readVars, userVars>>

Device == DeviceSends \/ DeviceCloses \/ DeviceResets

-----------------------------------------------------------------------------
(* writeMessage: lock, write the prefix, write the payload, unlock *)

StartWrite(p, f) ==
    /\ wpc' = [wpc EXCEPT ![p] = "lock"]
    /\ frame' = [frame EXCEPT ![p] = f]
    /\ UNCHANGED writeMu

\* Mutant for FramesWhole: no lock around the two writes.
LockWriteShared(p) ==
    /\ wpc[p] = "lock"
    /\ writeMu' = p
    /\ wpc' = [wpc EXCEPT ![p] = "prefix"]
    /\ UNCHANGED <<frame, envVars, connVars, stateVars, readVars, userVars>>

LockWrite(p) ==
    /\ wpc[p] = "lock" /\ writeMu = "none"
    /\ writeMu' = p
    /\ wpc' = [wpc EXCEPT ![p] = "prefix"]
    /\ UNCHANGED <<frame, envVars, connVars, stateVars, readVars, userVars>>

Half(p) == [by |-> p, part |-> wpc[p], frame |-> frame[p]]

\* A device that is gone does not stop the kernel from taking the bytes.
WriteHalf(p) ==
    /\ wpc[p] \in {"prefix", "payload"}
    /\ open /\ ~broken
    /\ wire' = Append(wire, Half(p))
    /\ IF wpc[p] = "prefix"
       THEN wpc' = [wpc EXCEPT ![p] = "payload"] /\ UNCHANGED writeMu
       ELSE wpc' = [wpc EXCEPT ![p] = "written"] /\ writeMu' = "none"
    /\ UNCHANGED <<frame, open, broken, envVars, stateVars, readVars, userVars>>

\* Mutant for RequestsFinished: the lock is kept when a write fails.
WriteFailsLocked(p) ==
    /\ wpc[p] \in {"prefix", "payload"}
    /\ ~open \/ broken \/ link # "up"
    /\ broken' = TRUE
    /\ wpc' = [wpc EXCEPT ![p] = "failed"]
    /\ UNCHANGED <<writeMu, frame, open, wire, envVars, stateVars, readVars,
                   userVars>>

WriteFails(p) ==
    /\ wpc[p] \in {"prefix", "payload"}
    /\ ~open \/ broken \/ link # "up"
    /\ broken' = TRUE
    /\ wpc' = [wpc EXCEPT ![p] = "failed"]
    /\ writeMu' = "none"
    /\ UNCHANGED <<frame, open, wire, envVars, stateVars, readVars, userVars>>

WriteMessage(p) == LockWrite(p) \/ WriteHalf(p) \/ WriteFails(p)

EndWrite(p) ==
    /\ wpc' = [wpc EXCEPT ![p] = "idle"]
    /\ frame' = [frame EXCEPT ![p] = "none"]
    /\ UNCHANGED writeMu

-----------------------------------------------------------------------------
(* The reader: run and handleIncoming *)

\* setErr: the first error stays.
SetErr(e) == lastErr' = IF lastErr = "none" THEN e ELSE lastErr

CloseOnce(ch) == IF ch = 0 THEN 1 ELSE ch

\* Mutant for ImplementsView: the reader goes on after an error.
StopNever == rpc' = "read" /\ rmsg' = "none"

Stop == rpc' = "stopped" /\ rmsg' = "none"
ReadOn == rpc' = "read" /\ rmsg' = "none"

ReadMessage ==
    /\ rpc = "read" /\ inbox # <<>> /\ Head(inbox) # "malformed"
    /\ rmsg' = Head(inbox) /\ inbox' = Tail(inbox)
    /\ rpc' = "handle"
    /\ UNCHANGED <<sentMsgs, link, connVars, writeVars, stateVars, userVars>>

ReadMalformed ==
    /\ rpc = "read" /\ inbox # <<>> /\ Head(inbox) = "malformed"
    /\ inbox' = Tail(inbox)
    /\ SetErr("read") /\ Stop
    /\ UNCHANGED <<sentMsgs, link, connVars, writeVars, power, ready, started,
                   userVars>>

\* Mutant for CloseEndsReader: only the device can end the reader.
ReadEndsAtEOF ==
    /\ rpc = "read"
    /\ link = "eof" /\ inbox = <<>>
    /\ Stop
    /\ UNCHANGED <<envVars, connVars, writeVars, stateVars, userVars>>

\* End of file, and the client's own close, end the reader without an error.
ReadEnds ==
    /\ rpc = "read"
    /\ ~open \/ (link = "eof" /\ inbox = <<>>)
    /\ Stop
    /\ UNCHANGED <<envVars, connVars, writeVars, stateVars, userVars>>

ReadFails ==
    /\ rpc = "read" /\ open /\ link = "reset" /\ inbox = <<>>
    /\ SetErr("read") /\ Stop
    /\ UNCHANGED <<envVars, connVars, writeVars, power, ready, started, userVars>>

\* Configure (features are recorded first), SetActive and Ping are answered.
HandleRequest ==
    /\ rpc = "handle" /\ rmsg \in Replies
    /\ rpc' = "reply"
    /\ StartWrite("reader", rmsg)
    /\ UNCHANGED <<rmsg, envVars, connVars, stateVars, userVars>>

ReplyWritten ==
    /\ rpc = "reply" /\ wpc["reader"] = "written"
    /\ EndWrite("reader")
    /\ IF rmsg = "setActive" THEN rpc' = "markReady" /\ UNCHANGED rmsg
       ELSE ReadOn
    /\ UNCHANGED <<envVars, connVars, stateVars, userVars>>

\* Mutant for ReadyWasEarned: markReady before the write is known to be good.
ReplyFailsReady ==
    /\ rpc = "reply" /\ wpc["reader"] = "failed"
    /\ EndWrite("reader")
    /\ SetErr("write")
    /\ rpc' = "markReady" /\ UNCHANGED rmsg
    /\ UNCHANGED <<envVars, connVars, power, ready, started, userVars>>

\* handleIncoming returns the error, and run records it whatever it is.
ReplyFails ==
    /\ rpc = "reply" /\ wpc["reader"] = "failed"
    /\ EndWrite("reader")
    /\ SetErr("write") /\ Stop
    /\ UNCHANGED <<envVars, connVars, power, ready, started, userVars>>

\* Start: the power state is stored before anybody is told.
HandleStart ==
    /\ rpc = "handle" /\ rmsg \in {"startOn", "startOff"}
    /\ power' = IF rmsg = "startOn" THEN "on" ELSE "off"
    /\ rpc' = "markStarted"
    /\ UNCHANGED <<rmsg, envVars, connVars, writeVars, lastErr, ready, started,
                   userVars>>

MarkStarted ==
    /\ rpc = "markStarted" /\ rpc' = "markReady"
    /\ started' = CloseOnce(started)
    /\ UNCHANGED <<rmsg, envVars, connVars, writeVars, power, lastErr, ready,
                   userVars>>

MarkReady ==
    /\ rpc = "markReady" /\ ReadOn
    /\ ready' = CloseOnce(ready)
    /\ UNCHANGED <<envVars, connVars, writeVars, power, lastErr, started,
                   userVars>>

HandleError ==
    /\ rpc = "handle" /\ rmsg = "error"
    /\ SetErr("device") /\ Stop
    /\ UNCHANGED <<envVars, connVars, writeVars, power, ready, started, userVars>>

HandleBenign ==
    /\ rpc = "handle" /\ rmsg = "benign"
    /\ ReadOn
    /\ UNCHANGED <<envVars, connVars, writeVars, stateVars, userVars>>

Handle == \/ HandleRequest \/ ReplyWritten \/ ReplyFails \/ HandleStart
          \/ MarkStarted \/ MarkReady \/ HandleError \/ HandleBenign

Reader == ReadMessage \/ ReadMalformed \/ ReadEnds \/ ReadFails \/ Handle

-----------------------------------------------------------------------------
(* The user: DialSession, then keys and links, then Close *)

UserAt(from, to) == upc = from /\ upc' = to

Ready ==
    /\ UserAt("waitReady", "grace") /\ ready > 0
    /\ UNCHANGED <<envVars, connVars, writeVars, stateVars, readVars, ops, result>>

CloseConn(from, how) ==
    /\ UserAt(from, "closed")
    /\ open' = FALSE
    /\ result' = how
    /\ UNCHANGED <<broken, wire, envVars, writeVars, stateVars, readVars, ops>>

\* waitReady knows only the channel and the clock: a reader that has died
\* costs the whole timeout.
ReadyTimesOut == CloseConn("waitReady", "timeout")

\* waitStarted: the channel or 750 ms; its answer is not used.
GraceOver ==
    /\ UserAt("grace", "accept")
    /\ UNCHANGED <<envVars, connVars, writeVars, stateVars, readVars, ops, result>>

DialRejected == lastErr # "none" /\ CloseConn("accept", lastErr)

DialAccepted ==
    /\ UserAt("accept", "session") /\ lastErr = "none"
    /\ result' = "ok"
    /\ UNCHANGED <<envVars, connVars, writeVars, stateVars, readVars, ops>>

\* SendKey or LaunchAppLink with a live context; an error already recorded
\* ends it before anything is written.
OpRefused ==
    /\ UserAt("session", "session") /\ ops < MaxOps /\ lastErr # "none"
    /\ ops' = ops + 1
    /\ result' = lastErr
    /\ UNCHANGED <<envVars, connVars, writeVars, stateVars, readVars>>

OpStarts ==
    /\ UserAt("session", "write") /\ ops < MaxOps /\ lastErr = "none"
    /\ ops' = ops + 1
    /\ StartWrite("user", "key")
    /\ UNCHANGED <<result, envVars, connVars, stateVars, readVars>>

OpWritten ==
    /\ UserAt("write", "session") /\ wpc["user"] = "written"
    /\ EndWrite("user")
    /\ result' = IF lastErr = "none" THEN "ok" ELSE lastErr
    /\ UNCHANGED <<ops, envVars, connVars, stateVars, readVars>>

\* Mutant for SuccessHasNoGap: the error of writeMessage is dropped.
OpFailsSilently ==
    /\ UserAt("write", "session") /\ wpc["user"] = "failed"
    /\ EndWrite("user")
    /\ result' = IF lastErr = "none" THEN "ok" ELSE lastErr
    /\ UNCHANGED <<ops, envVars, connVars, stateVars, readVars>>

OpFails ==
    /\ UserAt("write", "session") /\ wpc["user"] = "failed"
    /\ EndWrite("user")
    /\ result' = "write"
    /\ UNCHANGED <<ops, envVars, connVars, stateVars, readVars>>

Close == CloseConn("session", "closed")

User == \/ Ready \/ ReadyTimesOut \/ GraceOver \/ DialRejected \/ DialAccepted
        \/ OpRefused \/ OpStarts \/ OpWritten \/ OpFails \/ Close

Next == Device \/ Reader \/ User \/ \E p \in Procs : WriteMessage(p)

Spec == Init /\ [][Next]_vars

\* The reader runs whenever it can, writes end one way or the other, and the
\* starving waiter gets a Go mutex.  The user and the device owe nothing.
Fairness ==
    /\ WF_vars(Reader)
    /\ \A p \in Procs : SF_vars(LockWrite(p))
                        /\ WF_vars(WriteHalf(p) \/ WriteFails(p))

FairSpec == Spec /\ Fairness

-----------------------------------------------------------------------------
(* Properties *)

Errors == {"none", "read", "write", "device"}
Frames == Replies \cup {"key"}
HalfFrame == [by : Procs, part : {"prefix", "payload"}, frame : Frames]

\* Every variable has the shape of the Go value it stands for.
TypeOK ==
    /\ inbox \in Seq(Msgs) /\ sentMsgs \in 0..MaxMsgs
    /\ link \in {"up", "eof", "reset"}
    /\ open \in BOOLEAN /\ broken \in BOOLEAN
    /\ wire \in Seq(HalfFrame)
    /\ writeMu \in Procs \cup {"none"}
    /\ wpc \in [Procs -> {"idle", "lock", "prefix", "payload", "written",
                          "failed"}]
    /\ frame \in [Procs -> Frames \cup {"none"}]
    /\ rpc \in {"read", "handle", "reply", "markStarted", "markReady",
                "stopped"}
    /\ rmsg \in Msgs \cup {"none"}
    /\ upc \in {"waitReady", "grace", "accept", "session", "write", "closed"}
    /\ ops \in 0..MaxOps
    /\ power \in {"unknown", "off", "on"} /\ lastErr \in Errors
    /\ ready \in 0..1 /\ started \in 0..1
    /\ result \in Errors \cup {"ok", "timeout", "closed"}

\* The device reads whole frames: every prefix is followed by its own payload
\* and no payload stands alone, whichever goroutines write (writeMessage).
FramesWhole ==
    \A i \in 1..Len(wire) :
        /\ wire[i].part = "payload" =>
              i > 1 /\ wire[i - 1] = [wire[i] EXCEPT !.part = "prefix"]
        /\ wire[i].part = "prefix" /\ i < Len(wire) =>
              wire[i + 1] = [wire[i] EXCEPT !.part = "payload"]

\* The session counts as ready only after a report of the power state, or an
\* answer to remote_set_active that went out whole (handleIncoming, waitReady);
\* and however often the device repeats its handshake, readyCh and startCh are
\* closed at most once: to close a closed channel panics (markReady).
ReadyWasEarned ==
    /\ ready <= 1 /\ started <= 1
    /\ ready > 0 => \/ power # "unknown"
                    \/ \E i \in 1..Len(wire) :
                          wire[i] = [by |-> "reader", part |-> "payload",
                                     frame |-> "setActive"]

UserFrames ==
    Cardinality({i \in 1..Len(wire) : wire[i].by = "user" /\ wire[i].part = "payload"})

\* When an operation reports success, every operation of the session so far
\* is on the wire as a whole frame: a lost one is never followed by a success
\* (sendKeyCodeWithDelay, LaunchAppLink).
SuccessHasNoGap ==
    [][upc = "write" /\ upc' = "session" /\ result' = "ok" =>
          UserFrames = ops]_vars

\* Close ends the reader: the goroutine does not outlive the session, even
\* while it waits for the write lock.
CloseEndsReader == ~open ~> rpc = "stopped"

\* What the reader takes up it finishes, although it shares the write lock.
RequestsFinished == rpc = "handle" ~> rpc \in {"read", "stopped"}

View == INSTANCE SessionView WITH
    ready <- open /\ ready > 0,
    power <- IF open THEN power ELSE "unknown",
    err <- open /\ lastErr # "none"

\* Seen from the user, the connection behaves as the sender expects.
ImplementsView == View!Spec
=============================================================================
