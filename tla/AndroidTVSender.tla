--------------------------- MODULE AndroidTVSender ---------------------------
(****************************************************************************)
(* The Android TV sender of adapters/out/androidtv: one persistent session, *)
(* guarded by one mutex, shared by every goroutine that presses a key,      *)
(* launches an app or warms the session up.  A call reuses the session when *)
(* its target matches, dials one otherwise, and on a failed first attempt   *)
(* closes the session, dials again and repeats the whole action once.       *)
(*                                                                          *)
(* Each connection has a reader goroutine which records power reports and   *)
(* the first error while a call is between two of its own steps; the device *)
(* may answer late or never, report an error, close or reset.  The frames   *)
(* and locks inside a connection are the subject of module RemoteClient;    *)
(* SessionView is what both say of a connection.                            *)
(****************************************************************************)
EXTENDS Naturals, Sequences

CONSTANTS
    Callers,    \* goroutines that use the sender
    Configs,    \* sessionConfig values: host, port, certificate, key
    None,       \* nil: no owner, no session, no config
    Requests,   \* the calls that callers make
    Reports,    \* power states the device may report
    MaxCalls    \* bound: calls each caller makes

Whats == {"power", "home", "key", "link", "warmup"}
Request == [what : Whats, cfg : Configs]

Tries == {1, 2}

\* A call dials at most once per attempt, so caller, call and attempt name
\* every connection there can be.
ConnIds == Callers \X (1..MaxCalls) \X Tries

ASSUME SenderAssumption ==
    /\ None \notin Callers \cup Configs \cup Requests \cup ConnIds
    /\ Requests \subseteq Request
    /\ Reports \subseteq {"off", "on"}
    /\ MaxCalls \in Nat

VARIABLES
    mu,         \* owner of Sender.mu
    session,    \* Sender.session
    config,     \* Sender.config
    conn,       \* every connection dialled so far
    pc,         \* next step of each caller
    calls,      \* calls begun by each caller
    req,        \* request in hand
    ctx,        \* context of the call: "live", or "done" (deadline, cancel)
    attempt,    \* first attempt or the retry
    sess,       \* the local variable session, or the client being dialled
    plan,       \* send steps still to do
    sent,       \* items this call wrote, with their connection (history)
    outcome     \* what the last call returned

lockVars == <<mu, session, config>>
callVars == <<calls, req, ctx, attempt, sess, plan, sent, outcome>>
vars == <<lockVars, conn, pc, callVars>>

-----------------------------------------------------------------------------
(* Connections *)

Items == {"POWER", "HOME", "KEY", "LINK", "WAKE"}
Powers == {"unknown", "off", "on"}

\* open: the client has not closed it.  up: nor has the device.  ready, power
\* and err are what the reader recorded.
Conn == [for : Configs \cup {None}, open : BOOLEAN, up : BOOLEAN,
         ready : BOOLEAN, power : Powers, err : BOOLEAN]

Undialled == [for |-> None, open |-> FALSE, up |-> TRUE,
              ready |-> FALSE, power |-> "unknown", err |-> FALSE]

NewConn(cfg) == [Undialled EXCEPT !.for = cfg, !.open = TRUE]

\* Session.Close closes the socket; what the reader recorded dies with it.
Closed(k) == [conn EXCEPT ![k] = [Undialled EXCEPT !.for = conn[k].for]]

\* Mutant for SessionMatchesConfig: the config outlives the session.
CloseSessionKeepsConfig ==
    /\ conn' = IF session = None THEN conn ELSE Closed(session)
    /\ session' = None
    /\ config' = config

\* closeSessionLocked
CloseSession ==
    /\ conn' = IF session = None THEN conn ELSE Closed(session)
    /\ session' = None
    /\ config' = None

-----------------------------------------------------------------------------
(* What sendAction will do *)

KeyOf(what) == CASE what = "power" -> "POWER"
                 [] what = "home"  -> "HOME"
                 [] OTHER          -> "KEY"

\* planSendSteps: a sleeping device is woken by launching an app, then sent
\* Home; everything else is the one mapped key.
PlanFor(what, power) ==
    IF what = "link" THEN <<"LINK">>
    ELSE IF what \in {"power", "home"} /\ power = "off"
         THEN <<"WAKE", "HOME">>
         ELSE <<KeyOf(what)>>

-----------------------------------------------------------------------------
Init ==
    /\ mu = None /\ session = None /\ config = None
    /\ conn = [k \in ConnIds |-> Undialled]
    /\ pc = [c \in Callers |-> "idle"]
    /\ calls = [c \in Callers |-> 0]
    /\ req = [c \in Callers |-> None]
    /\ ctx = [c \in Callers |-> "live"]
    /\ attempt = [c \in Callers |-> 1]
    /\ sess = [c \in Callers |-> None]
    /\ plan = [c \in Callers |-> <<>>]
    /\ sent = [c \in Callers |-> <<>>]
    /\ outcome = [c \in Callers |-> "none"]

Goto(c, from, to) == pc[c] = from /\ pc' = [pc EXCEPT ![c] = to]

\* Send, Launch or Warmup is called.
Begin(c) ==
    /\ Goto(c, "idle", "lock")
    /\ calls[c] < MaxCalls
    /\ calls' = [calls EXCEPT ![c] = @ + 1]
    /\ \E r \in Requests : req' = [req EXCEPT ![c] = r]
    /\ ctx' = [ctx EXCEPT ![c] = "live"]
    /\ attempt' = [attempt EXCEPT ![c] = 1]
    /\ sent' = [sent EXCEPT ![c] = <<>>]
    /\ outcome' = [outcome EXCEPT ![c] = "none"]
    /\ UNCHANGED <<lockVars, conn, sess, plan>>

\* The caller's deadline passes or it cancels, at any moment of the call.
CtxDone(c) ==
    /\ pc[c] # "idle" /\ ctx[c] = "live"
    /\ ctx' = [ctx EXCEPT ![c] = "done"]
    /\ UNCHANGED <<lockVars, conn, pc, calls, req, attempt, sess, plan,
                   sent, outcome>>

\* s.mu.Lock() does not look at the context.
Lock(c) ==
    /\ Goto(c, "lock", "ensure")
    /\ mu = None /\ mu' = c
    /\ UNCHANGED <<session, config, conn, callVars>>

-----------------------------------------------------------------------------
(* ensureSessionLocked and DialSession *)

\* Mutant for WritesReachOwnTarget: any open session will do.
MatchesAny(c) == session # None

Matches(c) == session # None /\ config = req[c].cfg

\* Where a call goes once it has a session.
AfterEnsure(c) == IF req[c].what = "warmup" THEN "success" ELSE "plan"

Reuse(c) ==
    /\ Goto(c, "ensure", AfterEnsure(c))
    /\ Matches(c)
    /\ sess' = [sess EXCEPT ![c] = session]
    /\ UNCHANGED <<lockVars, conn, calls, req, ctx, attempt, plan, sent,
                   outcome>>

Discard(c) ==
    /\ Goto(c, "ensure", "dial")
    /\ ~Matches(c)
    /\ CloseSession
    /\ UNCHANGED <<mu, callVars>>

\* Unreadable certificate, refused connection, failed handshake, dead context.
DialFails(c) ==
    /\ Goto(c, "dial", "failure")
    /\ UNCHANGED <<lockVars, conn, callVars>>

DialConnects(c) ==
    LET k == <<c, calls[c], attempt[c]>> IN
    /\ Goto(c, "dial", "waitReady")
    /\ ctx[c] = "live"
    /\ conn' = [conn EXCEPT ![k] = NewConn(req[c].cfg)]
    /\ sess' = [sess EXCEPT ![c] = k]
    /\ UNCHANGED <<lockVars, calls, req, ctx, attempt, plan, sent, outcome>>

Ready(c) ==
    /\ Goto(c, "waitReady", "grace")
    /\ conn[sess[c]].ready
    /\ UNCHANGED <<lockVars, conn, callVars>>

\* Mutant for NoLeakedConnection: the connection is not closed.
ReadyTimesOutLeaks(c) ==
    /\ Goto(c, "waitReady", "failure")
    /\ UNCHANGED <<lockVars, conn, callVars>>

\* The timer may win even against a connection that has just become ready.
ReadyTimesOut(c) ==
    /\ Goto(c, "waitReady", "failure")
    /\ conn' = Closed(sess[c])
    /\ UNCHANGED <<lockVars, callVars>>

\* waitStarted: remote_start or 750 ms, whichever is first; nobody asks which.
GraceOver(c) ==
    /\ Goto(c, "grace", "accept")
    /\ UNCHANGED <<lockVars, conn, callVars>>

DialRejected(c) ==
    /\ Goto(c, "accept", "failure")
    /\ conn[sess[c]].err
    /\ conn' = Closed(sess[c])
    /\ UNCHANGED <<lockVars, callVars>>

DialAccepted(c) ==
    /\ Goto(c, "accept", AfterEnsure(c))
    /\ ~conn[sess[c]].err
    /\ session' = sess[c]
    /\ config' = req[c].cfg
    /\ UNCHANGED <<mu, conn, callVars>>

-----------------------------------------------------------------------------
(* sendAction, SendKeyWithDelay and LaunchAppLink *)

\* The power state is read once per attempt, before the first step.
MakePlan(c) ==
    /\ Goto(c, "plan", "check")
    /\ plan' = [plan EXCEPT ![c] = PlanFor(req[c].what, conn[sess[c]].power)]
    /\ UNCHANGED <<lockVars, conn, calls, req, ctx, attempt, sess, sent,
                   outcome>>

\* ctx.Err(), then getErr(), before a write.
CheckFails(c) ==
    /\ Goto(c, "check", "failed")
    /\ ctx[c] = "done" \/ conn[sess[c]].err
    /\ UNCHANGED <<lockVars, conn, callVars>>

\* Mutant for OneWriteAfterCancel: the context is not consulted.
CheckPassesDead(c) ==
    /\ Goto(c, "check", "write")
    /\ ~conn[sess[c]].err
    /\ UNCHANGED <<lockVars, conn, callVars>>

CheckPasses(c) ==
    /\ Goto(c, "check", "write")
    /\ ctx[c] = "live" /\ ~conn[sess[c]].err
    /\ UNCHANGED <<lockVars, conn, callVars>>

\* A write to a device that is gone may still be accepted by the kernel.
Write(c) ==
    /\ Goto(c, "write", "confirm")
    /\ sent' = [sent EXCEPT ![c] =
                  Append(@, [conn |-> sess[c], try |-> attempt[c],
                             item |-> Head(plan[c]),
                             late |-> ctx[c] = "done"])]
    /\ UNCHANGED <<lockVars, conn, calls, req, ctx, attempt, sess, plan,
                   outcome>>

WriteFails(c) ==
    /\ Goto(c, "write", "failed")
    /\ ~conn[sess[c]].up
    /\ UNCHANGED <<lockVars, conn, callVars>>

\* getErr() once more after the write.
ConfirmFails(c) ==
    /\ Goto(c, "confirm", "failed")
    /\ conn[sess[c]].err
    /\ UNCHANGED <<lockVars, conn, callVars>>

StepDone(c) == plan' = [plan EXCEPT ![c] = Tail(@)]

\* Mutant for ImplementsContract: the first step ends the action.
AfterStepStops(c) == "success"

AfterStep(c) == IF Len(plan[c]) = 1 THEN "success" ELSE "check"

Confirm(c) ==
    /\ Goto(c, "confirm", IF Head(plan[c]) = "WAKE" THEN "pause"
                          ELSE AfterStep(c))
    /\ ~conn[sess[c]].err
    /\ IF Head(plan[c]) = "WAKE" THEN UNCHANGED plan ELSE StepDone(c)
    /\ UNCHANGED <<lockVars, conn, calls, req, ctx, attempt, sess, sent,
                   outcome>>

\* wakeKeyDelay against ctx.Done().
PauseEnds(c) ==
    /\ Goto(c, "pause", AfterStep(c))
    /\ StepDone(c)
    /\ UNCHANGED <<lockVars, conn, calls, req, ctx, attempt, sess, sent,
                   outcome>>

PauseCancelled(c) ==
    /\ Goto(c, "pause", "failed")
    /\ ctx[c] = "done"
    /\ UNCHANGED <<lockVars, conn, callVars>>

\* Mutant for RetryOnFreshConnection: the broken session is used again.
RetryOnSameSession(c) ==
    /\ Goto(c, "failed", "ensure")
    /\ attempt[c] = 1 /\ ctx[c] = "live"
    /\ attempt' = [attempt EXCEPT ![c] = 2]
    /\ UNCHANGED <<lockVars, conn, calls, req, ctx, sess, plan, sent, outcome>>

\* The first attempt failed and somebody still waits for the answer: close,
\* dial and do the whole action again.
Retry(c) ==
    /\ Goto(c, "failed", "ensure")
    /\ attempt[c] = 1 /\ ctx[c] = "live"
    /\ attempt' = [attempt EXCEPT ![c] = 2]
    /\ CloseSession
    /\ UNCHANGED <<mu, calls, req, ctx, sess, plan, sent, outcome>>

GiveUp(c) ==
    /\ Goto(c, "failed", "failure")
    /\ attempt[c] = 2 \/ ctx[c] = "done"
    /\ UNCHANGED <<lockVars, conn, callVars>>

\* Mutant for EveryCallReturns: an error path without the deferred Unlock.
ReturnLocked(c) ==
    /\ pc[c] \in {"success", "failure"}
    /\ outcome' = [outcome EXCEPT ![c] = pc[c]]
    /\ pc' = [pc EXCEPT ![c] = "idle"]
    /\ mu' = IF pc[c] = "success" THEN None ELSE mu
    /\ sess' = [sess EXCEPT ![c] = None]
    /\ plan' = [plan EXCEPT ![c] = <<>>]
    /\ UNCHANGED <<session, config, conn, calls, req, ctx, attempt, sent>>

\* The deferred Unlock and the return.
Return(c) ==
    /\ pc[c] \in {"success", "failure"}
    /\ outcome' = [outcome EXCEPT ![c] = pc[c]]
    /\ pc' = [pc EXCEPT ![c] = "idle"]
    /\ mu' = None
    /\ sess' = [sess EXCEPT ![c] = None]
    /\ plan' = [plan EXCEPT ![c] = <<>>]
    /\ UNCHANGED <<session, config, conn, calls, req, ctx, attempt, sent>>

-----------------------------------------------------------------------------
(* The device and the reader goroutine of a connection *)

\* Mutant for ConnectionsAsViewed: the reader goes on after an error.
ReadingOn(k) == conn[k].open

\* What arrived before the device left may still be read afterwards; after its
\* first error the reader has stopped.
Reading(k) == conn[k].open /\ ~conn[k].err

DeviceActivates(k) ==           \* remote_set_active, answered
    /\ Reading(k) /\ ~conn[k].ready
    /\ conn' = [conn EXCEPT ![k].ready = TRUE]
    /\ UNCHANGED <<lockVars, pc, callVars>>

\* remote_start; handleIncoming marks the connection ready a step later.
DeviceReportsPower(k) ==
    /\ Reading(k)
    /\ \E p \in Reports, r \in {conn[k].ready, TRUE} :
          conn' = [conn EXCEPT ![k].power = p, ![k].ready = r]
    /\ UNCHANGED <<lockVars, pc, callVars>>

\* remote_error, a malformed message, a reset, or an answer that could not be
\* written.  End of file alone records nothing.
ReaderFails(k) ==
    /\ Reading(k)
    /\ conn' = [conn EXCEPT ![k].err = TRUE]
    /\ UNCHANGED <<lockVars, pc, callVars>>

DeviceLeaves(k) ==
    /\ conn[k].open /\ conn[k].up
    /\ conn' = [conn EXCEPT ![k].up = FALSE]
    /\ UNCHANGED <<lockVars, pc, callVars>>

-----------------------------------------------------------------------------
Ensure(c) == Reuse(c) \/ Discard(c)
Dial(c) == \/ DialFails(c) \/ DialConnects(c) \/ Ready(c) \/ ReadyTimesOut(c)
           \/ GraceOver(c) \/ DialRejected(c) \/ DialAccepted(c)
SendAction(c) == \/ MakePlan(c) \/ CheckFails(c) \/ CheckPasses(c) \/ Write(c)
                 \/ WriteFails(c) \/ ConfirmFails(c) \/ Confirm(c)
                 \/ PauseEnds(c) \/ PauseCancelled(c)
Finish(c) == Retry(c) \/ GiveUp(c) \/ Return(c)

\* The steps a caller takes by itself once it holds the mutex.
Advance(c) == Ensure(c) \/ Dial(c) \/ SendAction(c) \/ Finish(c)

Caller(c) == Begin(c) \/ CtxDone(c) \/ Lock(c) \/ Advance(c)

Device(k) == \/ DeviceActivates(k) \/ DeviceReportsPower(k)
             \/ ReaderFails(k) \/ DeviceLeaves(k)

Next == (\E c \in Callers : Caller(c)) \/ (\E k \in ConnIds : Device(k))

Spec == Init /\ [][Next]_vars

\* Every goroutine keeps running and every timer fires; sync.Mutex hands the
\* lock to a waiter that has starved for a millisecond, so Lock is strongly
\* fair.  Nothing is assumed of the device or of new calls.
Fairness == \A c \in Callers : SF_vars(Lock(c)) /\ WF_vars(Advance(c))

FairSpec == Spec /\ Fairness

-----------------------------------------------------------------------------
(* Properties *)

Dialling == {"waitReady", "grace", "accept"}
Sending == {"plan", "check", "write", "confirm", "pause", "failed"}
Holding == Dialling \cup Sending \cup {"ensure", "dial", "success", "failure"}

SentItem == [conn : ConnIds, try : Tries, item : Items, late : BOOLEAN]

\* Every variable has the shape of the Go value it stands for.
TypeOK ==
    /\ mu \in Callers \cup {None}
    /\ session \in ConnIds \cup {None}
    /\ config \in Configs \cup {None}
    /\ conn \in [ConnIds -> Conn]
    /\ pc \in [Callers -> Holding \cup {"idle", "lock"}]
    /\ calls \in [Callers -> 0..MaxCalls]
    /\ req \in [Callers -> Requests \cup {None}]
    /\ ctx \in [Callers -> {"live", "done"}]
    /\ attempt \in [Callers -> Tries]
    /\ sess \in [Callers -> ConnIds \cup {None}]
    /\ plan \in [Callers -> Seq(Items)]
    /\ sent \in [Callers -> Seq(SentItem)]
    /\ outcome \in [Callers -> {"none", "success", "failure"}]

\* No connection is lost: whatever fails between dialling and storing it,
\* an open socket is the stored session or the one the lock holder is still
\* dialling (ensureSessionLocked, closeSessionLocked, DialSession).
NoLeakedConnection ==
    \A k \in ConnIds : conn[k].open =>
        \/ session = k
        \/ \E c \in Callers : pc[c] \in Dialling /\ sess[c] = k

\* The cached session is open and belongs to the cached config, so comparing
\* the config is enough to decide whether to reuse it (ensureSessionLocked).
SessionMatchesConfig ==
    IF session = None THEN config = None
    ELSE conn[session].open /\ conn[session].for = config

\* A key never reaches another device than its own request's, however calls
\* for different targets interleave and reconnect (sendWithPersistentSession,
\* Launch).
WritesReachOwnTarget ==
    \A c \in Callers : \A i \in 1..Len(sent[c]) :
        conn[sent[c][i].conn].for = req[c].cfg

\* A connection never sees the same item twice from one call, and a call that
\* writes on a second connection has closed the first (the retry).
RetryOnFreshConnection ==
    \A c \in Callers : \A i, j \in 1..Len(sent[c]) : i < j =>
        IF sent[c][i].conn = sent[c][j].conn
        THEN sent[c][i].item # sent[c][j].item
        ELSE ~conn[sent[c][i].conn].open

\* Once the context is done a call writes at most one more item: the one whose
\* check had already passed (sendKeyCodeWithDelay, LaunchAppLink, Retry).
OneWriteAfterCancel ==
    \A c \in Callers : \A i, j \in 1..Len(sent[c]) :
        sent[c][i].late /\ sent[c][j].late => i = j

\* How many of the items s were written before attempt t.
Before(s, t) == CHOOSE n \in 0..Len(s) :
                    \A i \in 1..Len(s) : s[i].try = t <=> i > n

WrittenIn(s, t) ==
    [i \in 1..(Len(s) - Before(s, t)) |-> s[Before(s, t) + i].item]

\* What the attempt in hand has written so far.
Written(c) == WrittenIn(sent[c], attempt[c])

\* The contract of SerialRemote: callers are served one at a time, each writes
\* a plan for its own request at most twice, and success is reported only for
\* a plan that went out whole and in order in the last attempt (Send, Launch,
\* Warmup, sendAction).
Contract == INSTANCE SerialRemote WITH
    holder <- mu,
    stage <- [c \in Callers |-> CASE pc[c] = "idle" -> "idle"
                                  [] pc[c] = "lock" -> "waiting"
                                  [] OTHER -> "serving"],
    run <- attempt,
    out <- [c \in Callers |-> Written(c)],
    answer <- outcome

ImplementsContract == Contract!Spec

\* A connection for its user, by SessionView: it is open and blank until it has
\* been dialled.
View(k) == INSTANCE SessionView WITH
    open <- conn[k].for = None \/ conn[k].open,
    ready <- conn[k].ready,
    power <- conn[k].power,
    err <- conn[k].err

\* Every connection that the sender dials is for it what RemoteClient shows of
\* one: it ends with Close, is dialled once, and nothing comes after its first
\* error (DialSession, Session.Close, and the reader's setErr).
ConnectionsAsViewed ==
    /\ \A k \in ConnIds : View(k)!Init
    /\ [][\A k \in ConnIds : [View(k)!Next]_(View(k)!vars)]_vars

\* Every call comes back, whatever the device does.
EveryCallReturns == \A c \in Callers : pc[c] # "idle" ~> pc[c] = "idle"

Count(c, item) ==
    LET is(s) == s.item = item IN Len(SelectSeq(sent[c], is))

\* README.md:56 says that Power sends a single toggle.  Refuted: the retry
\* sends the key again when the reader records an error after the write.
SingleToggle == \A c \in Callers : Count(c, "POWER") <= 1
=============================================================================
