------------------------ MODULE AndroidTVSender_proofs ------------------------
(****************************************************************************)
(* For every set of callers, targets and requests and every number of       *)
(* calls, the sender leaks no connection, its cached config describes its   *)
(* cached session, no item reaches another target than its request's, and   *)
(* calls and connections are what SerialRemote and SessionView say of them. *)
(****************************************************************************)
EXTENDS AndroidTVSender, SequenceTheorems, TLAPS

\* Only the owner of the mutex is past Lock.
Mutex == \A c \in Callers : pc[c] \in Holding <=> mu = c

Stepping == {"check", "write", "confirm", "pause"}

\* What the locals of a call mean at each of its steps.
LocalsOf(c) ==
    /\ pc[c] # "idle" => req[c] \in Requests /\ calls[c] >= 1
    /\ sent[c] # <<>> => req[c] \in Requests
    /\ pc[c] = "dial" => session = None
    /\ pc[c] \in Dialling =>
          /\ session = None /\ sess[c] \in ConnIds
          /\ conn[sess[c]].open /\ conn[sess[c]].for = req[c].cfg
    /\ pc[c] \in Sending =>
          session # None /\ sess[c] = session /\ config = req[c].cfg
    /\ pc[c] \in Stepping => plan[c] # <<>>

Locals == \A c \in Callers : LocalsOf(c)

\* The connections that a caller has still to dial.
Unborn(c, n, t) ==
    \/ n > calls[c]
    \/ /\ n = calls[c] /\ pc[c] # "idle"
       /\ \/ t > attempt[c]
          \/ t = attempt[c] /\ pc[c] \in {"lock", "ensure", "dial"}

Fresh == \A c \in Callers, n \in 1..MaxCalls, t \in Tries :
            Unborn(c, n, t) => conn[<<c, n, t>>] = Undialled

\* Where an attempt has not written anything yet.
Unwritten == {"lock", "ensure", "dial", "plan"} \cup Dialling

\* The items of a call: those of the attempt in hand come last; each attempt
\* has a connection to itself, and the first one's is closed in the second.
ItemsOf(c) ==
    /\ \E n \in 0..Len(sent[c]) : \A i \in 1..Len(sent[c]) :
          sent[c][i].try = attempt[c] <=> i > n
    /\ \A i \in 1..Len(sent[c]) :
          /\ sent[c][i].try <= attempt[c]
          /\ pc[c] \in Unwritten => sent[c][i].try # attempt[c]
          /\ pc[c] \in Sending /\ sent[c][i].try = attempt[c] =>
                sent[c][i].conn = sess[c]
          /\ sent[c][i].try # attempt[c] => ~conn[sent[c][i].conn].open
          /\ sent[c][i].late => ctx[c] = "done" /\ pc[c] # "write"
    /\ \A i, j \in 1..Len(sent[c]) :
          sent[c][i].conn = sent[c][j].conn <=> sent[c][i].try = sent[c][j].try

\* k items of the plan p are written, out, and those from m on are left.
Follows(out, left, p, k, m) ==
    /\ m \in 1..Len(p) /\ k \in 0..Len(p)
    /\ out = SubSeq(p, 1, k)
    /\ left = SubSeq(p, m, Len(p))

\* What has been written and what is left are together one of the plans of the
\* request; the item in hand is counted in both until it is confirmed.
PlanOf(c) ==
    /\ pc[c] \in Sending => req[c].what # "warmup"
    /\ pc[c] \in {"check", "write"} =>
          \E w \in Powers, k \in 0..2 :
             Follows(Written(c), plan[c], PlanFor(req[c].what, w), k, k + 1)
    /\ pc[c] \in {"confirm", "pause"} =>
          \E w \in Powers, k \in 1..2 :
             Follows(Written(c), plan[c], PlanFor(req[c].what, w), k, k)
    /\ pc[c] = "success" => Written(c) \in Contract!Plans(req[c])

\* Two items of one attempt differ, and no two were written after the context.
ApartOf(c) == \A i, j \in 1..Len(sent[c]) : i # j =>
    /\ sent[c][i].try = sent[c][j].try => sent[c][i].item # sent[c][j].item
    /\ ~(sent[c][i].late /\ sent[c][j].late)

History == \A c \in Callers : ItemsOf(c) /\ PlanOf(c) /\ ApartOf(c)

IInv == /\ TypeOK /\ Mutex /\ Locals /\ Fresh /\ History
        /\ SessionMatchesConfig /\ NoLeakedConnection /\ WritesReachOwnTarget

-----------------------------------------------------------------------------
(* Types *)

\* A plan is never empty (planSendSteps).
LEMMA PlanForType ==
    ASSUME NEW what, NEW p
    PROVE  PlanFor(what, p) \in Seq(Items) /\ PlanFor(what, p) # <<>>
<1>1. KeyOf(what) \in Items
  BY DEF KeyOf, Items
<1>. QED
  BY <1>1 DEF PlanFor, Items

\* Only a plan with one step left has nothing behind it.
LEMMA LastStep ==
    ASSUME NEW p \in Seq(Items), p # <<>>, Tail(p) = <<>>
    PROVE  Len(p) = 1
<1>1. Len(Tail(p)) = Len(p) - 1 /\ Len(p) \in Nat
  BY HeadTailProperties, LenProperties
<1>2. Len(Tail(p)) = 0
  BY EmptySeq
<1>. DEFINE n == Len(p)
<1>3. n \in Nat /\ n - 1 = 0
  BY <1>1, <1>2
<1>. HIDE DEF n
<1>4. n = 1
  BY <1>3
<1>. QED
  BY <1>4 DEF n

\* Closing a connection leaves the others alone and keeps its target.
LEMMA ClosedType ==
    ASSUME TypeOK, NEW k \in ConnIds
    PROVE  Closed(k) \in [ConnIds -> Conn]
  BY DEF TypeOK, Closed, Conn, Undialled, Powers

LEMMA ClosedKeeps ==
    ASSUME TypeOK, NEW k \in ConnIds
    PROVE  /\ \A q \in ConnIds : Closed(k)[q].for = conn[q].for
           /\ \A q \in ConnIds \ {k} : Closed(k)[q] = conn[q]
           /\ ~Closed(k)[k].open
  BY DEF TypeOK, Closed, Conn, Undialled

LEMMA CloseSessionType ==
    ASSUME TypeOK, CloseSession
    PROVE  conn' \in [ConnIds -> Conn] /\ session' = None /\ config' = None
  BY ClosedType DEF TypeOK, CloseSession

LEMMA DeviceType ==
    ASSUME TypeOK, NEW k \in ConnIds, Device(k)
    PROVE  /\ conn' \in [ConnIds -> Conn]
           /\ UNCHANGED <<mu, session, config, pc, calls, req, ctx, attempt,
                          sess, plan, sent, outcome>>
<1>1. conn \in [ConnIds -> Conn]
  BY DEF TypeOK
<1>2. CASE DeviceActivates(k)
  BY <1>1, <1>2 DEF DeviceActivates, Conn, lockVars, callVars
<1>3. CASE DeviceReportsPower(k)
  <2>1. PICK p \in Reports, r \in {conn[k].ready, TRUE} :
           conn' = [conn EXCEPT ![k].power = p, ![k].ready = r]
    BY <1>3 DEF DeviceReportsPower
  <2>2. p \in Powers
    BY SenderAssumption DEF Powers
  <2>3. [conn[k] EXCEPT !.power = p, !.ready = r] \in Conn
    BY <1>1, <2>2 DEF Conn
  <2>. QED
    BY <1>1, <1>3, <2>1, <2>3 DEF DeviceReportsPower, lockVars, callVars
<1>4. CASE ReaderFails(k)
  BY <1>1, <1>4 DEF ReaderFails, Conn, lockVars, callVars
<1>5. CASE DeviceLeaves(k)
  BY <1>1, <1>5 DEF DeviceLeaves, Conn, lockVars, callVars
<1>. QED
  BY <1>2, <1>3, <1>4, <1>5 DEF Device

\* The device neither closes the client's socket nor retargets it.
LEMMA DeviceKeeps ==
    ASSUME TypeOK, NEW k \in ConnIds, Device(k)
    PROVE  /\ \A q \in ConnIds : /\ conn'[q].for = conn[q].for
                                 /\ conn'[q].open = conn[q].open
           /\ \A q \in ConnIds \ {k} : conn'[q] = conn[q]
           /\ conn[k].open
<1>. USE DEF TypeOK, Conn, Reading
<1>1. CASE DeviceActivates(k)
  BY <1>1 DEF DeviceActivates
<1>2. CASE DeviceReportsPower(k)
  BY <1>2 DEF DeviceReportsPower
<1>3. CASE ReaderFails(k)
  BY <1>3 DEF ReaderFails
<1>4. CASE DeviceLeaves(k)
  BY <1>4 DEF DeviceLeaves
<1>. QED
  BY <1>1, <1>2, <1>3, <1>4 DEF Device

\* A call in progress has a request, for one of the targets.
LEMMA RequestOf ==
    ASSUME Locals, NEW c \in Callers, pc[c] # "idle"
    PROVE  req[c] \in Requests /\ req[c].cfg \in Configs
  BY SenderAssumption DEF Locals, LocalsOf, Request

\* TypeOK is inductive once the locals mean what they should.
LEMMA TypeStep == TypeOK /\ Locals /\ [Next]_vars => TypeOK'
<1>. SUFFICES ASSUME TypeOK, Locals, [Next]_vars PROVE TypeOK'
  OBVIOUS
<1>. USE DEF Goto, lockVars, callVars, Holding, Dialling, Sending
<1>1. ASSUME NEW c \in Callers, Begin(c) PROVE TypeOK'
  <2>1. calls' \in [Callers -> 0..MaxCalls]
    BY <1>1, SenderAssumption DEF TypeOK, Begin
  <2>2. req' \in [Callers -> Requests \cup {None}]
    BY <1>1 DEF TypeOK, Begin
  <2>3. sent' \in [Callers -> Seq(SentItem)]
    BY <1>1 DEF TypeOK, Begin
  <2>. QED
    BY <2>1, <2>2, <2>3, <1>1 DEF TypeOK, Begin, Tries
<1>2. ASSUME NEW c \in Callers, CtxDone(c) PROVE TypeOK'
  BY <1>2 DEF TypeOK, CtxDone
<1>3. ASSUME NEW c \in Callers, Lock(c) PROVE TypeOK'
  BY <1>3 DEF TypeOK, Lock
<1>4. ASSUME NEW c \in Callers, Reuse(c) PROVE TypeOK'
  BY <1>4 DEF TypeOK, Reuse, AfterEnsure
<1>5. ASSUME NEW c \in Callers, DialFails(c) PROVE TypeOK'
  BY <1>5 DEF TypeOK, DialFails
<1>6. ASSUME NEW c \in Callers, Ready(c) PROVE TypeOK'
  BY <1>6 DEF TypeOK, Ready
<1>7. ASSUME NEW c \in Callers, GraceOver(c) PROVE TypeOK'
  BY <1>7 DEF TypeOK, GraceOver
<1>8. ASSUME NEW c \in Callers, CheckFails(c) PROVE TypeOK'
  BY <1>8 DEF TypeOK, CheckFails
<1>9. ASSUME NEW c \in Callers, CheckPasses(c) PROVE TypeOK'
  BY <1>9 DEF TypeOK, CheckPasses
<1>10. ASSUME NEW c \in Callers, WriteFails(c) PROVE TypeOK'
  BY <1>10 DEF TypeOK, WriteFails
<1>11. ASSUME NEW c \in Callers, ConfirmFails(c) PROVE TypeOK'
  BY <1>11 DEF TypeOK, ConfirmFails
<1>12. ASSUME NEW c \in Callers, PauseCancelled(c) PROVE TypeOK'
  BY <1>12 DEF TypeOK, PauseCancelled
<1>13. ASSUME NEW c \in Callers, GiveUp(c) PROVE TypeOK'
  BY <1>13 DEF TypeOK, GiveUp
<1>14. ASSUME NEW c \in Callers, Return(c) PROVE TypeOK'
  BY <1>14 DEF TypeOK, Return
<1>15. ASSUME NEW c \in Callers, Discard(c) PROVE TypeOK'
  BY <1>15, CloseSessionType DEF TypeOK, Discard
<1>16. ASSUME NEW c \in Callers, ReadyTimesOut(c) PROVE TypeOK'
  <2>1. conn' \in [ConnIds -> Conn]
    BY <1>16, ClosedType DEF Locals, LocalsOf, ReadyTimesOut
  <2>. QED
    BY <2>1, <1>16 DEF TypeOK, ReadyTimesOut
<1>17. ASSUME NEW c \in Callers, DialRejected(c) PROVE TypeOK'
  <2>1. conn' \in [ConnIds -> Conn]
    BY <1>17, ClosedType DEF Locals, LocalsOf, DialRejected
  <2>. QED
    BY <2>1, <1>17 DEF TypeOK, DialRejected
<1>18. ASSUME NEW c \in Callers, DialConnects(c) PROVE TypeOK'
  <2>. DEFINE k == <<c, calls[c], attempt[c]>>
  <2>1. k \in ConnIds
    BY <1>18, SenderAssumption DEF TypeOK, Locals, LocalsOf, DialConnects, ConnIds, Tries
  <2>2. req[c].cfg \in Configs
    BY <1>18, RequestOf DEF DialConnects
  <2>. HIDE DEF k
  <2>4. NewConn(req[c].cfg) \in Conn
    BY <2>2 DEF Conn, NewConn, Undialled, Powers
  <2>3. conn' \in [ConnIds -> Conn]
    BY <2>1, <2>4, <1>18 DEF TypeOK, DialConnects, k
  <2>. QED
    BY <2>1, <2>3, <1>18 DEF TypeOK, DialConnects, k
<1>19. ASSUME NEW c \in Callers, DialAccepted(c) PROVE TypeOK'
  <2>1. sess[c] \in ConnIds /\ req[c].cfg \in Configs
    BY <1>19, RequestOf DEF Locals, LocalsOf, DialAccepted
  <2>. QED
    BY <2>1, <1>19 DEF TypeOK, DialAccepted, AfterEnsure
<1>20. ASSUME NEW c \in Callers, MakePlan(c) PROVE TypeOK'
  <2>1. plan' \in [Callers -> Seq(Items)]
    BY <1>20, PlanForType DEF TypeOK, MakePlan
  <2>. QED
    BY <2>1, <1>20 DEF TypeOK, MakePlan
<1>21. ASSUME NEW c \in Callers, Write(c) PROVE TypeOK'
  <2>. DEFINE s == [conn |-> sess[c], try |-> attempt[c],
                    item |-> Head(plan[c]), late |-> ctx[c] = "done"]
  <2>1. sess[c] \in ConnIds /\ Head(plan[c]) \in Items
    BY <1>21 DEF TypeOK, Locals, LocalsOf, Stepping, Write
  <2>2. s \in SentItem
    BY <2>1 DEF TypeOK, SentItem
  <2>3. sent' \in [Callers -> Seq(SentItem)]
    BY <2>2, <1>21 DEF TypeOK, Write
  <2>. QED
    BY <2>3, <1>21 DEF TypeOK, Write
<1>22. ASSUME NEW c \in Callers, Confirm(c) PROVE TypeOK'
  <2>1. Tail(plan[c]) \in Seq(Items)
    BY <1>22 DEF TypeOK, Locals, LocalsOf, Stepping, Confirm
  <2>2. plan' \in [Callers -> Seq(Items)]
    BY <1>22, <2>1 DEF TypeOK, Confirm, StepDone
  <2>. QED
    BY <2>2, <1>22 DEF TypeOK, Confirm, AfterStep
<1>23. ASSUME NEW c \in Callers, PauseEnds(c) PROVE TypeOK'
  <2>1. Tail(plan[c]) \in Seq(Items)
    BY <1>23 DEF TypeOK, Locals, LocalsOf, Stepping, PauseEnds
  <2>2. plan' \in [Callers -> Seq(Items)]
    BY <1>23, <2>1 DEF TypeOK, PauseEnds, StepDone
  <2>. QED
    BY <2>2, <1>23 DEF TypeOK, PauseEnds, AfterStep
<1>24. ASSUME NEW c \in Callers, Retry(c) PROVE TypeOK'
  <2>1. attempt' \in [Callers -> Tries]
    BY <1>24 DEF TypeOK, Retry, Tries
  <2>. QED
    BY <2>1, <1>24, CloseSessionType DEF TypeOK, Retry
<1>25. ASSUME NEW k \in ConnIds, Device(k) PROVE TypeOK'
  BY <1>25, DeviceType DEF TypeOK
<1>26. CASE UNCHANGED vars
  BY <1>26 DEF TypeOK, vars
<1>. QED
  BY <1>1, <1>2, <1>3, <1>4, <1>5, <1>6, <1>7, <1>8, <1>9, <1>10, <1>11,
     <1>12, <1>13, <1>14, <1>15, <1>16, <1>17, <1>18, <1>19, <1>20, <1>21,
     <1>22, <1>23, <1>24, <1>25, <1>26
  DEF Next, Caller, Advance, Ensure, Dial, SendAction, Finish

-----------------------------------------------------------------------------
(* The lock and the locals *)

\* A step of a caller past Lock keeps the lock and leaves the others alone,
\* except for the return, which gives the lock up.
LEMMA AdvanceFrame ==
    ASSUME TypeOK, NEW c \in Callers, Advance(c)
    PROVE  /\ pc[c] \in Holding /\ UNCHANGED <<calls, req, ctx>>
           /\ \/ pc'[c] \in Holding /\ mu' = mu
              \/ pc'[c] = "idle" /\ mu' = None
           /\ \A d \in Callers \ {c} :
                 /\ pc'[d] = pc[d] /\ sess'[d] = sess[d] /\ plan'[d] = plan[d]
                 /\ attempt'[d] = attempt[d] /\ sent'[d] = sent[d]
<1>. USE DEF TypeOK, Goto, lockVars, callVars, Holding, Dialling, Sending
<1>1. CASE Ensure(c)
  BY <1>1 DEF Ensure, Reuse, Discard, CloseSession, AfterEnsure
<1>2. CASE Dial(c)
  BY <1>2 DEF Dial, DialFails, DialConnects, Ready, ReadyTimesOut, GraceOver,
              DialRejected, DialAccepted, AfterEnsure
<1>3. CASE SendAction(c)
  BY <1>3 DEF SendAction, MakePlan, CheckFails, CheckPasses, Write,
              WriteFails, ConfirmFails, Confirm, PauseEnds, PauseCancelled,
              AfterStep, StepDone
<1>4. CASE Finish(c)
  BY <1>4 DEF Finish, Retry, GiveUp, Return, CloseSession
<1>. QED
  BY <1>1, <1>2, <1>3, <1>4 DEF Advance

LEMMA MutexStep == TypeOK /\ Mutex /\ [Next]_vars => Mutex'
<1>. SUFFICES ASSUME TypeOK, Mutex, [Next]_vars PROVE Mutex'
  OBVIOUS
<1>. USE DEF Mutex
<1>1. ASSUME NEW c \in Callers, Begin(c) \/ CtxDone(c) \/ Lock(c)
      PROVE  Mutex'
  BY <1>1, SenderAssumption DEF Begin, CtxDone, Lock, Goto, TypeOK, lockVars,
     Holding, Dialling, Sending
<1>2. ASSUME NEW c \in Callers, Advance(c) PROVE Mutex'
  BY <1>2, AdvanceFrame, SenderAssumption DEF Holding, Dialling, Sending
<1>3. ASSUME NEW k \in ConnIds, Device(k) PROVE Mutex'
  BY <1>3, DeviceType
<1>4. CASE UNCHANGED vars
  BY <1>4 DEF vars, lockVars
<1>. QED
  BY <1>1, <1>2, <1>3, <1>4 DEF Next, Caller

\* Nobody else is past Lock while one caller is.
LEMMA OthersWait ==
    ASSUME TypeOK, Mutex, NEW c \in Callers, NEW d \in Callers \ {c},
           pc[c] \in Holding
    PROVE  pc[d] \in {"idle", "lock"}
  BY DEF TypeOK, Mutex

\* The locals of the callers that wait survive a step of the one that does not.
LEMMA OthersLocals ==
    ASSUME TypeOK, Mutex, Locals, NEW c \in Callers, Advance(c),
           NEW d \in Callers \ {c}
    PROVE  LocalsOf(d)'
<1>1. pc'[d] \in {"idle", "lock"} /\ pc'[d] = pc[d]
  BY AdvanceFrame, OthersWait
<1>. QED
  BY <1>1, AdvanceFrame
  DEF Locals, LocalsOf, Holding, Dialling, Sending, Stepping

LEMMA LocalsStep ==
    TypeOK /\ Mutex /\ Locals /\ SessionMatchesConfig /\ [Next]_vars => Locals'
<1>. SUFFICES ASSUME TypeOK, Mutex, Locals, SessionMatchesConfig, [Next]_vars
              PROVE  Locals'
  OBVIOUS
<1>. USE DEF Holding, Dialling, Sending, Stepping
<1>1. ASSUME NEW c \in Callers, Begin(c) PROVE Locals'
  BY <1>1 DEF Begin, Goto, TypeOK, Locals, LocalsOf, lockVars
<1>2. ASSUME NEW c \in Callers, CtxDone(c) PROVE Locals'
  BY <1>2 DEF CtxDone, TypeOK, Locals, LocalsOf, lockVars
<1>3. ASSUME NEW c \in Callers, Lock(c) PROVE Locals'
  BY <1>3 DEF Lock, Goto, TypeOK, Locals, LocalsOf, callVars
<1>4. ASSUME NEW c \in Callers, Advance(c) PROVE Locals'
  <2>. SUFFICES LocalsOf(c)'
    BY <1>4, OthersLocals DEF Locals
  <2>. USE DEF Goto, TypeOK, Locals, LocalsOf, lockVars, callVars
  <2>1. CASE Reuse(c)
    BY <2>1 DEF Reuse, Matches, AfterEnsure
  <2>2. CASE Discard(c)
    BY <2>2 DEF Discard, CloseSession
  <2>3. CASE DialConnects(c)
    <3>1. <<c, calls[c], attempt[c]>> \in ConnIds
      BY <2>3, SenderAssumption DEF DialConnects, ConnIds, Tries
    <3>. QED
      BY <2>3, <3>1 DEF DialConnects, NewConn, Undialled
  <2>4. CASE DialAccepted(c)
    BY <2>4, SenderAssumption DEF DialAccepted, AfterEnsure
  <2>5. CASE MakePlan(c)
    BY <2>5, PlanForType DEF MakePlan
  <2>6. CASE Confirm(c) \/ PauseEnds(c)
    <3>1. plan[c] \in Seq(Items) /\ plan[c] # <<>>
      BY <2>6 DEF Confirm, PauseEnds
    <3>2. Len(plan[c]) # 1 => Tail(plan[c]) # <<>>
      BY <3>1, LastStep
    <3>. QED
      BY <2>6, <3>1, <3>2 DEF Confirm, PauseEnds, AfterStep, StepDone
  <2>7. CASE Ready(c) \/ GraceOver(c)
    BY <2>7 DEF Ready, GraceOver
  <2>8. CASE \/ CheckFails(c) \/ CheckPasses(c) \/ Write(c) \/ WriteFails(c)
             \/ ConfirmFails(c) \/ PauseCancelled(c)
    BY <2>8 DEF CheckFails, CheckPasses, Write, WriteFails, ConfirmFails,
                PauseCancelled
  <2>9. CASE \/ DialFails(c) \/ ReadyTimesOut(c) \/ DialRejected(c)
             \/ Retry(c) \/ GiveUp(c) \/ Return(c)
    BY <2>9 DEF DialFails, ReadyTimesOut, DialRejected, Retry, GiveUp, Return
  <2>. QED
    BY <1>4, <2>1, <2>2, <2>3, <2>4, <2>5, <2>6, <2>7, <2>8, <2>9
    DEF Advance, Ensure, Dial, SendAction, Finish
<1>5. ASSUME NEW k \in ConnIds, Device(k) PROVE Locals'
  <2>1. \A q \in ConnIds : conn'[q].for = conn[q].for
                           /\ conn'[q].open = conn[q].open
    BY <1>5, DeviceKeeps
  <2>. QED
    BY <1>5, <2>1, DeviceType DEF Locals, LocalsOf
<1>6. CASE UNCHANGED vars
  BY <1>6 DEF vars, lockVars, callVars, Locals, LocalsOf
<1>. QED
  BY <1>1, <1>2, <1>3, <1>4, <1>5, <1>6 DEF Next, Caller

-----------------------------------------------------------------------------
(* Connections *)

\* The connection being dialled is new.
LEMMA DialledIsFresh ==
    ASSUME IInv, NEW c \in Callers, DialConnects(c)
    PROVE  /\ <<c, calls[c], attempt[c]>> \in ConnIds
           /\ conn[<<c, calls[c], attempt[c]>>] = Undialled
           /\ session = None
<1>1. calls[c] \in 1..MaxCalls /\ attempt[c] \in Tries /\ pc[c] = "dial"
  BY SenderAssumption DEF IInv, TypeOK, Locals, LocalsOf, DialConnects, Goto
<1>. QED
  BY <1>1 DEF IInv, Fresh, Unborn, ConnIds, Locals, LocalsOf

\* How a caller's step may change the connections: nothing; or it closes the
\* session, or the one it dials, and that one was open; or it dials.
LEMMA ConnStep ==
    ASSUME IInv, NEW c \in Callers, Caller(c)
    PROVE  \/ conn' = conn
           \/ \E k \in ConnIds : conn[k].open /\ conn' = Closed(k)
           \/ DialConnects(c)
<1>. USE DEF Goto, lockVars, callVars
<1>1. CASE Begin(c) \/ CtxDone(c) \/ Lock(c)
  BY <1>1 DEF Begin, CtxDone, Lock
<1>2. CASE Ensure(c) \/ Finish(c)
  BY <1>2 DEF Ensure, Finish, Reuse, Discard, Retry, GiveUp, Return,
              CloseSession, IInv, TypeOK, SessionMatchesConfig
<1>3. CASE Dial(c)
  BY <1>3 DEF Dial, DialFails, Ready, ReadyTimesOut, GraceOver,
              DialRejected, DialAccepted, IInv, Locals, LocalsOf, Dialling
<1>4. CASE SendAction(c)
  BY <1>4 DEF SendAction, MakePlan, CheckFails, CheckPasses, Write,
              WriteFails, ConfirmFails, Confirm, PauseEnds, PauseCancelled
<1>. QED
  BY <1>1, <1>2, <1>3, <1>4 DEF Caller, Advance

\* A connection keeps its target for ever.
LEMMA TargetKept ==
    ASSUME IInv, [Next]_vars, NEW k \in ConnIds, conn[k].for # None
    PROVE  conn'[k].for = conn[k].for
<1>. USE DEF IInv, TypeOK
<1>1. ASSUME NEW c \in Callers, DialConnects(c)
      PROVE  conn'[k].for = conn[k].for
  <2>1. k # <<c, calls[c], attempt[c]>>
    BY <1>1, DialledIsFresh DEF Undialled
  <2>. QED
    BY <1>1, <2>1 DEF DialConnects
<1>2. ASSUME NEW c \in Callers, Caller(c) PROVE conn'[k].for = conn[k].for
  <2>1. ASSUME NEW q \in ConnIds, conn' = Closed(q)
        PROVE  conn'[k].for = conn[k].for
    BY <2>1, ClosedKeeps
  <2>. QED
    BY <1>1, <1>2, <2>1, ConnStep
<1>3. ASSUME NEW q \in ConnIds, Device(q) PROVE conn'[k].for = conn[k].for
  BY <1>3, DeviceKeeps
<1>. QED
  BY <1>2, <1>3 DEF Next, vars

LEMMA FreshStep == IInv /\ [Next]_vars => Fresh'
<1>. SUFFICES ASSUME IInv, [Next]_vars,
                     NEW d \in Callers, NEW n \in 1..MaxCalls, NEW t \in Tries,
                     Unborn(d, n, t)'
              PROVE  conn'[<<d, n, t>>] = Undialled
  BY DEF Fresh
<1>. DEFINE k == <<d, n, t>>
<1>0. k \in ConnIds
  BY DEF ConnIds
<1>1. ASSUME Unborn(d, n, t) PROVE conn[k] = Undialled /\ ~conn[k].open
  <2>1. conn[k] = Undialled
    BY <1>1 DEF IInv, Fresh
  <2>2. ~Undialled.open
    BY DEF Undialled
  <2>. QED
    BY <2>1, <2>2
<1>2. ASSUME NEW c \in Callers, Caller(c) PROVE Unborn(d, n, t)
  <2>. USE SenderAssumption
       DEF IInv, TypeOK, Unborn, Goto, lockVars, callVars, Tries
  <2>1. CASE Begin(c)
    BY <2>1 DEF Begin
  <2>2. CASE CtxDone(c) \/ Lock(c)
    BY <2>2 DEF CtxDone, Lock
  <2>3. CASE Advance(c) /\ c # d
    BY <2>3, AdvanceFrame
  <2>4. CASE Ensure(c) /\ c = d
    BY <2>4 DEF Ensure, Reuse, Discard, AfterEnsure
  <2>5. CASE Dial(c) /\ c = d
    BY <2>5 DEF Dial, DialFails, DialConnects, Ready, ReadyTimesOut,
                GraceOver, DialRejected, DialAccepted, AfterEnsure
  <2>6. CASE SendAction(c) /\ c = d
    BY <2>6 DEF SendAction, MakePlan, CheckFails, CheckPasses, Write,
                WriteFails, ConfirmFails, Confirm, PauseEnds,
                PauseCancelled, AfterStep
  <2>7. CASE Finish(c) /\ c = d
    BY <2>7 DEF Finish, Retry, GiveUp, Return
  <2>. QED
    BY <1>2, <2>1, <2>2, <2>3, <2>4, <2>5, <2>6, <2>7 DEF Caller, Advance
<1>3. ASSUME NEW c \in Callers, Caller(c) PROVE conn'[k] = Undialled
  <2>1. CASE conn' = conn
    BY <2>1, <1>1, <1>2, <1>3
  <2>2. ASSUME NEW q \in ConnIds, conn[q].open, conn' = Closed(q)
        PROVE  conn'[k] = Undialled
    BY <2>2, <1>0, <1>1, <1>2, <1>3, ClosedKeeps DEF IInv
  <2>3. CASE DialConnects(c)
    <3>1. k # <<c, calls[c], attempt[c]>>
      BY <2>3 DEF Unborn, DialConnects, Goto, IInv, TypeOK, Tries
    <3>. QED
      BY <2>3, <3>1, <1>0, <1>1, <1>2, <1>3, DialledIsFresh
      DEF DialConnects, IInv, TypeOK
  <2>. QED
    BY <1>3, <2>1, <2>2, <2>3, ConnStep
<1>4. ASSUME NEW q \in ConnIds, Device(q) PROVE conn'[k] = Undialled
  <2>1. conn[k] = Undialled /\ ~conn[k].open
    BY <1>1, <1>4, DeviceType DEF IInv, Unborn
  <2>2. conn[q].open /\ \A r \in ConnIds \ {q} : conn'[r] = conn[r]
    BY <1>4, DeviceKeeps DEF IInv
  <2>. QED
    BY <1>0, <2>1, <2>2
<1>5. CASE UNCHANGED vars
  BY <1>1, <1>5 DEF vars, callVars, Unborn
<1>. QED
  BY <1>3, <1>4, <1>5 DEF Next

-----------------------------------------------------------------------------
(* The session, the open connections and the written items *)

LEMMA SessionStep == IInv /\ [Next]_vars => SessionMatchesConfig'
<1>. SUFFICES ASSUME IInv, [Next]_vars PROVE SessionMatchesConfig'
  OBVIOUS
<1>. USE DEF IInv, SessionMatchesConfig
<1>1. ASSUME NEW c \in Callers, Discard(c) \/ Retry(c)
      PROVE  SessionMatchesConfig'
  BY <1>1 DEF Discard, Retry, CloseSession
<1>2. ASSUME NEW c \in Callers, DialAccepted(c) PROVE SessionMatchesConfig'
  BY <1>2, SenderAssumption
  DEF DialAccepted, Goto, Locals, LocalsOf, Dialling
<1>3. ASSUME NEW c \in Callers, ReadyTimesOut(c) \/ DialRejected(c)
      PROVE  SessionMatchesConfig'
  BY <1>3 DEF ReadyTimesOut, DialRejected, Goto, Locals, LocalsOf, Dialling,
              lockVars
<1>4. ASSUME NEW c \in Callers, DialConnects(c) PROVE SessionMatchesConfig'
  BY <1>4, DialledIsFresh DEF DialConnects, lockVars
<1>5. ASSUME NEW c \in Callers,
             UNCHANGED <<session, config, conn>>
      PROVE  SessionMatchesConfig'
  BY <1>5
<1>6. ASSUME NEW k \in ConnIds, Device(k) PROVE SessionMatchesConfig'
  BY <1>6, DeviceType, DeviceKeeps DEF TypeOK
<1>7. ASSUME NEW c \in Callers, Caller(c)
      PROVE  \/ Discard(c) \/ Retry(c) \/ DialAccepted(c) \/ ReadyTimesOut(c)
             \/ DialRejected(c) \/ DialConnects(c)
             \/ UNCHANGED <<session, config, conn>>
  BY <1>7 DEF Caller, Begin, CtxDone, Lock, Advance, Ensure, Reuse, Dial,
     DialFails, Ready, GraceOver, SendAction, MakePlan, CheckFails,
     CheckPasses, Write, WriteFails, ConfirmFails, Confirm, PauseEnds,
     PauseCancelled, Finish, GiveUp, Return, lockVars
<1>. QED
  BY <1>1, <1>2, <1>3, <1>4, <1>5, <1>6, <1>7 DEF Next, vars, lockVars

LEMMA NoLeakStep == IInv /\ [Next]_vars => NoLeakedConnection'
<1>. SUFFICES ASSUME IInv, [Next]_vars, NEW k \in ConnIds, conn'[k].open
              PROVE  \/ session' = k
                     \/ \E c \in Callers : pc'[c] \in Dialling /\ sess'[c] = k
  BY DEF NoLeakedConnection
<1>. USE DEF Goto, lockVars, callVars, Dialling
<1>1. ASSUME NEW c \in Callers, DialConnects(c)
      PROVE  session' = k \/ \E d \in Callers : pc'[d] \in Dialling /\ sess'[d] = k
  <2>1. CASE k = <<c, calls[c], attempt[c]>>
    BY <1>1, <2>1 DEF DialConnects, IInv, TypeOK
  <2>2. CASE k # <<c, calls[c], attempt[c]>>
    <3>1. conn[k].open
      BY <1>1, <2>2, DialledIsFresh DEF DialConnects, IInv, TypeOK
    <3>2. PICK d \in Callers : pc[d] \in Dialling /\ sess[d] = k
      BY <1>1, <3>1, DialledIsFresh, SenderAssumption
      DEF IInv, NoLeakedConnection
    <3>3. c # d
      BY <1>1, <3>2 DEF DialConnects
    <3>. QED
      BY <1>1, <3>2, <3>3 DEF DialConnects, IInv, TypeOK
  <2>. QED
    BY <2>1, <2>2
<1>2. ASSUME NEW c \in Callers, Discard(c) \/ Retry(c)
      PROVE  session' = k \/ \E d \in Callers : pc'[d] \in Dialling /\ sess'[d] = k
  <2>1. CloseSession
    BY <1>2 DEF Discard, Retry
  <2>2. conn[k].open /\ session # k
    <3>1. CASE session = None
      BY <2>1, <3>1, SenderAssumption DEF CloseSession
    <3>2. CASE session \in ConnIds
      BY <2>1, <3>2, ClosedKeeps, SenderAssumption DEF CloseSession, IInv
    <3>. QED
      BY <3>1, <3>2 DEF IInv, TypeOK
  <2>3. PICK d \in Callers : pc[d] \in Dialling /\ sess[d] = k
    BY <2>2 DEF IInv, NoLeakedConnection
  <2>4. d # c
    BY <1>2, <2>3 DEF Discard, Retry
  <2>. QED
    BY <1>2, <2>3, <2>4 DEF Discard, Retry, IInv, TypeOK
<1>3. ASSUME NEW c \in Callers, DialAccepted(c)
      PROVE  session' = k \/ \E d \in Callers : pc'[d] \in Dialling /\ sess'[d] = k
  <2>1. session = None /\ conn' = conn /\ session' = sess[c]
    BY <1>3 DEF DialAccepted, IInv, Locals, LocalsOf
  <2>2. PICK d \in Callers : pc[d] \in Dialling /\ sess[d] = k
    BY <2>1, SenderAssumption DEF IInv, NoLeakedConnection
  <2>3. CASE d = c
    BY <2>1, <2>2, <2>3
  <2>4. CASE d # c
    BY <1>3, <2>2, <2>4 DEF DialAccepted, IInv, TypeOK
  <2>. QED
    BY <2>3, <2>4
<1>4. ASSUME NEW c \in Callers, ReadyTimesOut(c) \/ DialRejected(c)
      PROVE  session' = k \/ \E d \in Callers : pc'[d] \in Dialling /\ sess'[d] = k
  <2>1. conn[k].open /\ sess[c] # k
    BY <1>4, ClosedKeeps
    DEF ReadyTimesOut, DialRejected, IInv, Locals, LocalsOf
  <2>. QED
    BY <1>4, <2>1
    DEF ReadyTimesOut, DialRejected, IInv, TypeOK, NoLeakedConnection
<1>5. ASSUME NEW c \in Callers,
             \/ Begin(c) \/ CtxDone(c) \/ Lock(c) \/ Reuse(c) \/ DialFails(c)
             \/ Ready(c) \/ GraceOver(c) \/ SendAction(c) \/ GiveUp(c)
             \/ Return(c)
      PROVE  session' = k \/ \E d \in Callers : pc'[d] \in Dialling /\ sess'[d] = k
  <2>1. UNCHANGED <<session, conn>>
    BY <1>5 DEF Begin, CtxDone, Lock, Reuse, DialFails, Ready, GraceOver,
       SendAction, MakePlan, CheckFails, CheckPasses, Write, WriteFails,
       ConfirmFails, Confirm, PauseEnds, PauseCancelled, GiveUp, Return
  <2>2. ASSUME NEW d \in Callers, pc[d] \in Dialling
        PROVE  pc'[d] \in Dialling /\ sess'[d] = sess[d]
    BY <1>5, <2>2 DEF IInv, TypeOK, Begin, CtxDone, Lock, Reuse, DialFails,
       Ready, GraceOver, SendAction, MakePlan, CheckFails, CheckPasses, Write,
       WriteFails, ConfirmFails, Confirm, PauseEnds, PauseCancelled, GiveUp,
       Return
  <2>. QED
    BY <2>1, <2>2 DEF IInv, NoLeakedConnection
<1>6. ASSUME NEW q \in ConnIds, Device(q)
      PROVE  session' = k \/ \E d \in Callers : pc'[d] \in Dialling /\ sess'[d] = k
  BY <1>6, DeviceType, DeviceKeeps DEF IInv, NoLeakedConnection
<1>7. CASE UNCHANGED vars
  BY <1>7 DEF vars, IInv, NoLeakedConnection
<1>. QED
  BY <1>1, <1>2, <1>3, <1>4, <1>5, <1>6, <1>7
  DEF Next, Caller, Advance, Ensure, Dial, Finish

LEMMA WritesStep == IInv /\ [Next]_vars => WritesReachOwnTarget'
<1>. SUFFICES ASSUME IInv, [Next]_vars, NEW c \in Callers,
                     NEW i \in 1..Len(sent'[c])
              PROVE  conn'[sent'[c][i].conn].for = req'[c].cfg
  BY DEF WritesReachOwnTarget
<1>1. ASSUME sent'[c] = sent[c], req'[c] = req[c]
      PROVE  conn'[sent'[c][i].conn].for = req'[c].cfg
  <2>. DEFINE k == sent[c][i].conn
  <2>1. k \in ConnIds /\ conn[k].for = req[c].cfg
    <3>1. sent[c] \in Seq(SentItem) /\ i \in 1..Len(sent[c])
      BY <1>1 DEF IInv, TypeOK
    <3>2. sent[c][i] \in SentItem
      BY <3>1, ElementOfSeq
    <3>. QED
      BY <3>1, <3>2 DEF IInv, SentItem, WritesReachOwnTarget
  <2>2. req[c].cfg # None
    BY <1>1, SenderAssumption DEF IInv, TypeOK, Locals, LocalsOf, Request
  <2>. QED
    BY <1>1, <2>1, <2>2, TargetKept
<1>2. CASE Begin(c)
  BY <1>2 DEF Begin, IInv, TypeOK
<1>3. CASE Write(c)
  <2>1. sess[c] \in ConnIds /\ conn[sess[c]].for = req[c].cfg
    BY <1>3 DEF Write, Goto, IInv, TypeOK, Locals, LocalsOf, Sending,
       SessionMatchesConfig
  <2>2. CASE i <= Len(sent[c])
    <3>1. sent'[c][i] = sent[c][i] /\ i \in 1..Len(sent[c])
      BY <1>3, <2>2 DEF Write, IInv, TypeOK
    <3>. QED
      BY <1>3, <3>1 DEF Write, callVars, IInv, WritesReachOwnTarget
  <2>3. CASE i > Len(sent[c])
    <3>1. sent'[c][i].conn = sess[c]
      BY <1>3, <2>3 DEF Write, IInv, TypeOK
    <3>. QED
      BY <1>3, <2>1, <3>1 DEF Write
  <2>. QED
    BY <2>2, <2>3 DEF IInv, TypeOK
<1>4. CASE \E d \in Callers : Caller(d) /\ ~Begin(c) /\ ~Write(c)
  <2>1. PICK d \in Callers : Caller(d) /\ ~Begin(c) /\ ~Write(c)
    BY <1>4
  <2>2. CASE Begin(d) \/ CtxDone(d) \/ Lock(d)
    BY <1>1, <2>1, <2>2 DEF Begin, CtxDone, Lock, callVars, IInv, TypeOK
  <2>3. CASE Advance(d) /\ d # c
    BY <1>1, <2>3, AdvanceFrame DEF IInv
  <2>4. CASE Advance(d) /\ d = c
    <3>1. sent' = sent
      BY <2>1, <2>4 DEF Advance, Ensure, Reuse, Discard, Dial, DialFails,
         DialConnects, Ready, ReadyTimesOut, GraceOver, DialRejected,
         DialAccepted, SendAction, MakePlan, CheckFails, CheckPasses,
         WriteFails, ConfirmFails, Confirm, PauseEnds, PauseCancelled, Finish,
         Retry, GiveUp, Return, callVars
    <3>. QED
      BY <1>1, <2>4, <3>1, AdvanceFrame DEF IInv
  <2>. QED
    BY <2>1, <2>2, <2>3, <2>4 DEF Caller
<1>5. CASE \E k \in ConnIds : Device(k)
  BY <1>1, <1>5, DeviceType DEF IInv
<1>6. CASE UNCHANGED vars
  BY <1>1, <1>6 DEF vars, callVars
<1>. QED
  BY <1>2, <1>3, <1>4, <1>5, <1>6 DEF Next

-----------------------------------------------------------------------------
(* The items of an attempt *)

Parted(s, t, n) == \A i \in 1..Len(s) : s[i].try = t <=> i > n

\* Before is the only place where the items can be parted.
LEMMA BeforeIs ==
    ASSUME NEW s \in Seq(SentItem), NEW t, NEW n \in 0..Len(s), Parted(s, t, n)
    PROVE  Before(s, t) = n
<1>1. ASSUME NEW m \in 0..Len(s), Parted(s, t, m) PROVE m = n
  <2>1. ~(m < n)
    BY <1>1, LenProperties DEF Parted
  <2>2. ~(n < m)
    BY <1>1, LenProperties DEF Parted
  <2>. QED
    BY <2>1, <2>2, LenProperties
<1>2. Before(s, t) = CHOOSE m \in 0..Len(s) : Parted(s, t, m)
  BY DEF Before, Parted
<1>. QED
  BY <1>1, <1>2

LEMMA NoneWritten ==
    ASSUME NEW s \in Seq(SentItem), NEW t,
           \A i \in 1..Len(s) : s[i].try # t
    PROVE  WrittenIn(s, t) = <<>>
<1>1. Len(s) \in Nat /\ Parted(s, t, Len(s))
  BY LenProperties DEF Parted
<1>2. Before(s, t) = Len(s)
  BY <1>1, BeforeIs
<1>3. WrittenIn(s, t) = [i \in 1..0 |-> s[Len(s) + i].item]
  BY <1>1, <1>2 DEF WrittenIn
<1>4. WrittenIn(s, t) \in Seq(Items) /\ Len(WrittenIn(s, t)) = 0
  BY <1>3
<1>. QED
  BY <1>4, EmptySeq

LEMMA NothingInEmpty == ASSUME NEW t PROVE WrittenIn(<<>>, t) = <<>>
<1>1. <<>> \in Seq(SentItem) /\ \A i \in 1..Len(<<>>) : <<>>[i].try # t
  OBVIOUS
<1>. QED
  BY <1>1, NoneWritten

LEMMA WrittenType ==
    ASSUME NEW s \in Seq(SentItem), NEW t, NEW n \in 0..Len(s), Parted(s, t, n)
    PROVE  /\ WrittenIn(s, t) \in Seq(Items)
           /\ Len(WrittenIn(s, t)) = Len(s) - n
           /\ \A i \in 1..(Len(s) - n) : WrittenIn(s, t)[i] = s[n + i].item
<1>1. Before(s, t) = n /\ Len(s) \in Nat /\ n \in Nat
  BY BeforeIs, LenProperties
<1>2. ASSUME NEW i \in 1..(Len(s) - n) PROVE s[n + i].item \in Items
  <2>1. n + i \in 1..Len(s)
    BY <1>1
  <2>2. s[n + i] \in SentItem
    BY <2>1, ElementOfSeq
  <2>. QED
    BY <2>2 DEF SentItem
<1>3. WrittenIn(s, t) = [i \in 1..(Len(s) - n) |-> s[n + i].item]
  BY <1>1 DEF WrittenIn
<1>. QED
  BY <1>1, <1>2, <1>3

\* Writing an item adds it to those of the attempt.
LEMMA OneMore ==
    ASSUME NEW s \in Seq(SentItem), NEW e \in SentItem,
           NEW n \in 0..Len(s), Parted(s, e.try, n)
    PROVE  /\ Parted(Append(s, e), e.try, n)
           /\ WrittenIn(Append(s, e), e.try) = Append(WrittenIn(s, e.try), e.item)
<1>. DEFINE r == Append(s, e)
<1>1. /\ r \in Seq(SentItem) /\ Len(r) = Len(s) + 1 /\ Len(s) \in Nat
      /\ \A i \in 1..Len(s) : r[i] = s[i]
      /\ r[Len(s) + 1] = e
  BY AppendProperties, LenProperties
<1>. HIDE DEF r
<1>2. Parted(r, e.try, n) /\ n \in 0..Len(r)
  <2>1. ASSUME NEW i \in 1..Len(r) PROVE r[i].try = e.try <=> i > n
    <3>1. CASE i = Len(s) + 1
      BY <1>1, <3>1
    <3>2. CASE i # Len(s) + 1
      BY <1>1, <3>2 DEF Parted
    <3>. QED
      BY <3>1, <3>2
  <2>. QED
    BY <1>1, <2>1 DEF Parted
<1>. DEFINE v == WrittenIn(s, e.try)
            w == WrittenIn(r, e.try)
<1>3. /\ v \in Seq(Items) /\ Len(v) = Len(s) - n
      /\ \A i \in 1..(Len(s) - n) : v[i] = s[n + i].item
  BY WrittenType
<1>4. /\ w \in Seq(Items) /\ Len(w) = Len(s) + 1 - n
      /\ \A i \in 1..(Len(s) + 1 - n) : w[i] = r[n + i].item
  BY <1>1, <1>2, WrittenType
<1>5. e.item \in Items
  BY DEF SentItem
<1>. HIDE DEF v, w
<1>6. /\ Append(v, e.item) \in Seq(Items) /\ Len(Append(v, e.item)) = Len(v) + 1
      /\ \A i \in 1..Len(v) : Append(v, e.item)[i] = v[i]
      /\ Append(v, e.item)[Len(v) + 1] = e.item
  BY <1>3, <1>5, AppendProperties
<1>9. Len(w) = Len(v) + 1 /\ Len(v) \in Nat
  BY <1>1, <1>3, <1>4
<1>7. ASSUME NEW i \in 1..Len(w) PROVE w[i] = Append(v, e.item)[i]
  <2>1. CASE i <= Len(v)
    <3>1. i \in 1..Len(v) /\ i \in 1..(Len(s) - n) /\ n + i \in 1..Len(s)
      BY <1>1, <1>3, <2>1
    <3>. QED
      BY <3>1, <1>1, <1>3, <1>4, <1>6
  <2>2. CASE i = Len(v) + 1
    <3>1. n + i = Len(s) + 1
      BY <1>1, <1>3, <2>2
    <3>. QED
      BY <3>1, <2>2, <1>1, <1>4, <1>6
  <2>. QED
    BY <2>1, <2>2, <1>9
<1>8. w = Append(v, e.item)
  <2>1. Len(w) = Len(Append(v, e.item))
    BY <1>6, <1>9
  <2>2. w \in Seq(Items) /\ Append(v, e.item) \in Seq(Items)
    BY <1>4, <1>6
  <2>. HIDE DEF w
  <2>. QED
    BY <1>7, <2>1, <2>2, SeqEqual
<1>. QED
  BY <1>2, <1>8 DEF r, v, w

\* A written item names a connection that has been dialled.
LEMMA ItemConn ==
    ASSUME IInv, NEW c \in Callers, NEW i \in 1..Len(sent[c])
    PROVE  /\ sent[c] \in Seq(SentItem) /\ sent[c][i] \in SentItem
           /\ sent[c][i].conn \in ConnIds /\ conn[sent[c][i].conn].for # None
<1>1. sent[c] \in Seq(SentItem)
  BY DEF IInv, TypeOK
<1>2. sent[c][i] \in SentItem /\ sent[c] # <<>>
  BY <1>1, ElementOfSeq
<1>3. req[c] \in Requests /\ req[c].cfg # None
  BY <1>2, SenderAssumption DEF IInv, Locals, LocalsOf, Request
<1>. QED
  BY <1>1, <1>2, <1>3 DEF IInv, SentItem, WritesReachOwnTarget

\* A closed connection is not opened again.
LEMMA StaysClosed ==
    ASSUME IInv, [Next]_vars, NEW k \in ConnIds, conn[k].for # None, ~conn[k].open
    PROVE  ~conn'[k].open
<1>1. ASSUME NEW c \in Callers, DialConnects(c) PROVE ~conn'[k].open
  <2>1. k # <<c, calls[c], attempt[c]>>
    BY <1>1, DialledIsFresh DEF Undialled, IInv
  <2>. QED
    BY <1>1, <2>1 DEF DialConnects, IInv, TypeOK
<1>2. ASSUME NEW c \in Callers, Caller(c) PROVE ~conn'[k].open
  <2>1. ASSUME NEW q \in ConnIds, conn' = Closed(q) PROVE ~conn'[k].open
    <3>1. CASE q = k
      BY <2>1, <3>1, ClosedKeeps DEF IInv
    <3>2. CASE q # k
      BY <2>1, <3>2, ClosedKeeps DEF IInv
    <3>. QED
      BY <3>1, <3>2
  <2>. QED
    BY <1>1, <1>2, <2>1, ConnStep
<1>3. ASSUME NEW q \in ConnIds, Device(q) PROVE ~conn'[k].open
  BY <1>3, DeviceKeeps DEF IInv, TypeOK
<1>. QED
  BY <1>2, <1>3 DEF Next, vars

\* The steps of a call that neither write nor begin an attempt.
Stays(c) ==
    /\ sent'[c] = sent[c] /\ attempt'[c] = attempt[c]
    /\ pc'[c] \in Unwritten => pc[c] \in Unwritten
    /\ pc'[c] \in Sending => \/ pc[c] \in Unwritten
                             \/ pc[c] \in Sending /\ sess'[c] = sess[c]
    /\ ctx'[c] = ctx[c] \/ ctx'[c] = "done"
    /\ pc'[c] = "write" => pc[c] = "write" \/ ctx[c] = "live"

LEMMA ItemsKeep ==
    ASSUME IInv, [Next]_vars, NEW c \in Callers, Stays(c), ItemsOf(c)
    PROVE  ItemsOf(c)'
<1>1. ASSUME NEW i \in 1..Len(sent[c]), ~conn[sent[c][i].conn].open
      PROVE  ~conn'[sent[c][i].conn].open
  BY <1>1, ItemConn, StaysClosed
<1>. QED
  BY <1>1 DEF Stays, ItemsOf

LEMMA ItemsBegin ==
    ASSUME IInv, NEW c \in Callers, Begin(c)
    PROVE  ItemsOf(c)'
<1>1. sent'[c] = <<>> /\ Len(<<>>) = 0
  BY DEF Begin, IInv, TypeOK
<1>. QED
  BY <1>1 DEF ItemsOf

\* The session is closed: what was written so far was written on it, or before.
LEMMA ItemsRetry ==
    ASSUME IInv, [Next]_vars, NEW c \in Callers, Retry(c), ItemsOf(c)
    PROVE  ItemsOf(c)'
<1>1. /\ attempt[c] = 1 /\ attempt'[c] = 2 /\ sent'[c] = sent[c]
      /\ ctx[c] = "live" /\ ctx' = ctx /\ pc[c] = "failed" /\ pc'[c] = "ensure"
  BY DEF Retry, Goto, IInv, TypeOK
<1>2. sess[c] = session /\ session # None /\ session \in ConnIds
  BY <1>1 DEF IInv, TypeOK, Locals, LocalsOf, Sending
<1>3. ~conn'[sess[c]].open
  BY <1>2, ClosedKeeps DEF Retry, CloseSession, IInv
<1>4. Len(sent[c]) \in Nat
  BY LenProperties DEF IInv, TypeOK
<1>5. ASSUME NEW i \in 1..Len(sent[c])
      PROVE  /\ sent[c][i].try <= 1 /\ sent[c][i].try # 2
             /\ ~conn'[sent[c][i].conn].open
             /\ ~sent[c][i].late
  <2>1. sent[c][i].try \in Tries /\ sent[c][i].try <= 1
    BY <1>1, ItemConn DEF ItemsOf, SentItem
  <2>2. sent[c][i].try = 1
    BY <2>1 DEF Tries
  <2>3. sent[c][i].conn = sess[c]
    BY <1>1, <2>2 DEF ItemsOf, Sending
  <2>4. ~sent[c][i].late
    BY <1>1 DEF ItemsOf
  <2>. QED
    BY <1>3, <2>1, <2>2, <2>3, <2>4
<1>6. \E n \in 0..Len(sent'[c]) : \A i \in 1..Len(sent'[c]) :
         sent'[c][i].try = attempt'[c] <=> i > n
  <2>1. \A i \in 1..Len(sent[c]) : ~(i > Len(sent[c]))
    BY <1>4
  <2>. QED
    BY <1>1, <1>4, <1>5, <2>1
<1>7. ASSUME NEW i \in 1..Len(sent'[c])
      PROVE  /\ sent'[c][i].try <= attempt'[c] /\ sent'[c][i].try # attempt'[c]
             /\ ~conn'[sent'[c][i].conn].open
             /\ ~sent'[c][i].late
  <2>1. sent[c][i].try \in Tries
    BY <1>1, <1>7, ItemConn DEF SentItem
  <2>. QED
    BY <1>1, <1>5, <1>7, <2>1 DEF Tries
<1>8. \A i, j \in 1..Len(sent'[c]) :
         sent'[c][i].conn = sent'[c][j].conn <=> sent'[c][i].try = sent'[c][j].try
  BY <1>1 DEF ItemsOf
<1>9. pc'[c] \notin Sending
  BY <1>1 DEF Sending
<1>. QED
  BY <1>6, <1>7, <1>8, <1>9 DEF ItemsOf

\* The new item is the first on its connection, or joins those of its attempt.
LEMMA ItemsWrite ==
    ASSUME IInv, [Next]_vars, NEW c \in Callers, Write(c), ItemsOf(c)
    PROVE  ItemsOf(c)'
<1>. DEFINE e == [conn |-> sess[c], try |-> attempt[c], item |-> Head(plan[c]),
                  late |-> ctx[c] = "done"]
            s == sent[c]
            r == sent'[c]
<1>1. /\ sess[c] \in ConnIds /\ sess[c] = session /\ conn[sess[c]].open
      /\ pc[c] = "write" /\ pc'[c] = "confirm" /\ plan[c] # <<>>
  BY SenderAssumption
  DEF Write, Goto, IInv, TypeOK, Locals, LocalsOf, Sending, Stepping, SessionMatchesConfig
<1>2. e \in SentItem /\ s \in Seq(SentItem) /\ r = Append(s, e)
  <2>1. Head(plan[c]) \in Items /\ attempt[c] \in Tries
    BY <1>1 DEF IInv, TypeOK
  <2>2. e \in SentItem
    BY <1>1, <2>1 DEF SentItem
  <2>. QED
    BY <2>2 DEF Write, IInv, TypeOK
<1>3. UNCHANGED <<conn, attempt, ctx, sess>>
  BY DEF Write, callVars
<1>4. /\ Len(r) = Len(s) + 1 /\ Len(s) \in Nat
      /\ \A i \in 1..Len(s) : r[i] = s[i]
      /\ r[Len(s) + 1] = e
  BY <1>2, AppendProperties, LenProperties
<1>5. \A i \in 1..Len(s) : ~s[i].late
  BY <1>1 DEF ItemsOf
<1>6. \A i \in 1..Len(s) : s[i].try = attempt[c] <=> s[i].conn = sess[c]
  BY <1>1 DEF ItemsOf, Sending
<1>7. e.conn = sess[c] /\ e.try = attempt[c] /\ (e.late => ctx[c] = "done")
  OBVIOUS
<1>8. attempt[c] \in Nat
  <2>1. attempt[c] \in Tries
    BY DEF IInv, TypeOK
  <2>. QED
    BY <2>1 DEF Tries
<1>9. PICK n \in 0..Len(s) : Parted(s, attempt[c], n)
  BY DEF ItemsOf, Parted
<1>10. n \in 0..Len(r) /\ Parted(r, attempt[c], n)
  BY <1>2, <1>4, <1>7, <1>9, OneMore
<1>. HIDE DEF e, s, r
<1>11. ASSUME NEW i \in 1..Len(r) PROVE i \in 1..Len(s) \/ r[i] = e
  BY <1>4
<1>12. ASSUME NEW i \in 1..Len(r)
       PROVE  /\ r[i].try <= attempt[c]
              /\ r[i].try = attempt[c] => r[i].conn = sess[c]
              /\ r[i].try # attempt[c] => ~conn[r[i].conn].open
              /\ r[i].late => ctx[c] = "done"
  <2>1. CASE i \in 1..Len(s)
    BY <1>1, <1>4, <1>5, <1>6, <2>1 DEF ItemsOf, s
  <2>2. CASE r[i] = e
    BY <1>7, <1>8, <2>2
  <2>. QED
    BY <1>11, <2>1, <2>2
<1>13. ASSUME NEW i \in 1..Len(r), NEW j \in 1..Len(r)
       PROVE  r[i].conn = r[j].conn <=> r[i].try = r[j].try
  <2>1. CASE i \in 1..Len(s) /\ j \in 1..Len(s)
    BY <1>4, <2>1 DEF ItemsOf, s
  <2>2. CASE r[i] = e \/ r[j] = e
    BY <1>4, <1>6, <1>7, <1>11, <2>2
  <2>. QED
    BY <1>11, <2>1, <2>2
<1>. QED
  BY <1>1, <1>3, <1>10, <1>12, <1>13
  DEF ItemsOf, Parted, r, Unwritten, Dialling

\* Every step of the system lets a call stay as it is, write, or begin anew.
LEMMA StepOf ==
    ASSUME IInv, [Next]_vars, NEW c \in Callers
    PROVE  Begin(c) \/ Write(c) \/ Retry(c) \/ Stays(c)
<1>. USE DEF IInv, TypeOK, Stays
<1>1. ASSUME UNCHANGED <<pc, callVars>> PROVE Stays(c)
  BY <1>1 DEF callVars
<1>2. ASSUME NEW d \in Callers, Caller(d), d # c PROVE Stays(c)
  <2>1. CASE Begin(d) \/ CtxDone(d) \/ Lock(d)
    BY <1>2, <2>1 DEF Begin, CtxDone, Lock, Goto, callVars
  <2>2. CASE Advance(d)
    BY <1>2, <2>2, AdvanceFrame
  <2>. QED
    BY <1>2, <2>1, <2>2 DEF Caller
<1>3. ASSUME Caller(c), ~Begin(c), ~Write(c), ~Retry(c) PROVE Stays(c)
  <2>. USE DEF Unwritten, Dialling, Sending, Goto, callVars
  <2>1. CASE CtxDone(c) \/ Lock(c)
    BY <2>1 DEF CtxDone, Lock
  <2>2. CASE Ensure(c)
    BY <2>2 DEF Ensure, Reuse, Discard, AfterEnsure
  <2>3. CASE Dial(c)
    BY <2>3 DEF Dial, DialFails, DialConnects, Ready, ReadyTimesOut, GraceOver,
                DialRejected, DialAccepted, AfterEnsure
  <2>4. CASE SendAction(c)
    BY <1>3, <2>4 DEF SendAction, MakePlan, CheckFails, CheckPasses, WriteFails,
                      ConfirmFails, Confirm, PauseEnds, PauseCancelled, AfterStep
  <2>5. CASE Finish(c)
    BY <1>3, <2>5 DEF Finish, GiveUp, Return
  <2>. QED
    BY <1>3, <2>1, <2>2, <2>3, <2>4, <2>5 DEF Caller, Advance
<1>4. ASSUME NEW k \in ConnIds, Device(k) PROVE Stays(c)
  BY <1>4, DeviceType
<1>5. CASE UNCHANGED vars
  BY <1>1, <1>5 DEF vars
<1>. QED
  BY <1>2, <1>3, <1>4, <1>5 DEF Next

LEMMA ItemsStep ==
    ASSUME IInv, [Next]_vars, NEW c \in Callers
    PROVE  ItemsOf(c)'
<1>1. ItemsOf(c)
  BY DEF IInv, History
<1>. QED
  BY <1>1, StepOf, ItemsBegin, ItemsWrite, ItemsRetry, ItemsKeep

-----------------------------------------------------------------------------
(* The plan of an attempt *)

\* A plan has one step or two, and never the same twice (planSendSteps).
LEMMA PlanShape ==
    ASSUME NEW what, NEW w
    PROVE  LET p == PlanFor(what, w) IN
           p \in Seq(Items) /\ (Len(p) = 1 \/ (Len(p) = 2 /\ p[1] # p[2]))
<1>1. KeyOf(what) \in Items
  BY DEF KeyOf, Items
<1>2. CASE what = "link"
  BY <1>2 DEF PlanFor, Items
<1>3. CASE what # "link" /\ what \in {"power", "home"} /\ w = "off"
  BY <1>3 DEF PlanFor, Items
<1>4. CASE what # "link" /\ ~(what \in {"power", "home"} /\ w = "off")
  BY <1>1, <1>4 DEF PlanFor
<1>. QED
  BY <1>2, <1>3, <1>4

\* Taking the first of what is left from one side to the other.
LEMMA Passing ==
    ASSUME NEW p \in Seq(Items), NEW k \in Nat, k + 1 \in 1..Len(p)
    PROVE  /\ Head(SubSeq(p, k + 1, Len(p))) = p[k + 1]
           /\ SubSeq(p, 1, k + 1) = Append(SubSeq(p, 1, k), p[k + 1])
           /\ Tail(SubSeq(p, k + 1, Len(p))) = SubSeq(p, k + 2, Len(p))
           /\ Len(SubSeq(p, k + 1, Len(p))) = Len(p) - k
<1>1. Len(p) \in Nat /\ p[k + 1] \in Items /\ \A i \in 1..Len(p) : p[i] \in Items
  BY LenProperties
<1>2. /\ Head(SubSeq(p, k + 1, Len(p))) = p[k + 1]
      /\ Tail(SubSeq(p, k + 1, Len(p))) = SubSeq(p, k + 2, Len(p))
  <2>1. Len(p) \in (k + 1)..Len(p) /\ (k + 1) + 1 = k + 2
    BY <1>1
  <2>. QED
    BY <2>1, HeadTailOfSubSeq
<1>3. SubSeq(p, 1, k + 1) = SubSeq(p, 1, k) \o <<p[k + 1]>>
  <2>1. 1 \in 1..Len(p) /\ k + 1 \in 1..Len(p) /\ (k + 1) - 1 = k
    BY <1>1
  <2>. QED
    BY <2>1, SubSeqRecursiveSecond
<1>4. SubSeq(p, 1, k) \in Seq(Items)
  BY <1>1, SubSeqProperties
<1>5. SubSeq(p, 1, k + 1) = Append(SubSeq(p, 1, k), p[k + 1])
  BY <1>1, <1>3, <1>4, AppendIsConcat
<1>6. Len(SubSeq(p, k + 1, Len(p))) = Len(p) - k
  BY <1>1, SubSeqProperties
<1>. QED
  BY <1>2, <1>5, <1>6

\* A call of which nothing changes but the context follows its plan as before.
LEMMA PlanRests ==
    ASSUME NEW c \in Callers, PlanOf(c),
           sent'[c] = sent[c], attempt'[c] = attempt[c], plan'[c] = plan[c],
           req'[c] = req[c], pc'[c] = pc[c]
    PROVE  PlanOf(c)'
<1>1. Written(c)' = Written(c)
  BY DEF Written
<1>2. Contract!Plans(req[c])' = Contract!Plans(req[c])
  BY DEF Contract!Plans
<1>. QED
  BY <1>1, <1>2 DEF PlanOf

\* An attempt begins with nothing written.
LEMMA NothingYet ==
    ASSUME IInv, NEW c \in Callers, ItemsOf(c), pc[c] \in Unwritten
    PROVE  Written(c) = <<>>
<1>1. sent[c] \in Seq(SentItem) /\ \A i \in 1..Len(sent[c]) : sent[c][i].try # attempt[c]
  BY DEF ItemsOf, IInv, TypeOK
<1>. QED
  BY <1>1, NoneWritten DEF Written

LEMMA PlansOf ==
    ASSUME NEW r
    PROVE  /\ r.what = "warmup" => Contract!Plans(r) = {<<>>}
           /\ r.what # "warmup" =>
                 Contract!Plans(r) = {PlanFor(r.what, w) : w \in Powers}
BY DEF Contract!Plans

LEMMA PlanMade ==
    ASSUME IInv, NEW c \in Callers, MakePlan(c)
    PROVE  PlanOf(c)'
<1>. DEFINE w == conn[sess[c]].power
            p == PlanFor(req[c].what, w)
<1>1. /\ pc[c] = "plan" /\ pc'[c] = "check" /\ plan'[c] = p
      /\ UNCHANGED <<sent, attempt, req>>
  BY DEF MakePlan, Goto, IInv, TypeOK
<1>2. ItemsOf(c) /\ PlanOf(c)
  BY DEF IInv, History
<1>3. w \in Powers
  <2>1. sess[c] \in ConnIds
    BY <1>1 DEF IInv, TypeOK, Locals, LocalsOf, Sending
  <2>. QED
    BY <2>1 DEF IInv, TypeOK, Conn
<1>4. Written(c)' = <<>>
  <2>1. Written(c) = <<>>
    BY <1>1, <1>2, NothingYet DEF Unwritten
  <2>. QED
    BY <1>1, <2>1 DEF Written
<1>5. p \in Seq(Items) /\ Len(p) \in 1..2
  BY PlanShape
<1>. HIDE DEF p, w
<1>6. Written(c)' = SubSeq(p, 1, 0) /\ plan'[c] = SubSeq(p, 1, Len(p))
  <2>1. <<>> = SubSeq(p, 1, 0)
    BY SubSeqEmpty
  <2>. QED
    BY <1>1, <1>4, <1>5, <2>1, SubSeqFull
<1>7. Follows(Written(c)', plan'[c], p, 0, 0 + 1)
  <2>1. 0 + 1 = 1 /\ 1 \in 1..Len(p) /\ 0 \in 0..Len(p)
    BY <1>5
  <2>. QED
    BY <1>6, <2>1 DEF Follows
<1>8. req'[c].what # "warmup"
  BY <1>1, <1>2 DEF PlanOf, Sending
<1>. QED
  BY <1>1, <1>3, <1>7, <1>8 DEF PlanOf, p, w

\* What is written is the next item of the plan.
LEMMA PlanWritten ==
    ASSUME IInv, NEW c \in Callers, Write(c)
    PROVE  /\ PlanOf(c)'
           /\ \E w \in Powers, k \in 0..2 :
                 LET p == PlanFor(req[c].what, w) IN
                 /\ Follows(Written(c), plan[c], p, k, k + 1)
                 /\ Written(c)' = Append(Written(c), p[k + 1])
<1>. DEFINE e == [conn |-> sess[c], try |-> attempt[c], item |-> Head(plan[c]),
                  late |-> ctx[c] = "done"]
<1>1. /\ pc[c] = "write" /\ pc'[c] = "confirm" /\ sent'[c] = Append(sent[c], e)
      /\ UNCHANGED <<plan, attempt, req, conn>> /\ sent[c] \in Seq(SentItem)
  BY DEF Write, Goto, IInv, TypeOK
<1>2. ItemsOf(c) /\ PlanOf(c)
  BY DEF IInv, History
<1>3. PICK w \in Powers, k \in 0..2 :
         Follows(Written(c), plan[c], PlanFor(req[c].what, w), k, k + 1)
  BY <1>1, <1>2 DEF PlanOf
<1>. DEFINE p == PlanFor(req[c].what, w)
<1>4. p \in Seq(Items) /\ Len(p) \in 1..2
  BY PlanShape
<1>. HIDE DEF p
<1>5. /\ k + 1 \in 1..Len(p) /\ k \in Nat
      /\ Written(c) = SubSeq(p, 1, k) /\ plan[c] = SubSeq(p, k + 1, Len(p))
  BY <1>3, <1>4 DEF Follows, p
<1>6. Head(plan[c]) = p[k + 1] /\ p[k + 1] \in Items
  BY <1>4, <1>5, Passing
<1>7. e \in SentItem
  <2>1. sess[c] \in ConnIds /\ attempt[c] \in Tries
    BY <1>1 DEF IInv, TypeOK, Locals, LocalsOf, Sending
  <2>. QED
    BY <1>6, <2>1 DEF SentItem
<1>8. Written(c)' = Append(Written(c), p[k + 1])
  <2>1. PICK n \in 0..Len(sent[c]) : Parted(sent[c], attempt[c], n)
    BY <1>2 DEF ItemsOf, Parted
  <2>2. e.try = attempt[c] /\ e.item = p[k + 1]
    BY <1>6
  <2>. HIDE DEF e
  <2>3. WrittenIn(Append(sent[c], e), attempt[c])
           = Append(WrittenIn(sent[c], attempt[c]), p[k + 1])
    BY <1>1, <1>7, <2>1, <2>2, OneMore
  <2>. QED
    BY <1>1, <2>3 DEF Written
<1>9. Written(c)' = SubSeq(p, 1, k + 1)
  BY <1>4, <1>5, <1>8, Passing
<1>10. Follows(Written(c)', plan'[c], p, k + 1, k + 1) /\ k + 1 \in 1..2
  BY <1>1, <1>4, <1>5, <1>9 DEF Follows
<1>11. PlanOf(c)'
  BY <1>1, <1>2, <1>10 DEF PlanOf, Sending, p
<1>. QED
  BY <1>3, <1>8, <1>11 DEF p

\* Confirming the item in hand ends the plan, or leaves the rest of it.
LEMMA PlanConfirmed ==
    ASSUME IInv, NEW c \in Callers, Confirm(c) \/ PauseEnds(c)
    PROVE  PlanOf(c)'
<1>1. /\ pc[c] \in {"confirm", "pause"} /\ UNCHANGED <<sent, attempt, req>>
      /\ plan[c] \in Seq(Items)
  BY DEF Confirm, PauseEnds, Goto, IInv, TypeOK
<1>2. PlanOf(c)
  BY DEF IInv, History
<1>3. PICK w \in Powers, k \in 1..2 :
         Follows(Written(c), plan[c], PlanFor(req[c].what, w), k, k)
  BY <1>1, <1>2 DEF PlanOf
<1>. DEFINE p == PlanFor(req[c].what, w)
<1>4. p \in Seq(Items) /\ Len(p) \in 1..2
  BY PlanShape
<1>5. req[c].what # "warmup" /\ Written(c)' = Written(c)
  BY <1>1, <1>2 DEF PlanOf, Sending, Written
<1>. HIDE DEF p
<1>6. /\ k \in 1..Len(p) /\ Written(c) = SubSeq(p, 1, k)
      /\ plan[c] = SubSeq(p, k, Len(p))
  BY <1>3 DEF Follows, p
<1>7. Tail(plan[c]) = SubSeq(p, k + 1, Len(p)) /\ Len(plan[c]) = Len(p) - k + 1
  <2>1. /\ k - 1 \in Nat /\ (k - 1) + 1 = k /\ (k - 1) + 2 = k + 1
        /\ Len(p) - (k - 1) = Len(p) - k + 1
    BY <1>4
  <2>. QED
    BY <1>4, <1>6, <2>1, Passing
<1>8. CASE pc'[c] = "pause" /\ plan'[c] = plan[c]
  BY <1>1, <1>3, <1>5, <1>8 DEF PlanOf
<1>9. CASE pc'[c] = AfterStep(c) /\ plan'[c] = Tail(plan[c])
  <2>1. CASE Len(plan[c]) = 1
    <3>1. pc'[c] = "success" /\ k = Len(p)
      BY <1>4, <1>6, <1>7, <1>9, <2>1 DEF AfterStep
    <3>2. Written(c)' = p
      BY <1>4, <1>5, <1>6, <3>1, SubSeqFull
    <3>3. Written(c)' \in Contract!Plans(req'[c])
      BY <1>1, <1>5, <3>2, PlansOf DEF p
    <3>. QED
      BY <1>1, <1>5, <3>1, <3>3 DEF PlanOf, Sending
  <2>2. CASE Len(plan[c]) # 1
    <3>1. pc'[c] = "check"
      BY <1>9, <2>2 DEF AfterStep
    <3>2. k + 1 \in 1..Len(p) /\ k \in 0..Len(p) /\ k \in 0..2
      BY <1>4, <1>6, <1>7, <2>2
    <3>3. Follows(Written(c)', plan'[c], p, k, k + 1)
      BY <1>5, <1>6, <1>7, <1>9, <3>2 DEF Follows
    <3>. QED
      BY <1>1, <1>5, <3>1, <3>2, <3>3 DEF PlanOf, p
  <2>. QED
    BY <2>1, <2>2
<1>10. \/ pc'[c] = "pause" /\ plan'[c] = plan[c]
       \/ pc'[c] = AfterStep(c) /\ plan'[c] = Tail(plan[c])
  BY DEF Confirm, PauseEnds, StepDone, Goto, IInv, TypeOK
<1>. QED
  BY <1>8, <1>9, <1>10

LEMMA PlanStep ==
    ASSUME IInv, [Next]_vars, NEW c \in Callers
    PROVE  PlanOf(c)'
<1>0. ItemsOf(c) /\ PlanOf(c)
  BY DEF IInv, History
<1>1. ASSUME NEW d \in Callers, Caller(d), d # c PROVE PlanOf(c)'
  <2>1. CASE Begin(d) \/ CtxDone(d) \/ Lock(d)
    BY <1>0, <1>1, <2>1, PlanRests DEF Begin, CtxDone, Lock, Goto, callVars, IInv, TypeOK
  <2>2. CASE Advance(d)
    BY <1>0, <1>1, <2>2, PlanRests, AdvanceFrame DEF IInv
  <2>. QED
    BY <1>1, <2>1, <2>2 DEF Caller
<1>2. ASSUME Caller(c) PROVE PlanOf(c)'
  <2>1. CASE Write(c) \/ MakePlan(c) \/ Confirm(c) \/ PauseEnds(c)
    BY <2>1, PlanWritten, PlanMade, PlanConfirmed
  <2>2. CASE CtxDone(c)
    BY <1>0, <2>2, PlanRests DEF CtxDone, IInv, TypeOK
  <2>3. CASE Reuse(c) \/ DialAccepted(c)
    <3>1. /\ pc[c] \in {"ensure", "accept"} /\ UNCHANGED <<sent, attempt, req>>
          /\ pc'[c] = AfterEnsure(c)
      BY <2>3 DEF Reuse, DialAccepted, Goto, callVars, IInv, TypeOK
    <3>2. Written(c)' = <<>>
      <4>1. Written(c) = <<>>
        BY <1>0, <3>1, NothingYet DEF Unwritten, Dialling
      <4>. QED
        BY <3>1, <4>1 DEF Written
    <3>3. CASE req[c].what = "warmup"
      <4>1. pc'[c] = "success"
        BY <3>1, <3>3 DEF AfterEnsure
      <4>2. Written(c)' \in Contract!Plans(req'[c])
        BY <3>1, <3>2, <3>3, PlansOf
      <4>. QED
        BY <4>1, <4>2 DEF PlanOf, Sending
    <3>4. CASE req[c].what # "warmup"
      <4>1. pc'[c] = "plan" /\ req'[c].what # "warmup"
        BY <3>1, <3>4 DEF AfterEnsure
      <4>. QED
        BY <4>1 DEF PlanOf
    <3>. QED
      BY <3>3, <3>4
  <2>4. CASE CheckPasses(c)
    <3>1. /\ pc[c] = "check" /\ pc'[c] = "write"
          /\ UNCHANGED <<sent, attempt, req, plan>>
      BY <2>4 DEF CheckPasses, Goto, callVars, IInv, TypeOK
    <3>2. Written(c)' = Written(c)
      BY <3>1 DEF Written
    <3>. QED
      BY <1>0, <3>1, <3>2 DEF PlanOf, Sending
  <2>5. CASE \/ CheckFails(c) \/ WriteFails(c) \/ ConfirmFails(c) \/ PauseCancelled(c)
    <3>1. pc[c] \in Sending /\ pc'[c] = "failed" /\ UNCHANGED req
      BY <2>5 DEF CheckFails, WriteFails, ConfirmFails, PauseCancelled, Goto, callVars,
                  IInv, TypeOK, Sending
    <3>. QED
      BY <1>0, <3>1 DEF PlanOf
  <2>6. CASE \/ Begin(c) \/ Lock(c) \/ Discard(c) \/ DialFails(c) \/ DialConnects(c)
             \/ Ready(c) \/ ReadyTimesOut(c) \/ GraceOver(c) \/ DialRejected(c)
             \/ Retry(c) \/ GiveUp(c) \/ Return(c)
    <3>1. pc'[c] \notin Sending \cup {"success"}
      BY <2>6 DEF Begin, Lock, Discard, DialFails, DialConnects, Ready, ReadyTimesOut,
         GraceOver, DialRejected, Retry, GiveUp, Return, Goto, IInv, TypeOK, Sending
    <3>. QED
      BY <3>1 DEF PlanOf, Sending
  <2>. QED
    BY <1>2, <2>1, <2>2, <2>3, <2>4, <2>5, <2>6
    DEF Caller, Advance, Ensure, Dial, SendAction, Finish
<1>3. ASSUME NEW k \in ConnIds, Device(k) PROVE PlanOf(c)'
  BY <1>0, <1>3, DeviceType, PlanRests DEF IInv
<1>4. CASE UNCHANGED vars
  BY <1>0, <1>4, PlanRests DEF vars, callVars
<1>. QED
  BY <1>1, <1>2, <1>3, <1>4 DEF Next

LEMMA ApartWrite ==
    ASSUME IInv, NEW c \in Callers, Write(c)
    PROVE  ApartOf(c)'
<1>. DEFINE e == [conn |-> sess[c], try |-> attempt[c], item |-> Head(plan[c]),
                  late |-> ctx[c] = "done"]
            s == sent[c]
            r == sent'[c]
<1>1. /\ pc[c] = "write" /\ s \in Seq(SentItem) /\ r = Append(s, e)
      /\ UNCHANGED attempt
  BY DEF Write, Goto, IInv, TypeOK
<1>2. ItemsOf(c) /\ ApartOf(c)
  BY DEF IInv, History
<1>3. PICK w \in Powers, k \in 0..2 :
         LET p == PlanFor(req[c].what, w) IN
         /\ Follows(Written(c), plan[c], p, k, k + 1)
         /\ Written(c)' = Append(Written(c), p[k + 1])
  BY PlanWritten
<1>. DEFINE p == PlanFor(req[c].what, w)
<1>4. p \in Seq(Items) /\ (Len(p) = 1 \/ (Len(p) = 2 /\ p[1] # p[2]))
  BY PlanShape
<1>12. Len(p) \in 1..2
  BY PlanShape
<1>. HIDE DEF p
<1>5. /\ k + 1 \in 1..Len(p) /\ k \in Nat /\ Len(p) \in Nat
      /\ Written(c) = SubSeq(p, 1, k) /\ plan[c] = SubSeq(p, k + 1, Len(p))
  BY <1>3, <1>4 DEF Follows, p
<1>6. Head(plan[c]) = p[k + 1] /\ p[k + 1] \in Items
  BY <1>4, <1>5, Passing
<1>7. e \in SentItem /\ e.item = p[k + 1] /\ e.try = attempt[c]
  <2>1. sess[c] \in ConnIds /\ attempt[c] \in Tries
    BY <1>1 DEF IInv, TypeOK, Locals, LocalsOf, Sending
  <2>. QED
    BY <1>6, <2>1 DEF SentItem
<1>. HIDE DEF e, s, r
<1>8. /\ Len(r) = Len(s) + 1 /\ Len(s) \in Nat
      /\ \A i \in 1..Len(s) : r[i] = s[i]
      /\ r[Len(s) + 1] = e
  BY <1>1, <1>7, AppendProperties, LenProperties
<1>9. \A i \in 1..Len(s) : ~s[i].late
  BY <1>1, <1>2 DEF ItemsOf, s
<1>10. ASSUME NEW i \in 1..Len(s), s[i].try = attempt[c] PROVE s[i].item # e.item
  <2>1. PICK n \in 0..Len(s) : Parted(s, attempt[c], n)
    BY <1>2 DEF ItemsOf, Parted, s
  <2>2. /\ Len(Written(c)) = Len(s) - n
        /\ \A j \in 1..(Len(s) - n) : Written(c)[j] = s[n + j].item
    BY <1>1, <2>1, WrittenType DEF Written, s
  <2>3. i > n /\ n \in Nat
    BY <1>8, <1>10, <2>1 DEF Parted
  <2>4. i - n \in 1..(Len(s) - n) /\ n + (i - n) = i
    BY <1>8, <2>3
  <2>5. Len(Written(c)) = k /\ \A j \in 1..k : Written(c)[j] = p[j]
    <3>1. \A j \in 1..k : p[j] \in Items
      BY <1>4, <1>5
    <3>2. k - 1 + 1 = k /\ \A j \in 1..k : 1 + j - 1 = j
      BY <1>5
    <3>. QED
      BY <1>4, <1>5, <3>1, <3>2, SubSeqProperties
  <2>6. s[i].item = Written(c)[i - n]
    BY <2>2, <2>4
  <2>7. k = Len(s) - n
    BY <2>2, <2>5
  <2>8. s[i].item = p[i - n] /\ i - n \in 1..k
    BY <2>4, <2>5, <2>6, <2>7
  <2>9. k = 1 /\ Len(p) = 2 /\ i - n = 1
    <3>1. k \in Nat /\ Len(p) \in 1..2 /\ k + 1 <= Len(p)
      BY <1>5, <1>12
    <3>2. 1 <= i - n /\ i - n <= k /\ i - n \in Nat
      BY <3>1, <2>8
    <3>3. ASSUME NEW x \in Nat, NEW y \in Nat, NEW z \in 1..2,
                 y + 1 <= z, 1 <= x, x <= y
          PROVE  y = 1 /\ z = 2 /\ x = 1
      BY <3>3
    <3>. QED
      BY <3>1, <3>2, <3>3
  <2>. QED
    BY <1>4, <1>7, <2>8, <2>9
<1>11. ASSUME NEW i \in 1..Len(r), NEW j \in 1..Len(r), i # j
       PROVE  /\ r[i].try = r[j].try => r[i].item # r[j].item
              /\ ~(r[i].late /\ r[j].late)
  <2>1. CASE i \in 1..Len(s) /\ j \in 1..Len(s)
    BY <1>2, <1>8, <1>9, <1>11, <2>1 DEF ApartOf, s
  <2>2. CASE i = Len(s) + 1 /\ j \in 1..Len(s)
    BY <1>7, <1>8, <1>9, <1>10, <2>2
  <2>3. CASE j = Len(s) + 1 /\ i \in 1..Len(s)
    BY <1>7, <1>8, <1>9, <1>10, <2>3
  <2>. QED
    BY <1>8, <1>11, <2>1, <2>2, <2>3
<1>. QED
  BY <1>11 DEF ApartOf, r

LEMMA ApartStep ==
    ASSUME IInv, [Next]_vars, NEW c \in Callers
    PROVE  ApartOf(c)'
<1>1. ApartOf(c)
  BY DEF IInv, History
<1>2. ASSUME sent'[c] = sent[c] PROVE ApartOf(c)'
  BY <1>1, <1>2 DEF ApartOf
<1>3. CASE Begin(c)
  <2>1. sent'[c] = <<>> /\ Len(<<>>) = 0
    BY <1>3 DEF Begin, IInv, TypeOK
  <2>. QED
    BY <2>1 DEF ApartOf
<1>4. CASE Retry(c) \/ Stays(c)
  BY <1>2, <1>4 DEF Retry, Stays
<1>. QED
  BY <1>3, <1>4, StepOf, ApartWrite

LEMMA HistoryStep == IInv /\ [Next]_vars => History'
  BY ItemsStep, PlanStep, ApartStep DEF History

-----------------------------------------------------------------------------
(* The theorems *)

LEMMA Initially == Init => IInv
<1>. SUFFICES ASSUME Init PROVE IInv
  OBVIOUS
<1>. USE DEF Init
<1>1. Undialled \in Conn /\ ~Undialled.open
  BY DEF Undialled, Conn, Powers
<1>2. TypeOK
  BY <1>1, SenderAssumption DEF TypeOK, Tries
<1>3. Mutex /\ Locals
  BY SenderAssumption
  DEF Mutex, Locals, LocalsOf, Holding, Dialling, Sending, Stepping
<1>4. Fresh
  BY DEF Fresh, ConnIds
<1>5. SessionMatchesConfig /\ NoLeakedConnection /\ WritesReachOwnTarget
  BY <1>1
  DEF SessionMatchesConfig, NoLeakedConnection, WritesReachOwnTarget
<1>6. History
  <2>1. ASSUME NEW c \in Callers
        PROVE  Len(sent[c]) = 0 /\ pc[c] \notin Sending \cup {"success"}
    BY DEF Sending
  <2>2. ASSUME NEW c \in Callers PROVE ItemsOf(c) /\ ApartOf(c)
    BY <2>1 DEF ItemsOf, ApartOf
  <2>3. ASSUME NEW c \in Callers PROVE PlanOf(c)
    BY <2>1 DEF PlanOf, Sending
  <2>. QED
    BY <2>2, <2>3 DEF History
<1>. QED
  BY <1>2, <1>3, <1>4, <1>5, <1>6 DEF IInv

LEMMA Inductive == IInv /\ [Next]_vars => IInv'
  BY TypeStep, MutexStep, LocalsStep, FreshStep, SessionStep, NoLeakStep,
     WritesStep, HistoryStep
  DEF IInv

LEMMA Invariant == Spec => []IInv
  BY Initially, Inductive, PTL DEF Spec

\* Every variable keeps its type, for any callers, targets and requests.
THEOREM TypeCorrect == Spec => []TypeOK
  BY Invariant, PTL DEF IInv

\* No open socket is ever forgotten: it is the session, or being dialled.
THEOREM NoLeak == Spec => []NoLeakedConnection
  BY Invariant, PTL DEF IInv

\* The cached config always describes the cached, open session.
THEOREM ConfigDescribesSession == Spec => []SessionMatchesConfig
  BY Invariant, PTL DEF IInv

\* Whatever the interleaving, items reach only their own request's target.
THEOREM OwnTarget == Spec => []WritesReachOwnTarget
  BY Invariant, PTL DEF IInv

\* No connection is given an item twice by one call, and the retry writes only
\* when the first connection is closed.
THEOREM FreshRetry == Spec => []RetryOnFreshConnection
<1>1. ASSUME IInv, NEW c \in Callers,
             NEW i \in 1..Len(sent[c]), NEW j \in 1..Len(sent[c]), i < j
      PROVE  IF sent[c][i].conn = sent[c][j].conn
             THEN sent[c][i].item # sent[c][j].item
             ELSE ~conn[sent[c][i].conn].open
  <2>1. ItemsOf(c) /\ ApartOf(c) /\ Len(sent[c]) \in Nat /\ i # j
    BY <1>1, LenProperties DEF IInv, History, TypeOK
  <2>2. CASE sent[c][i].conn = sent[c][j].conn
    BY <2>1, <2>2 DEF ItemsOf, ApartOf
  <2>3. CASE sent[c][i].conn # sent[c][j].conn
    <3>1. sent[c][i].try # sent[c][j].try
      BY <2>1, <2>3 DEF ItemsOf
    <3>2. PICK n \in 0..Len(sent[c]) : Parted(sent[c], attempt[c], n)
      BY <2>1 DEF ItemsOf, Parted
    <3>3. sent[c][i].try = attempt[c] => sent[c][j].try = attempt[c]
      BY <1>1, <2>1, <3>2 DEF Parted
    <3>4. sent[c][i].try # attempt[c]
      BY <3>1, <3>3
    <3>. QED
      BY <2>1, <2>3, <3>4 DEF ItemsOf
  <2>. QED
    BY <2>2, <2>3
<1>2. IInv => RetryOnFreshConnection
  BY <1>1 DEF RetryOnFreshConnection
<1>. QED
  BY <1>2, Invariant, PTL

\* A call writes at most one item after its context has ended.
THEOREM OneLateWrite == Spec => []OneWriteAfterCancel
<1>1. IInv => OneWriteAfterCancel
  BY DEF IInv, History, ApartOf, OneWriteAfterCancel
<1>. QED
  BY <1>1, Invariant, PTL

-----------------------------------------------------------------------------
(* The sender implements SerialRemote *)

\* A step that the callers cannot see.
LEMMA Unseen ==
    ASSUME UNCHANGED <<mu, calls, req, attempt, sent, outcome>>,
           \A c \in Callers : /\ pc[c] = "idle" <=> pc'[c] = "idle"
                              /\ pc[c] = "lock" <=> pc'[c] = "lock"
    PROVE  UNCHANGED Contract!vars
BY DEF Contract!vars, Written

\* The stage of a call, as its callers see it.
Stage(x) == CASE x = "idle" -> "idle" [] x = "lock" -> "waiting" [] OTHER -> "serving"

\* A step of c alone changes the stage of c alone.
LEMMA StageMoves ==
    ASSUME TypeOK, NEW c \in Callers, NEW x, pc' = [pc EXCEPT ![c] = x]
    PROVE  [d \in Callers |-> Stage(pc[d])]'
              = [[d \in Callers |-> Stage(pc[d])] EXCEPT ![c] = Stage(x)]
BY DEF TypeOK

LEMMA OutMoves ==
    ASSUME NEW c \in Callers, NEW y, Written(c)' = y,
           \A d \in Callers \ {c} : sent'[d] = sent[d] /\ attempt'[d] = attempt[d]
    PROVE  [d \in Callers |-> Written(d)]'
              = [[d \in Callers |-> Written(d)] EXCEPT ![c] = y]
BY DEF Written

LEMMA BeginAsks ==
    ASSUME IInv, NEW c \in Callers, Begin(c)
    PROVE  Contract!Ask(c)
<1>1. pc[c] = "idle" /\ pc' = [pc EXCEPT ![c] = "lock"]
  BY DEF Begin, Goto
<1>2. Contract!Move(c, "idle", "waiting")
  BY <1>1, StageMoves DEF Contract!Move, Stage, IInv
<1>3. Written(c)' = <<>>
  <2>1. sent'[c] = <<>>
    BY DEF Begin, IInv, TypeOK
  <2>. QED
    BY <2>1, NothingInEmpty DEF Written
<1>4. [d \in Callers |-> Written(d)]'
         = [[d \in Callers |-> Written(d)] EXCEPT ![c] = <<>>]
  BY <1>3, OutMoves DEF Begin, IInv, TypeOK
<1>. QED
  BY <1>2, <1>4 DEF Contract!Ask, Begin, lockVars

LEMMA LockAdmits ==
    ASSUME IInv, NEW c \in Callers, Lock(c)
    PROVE  Contract!Admit(c)
<1>1. pc[c] = "lock" /\ pc' = [pc EXCEPT ![c] = "ensure"]
  BY DEF Lock, Goto
<1>2. Contract!Move(c, "waiting", "serving")
  <2>1. Stage("lock") = "waiting" /\ Stage("ensure") = "serving"
    BY DEF Stage
  <2>2. [d \in Callers |-> Stage(pc[d])]'
           = [[d \in Callers |-> Stage(pc[d])] EXCEPT ![c] = "serving"]
    BY <1>1, <2>1, StageMoves DEF IInv
  <2>. QED
    BY <1>1, <2>2 DEF Contract!Move, Stage
<1>3. UNCHANGED <<calls, req, attempt, sent, outcome>>
  BY DEF Lock, callVars
<1>. QED
  BY <1>2, <1>3 DEF Contract!Admit, Lock, Written

LEMMA WriteEmits ==
    ASSUME IInv, NEW c \in Callers, Write(c)
    PROVE  Contract!Emit(c)
<1>1. pc[c] = "write" /\ pc' = [pc EXCEPT ![c] = "confirm"] /\ mu = c
  BY DEF Write, Goto, IInv, Mutex, Holding, Sending
<1>2. UNCHANGED [d \in Callers |-> Stage(pc[d])] /\ Stage(pc[c]) = "serving"
  BY <1>1 DEF Stage, IInv, TypeOK
<1>3. PICK w \in Powers, k \in 0..2 :
         LET p == PlanFor(req[c].what, w) IN
         /\ Follows(Written(c), plan[c], p, k, k + 1)
         /\ Written(c)' = Append(Written(c), p[k + 1])
  BY PlanWritten
<1>. DEFINE p == PlanFor(req[c].what, w)
<1>4. p \in Seq(Items)
  BY PlanShape
<1>5. p \in Contract!Plans(req[c])
  <2>1. PlanOf(c)
    BY DEF IInv, History
  <2>2. req[c].what # "warmup"
    BY <1>1, <2>1 DEF PlanOf, Sending
  <2>. QED
    BY <2>2, PlansOf
<1>. HIDE DEF p
<1>6. /\ k + 1 \in 1..Len(p) /\ k \in Nat /\ Len(p) \in Nat
      /\ Written(c) = SubSeq(p, 1, k)
  BY <1>3, <1>4 DEF Follows, p
<1>7. Len(Written(c)) = k
  <2>1. /\ \A j \in 1..k : p[j] \in Items
        /\ k - 1 + 1 = k
    BY <1>4, <1>6
  <2>. QED
    BY <1>6, <2>1, SubSeqProperties
<1>8. Written(c)' = Append(Written(c), p[Len(Written(c)) + 1])
  BY <1>3, <1>7 DEF p
<1>9. Len(Written(c)) < Len(p) /\ Written(c) = SubSeq(p, 1, Len(Written(c)))
  BY <1>6, <1>7
<1>10. [d \in Callers |-> Written(d)]'
         = [[d \in Callers |-> Written(d)]
              EXCEPT ![c] = Append(Written(c), p[Len(Written(c)) + 1])]
  BY <1>8, OutMoves DEF Write, IInv, TypeOK
<1>. QED
  BY <1>1, <1>2, <1>5, <1>9, <1>10 DEF Contract!Emit, Write, Stage, lockVars

LEMMA RetryStartsOver ==
    ASSUME IInv, [Next]_vars, NEW c \in Callers, Retry(c)
    PROVE  Contract!StartOver(c)
<1>1. /\ pc[c] = "failed" /\ pc' = [pc EXCEPT ![c] = "ensure"] /\ mu = c
      /\ attempt[c] = 1 /\ attempt' = [attempt EXCEPT ![c] = 2]
  BY DEF Retry, Goto, IInv, Mutex, Holding, Sending
<1>2. UNCHANGED [d \in Callers |-> Stage(pc[d])] /\ Stage(pc[c]) = "serving"
  BY <1>1 DEF Stage, IInv, TypeOK
<1>3. Written(c)' = <<>>
  <2>1. ItemsOf(c)'
    BY ItemsStep
  <2>2. /\ sent'[c] \in Seq(SentItem)
        /\ \A i \in 1..Len(sent'[c]) : sent'[c][i].try # attempt'[c]
    BY <1>1, <2>1 DEF ItemsOf, Unwritten, Retry, IInv, TypeOK
  <2>. QED
    BY <2>2, NoneWritten DEF Written
<1>4. [d \in Callers |-> Written(d)]'
         = [[d \in Callers |-> Written(d)] EXCEPT ![c] = <<>>]
  BY <1>1, <1>3, OutMoves DEF Retry, IInv, TypeOK
<1>. QED
  BY <1>1, <1>2, <1>4 DEF Contract!StartOver, Retry, Stage

LEMMA ReturnAnswers ==
    ASSUME IInv, NEW c \in Callers, Return(c)
    PROVE  \E a \in {"success", "failure"} : Contract!Answer(c, a)
<1>1. /\ pc[c] \in {"success", "failure"} /\ pc' = [pc EXCEPT ![c] = "idle"] /\ mu = c
  BY DEF Return, IInv, Mutex, Holding
<1>2. Contract!Move(c, "serving", "idle")
  BY <1>1, StageMoves DEF Contract!Move, Stage, IInv
<1>3. pc[c] = "success" => Written(c) \in Contract!Plans(req[c])
  BY DEF IInv, History, PlanOf
<1>4. UNCHANGED <<calls, req, attempt, sent>>
  BY DEF Return
<1>. QED
  BY <1>1, <1>2, <1>3, <1>4 DEF Contract!Answer, Return, Written

\* The sender serves its callers as SerialRemote promises: one at a time, each
\* with a plan of its own request, started over once, and with success only
\* for a plan that went out whole and in order.
THEOREM Refinement == Spec => ImplementsContract
<1>1. Init => Contract!Init
  <2>1. ASSUME Init, NEW c \in Callers PROVE Written(c) = <<>>
    <3>1. sent[c] = <<>>
      BY <2>1 DEF Init
    <3>. QED
      BY <3>1, NothingInEmpty DEF Written
  <2>. QED
    BY <2>1 DEF Init, Contract!Init
<1>2. ASSUME IInv, [Next]_vars PROVE Contract!Next \/ UNCHANGED Contract!vars
  <2>. USE DEF Goto, lockVars, callVars
  <2>1. ASSUME NEW c \in Callers, Begin(c) \/ Lock(c) \/ Write(c) \/ Retry(c) \/ Return(c)
        PROVE  Contract!Next
    BY <1>2, <2>1, BeginAsks, LockAdmits, WriteEmits, RetryStartsOver, ReturnAnswers
    DEF Contract!Next
  <2>2. ASSUME NEW c \in Callers, CtxDone(c) PROVE UNCHANGED Contract!vars
    BY <2>2, Unseen DEF CtxDone
  <2>3. ASSUME NEW c \in Callers, Advance(c), ~Write(c), ~Retry(c), ~Return(c)
        PROVE  UNCHANGED Contract!vars
    <3>1. UNCHANGED <<mu, calls, req, attempt, sent, outcome>>
      BY <2>3 DEF Advance, Ensure, Reuse, Discard, Dial, DialFails, DialConnects,
         Ready, ReadyTimesOut, GraceOver, DialRejected, DialAccepted, SendAction,
         MakePlan, CheckFails, CheckPasses, WriteFails, ConfirmFails, Confirm,
         PauseEnds, PauseCancelled, Finish, GiveUp
    <3>2. pc[c] \in Holding /\ pc'[c] \in Holding
      <4>1. mu = c
        BY <1>2, <2>3, AdvanceFrame DEF IInv, Mutex
      <4>2. mu' = c
        BY <3>1, <4>1
      <4>. QED
        BY <1>2, <2>3, <4>1, <4>2, AdvanceFrame, SenderAssumption DEF IInv
    <3>3. \A d \in Callers \ {c} : pc'[d] = pc[d]
      BY <1>2, <2>3, AdvanceFrame DEF IInv
    <3>. QED
      BY <3>1, <3>2, <3>3, Unseen DEF Holding, Dialling, Sending
  <2>4. ASSUME NEW k \in ConnIds, Device(k) PROVE UNCHANGED Contract!vars
    BY <1>2, <2>4, DeviceType, Unseen DEF IInv
  <2>5. CASE UNCHANGED vars
    BY <2>5, Unseen DEF vars
  <2>. QED
    BY <1>2, <2>1, <2>2, <2>3, <2>4, <2>5 DEF Next, Caller
<1>3. IInv /\ [Next]_vars => [Contract!Next]_(Contract!vars)
  BY <1>2
<1>. QED
  BY <1>1, <1>3, Invariant, PTL DEF Spec, ImplementsContract, Contract!Spec

-----------------------------------------------------------------------------
(* The connections are those of SessionView *)

\* What is open has been dialled.
OpenIsDialled == \A k \in ConnIds : conn[k].open => conn[k].for # None

LEMMA DialledStep == IInv /\ OpenIsDialled /\ [Next]_vars => OpenIsDialled'
<1>. SUFFICES ASSUME IInv, OpenIsDialled, [Next]_vars, NEW k \in ConnIds, conn'[k].open
              PROVE  conn'[k].for # None
  BY DEF OpenIsDialled
<1>1. ASSUME conn[k].open PROVE conn'[k].for # None
  BY <1>1, TargetKept DEF OpenIsDialled
<1>2. ASSUME NEW c \in Callers, DialConnects(c) PROVE conn'[k].for # None
  <2>1. req[c].cfg # None
    BY <1>2, RequestOf, SenderAssumption DEF IInv, DialConnects, Goto
  <2>2. conn'[k] = conn[k] \/ conn'[k] = NewConn(req[c].cfg)
    BY <1>2 DEF DialConnects, IInv, TypeOK
  <2>. QED
    BY <1>1, <2>1, <2>2 DEF NewConn, Undialled
<1>3. ASSUME NEW c \in Callers, Caller(c) PROVE conn'[k].for # None
  <2>1. ASSUME NEW q \in ConnIds, conn' = Closed(q) PROVE conn[k].open
    BY <2>1, ClosedKeeps DEF IInv
  <2>. QED
    BY <1>1, <1>2, <1>3, <2>1, ConnStep
<1>4. ASSUME NEW q \in ConnIds, Device(q) PROVE conn'[k].for # None
  BY <1>1, <1>4, DeviceKeeps DEF IInv
<1>. QED
  BY <1>1, <1>3, <1>4 DEF Next, vars

\* A device's step on a connection is one that its user may see, or is hidden.
LEMMA DeviceViewed ==
    ASSUME TypeOK, NEW q \in ConnIds, Device(q), NEW k \in ConnIds
    PROVE  View(k)!Next \/ UNCHANGED View(k)!vars
<1>. DEFINE v == conn[k]
            w == conn'[k]
<1>1. v \in Conn /\ w \in Conn
  BY DeviceType DEF TypeOK
<1>2. w.for = v.for /\ w.open = v.open
  BY DeviceKeeps
<1>3. CASE q # k
  BY <1>3, DeviceKeeps DEF View!vars
<1>4. CASE q = k /\ DeviceActivates(q)
  <2>1. v.open /\ ~v.err /\ ~v.ready /\ w = [v EXCEPT !.ready = TRUE]
    BY <1>4 DEF DeviceActivates, Reading, TypeOK
  <2>2. w.ready /\ w.power = v.power /\ w.err = v.err
    BY <1>1, <2>1 DEF Conn
  <2>. QED
    BY <1>2, <2>1, <2>2 DEF View!Next, View!Activate
<1>5. CASE q = k /\ DeviceReportsPower(q)
  <2>1. PICK p \in Reports, r \in {v.ready, TRUE} :
           v.open /\ ~v.err /\ w = [v EXCEPT !.power = p, !.ready = r]
    BY <1>5 DEF DeviceReportsPower, Reading, TypeOK
  <2>2. w.power = p /\ w.ready = r /\ w.err = v.err /\ p \in {"off", "on"}
    BY <1>1, <2>1, SenderAssumption DEF Conn
  <2>. QED
    BY <1>2, <2>1, <2>2 DEF View!Next, View!ReportPower
<1>6. CASE q = k /\ ReaderFails(q)
  <2>1. v.open /\ ~v.err /\ w = [v EXCEPT !.err = TRUE]
    BY <1>6 DEF ReaderFails, Reading, TypeOK
  <2>2. w.err /\ w.power = v.power /\ w.ready = v.ready
    BY <1>1, <2>1 DEF Conn
  <2>. QED
    BY <1>2, <2>1, <2>2 DEF View!Next, View!Fail
<1>7. CASE q = k /\ DeviceLeaves(q)
  <2>1. w = [v EXCEPT !.up = FALSE]
    BY <1>7 DEF DeviceLeaves, TypeOK
  <2>2. w.err = v.err /\ w.power = v.power /\ w.ready = v.ready
    BY <1>1, <2>1 DEF Conn
  <2>. QED
    BY <1>2, <2>2 DEF View!vars
<1>. QED
  BY <1>3, <1>4, <1>5, <1>6, <1>7 DEF Device

\* A caller closes connections and dials new ones.
LEMMA CallerViewed ==
    ASSUME IInv, OpenIsDialled, NEW c \in Callers, Caller(c), NEW k \in ConnIds
    PROVE  View(k)!Next \/ UNCHANGED View(k)!vars
<1>1. CASE conn' = conn
  BY <1>1 DEF View!vars
<1>2. ASSUME NEW q \in ConnIds, conn[q].open, conn' = Closed(q)
      PROVE  View(k)!Next \/ UNCHANGED View(k)!vars
  <2>1. CASE q # k
    <3>1. conn'[k] = conn[k]
      BY <1>2, <2>1, ClosedKeeps DEF IInv
    <3>. QED
      BY <3>1 DEF View!vars
  <2>2. CASE q = k
    <3>1. conn'[k] = [Undialled EXCEPT !.for = conn[k].for]
      BY <1>2, <2>2 DEF IInv, TypeOK, Closed
    <3>2. /\ conn'[k].for = conn[k].for /\ ~conn'[k].open /\ ~conn'[k].ready
          /\ conn'[k].power = "unknown" /\ ~conn'[k].err
      BY <3>1 DEF Undialled
    <3>3. conn[k].for # None
      BY <1>2, <2>2 DEF OpenIsDialled
    <3>. QED
      BY <1>2, <2>2, <3>2, <3>3 DEF View!Next, View!Close, View!Blank
  <2>. QED
    BY <2>1, <2>2
<1>3. CASE DialConnects(c)
  <2>. DEFINE n == <<c, calls[c], attempt[c]>>
  <2>1. n \in ConnIds /\ conn[n] = Undialled
    BY <1>3, DialledIsFresh
  <2>2. conn' = [conn EXCEPT ![n] = NewConn(req[c].cfg)]
    BY <1>3 DEF DialConnects
  <2>3. CASE n # k
    BY <2>2, <2>3 DEF IInv, TypeOK, View!vars
  <2>4. CASE n = k
    <3>1. conn'[k] = NewConn(req[c].cfg)
      BY <2>2, <2>4 DEF IInv, TypeOK
    <3>2. /\ conn[k].for = None /\ conn[k].ready = FALSE
          /\ conn[k].power = "unknown" /\ conn[k].err = FALSE
      BY <2>1, <2>4 DEF Undialled
    <3>3. /\ conn'[k].open = TRUE /\ conn'[k].ready = FALSE
          /\ conn'[k].power = "unknown" /\ conn'[k].err = FALSE
      BY <3>1 DEF NewConn, Undialled
    <3>4. (conn[k].for = None \/ conn[k].open) = (conn'[k].for = None \/ conn'[k].open)
      BY <3>2, <3>3
    <3>. QED
      BY <3>2, <3>3, <3>4 DEF View!vars
  <2>. QED
    BY <2>3, <2>4
<1>. QED
  BY <1>1, <1>2, <1>3, ConnStep

\* Every connection is to the sender what SessionView makes of one: RemoteClient
\* implements the same view from inside.
THEOREM ConnectionsViewed == Spec => ConnectionsAsViewed
<1>1. Init => OpenIsDialled /\ \A k \in ConnIds : View(k)!Init
  BY DEF Init, OpenIsDialled, Undialled, View!Init
<1>2. ASSUME IInv, OpenIsDialled, [Next]_vars, NEW k \in ConnIds
      PROVE  View(k)!Next \/ UNCHANGED View(k)!vars
  <2>1. CASE UNCHANGED vars
    BY <2>1 DEF vars, View!vars
  <2>. QED
    BY <1>2, <2>1, CallerViewed, DeviceViewed DEF Next, IInv
<1>3. IInv /\ OpenIsDialled /\ [Next]_vars =>
         [\A k \in ConnIds : [View(k)!Next]_(View(k)!vars)]_vars
  BY <1>2
<1>. QED
  BY <1>1, <1>3, DialledStep, Invariant, PTL DEF Spec, ConnectionsAsViewed

\* Nor does the sender take less into account than the view allows: what a
\* device may do to a connection by SessionView is a step of Device.
THEOREM NothingLeftOut ==
    ASSUME TypeOK, Reports = {"off", "on"}, NEW k \in ConnIds, conn[k].open, NEW v \in Conn,
           conn' = [conn EXCEPT ![k] = v], v.for = conn[k].for, v.open, v.up = conn[k].up,
           UNCHANGED <<lockVars, pc, callVars>>,
           View(k)!Activate \/ View(k)!ReportPower \/ View(k)!Fail
    PROVE  Device(k)
<1>1. conn[k] \in Conn /\ conn'[k] = v
  BY DEF TypeOK
<1>2. v = [for |-> v.for, open |-> v.open, up |-> v.up, ready |-> v.ready,
           power |-> v.power, err |-> v.err]
  BY DEF Conn
<1>3. CASE View(k)!Activate
  <2>1. v = [conn[k] EXCEPT !.ready = TRUE]
    BY <1>1, <1>2, <1>3 DEF View!Activate, Conn
  <2>. QED
    BY <1>1, <1>3, <2>1 DEF View!Activate, Device, DeviceActivates, Reading
<1>4. CASE View(k)!ReportPower
  <2>1. v = [conn[k] EXCEPT !.power = v.power, !.ready = v.ready]
    <3>1. v.err = conn[k].err /\ v.open = conn[k].open
      BY <1>1, <1>4 DEF View!ReportPower, Conn
    <3>. QED
      BY <1>1, <1>2, <3>1 DEF Conn
  <2>2. v.power \in Reports /\ v.ready \in {conn[k].ready, TRUE}
    BY <1>1, <1>4 DEF View!ReportPower
  <2>3. conn' = [conn EXCEPT ![k].power = v.power, ![k].ready = v.ready]
    BY <2>1
  <2>4. Reading(k)
    BY <1>4 DEF View!ReportPower, Reading
  <2>5. DeviceReportsPower(k)
    BY <2>2, <2>3, <2>4 DEF DeviceReportsPower
  <2>. QED
    BY <2>5 DEF Device
<1>5. CASE View(k)!Fail
  <2>1. v = [conn[k] EXCEPT !.err = TRUE]
    BY <1>1, <1>2, <1>5 DEF View!Fail, Conn
  <2>. QED
    BY <1>1, <1>5, <2>1 DEF View!Fail, Device, ReaderFails, Reading
<1>. QED
  BY <1>3, <1>4, <1>5
=============================================================================
