-------------------------- MODULE ActionQueue_proofs --------------------------
(****************************************************************************)
(* For every set of actions, capacity of the queue and number of presses:   *)
(* accepted presses are sent once and in order, the shared counter is       *)
(* exact, and the status line does not stay on "Queued" or "Sending".       *)
(****************************************************************************)
EXTENDS ActionQueue, SequenceTheorems, TLAPS

\* What the steps of the UI and of the worker say about their locals.
Locals ==
    /\ ui = "idle" <=> press = <<>>
    /\ worker = "idle" <=> cur = <<>>

\* An idle worker has reported last, and an accepted action has left a trace
\* that the UI cannot remove before it writes "Queued".
Traces ==
    /\ worker = "idle" /\ posts # <<>> => posts[Len(posts)].kind \in {"sent", "error"}
    /\ ui = "accepted" => queue # <<>> \/ worker # "idle" \/ posts # <<>>

IInv ==
    /\ TypeOK /\ Locals /\ Traces
    /\ DepthIsExact /\ SentOnceInOrder /\ StatusSettles

-----------------------------------------------------------------------------
LEMMA Initially == Init => IInv
BY QueueAssumption, EmptySeq DEF Init, IInv, TypeOK, Locals, Traces, DepthIsExact,
   SentOnceInOrder, StatusSettles, InFlight, Counted, Text, Kinds, Quiet

-----------------------------------------------------------------------------
(* The UI thread *)

\* The worker holds at most one action.
LEMMA HeldType == ASSUME TypeOK PROVE cur \in Seq(Actions)
<1>1. CASE cur = <<>>
  BY <1>1, EmptySeq
<1>2. CASE \E a \in Actions : cur = <<a>>
  BY <1>2
<1>. QED
  BY <1>1, <1>2 DEF TypeOK

LEMMA PressKeeps == ASSUME IInv, NEW a \in Actions, Press(a) PROVE IInv'
<1>. USE DEF Press, IInv, workVars
<1>1. TypeOK'
  BY QueueAssumption DEF TypeOK
<1>2. Locals' /\ Traces'
  BY DEF Locals, Traces, TypeOK
<1>3. DepthIsExact'
  BY DEF DepthIsExact, Counted, TypeOK
<1>4. SentOnceInOrder' /\ StatusSettles'
  BY DEF SentOnceInOrder, InFlight, StatusSettles, Quiet
<1>. QED
  BY <1>1, <1>2, <1>3, <1>4

LEMMA OfferKeeps == ASSUME IInv, Offer PROVE IInv'
<1>. USE DEF Offer, IInv, workVars
<1>1. press[1] \in Actions /\ press # <<>>
  BY DEF TypeOK, Locals
<1>2. /\ queue' \in Seq(Actions) /\ Len(queue') = Len(queue) + 1 /\ queue' # <<>>
      /\ accepted' \in Seq(Actions)
  BY <1>1, AppendProperties DEF TypeOK
<1>8. queue' = queue \o <<press[1]>> /\ accepted' = accepted \o <<press[1]>>
  BY <1>1, AppendIsConcat DEF TypeOK
<1>3. TypeOK'
  BY <1>2, LenProperties, QueueAssumption DEF TypeOK
<1>4. Locals' /\ Traces'
  BY <1>1, <1>2 DEF Locals, Traces
<1>5. DepthIsExact'
  BY <1>2, LenProperties DEF DepthIsExact, Counted, TypeOK
<1>6. SentOnceInOrder'
  <2>. DEFINE s == sent \o InFlight
  <2>1. InFlight \in Seq(Actions)
    BY EmptySeq, HeldType DEF InFlight
  <2>2. s \in Seq(Actions)
    BY <2>1, ConcatProperties DEF TypeOK
  <2>3. s \o (queue \o <<press[1]>>) = (s \o queue) \o <<press[1]>>
    <3>1. <<press[1]>> \in Seq(Actions) /\ queue \in Seq(Actions)
      BY <1>1 DEF TypeOK
    <3>. QED
      BY <2>2, <3>1, ConcatAssociative
  <2>. QED
    BY <1>8, <2>3 DEF SentOnceInOrder, InFlight
<1>7. StatusSettles'
  BY DEF StatusSettles, Quiet
<1>. QED
  BY <1>3, <1>4, <1>5, <1>6, <1>7

LEMMA SayQueuedKeeps == ASSUME IInv, SayQueued PROVE IInv'
<1>. USE DEF SayQueued, IInv, workVars
<1>1. TypeOK' /\ Locals' /\ Traces'
  BY DEF TypeOK, Locals, Traces, Text, Kinds
<1>2. DepthIsExact' /\ SentOnceInOrder'
  BY DEF DepthIsExact, Counted, SentOnceInOrder, InFlight
<1>3. StatusSettles'
  BY DEF StatusSettles, Quiet, Traces
<1>. QED
  BY <1>1, <1>2, <1>3

LEMMA RefuseKeeps == ASSUME IInv, Refuse PROVE IInv'
<1>. USE DEF Refuse, IInv, workVars
<1>1. depth' \in Nat /\ DepthIsExact'
  BY LenProperties DEF DepthIsExact, Counted, TypeOK
<1>2. TypeOK' /\ Locals' /\ Traces'
  BY <1>1 DEF TypeOK, Locals, Traces, Text, Kinds
<1>3. SentOnceInOrder' /\ StatusSettles'
  BY DEF SentOnceInOrder, InFlight, StatusSettles, Text
<1>. QED
  BY <1>1, <1>2, <1>3

LEMMA RunPostKeeps == ASSUME IInv, RunPost PROVE IInv'
<1>. USE DEF RunPost, IInv, workVars
<1>. DEFINE Posts == [kind : Kinds, n : Nat]
<1>1. /\ posts \in Seq(Posts) /\ Len(posts) \in Nat \ {0}
      /\ Head(posts) \in Posts /\ Tail(posts) \in Seq(Posts)
      /\ Len(Tail(posts)) = Len(posts) - 1 /\ Head(posts) = posts[1]
      /\ \A i \in 1 .. Len(posts) - 1 : Tail(posts)[i] = posts[i + 1]
  <2>1. posts \in Seq(Posts) /\ posts # <<>>
    BY DEF TypeOK
  <2>2. Len(posts) \in Nat \ {0}
    BY <2>1, EmptySeq, LenProperties
  <2>3. Head(posts) = posts[1]
    BY <2>1
  <2>4. /\ Head(posts) \in Posts /\ Tail(posts) \in Seq(Posts)
        /\ Len(Tail(posts)) = Len(posts) - 1
        /\ \A i \in 1 .. Len(Tail(posts)) : Tail(posts)[i] = posts[i + 1]
    BY <2>1, HeadTailProperties
  <2>. QED
    BY <2>1, <2>2, <2>3, <2>4
<1>2. TypeOK' /\ Locals'
  BY <1>1 DEF TypeOK, Locals
<1>3. DepthIsExact' /\ SentOnceInOrder'
  BY DEF DepthIsExact, Counted, SentOnceInOrder, InFlight
<1>4. ASSUME worker = "idle", Tail(posts) # <<>>
      PROVE  Tail(posts)[Len(Tail(posts))] = posts[Len(posts)]
  <2>1. Len(Tail(posts)) # 0
    BY <1>1, <1>4, EmptySeq
  <2>. QED
    BY <1>1, <2>1
<1>5. Traces'
  BY <1>4 DEF Traces
<1>6. ASSUME worker = "idle", Tail(posts) = <<>>
      PROVE  Head(posts).kind \in {"sent", "error"}
  <2>1. Len(Tail(posts)) = 0
    BY <1>1, <1>6, EmptySeq
  <2>2. Len(posts) = 1
    BY <1>1, <2>1
  <2>. QED
    BY <1>1, <1>6, <2>2 DEF Traces
<1>7. StatusSettles'
  BY <1>6 DEF StatusSettles, Quiet
<1>. QED
  BY <1>2, <1>3, <1>5, <1>7

-----------------------------------------------------------------------------
(* The worker *)

\* What a post leaves behind.
LEMMA PostType ==
    ASSUME TypeOK, NEW s \in [kind : Kinds, n : Nat], Post(s)
    PROVE  /\ posts' \in Seq([kind : Kinds, n : Nat]) /\ posts' # <<>>
           /\ posts'[Len(posts')] = s
<1>. DEFINE S == [kind : Kinds, n : Nat]
<1>1. posts \in Seq(S) /\ s \in S /\ posts' = Append(posts, s)
  BY DEF Post, TypeOK
<1>. HIDE DEF S
<1>2. /\ posts' \in Seq(S) /\ Len(posts') = Len(posts) + 1
      /\ posts'[Len(posts) + 1] = s /\ posts' # <<>>
  BY <1>1, AppendProperties
<1>. QED
  BY <1>2 DEF S

LEMMA TakeKeeps == ASSUME IInv, Take PROVE IInv'
<1>. USE DEF Take, IInv, uiVars
<1>1. /\ Head(queue) \in Actions /\ Tail(queue) \in Seq(Actions)
      /\ Len(Tail(queue)) = Len(queue) - 1 /\ Len(queue) \in Nat
      /\ queue = <<Head(queue)>> \o Tail(queue)
  BY HeadTailProperties, HeadTailAppend, LenProperties, ConcatSimplifications DEF TypeOK
<1>2. TypeOK'
  BY <1>1, QueueAssumption DEF TypeOK
<1>3. Locals' /\ Traces'
  BY DEF Locals, Traces
<1>4. DepthIsExact'
  <2>1. Len(queue') + 1 = Len(queue)
    BY <1>1
  <2>2. Counted(worker # "idle") = 0 /\ Counted((worker # "idle")') = 1
    BY DEF Counted
  <2>. QED
    BY <1>1, <2>1, <2>2 DEF DepthIsExact, TypeOK
<1>5. SentOnceInOrder'
  <2>1. /\ <<Head(queue)>> \in Seq(Actions) /\ sent \in Seq(Actions)
        /\ sent \o <<>> = sent
    BY <1>1, ConcatEmptySeq DEF TypeOK
  <2>2. (sent \o <<Head(queue)>>) \o Tail(queue) = sent \o (<<Head(queue)>> \o Tail(queue))
    BY <1>1, <2>1, ConcatAssociative
  <2>. QED
    BY <1>1, <2>1, <2>2 DEF SentOnceInOrder, InFlight
<1>6. StatusSettles'
  BY DEF StatusSettles, Quiet
<1>. QED
  BY <1>2, <1>3, <1>4, <1>5, <1>6

LEMMA AnnounceKeeps == ASSUME IInv, Announce PROVE IInv'
<1>. USE DEF Announce, IInv, uiVars
<1>1. PICK n \in Nat : Post(Text("sending", n))
  BY DEF TypeOK
<1>2. /\ posts' \in Seq([kind : Kinds, n : Nat]) /\ posts' # <<>>
  BY <1>1, PostType DEF Text, Kinds
<1>3. TypeOK' /\ Locals' /\ Traces'
  BY <1>2 DEF TypeOK, Locals, Traces
<1>4. DepthIsExact' /\ SentOnceInOrder' /\ StatusSettles'
  BY DEF DepthIsExact, Counted, SentOnceInOrder, InFlight, StatusSettles, Quiet
<1>. QED
  BY <1>3, <1>4

LEMMA SendKeeps == ASSUME IInv, Send PROVE IInv'
<1>. USE DEF Send, IInv, uiVars
<1>1. cur \in Seq(Actions) /\ sent \o cur \in Seq(Actions)
  BY HeldType, ConcatProperties DEF TypeOK
<1>2. TypeOK' /\ Locals' /\ Traces'
  BY <1>1 DEF TypeOK, Locals, Traces
<1>3. DepthIsExact' /\ StatusSettles'
  BY DEF DepthIsExact, Counted, StatusSettles, Quiet
<1>4. SentOnceInOrder'
  BY <1>1, ConcatEmptySeq DEF SentOnceInOrder, InFlight
<1>. QED
  BY <1>2, <1>3, <1>4

LEMMA ReportKeeps == ASSUME IInv, Report PROVE IInv'
<1>. USE DEF Report, IInv, uiVars
<1>1. depth' \in Nat /\ DepthIsExact'
  BY LenProperties DEF DepthIsExact, Counted, TypeOK
<1>2. PICK kind \in {"sent", "error"} : Post(Text(kind, depth - 1))
  OBVIOUS
<1>3. /\ posts' \in Seq([kind : Kinds, n : Nat]) /\ posts' # <<>>
      /\ posts'[Len(posts')].kind \in {"sent", "error"}
  BY <1>1, <1>2, PostType DEF Text, Kinds
<1>4. TypeOK' /\ Locals' /\ Traces'
  BY <1>1, <1>3 DEF TypeOK, Locals, Traces
<1>5. SentOnceInOrder' /\ StatusSettles'
  BY <1>3 DEF SentOnceInOrder, InFlight, StatusSettles, Quiet
<1>. QED
  BY <1>1, <1>4, <1>5

LEMMA Stutters == ASSUME IInv, UNCHANGED vars PROVE IInv'
BY DEF IInv, TypeOK, Locals, Traces, DepthIsExact, SentOnceInOrder, StatusSettles,
   InFlight, Quiet, vars, uiVars, workVars

-----------------------------------------------------------------------------
(* Results *)

LEMMA Inductive == IInv /\ [Next]_vars => IInv'
<1>. SUFFICES ASSUME IInv, [Next]_vars PROVE IInv'
  OBVIOUS
<1>1. CASE \E a \in Actions : Press(a)
  BY <1>1, PressKeeps
<1>2. CASE UI
  BY <1>2, OfferKeeps, SayQueuedKeeps, RefuseKeeps, RunPostKeeps DEF UI
<1>3. CASE Worker
  BY <1>3, TakeKeeps, AnnounceKeeps, SendKeeps, ReportKeeps DEF Worker
<1>4. CASE UNCHANGED vars
  BY <1>4, Stutters
<1>. QED
  BY <1>1, <1>2, <1>3, <1>4 DEF Next

LEMMA Invariant == Spec => []IInv
BY Initially, Inductive, PTL DEF Spec

\* Every variable has its type; the queue never holds more than its capacity.
THEOREM TypeCorrect == Spec => []TypeOK
<1>1. IInv => TypeOK
  BY DEF IInv
<1>. QED
  BY <1>1, Invariant, PTL

\* Accepted presses are sent once, in the order of the presses (sendAsync,
\* startActionWorker).
THEOREM OnceInOrder == Spec => []SentOnceInOrder
<1>1. IInv => SentOnceInOrder
  BY DEF IInv
<1>. QED
  BY <1>1, Invariant, PTL

\* The shared counter is what is queued, held and offered (sendAsync,
\* startActionWorker).
THEOREM ExactDepth == Spec => []DepthIsExact
<1>1. IInv => DepthIsExact
  BY DEF IInv
<1>. QED
  BY <1>1, Invariant, PTL

\* At rest the status line says how the last action ended (sendAsync, post).
THEOREM SettledStatus == Spec => []StatusSettles
<1>1. IInv => StatusSettles
  BY DEF IInv
<1>. QED
  BY <1>1, Invariant, PTL
=============================================================================
