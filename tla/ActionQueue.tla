----------------------------- MODULE ActionQueue -----------------------------
(****************************************************************************)
(* The GTK remote's action queue (adapters/in/gtk/app.go).  Presses run on  *)
(* the UI thread: sendAsync counts the press, offers it to a bounded        *)
(* channel and writes the status line.  One worker goroutine takes actions  *)
(* from the channel, sends them, and posts what the status line should say; *)
(* the UI thread runs the posted functions, in order, between its own       *)
(* events.  The counter is shared, the status line belongs to the UI.       *)
(****************************************************************************)
EXTENDS Naturals, Sequences

CONSTANTS
    Actions,    \* what can be pressed
    QueueCap,   \* capacity of actionQueue: 64 in the code
    MaxPresses  \* bound: presses of the run

ASSUME QueueAssumption ==
    QueueCap \in Nat \ {0} /\ MaxPresses \in Nat

VARIABLES
    presses,    \* presses so far
    ui,         \* step of the event the UI thread is in, "idle" between events
    press,      \* the action and rank of that event's press
    depth,      \* actionQueueDepth
    queue,      \* actionQueue
    worker,     \* step of the worker
    cur,        \* the action the worker has taken
    posts,      \* functions waiting for the UI thread, as the status they set
    status,     \* the status line
    accepted,   \* actions that entered the queue (history)
    sent        \* actions handed to the controller (history)

uiVars == <<presses, ui, press, status>>
workVars == <<worker, cur, sent>>
vars == <<uiVars, depth, queue, workVars, posts, accepted>>

Text(kind, n) == [kind |-> kind, n |-> n]

Init ==
    /\ presses = 0 /\ ui = "idle" /\ press = <<>>
    /\ depth = 0 /\ queue = <<>>
    /\ worker = "idle" /\ cur = <<>>
    /\ posts = <<>> /\ status = Text("ready", 0)
    /\ accepted = <<>> /\ sent = <<>>

-----------------------------------------------------------------------------
(* The UI thread *)

\* sendAsync: actionQueueDepth.Add(1)
Press(a) ==
    /\ ui = "idle" /\ ui' = "offer"
    /\ presses < MaxPresses /\ presses' = presses + 1
    /\ depth' = depth + 1
    /\ press' = <<a, depth + 1>>
    /\ UNCHANGED <<status, queue, workVars, posts, accepted>>

Offer ==
    /\ ui = "offer" /\ ui' = "accepted"
    /\ Len(queue) < QueueCap
    /\ queue' = Append(queue, press[1])
    /\ accepted' = Append(accepted, press[1])
    /\ UNCHANGED <<presses, press, status, depth, workVars, posts>>

SayQueued ==
    /\ ui = "accepted" /\ ui' = "idle"
    /\ status' = Text("queued", press[2])
    /\ press' = <<>>
    /\ UNCHANGED <<presses, depth, queue, workVars, posts, accepted>>

\* Mutant for DepthIsExact: the count of a refused press is not taken back.
RefuseCounted ==
    /\ ui = "offer" /\ ui' = "idle"
    /\ Len(queue) = QueueCap
    /\ status' = Text("full", 0)
    /\ press' = <<>>
    /\ UNCHANGED <<presses, depth, queue, workVars, posts, accepted>>

\* The select's default: the count is taken back.
Refuse ==
    /\ ui = "offer" /\ ui' = "idle"
    /\ Len(queue) = QueueCap
    /\ depth' = depth - 1
    /\ status' = Text("full", 0)
    /\ press' = <<>>
    /\ UNCHANGED <<presses, queue, workVars, posts, accepted>>

\* An idle callback, once no event is being handled.
RunPost ==
    /\ ui = "idle" /\ posts # <<>>
    /\ status' = Head(posts)
    /\ posts' = Tail(posts)
    /\ UNCHANGED <<presses, ui, press, depth, queue, workVars, accepted>>

-----------------------------------------------------------------------------
(* The worker *)

Post(s) == posts' = Append(posts, s)

\* Mutant for SentOnceInOrder: the newest press overtakes the others.
TakeNewest ==
    /\ worker = "idle" /\ worker' = "taken"
    /\ queue # <<>>
    /\ cur' = <<queue[Len(queue)]>>
    /\ queue' = SubSeq(queue, 1, Len(queue) - 1)
    /\ UNCHANGED <<sent, uiVars, depth, posts, accepted>>

Take ==
    /\ worker = "idle" /\ worker' = "taken"
    /\ queue # <<>>
    /\ cur' = <<Head(queue)>>
    /\ queue' = Tail(queue)
    /\ UNCHANGED <<sent, uiVars, depth, posts, accepted>>

\* "Sending", with the number of actions behind this one.
Announce ==
    /\ worker = "taken" /\ worker' = "sending"
    /\ Post(Text("sending", IF depth > 1 THEN depth - 1 ELSE 0))
    /\ UNCHANGED <<cur, sent, uiVars, depth, queue, accepted>>

\* controller.Send returns, within its 10 s context.
Send ==
    /\ worker = "sending" /\ worker' = "sent"
    /\ sent' = sent \o cur
    /\ UNCHANGED <<cur, uiVars, depth, queue, posts, accepted>>

\* Mutant for StatusSettles: only errors are reported.
ReportErrorsOnly ==
    /\ worker = "sent" /\ worker' = "idle"
    /\ depth' = depth - 1
    /\ posts' \in {posts, Append(posts, Text("error", depth - 1))}
    /\ cur' = <<>>
    /\ UNCHANGED <<sent, uiVars, queue, accepted>>

\* Mutant for ComesToRest: the count of a sent action is not taken back.
ReportCounted ==
    /\ worker = "sent" /\ worker' = "idle"
    /\ \E kind \in {"sent", "error"} : Post(Text(kind, depth - 1))
    /\ cur' = <<>>
    /\ UNCHANGED <<sent, uiVars, depth, queue, accepted>>

Report ==
    /\ worker = "sent" /\ worker' = "idle"
    /\ depth' = depth - 1
    /\ \E kind \in {"sent", "error"} : Post(Text(kind, depth - 1))
    /\ cur' = <<>>
    /\ UNCHANGED <<sent, uiVars, queue, accepted>>

UI == Offer \/ SayQueued \/ Refuse \/ RunPost
Worker == Take \/ Announce \/ Send \/ Report

Next == (\E a \in Actions : Press(a)) \/ UI \/ Worker

Spec == Init /\ [][Next]_vars

\* The UI thread finishes its events and runs what is posted; the worker runs
\* and Send always returns (AndroidTVSender: EveryCallReturns).
FairSpec == Spec /\ WF_vars(UI) /\ WF_vars(Worker)

-----------------------------------------------------------------------------
(* Properties *)

Kinds == {"ready", "queued", "full", "sending", "sent", "error"}

\* Every variable has the shape of the Go value it stands for.
TypeOK ==
    /\ presses \in 0..MaxPresses
    /\ ui \in {"idle", "offer", "accepted"}
    /\ press \in {<<>>} \cup (Actions \X (Nat \ {0}))
    /\ depth \in Nat
    /\ queue \in Seq(Actions) /\ Len(queue) <= QueueCap
    /\ worker \in {"idle", "taken", "sending", "sent"}
    /\ cur \in {<<>>} \cup {<<a>> : a \in Actions}
    /\ posts \in Seq([kind : Kinds, n : Nat])
    /\ status \in [kind : Kinds, n : Nat]
    /\ accepted \in Seq(Actions) /\ sent \in Seq(Actions)

InFlight == IF worker \in {"taken", "sending"} THEN cur ELSE <<>>

\* Every accepted press is sent once, in the order of the presses; refused
\* ones never are (sendAsync, startActionWorker).
SentOnceInOrder == sent \o InFlight \o queue = accepted

Counted(n) == IF n THEN 1 ELSE 0

\* The shared counter is what is queued, what the worker holds, and the press
\* being offered: it comes back to zero, whatever the interleaving with a
\* refusal.
DepthIsExact ==
    depth = Len(queue) + Counted(worker # "idle") + Counted(ui = "offer")

Quiet == ui = "idle" /\ worker = "idle" /\ queue = <<>> /\ posts = <<>>

\* When everything has been done the status line says how the last action
\* ended, or that one was refused; it is never stuck on "Queued" or "Sending",
\* although the worker may have finished before "Queued" was shown.
StatusSettles ==
    Quiet => status.kind \notin {"queued", "sending"}

\* Every press is dealt with and the remote comes to rest.
ComesToRest == []<>(depth = 0 /\ Quiet)
=============================================================================
