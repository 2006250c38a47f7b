---------------------------- MODULE SerialRemote ----------------------------
(****************************************************************************)
(* What the callers of an Android TV sender may rely on, with no session,   *)
(* connection or device in it: requests are served one at a time, serving   *)
(* one writes a plan for it item by item, the plan may be started over      *)
(* once, and success is answered only when a plan went out whole.  A        *)
(* request may be abandoned with a failure at any point.                    *)
(****************************************************************************)
EXTENDS Naturals, Sequences

CONSTANTS Callers, None, Requests, PlanFor(_, _), Powers, MaxCalls

VARIABLES
    holder,     \* the caller being served
    stage,      \* "idle", "waiting" or "serving"
    calls,      \* requests made so far
    req,        \* the request of each caller
    run,        \* first or second run of the plan
    out,        \* items written in this run
    answer      \* the answer to the last request

vars == <<holder, stage, calls, req, run, out, answer>>

\* A warm-up writes nothing.
Plans(r) == IF r.what = "warmup" THEN {<<>>}
            ELSE {PlanFor(r.what, p) : p \in Powers}

Init ==
    /\ holder = None
    /\ stage = [c \in Callers |-> "idle"]
    /\ calls = [c \in Callers |-> 0]
    /\ req = [c \in Callers |-> None]
    /\ run = [c \in Callers |-> 1]
    /\ out = [c \in Callers |-> <<>>]
    /\ answer = [c \in Callers |-> "none"]

Move(c, from, to) == stage[c] = from /\ stage' = [stage EXCEPT ![c] = to]

Ask(c) ==
    /\ Move(c, "idle", "waiting")
    /\ calls[c] < MaxCalls
    /\ calls' = [calls EXCEPT ![c] = @ + 1]
    /\ \E r \in Requests : req' = [req EXCEPT ![c] = r]
    /\ run' = [run EXCEPT ![c] = 1]
    /\ out' = [out EXCEPT ![c] = <<>>]
    /\ answer' = [answer EXCEPT ![c] = "none"]
    /\ UNCHANGED holder

Admit(c) ==
    /\ Move(c, "waiting", "serving")
    /\ holder = None /\ holder' = c
    /\ UNCHANGED <<calls, req, run, out, answer>>

Emit(c) ==
    /\ holder = c /\ stage[c] = "serving"
    /\ \E p \in Plans(req[c]) :
          /\ Len(out[c]) < Len(p) /\ out[c] = SubSeq(p, 1, Len(out[c]))
          /\ out' = [out EXCEPT ![c] = Append(@, p[Len(@) + 1])]
    /\ UNCHANGED <<holder, stage, calls, req, run, answer>>

StartOver(c) ==
    /\ holder = c /\ stage[c] = "serving" /\ run[c] = 1
    /\ run' = [run EXCEPT ![c] = 2]
    /\ out' = [out EXCEPT ![c] = <<>>]
    /\ UNCHANGED <<holder, stage, calls, req, answer>>

Answer(c, a) ==
    /\ Move(c, "serving", "idle")
    /\ holder = c /\ holder' = None
    /\ a = "success" => out[c] \in Plans(req[c])
    /\ answer' = [answer EXCEPT ![c] = a]
    /\ UNCHANGED <<calls, req, run, out>>

Next == \E c \in Callers :
    \/ Ask(c) \/ Admit(c) \/ Emit(c) \/ StartOver(c)
    \/ \E a \in {"success", "failure"} : Answer(c, a)

Spec == Init /\ [][Next]_vars
=============================================================================
