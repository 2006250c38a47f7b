----------------------------- MODULE SessionView -----------------------------
(****************************************************************************)
(* One connection as the goroutine that uses it may see it: whether it is   *)
(* ready, the power state last reported and whether an error was recorded.  *)
(* The connections of AndroidTVSender are of this kind; RemoteClient, with  *)
(* its reader, locks, frames and one-shot channels, is shown to implement   *)
(* it.  A closed connection shows nothing.                                  *)
(****************************************************************************)
VARIABLES open, ready, power, err

vars == <<open, ready, power, err>>

Init == open = TRUE /\ ready = FALSE /\ power = "unknown" /\ err = FALSE

Blank == ready' = FALSE /\ power' = "unknown" /\ err' = FALSE

\* The device finished the handshake and was answered.
Activate ==
    /\ open /\ ~err /\ ~ready
    /\ ready' = TRUE
    /\ UNCHANGED <<open, power, err>>

\* The report itself makes the connection ready, at once or a step later.
ReportPower ==
    /\ open /\ ~err
    /\ power' \in {"off", "on"}
    /\ ready' \in {ready, TRUE}
    /\ UNCHANGED <<open, err>>

\* Nothing is recorded after the first error.
Fail ==
    /\ open /\ ~err
    /\ err' = TRUE
    /\ UNCHANGED <<open, ready, power>>

Close ==
    /\ open /\ open' = FALSE
    /\ Blank

Next == Activate \/ ReportPower \/ Fail \/ Close

Spec == Init /\ [][Next]_vars
=============================================================================
