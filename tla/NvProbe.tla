------------------------------- MODULE NvProbe -------------------------------
(****************************************************************************)
(* The loop of cmd/nvprobe: every guess of ProbeAttempts is written to the  *)
(* NVIDIA service on a connection of its own, after each the power state is *)
(* polled over the Android TV protocol, and the first change is taken for   *)
(* the effect of the guess.  The operator may interrupt it and go on later  *)
(* with start-at, by the last index in the log; the television may act      *)
(* late, and somebody else may use it.                                      *)
(****************************************************************************)
EXTENDS ProbeAttempts

CONSTANTS
    Setups,      \* command lines
    Flags,       \* their flags
    None,
    MaxResumes,  \* bound: times the operator goes on after an end
    MaxTouches,  \* bound: times somebody else switches the television
    MaxUnreal    \* bound: samples that do not show the power

\* Assumed of the constants by the module that instantiates this one.
NvProbeAssumption ==
    /\ DOMAIN Flags = Setups
    /\ None \notin {"on", "off", "refused", "timed out", "no power"}
    /\ \A s \in Setups : Flags[s].startAt \in Nat /\ Flags[s].limit \in Nat
    /\ MaxResumes \in Nat /\ MaxTouches \in Nat /\ MaxUnreal \in Nat

VARIABLES
    setup,    \* the command line
    startAt,  \* its start-at, which changes from run to run
    writes,   \* the list it has built, as the number of writes of each attempt
    step,     \* where the loop is
    pos,      \* position in the whole list of the attempt at hand
    ref,      \* the baseline
    sample,   \* the last sample of the polling
    reply,    \* outcome of the send: "error", "quiet" or "response"
    logged,   \* index in the last line of the log, 0 when it is empty
    power,    \* of the television: "on" or "off"
    late,     \* attempts whose effect is still to come
    resumes, touches, unreal,
    sent,     \* times each attempt was made (history)
    unlogged, \* attempts made that left no line (history)
    culprit,  \* what switched the television last (history)
    excused   \* a cause the loop cannot see, since the baseline (history)

runVars == <<setup, startAt, writes, resumes>>
tvVars == <<power, late, culprit, excused>>
vars == <<runVars, step, pos, ref, sample, reply, logged, tvVars, touches, unreal,
          sent, unlogged>>

Attempts == [s \in Setups |->
    IF parseConfig(Flags[s]) THEN buildAttempts(Parsed(Flags[s])) ELSE <<>>]

Init ==
    /\ setup \in Setups /\ startAt = Flags[setup].startAt /\ writes = <<>>
    /\ step = "start" /\ pos = 0 /\ ref = None /\ sample = None /\ reply = None
    /\ logged = 0 /\ power \in {"on", "off"} /\ late = {}
    /\ resumes = 0 /\ touches = 0 /\ unreal = 0
    /\ sent = [i \in 1 .. Len(Attempts[setup]) |-> 0] /\ unlogged = {}
    /\ culprit = None /\ excused = FALSE

Opposite == IF power = "on" THEN "off" ELSE "on"

\* A session that fails, or has had no power message in time, shows no power;
\* errors are told apart by their text.
Real == {"on", "off"}
samplePowerState ==
    {power} \cup
    IF unreal < MaxUnreal THEN {"refused", "timed out", "no power"} ELSE {}
Counted(s) == IF s \in Real THEN unreal ELSE unreal + 1

-----------------------------------------------------------------------------
(* The start *)

\* The command line is wrong, or the log cannot be opened.
Refuse ==
    /\ step = "start" /\ step' = "refused"
    /\ UNCHANGED <<runVars, pos, ref, sample, reply, logged, tvVars, touches,
                   unreal, sent, unlogged>>

\* The log is emptied and the baseline taken before start-at is looked at.
PastEnd ==
    /\ step = "start" /\ parseConfig(Flags[setup])
    /\ startAt > 0 /\ startAt >= Len(Attempts[setup])
    /\ step' = "refused" /\ logged' = 0
    /\ UNCHANGED <<runVars, pos, ref, sample, reply, tvVars, touches, unreal, sent,
                   unlogged>>

\* Mutant for ResumeCoversAll: start-at is taken for a 1-based position.
FirstPosCounted == IF startAt > 0 THEN startAt ELSE 1

FirstPos == startAt + 1
LastPos ==
    LET n == Flags[setup].limit
    IN  IF n > 0 /\ startAt + n < Len(writes) THEN startAt + n ELSE Len(writes)

Begin ==
    /\ step = "start" /\ parseConfig(Flags[setup])
    /\ writes' = Mapped(LAMBDA a : Len(Payloads(a)), Attempts[setup])
    /\ startAt = 0 \/ startAt < Len(writes')
    /\ logged' = 0 /\ pos' = FirstPos
    /\ IF Flags[setup].monitor
       THEN \E s \in samplePowerState : ref' = s /\ unreal' = Counted(s)
       ELSE ref' = None /\ unreal' = unreal
    /\ step' = IF pos' > Len(writes') THEN "done" ELSE "send"
    /\ UNCHANGED <<setup, startAt, resumes, sample, reply, tvVars, touches, sent, unlogged>>

-----------------------------------------------------------------------------
(* One attempt *)

\* How many of its n messages the connection takes, and what comes of it: the
\* first answer ends the sending, also when the message is still to come.
Sends(n) ==
    [result : {"error"}, written : 0 .. n]
    \cup [result : {"quiet"}, written : {n}]
    \cup [result : {"response"}, written : 1 .. n]

\* What was written may switch the television, at once or later.
sendTLS ==
    /\ step = "send" /\ step' = "poll"
    /\ sent' = [sent EXCEPT ![pos] = @ + 1]
    /\ \E o \in Sends(writes[pos]) :
           /\ reply' = o.result
           /\ \/ UNCHANGED tvVars
              \/ /\ o.written > 0 /\ power' = Opposite /\ culprit' = pos
                 /\ excused' = (excused \/ o.result = "error")
                 /\ UNCHANGED late
              \/ /\ o.written > 0 /\ late' = late \cup {pos}
                 /\ UNCHANGED <<power, culprit, excused>>
    /\ UNCHANGED <<runVars, pos, ref, sample, logged, touches, unreal, unlogged>>

stateChanged == sample # None /\ sample # ref

\* The loop ends with the first sample that differs, or at the deadline; to
\* look again after an equal one changes nothing and is stuttering.
pollForStateChange ==
    /\ step = "poll" /\ step' = "log"
    /\ IF Flags[setup].monitor
       THEN \E s \in samplePowerState : sample' = s /\ unreal' = Counted(s)
       ELSE sample' = None /\ unreal' = unreal
    /\ UNCHANGED <<runVars, pos, ref, reply, logged, tvVars, touches, sent, unlogged>>

\* Mutant for BlameIsRight: an answer is reported before a change is.
StopsUnlessAnswered ==
    reply = "quiet" /\ stateChanged /\ Flags[setup].stopOnChange

\* A failed send is reported before a change, and goes on in spite of it.
Stops == reply # "error" /\ stateChanged /\ Flags[setup].stopOnChange

\* The line is written, or lost with a warning; its index counts from start-at.
Finish ==
    /\ step = "log"
    /\ \/ logged' = pos - startAt /\ UNCHANGED unlogged
       \/ unlogged' = unlogged \cup {pos} /\ UNCHANGED logged
    /\ IF Stops THEN step' = "stopped" /\ UNCHANGED <<pos, sample, reply>>
       ELSE /\ sample' = None /\ reply' = None
            /\ IF pos = LastPos THEN step' = "done" /\ UNCHANGED pos
               ELSE step' = "send" /\ pos' = pos + 1
    /\ UNCHANGED <<runVars, ref, tvVars, touches, unreal, sent>>

-----------------------------------------------------------------------------
(* The operator, the television and its other users *)

Interrupt ==
    /\ step \in {"send", "poll", "log"} /\ step' = "killed"
    /\ unlogged' = IF step = "send" THEN unlogged ELSE unlogged \cup {pos}
    /\ sample' = None /\ reply' = None
    /\ UNCHANGED <<runVars, pos, ref, logged, tvVars, touches, unreal, sent>>

Resume ==
    /\ step \in {"killed", "stopped", "done"} /\ resumes < MaxResumes
    /\ resumes' = resumes + 1 /\ startAt' = startAt + logged
    /\ step' = "start" /\ ref' = None /\ sample' = None /\ reply' = None
    /\ culprit' = None /\ excused' = FALSE
    /\ UNCHANGED <<setup, writes, pos, logged, power, late, touches, unreal, sent,
                   unlogged>>

Late ==
    /\ \E i \in late : late' = late \ {i}
    /\ power' = Opposite /\ culprit' = None /\ excused' = TRUE
    /\ UNCHANGED <<runVars, step, pos, ref, sample, reply, logged, touches, unreal,
                   sent, unlogged>>

Touch ==
    /\ touches < MaxTouches /\ touches' = touches + 1
    /\ power' = Opposite /\ culprit' = None /\ excused' = TRUE
    /\ UNCHANGED <<runVars, step, pos, ref, sample, reply, logged, late, unreal,
                   sent, unlogged>>

Next ==
    \/ Refuse \/ PastEnd \/ Begin \/ sendTLS \/ pollForStateChange \/ Finish
    \/ Interrupt \/ Resume \/ Late \/ Touch

Spec == Init /\ [][Next]_vars

-----------------------------------------------------------------------------
(* Properties *)

\* The attempt at which the probe stops is the one that switched the
\* television, although the baseline is never taken again: unless one of the
\* two samples does not show the power, somebody else used the television, an
\* attempt acted late, or one whose send failed has acted.
BlameIsRight ==
    step = "stopped" /\ ref \in Real /\ sample \in Real /\ ~excused
        => culprit = pos

\* Going on with start-at, by the index of the last line of the log, leaves no
\* attempt out, and repeats only one whose line was lost.
ResumeCoversAll ==
    step \notin {"start", "refused"} =>
        \A i \in DOMAIN sent :
            /\ Flags[setup].startAt < i /\ i < pos => sent[i] > 0
            /\ sent[i] > 1 => i \in unlogged

\* The list has every envelope whose tags differ, no two attempts that write
\* the same (but for a special payload under tag 0, which is not written), and
\* each message reads back to what was meant, with no tag twice.
GuessesAreSound ==
    step = "start" /\ resumes = 0 /\ parseConfig(Flags[setup]) =>
        LET c == Parsed(Flags[setup])
            lost(a) == a.tag = 0 /\ a.payload # <<>>
            list == SelectSeq(Attempts[setup], LAMBDA a : ~lost(a))
            means(a) ==
                << <<a.svcTag, <<a.svc>> >>, <<a.cmdTag, <<a.cmd>> >> >>
                \o IF a.tag = 0 THEN <<>> ELSE << <<a.tag, a.payload>> >>
            payloadTags(s, t) ==
                IF c.mode = "empty" THEN {0}
                ELSE {p \in ToSet(c.ints.payloadTags) : p > 0} \ {s, t}
        IN  /\ Cardinality({<<a.frame, Payloads(a)>> : a \in ToSet(list)}) = Len(list)
            /\ {<<a.frame, a.svcTag, a.cmdTag, a.svc, a.cmd, a.tag>> : a \in ToSet(list)}
               = {t \in ToSet(c.frames) \X ToSet(c.ints.serviceTags)
                        \X ToSet(c.ints.commandTags) \X ToSet(c.ints.serviceIDs)
                        \X ToSet(c.ints.commandIDs)
                        \X (ToSet(c.ints.payloadTags) \cup {0}) :
                      t[2] # t[3] /\ t[6] \in payloadTags(t[2], t[3])}
            /\ \A a \in ToSet(list) :
                   /\ ReadBack(buildMessage(a)) = means(a) /\ NoTagTwice(buildMessage(a))
                   /\ a.payload # <<>> => NoTagTwice(a.payload)
=============================================================================
