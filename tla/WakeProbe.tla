------------------------------ MODULE WakeProbe ------------------------------
(****************************************************************************)
(* The loop of cmd/wakeprobe: every candidate key is sent on an Android TV  *)
(* session of its own, short or as the two halves of a long press, and the  *)
(* power state is polled after each.  A key that was pressed and not        *)
(* released stays held on the television.                                   *)
(****************************************************************************)
EXTENDS Naturals, Sequences, FiniteSets

CONSTANTS
    Setups,      \* command lines
    Flags,       \* their flags; codes is the list of keys of the mode
    None,
    MaxResumes,  \* bound: times the operator goes on after an end
    MaxUnreal,   \* bound: samples that do not show the power
    MaxUnderway  \* bound: keys on their way, or lost, at once

\* Assumed of the constants by the module that instantiates this one.
WakeProbeAssumption ==
    /\ DOMAIN Flags = Setups
    /\ \A s \in Setups : /\ Len(Flags[s].codes) \in Nat
                        /\ Flags[s].startAt \in Nat /\ Flags[s].limit \in Nat
    /\ MaxResumes \in Nat /\ MaxUnreal \in Nat /\ MaxUnderway \in Nat

VARIABLES
    setup, startAt,  \* the command line, and its start-at from run to run
    step,            \* where the loop is
    pos,             \* position in the whole list of the attempt at hand
    sample,          \* the last sample of the polling
    reply,           \* outcome of the send: "error" or "quiet"
    logged,          \* index in the last line of the log
    power,           \* of the television
    resumes, unreal,
    held,            \* keys the television was told to hold
    underway,        \* keys that were written and have not arrived, by run and
                     \* position; one that is lost stays here
    unsure           \* keys whose last release reported an error, or whose press
                     \* came late and may have met its release (history)

runVars == <<setup, startAt, resumes>>
heldVars == <<held, underway, unsure>>
vars == <<runVars, step, pos, sample, reply, logged, power, unreal, heldVars>>

\* The host and the credentials have to be known.
Configured(f) == f.host /\ f.credentials

\* Every key in every direction, the directions innermost.
Each(codes, directions) ==
    LET n == Len(directions)
    IN  [i \in 1 .. Len(codes) * n |->
            <<codes[((i - 1) \div n) + 1], directions[((i - 1) % n) + 1]>>]

\* Mutant for HeldKeyHasCause: the halves of a long press change places.
EndsFirst(codes, withLong) ==
    Each(codes, IF withLong THEN <<"SHORT", "END_LONG", "START_LONG">> ELSE <<"SHORT">>)

\* Every key short, and with long presses in two messages as well; a mode that
\* is unknown has no list.
candidateAttempts(codes, withLong) ==
    Each(codes, IF withLong THEN <<"SHORT", "START_LONG", "END_LONG">> ELSE <<"SHORT">>)

Candidates == [s \in Setups |-> candidateAttempts(Flags[s].codes, Flags[s].withLong)]
Count == [s \in Setups |-> Len(Candidates[s])]
Key(i) == Candidates[setup][i][1]
Direction(i) == Candidates[setup][i][2]

Init ==
    /\ setup \in Setups /\ startAt = Flags[setup].startAt
    /\ step = "start" /\ pos = 0 /\ sample = None /\ reply = None
    /\ logged = 0 /\ power \in {"on", "off"} /\ resumes = 0 /\ unreal = 0
    /\ held = {} /\ underway = {} /\ unsure = {}

samplePowerState ==
    {power} \cup IF unreal < MaxUnreal THEN {"error", "no power"} ELSE {}
Counted(s) == IF s \in {"on", "off"} THEN unreal ELSE unreal + 1

\* The command line is incomplete, or the log cannot be opened.
Refuse ==
    /\ step = "start" /\ step' = "refused"
    /\ UNCHANGED <<runVars, pos, sample, reply, logged, power, unreal, heldVars>>

\* The log is emptied before the list is looked at.
PastEnd ==
    /\ step = "start" /\ Configured(Flags[setup])
    /\ Count[setup] = 0 \/ (startAt > 0 /\ startAt >= Count[setup])
    /\ step' = "refused" /\ logged' = 0
    /\ UNCHANGED <<runVars, pos, sample, reply, power, unreal, heldVars>>

LastPos ==
    LET n == Flags[setup].limit
    IN  IF n > 0 /\ startAt + n < Count[setup] THEN startAt + n ELSE Count[setup]

Begin ==
    /\ step = "start" /\ Configured(Flags[setup]) /\ startAt < Count[setup]
    /\ logged' = 0 /\ pos' = startAt + 1 /\ step' = "before"
    /\ UNCHANGED <<runVars, sample, reply, power, unreal, heldVars>>

\* The sample before the key only goes to the log: nothing depends on it.
SampleBefore ==
    /\ step = "before" /\ step' = "send"
    /\ \E s \in samplePowerState : unreal' = Counted(s)
    /\ UNCHANGED <<runVars, pos, sample, reply, logged, power, heldVars>>

\* A key that arrives may switch the television.
Arrives(k, direction) ==
    /\ power' \in {"on", "off"}
    /\ held' = CASE direction = "START_LONG" -> held \cup {k}
                 [] direction = "END_LONG" -> held \ {k}
                 [] OTHER -> held

\* The dial or the write may fail.  A write that went out may be followed by an
\* error of the reader, and one that reports none has only been taken by the
\* kernel: the key may come late or never.
sendAttempt ==
    /\ step = "send" /\ step' = "poll"
    /\ reply' \in {"error", "quiet"}
    /\ \/ /\ Arrives(Key(pos), Direction(pos)) /\ UNCHANGED underway
          /\ unsure' = IF Direction(pos) = "END_LONG" THEN unsure \ {Key(pos)}
                       ELSE unsure
       \/ /\ \/ reply' = "error" /\ UNCHANGED underway
             \/ /\ Cardinality(underway) < MaxUnderway
                /\ underway' = underway \cup {<<resumes, pos>>}
          /\ unsure' = IF reply' = "error" /\ Direction(pos) = "END_LONG"
                       THEN unsure \cup {Key(pos)} ELSE unsure
          /\ UNCHANGED <<power, held>>
    /\ UNCHANGED <<runVars, pos, sample, logged, unreal>>

\* Every attempt has a session of its own, so a late key may come after others.
LateKey ==
    /\ \E m \in underway :
          LET k == Key(m[2])  direction == Direction(m[2]) IN
          /\ underway' = underway \ {m}
          /\ Arrives(k, direction)
          /\ unsure' = CASE direction = "START_LONG" -> unsure \cup {k}
                         [] direction = "END_LONG" -> unsure \ {k}
                         [] OTHER -> unsure
    /\ UNCHANGED <<runVars, step, pos, sample, reply, logged, unreal>>

\* Until a sample shows power, or the deadline; to look again is stuttering.
pollForWake ==
    /\ step = "poll" /\ step' = "log"
    /\ \E s \in samplePowerState : sample' = s /\ unreal' = Counted(s)
    /\ UNCHANGED <<runVars, pos, reply, logged, power, heldVars>>

\* Also when the television was on before the key.
Woke == sample = "on"
Stops == reply # "error" /\ Woke /\ Flags[setup].stopOnWake

Finish ==
    /\ step = "log"
    /\ logged' \in {logged, pos - startAt}
    /\ IF Stops THEN step' = "stopped" /\ UNCHANGED <<pos, sample, reply>>
       ELSE /\ sample' = None /\ reply' = None
            /\ IF pos = LastPos THEN step' = "done" /\ UNCHANGED pos
               ELSE step' = "before" /\ pos' = pos + 1
    /\ UNCHANGED <<runVars, power, unreal, heldVars>>

Interrupt ==
    /\ step \in {"before", "send", "poll", "log"} /\ step' = "killed"
    /\ UNCHANGED <<runVars, pos, sample, reply, logged, power, unreal, heldVars>>

Resume ==
    /\ step \in {"killed", "stopped", "done"} /\ resumes < MaxResumes
    /\ resumes' = resumes + 1 /\ startAt' = startAt + logged
    /\ step' = "start" /\ sample' = None /\ reply' = None
    /\ UNCHANGED <<setup, pos, logged, power, unreal, heldVars>>

Next ==
    \/ Refuse \/ PastEnd \/ Begin \/ SampleBefore \/ sendAttempt \/ LateKey
    \/ pollForWake \/ Finish \/ Interrupt \/ Resume

Spec == Init /\ [][Next]_vars

-----------------------------------------------------------------------------
(* Properties *)

\* A release of k that was written and has not arrived.
ReleaseUnderway(k) ==
    \E m \in underway : Key(m[2]) = k /\ Direction(m[2]) = "END_LONG"

\* A key is left held only for a cause that the list or the connection has.  Its
\* release reported an error; it was reported as sent and is late or lost
\* (session.go:112, remote.go:94); the press came late and met its release; or
\* the list was left between the two halves of the long press, by a wake-up, the
\* limit or the operator.  One who goes on from the log after that has the
\* release among the keys that are still to come.
HeldKeyHasCause ==
    step \in {"killed", "stopped", "done"} =>
        \A k \in held :
            \/ k \in unsure
            \/ ReleaseUnderway(k)
            \/ k = Key(pos) /\ (Direction(pos) = "START_LONG" \/ step = "killed")
            \/ /\ resumes > 0
               /\ \E i \in pos + 1 .. Count[setup] :
                      Key(i) = k /\ Direction(i) = "END_LONG"
=============================================================================
