-------------------------------- MODULE Parts --------------------------------
(****************************************************************************)
(* Parts that share nothing with the others, side by side: a behaviour is   *)
(* one scan of the network, one use of nvprobe or wakeprobe, or one         *)
(* connection to the NVIDIA service.  The variables of the parts that do    *)
(* not run are None.                                                        *)
(****************************************************************************)
EXTENDS Discovery

CONSTANTS
    NvFlags, WakeFlags,  \* command lines of both probes, by name
    MaxResumes, MaxTouches, MaxUnreal, MaxUnderway,
    MaxUnframedSize, Sizes, Messages

VARIABLES
    part,  \* which one runs
    setup, startAt, writes, step, pos, ref, sample, reply, logged, power, late, resumes,
    touches, unreal, sent, unlogged, culprit, excused,
    held, underway, unsure,
    msgs, arrived, client, dump, since, hurt

NV == INSTANCE NvProbe WITH Setups <- DOMAIN NvFlags, Flags <- NvFlags
WK == INSTANCE WakeProbe WITH Setups <- DOMAIN WakeFlags, Flags <- WakeFlags

NS == INSTANCE NvidiaStream

ASSUME PartsAssumption ==
    NV!NvProbeAssumption /\ WK!WakeProbeAssumption /\ NS!NvidiaStreamAssumption

probeVars == <<setup, startAt, step, pos, sample, reply, logged, power, resumes, unreal>>
nvOnly == <<writes, ref, late, touches, sent, unlogged, culprit, excused>>
wkOnly == <<held, underway, unsure>>
nsVars == <<msgs, arrived, client, dump, since, hurt>>
partsVars == <<part, vars, probeVars, nvOnly, wkOnly, nsVars>>

NoProbe ==
    /\ setup = None /\ startAt = None /\ step = None /\ pos = None
    /\ sample = None /\ reply = None /\ logged = None /\ power = None
    /\ resumes = None /\ unreal = None
NoNv ==
    /\ writes = None /\ ref = None /\ late = None /\ touches = None /\ sent = None
    /\ unlogged = None /\ culprit = None /\ excused = None
NoWk == held = None /\ underway = None /\ unsure = None
NoNs ==
    /\ msgs = None /\ arrived = None /\ client = None /\ dump = None
    /\ since = None /\ hurt = None

\* A scan that does not run stays at its start.
PartsInit ==
    /\ Init
    /\ \/ part = "scan" /\ NoProbe /\ NoNv /\ NoWk /\ NoNs
       \/ part = "nvprobe" /\ NV!Init /\ NoWk /\ NoNs
       \/ part = "wakeprobe" /\ WK!Init /\ NoNv /\ NoNs
       \/ part = "stream" /\ NS!Init /\ NoProbe /\ NoNv /\ NoWk

PartsNext ==
    \/ part = "scan" /\ Next /\ UNCHANGED <<part, probeVars, nvOnly, wkOnly, nsVars>>
    \/ part = "nvprobe" /\ NV!Next /\ UNCHANGED <<part, vars, wkOnly, nsVars>>
    \/ part = "wakeprobe" /\ WK!Next /\ UNCHANGED <<part, vars, nvOnly, nsVars>>
    \/ /\ part = "stream" /\ NS!Next
       /\ UNCHANGED <<part, vars, probeVars, nvOnly, wkOnly>>

PartsSpec == PartsInit /\ [][PartsNext]_partsVars

-----------------------------------------------------------------------------
(* The properties of the probes and of the stream, where they run *)

\* NvProbe: the attempt that is blamed did it.
BlameIsRight == part = "nvprobe" => NV!BlameIsRight

\* NvProbe: interrupted and resumed, every attempt is made.
ResumeCoversAll == part = "nvprobe" => NV!ResumeCoversAll

\* NvProbe and ProbeAttempts: the list is complete and without repetitions.
GuessesAreSound == part = "nvprobe" => NV!GuessesAreSound

\* WakeProbe: what is left held has a cause.
HeldKeyHasCause == part = "wakeprobe" => WK!HeldKeyHasCause

\* NvidiaStream: the messages of the stream come out as they went in.
StreamIsFaithful == part = "stream" => NS!StreamIsFaithful
=============================================================================
