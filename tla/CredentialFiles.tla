--------------------------- MODULE CredentialFiles ---------------------------
(****************************************************************************)
(* The credential files of both protocols, which share nothing: a behaviour *)
(* pairs and sends over the NVIDIA protocol, or pairs and loads for the     *)
(* Android TV one.  The variables of the other one rest.                    *)
(****************************************************************************)
EXTENDS BeyonderPairing

CONSTANTS
    AtvPairs,   \* certificates with their keys for the Android TV protocol
    Old,        \* those that older versions have left behind
    NumDirs,    \* directories searched
    None        \* what a variable of the other protocol is

VARIABLES protocol, made, trusts, saved, op, dir, part, seen

ATV == INSTANCE Credentials WITH Pairs <- AtvPairs

ASSUME CredentialFilesAssumption == ATV!CredentialsAssumption

nvOnly == <<idFile, issued, id, hadPair, usedIds, stored, idClash>>
atvOnly == <<made, trusts, saved, op, dir, part, seen>>
allVars == <<protocol, vars, atvOnly>>

\* What only BeyonderPairing has stays as it was before the first pairing.
NoNv == /\ idFile = Absent /\ issued = {} /\ id = [p \in Procs |-> Absent]
        /\ hadPair = [p \in Procs |-> FALSE] /\ usedIds = {} /\ stored = Absent
        /\ idClash = FALSE
NoAtv == /\ made = None /\ trusts = None /\ saved = None /\ op = None
         /\ dir = None /\ part = None /\ seen = None

FilesInit ==
    \/ protocol = "nvidia" /\ Init /\ NoAtv
    \/ protocol = "androidtv" /\ ATV!Init /\ NoNv

FilesNext ==
    \/ protocol = "nvidia" /\ Next /\ UNCHANGED <<protocol, atvOnly>>
    \/ protocol = "androidtv" /\ ATV!Next /\ UNCHANGED <<protocol, nvOnly>>

FilesSpec == FilesInit /\ [][FilesNext]_allVars

-----------------------------------------------------------------------------
(* The properties of Credentials, where it is used; those of BeyonderPairing *)
(* hold as long as nothing happens to its variables.                         *)

\* Credentials: certificate and key are of one pair.
NoMixedPair == protocol = "androidtv" => ATV!NoMixedPair

\* Credentials: what the television trusts stays.
TrustedPairStays == protocol = "androidtv" => ATV!TrustedPairStays

\* Credentials: half a pair has a cause.
AlarmHasCause == protocol = "androidtv" => ATV!AlarmHasCause
=============================================================================
