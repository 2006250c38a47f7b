------------------------ MODULE CredentialFiles_proofs ------------------------
(****************************************************************************)
(* For every number of processes, pairs, ids, directories and operations.   *)
(* Of the NVIDIA files: a paired remote does not fall back to the other     *)
(* protocol, the pair stored last is whole and known to the SHIELD, and     *)
(* there is one device id.  Of the Android TV files: certificate and key    *)
(* are of one pair, the pair that a television trusts stays, and half a     *)
(* pair has a cause.                                                        *)
(****************************************************************************)
EXTENDS CredentialFiles, FiniteSetTheorems, TLAPS

-----------------------------------------------------------------------------
(* The files of the NVIDIA protocol *)

\* What a process at some step has in hand, and what it has already written.
InHand ==
    \A p \in Procs :
        /\ Saving(p) => buf[p] \in Pairs /\ buf[p] \in issued
        /\ pc[p] \in {"openId", "writeId", "request"} => id[p] \in Ids
        /\ pc[p] \in {"writeKey", "openCert", "writeCert"} => file.key # Absent
        /\ pc[p] = "writeCert" => file.cert # Absent

\* Files are never removed, so that one who started with a stored pair finds
\* both.
Remembered ==
    /\ stored # Absent => file.key # Absent /\ file.cert # Absent /\ stored \in issued
    /\ \A p \in Procs : hadPair[p] => stored # Absent /\ result[p] # "fallback"

\* Undisturbed, the one that saves has written the key before the certificate.
Alone(Doing(_)) == \A p, q \in Procs : Doing(p) /\ Doing(q) => p = q

Undisturbed == ~cut /\ clash # "write"

Storing ==
    /\ clash # "write" => Alone(Saving)
    /\ Undisturbed =>
          /\ \A p \in Procs : pc[p] \in {"openCert", "writeCert"} => file.key = buf[p]
          /\ stored # Absent /\ (\A p \in Procs : ~Saving(p)) =>
                file.cert = stored /\ file.key = stored

\* The id in the file is the only one that is used; it is created once.
OneId ==
    ~idClash =>
        /\ Alone(Creating)
        /\ \A p \in Procs : Creating(p) => idFile \notin Ids
        /\ \A p \in Procs : pc[p] = "request" => id[p] = idFile
        /\ usedIds \subseteq {idFile} \cap Ids

IInv == TypeOK /\ InHand /\ Remembered /\ Storing /\ OneId

-----------------------------------------------------------------------------
LEMMA Initially == Init => IInv
<1>. SUFFICES ASSUME Init PROVE IInv
  OBVIOUS
<1>1. TypeOK
  <2>1. 0 \in 0 .. MaxOps /\ file \in [{"key", "cert"} -> Pairs \cup {Absent, Torn}]
    BY BeyonderPairingAssumption DEF Init
  <2>. QED
    BY <2>1 DEF Init, TypeOK
<1>2. InHand /\ Remembered /\ OneId
  BY BeyonderPairingAssumption DEF Init, InHand, Remembered, OneId, Saving, Creating, Alone
<1>3. Storing
  BY DEF Init, Storing, Undisturbed, Saving, Alone
<1>. QED
  BY <1>1, <1>2, <1>3 DEF IInv

\* What Watch notes.
LEMMA Watched ==
    ASSUME IInv, Watch
    PROVE  /\ clash' \in {"no", "read", "write"} /\ idClash' \in BOOLEAN
           /\ clash' # "write" => clash # "write" /\ Alone(Saving)'
           /\ ~idClash' => ~idClash /\ Alone(Creating)'
BY DEF Watch, Together, Alone, IInv, TypeOK

-----------------------------------------------------------------------------
(* Steps that leave the files and the SHIELD alone *)

Steps == {"idle", "hello", "readId", "openId", "writeId", "request", "openKey",
          "writeKey", "openCert", "writeCert", "confirm", "readCert", "readKey",
          "connect"}

\* A process goes on, returns or dies; one that dies while it saves is noted.
Moves(p) ==
    /\ pc' \in [Procs -> Steps]
    /\ pc'[p] \in {"idle", "readId", "readKey", "connect"}
    /\ buf' \in [Procs -> Pairs \cup {Absent, Torn}]
    /\ \A q \in Procs \ {p} : pc'[q] = pc[q] /\ buf'[q] = buf[q]
    /\ result' \in [Procs -> {"none", "authorized", "failed", "paired", "fallback",
                              "broken", "sent", "notPaired"}]
    /\ \A q \in Procs : hadPair[q] => result'[q] # "fallback"
    /\ cut' \in BOOLEAN /\ (cut \/ Saving(p) => cut')
    /\ UNCHANGED <<file, idFile, issued, ops, id, hadPair, usedIds, stored>>

LEMMA MoveKeeps == ASSUME IInv, Watch, NEW p \in Procs, Moves(p) PROVE IInv'
<1>. USE DEF Moves
<1>1. TypeOK'
  BY Watched DEF IInv, TypeOK, Steps
<1>. USE DEF IInv, TypeOK
<1>2. InHand'
  BY DEF InHand, Saving
<1>3. Remembered'
  BY DEF Remembered
<1>4. Storing'
  BY Watched DEF Storing, Undisturbed, Saving
<1>5. OneId'
  BY Watched DEF OneId, Creating
<1>. QED
  BY <1>1, <1>2, <1>3, <1>4, <1>5

LEMMA BeginKeeps == ASSUME IInv, Watch, NEW p \in Procs, Begin(p) PROVE IInv'
<1>. USE DEF IInv, TypeOK, Locals, Begin, At, Set, Files
<1>1. TypeOK'
  BY Watched, BeyonderPairingAssumption
<1>2. InHand'
  BY DEF InHand, Saving
<1>3. Remembered'
  BY DEF Remembered
<1>4. Storing'
  BY Watched DEF Storing, Undisturbed, Saving
<1>5. OneId'
  BY Watched DEF OneId, Creating
<1>. QED
  BY <1>1, <1>2, <1>3, <1>4, <1>5

LEMMA HelloKeeps == ASSUME IInv, Watch, NEW p \in Procs, Hello(p) PROVE IInv'
<1>1. Moves(p)
  BY DEF Hello, Moves, Steps, Set, At, Goto, End, Files, Locals, Notes, IInv, TypeOK,
         Remembered, Saving
<1>. QED
  BY <1>1, MoveKeeps

\* Steps of a press, and the end of a pairing or of the process.
LEMMA PressKeeps == ASSUME IInv, Watch, NEW p \in Procs, Press(p) PROVE IInv'
<1>. USE DEF Moves, Steps, IInv, TypeOK, Remembered, Set, At, Goto, End, Files,
             Locals, Notes, Saving
<1>. SUFFICES Moves(p)
  BY MoveKeeps
<1>1. CASE NoCredentials(p)
  BY <1>1 DEF NoCredentials
<1>2. CASE ReadCert(p)
  BY <1>2 DEF ReadCert
<1>3. CASE ReadKey(p)
  BY <1>3 DEF ReadKey
<1>4. CASE LoadFails(p)
  BY <1>4 DEF LoadFails
<1>5. CASE Connect(p)
  BY <1>5 DEF Connect
<1>. QED
  BY <1>1, <1>2, <1>3, <1>4, <1>5 DEF Press

LEMMA EndKeeps ==
    ASSUME IInv, Watch, NEW p \in Procs, Confirm(p) \/ WriteFails(p) \/ Crash(p)
    PROVE  IInv'
<1>. USE DEF Moves, Steps, IInv, TypeOK, Remembered, Set, At, End, Files, Locals,
             Notes, Saving, Writing
<1>. SUFFICES Moves(p)
  BY MoveKeeps
<1>1. CASE Confirm(p)
  BY <1>1 DEF Confirm
<1>2. CASE WriteFails(p)
  BY <1>2 DEF WriteFails
<1>3. CASE Crash(p)
  BY <1>3 DEF Crash
<1>. QED
  BY <1>1, <1>2, <1>3

-----------------------------------------------------------------------------
(* The device id and the request *)

LEMMA ReadIdKeeps == ASSUME IInv, Watch, NEW p \in Procs, ReadId(p) PROVE IInv'
<1>. USE DEF IInv, TypeOK, Locals, ReadId, Notes, At, Goto, End, Set, Files
<1>1. TypeOK'
  BY Watched
<1>2. InHand'
  BY BeyonderPairingAssumption DEF InHand, Saving
<1>3. Remembered'
  BY BeyonderPairingAssumption DEF Remembered, InHand, Saving
<1>4. Storing'
  BY Watched DEF Storing, Undisturbed, Saving, Alone
<1>5. OneId'
  BY Watched, BeyonderPairingAssumption DEF OneId, Creating, InHand
<1>. QED
  BY <1>1, <1>2, <1>3, <1>4, <1>5

LEMMA OpenIdKeeps == ASSUME IInv, Watch, NEW p \in Procs, OpenId(p) PROVE IInv'
<1>. USE DEF IInv, TypeOK, Locals, OpenId, Notes, At, Goto, End, Set, Files
<1>1. TypeOK'
  BY Watched
<1>2. InHand'
  BY BeyonderPairingAssumption DEF InHand, Saving
<1>3. Remembered'
  BY BeyonderPairingAssumption DEF Remembered, InHand, Saving
<1>4. Storing'
  BY Watched DEF Storing, Undisturbed, Saving, Alone
<1>5. OneId'
  BY Watched, BeyonderPairingAssumption DEF OneId, Creating, InHand, Alone
<1>. QED
  BY <1>1, <1>2, <1>3, <1>4, <1>5

LEMMA WriteIdKeeps == ASSUME IInv, Watch, NEW p \in Procs, WriteId(p) PROVE IInv'
<1>. USE DEF IInv, TypeOK, Locals, WriteId, Notes, At, Goto, End, Set, Files
<1>1. TypeOK'
  BY Watched DEF InHand, Saving
<1>2. InHand'
  BY BeyonderPairingAssumption DEF InHand, Saving
<1>3. Remembered'
  BY BeyonderPairingAssumption DEF Remembered, InHand, Saving
<1>4. Storing'
  BY Watched DEF Storing, Undisturbed, Saving, Alone
<1>5. OneId'
  BY Watched, BeyonderPairingAssumption DEF OneId, Creating, InHand, Alone
<1>. QED
  BY <1>1, <1>2, <1>3, <1>4, <1>5

LEMMA RequestKeeps == ASSUME IInv, Watch, NEW p \in Procs, Request(p) PROVE IInv'
<1>. USE DEF IInv, TypeOK, Locals, Request, Notes, At, Goto, End, Set, Files
<1>1. TypeOK'
  BY Watched DEF InHand
<1>2. InHand'
  BY BeyonderPairingAssumption DEF InHand, Saving
<1>3. Remembered'
  BY BeyonderPairingAssumption DEF Remembered, InHand, Saving
<1>4. Storing'
  BY Watched DEF Storing, Undisturbed, Saving, Alone
<1>5. OneId'
  BY Watched, BeyonderPairingAssumption DEF OneId, Creating, InHand
<1>. QED
  BY <1>1, <1>2, <1>3, <1>4, <1>5

-----------------------------------------------------------------------------
(* The pair *)

LEMMA OpenKeyKeeps == ASSUME IInv, Watch, NEW p \in Procs, OpenKey(p) PROVE IInv'
<1>. USE DEF IInv, TypeOK, Locals, OpenKey, Open, Notes, At, Goto, End, Set, Files
<1>1. TypeOK'
  BY Watched
<1>2. InHand'
  BY BeyonderPairingAssumption DEF InHand, Saving
<1>3. Remembered'
  BY BeyonderPairingAssumption DEF Remembered, InHand, Saving
<1>4. Storing'
  BY Watched DEF Storing, Undisturbed, Saving, Alone
<1>5. OneId'
  BY Watched, BeyonderPairingAssumption DEF OneId, Creating, InHand
<1>. QED
  BY <1>1, <1>2, <1>3, <1>4, <1>5

LEMMA WriteKeyKeeps == ASSUME IInv, Watch, NEW p \in Procs, WriteKey(p) PROVE IInv'
<1>. USE DEF IInv, TypeOK, Locals, WriteKey, Notes, At, Goto, End, Set, Files
<1>1. TypeOK'
  BY Watched
<1>2. InHand'
  BY BeyonderPairingAssumption DEF InHand, Saving
<1>3. Remembered'
  BY BeyonderPairingAssumption DEF Remembered, InHand, Saving
<1>4. Storing'
  BY Watched DEF Storing, Undisturbed, Saving, Alone
<1>5. OneId'
  BY Watched, BeyonderPairingAssumption DEF OneId, Creating, InHand
<1>. QED
  BY <1>1, <1>2, <1>3, <1>4, <1>5

LEMMA OpenCertKeeps == ASSUME IInv, Watch, NEW p \in Procs, OpenCert(p) PROVE IInv'
<1>. USE DEF IInv, TypeOK, Locals, OpenCert, Open, Notes, At, Goto, End, Set, Files
<1>1. TypeOK'
  BY Watched
<1>2. InHand'
  BY BeyonderPairingAssumption DEF InHand, Saving
<1>3. Remembered'
  BY BeyonderPairingAssumption DEF Remembered, InHand, Saving
<1>4. Storing'
  BY Watched DEF Storing, Undisturbed, Saving, Alone
<1>5. OneId'
  BY Watched, BeyonderPairingAssumption DEF OneId, Creating, InHand
<1>. QED
  BY <1>1, <1>2, <1>3, <1>4, <1>5

LEMMA WriteCertKeeps == ASSUME IInv, Watch, NEW p \in Procs, WriteCert(p) PROVE IInv'
<1>. USE DEF IInv, TypeOK, Locals, WriteCert, At, Goto, End, Set, Files
<1>1. TypeOK'
  BY Watched DEF InHand, Saving
<1>2. InHand'
  BY BeyonderPairingAssumption DEF InHand, Saving
<1>3. Remembered'
  BY BeyonderPairingAssumption DEF Remembered, InHand, Saving
<1>4. Storing'
  BY Watched DEF Storing, Undisturbed, Saving, Alone
<1>5. OneId'
  BY Watched, BeyonderPairingAssumption DEF OneId, Creating, InHand
<1>. QED
  BY <1>1, <1>2, <1>3, <1>4, <1>5

-----------------------------------------------------------------------------
(* Results *)

LEMMA Inductive == IInv /\ [Next]_vars => IInv'
<1>. SUFFICES ASSUME IInv, [Next]_vars PROVE IInv'
  OBVIOUS
<1>1. ASSUME NEW p \in Procs, Watch, Begin(p) \/ Pairing(p) \/ Press(p) \/ Crash(p)
      PROVE  IInv'
  BY <1>1, BeginKeeps, HelloKeeps, PressKeeps, EndKeeps, ReadIdKeeps, OpenIdKeeps,
     WriteIdKeeps, RequestKeeps, OpenKeyKeeps, WriteKeyKeeps, OpenCertKeeps,
     WriteCertKeeps DEF Pairing
<1>2. CASE UNCHANGED vars
  BY <1>2 DEF vars, history, IInv, TypeOK, InHand, Remembered, Storing, Undisturbed,
              OneId, Alone, Saving, Creating
<1>. QED
  BY <1>1, <1>2 DEF Next

LEMMA Invariant == Spec => []IInv
BY Initially, Inductive, PTL DEF Spec

\* Every variable has its type.
THEOREM TypeCorrect == Spec => []TypeOK
<1>1. IInv => TypeOK
  BY DEF IInv
<1>. QED
  BY <1>1, Invariant, PTL

LEMMA Kept == IInv => FallbackOnlyUnpaired /\ StoredPairWorks /\ IdIsPersistent
<1>. SUFFICES ASSUME IInv PROVE FallbackOnlyUnpaired /\ StoredPairWorks /\ IdIsPersistent
  OBVIOUS
<1>1. FallbackOnlyUnpaired
  BY DEF IInv, Remembered, FallbackOnlyUnpaired
<1>2. StoredPairWorks
  BY DEF IInv, Remembered, Storing, Undisturbed, StoredPairWorks
<1>3. ASSUME ~idClash PROVE usedIds = {} \/ usedIds = {idFile}
  BY <1>3 DEF IInv, OneId
<1>4. IdIsPersistent
  <2>1. Cardinality({}) = 0 /\ Cardinality({idFile}) = 1
    BY FS_EmptySet, FS_Singleton
  <2>. QED
    BY <1>3, <2>1 DEF IdIsPersistent
<1>. QED
  BY <1>1, <1>2, <1>4

\* Once a pair is stored no press falls back to the Android TV protocol
\* (LoadCredentials, Sender.Send).
THEOREM NoFallback == Spec => []FallbackOnlyUnpaired
BY Invariant, Kept, PTL

\* The pair stored last is in both files and known to the SHIELD
\* (SaveCertificate, Pair).
THEOREM PairWorks == Spec => []StoredPairWorks
BY Invariant, Kept, PTL

\* The SHIELD sees one device id (LoadOrCreateDeviceID).
THEOREM PersistentId == Spec => []IdIsPersistent
BY Invariant, Kept, PTL

-----------------------------------------------------------------------------
(* The files of the Android TV protocol *)

Contents == AtvPairs \cup {Absent, Torn}
Filling == {"read", "truncate", "fill"}
Asking == {"dial", "start", "code", "ack", "save"}
PCs == {"idle", "stat", "generate", "open"} \cup Filling \cup Asking
Results == {"none", "outOfSync", "loaded", "notFound", "failed", "paired"}

FileTypes ==
    /\ file \in [ATV!Dirs -> [ATV!Parts -> Contents]]
    /\ made \subseteq AtvPairs /\ trusts \subseteq AtvPairs
    /\ pc \in [Procs -> PCs] /\ op \in [Procs -> {"load", "pair"}]
    /\ ops \in [Procs -> Nat] /\ dir \in [Procs -> ATV!Dirs] /\ part \in [Procs -> ATV!Parts]
    /\ seen \in [Procs -> BOOLEAN] /\ buf \in [Procs -> Contents]
    /\ result \in [Procs -> Results]
    /\ clash \in {"no", "read", "write"} /\ cut \in BOOLEAN

\* Nobody writes into the older directories.
OlderRest == \A d \in ATV!Dirs \ {1} : \E c \in Old \cup {Absent} : file[d] = ATV!Files(c)

\* What a process has in hand, whatever the others do.
Carries(p) ==
    /\ op[p] = "pair" => dir[p] = 1 /\ pc[p] # "read"
    /\ pc[p] \in {"generate", "open"} \cup Asking => op[p] = "pair"
    /\ pc[p] = "generate" => part[p] = "cert"
    /\ pc[p] \in Asking => buf[p] \in AtvPairs
    /\ pc[p] \in Filling /\ op[p] = "load" => dir[p] # 1 /\ file[dir[p]].cert \in AtvPairs
    /\ pc[p] \in {"truncate", "fill"} =>
          /\ buf[p] \in AtvPairs
          /\ op[p] = "load" => buf[p] = file[dir[p]].cert
    /\ pc[p] = "stat" /\ part[p] = "key" =>
          IF dir[p] = 1 THEN seen[p] => file[1].cert # Absent
          ELSE seen[p] <=> file[dir[p]].cert # Absent

WritesAlone == \A p, q \in Procs : ATV!Writing(p) /\ ATV!Writing(q) => p = q

\* The pair whose certificate the process has written.
Ours(p) == IF op[p] = "pair" THEN buf[p] ELSE file[dir[p]].cert

\* What the files hold for a process that is not disturbed.
Finds(p) ==
    /\ pc[p] \in {"generate", "read", "truncate"} /\ part[p] = "cert" =>
          file[1] = ATV!Files(Absent)
    /\ pc[p] = "stat" /\ dir[p] # 1 => file[1] = ATV!Files(Absent)
    /\ pc[p] = "stat" /\ part[p] = "key" /\ ~seen[p] => file[1].cert = Absent
    /\ pc[p] = "fill" /\ part[p] = "cert" => file[1].cert = Torn /\ file[1].key = Absent
    /\ pc[p] \in Filling /\ part[p] = "key" =>
          file[1].cert = Ours(p) /\ file[1].key = IF pc[p] = "fill" THEN Torn ELSE Absent
    /\ pc[p] = "open" /\ part[p] = "key" /\ buf[p] \in AtvPairs => file[1].cert = buf[p]
    /\ pc[p] \in Asking => file[1] = ATV!Files(buf[p])

NobodyWrites == \A p \in Procs : pc[p] \notin Filling

HoldOnePair ==
    clash # "write" =>
        /\ WritesAlone /\ \A p \in Procs : Finds(p)
        /\ ATV!NoMixedPair /\ ATV!TrustedPairStays
        /\ ~cut /\ NobodyWrites => file[1].cert = file[1].key

Unheard ==
    ~cut /\ clash = "no" =>
        /\ \A p, q \in Procs : ATV!Writing(p) /\ pc[q] \in {"stat", "open"} => p = q
        /\ \A p \in Procs : result[p] # "outOfSync"

FilesInv ==
    FileTypes /\ OlderRest /\ (\A p \in Procs : Carries(p)) /\ HoldOnePair /\ Unheard

-----------------------------------------------------------------------------
LEMMA FilesStart == ATV!Init => FilesInv
<1>. SUFFICES ASSUME ATV!Init PROVE FilesInv
  OBVIOUS
<1>. USE CredentialFilesAssumption DEF ATV!CredentialsAssumption
<1>1. 1 \in ATV!Dirs /\ \A c \in AtvPairs \cup {Absent} : ATV!Files(c) \in [ATV!Parts -> Contents]
  BY DEF ATV!Dirs, ATV!Files, Contents
<1>2. file \in [ATV!Dirs -> [ATV!Parts -> Contents]]
  BY <1>1 DEF ATV!Init
<1>3. FileTypes
  BY <1>1, <1>2 DEF ATV!Init, FileTypes, PCs, Results, ATV!Parts, Contents
<1>4. OlderRest
  <2>1. ASSUME NEW d \in ATV!Dirs PROVE \E c \in Old \cup {Absent} : file[d] = ATV!Files(c)
    BY DEF ATV!Init
  <2>. QED
    BY <2>1 DEF OlderRest
<1>5. \A p \in Procs : Carries(p) /\ Finds(p) /\ ~ATV!Writing(p) /\ pc[p] = "idle"
  BY DEF ATV!Init, Carries, Finds, ATV!Writing, Filling, Asking
<1>6. file[1].cert = Absent /\ file[1].key = Absent
  BY DEF ATV!Init, ATV!Files, ATV!Parts
<1>7. HoldOnePair
  BY <1>5, <1>6 DEF HoldOnePair, WritesAlone, ATV!NoMixedPair, ATV!TrustedPairStays, ATV!Init
<1>8. Unheard
  BY <1>5 DEF Unheard, ATV!Init
<1>. QED
  BY <1>3, <1>4, <1>5, <1>7, <1>8 DEF FilesInv

LEMMA AtvWatched ==
    ASSUME FilesInv, ATV!Watch
    PROVE  /\ clash' \in {"no", "read", "write"}
           /\ clash' # "write" => clash # "write" /\ WritesAlone'
           /\ clash' = "no" => clash = "no" /\
                 \A p, q \in Procs : ATV!Writing(p)' /\ pc'[q] \in {"stat", "open"} => p = q
BY DEF ATV!Watch, ATV!Together, WritesAlone, FilesInv, FileTypes

\* p goes on; the files of the other processes and the files stay.
GoesOn(p) ==
    /\ FileTypes' /\ file' = file
    /\ \A q \in Procs \ {p} : /\ pc'[q] = pc[q] /\ op'[q] = op[q] /\ dir'[q] = dir[q]
                              /\ part'[q] = part[q] /\ seen'[q] = seen[q]
                              /\ buf'[q] = buf[q] /\ result'[q] = result[q]
    /\ Carries(p)'
    /\ clash # "write" /\ clash' # "write" => Finds(p)'
    /\ cut => cut'
    /\ pc[p] \in Filling => pc'[p] \in Filling \/ cut'

LEMMA GoOnKeeps ==
    ASSUME FilesInv, ATV!Watch, NEW p \in Procs, GoesOn(p),
           clash' # "write" => ATV!TrustedPairStays',
           ~cut' /\ clash' = "no" => result'[p] # "outOfSync"
    PROVE  FilesInv'
<1>. USE DEF GoesOn
<1>1. OlderRest'
  BY DEF FilesInv, OlderRest
<1>2. ASSUME NEW q \in Procs PROVE Carries(q)'
  BY <1>2 DEF FilesInv, Carries
<1>3. HoldOnePair'
  <2>. SUFFICES ASSUME clash' # "write"
                PROVE  /\ WritesAlone' /\ \A q \in Procs : Finds(q)'
                       /\ ATV!NoMixedPair' /\ ATV!TrustedPairStays'
                       /\ ~cut' /\ NobodyWrites' => file'[1].cert = file'[1].key
    BY DEF HoldOnePair
  <2>1. clash # "write" /\ WritesAlone' /\ ATV!TrustedPairStays'
    BY AtvWatched
  <2>2. ASSUME NEW q \in Procs PROVE Finds(q)'
    BY <2>1, <2>2 DEF FilesInv, HoldOnePair, Finds, Ours
  <2>3. ATV!NoMixedPair'
    BY <2>1 DEF FilesInv, HoldOnePair, ATV!NoMixedPair
  <2>4. ~cut' /\ NobodyWrites' => ~cut /\ NobodyWrites
    BY DEF NobodyWrites
  <2>. QED
    BY <2>1, <2>2, <2>3, <2>4 DEF FilesInv, HoldOnePair
<1>4. Unheard'
  BY AtvWatched DEF FilesInv, Unheard
<1>. QED
  BY <1>1, <1>2, <1>3, <1>4 DEF FilesInv

-----------------------------------------------------------------------------
(* Steps that leave the files alone *)

\* The operation ends.
LEMMA EndsKeeps ==
    ASSUME FilesInv, ATV!Watch, NEW p \in Procs, NEW how \in Results, ATV!End(p, how),
           UNCHANGED <<file, made, trusts, op, ops, dir, part, seen, buf>>,
           cut' \in BOOLEAN, cut => cut', pc[p] \in Filling => cut',
           how = "outOfSync" => cut' \/ clash' # "no"
    PROVE  FilesInv'
<1>. USE DEF ATV!End, ATV!Set
<1>1. FileTypes'
  BY AtvWatched DEF FilesInv, FileTypes, PCs
<1>2. pc'[p] = "idle" /\ result'[p] = how
  BY DEF FilesInv, FileTypes
<1>3. GoesOn(p)
  BY <1>1, <1>2 DEF GoesOn, FilesInv, FileTypes, Carries, Finds, Filling, Asking
<1>4. clash' # "write" => ATV!TrustedPairStays'
  BY AtvWatched DEF FilesInv, HoldOnePair, ATV!TrustedPairStays
<1>. QED
  BY <1>2, <1>3, <1>4, GoOnKeeps

\* The operation goes on, and trusts nobody new.
LEMMA GoesOnKeeps ==
    ASSUME FilesInv, ATV!Watch, NEW p \in Procs, GoesOn(p),
           UNCHANGED <<trusts, result>> \/ result' = [result EXCEPT ![p] = "none"],
           trusts' = trusts
    PROVE  FilesInv'
<1>1. clash' # "write" => ATV!TrustedPairStays'
  BY AtvWatched DEF FilesInv, HoldOnePair, ATV!TrustedPairStays, GoesOn
<1>2. ~cut' /\ clash' = "no" => result'[p] # "outOfSync"
  BY AtvWatched DEF FilesInv, Unheard, GoesOn, FileTypes
<1>. QED
  BY <1>1, <1>2, GoOnKeeps

LEMMA BeginStep == ASSUME FilesInv, ATV!Watch, NEW p \in Procs, ATV!Begin(p) PROVE FilesInv'
<1>. USE DEF ATV!Begin, ATV!Goto, ATV!Set, ATV!tvVars, FilesInv, FileTypes
<1>1. 1 \in ATV!Dirs /\ ops'[p] \in Nat
  BY CredentialFilesAssumption DEF ATV!CredentialsAssumption, ATV!Dirs
<1>2. FileTypes'
  BY <1>1, AtvWatched DEF PCs, Results, ATV!Parts, Contents
<1>3. GoesOn(p)
  BY <1>2 DEF GoesOn, Carries, Finds, Filling, Asking
<1>. QED
  BY <1>3, GoesOnKeeps

\* An older directory holds a whole pair or nothing.
LEMMA OlderIs ==
    ASSUME FilesInv, NEW d \in ATV!Dirs, d # 1
    PROVE  /\ file[d].cert = file[d].key
           /\ file[d].cert = Absent \/ file[d].cert \in AtvPairs
<1>1. PICK c \in Old \cup {Absent} : file[d] = ATV!Files(c)
  BY DEF FilesInv, OlderRest
<1>. QED
  BY <1>1, CredentialFilesAssumption DEF ATV!CredentialsAssumption, ATV!Files, ATV!Parts

LEMMA CurrentIs ==
    ASSUME FilesInv, NEW c, file[1].cert = c, file[1].key = c
    PROVE  file[1] = ATV!Files(c)
<1>1. file[1] \in [ATV!Parts -> Contents]
  BY CredentialFilesAssumption DEF FilesInv, FileTypes, ATV!CredentialsAssumption, ATV!Dirs
<1>. QED
  BY <1>1 DEF ATV!Files, ATV!Parts

LEMMA StatCertStep == ASSUME FilesInv, ATV!Watch, NEW p \in Procs, ATV!StatCert(p) PROVE FilesInv'
<1>. USE DEF ATV!StatCert, ATV!Goto, ATV!Set, ATV!tvVars, FilesInv, FileTypes
<1>1. FileTypes'
  BY AtvWatched DEF PCs, ATV!Parts, ATV!Found
<1>2. /\ pc[p] = "stat" /\ pc'[p] = "stat" /\ part[p] = "cert" /\ part'[p] = "key"
      /\ seen'[p] = ATV!Found(p) /\ dir'[p] = dir[p] /\ op'[p] = op[p]
      /\ ATV!Found(p) = (file[dir[p]].cert # Absent)
  BY DEF ATV!Found
<1>3. Carries(p)'
  BY <1>2 DEF Carries, Filling, Asking
<1>4. ASSUME clash # "write" PROVE Finds(p)'
  <2>1. dir[p] # 1 => file[1] = ATV!Files(Absent) /\ file[1].cert = Absent
    BY <1>2, <1>4 DEF Finds, HoldOnePair, ATV!Files, ATV!Parts
  <2>. QED
    BY <1>2, <2>1 DEF Finds, Filling, Asking
<1>5. GoesOn(p)
  BY <1>1, <1>2, <1>3, <1>4 DEF GoesOn, Filling
<1>. QED
  BY <1>5, GoesOnKeeps

\* Half a pair where nobody writes and no write was cut short: impossible.
LEMMA OutOfSyncStep ==
    ASSUME FilesInv, ATV!Watch, NEW p \in Procs, ATV!OutOfSync(p) PROVE FilesInv'
<1>. USE DEF ATV!OutOfSync, ATV!StatKey, ATV!tvVars, ATV!localVars
<1>1. pc[p] = "stat" /\ part[p] = "key" /\ Carries(p) /\ dir[p] \in ATV!Dirs
      /\ ~(seen[p] <=> ATV!Found(p))
      /\ ATV!Found(p) = (file[dir[p]].key # Absent)
  BY DEF FilesInv, FileTypes, ATV!Found
<1>2. ASSUME ~cut', clash' = "no" PROVE FALSE
  <2>1. ~cut /\ clash = "no"
    BY <1>2, AtvWatched
  <2>2. CASE dir[p] # 1
    BY <1>1, <2>2, OlderIs DEF Carries
  <2>3. CASE dir[p] = 1
    <3>1. \A q \in Procs : pc[q] \in Filling => q = p
      BY <1>1, <2>1 DEF FilesInv, Unheard, ATV!Writing, Filling
    <3>2. file[1].cert = file[1].key
      BY <1>1, <2>1, <3>1 DEF FilesInv, HoldOnePair, NobodyWrites, Filling
    <3>3. ~seen[p] => file[1].cert = Absent
      BY <1>1, <2>1 DEF FilesInv, HoldOnePair, Finds
    <3>. QED
      BY <1>1, <2>3, <3>2, <3>3 DEF Carries
  <2>. QED
    BY <2>2, <2>3
<1>3. cut' \in BOOLEAN /\ (cut => cut') /\ pc[p] \notin Filling /\ "outOfSync" \in Results
  BY <1>1 DEF FilesInv, FileTypes, Filling, Results
<1>. QED
  BY <1>2, <1>3, EndsKeeps

LEMMA BothFoundStep == ASSUME FilesInv, ATV!Watch, NEW p \in Procs, ATV!BothFound(p) PROVE FilesInv'
<1>. USE DEF ATV!BothFound, ATV!StatKey, ATV!Set, ATV!tvVars, FilesInv, FileTypes
<1>1. pc[p] = "stat" /\ part[p] = "key" /\ seen[p] /\ Carries(p) /\ dir[p] \in ATV!Dirs
      /\ part'[p] = "cert" /\ dir'[p] = dir[p] /\ op'[p] = op[p] /\ op[p] \in {"load", "pair"}
  OBVIOUS
<1>2. pc'[p] = IF op[p] = "pair" THEN "open" ELSE IF dir[p] = 1 THEN "idle" ELSE "read"
  BY <1>1 DEF ATV!End, Carries
<1>3. result'[p] \in {result[p], "loaded"}
  BY DEF ATV!End
<1>4. FileTypes'
  BY <1>1, AtvWatched DEF PCs, ATV!Parts, ATV!End, Results, Filling
<1>5. Carries(p)'
  BY <1>1, <1>2, OlderIs DEF Carries, Filling, Asking
<1>6. clash # "write" => Finds(p)'
  BY <1>1, <1>2 DEF Finds, HoldOnePair, Filling, Asking
<1>7. GoesOn(p)
  BY <1>1, <1>4, <1>5, <1>6 DEF GoesOn, Filling, ATV!End
<1>8. clash' # "write" => ATV!TrustedPairStays'
  BY AtvWatched DEF HoldOnePair, ATV!TrustedPairStays
<1>9. ~cut' /\ clash' = "no" => result'[p] # "outOfSync"
  BY <1>3, AtvWatched DEF Unheard
<1>. QED
  BY <1>7, <1>8, <1>9, GoOnKeeps

LEMMA NoneFoundStep == ASSUME FilesInv, ATV!Watch, NEW p \in Procs, ATV!NoneFound(p) PROVE FilesInv'
<1>. USE DEF ATV!NoneFound, ATV!StatKey, ATV!Set, ATV!tvVars, FilesInv, FileTypes
<1>1. pc[p] = "stat" /\ part[p] = "key" /\ ~seen[p] /\ Carries(p) /\ dir[p] \in ATV!Dirs
      /\ part'[p] = "cert" /\ op'[p] = op[p] /\ op[p] \in {"load", "pair"}
      /\ file[dir[p]].key = Absent
  BY DEF ATV!Found
<1>2. CASE op[p] = "load" /\ ~(dir[p] < NumDirs)
  <2>1. ATV!End(p, "notFound") /\ UNCHANGED dir
    BY <1>1, <1>2
  <2>2. pc'[p] = "idle" /\ dir'[p] = dir[p] /\ result'[p] = "notFound"
    BY <2>1 DEF ATV!End
  <2>3. FileTypes'
    BY <1>1, <2>1, AtvWatched DEF PCs, ATV!Parts, ATV!End, Results
  <2>4. Carries(p)' /\ Finds(p)'
    BY <1>1, <1>2, <2>2 DEF Carries, Finds, Filling, Asking
  <2>5. GoesOn(p)
    BY <1>1, <2>1, <2>3, <2>4 DEF GoesOn, Filling, ATV!End
  <2>6. clash' # "write" => ATV!TrustedPairStays'
    BY AtvWatched DEF HoldOnePair, ATV!TrustedPairStays
  <2>. QED
    BY <2>2, <2>5, <2>6, GoOnKeeps
<1>3. CASE op[p] = "pair" \/ dir[p] < NumDirs
  <2>1. UNCHANGED result
    BY <1>1, <1>3
  <2>2. IF op[p] = "pair" THEN pc'[p] = "generate" /\ dir' = dir /\ dir[p] = 1
        ELSE pc' = pc /\ dir'[p] = dir[p] + 1
    BY <1>1, <1>3 DEF Carries
  <2>3. dir'[p] \in ATV!Dirs /\ (op[p] = "load" => dir'[p] # 1)
    BY <1>1, <1>3, <2>2, CredentialFilesAssumption DEF ATV!CredentialsAssumption, ATV!Dirs
  <2>4. FileTypes'
    <3>1. pc' \in [Procs -> PCs] /\ dir' \in [Procs -> ATV!Dirs] /\ part' \in [Procs -> ATV!Parts]
      BY <1>1, <1>3, <2>3 DEF PCs, ATV!Parts
    <3>. QED
      BY <2>1, <3>1, AtvWatched
  <2>5. Carries(p)'
    BY <1>1, <2>2, <2>3 DEF Carries, Filling, Asking
  <2>6. clash # "write" => file[1] = ATV!Files(Absent)
    <3>1. CASE dir[p] = 1
      BY <1>1, <3>1, CurrentIs DEF HoldOnePair, Finds
    <3>2. CASE dir[p] # 1
      BY <1>1, <3>2 DEF HoldOnePair, Finds
    <3>. QED
      BY <3>1, <3>2
  <2>7. clash # "write" => Finds(p)'
    BY <1>1, <2>2, <2>6 DEF Finds, Filling, Asking
  <2>8. \A q \in Procs \ {p} : pc'[q] = pc[q] /\ dir'[q] = dir[q] /\ part'[q] = part[q]
    BY <1>1, <1>3
  <2>9. GoesOn(p)
    BY <1>1, <2>1, <2>4, <2>5, <2>7, <2>8 DEF GoesOn, Filling
  <2>. QED
    BY <2>1, <2>9, GoesOnKeeps
<1>. QED
  BY <1>1, <1>2, <1>3

LEMMA GenerateStep == ASSUME FilesInv, ATV!Watch, NEW p \in Procs, ATV!Generate(p) PROVE FilesInv'
<1>. USE DEF ATV!Generate, ATV!Goto, ATV!Set, FilesInv, FileTypes
<1>1. PICK k \in AtvPairs \ made : made' = made \cup {k} /\ buf' = [buf EXCEPT ![p] = k]
  OBVIOUS
<1>2. FileTypes'
  BY <1>1, AtvWatched DEF PCs, Filling, Contents
<1>3. /\ pc[p] = "generate" /\ pc'[p] = "truncate" /\ buf'[p] = k /\ Carries(p)
      /\ part[p] = "cert" /\ op[p] = "pair"
  BY <1>1 DEF Carries
<1>4. GoesOn(p)
  BY <1>1, <1>2, <1>3 DEF GoesOn, Carries, Finds, HoldOnePair, Filling, Asking
<1>. QED
  BY <1>4, GoesOnKeeps

LEMMA ReadStep == ASSUME FilesInv, ATV!Watch, NEW p \in Procs, ATV!Read(p) PROVE FilesInv'
<1>. USE DEF ATV!Read, ATV!Goto, ATV!Set, ATV!tvVars, FilesInv, FileTypes
<1>1. /\ pc[p] = "read" /\ pc'[p] = "truncate" /\ Carries(p) /\ op[p] = "load"
      /\ dir[p] \in ATV!Dirs \ {1} /\ part[p] \in {"cert", "key"}
      /\ file[dir[p]].cert \in AtvPairs
  BY DEF Carries, Filling, ATV!Parts
<1>2. buf'[p] = file[dir[p]].cert
  BY <1>1, OlderIs
<1>3. FileTypes'
  <2>1. buf' \in [Procs -> Contents]
    BY <1>1, <1>2 DEF Contents
  <2>. QED
    BY <2>1, AtvWatched DEF PCs, Filling
<1>4. Carries(p)'
  BY <1>1, <1>2 DEF Carries, Filling, Asking
<1>5. clash # "write" => Finds(p)'
  BY <1>1 DEF Finds, HoldOnePair, Filling, Asking, Ours
<1>6. GoesOn(p)
  BY <1>1, <1>3, <1>4, <1>5 DEF GoesOn, Filling
<1>. QED
  BY <1>6, GoesOnKeeps

LEMMA FailStep ==
    ASSUME FilesInv, ATV!Watch, NEW p \in Procs,
           \/ ATV!FileFails(p) \/ ATV!OpenFails(p) \/ ATV!PairingFails(p)
           \/ ATV!SaveFails(p) \/ ATV!Crash(p)
    PROVE  FilesInv'
<1>. USE DEF ATV!tvVars, ATV!localVars, Results, FilesInv, FileTypes
<1>1. CASE ATV!FileFails(p)
  BY <1>1, EndsKeeps DEF ATV!FileFails
<1>2. CASE ATV!OpenFails(p) \/ ATV!PairingFails(p) \/ ATV!SaveFails(p)
  BY <1>2, EndsKeeps DEF ATV!OpenFails, ATV!PairingFails, ATV!SaveFails, Filling
<1>3. CASE ATV!Crash(p)
  BY <1>3, EndsKeeps DEF ATV!Crash
<1>. QED
  BY <1>1, <1>2, <1>3

LEMMA SaveStep == ASSUME FilesInv, ATV!Watch, NEW p \in Procs, ATV!Save(p) PROVE FilesInv'
BY EndsKeeps DEF ATV!Save, ATV!localVars, Results, FilesInv, FileTypes, Filling

LEMMA OpenCertStep == ASSUME FilesInv, ATV!Watch, NEW p \in Procs, ATV!OpenCert(p) PROVE FilesInv'
<1>. USE DEF ATV!OpenCert, ATV!Goto, ATV!Set, ATV!tvVars, FilesInv, FileTypes
<1>1. FileTypes'
  <2>1. file[1].cert \in Contents
    BY CredentialFilesAssumption DEF ATV!CredentialsAssumption, ATV!Dirs, ATV!Parts
  <2>. QED
    BY <2>1, AtvWatched DEF PCs, ATV!Parts
<1>2. GoesOn(p)
  BY <1>1 DEF GoesOn, Carries, Finds, Filling, Asking
<1>. QED
  BY <1>2, GoesOnKeeps

\* The pair that was opened is the pair in the files.
LEMMA AskStep ==
    ASSUME FilesInv, ATV!Watch, NEW p \in Procs,
           ATV!OpenKey(p) \/ ATV!Dial(p) \/ ATV!TVStarts(p) \/ ATV!TVAccepts(p)
    PROVE  FilesInv'
<1>. USE DEF ATV!OpenKey, ATV!Dial, ATV!TVStarts, ATV!TVAccepts, ATV!Goto, ATV!Set,
             ATV!tvVars, ATV!localVars, FilesInv, FileTypes
<1>1. FileTypes'
  BY AtvWatched DEF PCs, Asking
<1>2. pc[p] \in {"open"} \cup Asking /\ pc'[p] \in Asking /\ op[p] = "pair" /\ Carries(p)
  BY DEF Carries, Asking
<1>3. buf[p] \in AtvPairs
  BY <1>2 DEF ATV!Matching, Carries, Asking
<1>4. ASSUME clash # "write" PROVE file[1] = ATV!Files(buf[p])
  <2>1. CASE ATV!OpenKey(p)
    BY <1>4, <2>1, CurrentIs DEF ATV!Matching, HoldOnePair, Finds
  <2>2. CASE ~ATV!OpenKey(p)
    BY <1>4, <2>2 DEF HoldOnePair, Finds, Asking
  <2>. QED
    BY <2>1, <2>2
<1>5. Carries(p)' /\ (clash # "write" => Finds(p)')
  BY <1>2, <1>3, <1>4 DEF Carries, Finds, Filling, Asking
<1>6. GoesOn(p)
  BY <1>1, <1>2, <1>5 DEF GoesOn, Filling, Asking
<1>. QED
  BY <1>6, GoesOnKeeps

\* The television may accept that pair.
LEMMA SecretStep == ASSUME FilesInv, ATV!Watch, NEW p \in Procs, ATV!SendSecret(p) PROVE FilesInv'
<1>. USE DEF ATV!SendSecret, ATV!Goto, ATV!Set, ATV!localVars, FilesInv, FileTypes
<1>1. pc[p] = "code" /\ pc'[p] = "ack" /\ Carries(p) /\ trusts' \subseteq trusts \cup {buf[p]}
  OBVIOUS
<1>2. FileTypes'
  <2>1. buf[p] \in AtvPairs
    BY <1>1 DEF Carries, Asking
  <2>. QED
    BY <1>1, <2>1, AtvWatched DEF PCs, Asking
<1>3. GoesOn(p)
  BY <1>1, <1>2 DEF GoesOn, Carries, HoldOnePair, Finds, Filling, Asking
<1>4. ASSUME clash' # "write" PROVE ATV!TrustedPairStays'
  BY <1>1, <1>4, AtvWatched DEF HoldOnePair, ATV!TrustedPairStays, Finds, Asking
<1>5. ~cut' /\ clash' = "no" => result'[p] # "outOfSync"
  BY AtvWatched DEF Unheard
<1>. QED
  BY <1>3, <1>4, <1>5, GoOnKeeps

-----------------------------------------------------------------------------
(* Steps that write the files *)

\* p writes v into one of the current files, which are not somebody's pair yet;
\* the other processes and the older directories stay.
Writes(p, v) ==
    /\ FileTypes' /\ UNCHANGED trusts
    /\ file' = [file EXCEPT ![1][part[p]] = v] /\ v \in AtvPairs \cup {Torn}
    /\ pc[p] \in {"truncate", "fill"}
    /\ \A q \in Procs \ {p} : /\ pc'[q] = pc[q] /\ op'[q] = op[q] /\ dir'[q] = dir[q]
                              /\ part'[q] = part[q] /\ seen'[q] = seen[q]
                              /\ buf'[q] = buf[q] /\ result'[q] = result[q]
    /\ Carries(p)' /\ UNCHANGED cut
    /\ clash # "write" => Finds(p)' /\ ATV!NoMixedPair'
    /\ clash # "write" /\ pc'[p] \notin Filling => file'[1].cert = file'[1].key
    /\ result'[p] \in {result[p], "loaded"}

LEMMA WriteKeeps ==
    ASSUME FilesInv, ATV!Watch, NEW p \in Procs, NEW v, Writes(p, v)
    PROVE  FilesInv'
<1>. USE DEF Writes
<1>. USE CredentialFilesAssumption DEF ATV!CredentialsAssumption
<1>1. 1 \in ATV!Dirs /\ file \in [ATV!Dirs -> [ATV!Parts -> Contents]] /\ part[p] \in ATV!Parts
  BY DEF FilesInv, FileTypes, ATV!Dirs
<1>2. /\ \A d \in ATV!Dirs \ {1} : file'[d] = file[d]
      /\ file'[1][part[p]] = v
      /\ \A f \in ATV!Parts \ {part[p]} : file'[1][f] = file[1][f]
  BY <1>1
<1>3. v # Absent
  OBVIOUS
<1>4. OlderRest'
  BY <1>2 DEF FilesInv, OlderRest
<1>5. ASSUME NEW q \in Procs PROVE Carries(q)'
  <2>1. CASE q = p
    BY <2>1
  <2>2. CASE q # p
    <3>1. dir[q] \in ATV!Dirs /\ Carries(q)
      BY DEF FilesInv, FileTypes
    <3>2. file[1].cert # Absent => file'[1].cert # Absent
      BY <1>1, <1>2, <1>3 DEF ATV!Parts
    <3>3. dir[q] # 1 => file'[dir[q]] = file[dir[q]]
      BY <1>2, <3>1
    <3>4. /\ pc'[q] = pc[q] /\ op'[q] = op[q] /\ dir'[q] = dir[q] /\ part'[q] = part[q]
          /\ seen'[q] = seen[q] /\ buf'[q] = buf[q]
      BY <2>2
    <3>. HIDE DEF Writes
    <3>. QED
      BY <3>1, <3>2, <3>3, <3>4 DEF Carries, Filling
  <2>. QED
    BY <2>1, <2>2
<1>6. HoldOnePair'
  <2>. SUFFICES ASSUME clash' # "write"
                PROVE  /\ WritesAlone' /\ \A q \in Procs : Finds(q)'
                       /\ ATV!NoMixedPair' /\ ATV!TrustedPairStays'
                       /\ ~cut' /\ NobodyWrites' => file'[1].cert = file'[1].key
    BY DEF HoldOnePair
  <2>1. clash # "write" /\ WritesAlone /\ WritesAlone' /\ Finds(p) /\ ATV!TrustedPairStays
    BY AtvWatched DEF FilesInv, HoldOnePair
  <2>2. file[1].cert \notin AtvPairs \/ (file[1].key \notin AtvPairs /\ part[p] = "key")
    BY <1>1, <2>1 DEF Finds, Filling, ATV!Parts, ATV!Files
  <2>3. ASSUME NEW q \in Procs, q # p PROVE Finds(q)'
    <3>1. ~ATV!Writing(q)
      BY <2>1, <2>3 DEF WritesAlone, ATV!Writing
    <3>2. Finds(q) /\ Carries(q) /\ buf[q] \in Contents
      BY <2>1 DEF FilesInv, HoldOnePair, FileTypes
    <3>3. pc[q] \notin Asking
      BY <2>2, <3>2 DEF Finds, Carries, ATV!Files, ATV!Parts
    <3>4. pc[q] = "open" /\ part[q] = "key" /\ buf[q] \in AtvPairs => file'[1].cert = buf[q]
      BY <1>1, <1>2, <2>2, <3>2 DEF Finds, ATV!Parts
    <3>5. dir[q] \in Nat /\ (dir[q] > 1 <=> dir[q] # 1)
      BY DEF FilesInv, FileTypes, ATV!Dirs
    <3>6. /\ pc[q] \notin {"generate"} \cup Filling
          /\ pc[q] = "stat" => dir[q] = 1 /\ ~(part[q] = "key" /\ ~seen[q])
      BY <3>1, <3>5 DEF ATV!Writing, Filling
    <3>. QED
      BY <2>3, <3>3, <3>4, <3>6 DEF Finds, Filling
  <2>4. ATV!TrustedPairStays'
    BY <2>1, <2>2 DEF ATV!TrustedPairStays, FilesInv, FileTypes, ATV!Files, ATV!Parts
  <2>5. NobodyWrites' => file'[1].cert = file'[1].key
    BY <2>1 DEF NobodyWrites
  <2>. QED
    BY <2>1, <2>3, <2>4, <2>5
<1>7. Unheard'
  BY AtvWatched DEF FilesInv, Unheard
<1>. QED
  BY <1>4, <1>5, <1>6, <1>7 DEF FilesInv

LEMMA TruncateStep == ASSUME FilesInv, ATV!Watch, NEW p \in Procs, ATV!Truncate(p) PROVE FilesInv'
<1>. USE CredentialFilesAssumption DEF ATV!CredentialsAssumption
<1>. USE DEF ATV!Truncate, ATV!Goto, ATV!Set, ATV!tvVars, ATV!localVars, FilesInv, FileTypes
<1>1. /\ pc[p] = "truncate" /\ pc'[p] = "fill" /\ Carries(p) /\ part[p] \in ATV!Parts
      /\ dir[p] \in ATV!Dirs /\ op[p] \in {"load", "pair"}
      /\ 1 \in ATV!Dirs /\ file[1] \in [ATV!Parts -> Contents]
  BY DEF ATV!Dirs
<1>2. /\ file' \in [ATV!Dirs -> [ATV!Parts -> Contents]]
      /\ \A d \in ATV!Dirs \ {1} : file'[d] = file[d]
      /\ file'[1][part[p]] = Torn
      /\ \A f \in ATV!Parts \ {part[p]} : file'[1][f] = file[1][f]
  BY <1>1 DEF Contents
<1>3. FileTypes'
  BY <1>2, AtvWatched DEF PCs, Filling
<1>4. Carries(p)'
  BY <1>1, <1>2 DEF Carries, Filling, Asking
<1>5. clash # "write" => Finds(p)' /\ ATV!NoMixedPair'
  BY <1>1, <1>2 DEF HoldOnePair, Finds, ATV!NoMixedPair, Ours, ATV!Files,
     ATV!Parts, Filling, Asking, Carries
<1>6. Writes(p, Torn)
  BY <1>1, <1>3, <1>4, <1>5 DEF Writes, Filling
<1>. QED
  BY <1>6, WriteKeeps

LEMMA FillStep == ASSUME FilesInv, ATV!Watch, NEW p \in Procs, ATV!Fill(p) PROVE FilesInv'
<1>. USE CredentialFilesAssumption DEF ATV!CredentialsAssumption
<1>. USE DEF ATV!Fill, ATV!Set, ATV!tvVars, FilesInv, FileTypes
<1>1. /\ pc[p] = "fill" /\ Carries(p) /\ part[p] \in {"cert", "key"}
      /\ dir[p] \in ATV!Dirs /\ op[p] \in {"load", "pair"} /\ buf[p] \in AtvPairs
      /\ 1 \in ATV!Dirs /\ file[1] \in [ATV!Parts -> Contents]
      /\ UNCHANGED <<op, dir, buf>>
  BY DEF ATV!Dirs, Carries, ATV!Parts
<1>2. /\ file' \in [ATV!Dirs -> [ATV!Parts -> Contents]]
      /\ \A d \in ATV!Dirs \ {1} : file'[d] = file[d]
      /\ file'[1][part[p]] = buf[p]
      /\ \A f \in ATV!Parts \ {part[p]} : file'[1][f] = file[1][f]
  BY <1>1 DEF Contents, ATV!Parts
<1>3. IF part[p] = "cert"
      THEN part'[p] = "key" /\ pc'[p] = IF op[p] = "pair" THEN "truncate" ELSE "read"
      ELSE part'[p] = "cert" /\ pc'[p] = IF op[p] = "pair" THEN "open" ELSE "idle"
  BY <1>1 DEF ATV!End
<1>4. FileTypes'
  <2>1. /\ pc' \in [Procs -> PCs] /\ part' \in [Procs -> ATV!Parts]
        /\ result' \in [Procs -> Results]
    BY <1>1 DEF PCs, ATV!Parts, Filling, Results, ATV!End
  <2>. QED
    BY <1>2, <2>1, AtvWatched
<1>5. Carries(p)'
  BY <1>1, <1>2, <1>3 DEF Carries, Filling, Asking
<1>6. ASSUME clash # "write" PROVE Finds(p)' /\ ATV!NoMixedPair'
                                   /\ (pc'[p] \notin Filling => file'[1].cert = file'[1].key)
  <2>1. Finds(p)
    BY <1>6 DEF HoldOnePair
  <2>2. CASE part[p] = "cert"
    BY <1>1, <1>2, <1>3, <2>1, <2>2
    DEF Finds, ATV!NoMixedPair, Ours, ATV!Parts, Filling, Asking, Carries
  <2>3. CASE part[p] = "key"
    BY <1>1, <1>2, <1>3, <2>1, <2>3
    DEF Finds, ATV!NoMixedPair, Ours, ATV!Parts, Filling, Asking, Carries
  <2>. QED
    BY <1>1, <2>2, <2>3
<1>7. Writes(p, buf[p])
  <2>1. \A q \in Procs \ {p} : pc'[q] = pc[q] /\ part'[q] = part[q] /\ result'[q] = result[q]
    BY <1>1 DEF ATV!End
  <2>2. result'[p] \in {result[p], "loaded"}
    BY <1>1 DEF ATV!End
  <2>. QED
    BY <1>1, <1>4, <1>5, <1>6, <2>1, <2>2 DEF Writes, Filling
<1>. QED
  BY <1>7, WriteKeeps

-----------------------------------------------------------------------------
LEMMA FilesInductive == FilesInv /\ [ATV!Next]_(ATV!vars) => FilesInv'
<1>. SUFFICES ASSUME FilesInv, [ATV!Next]_(ATV!vars) PROVE FilesInv'
  OBVIOUS
<1>1. ASSUME NEW p \in Procs, ATV!Watch, ATV!Step(p) PROVE FilesInv'
  BY <1>1, BeginStep, StatCertStep, OutOfSyncStep, BothFoundStep, NoneFoundStep,
     GenerateStep, ReadStep, TruncateStep, FillStep, FailStep, OpenCertStep, AskStep,
     SecretStep, SaveStep
  DEF ATV!Step, ATV!Look, ATV!WriteFiles, ATV!Client, ATV!TV
<1>2. CASE UNCHANGED ATV!vars
  BY <1>2 DEF ATV!vars, ATV!tvVars, ATV!localVars, FilesInv, FileTypes, OlderRest, Carries,
     HoldOnePair, WritesAlone, ATV!Writing, Finds, Ours, ATV!NoMixedPair,
     ATV!TrustedPairStays, NobodyWrites, Unheard
<1>. QED
  BY <1>1, <1>2 DEF ATV!Next

\* Of the Android TV files by themselves.
LEMMA FilesInvariant == ATV!Spec => []FilesInv
BY FilesStart, FilesInductive, PTL DEF ATV!Spec

-----------------------------------------------------------------------------
(* The files of either protocol *)

\* Behaviours are of one protocol; what belongs to the other one rests.
EitherInv ==
    /\ protocol \in {"nvidia", "androidtv"}
    /\ protocol = "nvidia" => IInv
    /\ protocol = "androidtv" => FilesInv /\ NoNv

LEMMA EitherInvariant == FilesSpec => []EitherInv
<1>1. FilesInit => EitherInv
  BY Initially, FilesStart DEF FilesInit, EitherInv
<1>2. ASSUME EitherInv, [FilesNext]_allVars PROVE EitherInv'
  <2>1. UNCHANGED protocol
    BY <1>2 DEF FilesNext, allVars
  <2>2. ASSUME protocol = "nvidia" PROVE IInv'
    <3>1. IInv /\ [Next]_vars
      BY <1>2, <2>2 DEF EitherInv, FilesNext, allVars
    <3>. QED
      BY <3>1, Inductive
  <2>3. ASSUME protocol = "androidtv" PROVE FilesInv' /\ NoNv'
    <3>1. FilesInv /\ NoNv
      BY <1>2, <2>3 DEF EitherInv
    <3>2. [ATV!Next]_(ATV!vars) /\ UNCHANGED nvOnly
      BY <1>2, <2>3 DEF FilesNext, allVars, vars, history, atvOnly, nvOnly, ATV!vars,
         ATV!tvVars, ATV!localVars
    <3>. QED
      BY <3>1, <3>2, FilesInductive DEF NoNv, nvOnly
  <2>. QED
    BY <1>2, <2>1, <2>2, <2>3 DEF EitherInv
<1>. QED
  BY <1>1, <1>2, PTL DEF FilesSpec

\* Whatever the protocol, the NVIDIA files keep what is proved of them above
\* (LoadCredentials, Pair, SaveCertificate, LoadOrCreateDeviceID).
THEOREM NvidiaFiles ==
    FilesSpec => [](FallbackOnlyUnpaired /\ StoredPairWorks /\ IdIsPersistent)
<1>1. IInv => FallbackOnlyUnpaired /\ StoredPairWorks /\ IdIsPersistent
  BY Kept
<1>2. NoNv => FallbackOnlyUnpaired /\ StoredPairWorks /\ IdIsPersistent
  BY FS_EmptySet DEF NoNv, FallbackOnlyUnpaired, StoredPairWorks, IdIsPersistent
<1>3. EitherInv => FallbackOnlyUnpaired /\ StoredPairWorks /\ IdIsPersistent
  BY <1>1, <1>2 DEF EitherInv
<1>. QED
  BY <1>3, EitherInvariant, PTL

\* The current directory never holds halves of two pairs, unless two processes
\* wrote it at once (EnsureClientCertificate, Load).
THEOREM OnePair == FilesSpec => []NoMixedPair
<1>1. EitherInv => NoMixedPair
  BY DEF EitherInv, FilesInv, HoldOnePair, NoMixedPair, ATV!NoMixedPair
<1>. QED
  BY <1>1, EitherInvariant, PTL

\* No pairing, migration or crash replaces the pair that a television trusts
\* (EnsureClientCertificate, Load).
THEOREM TrustStays == FilesSpec => []TrustedPairStays
<1>1. EitherInv => TrustedPairStays
  BY DEF EitherInv, FilesInv, HoldOnePair, TrustedPairStays, ATV!TrustedPairStays
<1>. QED
  BY <1>1, EitherInvariant, PTL

\* Files out of sync are reported only when a write was cut short or somebody
\* looked while another wrote (Exists, EnsureClientCertificate).
THEOREM CausedAlarm == FilesSpec => []AlarmHasCause
<1>1. EitherInv => AlarmHasCause
  BY DEF EitherInv, FilesInv, Unheard, AlarmHasCause, ATV!AlarmHasCause
<1>. QED
  BY <1>1, EitherInvariant, PTL
=============================================================================
