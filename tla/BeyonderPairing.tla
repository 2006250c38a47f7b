--------------------------- MODULE BeyonderPairing ---------------------------
(****************************************************************************)
(* Pairing over the NVIDIA protocol (beyonderprobe pair) and the presses of *)
(* the remote that depend on what it leaves (Sender.Send and Launch): a key *)
(* and a certificate that the SHIELD issues, and a device id, in three      *)
(* files.  Pairings and presses are processes with no lock between them,    *)
(* one file operation after the other, and may be killed anywhere.  The     *)
(* messages of a connection are those of BeyonderClient.                    *)
(****************************************************************************)
EXTENDS Naturals, FiniteSets

CONSTANTS
    Procs,      \* processes
    Pairs,      \* keys with their certificates, that the SHIELD may issue
    Ids,        \* device ids
    Absent,     \* no such file
    Torn,       \* an empty file, or one cut short
    MaxOps      \* bound: operations of each process

ASSUME BeyonderPairingAssumption ==
    /\ Absent # Torn
    /\ {Absent, Torn} \cap (Pairs \cup Ids) = {}
    /\ MaxOps \in Nat

VARIABLES
    file,       \* "key" and "cert"
    idFile,     \* beyonder-device-id
    issued,     \* pairs that the SHIELD has issued, which it lets in
    pc,         \* step of each process
    ops,        \* operations started
    buf,        \* pair issued, or certificate read
    id,         \* device id of a pairing
    result,     \* how the last operation ended
    hadPair,    \* when the operation started, a pairing had stored its pair
                \* (history)
    usedIds,    \* device ids sent to the SHIELD (history)
    stored,     \* the pair whose storing ended last, or Absent (history)
    clash,      \* others read ("read") or wrote ("write") while somebody was
                \* writing the pair (history)
    idClash,    \* two processes were creating a device id at once (history)
    cut         \* a write failed or its process was killed (history)

history == <<hadPair, usedIds, stored, clash, idClash, cut>>
vars == <<file, idFile, issued, pc, ops, buf, id, result, history>>

Init ==
    /\ file = [f \in {"key", "cert"} |-> Absent] /\ idFile = Absent
    /\ issued = {}
    /\ pc = [p \in Procs |-> "idle"] /\ ops = [p \in Procs |-> 0]
    /\ buf = [p \in Procs |-> Absent] /\ id = [p \in Procs |-> Absent]
    /\ result = [p \in Procs |-> "none"]
    /\ hadPair = [p \in Procs |-> FALSE]
    /\ usedIds = {} /\ stored = Absent
    /\ clash = "no" /\ idClash = FALSE /\ cut = FALSE

Set(f, p, v) == [f EXCEPT ![p] = v]
At(p, step) == pc[p] = step
Goto(p, step) == pc' = Set(pc, p, step) /\ UNCHANGED result

End(p, how) ==
    /\ pc' = Set(pc, p, "idle")
    /\ result' = Set(result, p, how)

\* What a step leaves alone unless it says otherwise.
Files == <<file, idFile>>
Locals == <<buf, id>>
Notes == <<hadPair, usedIds, stored, cut>>

\* beyonderprobe pair dials without a certificate; Power and app shortcuts
\* first look for one.
Begin(p) ==
    /\ At(p, "idle") /\ ops[p] < MaxOps /\ ops' = Set(ops, p, ops[p] + 1)
    /\ \E step \in {"hello", "readCert"} : pc' = Set(pc, p, step)
    /\ result' = Set(result, p, "none")
    /\ buf' = Set(buf, p, Absent) /\ id' = Set(id, p, Absent)
    /\ hadPair' = Set(hadPair, p, stored # Absent)
    /\ UNCHANGED <<Files, issued, usedIds, stored, cut>>

-----------------------------------------------------------------------------
(* Pairing *)

\* The level that the SHIELD gives to a client without a certificate.
Hello(p) ==
    /\ At(p, "hello")
    /\ \/ Goto(p, "readId")
       \/ End(p, "authorized")
       \/ End(p, "failed")
    /\ UNCHANGED <<Files, issued, ops, Locals, Notes>>

\* LoadOrCreateDeviceID: an empty file is as good as none.
ReadId(p) ==
    /\ At(p, "readId")
    /\ IF idFile \in Ids
       THEN id' = Set(id, p, idFile) /\ Goto(p, "request")
       ELSE (\E i \in Ids : id' = Set(id, p, i)) /\ Goto(p, "openId")
    /\ UNCHANGED <<Files, issued, ops, buf, Notes>>

\* The id is written at once or not at all: what is left of a crash is empty.
OpenId(p) ==
    /\ At(p, "openId") /\ Goto(p, "writeId")
    /\ idFile' = Torn
    /\ UNCHANGED <<file, issued, ops, Locals, Notes>>

\* Mutant for IdIsPersistent: an id that could not be written is used.
WriteIdLoosely(p) ==
    /\ At(p, "writeId") /\ Goto(p, "request")
    /\ idFile' \in {id[p], Torn}
    /\ UNCHANGED <<file, issued, ops, Locals, Notes>>

WriteId(p) ==
    /\ At(p, "writeId") /\ Goto(p, "request")
    /\ idFile' = id[p]
    /\ UNCHANGED <<file, issued, ops, Locals, Notes>>

\* The PIN request, the challenge, the PIN, the code with the device id; the
\* SHIELD answers with a new pair, which may be lost on the way.
Request(p) ==
    /\ At(p, "request")
    /\ usedIds' = usedIds \cup {id[p]}
    /\ \/ \E k \in Pairs \ issued :
            /\ issued' = issued \cup {k}
            /\ \/ buf' = Set(buf, p, k) /\ Goto(p, "openKey")
               \/ End(p, "failed") /\ UNCHANGED buf
       \/ End(p, "failed") /\ UNCHANGED <<issued, buf>>
    /\ UNCHANGED <<Files, ops, id, hadPair, stored, cut>>

Open(p, f, from, to) ==
    /\ At(p, from) /\ Goto(p, to)
    /\ file' = Set(file, f, Torn)
    /\ UNCHANGED <<idFile, issued, ops, Locals, Notes>>

\* SaveCertificate: the key, then the certificate.
OpenKey(p) == Open(p, "key", "openKey", "writeKey")
OpenCert(p) == Open(p, "cert", "openCert", "writeCert")

WriteKey(p) ==
    /\ At(p, "writeKey") /\ Goto(p, "openCert")
    /\ file' = Set(file, "key", buf[p])
    /\ UNCHANGED <<idFile, issued, ops, Locals, Notes>>

\* Mutant for StoredPairWorks: a certificate that is there already stays.
WriteCertOnce(p) ==
    /\ At(p, "writeCert") /\ Goto(p, "confirm")
    /\ file' = Set(file, "cert", IF stored = Absent THEN buf[p] ELSE stored)
    /\ stored' = buf[p]
    /\ UNCHANGED <<idFile, issued, ops, Locals, hadPair, usedIds, cut>>

WriteCert(p) ==
    /\ At(p, "writeCert") /\ Goto(p, "confirm")
    /\ file' = Set(file, "cert", buf[p])
    /\ stored' = buf[p]
    /\ UNCHANGED <<idFile, issued, ops, Locals, hadPair, usedIds, cut>>

\* A second connection, with the new certificate.
Confirm(p) ==
    /\ At(p, "confirm")
    /\ \/ End(p, "paired")
       \/ End(p, "failed")
    /\ UNCHANGED <<Files, issued, ops, Locals, Notes>>

Writing(p) == pc[p] \in {"openId", "writeId", "openKey", "writeKey", "openCert", "writeCert"}

WriteFails(p) ==
    /\ Writing(p)
    /\ End(p, "failed")
    /\ cut' = TRUE
    /\ UNCHANGED <<Files, issued, ops, Locals, hadPair, usedIds, stored>>

Pairing(p) ==
    \/ Hello(p) \/ ReadId(p) \/ OpenId(p) \/ WriteId(p) \/ Request(p)
    \/ OpenKey(p) \/ WriteKey(p) \/ OpenCert(p) \/ WriteCert(p) \/ Confirm(p)
    \/ WriteFails(p)

-----------------------------------------------------------------------------
(* Presses of Power and of app shortcuts *)

\* LoadCredentials: without both files the Android TV protocol is used.
NoCredentials(p) ==
    /\ \/ At(p, "readCert") /\ file.cert = Absent
       \/ At(p, "readKey") /\ file.key = Absent
    /\ End(p, "fallback")
    /\ UNCHANGED <<Files, issued, ops, Locals, Notes>>

ReadCert(p) ==
    /\ At(p, "readCert") /\ file.cert # Absent
    /\ buf' = Set(buf, p, file.cert)
    /\ Goto(p, "readKey")
    /\ UNCHANGED <<Files, issued, ops, id, Notes>>

Fit(p) == buf[p] \in Pairs /\ file.key = buf[p]

ReadKey(p) ==
    /\ At(p, "readKey") /\ Fit(p)
    /\ Goto(p, "connect")
    /\ UNCHANGED <<Files, issued, ops, Locals, Notes>>

\* Mutant for FallbackOnlyUnpaired: credentials that do not load are taken for
\* credentials that are not there.
LoadFailsQuietly(p) ==
    /\ At(p, "readKey") /\ file.key # Absent /\ ~Fit(p)
    /\ End(p, "fallback")
    /\ UNCHANGED <<Files, issued, ops, Locals, Notes>>

\* X509KeyPair: half a file, or halves of two pairs.
LoadFails(p) ==
    /\ At(p, "readKey") /\ file.key # Absent /\ ~Fit(p)
    /\ End(p, "broken")
    /\ UNCHANGED <<Files, issued, ops, Locals, Notes>>

\* The SHIELD lets in the pairs that it has issued; there is no falling back
\* from here.
Connect(p) ==
    /\ At(p, "connect")
    /\ \/ End(p, "failed")
       \/ End(p, IF buf[p] \in issued THEN "sent" ELSE "notPaired")
    /\ UNCHANGED <<Files, issued, ops, Locals, Notes>>

Press(p) == NoCredentials(p) \/ ReadCert(p) \/ ReadKey(p) \/ LoadFails(p) \/ Connect(p)

Crash(p) ==
    /\ ~At(p, "idle")
    /\ End(p, "none")
    /\ cut' = (cut \/ Writing(p))
    /\ UNCHANGED <<Files, issued, ops, Locals, hadPair, usedIds, stored>>

-----------------------------------------------------------------------------
Saving(p) == pc[p] \in {"openKey", "writeKey", "openCert", "writeCert"}
Creating(p) == pc[p] \in {"openId", "writeId"}

Together(Doing(_), Other(_)) == \E p, q \in Procs : p # q /\ Doing(p) /\ Other(q)
Reading(p) == At(p, "readKey") \/ At(p, "readCert")

Watch ==
    /\ idClash' = (idClash \/ Together(Creating, Creating)')
    /\ clash' = IF clash = "write" \/ Together(Saving, Saving)' THEN "write"
                ELSE IF clash = "read" \/ Together(Saving, Reading)' THEN "read"
                ELSE "no"

Next == (\E p \in Procs : Begin(p) \/ Pairing(p) \/ Press(p) \/ Crash(p)) /\ Watch

Spec == Init /\ [][Next]_vars

-----------------------------------------------------------------------------
(* Properties *)

\* Every variable has the shape of the Go value or the file it stands for.
TypeOK ==
    /\ file \in [{"key", "cert"} -> Pairs \cup {Absent, Torn}]
    /\ idFile \in Ids \cup {Absent, Torn}
    /\ issued \subseteq Pairs
    /\ pc \in [Procs -> {"idle", "hello", "readId", "openId", "writeId", "request",
                         "openKey", "writeKey", "openCert", "writeCert", "confirm",
                         "readCert", "readKey", "connect"}]
    /\ ops \in [Procs -> 0..MaxOps]
    /\ buf \in [Procs -> Pairs \cup {Absent, Torn}]
    /\ id \in [Procs -> Ids \cup {Absent}]
    /\ result \in [Procs -> {"none", "authorized", "failed", "paired", "fallback",
                             "broken", "sent", "notPaired"}]
    /\ hadPair \in [Procs -> BOOLEAN] /\ usedIds \subseteq Ids
    /\ stored \in Pairs \cup {Absent}
    /\ clash \in {"no", "read", "write"} /\ idClash \in BOOLEAN /\ cut \in BOOLEAN

\* Once a pairing has stored its pair, no press falls back to the Android TV
\* protocol, whatever is written, fails or dies afterwards: files are never
\* removed, and one that does not load is an error (LoadCredentials, Send).
FallbackOnlyUnpaired ==
    \A p \in Procs : hadPair[p] => result[p] # "fallback"

\* After pairing, the files hold the pair that was stored last, whole, and the
\* SHIELD knows it (Pair, SaveCertificate).
StoredPairWorks ==
    stored # Absent /\ ~cut /\ clash # "write" /\ (\A p \in Procs : ~Saving(p)) =>
        file.cert = stored /\ file.key = stored /\ stored \in issued

\* The SHIELD sees one device id from all pairings, also after crashes and
\* failed writes, as long as no two processes create it at once
\* (LoadOrCreateDeviceID).
IdIsPersistent == ~idClash => Cardinality(usedIds) <= 1
=============================================================================
