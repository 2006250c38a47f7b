----------------------------- MODULE Credentials -----------------------------
(****************************************************************************)
(* The client certificate and its key: two files of the configuration       *)
(* directory that pairing creates (EnsureClientCertificate), that loading   *)
(* migrates from an older directory (CredentialStore.Load) and that the     *)
(* television learns to trust (Pair).  The goroutines of the GTK remote and *)
(* the commands of other shells do this at the same time, with no lock      *)
(* between them, one file operation after the other; each may be killed     *)
(* anywhere, and a write that fails or dies leaves a torn file.             *)
(****************************************************************************)
EXTENDS Naturals

CONSTANTS
    Procs,      \* goroutines and processes
    Pairs,      \* certificates with their keys
    Old,        \* pairs that older versions have left behind
    Absent,     \* no such file
    Torn,       \* an empty or partly written file
    NumDirs,    \* directories searched: 3 in the code, the first is the current
    MaxOps      \* bound: operations each process starts

Dirs == 1..NumDirs
Parts == {"cert", "key"}

\* Assumed of the constants by the module that instantiates this one.
CredentialsAssumption ==
    /\ Old \subseteq Pairs
    /\ Absent \notin Pairs /\ Torn \notin Pairs /\ Absent # Torn
    /\ NumDirs \in Nat \ {0}
    /\ MaxOps \in Nat

VARIABLES
    file,       \* the two files of each directory
    made,       \* pairs that exist anywhere
    trusts,     \* pairs the television has accepted from this program
    saved,      \* a pairing has stored its target as the default
    pc,         \* step of each process
    op,         \* "load" or "pair"
    ops,        \* operations started
    dir,        \* directory being looked at
    part,       \* file being looked at or written
    seen,       \* what the first of two Stats found
    buf,        \* content read or generated
    result,     \* how the last operation ended
    clash,      \* others looked at ("read") or wrote ("write") the files
                \* while somebody was writing them (history)
    cut         \* a write failed or its process was killed (history)

localVars == <<op, ops, dir, part, seen, buf>>
tvVars == <<made, trusts, saved>>
vars == <<file, tvVars, pc, localVars, result, clash, cut>>

Files(c) == [q \in Parts |-> c]

Init ==
    /\ file \in [Dirs -> {Files(c) : c \in Old \cup {Absent}}]
    /\ file[1] = Files(Absent)
    /\ made = Old /\ trusts = {} /\ saved = FALSE
    /\ pc = [p \in Procs |-> "idle"]
    /\ op = [p \in Procs |-> "load"]
    /\ ops = [p \in Procs |-> 0]
    /\ dir = [p \in Procs |-> 1]
    /\ part = [p \in Procs |-> "cert"]
    /\ seen = [p \in Procs |-> FALSE]
    /\ buf = [p \in Procs |-> Absent]
    /\ result = [p \in Procs |-> "none"]
    /\ clash = "no" /\ cut = FALSE

Goto(p, from, to) == pc[p] = from /\ pc' = [pc EXCEPT ![p] = to]
Set(f, p, v) == [f EXCEPT ![p] = v]

\* The operation returns.
End(p, how) ==
    /\ pc' = Set(pc, p, "idle")
    /\ result' = Set(result, p, how)

Begin(p) ==
    /\ Goto(p, "idle", "stat")
    /\ ops[p] < MaxOps /\ ops' = Set(ops, p, ops[p] + 1)
    /\ \E o \in {"load", "pair"} : op' = Set(op, p, o)
    /\ dir' = Set(dir, p, 1) /\ part' = Set(part, p, "cert")
    /\ seen' = Set(seen, p, FALSE) /\ buf' = Set(buf, p, Absent)
    /\ result' = Set(result, p, "none")
    /\ UNCHANGED <<file, tvVars, cut>>

-----------------------------------------------------------------------------
(* Looking for the files: Exists, and the Stats of EnsureClientCertificate *)

Found(p) == file[dir[p]][part[p]] # Absent

StatCert(p) ==
    /\ Goto(p, "stat", "stat") /\ part[p] = "cert"
    /\ seen' = Set(seen, p, Found(p))
    /\ part' = Set(part, p, "key")
    /\ UNCHANGED <<file, tvVars, op, ops, dir, buf, result, cut>>

StatKey(p) == pc[p] = "stat" /\ part[p] = "key"

\* One file without the other is an error, for loading and for pairing.
OutOfSync(p) ==
    /\ StatKey(p) /\ seen[p] # Found(p)
    /\ End(p, "outOfSync")
    /\ UNCHANGED <<file, tvVars, localVars, cut>>

\* Mutant for NoMixedPair and TrustedPairStays: pairing always starts from a
\* new pair, without the early return of EnsureClientCertificate.
BothFoundRenews(p) ==
    /\ StatKey(p) /\ seen[p] /\ Found(p)
    /\ part' = Set(part, p, "cert")
    /\ IF op[p] = "load" /\ dir[p] = 1
       THEN End(p, "loaded")
       ELSE /\ pc' = Set(pc, p, IF op[p] = "pair" THEN "generate" ELSE "read")
            /\ UNCHANGED result
    /\ UNCHANGED <<file, tvVars, op, ops, dir, seen, buf, cut>>

\* Both are there.  Service.Credentials asks once more, with the same answer:
\* nothing removes a file.  Older files are copied, pairing uses what it has.
BothFound(p) ==
    /\ StatKey(p) /\ seen[p] /\ Found(p)
    /\ part' = Set(part, p, "cert")
    /\ IF op[p] = "load" /\ dir[p] = 1
       THEN End(p, "loaded")
       ELSE /\ pc' = Set(pc, p, IF op[p] = "pair" THEN "open" ELSE "read")
            /\ UNCHANGED result
    /\ UNCHANGED <<file, tvVars, op, ops, dir, seen, buf, cut>>

NoneFound(p) ==
    /\ StatKey(p) /\ ~seen[p] /\ ~Found(p)
    /\ part' = Set(part, p, "cert")
    /\ IF op[p] = "pair"
       THEN pc' = Set(pc, p, "generate") /\ UNCHANGED <<dir, result>>
       ELSE IF dir[p] < NumDirs
            THEN dir' = Set(dir, p, dir[p] + 1) /\ UNCHANGED <<pc, result>>
            ELSE End(p, "notFound") /\ UNCHANGED dir
    /\ UNCHANGED <<file, tvVars, op, ops, seen, buf, cut>>

Look(p) == StatCert(p) \/ OutOfSync(p) \/ BothFound(p) \/ NoneFound(p)

-----------------------------------------------------------------------------
(* Writing them: generateSelfSignedCertificate, migrateCredentials *)

Generate(p) ==
    /\ Goto(p, "generate", "truncate")
    /\ \E k \in Pairs \ made : /\ made' = made \cup {k}
                               /\ buf' = Set(buf, p, k)
    /\ UNCHANGED <<file, trusts, saved, op, ops, dir, part, seen, result, cut>>

\* copyFile reads the older file before it opens the new one.
Read(p) ==
    /\ Goto(p, "read", "truncate")
    /\ buf' = Set(buf, p, file[dir[p]][part[p]])
    /\ UNCHANGED <<file, tvVars, op, ops, dir, part, seen, result, cut>>

Truncate(p) ==
    /\ Goto(p, "truncate", "fill")
    /\ file' = [file EXCEPT ![1][part[p]] = Torn]
    /\ UNCHANGED <<tvVars, localVars, result, cut>>

\* Mutant for AlarmHasCause: migration copies the certificate only.
FillCertOnly(p) ==
    /\ pc[p] = "fill"
    /\ file' = [file EXCEPT ![1][part[p]] = buf[p]]
    /\ IF part[p] = "cert" /\ op[p] = "pair"
       THEN /\ part' = Set(part, p, "key")
            /\ pc' = Set(pc, p, "truncate")
            /\ UNCHANGED result
       ELSE /\ part' = Set(part, p, "cert")
            /\ IF op[p] = "pair" THEN pc' = Set(pc, p, "open") /\ UNCHANGED result
               ELSE End(p, "loaded")
    /\ UNCHANGED <<tvVars, op, ops, dir, seen, buf, cut>>

\* The certificate first, then the key.
Fill(p) ==
    /\ pc[p] = "fill"
    /\ file' = [file EXCEPT ![1][part[p]] = buf[p]]
    /\ IF part[p] = "cert"
       THEN /\ part' = Set(part, p, "key")
            /\ pc' = Set(pc, p, IF op[p] = "pair" THEN "truncate" ELSE "read")
            /\ UNCHANGED result
       ELSE /\ part' = Set(part, p, "cert")
            /\ IF op[p] = "pair" THEN pc' = Set(pc, p, "open") /\ UNCHANGED result
               ELSE End(p, "loaded")
    /\ UNCHANGED <<tvVars, op, ops, dir, seen, buf, cut>>

\* A read or a write fails.  Load answers with the older files.
FileFails(p) ==
    /\ pc[p] \in {"read", "truncate", "fill"}
    /\ End(p, IF op[p] = "pair" THEN "failed" ELSE "loaded")
    /\ cut' = TRUE
    /\ UNCHANGED <<file, tvVars, localVars>>

WriteFiles(p) == Generate(p) \/ Read(p) \/ Truncate(p) \/ Fill(p) \/ FileFails(p)

-----------------------------------------------------------------------------
(* Pairing with the television: LoadX509KeyPair, start, finish, SaveDefault *)

OpenCert(p) ==
    /\ Goto(p, "open", "open") /\ part[p] = "cert"
    /\ buf' = Set(buf, p, file[1].cert)
    /\ part' = Set(part, p, "key")
    /\ UNCHANGED <<file, tvVars, op, ops, dir, seen, result, cut>>

Matching(p) == buf[p] \in Pairs /\ file[1].key = buf[p]

OpenKey(p) ==
    /\ Goto(p, "open", "dial") /\ part[p] = "key"
    /\ Matching(p)
    /\ UNCHANGED <<file, tvVars, localVars, result, cut>>

OpenFails(p) ==
    /\ pc[p] = "open" /\ part[p] = "key"
    /\ ~Matching(p)
    /\ End(p, "failed")
    /\ UNCHANGED <<file, tvVars, localVars, cut>>

\* Only the dial looks at the context.
Dial(p) ==
    /\ Goto(p, "dial", "start")
    /\ UNCHANGED <<file, tvVars, localVars, result, cut>>

\* Request, options and configuration are acknowledged; the code is shown.
TVStarts(p) ==
    /\ Goto(p, "start", "code")
    /\ UNCHANGED <<file, tvVars, localVars, result, cut>>

\* A right code, and the secret is on its way; the television may take it.
SendSecret(p) ==
    /\ Goto(p, "code", "ack")
    /\ trusts' \in {trusts, trusts \cup {buf[p]}}
    /\ UNCHANGED <<file, made, saved, localVars, result, cut>>

TVAccepts(p) ==
    /\ Goto(p, "ack", "save")
    /\ buf[p] \in trusts
    /\ UNCHANGED <<file, tvVars, localVars, result, cut>>

\* A wrong code (the hash tells, or the television), a status that is not OK,
\* a connection that breaks.
PairingFails(p) ==
    /\ pc[p] \in {"dial", "start", "code", "ack"}
    /\ End(p, "failed")
    /\ UNCHANGED <<file, tvVars, localVars, cut>>

Save(p) ==
    /\ pc[p] = "save"
    /\ saved' = TRUE
    /\ End(p, "paired")
    /\ UNCHANGED <<file, made, trusts, localVars, cut>>

SaveFails(p) ==
    /\ pc[p] = "save"
    /\ End(p, "failed")
    /\ UNCHANGED <<file, tvVars, localVars, cut>>

Client(p) == \/ OpenCert(p) \/ OpenKey(p) \/ OpenFails(p) \/ Dial(p)
             \/ SendSecret(p) \/ Save(p) \/ SaveFails(p)

TV(p) == TVStarts(p) \/ TVAccepts(p) \/ PairingFails(p)

\* The process is killed, or the remote is closed.
Crash(p) ==
    /\ pc[p] # "idle"
    /\ End(p, "none")
    /\ cut' = TRUE
    /\ UNCHANGED <<file, tvVars, localVars>>

-----------------------------------------------------------------------------
\* From the moment a process has found a current file missing until it has
\* written both, it acts on what it saw.
Writing(p) ==
    \/ pc[p] \in {"generate", "read", "truncate", "fill"}
    \/ pc[p] = "stat" /\ (dir[p] > 1 \/ (part[p] = "key" /\ ~seen[p]))

Together(level) == \E p, q \in Procs :
    /\ p # q /\ Writing(p)
    /\ IF level = "write" THEN Writing(q) ELSE pc[q] \in {"stat", "open"}

Watch == clash' = IF clash = "write" \/ Together("write")' THEN "write"
                  ELSE IF clash = "read" \/ Together("read")' THEN "read"
                  ELSE "no"

Step(p) == Begin(p) \/ Look(p) \/ WriteFiles(p) \/ Client(p) \/ TV(p) \/ Crash(p)

Next == (\E p \in Procs : Step(p)) /\ Watch

Spec == Init /\ [][Next]_vars

\* The program runs; the television owes no answer.
Running(p) == (Look(p) \/ WriteFiles(p) \/ Client(p)) /\ Watch

FairSpec == Spec /\ \A p \in Procs : WF_vars(Running(p))

-----------------------------------------------------------------------------
(* Properties *)

\* However processes are killed and writes fail, the current directory never
\* holds the certificate of one pair beside the key of another, as long as no
\* two processes write it at once (EnsureClientCertificate, Load).
NoMixedPair ==
    clash # "write" /\ file[1].cert \in Pairs /\ file[1].key \in Pairs =>
        file[1].cert = file[1].key

\* What a television has accepted stays in the files: neither a later pairing,
\* nor a migration, nor a crash replaces it (EnsureClientCertificate, Load).
TrustedPairStays ==
    clash # "write" => \A k \in trusts : file[1] = Files(k)

\* Half a pair is reported only after a write was cut short, or when somebody
\* looked while another was writing (Exists, EnsureClientCertificate).
AlarmHasCause ==
    (\E p \in Procs : result[p] = "outOfSync") => cut \/ clash # "no"

\* cli.go:113 gives pairing a timeout.  Refuted: after the dial nothing looks
\* at the context, and a television that does not answer is waited for.
PairingTimesOut == \A p \in Procs : pc[p] = "start" ~> pc[p] = "idle"
=============================================================================
