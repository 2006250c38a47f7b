----------------------------- MODULE TargetStore -----------------------------
(****************************************************************************)
(* The default target: one file of the configuration directory that loading *)
(* migrates from an older directory (TargetStore.Load), that selecting and  *)
(* pairing replace (Save), and the resolution of a target for every request *)
(* (device.Service.Resolve, remote.Service.Load).  Requests are goroutines  *)
(* and processes with no lock between them; each may be killed anywhere.    *)
(****************************************************************************)
EXTENDS Naturals

CONSTANTS
    Procs,      \* goroutines and processes
    Targets,    \* televisions
    Old,        \* targets that older versions have left behind
    None,       \* no file, no target
    Torn,       \* an empty or partly written file
    NumDirs,    \* directories searched: 3 in the code, the first is the current
    MaxOps      \* bound: requests each process makes

Dirs == 1..NumDirs

ASSUME TargetStoreAssumption ==
    /\ Old \subseteq Targets
    /\ None \notin Targets /\ Torn \notin Targets /\ None # Torn
    /\ NumDirs \in Nat \ {0}
    /\ MaxOps \in Nat

VARIABLES
    file,       \* target.json of each directory
    pc,         \* step of each process
    op,         \* its request: "load", "send", "pair" or "select"
    ops,        \* requests made
    asked,      \* the target the request names, or None
    dir,        \* directory being read
    first,      \* remote.Load is at LoadDefault, before its Resolve
    held,       \* target read, resolved or to be saved
    isSaved,    \* State.SavedTarget: what LoadDefault found
    result,     \* how the last request ended
    warmed,     \* targets that a Warmup has gone to (history)
    chosen,     \* targets that a user has named or paired with (history)
    picked,     \* a target of a user has been saved (history)
    clash,      \* two processes were busy with the file at once (history)
    cut         \* a write failed or its process was killed (history)

requestVars == <<op, ops, asked>>
histVars == <<warmed, chosen, picked>>
vars == <<file, pc, requestVars, dir, first, held, isSaved, result, histVars,
          clash, cut>>

Init ==
    /\ file \in [Dirs -> Old \cup {None}] /\ file[1] = None
    /\ pc = [p \in Procs |-> "idle"]
    /\ op = [p \in Procs |-> "load"] /\ ops = [p \in Procs |-> 0]
    /\ asked = [p \in Procs |-> None]
    /\ dir = [p \in Procs |-> 1] /\ first = [p \in Procs |-> FALSE]
    /\ held = [p \in Procs |-> None] /\ isSaved = [p \in Procs |-> FALSE]
    /\ result = [p \in Procs |-> "none"]
    /\ warmed = {} /\ chosen = {} /\ picked = FALSE
    /\ clash = FALSE /\ cut = FALSE

Set(f, p, v) == [f EXCEPT ![p] = v]
At(p, step) == pc[p] = step
Goto(p, step) == pc' = Set(pc, p, step) /\ UNCHANGED result

\* The request returns.
End(p, how) ==
    /\ pc' = Set(pc, p, "idle")
    /\ result' = Set(result, p, how)

\* A request names its target, which then needs no looking up, or relies on
\* the default; selecting names one.
Begin(p) ==
    /\ At(p, "idle") /\ ops[p] < MaxOps /\ ops' = Set(ops, p, ops[p] + 1)
    /\ \E o \in {"load", "send", "pair", "select"}, t \in Targets \cup {None} :
        /\ o = "select" => t # None
        /\ op' = Set(op, p, o) /\ asked' = Set(asked, p, t)
        /\ held' = Set(held, p, t)
        /\ first' = Set(first, p, o = "load" /\ t = None)
        /\ pc' = Set(pc, p, IF o = "select" THEN "open"
                            ELSE IF t = None THEN "read" ELSE "resolved")
        /\ chosen' = chosen \cup ({t} \ {None})
    /\ dir' = Set(dir, p, 1) /\ isSaved' = Set(isSaved, p, FALSE)
    /\ result' = Set(result, p, "none")
    /\ UNCHANGED <<file, warmed, picked, cut>>

-----------------------------------------------------------------------------
(* TargetStore.Load *)

Content(p) == file[dir[p]]

\* remote.Load looks twice: for State.SavedTarget, and to resolve the target.
Loaded(p, t) ==
    /\ dir' = Set(dir, p, 1)
    /\ first' = Set(first, p, FALSE)
    /\ held' = Set(held, p, t)
    /\ isSaved' = Set(isSaved, p, IF first[p] THEN t # None ELSE isSaved[p])
    /\ Goto(p, IF first[p] THEN "read" ELSE IF t = None THEN "discover" ELSE "resolved")

ReadNothing(p) ==
    /\ At(p, "read") /\ Content(p) = None
    /\ IF dir[p] < NumDirs
       THEN /\ dir' = Set(dir, p, dir[p] + 1)
            /\ UNCHANGED <<pc, first, held, isSaved, result>>
       ELSE Loaded(p, None)
    /\ UNCHANGED <<file, requestVars, histVars, cut>>

\* Mutant for OlderNeverWins: any error, not only a missing file, makes Load
\* go on to the older directories.
ReadTornGoesOn(p) ==
    /\ At(p, "read") /\ Content(p) = Torn
    /\ IF dir[p] < NumDirs
       THEN /\ dir' = Set(dir, p, dir[p] + 1)
            /\ UNCHANGED <<pc, first, held, isSaved, result>>
       ELSE Loaded(p, None)
    /\ UNCHANGED <<file, requestVars, histVars, cut>>

\* A file that cannot be decoded fails the request.
ReadTorn(p) ==
    /\ At(p, "read") /\ Content(p) = Torn
    /\ End(p, "corrupt")
    /\ UNCHANGED <<file, requestVars, dir, first, held, isSaved, histVars, cut>>

\* A target of an older directory is saved into the current one.
ReadTarget(p) ==
    /\ At(p, "read") /\ Content(p) \in Targets
    /\ IF dir[p] = 1
       THEN Loaded(p, Content(p))
       ELSE /\ held' = Set(held, p, Content(p)) /\ Goto(p, "open")
            /\ UNCHANGED <<dir, first, isSaved>>
    /\ UNCHANGED <<file, requestVars, histVars, cut>>

-----------------------------------------------------------------------------
(* TargetStore.Save *)

Migrating(p) == dir[p] > 1

\* Load answers with the target whether or not it could be migrated.
Saved(p, how) == IF Migrating(p) THEN Loaded(p, held[p])
                 ELSE End(p, how) /\ UNCHANGED <<dir, first, held, isSaved>>

Open(p) ==
    /\ At(p, "open") /\ Goto(p, "write")
    /\ file' = Set(file, 1, Torn)
    /\ UNCHANGED <<requestVars, dir, first, held, isSaved, histVars, cut>>

\* Over what somebody else has written since, a shorter text leaves a rest.
Write(p) ==
    /\ At(p, "write")
    /\ \E c \in {held[p]} \cup (IF file[1] \in {Torn, held[p]} THEN {} ELSE {Torn}) :
        file' = Set(file, 1, c)
    /\ picked' = (picked \/ ~Migrating(p))
    /\ Saved(p, "saved")
    /\ UNCHANGED <<requestVars, warmed, chosen, cut>>
\* No space, no permission.
SaveFails(p) ==
    /\ pc[p] \in {"open", "write"}
    /\ Saved(p, "failed")
    /\ cut' = TRUE
    /\ UNCHANGED <<file, requestVars, histVars>>

-----------------------------------------------------------------------------
(* What the resolved target is for *)

Discover(p) ==
    /\ At(p, "discover")
    /\ \/ \E t \in Targets : held' = Set(held, p, t) /\ Goto(p, "resolved")
       \/ End(p, "unresolved") /\ UNCHANGED held
    /\ UNCHANGED <<file, requestVars, dir, first, isSaved, histVars, cut>>

Send(p) ==
    /\ At(p, "resolved") /\ op[p] = "send"
    /\ End(p, "sent")
    /\ UNCHANGED <<file, requestVars, dir, first, held, isSaved, histVars, cut>>

\* Mutant for WarmsOnlyChosen: whatever was resolved is connected to.
ShowAndWarm(p) ==
    /\ At(p, "resolved") /\ op[p] = "load"
    /\ warmed' \in {warmed, warmed \cup {held[p]}}
    /\ End(p, "shown")
    /\ UNCHANGED <<file, requestVars, dir, first, held, isSaved, chosen, picked, cut>>

\* A connection is opened in advance when there are credentials and the target
\* has been named or saved: discovering is not choosing.
Show(p) ==
    /\ At(p, "resolved") /\ op[p] = "load"
    /\ warmed' \in {warmed} \cup
           (IF asked[p] # None \/ isSaved[p] THEN {warmed \cup {held[p]}} ELSE {})
    /\ End(p, "shown")
    /\ UNCHANGED <<file, requestVars, dir, first, held, isSaved, chosen, picked, cut>>

\* Mutant for TornHasCause: the file is opened before pairing is tried.
PairOpensFirst(p) ==
    /\ At(p, "resolved") /\ op[p] = "pair"
    /\ file' = Set(file, 1, Torn)
    /\ \/ Goto(p, "open") /\ chosen' = chosen \cup {held[p]}
       \/ End(p, "failed") /\ UNCHANGED chosen
    /\ dir' = Set(dir, p, 1)
    /\ UNCHANGED <<requestVars, first, held, isSaved, warmed, picked, cut>>

\* Controller.Pair saves the target it has paired with.
Pair(p) ==
    /\ At(p, "resolved") /\ op[p] = "pair"
    /\ \/ Goto(p, "open") /\ chosen' = chosen \cup {held[p]}
       \/ End(p, "failed") /\ UNCHANGED chosen
    /\ dir' = Set(dir, p, 1)
    /\ UNCHANGED <<file, requestVars, first, held, isSaved, warmed, picked, cut>>

Crash(p) ==
    /\ ~At(p, "idle")
    /\ End(p, "none")
    /\ cut' = TRUE
    /\ UNCHANGED <<file, requestVars, dir, first, held, isSaved, histVars>>

-----------------------------------------------------------------------------
\* From the moment a process has found no current file until it has written
\* the older one, or while it writes, it acts on what it saw.
Saving(p) == pc[p] \in {"open", "write"}
Busy(p) == Saving(p) \/ (At(p, "read") /\ dir[p] > 1)

Watch == clash' = (clash \/ (\E p, q \in Procs : p # q /\ Saving(p) /\ Busy(q))')

Step(p) ==
    \/ Begin(p)
    \/ ReadNothing(p) \/ ReadTorn(p) \/ ReadTarget(p)
    \/ Open(p) \/ Write(p) \/ SaveFails(p)
    \/ Discover(p) \/ Send(p) \/ Show(p) \/ Pair(p)
    \/ Crash(p)

Next == (\E p \in Procs : Step(p)) /\ Watch

Spec == Init /\ [][Next]_vars

-----------------------------------------------------------------------------
(* Properties *)

\* Every variable has the shape of the Go value or the file it stands for.
TypeOK ==
    /\ file \in [Dirs -> Targets \cup {None, Torn}]
    /\ pc \in [Procs -> {"idle", "read", "open", "write", "discover", "resolved"}]
    /\ op \in [Procs -> {"load", "send", "pair", "select"}]
    /\ ops \in [Procs -> 0..MaxOps]
    /\ asked \in [Procs -> Targets \cup {None}]
    /\ dir \in [Procs -> Dirs]
    /\ first \in [Procs -> BOOLEAN] /\ isSaved \in [Procs -> BOOLEAN]
    /\ held \in [Procs -> Targets \cup {None}]
    /\ result \in [Procs -> {"none", "corrupt", "saved", "failed", "unresolved",
                             "sent", "shown"}]
    /\ warmed \subseteq Targets /\ chosen \subseteq Targets
    /\ picked \in BOOLEAN
    /\ clash \in BOOLEAN /\ cut \in BOOLEAN

AtRest == \A p \in Procs : ~Saving(p)

\* The current file that cannot be read is one whose writing was cut short, or
\* that two processes wrote at once: nothing else may make every later request
\* fail (Save, Load).
TornHasCause == AtRest /\ file[1] = Torn => cut \/ clash

\* A target that a user has saved is never replaced by one of an older version,
\* as long as no two processes are busy with the file (Load).
OlderNeverWins ==
    picked /\ AtRest /\ ~clash => file[1] \in chosen \cup {Torn}

\* TestPrimaryConfigWinsOverLegacy (storage_test.go:53): the target of the current
\* directory wins over an older one.  Refuted: Load saves the older target that
\* it has found over what has been selected since it looked.
PrimaryWins == picked /\ AtRest => file[1] \in chosen \cup {Torn}

\* A connection is opened in advance only to a television that a user has
\* named, selected or paired with, now or in an older version (remote.Load),
\* although the two looks at the file may find different targets.
WarmsOnlyChosen == warmed \subseteq chosen \cup Old
=============================================================================
