-------------------------- MODULE TargetStore_proofs --------------------------
(****************************************************************************)
(* For every number of processes, televisions, directories and requests: a  *)
(* torn file has a cause, an older target does not win, and connections are *)
(* opened in advance to chosen televisions only.                            *)
(****************************************************************************)
EXTENDS TargetStore, TLAPS

\* The files hold what a user has chosen, now or in an older version; the older
\* directories are never written.
Kept ==
    /\ \A d \in Dirs : file[d] \in chosen \cup Old \cup {None, Torn}
    /\ \A d \in Dirs \ {1} : file[d] \in Old \cup {None}
    /\ warmed \subseteq chosen \cup Old

\* Once a first look has found a target the second one finds one too: no file
\* is removed.
LocalsOf(p) ==
    /\ pc[p] \in {"read", "discover"} => asked[p] = None
    /\ pc[p] = "read" /\ isSaved[p] => \E d \in Dirs : dir[p] <= d /\ file[d] # None
    /\ pc[p] = "discover" => ~isSaved[p]
    /\ Saving(p) /\ dir[p] = 1 => held[p] \in chosen
    /\ Saving(p) /\ dir[p] > 1 =>
          held[p] \in Old /\ file[dir[p]] # None /\ asked[p] = None
    /\ pc[p] = "resolved" =>
          /\ held[p] # None
          /\ asked[p] # None \/ isSaved[p] => held[p] \in chosen \cup Old

InHand == \A p \in Procs : LocalsOf(p)

Alone == \A p, q \in Procs : Saving(p) /\ Busy(q) => p = q

\* One who writes alone writes over an empty file, and one who has seen no
\* current file is right about it.
Undisturbed ==
    /\ picked => file[1] # None
    /\ ~clash =>
          /\ Alone
          /\ \A p \in Procs : pc[p] = "write" => file[1] = Torn
          /\ file[1] = Torn => cut \/ \E p \in Procs : pc[p] = "write"
          /\ \A p \in Procs : Busy(p) /\ dir[p] > 1 => ~picked
          /\ picked => file[1] \in chosen \cup {Torn}

IInv == TypeOK /\ Kept /\ InHand /\ Undisturbed

-----------------------------------------------------------------------------
LEMMA Initially == Init => IInv
<1>. SUFFICES ASSUME Init PROVE IInv
  OBVIOUS
<1>1. 1 \in Dirs /\ 0 \in 0 .. MaxOps
  BY TargetStoreAssumption DEF Dirs
<1>2. TypeOK
  BY <1>1, TargetStoreAssumption DEF Init, TypeOK
<1>3. Kept /\ InHand /\ Undisturbed
  BY <1>1, TargetStoreAssumption
     DEF Init, Kept, InHand, LocalsOf, Undisturbed, Alone, Saving, Busy
<1>. QED
  BY <1>2, <1>3 DEF IInv

\* What Watch notes.
LEMMA Watched ==
    ASSUME IInv, Watch
    PROVE  clash' \in BOOLEAN /\ (~clash' => ~clash /\ Alone')
BY DEF Watch, Alone, IInv, TypeOK

\* The directories are numbers from 1 on.
LEMMA DirsAreNumbers ==
    /\ 1 \in Dirs
    /\ \A d \in Dirs : d \in Nat /\ d >= 1 /\ d <= NumDirs
    /\ \A d \in Dirs : d < NumDirs => d + 1 \in Dirs
BY TargetStoreAssumption DEF Dirs

LEMMA LastDir ==
    ASSUME NEW d \in Dirs, NEW e \in Dirs, ~(d < NumDirs), d <= e
    PROVE  e = d
BY DirsAreNumbers, TargetStoreAssumption

\* A request that returns, or whose process dies; a write cut short is noted.
Ends(p) ==
    /\ \E how \in {"none", "corrupt", "failed", "unresolved", "sent"} : End(p, how)
    /\ cut' \in BOOLEAN /\ (cut \/ pc[p] = "write" => cut')
    /\ UNCHANGED <<file, requestVars, dir, first, held, isSaved, histVars>>

LEMMA EndsKeeps == ASSUME IInv, Watch, NEW p \in Procs, Ends(p) PROVE IInv'
<1>. USE DEF IInv, TypeOK, Set, At, Goto, End, requestVars, histVars, Ends
<1>1. TypeOK'
  BY Watched, DirsAreNumbers, TargetStoreAssumption DEF InHand, LocalsOf, Saving
<1>2. Kept'
  BY TargetStoreAssumption DEF Kept, InHand, LocalsOf, Saving
<1>3. InHand'
  BY DirsAreNumbers, TargetStoreAssumption DEF InHand, LocalsOf, Saving, Kept
<1>4. Undisturbed'
  BY Watched, DirsAreNumbers, TargetStoreAssumption
     DEF Undisturbed, Alone, Saving, Busy, InHand, LocalsOf, Kept
<1>. QED
  BY <1>1, <1>2, <1>3, <1>4

-----------------------------------------------------------------------------
(* One step for each action *)

\* Load returns, to the second look or to the request.
LEMMA LoadedType ==
    ASSUME TypeOK, NEW p \in Procs, NEW t \in Targets \cup {None}, Loaded(p, t)
    PROVE  /\ pc' \in [Procs -> {"idle", "read", "open", "write", "discover",
                               "resolved"}]
           /\ result' = result
           /\ dir' \in [Procs -> Dirs] /\ held' \in [Procs -> Targets \cup {None}]
           /\ first' \in [Procs -> BOOLEAN] /\ isSaved' \in [Procs -> BOOLEAN]
<1>. USE DEF TypeOK, Loaded, Set, Goto
<1>1. /\ pc' \in [Procs -> {"idle", "read", "open", "write", "discover",
                           "resolved"}]
      /\ result' = result
      /\ dir' \in [Procs -> Dirs] /\ held' \in [Procs -> Targets \cup {None}]
  BY DirsAreNumbers
<1>2. first' \in [Procs -> BOOLEAN]
  OBVIOUS
<1>3. PICK b \in BOOLEAN : isSaved' = [isSaved EXCEPT ![p] = b]
  OBVIOUS
<1>. QED
  BY <1>1, <1>2, <1>3

\* What a process is about to save: what a user has chosen, or an older target.
LEMMA HeldTarget ==
    ASSUME IInv, NEW p \in Procs, Saving(p)
    PROVE  /\ dir[p] \in Nat /\ dir[p] >= 1 /\ held[p] \in Targets
           /\ dir[p] = 1 => held[p] \in chosen
           /\ held[p] \in chosen \cup Old
<1>1. dir[p] \in Nat /\ dir[p] >= 1 /\ (dir[p] = 1 \/ dir[p] > 1)
  <2>1. dir[p] \in Dirs
    BY DEF IInv, TypeOK
  <2>. QED
    BY <2>1, DirsAreNumbers
<1>2. /\ dir[p] = 1 => held[p] \in chosen
      /\ dir[p] > 1 => held[p] \in Old
  BY DEF IInv, InHand, LocalsOf
<1>3. chosen \subseteq Targets /\ Old \subseteq Targets
  BY TargetStoreAssumption DEF IInv, TypeOK
<1>. QED
  BY <1>1, <1>2, <1>3

\* The process that has loaded t from its directory, or has found nothing.
LEMMA LoadedInHand ==
    ASSUME IInv, NEW p \in Procs, NEW t \in Targets \cup {None}, Loaded(p, t),
           asked[p] = None, asked' = asked,
           \A d \in Dirs : file[d] # None => file'[d] # None,
           chosen \subseteq chosen',
           t # None => t \in chosen \cup Old /\ file[dir[p]] # None,
           t = None => ~isSaved[p]
    PROVE  InHand'
<1>. USE DEF IInv, TypeOK, InHand, LocalsOf, Loaded, Set, Goto, Saving
<1>1. ASSUME NEW q \in Procs, q # p PROVE LocalsOf(q)'
  BY <1>1, DirsAreNumbers
<1>2. LocalsOf(p)'
  <2>1. CASE t = None
    BY <2>1, DirsAreNumbers
  <2>2. CASE t # None
    BY <2>2, DirsAreNumbers
  <2>. QED
    BY <2>1, <2>2
<1>. QED
  BY <1>1, <1>2

LEMMA BeginKeeps == ASSUME IInv, Watch, NEW p \in Procs, Begin(p) PROVE IInv'
<1>. USE DEF IInv, TypeOK, Set, At, Goto, End, requestVars, histVars, Begin
<1>1. TypeOK'
  BY Watched, DirsAreNumbers, TargetStoreAssumption DEF InHand, LocalsOf, Saving
<1>2. Kept'
  BY TargetStoreAssumption DEF Kept, InHand, LocalsOf, Saving
<1>3. InHand'
  BY DirsAreNumbers, TargetStoreAssumption DEF InHand, LocalsOf, Saving, Kept
<1>4. Undisturbed'
  BY Watched, DirsAreNumbers, TargetStoreAssumption
     DEF Undisturbed, Alone, Saving, Busy, InHand, LocalsOf, Kept
<1>. QED
  BY <1>1, <1>2, <1>3, <1>4

LEMMA ReadNothingKeeps ==
    ASSUME IInv, Watch, NEW p \in Procs, ReadNothing(p) PROVE IInv'
<1>. USE DEF IInv, TypeOK, Set, At, Goto, End, requestVars, histVars,
             ReadNothing, Content, Loaded
<1>1. TypeOK'
  <2>1. CASE dir[p] < NumDirs
    BY <2>1, Watched, DirsAreNumbers
  <2>2. CASE Loaded(p, None)
    BY <2>2, Watched, LoadedType
  <2>. QED
    BY <2>1, <2>2
<1>2. Kept'
  BY TargetStoreAssumption DEF Kept, InHand, LocalsOf, Saving
<1>3. InHand'
  <2>1. CASE dir[p] < NumDirs
    <3>1. isSaved[p] => \E d \in Dirs : dir[p] + 1 <= d /\ file[d] # None
      <4>. SUFFICES ASSUME isSaved[p]
                    PROVE  \E d \in Dirs : dir[p] + 1 <= d /\ file[d] # None
        OBVIOUS
      <4>1. PICK d \in Dirs : dir[p] <= d /\ file[d] # None
        BY DEF InHand, LocalsOf
      <4>2. d # dir[p] /\ d \in Nat /\ dir[p] \in Nat
        BY <4>1, DirsAreNumbers
      <4>. QED
        BY <4>1, <4>2
    <3>. QED
      BY <2>1, <3>1, DirsAreNumbers DEF InHand, LocalsOf, Saving
  <2>2. CASE ~(dir[p] < NumDirs)
    <3>1. \A d \in Dirs : dir[p] <= d => d = dir[p]
      BY <2>2, LastDir
    <3>2. ~isSaved[p] /\ asked[p] = None
      BY <3>1 DEF InHand, LocalsOf
    <3>. QED
      BY <2>2, <3>2, LoadedInHand
  <2>. QED
    BY <2>1, <2>2
<1>4. Undisturbed'
  BY Watched, DirsAreNumbers, TargetStoreAssumption
     DEF Undisturbed, Alone, Saving, Busy, InHand, LocalsOf, Kept
<1>. QED
  BY <1>1, <1>2, <1>3, <1>4

LEMMA ReadTargetKeeps == ASSUME IInv, Watch, NEW p \in Procs, ReadTarget(p) PROVE IInv'
<1>. USE DEF IInv, TypeOK, Set, At, Goto, End, requestVars, histVars,
             ReadTarget, Content, Loaded
<1>1. TypeOK'
  <2>1. CASE dir[p] = 1
    BY <2>1, Watched, LoadedType
  <2>2. CASE dir[p] # 1
    BY <2>2, Watched
  <2>. QED
    BY <2>1, <2>2
<1>2. Kept'
  BY TargetStoreAssumption DEF Kept, InHand, LocalsOf, Saving
<1>3. InHand'
  BY DirsAreNumbers, TargetStoreAssumption DEF InHand, LocalsOf, Saving, Kept
<1>4. Undisturbed'
  BY Watched, DirsAreNumbers, TargetStoreAssumption
     DEF Undisturbed, Alone, Saving, Busy, InHand, LocalsOf, Kept
<1>. QED
  BY <1>1, <1>2, <1>3, <1>4

LEMMA OpenKeeps == ASSUME IInv, Watch, NEW p \in Procs, Open(p) PROVE IInv'
<1>. USE DEF IInv, TypeOK, Set, At, Goto, End, requestVars, histVars, Open
<1>1. TypeOK'
  BY Watched, DirsAreNumbers, TargetStoreAssumption DEF InHand, LocalsOf, Saving
<1>2. Kept'
  BY TargetStoreAssumption DEF Kept, InHand, LocalsOf, Saving
<1>3. InHand'
  BY DirsAreNumbers, TargetStoreAssumption DEF InHand, LocalsOf, Saving, Kept
<1>4. Undisturbed'
  BY Watched, DirsAreNumbers, TargetStoreAssumption
     DEF Undisturbed, Alone, Saving, Busy, InHand, LocalsOf, Kept
<1>. QED
  BY <1>1, <1>2, <1>3, <1>4

LEMMA WriteKeeps == ASSUME IInv, Watch, NEW p \in Procs, Write(p) PROVE IInv'
<1>. USE DEF IInv, TypeOK, Set, At, Goto, End, requestVars, histVars,
             Write, Saved, Migrating, Loaded
<1>1. TypeOK'
  <2>1. /\ file' \in [Dirs -> Targets \cup {None, Torn}] /\ picked' \in BOOLEAN
        /\ clash' \in BOOLEAN /\ held[p] \in Targets
    <3>1. held[p] \in Targets
      BY HeldTarget DEF Saving
    <3>2. file' \in [Dirs -> Targets \cup {None, Torn}]
      <4>1. PICK c \in Targets \cup {Torn} : file' = [file EXCEPT ![1] = c]
        BY <3>1
      <4>2. file \in [Dirs -> Targets \cup {None, Torn}]
        OBVIOUS
      <4>. QED
        BY <4>1, <4>2
    <3>3. picked' \in BOOLEAN
      OBVIOUS
    <3>. QED
      BY <3>1, <3>2, <3>3, Watched
  <2>2. CASE dir[p] > 1
    BY <2>1, <2>2, LoadedType
  <2>3. CASE ~(dir[p] > 1)
    BY <2>1, <2>3
  <2>. QED
    BY <2>1, <2>2, <2>3
<1>2. Kept'
  <2>1. held[p] \in chosen \cup Old
    BY HeldTarget DEF Saving
  <2>. QED
    BY <2>1, DirsAreNumbers DEF Kept
<1>3. InHand'
  BY DirsAreNumbers, TargetStoreAssumption DEF InHand, LocalsOf, Saving, Kept
<1>4. Undisturbed'
  <2>1. /\ dir[p] \in Nat /\ dir[p] >= 1 /\ held[p] \notin {None, Torn}
        /\ dir[p] = 1 => held[p] \in chosen
    BY HeldTarget, TargetStoreAssumption DEF Saving
  <2>2. file'[1] \in {held[p], Torn}
    BY DirsAreNumbers
  <2>3. picked' => file'[1] # None
    BY <2>1, <2>2, TargetStoreAssumption
  <2>4. ASSUME ~clash'
        PROVE  /\ ~clash /\ Alone' /\ file'[1] = held[p]
               /\ \A q \in Procs \ {p} : ~Busy(q) /\ ~(Saving(q) \/ Busy(q))'
    BY <2>4, DirsAreNumbers, Watched DEF Undisturbed, Alone, Saving, Busy
  <2>5. ASSUME ~clash' PROVE picked' => file'[1] \in chosen \cup {Torn}
    BY <2>1, <2>4, <2>5 DEF Undisturbed, Busy, Saving
  <2>6. ASSUME ~clash' PROVE \A q \in Procs : (Busy(q) /\ dir[q] > 1)' => ~picked'
    BY <2>1, <2>4, <2>6 DEF Undisturbed, Busy, Saving
  <2>7. ASSUME ~clash' PROVE \A q \in Procs : pc'[q] = "write" => file'[1] = Torn
    BY <2>4, <2>7 DEF Saving
  <2>. QED
    BY <2>1, <2>3, <2>4, <2>5, <2>6, <2>7 DEF Undisturbed
<1>. QED
  BY <1>1, <1>2, <1>3, <1>4

LEMMA SaveFailsKeeps == ASSUME IInv, Watch, NEW p \in Procs, SaveFails(p) PROVE IInv'
<1>. USE DEF IInv, TypeOK, Set, At, Goto, End, requestVars, histVars,
             SaveFails, Saved, Migrating, Loaded
<1>1. TypeOK'
  <2>1. CASE dir[p] > 1
    BY <2>1, Watched, LoadedType
  <2>2. CASE ~(dir[p] > 1)
    BY <2>2, Watched
  <2>. QED
    BY <2>1, <2>2
<1>2. Kept'
  BY TargetStoreAssumption DEF Kept, InHand, LocalsOf, Saving
<1>3. InHand'
  BY DirsAreNumbers, TargetStoreAssumption DEF InHand, LocalsOf, Saving, Kept
<1>4. Undisturbed'
  BY Watched, DirsAreNumbers, TargetStoreAssumption
     DEF Undisturbed, Alone, Saving, Busy, InHand, LocalsOf, Kept
<1>. QED
  BY <1>1, <1>2, <1>3, <1>4

LEMMA DiscoverKeeps == ASSUME IInv, Watch, NEW p \in Procs, Discover(p) PROVE IInv'
<1>. USE DEF IInv, TypeOK, Set, At, Goto, End, requestVars, histVars, Discover
<1>1. TypeOK'
  BY Watched, DirsAreNumbers, TargetStoreAssumption DEF InHand, LocalsOf, Saving
<1>2. Kept'
  BY TargetStoreAssumption DEF Kept, InHand, LocalsOf, Saving
<1>3. InHand'
  BY DirsAreNumbers, TargetStoreAssumption DEF InHand, LocalsOf, Saving, Kept
<1>4. Undisturbed'
  BY Watched, DirsAreNumbers, TargetStoreAssumption
     DEF Undisturbed, Alone, Saving, Busy, InHand, LocalsOf, Kept
<1>. QED
  BY <1>1, <1>2, <1>3, <1>4

LEMMA ShowKeeps == ASSUME IInv, Watch, NEW p \in Procs, Show(p) PROVE IInv'
<1>. USE DEF IInv, TypeOK, Set, At, Goto, End, requestVars, histVars, Show
<1>1. TypeOK'
  BY Watched, DirsAreNumbers, TargetStoreAssumption DEF InHand, LocalsOf, Saving
<1>2. Kept'
  BY TargetStoreAssumption DEF Kept, InHand, LocalsOf, Saving
<1>3. InHand'
  BY DirsAreNumbers, TargetStoreAssumption DEF InHand, LocalsOf, Saving, Kept
<1>4. Undisturbed'
  BY Watched, DirsAreNumbers, TargetStoreAssumption
     DEF Undisturbed, Alone, Saving, Busy, InHand, LocalsOf, Kept
<1>. QED
  BY <1>1, <1>2, <1>3, <1>4

LEMMA PairKeeps == ASSUME IInv, Watch, NEW p \in Procs, Pair(p) PROVE IInv'
<1>. USE DEF IInv, TypeOK, Set, At, Goto, End, requestVars, histVars, Pair
<1>1. TypeOK'
  BY Watched, DirsAreNumbers, TargetStoreAssumption DEF InHand, LocalsOf, Saving
<1>2. Kept'
  BY TargetStoreAssumption DEF Kept, InHand, LocalsOf, Saving
<1>3. InHand'
  BY DirsAreNumbers, TargetStoreAssumption DEF InHand, LocalsOf, Saving, Kept
<1>4. Undisturbed'
  BY Watched, DirsAreNumbers, TargetStoreAssumption
     DEF Undisturbed, Alone, Saving, Busy, InHand, LocalsOf, Kept
<1>. QED
  BY <1>1, <1>2, <1>3, <1>4

LEMMA ReturnKeeps ==
    ASSUME IInv, Watch, NEW p \in Procs, ReadTorn(p) \/ Send(p) \/ Crash(p)
    PROVE  IInv'
<1>1. Ends(p)
  BY DEF ReadTorn, Send, Crash, At, Ends, IInv, TypeOK
<1>. QED
  BY <1>1, EndsKeeps

-----------------------------------------------------------------------------
(* Results *)

LEMMA Inductive == IInv /\ [Next]_vars => IInv'
<1>. SUFFICES ASSUME IInv, [Next]_vars PROVE IInv'
  OBVIOUS
<1>1. ASSUME NEW p \in Procs, Watch, Step(p) PROVE IInv'
  BY <1>1, BeginKeeps, ReadNothingKeeps, ReadTargetKeeps, OpenKeeps, WriteKeeps,
     SaveFailsKeeps, DiscoverKeeps, ShowKeeps, PairKeeps, ReturnKeeps DEF Step
<1>2. CASE UNCHANGED vars
  BY <1>2 DEF vars, requestVars, histVars, IInv, TypeOK, Kept, InHand, LocalsOf,
              Undisturbed, Alone, Saving, Busy, At
<1>. QED
  BY <1>1, <1>2 DEF Next

LEMMA Invariant == Spec => []IInv
BY Initially, Inductive, PTL DEF Spec

\* Every variable has its type.
THEOREM TypeCorrect == Spec => []TypeOK
<1>1. IInv => TypeOK
  BY DEF IInv
<1>. QED
  BY <1>1, Invariant, PTL

\* The current file is torn at rest only if a write was cut short or two
\* processes met (Save, Load).
THEOREM TornFileHasCause == Spec => []TornHasCause
<1>1. IInv => TornHasCause
  BY DEF IInv, Undisturbed, TornHasCause, AtRest, Saving
<1>. QED
  BY <1>1, Invariant, PTL

\* A saved target is not replaced by an older one unless two processes meet
\* (Load).
THEOREM OlderTargetLoses == Spec => []OlderNeverWins
<1>1. IInv => OlderNeverWins
  BY DEF IInv, Undisturbed, OlderNeverWins
<1>. QED
  BY <1>1, Invariant, PTL

\* Connections are opened in advance only to televisions somebody has chosen
\* (remote.Load).
THEOREM WarmsChosen == Spec => []WarmsOnlyChosen
<1>1. IInv => WarmsOnlyChosen
  BY DEF IInv, Kept, WarmsOnlyChosen
<1>. QED
  BY <1>1, Invariant, PTL
=============================================================================
