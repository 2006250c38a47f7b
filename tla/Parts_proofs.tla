----------------------------- MODULE Parts_proofs -----------------------------
(****************************************************************************)
(* For every set of services, televisions, addresses and texts, and every   *)
(* number of entries: the mutex and the waits of Scan leave one race only,  *)
(* and what Scan returns is right.  For every set of command lines, every   *)
(* list of guesses or keys and every number of resumptions: nvprobe blames  *)
(* the attempt that did it and leaves none out, and wakeprobe leaves a key  *)
(* held only for the causes it names.  For every number and size of         *)
(* messages, and every way to cut the stream: what was sent comes out.      *)
(****************************************************************************)
EXTENDS Parts, Sequences, FiniteSetTheorems, TLAPS

Types ==
    /\ ctx \in {"live", "done"}
    /\ collector \in [Services -> {"none", "select", "stopped", "lock", "write"}]
    /\ DOMAIN hand = Services /\ hand = [s \in Services |-> hand[s]]
    /\ scan \in {"waitCtx", "wait", "read", "returned", "fatal"}

\* Whoever writes the map owns the mutex.
Mutex == \A s \in Services : collector[s] = "write" <=> mu = s

\* Scan goes on from its first wait when the context has ended.
Waited == scan \in {"wait", "read", "returned"} => ctx = "done"

SameKey(d, r) == r.svc = d.svc /\ r.inst = d.inst /\ r.addr = d.addr

\* A set of devices that Scan may return.
Good(devices) ==
    /\ devices \subseteq taken
    /\ \A d \in due : \E r \in devices : SameKey(d, r)
    /\ \A d, e \in devices : SameKey(d, e) => d = e

Recording ==
    /\ Good(records)
    /\ \A s \in Services : collector[s] \in {"lock", "write"} => hand[s] \in taken
    /\ scan = "returned" => Good(found)

\* A collector is started by its browser.
Started ==
    /\ DOMAIN browser = Services /\ DOMAIN collector = Services
    /\ \A s \in Services : browser[s] = "start" => collector[s] = "none"

IInv == Types /\ Mutex /\ Waited /\ Recording

-----------------------------------------------------------------------------
(* The map *)

LEMMA KeyIsSameKey == \A d, e : recordKey(e) = recordKey(d) <=> SameKey(d, e)
BY DEF recordKey, SameKey

\* Recording a device that was received keeps the map good, and adds it.
LEMMA RecordedIsGood ==
    ASSUME Good(records), NEW d \in taken
    PROVE  Good(Recorded(d)) /\ d \in Recorded(d)
BY KeyIsSameKey DEF Good, Recorded, SameKey

LEMMA Initially == Init => IInv
BY DiscoveryAssumption DEF Init, IInv, Types, Mutex, Waited, Recording, Good

-----------------------------------------------------------------------------
(* Steps that leave the map alone *)

\* The variables that the invariant speaks of, but for the collectors' steps.
mapView == <<mapVars, scanVars, hand, taken, due>>

LEMMA CtxEndsKeeps == ASSUME IInv, CtxEnds PROVE IInv'
BY DEF CtxEnds, IInv, Types, Mutex, Waited, Recording, Good, mapVars, scanVars

\* A collector that is neither about to write nor done writing.
LEMMA CollectorMoves ==
    ASSUME IInv, NEW s \in Services, NEW to \in {"select", "stopped"},
           collector[s] # "write", collector' = Set(collector, s, to),
           UNCHANGED <<ctx, mapView>>
    PROVE  IInv'
<1>. USE DEF IInv, Set, mapView, mapVars, scanVars
<1>1. Types' /\ Mutex' /\ Waited'
  BY DEF Types, Mutex, Waited
<1>2. Recording'
  BY DEF Types, Recording, Good
<1>. QED
  BY <1>1, <1>2

LEMMA ViewKept == ASSUME IInv, UNCHANGED <<ctx, collector, mapView>> PROVE IInv'
BY DEF IInv, Types, Mutex, Waited, Recording, Good, mapView, mapVars, scanVars

LEMMA LibraryKeeps == ASSUME IInv, NEW s \in Services, Offers(s) \/ Closes(s) PROVE IInv'
BY ViewKept DEF Offers, Closes, mapView

LEMMA BrowserKeeps == ASSUME IInv, Started, NEW s \in Services, Browser(s) PROVE IInv'
<1>1. CASE ResolverFails(s) \/ BrowseFailed(s) \/ BrowserEnds(s)
  BY <1>1, ViewKept DEF ResolverFails, BrowseFailed, BrowserEnds, mapView
<1>2. CASE Browse(s)
  BY <1>2, CollectorMoves DEF Browse, Started, mapView
<1>. QED
  BY <1>1, <1>2 DEF Browser

LEMMA CollectorEndsKeeps == ASSUME IInv, NEW s \in Services, CollectorEnds(s) PROVE IInv'
BY CollectorMoves DEF CollectorEnds, mapView

LEMMA ReceiveKeeps == ASSUME IInv, NEW s \in Services, Receive(s) PROVE IInv'
<1>. USE DEF IInv, Receive, fromEntry, Set, mapVars, scanVars
<1>1. PICK d : hand' = [hand EXCEPT ![s] = d] /\ taken' = taken \cup {d}
  OBVIOUS
<1>2. Types' /\ Mutex' /\ Waited'
  BY <1>1 DEF Types, Mutex, Waited
<1>3. Recording'
  BY <1>1 DEF Types, Recording, Good
<1>. QED
  BY <1>2, <1>3

LEMMA BeginWriteKeeps == ASSUME IInv, NEW s \in Services, BeginWrite(s) PROVE IInv'
<1>. USE DEF IInv, BeginWrite, Set, scanVars
<1>1. Types' /\ Waited'
  BY DEF Types, Waited
<1>2. Mutex'
  BY DiscoveryAssumption DEF Types, Mutex
<1>3. Recording'
  BY DEF Types, Recording, Good
<1>. QED
  BY <1>1, <1>2, <1>3

LEMMA EndWriteKeeps == ASSUME IInv, NEW s \in Services, EndWrite(s) PROVE IInv'
<1>. USE DEF IInv, EndWrite, Set, scanVars
<1>1. Types' /\ Waited'
  BY DEF Types, Waited
<1>2. Mutex'
  BY DiscoveryAssumption DEF Types, Mutex
<1>3. hand[s] \in taken /\ taken' = taken
  BY DEF Recording
<1>4. Good(records') /\ hand[s] \in records'
  BY <1>3, RecordedIsGood DEF Recording
<1>5. Good(records)'
  BY <1>3, <1>4 DEF Good, SameKey
<1>6. scan = "returned" => Good(found)'
  BY <1>3 DEF Recording, Good
<1>7. Recording'
  BY <1>3, <1>5, <1>6 DEF Types, Recording
<1>. QED
  BY <1>1, <1>2, <1>7

-----------------------------------------------------------------------------
(* Scan *)

LEMMA ScanKeeps == ASSUME IInv, Scan PROVE IInv'
<1>. USE DEF IInv, mapVars
<1>1. CASE ScanWoken \/ BeginRead
  BY <1>1 DEF ScanWoken, BeginRead, Types, Mutex, Waited, Recording, Good
<1>2. CASE EndRead
  <2>. USE <1>2 DEF EndRead
  <2>1. Types' /\ Mutex' /\ Waited'
    BY DEF Types, Mutex, Waited
  <2>2. Good(found')
    BY RecordedIsGood DEF Recording
  <2>3. Recording'
    BY <2>2 DEF Recording, Good
  <2>. QED
    BY <2>1, <2>3
<1>. QED
  BY <1>1, <1>2 DEF Scan

LEMMA FatalKeeps == ASSUME IInv, Fatal PROVE IInv'
BY DEF IInv, Fatal, mapVars, Types, Mutex, Waited, Recording, Good

-----------------------------------------------------------------------------
(* Results *)

LEMMA StartedInvariant == Spec => []Started
<1>1. Init => Started
  BY DEF Init, Started
<1>2. Started /\ [Next]_vars => Started'
  <2>. SUFFICES ASSUME Started, [Next]_vars PROVE Started'
    OBVIOUS
  <2>1. CASE UNCHANGED <<browser, collector>>
    BY <2>1 DEF Started
  <2>2. ASSUME NEW s \in Services, Browser(s) PROVE Started'
    BY <2>2 DEF Started, Browser, ResolverFails, Browse, BrowseFailed, BrowserEnds, Set
  <2>3. ASSUME NEW s \in Services, Collector(s) PROVE Started'
    BY <2>3 DEF Started, Collector, CollectorEnds, Receive, BeginWrite, EndWrite, Set
  <2>4. CASE CtxEnds \/ Scan \/ Fatal
    BY <2>1, <2>4 DEF CtxEnds, Scan, ScanWoken, BeginRead, EndRead, Fatal
  <2>5. ASSUME NEW s \in Services, Offers(s) \/ Closes(s) PROVE Started'
    BY <2>1, <2>5 DEF Offers, Closes
  <2>. QED
    BY <2>1, <2>2, <2>3, <2>4, <2>5 DEF Next, vars
<1>. QED
  BY <1>1, <1>2, PTL DEF Spec

LEMMA Inductive == IInv /\ Started /\ [Next]_vars => IInv'
<1>. SUFFICES ASSUME IInv, Started, [Next]_vars PROVE IInv'
  OBVIOUS
<1>1. CASE CtxEnds \/ Scan \/ Fatal
  BY <1>1, CtxEndsKeeps, ScanKeeps, FatalKeeps
<1>2. ASSUME NEW s \in Services, Offers(s) \/ Closes(s) \/ Browser(s) \/ Collector(s)
      PROVE  IInv'
  BY <1>2, LibraryKeeps, BrowserKeeps, CollectorEndsKeeps, ReceiveKeeps,
     BeginWriteKeeps, EndWriteKeeps DEF Collector
<1>3. CASE UNCHANGED vars
  BY <1>3, ViewKept DEF vars, mapView
<1>. QED
  BY <1>1, <1>2, <1>3 DEF Next

LEMMA Invariant == Spec => []IInv
BY Initially, Inductive, StartedInvariant, PTL DEF Spec

\* Scan's reading of the map is the only step that another goroutine may be in
\* the map with, and then it is one (Scan).
THEOREM OneRace == Spec => []RaceOnlyAtEnd
<1>1. ASSUME IInv PROVE RaceOnlyAtEnd
  <2>. DEFINE writers == {s \in Services : collector[s] = "write"}
  <2>1. writers = {} \/ writers = {mu}
    BY <1>1 DEF IInv, Mutex
  <2>2. Cardinality(writers) = IF writers = {} THEN 0 ELSE 1
    BY <2>1, FS_EmptySet, FS_Singleton
  <2>3. Race => scan = "read" /\ writers # {}
    BY <2>2 DEF Race
  <2>. QED
    BY <1>1, <2>2, <2>3 DEF RaceOnlyAtEnd, IInv, Waited
<1>. QED
  BY <1>1, Invariant, PTL

\* A set with more than one element has two.
LEMMA TwoElements ==
    ASSUME NEW S, Cardinality(S) > 1 PROVE \E x, y \in S : x # y
<1>1. CASE S = {}
  BY <1>1, FS_EmptySet
<1>2. CASE \E x \in S : S = {x}
  BY <1>2, FS_Singleton
<1>. QED
  BY <1>1, <1>2

\* What Scan returns is what was recorded, once each, under its own key (Scan,
\* Discover, ResolveTarget).
THEOREM RightResults == Spec => []ResultsAreRight
<1>1. ASSUME IInv, scan = "returned", ResolveTarget = "multiple devices"
      PROVE  \E d, e \in taken : <<d.svc, d.inst, d.addr>> # <<e.svc, e.inst, e.addr>>
  <2>1. Good(found)
    BY <1>1 DEF IInv, Recording
  <2>2. Cardinality(Discover) > 1 /\ Discover = found
    BY <1>1 DEF ResolveTarget, Discover
  <2>3. PICK d, e \in found : d # e
    BY <2>2, TwoElements
  <2>. QED
    BY <2>1, <2>3 DEF Good, SameKey
<1>2. ASSUME IInv PROVE ResultsAreRight
  BY <1>1, <1>2 DEF ResultsAreRight, IInv, Recording, Good, SameKey
<1>. QED
  BY <1>2, Invariant, PTL

-----------------------------------------------------------------------------
(* NvProbe *)

NvFirst == NvFlags[setup].startAt

NvTypes ==
    /\ setup \in DOMAIN NvFlags /\ startAt \in Nat /\ pos \in Nat /\ logged \in Nat
    /\ (\A i \in DOMAIN sent : i \in Nat /\ sent[i] \in Nat) /\ power \in {"on", "off"}
    /\ step \in {"start", "refused", "send", "poll", "log", "stopped", "done", "killed"}

\* The log is behind the list, and start-at where a log has led it.
NvPlace ==
    /\ NvFirst <= startAt
    /\ step \in {"send", "poll", "log"} => startAt + logged < pos
    /\ step \in {"stopped", "done", "killed"} => startAt + logged <= pos

\* Every attempt is made that the loop or an earlier log has gone past.
NvMade ==
    \A i \in DOMAIN sent :
        NvFirst < i /\ \/ i <= startAt
                       \/ step \notin {"start", "refused"}
                          /\ (i < pos \/ i <= startAt + logged)
                       \/ step \in {"poll", "log"} /\ i = pos
            => sent[i] > 0

\* From where the operator would go on.
NvGoesOn == IF step = "start" THEN startAt ELSE startAt + logged

\* What would be made again has left no line, but for the attempt at hand.
NvRepeated ==
    \A i \in DOMAIN sent :
        /\ sent[i] > 1 => i \in unlogged
        /\ step # "refused" /\ sent[i] > 0 /\ i > NvGoesOn
               => i \in unlogged \/ (step \in {"poll", "log"} /\ i = pos)

\* With a cause that the loop can see, the power is the one of the baseline or
\* the attempt at hand has switched it; the sample at the end shows it.
NvBlame ==
    /\ ref \in NV!Real => NvFlags[setup].monitor
    /\ ref \in NV!Real /\ ~excused =>
        /\ NvFlags[setup].stopOnChange =>
               /\ step = "send" => power = ref
               /\ step \in {"poll", "log"} =>
                      power = ref \/ (culprit = pos /\ reply # "error")
        /\ step = "log" => sample # None /\ (sample \in NV!Real => sample = power)
        /\ step = "stopped" /\ sample \in NV!Real => culprit = pos

NvInv == NvTypes /\ NvPlace /\ NvMade /\ NvRepeated /\ NvBlame


-----------------------------------------------------------------------------
(* NvProbe: every step *)

LEMMA NvFlagsAssumed == \A s \in DOMAIN NvFlags : NvFlags[s].startAt \in Nat
BY PartsAssumption DEF NV!NvProbeAssumption

LEMMA NoneIsNoSample ==
    /\ None # "on" /\ None # "off" /\ None # "refused" /\ None # "timed out"
    /\ None # "no power"
<1>1. None \notin {"on", "off", "refused", "timed out", "no power"}
  BY PartsAssumption DEF NV!NvProbeAssumption
<1>2. QED  BY <1>1

LEMMA NvInitially == ASSUME NV!Init PROVE NvInv
<1>1. /\ setup \in DOMAIN NvFlags /\ startAt = NvFirst /\ step = "start"
      /\ pos = 0 /\ logged = 0 /\ ref = None /\ power \in {"on", "off"}
      /\ sent = [i \in 1 .. Len(NV!Attempts[setup]) |-> 0]
  BY DEF NV!Init, NvFirst
<1>2. \A i \in DOMAIN sent : i \in Nat /\ sent[i] = 0
  BY <1>1
<1>3. NvTypes /\ NvPlace /\ NvMade /\ NvRepeated
  BY <1>1, <1>2, NvFlagsAssumed DEF NvTypes, NvPlace, NvMade, NvRepeated, NvGoesOn, NvFirst
<1>4. NvBlame
  BY <1>1, NoneIsNoSample DEF NvBlame, NV!Real
<1>5. QED  BY <1>3, <1>4 DEF NvInv

LEMMA NvRefuses == ASSUME NvInv, NV!Refuse \/ NV!PastEnd PROVE NvInv'
BY DEF NvInv, NvTypes, NvPlace, NvMade, NvRepeated, NvGoesOn, NvBlame, NvFirst, NV!Real,
   NV!Refuse, NV!PastEnd, NV!runVars, NV!tvVars

LEMMA NvBegins == ASSUME NvInv, NV!Begin PROVE NvInv'
<1>1. /\ step = "start" /\ step' \in {"send", "done"} /\ logged' = 0
      /\ pos' = startAt + 1
      /\ UNCHANGED <<setup, startAt, sent, power, unlogged>>
  BY DEF NV!Begin, NV!FirstPos, NV!Mapped, NV!tvVars
<1>2. ref' = None \/ (NvFlags[setup].monitor /\ ref' \in NV!samplePowerState)
  BY DEF NV!Begin, NV!Mapped
<1>3. ref' \in NV!Real => NvFlags[setup].monitor /\ ref' = power
  BY <1>2, NoneIsNoSample DEF NV!samplePowerState, NV!Real
<1>4. NvTypes'
  BY <1>1 DEF NvInv, NvTypes
<1>5. NvPlace'
  BY <1>1 DEF NvInv, NvTypes, NvPlace, NvFirst
<1>6. NvMade'
  BY <1>1 DEF NvInv, NvTypes, NvMade, NvFirst
<1>7. NvRepeated'
  BY <1>1 DEF NvInv, NvTypes, NvRepeated, NvGoesOn
<1>8. NvBlame'
  BY <1>1, <1>3 DEF NvBlame, NV!Real
<1>9. QED  BY <1>4, <1>5, <1>6, <1>7, <1>8 DEF NvInv

\* What a send does to the television is done by its attempt, and is excused if
\* it failed.
LEMMA NvSwitches ==
    ASSUME NvTypes, NV!sendTLS
    PROVE  /\ power' \in {"on", "off"}
           /\ ~excused' => /\ ~excused
                           /\ power' = power \/ (culprit' = pos /\ reply' # "error")
<1>1. PICK o \in NV!Sends(writes[pos]) :
          /\ reply' = o.result
          /\ \/ UNCHANGED NV!tvVars
             \/ /\ power' = NV!Opposite /\ culprit' = pos
                /\ ~excused' => ~excused /\ o.result # "error"
             \/ UNCHANGED <<power, culprit, excused>>
  BY DEF NV!sendTLS
<1>2. power' \in {"on", "off"}
  BY <1>1 DEF NvTypes, NV!tvVars, NV!Opposite
<1>3. ASSUME ~excused'
      PROVE  ~excused /\ (power' = power \/ (culprit' = pos /\ reply' # "error"))
  BY <1>1, <1>3 DEF NV!tvVars
<1>4. QED  BY <1>2, <1>3

LEMMA NvSends == ASSUME NvInv, NV!sendTLS PROVE NvInv'
<1>1. /\ step = "send" /\ step' = "poll" /\ sent' = [sent EXCEPT ![pos] = @ + 1]
      /\ UNCHANGED <<setup, startAt, pos, ref, logged, unlogged>>
  BY DEF NV!sendTLS, NV!runVars
<1>2. /\ DOMAIN sent' = DOMAIN sent
      /\ \A i \in DOMAIN sent : sent'[i] = IF i = pos THEN sent[i] + 1 ELSE sent[i]
  BY <1>1
<1>3. NvTypes'
  BY <1>1, <1>2, NvSwitches DEF NvInv, NvTypes
<1>4. NvPlace'
  BY <1>1 DEF NvInv, NvTypes, NvPlace, NvFirst
<1>5. NvMade'
  BY <1>1, <1>2 DEF NvInv, NvTypes, NvPlace, NvMade, NvFirst
<1>6. NvRepeated'
  BY <1>1, <1>2 DEF NvInv, NvTypes, NvPlace, NvRepeated, NvGoesOn
<1>7. NvBlame'
  BY <1>1, NvSwitches DEF NvInv, NvBlame, NV!Real
<1>8. QED  BY <1>3, <1>4, <1>5, <1>6, <1>7 DEF NvInv

LEMMA NvPolls == ASSUME NvInv, NV!pollForStateChange PROVE NvInv'
<1>1. /\ step = "poll" /\ step' = "log"
      /\ UNCHANGED <<setup, startAt, pos, ref, reply, logged, sent, unlogged, power,
                     culprit, excused>>
  BY DEF NV!pollForStateChange, NV!runVars, NV!tvVars
<1>2. NvFlags[setup].monitor => sample' \in NV!samplePowerState
  BY DEF NV!pollForStateChange
<1>3. NvFlags[setup].monitor =>
          sample' # None /\ (sample' \in NV!Real => sample' = power)
  BY <1>2, NoneIsNoSample DEF NvInv, NvTypes, NV!samplePowerState, NV!Real
<1>4. QED
  BY <1>1, <1>3 DEF NvInv, NvTypes, NvPlace, NvMade, NvRepeated, NvGoesOn, NvBlame, NvFirst,
     NV!Real

LEMMA NvFinishes == ASSUME NvInv, NV!Finish PROVE NvInv'
<1>1. /\ step = "log" /\ step' \in {"stopped", "done", "send"}
      /\ pos' = IF step' = "send" THEN pos + 1 ELSE pos
      /\ \/ logged' = pos - startAt /\ unlogged' = unlogged
         \/ logged' = logged /\ unlogged' = unlogged \cup {pos}
      /\ UNCHANGED <<setup, startAt, ref, sent, power, culprit, excused>>
  BY DEF NV!Finish, NV!runVars, NV!tvVars
<1>2. /\ step' = "stopped" => /\ sample' = sample /\ reply # "error" /\ sample # ref
                              /\ NvFlags[setup].stopOnChange
      /\ step' = "send" =>
             \/ reply = "error" \/ sample = None \/ sample = ref
             \/ ~NvFlags[setup].stopOnChange
  BY DEF NV!Finish, NV!Stops, NV!stateChanged
<1>3. NvTypes'
  BY <1>1 DEF NvInv, NvTypes, NvPlace
<1>4. NvPlace'
  BY <1>1 DEF NvInv, NvTypes, NvPlace, NvFirst
<1>5. NvMade'
  BY <1>1 DEF NvInv, NvTypes, NvPlace, NvMade, NvFirst
<1>6. NvRepeated'
  BY <1>1 DEF NvInv, NvTypes, NvPlace, NvRepeated, NvGoesOn
<1>7. NvBlame'
  BY <1>1, <1>2 DEF NvInv, NvBlame, NV!Real
<1>8. QED  BY <1>3, <1>4, <1>5, <1>6, <1>7 DEF NvInv

LEMMA NvInterrupted == ASSUME NvInv, NV!Interrupt PROVE NvInv'
BY DEF NvInv, NvTypes, NvPlace, NvMade, NvRepeated, NvGoesOn, NvBlame, NvFirst, NV!Real,
   NV!Interrupt, NV!runVars, NV!tvVars

LEMMA NvResumes == ASSUME NvInv, NV!Resume PROVE NvInv'
<1>1. /\ step \in {"killed", "stopped", "done"} /\ step' = "start" /\ ref' = None
      /\ startAt' = startAt + logged
      /\ UNCHANGED <<setup, pos, logged, sent, unlogged, power>>
  BY DEF NV!Resume
<1>2. NvTypes' /\ NvPlace'
  BY <1>1, NvFlagsAssumed DEF NvInv, NvTypes, NvPlace, NvFirst
<1>3. NvMade'
  BY <1>1 DEF NvInv, NvTypes, NvPlace, NvMade, NvFirst
<1>4. NvRepeated'
  BY <1>1 DEF NvInv, NvTypes, NvRepeated, NvGoesOn
<1>5. NvBlame'
  BY <1>1, NoneIsNoSample DEF NvBlame, NV!Real
<1>6. QED  BY <1>2, <1>3, <1>4, <1>5 DEF NvInv

LEMMA NvOthers == ASSUME NvInv, NV!Late \/ NV!Touch PROVE NvInv'
BY DEF NvInv, NvTypes, NvPlace, NvMade, NvRepeated, NvGoesOn, NvBlame, NvFirst,
   NV!Late, NV!Touch, NV!Opposite, NV!runVars, NV!Real

LEMMA NvStutters == ASSUME NvInv, UNCHANGED NV!vars PROVE NvInv'
BY DEF NvInv, NvTypes, NvPlace, NvMade, NvRepeated, NvGoesOn, NvBlame, NvFirst,
   NV!vars, NV!runVars, NV!tvVars, NV!Real

LEMMA NvInductive == ASSUME NvInv, [NV!Next]_(NV!vars) PROVE NvInv'
BY NvRefuses, NvBegins, NvSends, NvPolls, NvFinishes, NvInterrupted, NvResumes, NvOthers,
   NvStutters DEF NV!Next

LEMMA NvInvariant == NV!Spec => []NvInv
BY NvInitially, NvInductive, PTL DEF NV!Spec

-----------------------------------------------------------------------------
(* WakeProbe *)

WkCount == WK!Count[setup]

WkTypes ==
    /\ setup \in DOMAIN WakeFlags /\ startAt \in Nat /\ pos \in Nat /\ logged \in Nat
    /\ resumes \in Nat
    /\ step \in {"start", "refused", "before", "send", "poll", "log", "stopped",
                 "done", "killed"}

WkPlace ==
    /\ step \in {"before", "send", "poll", "log"} => pos \in 1 .. WK!LastPos
    /\ step \in {"before", "send", "poll", "log", "killed"} => startAt + logged < pos
    /\ step \in {"stopped", "done"} => startAt + logged <= pos

\* The first key of the list that is still to be sent.
WkNext ==
    CASE step = "start" -> startAt + 1
      [] step \in {"before", "send", "killed"} -> pos
      [] OTHER -> pos + 1

\* The release of k comes, and in the first run it is the key at hand or next.
WkReleases(k) ==
    \E i \in WkNext .. WkCount :
        /\ WK!Key(i) = k /\ WK!Direction(i) = "END_LONG"
        /\ resumes = 0 => i <= pos + 1

\* Every held key has a reason to be held.
WkExplained ==
    \A k \in held : k \in unsure \/ WK!ReleaseUnderway(k) \/ WkReleases(k)

WkHeld ==
    /\ step = "start" /\ resumes = 0 => held = {} /\ underway = {}
    /\ step # "refused" => WkExplained

WkInv == WkTypes /\ WkPlace /\ WkHeld

-----------------------------------------------------------------------------
(* WakeProbe: its list *)

Codes == WakeFlags[setup].codes
Long == <<"SHORT", "START_LONG", "END_LONG">>

LEMMA WkFlagsAssumed ==
    /\ \A s \in DOMAIN WakeFlags : /\ Len(WakeFlags[s].codes) \in Nat
                                   /\ WakeFlags[s].startAt \in Nat
                                   /\ WakeFlags[s].limit \in Nat
BY PartsAssumption DEF WK!WakeProbeAssumption

LEMMA LongList ==
    ASSUME setup \in DOMAIN WakeFlags, WakeFlags[setup].withLong
    PROVE  /\ WkCount = Len(Codes) * 3
           /\ \A i \in 1 .. WkCount : /\ WK!Key(i) = Codes[((i - 1) \div 3) + 1]
                                      /\ WK!Direction(i) = Long[((i - 1) % 3) + 1]
<1> DEFINE n == Len(Codes) * 3
<1>1. n \in Nat /\ Len(Long) = 3
  BY WkFlagsAssumed DEF Codes, Long
<1>2. WK!Candidates[setup] =
          [i \in 1 .. n |-> <<Codes[((i - 1) \div 3) + 1], Long[((i - 1) % 3) + 1]>>]
  BY <1>1 DEF WK!Candidates, WK!candidateAttempts, WK!Each, Codes, Long
<1>3. WkCount = Len(WK!Candidates[setup])
  BY DEF WK!Count, WkCount
<1>4. WkCount = n
  BY <1>1, <1>2, <1>3
<1>5. QED
  BY <1>2, <1>4 DEF WK!Key, WK!Direction

LEMMA ShortList ==
    ASSUME setup \in DOMAIN WakeFlags, ~WakeFlags[setup].withLong
    PROVE  WkCount \in Nat /\ \A i \in 1 .. WkCount : WK!Direction(i) = "SHORT"
<1> DEFINE n == Len(Codes) * 1
           Short == <<"SHORT">>
<1>1. n \in Nat /\ Len(Short) = 1
  BY WkFlagsAssumed DEF Codes
<1>2. WK!Candidates[setup] =
          [i \in 1 .. n |-> <<Codes[((i - 1) \div 1) + 1], Short[((i - 1) % 1) + 1]>>]
  BY <1>1 DEF WK!Candidates, WK!candidateAttempts, WK!Each, Codes
<1>3. WkCount = n
  BY <1>1, <1>2 DEF WK!Count, WkCount
<1>4. \A i \in 1 .. n : ((i - 1) % 1) + 1 = 1
  BY <1>1
<1>5. QED
  BY <1>2, <1>3, <1>4 DEF WK!Direction

LEMMA WkLast ==
    ASSUME setup \in DOMAIN WakeFlags, startAt \in Nat
    PROVE  /\ WkCount \in Nat /\ WK!LastPos \in Nat /\ WK!LastPos <= WkCount
           /\ startAt < WkCount => startAt + 1 <= WK!LastPos
<1>1. WkCount \in Nat
  BY LongList, ShortList, WkFlagsAssumed DEF Codes
<1>2. QED
  BY <1>1, WkFlagsAssumed DEF WK!LastPos, WkCount

LEMMA Thirds ==
    ASSUME NEW i \in Nat, NEW n \in Nat, 1 <= i, i <= n * 3
    PROVE  /\ (i - 1) % 3 \in {0, 1, 2}
           /\ (i - 1) % 3 = 1 => i % 3 = 2 /\ i \div 3 = (i - 1) \div 3 /\ i + 1 <= n * 3
           /\ (i - 1) % 3 = 2 => /\ (i - 2) % 3 = 1 /\ (i - 2) \div 3 = (i - 1) \div 3
                                /\ 1 <= i - 1
OBVIOUS

\* The halves of a long press stand next to each other, the release behind.
LEMMA StartThenEnd ==
    ASSUME setup \in DOMAIN WakeFlags, NEW i \in 1 .. WkCount,
           WK!Direction(i) = "START_LONG"
    PROVE  /\ i + 1 \in 1 .. WkCount /\ WK!Key(i + 1) = WK!Key(i)
           /\ WK!Direction(i + 1) = "END_LONG"
<1>1. WakeFlags[setup].withLong
  BY ShortList
<1>2. (i - 1) % 3 = 1
  <2>1. Len(Codes) \in Nat
    BY WkFlagsAssumed DEF Codes
  <2>2. i \in Nat /\ (i - 1) % 3 \in {0, 1, 2}
    BY <1>1, <2>1, LongList, Thirds
  <2>3. QED  BY <1>1, <2>2, LongList DEF Long
<1>3. /\ i + 1 \in 1 .. WkCount /\ (i + 1) - 1 = i
      /\ i % 3 = 2 /\ i \div 3 = (i - 1) \div 3
  <2>1. Len(Codes) \in Nat /\ i \in Nat /\ 1 <= i /\ i <= Len(Codes) * 3
    BY <1>1, WkFlagsAssumed, LongList DEF Codes
  <2>2. /\ i + 1 <= Len(Codes) * 3
        /\ i % 3 = 2 /\ i \div 3 = (i - 1) \div 3
    BY <1>2, <2>1, Thirds
  <2>3. WkCount = Len(Codes) * 3
    BY <1>1, LongList
  <2>4. QED  BY <2>1, <2>2, <2>3
<1>4. /\ WK!Key(i + 1) = Codes[(i \div 3) + 1]
      /\ WK!Direction(i + 1) = Long[(i % 3) + 1]
  BY <1>1, <1>3, LongList
<1>5. WK!Key(i) = Codes[((i - 1) \div 3) + 1]
  BY <1>1, LongList
<1>6. QED
  BY <1>3, <1>4, <1>5 DEF Long

LEMMA EndAfterStart ==
    ASSUME setup \in DOMAIN WakeFlags, NEW i \in 1 .. WkCount,
           WK!Direction(i) = "END_LONG"
    PROVE  /\ i - 1 \in 1 .. WkCount /\ WK!Key(i - 1) = WK!Key(i)
           /\ WK!Direction(i - 1) = "START_LONG"
<1>1. WakeFlags[setup].withLong
  BY ShortList
<1>2. (i - 1) % 3 = 2
  <2>1. Len(Codes) \in Nat
    BY WkFlagsAssumed DEF Codes
  <2>2. i \in Nat /\ (i - 1) % 3 \in {0, 1, 2}
    BY <1>1, <2>1, LongList, Thirds
  <2>3. QED  BY <1>1, <2>2, LongList DEF Long
<1>3. /\ i - 1 \in 1 .. WkCount /\ (i - 1) - 1 = i - 2
      /\ (i - 2) % 3 = 1 /\ (i - 2) \div 3 = (i - 1) \div 3
  <2>1. Len(Codes) \in Nat /\ i \in Nat /\ 1 <= i /\ i <= Len(Codes) * 3
    BY <1>1, WkFlagsAssumed, LongList DEF Codes
  <2>2. 1 <= i - 1 /\ (i - 2) % 3 = 1 /\ (i - 2) \div 3 = (i - 1) \div 3
    BY <1>2, <2>1, Thirds
  <2>3. WkCount = Len(Codes) * 3
    BY <1>1, LongList
  <2>4. QED  BY <2>1, <2>2, <2>3
<1>4. /\ WK!Key(i - 1) = Codes[((i - 2) \div 3) + 1]
      /\ WK!Direction(i - 1) = Long[((i - 2) % 3) + 1]
  BY <1>1, <1>3, LongList
<1>5. WK!Key(i) = Codes[((i - 1) \div 3) + 1]
  BY <1>1, LongList
<1>6. QED
  BY <1>3, <1>4, <1>5 DEF Long

-----------------------------------------------------------------------------
(* WakeProbe: every step *)

LEMMA WkListKept ==
    ASSUME setup' = setup
    PROVE  /\ WkCount' = WkCount
           /\ \A i : /\ WK!Key(i)' = WK!Key(i)
                     /\ WK!Direction(i)' = WK!Direction(i)
           /\ startAt' = startAt => WK!LastPos' = WK!LastPos
BY DEF WkCount, WK!Key, WK!Direction, WK!LastPos, WK!Count, WK!Candidates

LEMMA NextStaysNext ==
    \A i, p, q \in Nat : i <= p + 1 /\ p <= q => i <= q + 1
OBVIOUS

\* What was explained stays so, where no key is pressed and none is left out.
LEMMA WkStaysExplained ==
    ASSUME WkTypes, WkTypes', WkExplained, UNCHANGED <<setup, held, underway, unsure>>,
           WkNext' <= WkNext, resumes' = 0 => resumes = 0 /\ pos <= pos'
    PROVE  WkExplained'
<1>0. \A k : WK!ReleaseUnderway(k)' <=> WK!ReleaseUnderway(k)
  BY WkListKept DEF WK!ReleaseUnderway
<1> SUFFICES ASSUME NEW k \in held, k \notin unsure, ~WK!ReleaseUnderway(k)
             PROVE  WkReleases(k)'
  BY <1>0 DEF WkExplained
<1>1. PICK i \in WkNext .. WkCount :
          /\ WK!Key(i) = k /\ WK!Direction(i) = "END_LONG"
          /\ resumes = 0 => i <= pos + 1
  BY DEF WkExplained, WkReleases
<1>2. WkNext \in Nat /\ WkNext' \in Nat
  BY DEF WkTypes, WkNext
<1>3. i \in WkNext' .. WkCount'
  BY <1>1, <1>2, WkListKept
<1>4. ASSUME resumes' = 0 PROVE i <= pos' + 1
  <2>1. i \in Nat /\ pos \in Nat /\ pos' \in Nat
    BY <1>1, <1>2 DEF WkTypes
  <2>2. i <= pos + 1 /\ pos <= pos'
    BY <1>1, <1>4
  <2>3. QED  BY <2>1, <2>2, NextStaysNext
<1>5. QED
  BY <1>1, <1>3, <1>4, WkListKept DEF WkReleases

LEMMA WkInitially == ASSUME WK!Init PROVE WkInv
BY WkFlagsAssumed DEF WK!Init, WkInv, WkTypes, WkPlace, WkHeld, WkExplained

LEMMA WkRefuses == ASSUME WkInv, WK!Refuse \/ WK!PastEnd PROVE WkInv'
BY DEF WkInv, WkTypes, WkPlace, WkHeld, WK!Refuse, WK!PastEnd, WK!runVars, WK!heldVars

LEMMA WkBegins == ASSUME WkInv, WK!Begin PROVE WkInv'
<1>1. /\ step = "start" /\ step' = "before" /\ startAt < WkCount /\ logged' = 0
      /\ pos' = startAt + 1 /\ UNCHANGED <<setup, startAt, resumes, held, underway, unsure>>
  BY DEF WK!Begin, WK!runVars, WK!heldVars, WkCount
<1>2. WkTypes'
  BY <1>1 DEF WkInv, WkTypes
<1>3. WkPlace'
  BY <1>1, WkLast, WkListKept DEF WkInv, WkTypes, WkPlace
<1>4. CASE resumes = 0
  BY <1>1, <1>2, <1>3, <1>4 DEF WkInv, WkHeld, WkExplained
<1>5. CASE resumes # 0
  <2>1. WkNext' <= WkNext
    BY <1>1 DEF WkNext, WkInv, WkTypes
  <2>2. WkExplained'
    BY <1>1, <1>2, <1>5, <2>1, WkStaysExplained DEF WkInv, WkHeld
  <2>3. QED  BY <1>1, <1>2, <1>3, <2>2 DEF WkInv, WkHeld
<1>6. QED  BY <1>4, <1>5

\* Steps within the loop that press nothing.
LEMMA WkSamples == ASSUME WkInv, WK!SampleBefore \/ WK!pollForWake PROVE WkInv'
<1>1. /\ \/ step = "before" /\ step' = "send"
         \/ step = "poll" /\ step' = "log"
      /\ UNCHANGED <<setup, startAt, resumes, pos, logged, held, underway, unsure>>
  BY DEF WK!SampleBefore, WK!pollForWake, WK!runVars, WK!heldVars
<1>2. WkTypes' /\ WkPlace'
  BY <1>1, WkListKept DEF WkInv, WkTypes, WkPlace
<1>3. WkExplained'
  BY <1>1, <1>2, WkStaysExplained DEF WkInv, WkTypes, WkHeld, WkNext
<1>4. QED  BY <1>1, <1>2, <1>3 DEF WkInv, WkHeld

LEMMA WkFinishes == ASSUME WkInv, WK!Finish PROVE WkInv'
<1>1. /\ step = "log" /\ step' \in {"stopped", "done", "before"}
      /\ logged' \in {logged, pos - startAt}
      /\ \/ step' \in {"stopped", "done"} /\ pos' = pos
         \/ step' = "before" /\ pos # WK!LastPos /\ pos' = pos + 1
      /\ UNCHANGED <<setup, startAt, resumes, held, underway, unsure>>
  BY DEF WK!Finish, WK!runVars, WK!heldVars
<1>2. WkTypes'
  BY <1>1 DEF WkInv, WkTypes, WkPlace
<1>3. WkPlace'
  BY <1>1, WkLast, WkListKept DEF WkInv, WkTypes, WkPlace
<1>4. WkNext' <= WkNext /\ pos <= pos'
  BY <1>1 DEF WkInv, WkTypes, WkNext
<1>5. WkExplained'
  BY <1>1, <1>2, <1>4, WkStaysExplained DEF WkInv, WkHeld
<1>6. QED  BY <1>1, <1>2, <1>3, <1>5 DEF WkInv, WkHeld

LEMMA WkInterrupted == ASSUME WkInv, WK!Interrupt PROVE WkInv'
<1>1. /\ step \in {"before", "send", "poll", "log"} /\ step' = "killed"
      /\ UNCHANGED <<setup, startAt, resumes, pos, logged, held, underway, unsure>>
  BY DEF WK!Interrupt, WK!runVars, WK!heldVars
<1>2. WkTypes' /\ WkPlace'
  BY <1>1 DEF WkInv, WkTypes, WkPlace
<1>3. WkExplained'
  BY <1>1, <1>2, WkStaysExplained DEF WkInv, WkTypes, WkHeld, WkNext
<1>4. QED  BY <1>1, <1>2, <1>3 DEF WkInv, WkHeld

LEMMA WkResumes == ASSUME WkInv, WK!Resume PROVE WkInv'
<1>1. /\ step \in {"killed", "stopped", "done"} /\ step' = "start"
      /\ startAt' = startAt + logged /\ resumes' = resumes + 1
      /\ UNCHANGED <<setup, pos, logged, held, underway, unsure>>
  BY DEF WK!Resume, WK!heldVars
<1>2. WkTypes' /\ WkPlace'
  BY <1>1 DEF WkInv, WkTypes, WkPlace
<1>3. WkNext' <= WkNext /\ resumes' # 0
  BY <1>1 DEF WkInv, WkTypes, WkPlace, WkNext
<1>4. WkExplained'
  BY <1>1, <1>2, <1>3, WkStaysExplained DEF WkInv, WkHeld
<1>5. QED  BY <1>1, <1>2, <1>3, <1>4 DEF WkInv, WkHeld

\* A key that is pressed is released next; one that is released, is not held,
\* or its release has reported an error or is on its way.
LEMMA WkSends == ASSUME WkInv, WK!sendAttempt PROVE WkInv'
<1> DEFINE K == WK!Key(pos)
           Ends == WK!Direction(pos) = "END_LONG"
           Starts == WK!Direction(pos) = "START_LONG"
<1>1. /\ step = "send" /\ step' = "poll"
      /\ UNCHANGED <<setup, startAt, resumes, pos, logged>>
      /\ underway \subseteq underway'
  BY DEF WK!sendAttempt, WK!runVars, WK!heldVars
<1>2. WkTypes' /\ WkPlace'
  BY <1>1, WkListKept DEF WkInv, WkTypes, WkPlace
<1>3. pos \in 1 .. WkCount /\ pos \in Nat /\ WkCount \in Nat
  BY <1>1, WkLast DEF WkInv, WkTypes, WkPlace
<1>u. \A k : WK!ReleaseUnderway(k) => WK!ReleaseUnderway(k)'
  BY <1>1, WkListKept DEF WK!ReleaseUnderway
<1> SUFFICES ASSUME NEW k \in held', k \notin unsure', ~WK!ReleaseUnderway(k)'
             PROVE  WkReleases(k)'
  BY <1>1, <1>2 DEF WkInv, WkHeld, WkExplained
<1>4. /\ k \in held \/ (k = K /\ Starts)
      /\ Ends => k # K
      /\ k \in unsure => k = K /\ Ends
  <2>1. CASE /\ WK!Arrives(K, WK!Direction(pos))
             /\ unsure' = IF Ends THEN unsure \ {K} ELSE unsure
    BY <2>1 DEF WK!Arrives
  <2>2. CASE /\ reply' = "error" /\ held' = held
             /\ unsure' = IF Ends THEN unsure \cup {K} ELSE unsure
    BY <2>2
  <2>3. CASE /\ underway' = underway \cup {<<resumes, pos>>} /\ held' = held
             /\ unsure \subseteq unsure'
    <3>1. Ends /\ k = K => WK!ReleaseUnderway(k)'
      <4>1. <<resumes, pos>> \in underway' /\ <<resumes, pos>>[2] = pos
        BY <2>3
      <4>2. WK!Key(pos)' = K /\ WK!Direction(pos)' = WK!Direction(pos)
        BY <1>1, WkListKept
      <4>3. QED  BY <1>1, <4>1, <4>2, WkListKept DEF WK!ReleaseUnderway
    <3>2. QED  BY <2>3, <3>1
  <2>4. QED  BY <2>1, <2>2, <2>3 DEF WK!sendAttempt
<1>5. CASE k \in held
  <2>1. k \notin unsure /\ ~WK!ReleaseUnderway(k)
    BY <1>4, <1>u
  <2>2. PICK i \in pos .. WkCount :
            /\ WK!Key(i) = k /\ WK!Direction(i) = "END_LONG"
            /\ resumes = 0 => i <= pos + 1
    BY <1>1, <1>5, <2>1 DEF WkInv, WkHeld, WkExplained, WkReleases, WkNext
  <2>3. i \in pos + 1 .. WkCount
    BY <1>3, <1>4, <2>2
  <2>4. QED
    BY <1>1, <2>2, <2>3, WkListKept DEF WkReleases, WkNext
<1>6. CASE k \notin held
  <2>1. k = K /\ Starts
    BY <1>4, <1>6
  <2>2. /\ pos + 1 \in pos + 1 .. WkCount
        /\ WK!Key(pos + 1) = k /\ WK!Direction(pos + 1) = "END_LONG"
    BY <1>3, <2>1, StartThenEnd DEF WkInv, WkTypes
  <2>3. QED
    BY <1>1, <1>3, <2>2, WkListKept DEF WkReleases, WkNext
<1>7. QED  BY <1>5, <1>6

\* A key that arrives late: its press is doubtful, and its release is that of no
\* other key.
LEMMA WkLate == ASSUME WkInv, WK!LateKey PROVE WkInv'
<1>1. /\ UNCHANGED <<setup, startAt, resumes, step, pos, logged>>
      /\ underway # {}
  BY DEF WK!LateKey, WK!runVars, WK!heldVars
<1>2. WkTypes' /\ WkPlace' /\ WkNext' = WkNext
  BY <1>1, WkListKept DEF WkInv, WkTypes, WkPlace, WkNext
<1>3. PICK m \in underway :
          /\ underway' = underway \ {m}
          /\ WK!Arrives(WK!Key(m[2]), WK!Direction(m[2]))
          /\ unsure' = CASE WK!Direction(m[2]) = "START_LONG" -> unsure \cup {WK!Key(m[2])}
                         [] WK!Direction(m[2]) = "END_LONG" -> unsure \ {WK!Key(m[2])}
                         [] OTHER -> unsure
  BY DEF WK!LateKey
<1> SUFFICES ASSUME NEW k \in held', k \notin unsure', ~WK!ReleaseUnderway(k)',
                    step # "refused"
             PROVE  WkReleases(k)'
  BY <1>1, <1>2 DEF WkInv, WkHeld, WkExplained
<1>4. /\ k \in held /\ k \notin unsure
      /\ WK!Direction(m[2]) = "END_LONG" => k # WK!Key(m[2])
  BY <1>3 DEF WK!Arrives
<1>5. ~WK!ReleaseUnderway(k)
  BY <1>1, <1>3, <1>4, WkListKept DEF WK!ReleaseUnderway
<1>6. WkReleases(k)
  BY <1>4, <1>5 DEF WkInv, WkHeld, WkExplained
<1>7. QED  BY <1>1, <1>2, <1>6, WkListKept DEF WkReleases

LEMMA WkStutters == ASSUME WkInv, UNCHANGED WK!vars PROVE WkInv'
<1>1. UNCHANGED <<setup, startAt, resumes, step, pos, logged, held, underway, unsure>>
  BY DEF WK!vars, WK!runVars, WK!heldVars
<1>2. WkTypes' /\ WkPlace' /\ WkNext' = WkNext
  BY <1>1, WkListKept DEF WkInv, WkTypes, WkPlace, WkNext
<1>3. \A k : /\ WkReleases(k)' <=> WkReleases(k)
             /\ WK!ReleaseUnderway(k)' <=> WK!ReleaseUnderway(k)
  BY <1>1, <1>2, WkListKept DEF WkReleases, WK!ReleaseUnderway
<1>4. WkExplained' <=> WkExplained
  BY <1>1, <1>3 DEF WkExplained
<1>5. QED  BY <1>1, <1>2, <1>4 DEF WkInv, WkHeld

LEMMA WkInductive == ASSUME WkInv, [WK!Next]_(WK!vars) PROVE WkInv'
BY WkRefuses, WkBegins, WkSamples, WkSends, WkLate, WkFinishes, WkInterrupted, WkResumes,
   WkStutters DEF WK!Next

LEMMA WkInvariant == WK!Spec => []WkInv
BY WkInitially, WkInductive, PTL DEF WK!Spec

-----------------------------------------------------------------------------
(* What the probes promise *)

LEMMA NvPromises == ASSUME NvInv PROVE NV!BlameIsRight /\ NV!ResumeCoversAll
<1>1. NV!BlameIsRight
  BY DEF NvInv, NvBlame, NV!BlameIsRight
<1>2. NV!ResumeCoversAll
  BY DEF NvInv, NvMade, NvRepeated, NvFirst, NV!ResumeCoversAll
<1>3. QED  BY <1>1, <1>2

LEMMA WkPromises == ASSUME WkInv PROVE WK!HeldKeyHasCause
<1> SUFFICES ASSUME step \in {"killed", "stopped", "done"}, NEW k \in held, k \notin unsure,
                    ~WK!ReleaseUnderway(k)
             PROVE  \/ k = WK!Key(pos)
                       /\ (WK!Direction(pos) = "START_LONG" \/ step = "killed")
                    \/ /\ resumes > 0
                       /\ \E i \in pos + 1 .. WkCount :
                              WK!Key(i) = k /\ WK!Direction(i) = "END_LONG"
  BY DEF WK!HeldKeyHasCause, WkCount
<1>1. PICK i \in WkNext .. WkCount :
          /\ WK!Key(i) = k /\ WK!Direction(i) = "END_LONG"
          /\ resumes = 0 => i <= pos + 1
  BY DEF WkInv, WkHeld, WkExplained, WkReleases
<1>2. /\ setup \in DOMAIN WakeFlags /\ pos \in Nat /\ resumes \in Nat /\ startAt \in Nat
      /\ WkCount \in Nat
  BY WkLast DEF WkInv, WkTypes
<1>3. WkNext \in {pos, pos + 1} /\ (step # "killed" => WkNext = pos + 1)
  BY DEF WkNext
<1>4. CASE i = pos
  BY <1>1, <1>2, <1>3, <1>4
<1>5. CASE i = pos + 1
  <2>1. i \in 1 .. WkCount /\ i - 1 = pos
    BY <1>1, <1>2, <1>5
  <2>2. WK!Key(pos) = k /\ WK!Direction(pos) = "START_LONG"
    BY <1>1, <1>2, <2>1, EndAfterStart
  <2>3. QED  BY <2>2
<1>6. CASE i > pos + 1
  <2>1. i \in pos + 1 .. WkCount /\ resumes > 0
    BY <1>1, <1>2, <1>3, <1>6
  <2>2. QED  BY <1>1, <2>1
<1>7. QED  BY <1>1, <1>2, <1>3, <1>4, <1>5, <1>6

-----------------------------------------------------------------------------
(* One connection to the NVIDIA service *)

\* Messages lie one after the other.
NsLayout ==
    /\ msgs \in Seq([size : Sizes, bad : BOOLEAN, end : Nat])
    /\ \A k \in NS!Sent : NS!End(k) = NS!End(k - 1) + NS!Frames(msgs[k].size)
    /\ \A j \in 0 .. Len(msgs), k \in NS!Sent : j < k => NS!End(j) <= NS!End(k - 1)
    /\ arrived \in 0 .. NS!End(Len(msgs)) /\ since \in 0 .. arrived
    /\ hurt \in BOOLEAN

\* A Reassembler that is between two messages, or in one that was announced.
NsPosition(r) ==
    \/ r.want = 0 /\ r.got = 0 /\ \E k \in 0 .. Len(msgs) : r.at = NS!End(k)
    \/ \E k \in NS!Sent : /\ NS!Framed(k) /\ r.want = msgs[k].size
                          /\ r.got \in 0 .. r.want - 1 /\ r.at = NS!Body(k) + r.got

NsReassembler == [at : Nat, want : Nat, got : Nat, out : Seq(Nat), failed : BOOLEAN]

\* One that gives what it should, as far as it came, and that is at a place
\* from which it can go on: a message without an announcement that lies before
\* it in its chunk is the end of that.
NsRebuilds(r, from) ==
    /\ r \in NsReassembler /\ r.at \in from .. arrived
    /\ NS!Gives(r, from) /\ (r.failed <=> NS!Bad(from, r.at))
    /\ r.failed => NS!Fed(r)
    /\ ~r.failed => NsPosition(r)
    /\ \A k \in NS!Sent :
           ~NS!Framed(k) /\ r.at <= NS!End(k - 1) /\ NS!End(k - 1) < arrived
           => arrived = NS!End(k)

NsUncut == \A k \in NS!Sent : NS!Framed(k) => arrived # NS!End(k - 1) + 1

NsBetween(at) == \E k \in 0 .. Len(msgs) : at = NS!End(k)

NsInv ==
    /\ NsLayout
    /\ ~hurt => /\ NsUncut /\ NsRebuilds(client, 0)
                /\ dump # None /\ NsBetween(since) => NsRebuilds(dump, since)

LEMMA NsAssumed ==
    MaxUnframedSize \in Nat \ {0} /\ Sizes \subseteq Nat \ {0} /\ Messages \in Nat
BY PartsAssumption DEF NS!NvidiaStreamAssumption

\* Where messages begin and end.
LEMMA NsPlaces ==
    ASSUME NsLayout
    PROVE  /\ Len(msgs) \in Nat /\ NS!End(0) = 0
           /\ \A k \in 0 .. Len(msgs) : NS!End(k) \in Nat
           /\ \A k \in NS!Sent :
                  /\ msgs[k].size \in Nat \ {0} /\ msgs[k].bad \in BOOLEAN
                  /\ k - 1 \in 0 .. Len(msgs) /\ k \in 0 .. Len(msgs)
                  /\ NS!End(k) = NS!Body(k) + msgs[k].size /\ NS!Body(k) \in Nat
                  /\ NS!Body(k) = NS!End(k - 1) + (IF NS!Framed(k) THEN 2 ELSE 0)
<1>1. Len(msgs) \in Nat /\ NS!End(0) = 0
  BY DEF NsLayout, NS!End
<1>2. ASSUME NEW k \in NS!Sent
      PROVE  /\ k # 0 /\ k \in 1 .. Len(msgs) /\ msgs[k] \in [size : Sizes, bad : BOOLEAN, end : Nat]
             /\ NS!End(k) = msgs[k].end
  <2>1. k \in Nat /\ k # 0 /\ k \in 1 .. Len(msgs)
    BY <1>1 DEF NS!Sent
  <2>2. msgs[k] \in [size : Sizes, bad : BOOLEAN, end : Nat]
    <3>1. \A T : msgs \in Seq(T) => msgs[k] \in T
      BY <2>1
    <3>2. QED  BY <3>1 DEF NsLayout
  <2>3. QED  BY <2>1, <2>2 DEF NS!End
<1>3. ASSUME NEW k \in 0 .. Len(msgs) PROVE NS!End(k) \in Nat
  <2>1. CASE k = 0  BY <1>1, <2>1
  <2>2. CASE k # 0
    <3>1. k \in NS!Sent  BY <1>1, <2>2 DEF NS!Sent
    <3>2. QED  BY <3>1, <1>2
  <2>3. QED  BY <2>1, <2>2
<1>4. ASSUME NEW k \in NS!Sent
      PROVE  /\ msgs[k].size \in Nat \ {0} /\ msgs[k].bad \in BOOLEAN
             /\ k - 1 \in 0 .. Len(msgs) /\ k \in 0 .. Len(msgs)
             /\ NS!End(k) = NS!Body(k) + msgs[k].size /\ NS!Body(k) \in Nat
             /\ NS!Body(k) = NS!End(k - 1) + (IF NS!Framed(k) THEN 2 ELSE 0)
  <2>1. msgs[k].size \in Nat \ {0} /\ msgs[k].bad \in BOOLEAN /\ msgs[k].end \in Nat
    BY <1>2, NsAssumed
  <2>2. k - 1 \in 0 .. Len(msgs) /\ k \in 0 .. Len(msgs)
    BY <1>1, <1>2
  <2>3. NS!End(k - 1) \in Nat
    BY <1>3, <2>2
  <2>4. NS!End(k) = NS!End(k - 1) + NS!Frames(msgs[k].size)
    BY DEF NsLayout
  <2>5. NS!Body(k) = NS!End(k) - msgs[k].size
    BY <1>2 DEF NS!Body
  <2>6. CASE NS!Framed(k)
    BY <1>2, <2>1, <2>2, <2>3, <2>4, <2>5, <2>6, NsAssumed DEF NS!Frames, NS!Framed
  <2>7. CASE ~NS!Framed(k)
    BY <1>2, <2>1, <2>2, <2>3, <2>4, <2>5, <2>7, NsAssumed DEF NS!Frames, NS!Framed
  <2>8. QED  BY <2>6, <2>7
<1>5. QED  BY <1>1, <1>3, <1>4

\* They are apart: one that ends no later than another is no later.
LEMMA NsApart ==
    ASSUME NsLayout
    PROVE  /\ \A k \in NS!Sent : NS!End(k - 1) < NS!End(k)
           /\ \A j \in 0 .. Len(msgs), k \in NS!Sent :
                  /\ NS!End(j) < NS!End(k) <=> j < k
                  /\ NS!End(j) <= NS!End(k - 1) <=> j < k
           /\ \A k \in 0 .. Len(msgs) : NS!End(k) <= NS!End(Len(msgs))
<1>1. ASSUME NEW k \in NS!Sent PROVE NS!End(k - 1) < NS!End(k)
  <2>1. /\ msgs[k].size \in Nat \ {0} /\ NS!Body(k) \in Nat
        /\ NS!End(k) = NS!Body(k) + msgs[k].size
    BY NsPlaces
  <2>2. NS!End(k - 1) \in Nat /\ NS!End(k - 1) <= NS!Body(k)
    BY NsPlaces
  <2>3. QED  BY <2>1, <2>2
<1>2. ASSUME NEW j \in 0 .. Len(msgs), NEW k \in NS!Sent, j < k
      PROVE  NS!End(j) <= NS!End(k - 1) /\ NS!End(j) < NS!End(k)
  BY <1>1, <1>2, NsPlaces DEF NsLayout
<1>3. ASSUME NEW j \in 0 .. Len(msgs), NEW k \in NS!Sent, ~(j < k)
      PROVE  NS!End(k - 1) < NS!End(j) /\ NS!End(k) <= NS!End(j)
  <2>1. CASE j = k
    BY <1>1, <2>1, NsPlaces
  <2>2. CASE j # k
    <3>1. j \in NS!Sent /\ k < j
      BY <1>3, <2>2, NsPlaces DEF NS!Sent
    <3>2. NS!End(k) < NS!End(j)
      BY <1>2, <3>1, NsPlaces
    <3>3. QED  BY <1>1, <3>2, NsPlaces
  <2>3. QED  BY <2>1, <2>2
<1>4. ASSUME NEW j \in 0 .. Len(msgs), NEW k \in NS!Sent
      PROVE  /\ NS!End(j) < NS!End(k) <=> j < k
             /\ NS!End(j) <= NS!End(k - 1) <=> j < k
  <2>1. NS!End(j) \in Nat /\ NS!End(k) \in Nat /\ NS!End(k - 1) \in Nat
    BY NsPlaces
  <2>2. CASE j < k  BY <1>2, <2>1, <2>2
  <2>3. CASE ~(j < k)  BY <1>3, <2>1, <2>3
  <2>4. QED  BY <2>2, <2>3
<1>5. ASSUME NEW k \in 0 .. Len(msgs) PROVE NS!End(k) <= NS!End(Len(msgs))
  <2>1. CASE k = Len(msgs)  BY <2>1, NsPlaces
  <2>2. CASE k # Len(msgs)
    <3>1. Len(msgs) \in NS!Sent /\ k < Len(msgs)
      BY <2>2, NsPlaces DEF NS!Sent
    <3>2. QED  BY <1>4, <3>1, NsPlaces
  <2>3. QED  BY <2>1, <2>2
<1>6. QED  BY <1>1, <1>4, <1>5

\* Nothing comes out between two places when no message ends there.
LEMMA NsBetweenSame ==
    ASSUME NsLayout, NEW from \in Nat, NEW at \in Nat, NEW to \in Nat, at <= to,
           \A k \in NS!Sent : NS!End(k) <= to => NS!End(k) <= at
    PROVE  /\ NS!Between(from, to) = NS!Between(from, at)
           /\ NS!Bad(from, to) <=> NS!Bad(from, at)
<1>1. \A k \in NS!Sent : NS!End(k) <= to <=> NS!End(k) <= at
  BY NsPlaces
<1>2. QED  BY <1>1 DEF NS!Between, NS!Bad

\* Nor after a bad one.
LEMMA NsBetweenBad ==
    ASSUME NsLayout, NEW from \in Nat, NEW at \in Nat, NEW to \in Nat, at <= to,
           NS!Bad(from, at)
    PROVE  NS!Between(from, to) = NS!Between(from, at) /\ NS!Bad(from, to)
<1>1. \A p \in Nat : at <= p => NS!Bad(from, p)
  <2>1. PICK j \in NS!Sent : msgs[j].bad /\ from <= NS!End(j - 1) /\ NS!End(j) <= at
    BY DEF NS!Bad
  <2>2. \A p \in Nat : at <= p => NS!End(j) <= p
    BY <2>1, NsPlaces
  <2>3. QED  BY <2>1, <2>2 DEF NS!Bad
<1>2. ASSUME NEW k \in NS!Sent
      PROVE  NS!End(k) <= to /\ ~NS!Bad(from, NS!End(k))
             <=> NS!End(k) <= at /\ ~NS!Bad(from, NS!End(k))
  <2>1. NS!End(k) \in Nat
    BY NsPlaces
  <2>2. at <= NS!End(k) => NS!Bad(from, NS!End(k))
    BY <1>1, <2>1
  <2>3. NS!End(k) <= at => NS!End(k) <= to
    BY <2>1
  <2>4. NS!End(k) <= at \/ at <= NS!End(k)
    BY <2>1
  <2>5. QED  BY <2>2, <2>3, <2>4
<1>3. QED  BY <1>1, <1>2 DEF NS!Between

\* The next message comes out, if it is not bad.
LEMMA NsBetweenNext ==
    ASSUME NsLayout, NEW from \in Nat, NEW at \in Nat, NEW k \in NS!Sent,
           from <= NS!End(k - 1), at < NS!End(k), ~NS!Bad(from, at),
           \A j \in NS!Sent : NS!End(j) < NS!End(k) => NS!End(j) <= at
    PROVE  /\ NS!Bad(from, NS!End(k)) <=> msgs[k].bad
           /\ NS!Between(from, NS!End(k))
              = NS!Between(from, at) \cup (IF msgs[k].bad THEN {} ELSE {k})
           /\ \A j \in NS!Between(from, at) : j < k
<1>1. ASSUME NEW j \in NS!Sent
      PROVE  /\ NS!End(j) <= NS!End(k) <=> NS!End(j) <= at \/ j = k
             /\ NS!End(j) <= at => j < k
  <2>1. /\ NS!End(j) \in Nat /\ NS!End(k) \in Nat /\ j \in 0 .. Len(msgs) /\ k \in 0 .. Len(msgs)
        /\ j \in Nat /\ k \in Nat
    BY NsPlaces
  <2>2. NS!End(j) < NS!End(k) <=> j < k
    BY <2>1, NsApart
  <2>3. NS!End(k) < NS!End(j) <=> k < j
    BY <2>1, NsApart
  <2>4. QED  BY <2>1, <2>2, <2>3
<1>2. NS!Bad(from, NS!End(k)) <=> msgs[k].bad
  BY <1>1 DEF NS!Bad
<1>3. ASSUME NEW j \in NS!Sent
      PROVE  j \in NS!Between(from, NS!End(k))
             <=> j \in NS!Between(from, at) \/ (j = k /\ ~msgs[k].bad)
  BY <1>1, <1>2 DEF NS!Between
<1>4. NS!Between(from, NS!End(k)) \subseteq NS!Sent /\ NS!Between(from, at) \subseteq NS!Sent
  BY DEF NS!Between
<1>5. \A j \in NS!Between(from, at) : j < k
  BY <1>1 DEF NS!Between
<1>6. NS!Between(from, NS!End(k))
      = NS!Between(from, at) \cup (IF msgs[k].bad THEN {} ELSE {k})
  BY <1>3, <1>4
<1>7. QED  BY <1>2, <1>5, <1>6

\* What is one message is decoded as that.
LEMMA NsDecodes ==
    ASSUME NsLayout, NEW k \in NS!Sent
    PROVE  /\ NS!Decode(NS!Body(k), NS!End(k)) = {IF msgs[k].bad THEN 0 ELSE k}
           /\ k # 0
<1>1. \A j \in NS!Sent : NS!End(j) = NS!End(k) => j = k
  <2> SUFFICES ASSUME NEW j \in NS!Sent, NS!End(j) = NS!End(k) PROVE j = k
    OBVIOUS
  <2>1. j \in 0 .. Len(msgs) /\ k \in 0 .. Len(msgs) /\ NS!End(k) \in Nat
    BY NsPlaces
  <2>2. ~(j < k) /\ ~(k < j)
    BY <2>1, NsApart
  <2>3. QED  BY <2>1, <2>2
<1>2. {j \in NS!Sent : NS!Body(j) = NS!Body(k) /\ NS!End(j) = NS!End(k)} = {k}
  BY <1>1
<1>3. k # 0
  BY NsPlaces DEF NS!Sent
<1>4. QED  BY <1>2, <1>3 DEF NS!Decode, NS!Error

LEMMA NsAppended ==
    ASSUME NEW s \in Seq(Nat), NEW S, NEW k \in Nat,
           {s[i] : i \in 1 .. Len(s)} = S, \A j \in S : j < k,
           \A i, j \in 1 .. Len(s) : i < j => s[i] < s[j]
    PROVE  LET t == Append(s, k)
           IN  /\ t \in Seq(Nat) /\ {t[i] : i \in 1 .. Len(t)} = S \cup {k}
               /\ \A i, j \in 1 .. Len(t) : i < j => t[i] < t[j]
<1> DEFINE t == Append(s, k)
<1>1. /\ t \in Seq(Nat) /\ Len(t) = Len(s) + 1 /\ Len(s) \in Nat /\ t[Len(s) + 1] = k
      /\ \A i \in 1 .. Len(s) : t[i] = s[i] /\ s[i] < k
  OBVIOUS
<1> HIDE DEF t
<1>2. 1 .. Len(t) = (1 .. Len(s)) \cup {Len(s) + 1}
  BY <1>1
<1>3. {t[i] : i \in 1 .. Len(t)} = S \cup {k}
  <2>1. \A x : x \in {t[i] : i \in 1 .. Len(t)} <=> \E i \in 1 .. Len(t) : x = t[i]
    OBVIOUS
  <2>2. \A x : x \in S <=> \E i \in 1 .. Len(s) : x = s[i]
    OBVIOUS
  <2>3. \A x : (\E i \in 1 .. Len(t) : x = t[i]) <=> (\E i \in 1 .. Len(s) : x = s[i]) \/ x = k
    BY <1>1, <1>2
  <2>4. QED  BY <2>1, <2>2, <2>3
<1>4. ASSUME NEW i \in 1 .. Len(t), NEW j \in 1 .. Len(t), i < j PROVE t[i] < t[j]
  <2>1. i \in 1 .. Len(s) /\ t[i] = s[i] /\ s[i] < k
    BY <1>1, <1>4
  <2>2. CASE j = Len(s) + 1
    BY <1>1, <2>1, <2>2
  <2>3. CASE j # Len(s) + 1
    BY <1>1, <1>2, <1>4, <2>1, <2>3
  <2>4. QED  BY <2>2, <2>3
<1>5. QED  BY <1>1, <1>3, <1>4 DEF t

\* A message is complete: it is decoded, and the Reassembler goes on behind it.
LEMMA NsCompletes ==
    ASSUME NsLayout, NEW r \in NsReassembler, NEW from \in Nat, NsRebuilds(r, from),
           ~r.failed, NEW k \in NS!Sent, from <= NS!End(k - 1), r.at < NS!End(k),
           NS!End(k) <= arrived,
           \A j \in NS!Sent : NS!End(j) < NS!End(k) => NS!End(j) <= r.at,
           NEW r2 \in NS!Decoded(r, NS!Body(k), NS!End(k), NS!End(k))
    PROVE  NsRebuilds(r2, from)
<1>1. /\ r.at \in Nat /\ from <= r.at /\ r.out \in Seq(Nat) /\ NS!End(k) \in Nat
      /\ arrived \in Nat /\ k \in Nat /\ k \in 0 .. Len(msgs)
  <2>1. NS!End(Len(msgs)) \in Nat /\ k \in 0 .. Len(msgs) /\ NS!End(k) \in Nat
    BY NsPlaces
  <2>2. arrived \in Nat /\ k \in Nat
    BY <2>1 DEF NsLayout
  <2>3. r.at \in Nat /\ from <= r.at /\ r.out \in Seq(Nat)
    BY <2>2 DEF NsReassembler, NsRebuilds
  <2>4. QED  BY <2>1, <2>2, <2>3
<1>2. ~NS!Bad(from, r.at)
  BY DEF NsRebuilds
<1>3. /\ NS!Bad(from, NS!End(k)) <=> msgs[k].bad
      /\ NS!Between(from, NS!End(k))
         = NS!Between(from, r.at) \cup (IF msgs[k].bad THEN {} ELSE {k})
      /\ \A j \in NS!Between(from, r.at) : j < k
  BY <1>1, <1>2, NsBetweenNext
<1>4. /\ {r.out[i] : i \in 1 .. Len(r.out)} = NS!Between(from, r.at)
      /\ \A i, j \in 1 .. Len(r.out) : i < j => r.out[i] < r.out[j]
  BY DEF NsRebuilds, NS!Gives
<1>5. r2 = IF msgs[k].bad THEN [NS!Fresh(arrived) EXCEPT !.out = r.out, !.failed = TRUE]
           ELSE [NS!Fresh(NS!End(k)) EXCEPT !.out = Append(r.out, k)]
  BY NsDecodes DEF NS!Decoded, NS!Error
<1>6. CASE msgs[k].bad
  <2>1. r2 = [at |-> arrived, want |-> 0, got |-> 0, out |-> r.out, failed |-> TRUE]
    BY <1>5, <1>6 DEF NS!Fresh
  <2>2. NS!Between(from, arrived) = NS!Between(from, r.at) /\ NS!Bad(from, arrived)
    BY <1>1, <1>3, <1>6, NsBetweenBad
  <2>3. NS!Gives(r2, from)
    BY <1>4, <2>1, <2>2 DEF NS!Gives
  <2>4. r2 \in NsReassembler /\ r2.at \in from .. arrived
    BY <1>1, <2>1 DEF NsReassembler
  <2>5. \A j \in NS!Sent : ~(r2.at <= NS!End(j - 1) /\ NS!End(j - 1) < arrived)
    <3>1. r2.at = arrived /\ \A j \in NS!Sent : NS!End(j - 1) \in Nat
      BY <2>1, NsPlaces
    <3>2. QED  BY <1>1, <3>1
  <2>6. (r2.failed <=> NS!Bad(from, r2.at)) /\ NS!Fed(r2) /\ r2.failed
    BY <2>1, <2>2 DEF NS!Fed
  <2>7. QED  BY <2>3, <2>4, <2>5, <2>6 DEF NsRebuilds
<1>7. CASE ~msgs[k].bad
  <2>1. r2 = [at |-> NS!End(k), want |-> 0, got |-> 0, out |-> Append(r.out, k),
              failed |-> FALSE]
    BY <1>5, <1>7 DEF NS!Fresh
  <2>2. LET t == Append(r.out, k)
        IN  /\ t \in Seq(Nat)
            /\ {t[i] : i \in 1 .. Len(t)} = NS!Between(from, r.at) \cup {k}
            /\ \A i, j \in 1 .. Len(t) : i < j => t[i] < t[j]
    BY <1>1, <1>3, <1>4, NsAppended
  <2>3. r2.out = Append(r.out, k) /\ r2.at = NS!End(k) /\ r2.want = 0 /\ r2.got = 0 /\ r2.failed = FALSE
    BY <2>1
  <2>4. NS!Gives(r2, from)
    <3>1. {r2.out[i] : i \in 1 .. Len(r2.out)} = NS!Between(from, r.at) \cup {k}
      BY <2>2, <2>3
    <3>2. NS!Between(from, r2.at) = NS!Between(from, r.at) \cup {k}
      BY <1>3, <1>7, <2>3
    <3>3. \A i, j \in 1 .. Len(r2.out) : i < j => r2.out[i] < r2.out[j]
      BY <2>2, <2>3
    <3>4. QED  BY <3>1, <3>2, <3>3 DEF NS!Gives
  <2>5. r2 \in NsReassembler /\ r2.at \in from .. arrived
    BY <1>1, <2>1, <2>2 DEF NsReassembler
  <2>6. \A j \in NS!Sent :
            ~NS!Framed(j) /\ r2.at <= NS!End(j - 1) /\ NS!End(j - 1) < arrived
            => arrived = NS!End(j)
    <3> SUFFICES ASSUME NEW j \in NS!Sent, ~NS!Framed(j), r2.at <= NS!End(j - 1),
                        NS!End(j - 1) < arrived
                 PROVE  arrived = NS!End(j)
      OBVIOUS
    <3>1. NS!End(j - 1) \in Nat
      BY NsPlaces
    <3>2. r.at <= NS!End(j - 1)
      BY <1>1, <2>3, <3>1
    <3>3. QED  BY <3>2 DEF NsRebuilds
  <2>7. NsPosition(r2)
    BY <1>1, <2>3 DEF NsPosition
  <2>8. (r2.failed <=> NS!Bad(from, r2.at)) /\ ~r2.failed
    BY <1>3, <1>7, <2>3
  <2>9. QED  BY <2>4, <2>5, <2>6, <2>7, <2>8 DEF NsRebuilds
<1>8. QED  BY <1>6, <1>7

\* It takes bytes of a message that is not complete by them.
LEMMA NsMoves ==
    ASSUME NsLayout, NEW r \in NsReassembler, NEW from \in Nat, NsRebuilds(r, from),
           ~r.failed, NEW r2 \in NsReassembler, r.at <= r2.at, r2.at <= arrived,
           r2.out = r.out, ~r2.failed, NsPosition(r2),
           \A k \in NS!Sent : NS!End(k) <= r2.at => NS!End(k) <= r.at
    PROVE  NsRebuilds(r2, from)
<1>1. r.at \in Nat /\ r2.at \in Nat /\ from <= r.at /\ arrived \in Nat
  <2>1. arrived \in Nat
    BY NsPlaces DEF NsLayout
  <2>2. QED  BY <2>1 DEF NsReassembler, NsRebuilds
<1>2. NS!Between(from, r2.at) = NS!Between(from, r.at) /\ ~NS!Bad(from, r2.at)
  BY <1>1, NsBetweenSame DEF NsRebuilds
<1>3. NS!Gives(r2, from)
  BY <1>2 DEF NsRebuilds, NS!Gives
<1>4. \A k \in NS!Sent :
          ~NS!Framed(k) /\ r2.at <= NS!End(k - 1) /\ NS!End(k - 1) < arrived
          => arrived = NS!End(k)
  BY <1>1, NsPlaces DEF NsRebuilds
<1>5. QED  BY <1>1, <1>2, <1>3, <1>4 DEF NsRebuilds

\* One turn of Feed within an announced message.
LEMMA NsFeedsFramed ==
    ASSUME NsLayout, NsUncut, NEW r \in NsReassembler, NEW from \in Nat, NsBetween(from),
           NsRebuilds(r, from), ~r.failed, ~NS!Fed(r),
           NEW k \in NS!Sent, NS!Framed(k), r.want = msgs[k].size, r.got \in 0 .. r.want - 1,
           r.at = NS!Body(k) + r.got,
           NEW r2 \in NS!Feed(r)
    PROVE  NsRebuilds(r2, from)
<1>1. /\ arrived \in Nat /\ NS!End(k) \in Nat /\ NS!Body(k) \in Nat /\ r.at < arrived
      /\ NS!End(k) = NS!Body(k) + r.want /\ r.want \in Nat /\ r.got \in Nat
      /\ r.got < r.want
      /\ r.at \in Nat /\ NS!End(k - 1) \in Nat /\ NS!End(k - 1) <= NS!Body(k)
      /\ k \in 0 .. Len(msgs) /\ k - 1 \in 0 .. Len(msgs) /\ k \in Nat
  <2>1. arrived \in Nat
    BY NsPlaces DEF NsLayout
  <2>2. /\ NS!End(k) \in Nat /\ NS!Body(k) \in Nat /\ NS!End(k) = NS!Body(k) + r.want
        /\ r.want \in Nat /\ NS!End(k - 1) \in Nat /\ NS!End(k - 1) <= NS!Body(k)
        /\ k \in 0 .. Len(msgs) /\ k - 1 \in 0 .. Len(msgs) /\ k \in Nat
    BY NsPlaces
  <2>3. r.at \in Nat /\ r.got \in Nat /\ r.at < arrived
    BY <2>1 DEF NsReassembler, NsRebuilds, NS!Fed
  <2>4. r.got < r.want
    BY <2>2, <2>3
  <2>5. QED  BY <2>1, <2>2, <2>3, <2>4
<1>2. /\ r.want > 0 /\ r.at + (r.want - r.got) = NS!End(k) /\ r.at - r.got = NS!Body(k)
      /\ r.at < NS!End(k) /\ NS!End(k - 1) <= r.at
  <2>1. PICK b, e, g, w \in Nat :
           b = NS!Body(k) /\ e = NS!End(k) /\ g = r.got /\ w = r.want
    BY <1>1
  <2>2. g < w /\ e = b + w /\ r.at = b + g
    BY <1>1, <2>1
  <2>3. w > 0 /\ r.at + (w - g) = e /\ r.at - g = b /\ r.at < e /\ b <= r.at
    BY <2>1, <2>2
  <2>4. NS!End(k - 1) <= r.at
    BY <1>1, <2>1, <2>3
  <2>5. QED  BY <2>1, <2>3, <2>4
<1>3. \A j \in NS!Sent : NS!End(j) < NS!End(k) => NS!End(j) <= r.at
  <2> SUFFICES ASSUME NEW j \in NS!Sent, NS!End(j) < NS!End(k) PROVE NS!End(j) <= r.at
    OBVIOUS
  <2>1. j \in 0 .. Len(msgs) /\ NS!End(j) \in Nat
    BY NsPlaces
  <2>2. NS!End(j) <= NS!End(k - 1)
    BY <2>1, NsApart
  <2>3. QED  BY <1>1, <1>2, <2>1, <2>2
<1>4. from <= NS!End(k - 1)
  <2>1. PICK j \in 0 .. Len(msgs) : from = NS!End(j)
    BY DEF NsBetween
  <2>2. from < NS!End(k)
    <3>1. from <= r.at
      BY <1>1 DEF NsRebuilds
    <3>2. r.at < NS!End(k) /\ r.at \in Nat /\ NS!End(k) \in Nat /\ from \in Nat
      BY <1>1, <1>2
    <3>3. QED  BY <3>1, <3>2
  <2>3. QED  BY <2>1, <2>2, NsApart
<1>5. CASE arrived < NS!End(k)
  <2>1. r2 = [r EXCEPT !.at = arrived, !.got = r.got + (arrived - r.at)]
    BY <1>2, <1>5 DEF NS!Feed
  <2>2. /\ r2 \in NsReassembler /\ r2.at = arrived /\ r2.got = r.got + (arrived - r.at)
        /\ r2.want = r.want /\ r2.out = r.out /\ r2.failed = r.failed
    <3>1. PICK n \in Nat : n = r.got + (arrived - r.at)
      <4>1. r.got \in Nat /\ arrived \in Nat /\ r.at \in Nat /\ r.at < arrived
        BY <1>1
      <4>2. arrived - r.at \in Nat
        BY <4>1
      <4>3. QED  BY <4>1, <4>2
    <3>2. r2 = [r EXCEPT !.at = arrived, !.got = n]
      BY <2>1, <3>1
    <3>3. arrived \in Nat
      BY <1>1
    <3>4. /\ r2 \in NsReassembler /\ r2.at = arrived /\ r2.got = n
          /\ r2.want = r.want /\ r2.out = r.out /\ r2.failed = r.failed
      BY <3>2, <3>3 DEF NsReassembler
    <3>5. QED  BY <3>1, <3>4
  <2>3. NsPosition(r2)
    <3>1. r2.got \in 0 .. r2.want - 1 /\ r2.at = NS!Body(k) + r2.got
      <4>1. r2.got = arrived - NS!Body(k)
        BY <1>1, <2>2
      <4>2. NS!Body(k) < arrived /\ arrived < NS!Body(k) + r2.want /\ r2.want \in Nat
        <5>1. NS!Body(k) < arrived
          BY <1>1
        <5>2. r2.want = r.want
          BY <2>2
        <5>3. QED  BY <1>1, <1>5, <5>1, <5>2
      <4>3. arrived \in Nat /\ NS!Body(k) \in Nat /\ r2.at = arrived
        BY <1>1, <2>2
      <4>4. QED  BY <4>1, <4>2, <4>3
    <3>2. QED  BY <2>2, <3>1 DEF NsPosition
  <2>4. \A j \in NS!Sent : NS!End(j) <= r2.at => NS!End(j) <= r.at
    <3>1. \A j \in NS!Sent : NS!End(j) \in Nat
      BY NsPlaces
    <3>2. \A j \in NS!Sent : NS!End(j) <= arrived => NS!End(j) < NS!End(k)
      BY <1>1, <1>5, <3>1
    <3>3. QED  BY <1>3, <2>2, <3>2
  <2>5. r.at <= r2.at /\ r2.at <= arrived /\ ~r2.failed
    BY <1>1, <2>2
  <2>6. QED  BY <2>2, <2>3, <2>4, <2>5, NsMoves
<1>6. CASE ~(arrived < NS!End(k))
  <2>1. r2 \in NS!Decoded(r, NS!Body(k), NS!End(k), NS!End(k))
    BY <1>2, <1>6 DEF NS!Feed, NS!AfterFrame
  <2>2. NS!End(k) <= arrived
    BY <1>1, <1>6
  <2>3. QED  BY <1>2, <1>3, <1>4, <2>1, <2>2, NsCompletes
<1>7. QED  BY <1>5, <1>6

\* One turn of Feed between two messages.
LEMMA NsFeedsBetween ==
    ASSUME NsLayout, NsUncut, NEW r \in NsReassembler, NEW from \in Nat, NsBetween(from),
           NsRebuilds(r, from), ~r.failed, ~NS!Fed(r),
           r.want = 0, r.got = 0, NsBetween(r.at),
           NEW r2 \in NS!Feed(r)
    PROVE  NsRebuilds(r2, from)
<1>1. PICK i \in 0 .. Len(msgs) : r.at = NS!End(i)
  BY DEF NsBetween
<1>2. /\ arrived \in Nat /\ r.at \in Nat /\ r.at < arrived /\ from <= r.at
      /\ arrived <= NS!End(Len(msgs)) /\ NS!End(Len(msgs)) \in Nat /\ Len(msgs) \in Nat
  <2>1. /\ NS!End(Len(msgs)) \in Nat /\ Len(msgs) \in Nat /\ arrived \in Nat
        /\ arrived <= NS!End(Len(msgs))
    BY NsPlaces DEF NsLayout
  <2>2. QED  BY <2>1 DEF NsReassembler, NsRebuilds, NS!Fed
<1> DEFINE k == i + 1
<1>3. k \in NS!Sent /\ k - 1 = i /\ k # 0 /\ k \in 0 .. Len(msgs) /\ i \in Nat
  <2>1. i # Len(msgs)
    BY <1>1, <1>2
  <2>2. QED  BY <1>2, <2>1 DEF NS!Sent
<1> HIDE DEF k
<1>4. /\ NS!End(k) \in Nat /\ NS!Body(k) \in Nat /\ NS!End(k) = NS!Body(k) + msgs[k].size
      /\ msgs[k].size \in Nat \ {0} /\ NS!End(k - 1) = r.at
      /\ NS!Body(k) = r.at + (IF NS!Framed(k) THEN 2 ELSE 0)
  BY <1>1, <1>3, NsPlaces
<1>5. r.at < NS!End(k) /\ from <= NS!End(k - 1)
  <2>1. r.at \in Nat /\ from <= r.at
    BY <1>2
  <2>2. NS!Body(k) = r.at \/ NS!Body(k) = r.at + 2
    <3>1. NS!Body(k) = r.at + (IF NS!Framed(k) THEN 2 ELSE 0)
      BY <1>4
    <3>2. CASE NS!Framed(k)
      BY <3>1, <3>2
    <3>3. CASE ~NS!Framed(k)
      BY <2>1, <3>1, <3>3
    <3>4. QED  BY <3>2, <3>3
  <2>3. /\ msgs[k].size \in Nat \ {0} /\ NS!End(k) = NS!Body(k) + msgs[k].size
        /\ NS!End(k - 1) = r.at
    BY <1>4
  <2>4. QED  BY <2>1, <2>2, <2>3
<1>6. \A j \in NS!Sent : NS!End(j) < NS!End(k) => NS!End(j) <= r.at
  <2> SUFFICES ASSUME NEW j \in NS!Sent, NS!End(j) < NS!End(k) PROVE NS!End(j) <= r.at
    OBVIOUS
  <2>1. j \in 0 .. Len(msgs)
    BY NsPlaces
  <2>2. NS!End(j) <= NS!End(k - 1)
    BY <1>3, <2>1, NsApart
  <2>3. QED  BY <1>4, <2>2
<1>7. \A j \in NS!Sent : NS!End(j - 1) = r.at => j = k
  <2> SUFFICES ASSUME NEW j \in NS!Sent, NS!End(j - 1) = r.at PROVE j = k
    OBVIOUS
  <2>1. /\ j \in 0 .. Len(msgs) /\ j - 1 \in 0 .. Len(msgs) /\ NS!End(j - 1) <= NS!End(k - 1)
        /\ NS!End(k - 1) <= NS!End(j - 1)
    BY <1>2, <1>4, NsPlaces
  <2>2. k - 1 \in 0 .. Len(msgs)
    BY <1>3
  <2>3. j - 1 < k /\ k - 1 < j
    BY <1>3, <2>1, <2>2, NsApart
  <2>4. QED  BY <1>3, <2>1, <2>3
<1>8. CASE NS!Framed(k)
  <2>1. r.at + 2 <= arrived
    <3>1. arrived # r.at + 1
      BY <1>3, <1>4, <1>8 DEF NsUncut
    <3>2. QED  BY <1>2, <3>1
  <2>2. \A j \in NS!Sent : NS!Announces(j, r.at) <=> j = k
    BY <1>3, <1>4, <1>7, <1>8, <2>1 DEF NS!Announces
  <2>3. {j \in NS!Sent : NS!Announces(j, r.at)} = {k} /\ \E j \in NS!Sent : NS!Announces(j, r.at)
    BY <1>3, <2>2
  <2>4. r2 = [r EXCEPT !.at = r.at + 2, !.want = msgs[k].size]
    <3>1. ~(r.want > 0)
      OBVIOUS
    <3>2. r2 \in {[r EXCEPT !.at = @ + 2, !.want = msgs[j].size] : j \in {k}}
      BY <2>3, <3>1 DEF NS!Feed
    <3>3. QED  BY <3>2
  <2>5. /\ r2 \in NsReassembler /\ r2.at = r.at + 2 /\ r2.got = 0
        /\ r2.want = msgs[k].size /\ r2.out = r.out /\ r2.failed = r.failed
    <3>1. PICK n \in Nat : n = r.at + 2
      BY <1>2
    <3>2. r2 = [r EXCEPT !.at = n, !.want = msgs[k].size]
      BY <2>4, <3>1
    <3>3. msgs[k].size \in Nat
      BY <1>4
    <3>4. /\ r2 \in NsReassembler /\ r2.at = n /\ r2.want = msgs[k].size
          /\ r2.got = r.got /\ r2.out = r.out /\ r2.failed = r.failed
      BY <3>2, <3>3 DEF NsReassembler
    <3>5. QED  BY <3>1, <3>4
  <2>6. NsPosition(r2)
    <3>1. r2.got \in 0 .. r2.want - 1
      BY <1>4, <2>5
    <3>2. r2.at = NS!Body(k) + r2.got
      BY <1>2, <1>4, <1>8, <2>5
    <3>3. QED  BY <1>3, <1>8, <2>5, <3>1, <3>2 DEF NsPosition
  <2>7. \A j \in NS!Sent : NS!End(j) <= r2.at => NS!End(j) <= r.at
    <3>1. r2.at < NS!End(k)
      <4>1. /\ r.at \in Nat /\ NS!Body(k) = r.at + 2 /\ msgs[k].size \in Nat \ {0}
            /\ NS!End(k) = NS!Body(k) + msgs[k].size /\ r2.at = r.at + 2
        BY <1>2, <1>4, <1>8, <2>5
      <4>2. QED  BY <4>1
    <3>2. \A j \in NS!Sent : NS!End(j) \in Nat
      BY NsPlaces
    <3>3. r2.at \in Nat /\ NS!End(k) \in Nat
      BY <1>2, <1>4, <2>5
    <3>4. \A j \in NS!Sent : NS!End(j) <= r2.at => NS!End(j) < NS!End(k)
      BY <3>1, <3>2, <3>3
    <3>5. QED  BY <1>6, <3>4
  <2>8. QED  BY <1>2, <2>1, <2>5, <2>6, <2>7, NsMoves
<1>9. CASE ~NS!Framed(k)
  <2>1. arrived = NS!End(k) /\ NS!Body(k) = r.at
    BY <1>2, <1>3, <1>4, <1>9 DEF NsRebuilds
  <2>2. ~\E j \in NS!Sent : NS!Announces(j, r.at)
    BY <1>7, <1>9 DEF NS!Announces
  <2>3. r2 \in NS!Decoded(r, NS!Body(k), NS!End(k), NS!End(k))
    BY <2>1, <2>2 DEF NS!Feed
  <2>4. QED  BY <1>2, <1>3, <1>5, <1>6, <2>1, <2>3, NsCompletes
<1>10. QED  BY <1>8, <1>9

LEMMA NsFeeds ==
    ASSUME NsLayout, NsUncut, NEW r, NEW from \in Nat, NsBetween(from), NsRebuilds(r, from),
           ~NS!Fed(r), NEW r2 \in NS!Feed(r)
    PROVE  NsRebuilds(r2, from)
<1>1. r \in NsReassembler /\ ~r.failed /\ NsPosition(r)
  BY DEF NsRebuilds
<1>2. CASE r.want = 0 /\ r.got = 0 /\ NsBetween(r.at)
  BY <1>1, <1>2, NsFeedsBetween
<1>3. CASE \E k \in NS!Sent : /\ NS!Framed(k) /\ r.want = msgs[k].size
                              /\ r.got \in 0 .. r.want - 1 /\ r.at = NS!Body(k) + r.got
  BY <1>1, <1>3, NsFeedsFramed
<1>4. QED  BY <1>1, <1>2, <1>3 DEF NsPosition, NsBetween

LEMMA NsInitially == ASSUME NS!Init PROVE NsInv
<1>1. /\ msgs = <<>> /\ arrived = 0 /\ since = 0 /\ hurt = FALSE /\ dump = None
      /\ client = [at |-> 0, want |-> 0, got |-> 0, out |-> <<>>, failed |-> FALSE]
  BY DEF NS!Init, NS!Fresh
<1>2. Len(msgs) = 0 /\ NS!Sent = {} /\ NS!End(0) = 0
  BY <1>1 DEF NS!Sent, NS!End
<1>3. NsLayout
  <2>1. \A T : <<>> \in Seq(T)
    OBVIOUS
  <2>2. /\ msgs \in Seq([size : Sizes, bad : BOOLEAN, end : Nat])
        /\ arrived \in 0 .. NS!End(Len(msgs)) /\ since \in 0 .. arrived
    BY <1>1, <1>2, <2>1
  <2>3. QED  BY <1>1, <1>2, <2>2 DEF NsLayout
<1>4. NsUncut /\ NS!Between(0, 0) = {} /\ ~NS!Bad(0, 0)
  BY <1>2 DEF NsUncut, NS!Between, NS!Bad
<1>5. NsRebuilds(client, 0)
  <2>1. client \in NsReassembler /\ client.at \in 0 .. arrived
    BY <1>1 DEF NsReassembler
  <2>2. Len(client.out) = 0 /\ client.at = 0 /\ client.want = 0 /\ client.got = 0 /\ client.failed = FALSE
    BY <1>1
  <2>3. NS!Gives(client, 0)
    BY <1>4, <2>2 DEF NS!Gives
  <2>4. NsPosition(client)
    BY <1>2, <2>2 DEF NsPosition
  <2>5. QED  BY <1>2, <1>4, <2>1, <2>2, <2>3, <2>4 DEF NsRebuilds
<1>6. QED  BY <1>1, <1>3, <1>4, <1>5 DEF NsInv

\* What is said of a Reassembler depends on the stream alone.
LEMMA NsFrame ==
    ASSUME NEW r, NEW from, UNCHANGED <<msgs, arrived>>
    PROVE  /\ NsRebuilds(r, from)' <=> NsRebuilds(r, from)
           /\ NsBetween(from)' <=> NsBetween(from)
           /\ NsUncut' <=> NsUncut
BY DEF NsRebuilds, NsReassembler, NsPosition, NsBetween, NsUncut, NS!Gives, NS!Between,
   NS!Bad, NS!Fed, NS!Sent, NS!End, NS!Body, NS!Framed

LEMMA NsLayoutFrame ==
    ASSUME NsLayout, UNCHANGED <<msgs, arrived>>, since' \in 0 .. arrived, hurt' \in BOOLEAN
    PROVE  NsLayout'
BY DEF NsLayout, NS!Sent, NS!End, NS!Frames

LEMMA NsClientFed == ASSUME NsInv, NS!FeedClient PROVE NsInv'
<1>1. /\ ~NS!Fed(client) /\ client' \in NS!Feed(client)
      /\ UNCHANGED <<msgs, arrived, dump, since, hurt>>
  BY DEF NS!FeedClient
<1>2. NsLayout'
  BY <1>1, NsLayoutFrame DEF NsInv, NsLayout
<1>3. CASE ~hurt
  <2>1. NsBetween(0)
    BY NsPlaces DEF NsInv, NsBetween
  <2>2. NsRebuilds(client', 0)
    BY <1>1, <1>3, <2>1, NsFeeds DEF NsInv
  <2>3. NsRebuilds(client, 0)'
    BY <1>1, <2>2, NsFrame
  <2>4. (dump # None /\ NsBetween(since) => NsRebuilds(dump, since))' /\ NsUncut'
    BY <1>1, <1>3, NsFrame DEF NsInv
  <2>5. QED  BY <1>2, <2>3, <2>4 DEF NsInv
<1>4. CASE hurt  BY <1>1, <1>2, <1>4 DEF NsInv
<1>5. QED  BY <1>3, <1>4 DEF NsInv, NsLayout

LEMMA NsDumpFed == ASSUME NsInv, NS!FeedDump PROVE NsInv'
<1>1. /\ dump # None /\ ~NS!Fed(dump) /\ dump' \in NS!Feed(dump)
      /\ UNCHANGED <<msgs, arrived, client, since, hurt>>
  BY DEF NS!FeedDump, NS!HookReturned
<1>2. NsLayout'
  BY <1>1, NsLayoutFrame DEF NsInv, NsLayout
<1>3. CASE ~hurt
  <2>1. since \in Nat
    BY NsPlaces DEF NsInv, NsLayout
  <2>2. NsBetween(since) => NsRebuilds(dump', since)
    BY <1>1, <1>3, <2>1, NsFeeds DEF NsInv
  <2>3. (NsBetween(since) => NsRebuilds(dump, since))'
    BY <1>1, <2>2, NsFrame
  <2>4. NsRebuilds(client, 0)' /\ NsUncut'
    BY <1>1, <1>3, NsFrame DEF NsInv
  <2>5. QED  BY <1>2, <2>3, <2>4 DEF NsInv
<1>4. CASE hurt  BY <1>1, <1>2, <1>4 DEF NsInv
<1>5. QED  BY <1>3, <1>4 DEF NsInv, NsLayout

LEMMA NsHooked == ASSUME NsInv, NS!SetOnFrame PROVE NsInv'
<1>1. /\ dump' = [at |-> arrived, want |-> 0, got |-> 0, out |-> <<>>, failed |-> FALSE]
      /\ since' = arrived /\ UNCHANGED <<msgs, arrived, client, hurt>>
  BY DEF NS!SetOnFrame, NS!Fresh
<1>2. arrived \in Nat
  BY NsPlaces DEF NsInv, NsLayout
<1>3. NsLayout'
  <2>1. since' \in 0 .. arrived /\ hurt' \in BOOLEAN
    BY <1>1, <1>2 DEF NsInv, NsLayout
  <2>2. QED  BY <1>1, <2>1, NsLayoutFrame DEF NsInv
<1>4. CASE ~hurt
  <2>1. ASSUME NsBetween(arrived) PROVE NsRebuilds(dump', arrived)
    <3>1. \A k \in NS!Sent : ~(arrived <= NS!End(k - 1) /\ NS!End(k) <= arrived)
      BY <1>2, NsPlaces, NsApart DEF NsInv
    <3>2. NS!Between(arrived, arrived) = {} /\ ~NS!Bad(arrived, arrived)
      BY <3>1 DEF NS!Between, NS!Bad
    <3>3. dump' \in NsReassembler
      BY <1>1, <1>2 DEF NsReassembler
    <3>4. /\ Len(dump'.out) = 0 /\ dump'.at = arrived /\ dump'.want = 0 /\ dump'.got = 0
          /\ dump'.failed = FALSE
      BY <1>1
    <3>5. NS!Gives(dump', arrived)
      BY <3>2, <3>4 DEF NS!Gives
    <3>6. NsPosition(dump')
      BY <2>1, <3>4 DEF NsPosition, NsBetween
    <3>7. \A k \in NS!Sent : ~(dump'.at <= NS!End(k - 1) /\ NS!End(k - 1) < arrived)
      BY <1>2, <3>4, NsPlaces DEF NsInv
    <3>8. dump'.at \in arrived .. arrived
      BY <1>2, <3>4
    <3>9. QED  BY <3>2, <3>3, <3>4, <3>5, <3>6, <3>7, <3>8 DEF NsRebuilds
  <2>2. (NsBetween(since) => NsRebuilds(dump, since))'
    BY <1>1, <2>1, NsFrame
  <2>3. NsRebuilds(client, 0)' /\ NsUncut'
    BY <1>1, <1>4, NsFrame DEF NsInv
  <2>4. QED  BY <1>3, <2>2, <2>3 DEF NsInv
<1>5. CASE hurt  BY <1>1, <1>3, <1>5 DEF NsInv
<1>6. QED  BY <1>4, <1>5 DEF NsInv, NsLayout

\* Sending adds a message behind what is there.
LEMMA NsSendAdds ==
    ASSUME NsLayout, NS!Send, NEW n, n = Len(msgs) + 1
    PROVE  /\ NS!Sent' = NS!Sent \cup {n} /\ Len(msgs') = n /\ Len(msgs) \in Nat
           /\ n \notin NS!Sent /\ \A k \in NS!Sent : k < n
           /\ \A k \in 0 .. Len(msgs) : NS!End(k)' = NS!End(k)
           /\ \A k \in NS!Sent : /\ msgs'[k] = msgs[k] /\ NS!End(k - 1)' = NS!End(k - 1)
                                 /\ NS!Framed(k)' = NS!Framed(k)
                                 /\ NS!Body(k)' = NS!Body(k)
           /\ msgs' \in Seq([size : Sizes, bad : BOOLEAN, end : Nat])
           /\ msgs'[n].size \in Nat \ {0} /\ msgs'[n].bad \in BOOLEAN
           /\ NS!End(n)' = NS!End(n - 1)' + NS!Frames(msgs'[n].size)
           /\ NS!End(n - 1)' = NS!End(Len(msgs))
           /\ NS!End(Len(msgs)) < NS!End(n)' /\ NS!End(n)' \in Nat
           /\ UNCHANGED <<arrived, client, dump, since, hurt>>
<1>1. PICK m \in [size : Sizes, bad : BOOLEAN, end : Nat] :
          /\ msgs' = Append(msgs, m) /\ m.end = NS!End(Len(msgs)) + NS!Frames(m.size)
          /\ UNCHANGED <<arrived, client, dump, since, hurt>>
  <2>1. PICK size \in Sizes, bad \in BOOLEAN :
            msgs' = Append(msgs, [size |-> size, bad |-> bad,
                                  end |-> NS!End(Len(msgs)) + NS!Frames(size)])
    BY DEF NS!Send
  <2>2. NS!Frames(size) \in Nat /\ NS!End(Len(msgs)) \in Nat
    BY NsAssumed, NsPlaces DEF NS!Frames
  <2>3. UNCHANGED <<arrived, client, dump, since, hurt>>
    BY DEF NS!Send
  <2>4. NS!End(Len(msgs)) + NS!Frames(size) \in Nat
    BY <2>2
  <2>5. QED  BY <2>1, <2>3, <2>4
<1>2. Len(msgs) \in Nat /\ NS!End(Len(msgs)) \in Nat
  BY NsPlaces
<1>3. /\ Len(msgs') = n /\ msgs'[n] = m /\ \A k \in 1 .. Len(msgs) : msgs'[k] = msgs[k]
      /\ msgs' \in Seq([size : Sizes, bad : BOOLEAN, end : Nat])
  <2>1. \A T : msgs \in Seq(T) /\ m \in T
               => /\ Len(msgs') = n /\ msgs'[n] = m /\ msgs' \in Seq(T)
                  /\ \A k \in 1 .. Len(msgs) : msgs'[k] = msgs[k]
    BY <1>1
  <2>2. QED  BY <1>1, <2>1 DEF NsLayout
<1>4. /\ n \in Nat /\ n # 0 /\ n - 1 = Len(msgs) /\ n \notin NS!Sent
      /\ NS!Sent' = NS!Sent \cup {n} /\ \A k \in NS!Sent : k < n
  BY <1>2, <1>3 DEF NS!Sent
<1>5. \A k \in 0 .. Len(msgs) : NS!End(k)' = NS!End(k)
  <2> SUFFICES ASSUME NEW k \in 0 .. Len(msgs) PROVE NS!End(k)' = NS!End(k)
    OBVIOUS
  <2>1. CASE k = 0  BY <2>1 DEF NS!End
  <2>2. CASE k # 0
    <3>1. k \in 1 .. Len(msgs)
      BY <1>2, <2>2
    <3>2. QED  BY <1>3, <2>2, <3>1 DEF NS!End
  <2>3. QED  BY <2>1, <2>2
<1>6. ASSUME NEW k \in NS!Sent
      PROVE  /\ msgs'[k] = msgs[k] /\ NS!End(k - 1)' = NS!End(k - 1)
             /\ NS!Framed(k)' = NS!Framed(k) /\ NS!Body(k)' = NS!Body(k)
  <2>1. msgs'[k] = msgs[k]
    BY <1>3 DEF NS!Sent
  <2>2. k - 1 \in 0 .. Len(msgs)
    BY NsPlaces
  <2>3. QED  BY <1>5, <2>1, <2>2 DEF NS!Framed, NS!Body
<1>7. m.size \in Nat \ {0} /\ m.bad \in BOOLEAN /\ m.end \in Nat
  BY NsAssumed
<1>8. NS!End(n)' = m.end /\ NS!End(n - 1)' = NS!End(Len(msgs))
  <2>1. Len(msgs) \in 0 .. Len(msgs)
    BY <1>2
  <2>2. QED  BY <1>3, <1>4, <1>5, <2>1 DEF NS!End
<1>9. NS!Frames(m.size) \in Nat \ {0}
  BY <1>7, NsAssumed DEF NS!Frames
<1>10. NS!End(Len(msgs)) < m.end
  BY <1>1, <1>2, <1>9
<1>11. /\ msgs'[n].size \in Nat \ {0} /\ msgs'[n].bad \in BOOLEAN
       /\ NS!End(n)' = NS!End(n - 1)' + NS!Frames(msgs'[n].size)
       /\ NS!End(Len(msgs)) < NS!End(n)' /\ NS!End(n)' \in Nat
  BY <1>1, <1>3, <1>7, <1>8, <1>10
<1>12. QED  BY <1>1, <1>2, <1>3, <1>4, <1>5, <1>6, <1>8, <1>11

LEMMA NsSendLayout == ASSUME NsLayout, NS!Send PROVE NsLayout'
<1>n. PICK n : n = Len(msgs) + 1
  OBVIOUS
<1>1. \A k \in NS!Sent' : NS!End(k)' = NS!End(k - 1)' + NS!Frames(msgs'[k].size)
  <2> SUFFICES ASSUME NEW k \in NS!Sent'
               PROVE  NS!End(k)' = NS!End(k - 1)' + NS!Frames(msgs'[k].size)
    OBVIOUS
  <2>1. CASE k = n
    BY <2>1, NsSendAdds, <1>n
  <2>2. CASE k # n
    <3>1. k \in NS!Sent /\ k \in 0 .. Len(msgs)
      BY <2>2, NsSendAdds, <1>n, NsPlaces
    <3>2. QED  BY <3>1, NsSendAdds, <1>n DEF NsLayout
  <2>3. QED  BY <2>1, <2>2
<1>2. \A j \in 0 .. Len(msgs'), k \in NS!Sent' : j < k => NS!End(j)' <= NS!End(k - 1)'
  <2> SUFFICES ASSUME NEW j \in 0 .. Len(msgs'), NEW k \in NS!Sent', j < k
               PROVE  NS!End(j)' <= NS!End(k - 1)'
    OBVIOUS
  <2>1. Len(msgs') = n /\ Len(msgs) \in Nat
    BY NsSendAdds, <1>n
  <2>2. CASE k = n
    <3>1. j \in 0 .. Len(msgs)
      BY <1>n, <2>1, <2>2
    <3>2. NS!End(j)' = NS!End(j) /\ NS!End(k - 1)' = NS!End(Len(msgs))
      BY <2>2, <3>1, NsSendAdds, <1>n
    <3>3. QED  BY <3>1, <3>2, NsApart
  <2>3. CASE k # n
    <3>1. k \in NS!Sent /\ k < n /\ k \in Nat
      BY <2>1, <2>3, NsSendAdds, <1>n DEF NS!Sent
    <3>2. j \in 0 .. Len(msgs)
      BY <1>n, <2>1, <3>1
    <3>3. NS!End(j)' = NS!End(j) /\ NS!End(k - 1)' = NS!End(k - 1)
      BY <3>1, <3>2, NsSendAdds, <1>n
    <3>4. QED  BY <3>1, <3>2, <3>3 DEF NsLayout
  <2>4. QED  BY <2>2, <2>3
<1>3. arrived' \in 0 .. NS!End(Len(msgs))' /\ since' \in 0 .. arrived' /\ hurt' \in BOOLEAN
  <2>1. /\ NS!End(Len(msgs)) < NS!End(n)' /\ NS!End(n)' \in Nat /\ Len(msgs') = n
        /\ NS!End(Len(msgs)) \in Nat /\ UNCHANGED <<arrived, since, hurt>>
    BY NsSendAdds, <1>n, NsPlaces
  <2>2. NS!End(Len(msgs))' = NS!End(n)'
    BY <2>1 DEF NS!End
  <2>3. QED  BY <2>1, <2>2 DEF NsLayout
<1>4. msgs' \in Seq([size : Sizes, bad : BOOLEAN, end : Nat])
  BY NsSendAdds, <1>n
<1>5. QED  BY <1>1, <1>2, <1>3, <1>4 DEF NsLayout

LEMMA NsSendRebuilds ==
    ASSUME NsLayout, NS!Send, NEW r, NEW from \in Nat, NsRebuilds(r, from)
    PROVE  NsRebuilds(r, from)'
<1>n. PICK n : n = Len(msgs) + 1
  OBVIOUS
<1>1. /\ r.at \in Nat /\ r.at <= NS!End(Len(msgs)) /\ NS!End(Len(msgs)) \in Nat
      /\ arrived \in Nat /\ arrived <= NS!End(Len(msgs))
      /\ NS!End(Len(msgs)) < NS!End(n)' /\ NS!End(n)' \in Nat /\ arrived' = arrived
      /\ NS!Sent' = NS!Sent \cup {n} /\ Len(msgs) \in Nat
  <2>1. arrived \in Nat /\ arrived <= NS!End(Len(msgs)) /\ NS!End(Len(msgs)) \in Nat
    BY NsPlaces DEF NsLayout
  <2>2. r.at \in Nat /\ r.at <= arrived
    BY <2>1 DEF NsRebuilds, NsReassembler
  <2>3. QED  BY <2>1, <2>2, NsSendAdds, <1>n
<1>2. \A k \in NS!Sent : /\ NS!End(k)' = NS!End(k) /\ NS!End(k - 1)' = NS!End(k - 1)
                         /\ msgs'[k] = msgs[k] /\ NS!Framed(k)' = NS!Framed(k)
                         /\ NS!Body(k)' = NS!Body(k) /\ NS!End(k) \in Nat
  BY NsSendAdds, <1>n, NsPlaces
<1>3. \A p \in Nat : p <= NS!End(Len(msgs)) => (NS!Bad(from, p)' <=> NS!Bad(from, p))
  BY <1>1, <1>2 DEF NS!Bad
<1>4. NS!Between(from, r.at)' = NS!Between(from, r.at)
  <2>1. \A k \in NS!Sent : NS!Bad(from, NS!End(k))' <=> NS!Bad(from, NS!End(k))
    <3>1. \A k \in NS!Sent : NS!End(k) <= NS!End(Len(msgs)) /\ NS!End(k)' = NS!End(k)
      BY <1>2, NsPlaces, NsApart
    <3>2. QED  BY <1>2, <1>3, <3>1
  <2>2. QED  BY <1>1, <1>2, <2>1 DEF NS!Between
<1>5. NS!Gives(r, from)' /\ (r.failed <=> NS!Bad(from, r.at)')
  BY <1>1, <1>3, <1>4 DEF NsRebuilds, NS!Gives
<1>6. r \in NsReassembler /\ r.at \in from .. arrived' /\ (r.failed => NS!Fed(r)')
  BY <1>1 DEF NsRebuilds, NS!Fed
<1>7. NsPosition(r) => NsPosition(r)'
  <2>1. Len(msgs') = n /\ \A k \in 0 .. Len(msgs) : NS!End(k)' = NS!End(k) /\ k \in 0 .. Len(msgs')
    BY <1>1, NsSendAdds, <1>n
  <2>2. QED  BY <1>1, <1>2, <2>1 DEF NsPosition
<1>8. \A k \in NS!Sent' :
          ~NS!Framed(k)' /\ r.at <= NS!End(k - 1)' /\ NS!End(k - 1)' < arrived'
          => arrived' = NS!End(k)'
  <2>1. NS!End(n - 1)' = NS!End(Len(msgs))
    BY NsSendAdds, <1>n
  <2>2. ~(NS!End(n - 1)' < arrived')
    BY <1>1, <2>1
  <2>3. QED  BY <1>1, <1>2, <2>2 DEF NsRebuilds
<1>9. QED  BY <1>5, <1>6, <1>7, <1>8 DEF NsRebuilds, NsReassembler

LEMMA NsSends == ASSUME NsInv, NS!Send PROVE NsInv'
<1>n. PICK n : n = Len(msgs) + 1
  OBVIOUS
<1>1. NsLayout' /\ UNCHANGED <<arrived, client, dump, since, hurt>>
  BY NsSendLayout, NsSendAdds, <1>n DEF NsInv
<1>2. CASE ~hurt
  <2>1. NsUncut'
    <3>1. /\ NS!Sent' = NS!Sent \cup {n} /\ arrived' = arrived
          /\ NS!End(n - 1)' = NS!End(Len(msgs))
          /\ \A k \in NS!Sent : /\ NS!End(k - 1)' = NS!End(k - 1)
                                /\ NS!Framed(k)' = NS!Framed(k)
      BY NsSendAdds, <1>n DEF NsInv
    <3>2. arrived # NS!End(Len(msgs)) + 1
      BY NsPlaces DEF NsInv, NsLayout
    <3>3. QED  BY <1>2, <3>1, <3>2 DEF NsInv, NsUncut
  <2>2. NsRebuilds(client, 0)'
    BY <1>1, <1>2, NsSendRebuilds DEF NsInv
  <2>3. NsBetween(since)' => NsBetween(since)
    <3>1. /\ since \in Nat /\ since <= NS!End(Len(msgs)) /\ Len(msgs) \in Nat
          /\ NS!End(Len(msgs)) \in Nat
      BY NsPlaces DEF NsInv, NsLayout
    <3>2. /\ Len(msgs') = n /\ since' = since
          /\ \A k \in 0 .. Len(msgs) : NS!End(k)' = NS!End(k)
          /\ NS!End(Len(msgs)) < NS!End(n)' /\ NS!End(n)' \in Nat
      BY NsSendAdds, <1>n DEF NsInv
    <3>3. 0 .. Len(msgs') = (0 .. Len(msgs)) \cup {n}
      BY <1>n, <3>1, <3>2
    <3>4. since # NS!End(n)'
      BY <1>n, <3>1, <3>2
    <3>5. QED  BY <3>2, <3>3, <3>4 DEF NsBetween
  <2>4. since \in Nat
    BY NsPlaces DEF NsInv, NsLayout
  <2>5. (dump # None /\ NsBetween(since) => NsRebuilds(dump, since))'
    BY <1>1, <1>2, <2>3, <2>4, NsSendRebuilds DEF NsInv
  <2>6. QED  BY <1>1, <2>1, <2>2, <2>5 DEF NsInv
<1>3. CASE hurt  BY <1>1, <1>3 DEF NsInv
<1>4. QED  BY <1>2, <1>3 DEF NsInv, NsLayout

\* A Reassembler that has consumed its chunk goes on with the next one.
LEMMA NsReadRebuilds ==
    ASSUME NsLayout, NEW r, NEW from \in Nat, NsRebuilds(r, from), NS!Fed(r), ~r.failed,
           UNCHANGED msgs, arrived' \in arrived + 1 .. NS!End(Len(msgs)),
           ~NS!Hurts(arrived')
    PROVE  NsRebuilds(r, from)'
<1>1. /\ arrived \in Nat /\ arrived' \in Nat /\ arrived < arrived' /\ r.at = arrived
      /\ NS!End(Len(msgs)) \in Nat
  BY NsPlaces DEF NsLayout, NS!Fed
<1>2. /\ NS!Sent' = NS!Sent
      /\ \A k : /\ NS!End(k)' = NS!End(k) /\ NS!Framed(k)' = NS!Framed(k)
                /\ NS!Body(k)' = NS!Body(k)
  BY DEF NS!Sent, NS!End, NS!Framed, NS!Body
<1>3. NS!Gives(r, from)' /\ (r.failed <=> NS!Bad(from, r.at)')
  BY <1>2 DEF NsRebuilds, NS!Gives, NS!Between, NS!Bad
<1>4. NsPosition(r)'
  BY <1>2 DEF NsRebuilds, NsPosition
<1>5. ASSUME NEW k \in NS!Sent, ~NS!Framed(k), arrived <= NS!End(k - 1),
             NS!End(k - 1) < arrived'
      PROVE  arrived' = NS!End(k)
  <2>1. NS!End(k - 1) < NS!End(k) /\ NS!End(k - 1) \in Nat /\ NS!End(k) \in Nat
    BY NsApart, NsPlaces
  <2>2. arrived < NS!End(k)
    BY <1>1, <1>5, <2>1
  <2>3. QED  BY <1>5, <2>2 DEF NS!Hurts
<1>6. r \in NsReassembler /\ r.at \in from .. arrived'
  BY <1>1 DEF NsRebuilds
<1>7. \A k \in NS!Sent' :
          ~NS!Framed(k)' /\ r.at <= NS!End(k - 1)' /\ NS!End(k - 1)' < arrived'
          => arrived' = NS!End(k)'
  BY <1>1, <1>2, <1>5
<1>8. QED  BY <1>3, <1>4, <1>6, <1>7 DEF NsRebuilds, NsReassembler

LEMMA NsReads == ASSUME NsInv, NS!Read PROVE NsInv'
<1>1. /\ NS!Fed(client) /\ (dump # None => NS!Fed(dump)) /\ ~client.failed
      /\ arrived' \in arrived + 1 .. NS!End(Len(msgs))
      /\ hurt' = (hurt \/ NS!Hurts(arrived'))
      /\ dump' = IF dump = None THEN None ELSE [dump EXCEPT !.failed = FALSE]
      /\ UNCHANGED <<msgs, client, since>>
  BY DEF NS!Read, NS!HookReturned
<1>2. NsLayout'
  <2>1. /\ NS!Sent' = NS!Sent /\ \A k : NS!End(k)' = NS!End(k)
        /\ NS!End(Len(msgs))' = NS!End(Len(msgs))
    BY <1>1 DEF NS!Sent, NS!End
  <2>2. arrived' \in 0 .. NS!End(Len(msgs)) /\ since' \in 0 .. arrived'
    BY <1>1, NsPlaces DEF NsInv, NsLayout
  <2>3. hurt' \in BOOLEAN
    BY <1>1 DEF NsInv, NsLayout, NS!Hurts
  <2>4. QED  BY <1>1, <2>1, <2>2, <2>3 DEF NsInv, NsLayout, NS!Frames
<1>3. CASE ~hurt /\ ~NS!Hurts(arrived')
  <2>1. NsRebuilds(client, 0)'
    BY <1>1, <1>3, NsReadRebuilds DEF NsInv
  <2>2. NsUncut'
    BY <1>1, <1>3 DEF NsUncut, NS!Hurts, NS!Sent, NS!End, NS!Framed
  <2>3. NsBetween(since)' <=> NsBetween(since)
    BY <1>1 DEF NsBetween, NS!End
  <2>4. CASE dump # None /\ NsBetween(since)
    <3>1. NsRebuilds(dump, since) /\ NS!Fed(dump) /\ since \in Nat
      BY <1>1, <1>3, <2>4, NsPlaces DEF NsInv, NsLayout
    <3>2. dump \in NsReassembler /\ dump.failed \in BOOLEAN
      BY <3>1 DEF NsRebuilds, NsReassembler
    <3>3. dump.failed = FALSE
      <4>1. client.at = arrived /\ dump.at = arrived
        BY <1>1, <3>1 DEF NS!Fed
      <4>2. ~NS!Bad(0, arrived)
        BY <1>1, <1>3, <4>1 DEF NsInv, NsRebuilds
      <4>3. \A k \in NS!Sent : 0 <= NS!End(k - 1)
        BY NsPlaces DEF NsInv
      <4>4. ~NS!Bad(since, arrived)
        BY <4>2, <4>3 DEF NS!Bad
      <4>5. QED  BY <3>1, <3>2, <4>1, <4>4 DEF NsRebuilds
    <3>4. dump' = dump
      BY <1>1, <2>4, <3>2, <3>3 DEF NsReassembler
    <3>5. NsRebuilds(dump, since)'
      BY <1>1, <1>3, <3>1, <3>3, <3>4, NsReadRebuilds DEF NsInv
    <3>6. QED  BY <1>2, <1>3, <2>1, <2>2, <3>5 DEF NsInv
  <2>5. CASE dump = None \/ ~NsBetween(since)
    <3>1. ~(dump # None /\ NsBetween(since))'
      BY <1>1, <2>3, <2>5
    <3>2. QED  BY <1>2, <1>3, <2>1, <2>2, <3>1 DEF NsInv
  <2>6. QED  BY <2>4, <2>5
<1>4. CASE hurt \/ NS!Hurts(arrived')
  <2>1. hurt'
    BY <1>1, <1>4
  <2>2. QED  BY <1>2, <2>1 DEF NsInv
<1>5. QED  BY <1>3, <1>4

LEMMA NsStutters == ASSUME NsInv, UNCHANGED NS!vars PROVE NsInv'
<1>1. UNCHANGED <<msgs, arrived, client, dump, since, hurt>>
  BY DEF NS!vars
<1>2. NsLayout'
  BY <1>1, NsLayoutFrame DEF NsInv, NsLayout
<1>3. NsUncut' <=> NsUncut
  BY <1>1, NsFrame
<1>4. NsRebuilds(client, 0)' <=> NsRebuilds(client, 0)
  BY <1>1, NsFrame
<1>5. /\ NsRebuilds(dump, since)' <=> NsRebuilds(dump, since)
      /\ NsBetween(since)' <=> NsBetween(since)
  BY <1>1, NsFrame
<1>6. QED  BY <1>1, <1>2, <1>3, <1>4, <1>5 DEF NsInv

LEMMA NsInductive == ASSUME NsInv, [NS!Next]_(NS!vars) PROVE NsInv'
BY NsSends, NsReads, NsDumpFed, NsClientFed, NsHooked, NsStutters DEF NS!Next

LEMMA NsPromises == ASSUME NsInv PROVE NS!StreamIsFaithful
<1>1. hurt \in BOOLEAN
  BY DEF NsInv, NsLayout
<1>2. CASE ~hurt
  <2>1. NS!Gives(client, 0) /\ (client.failed <=> NS!Bad(0, client.at))
        /\ client.failed \in BOOLEAN
    BY <1>2 DEF NsInv, NsRebuilds, NsReassembler
  <2>2. NS!Bad(0, client.at) \in BOOLEAN
    BY DEF NS!Bad
  <2>3. dump # None /\ NsBetween(since) => NS!Gives(dump, since)
    BY <1>2 DEF NsInv, NsRebuilds
  <2>4. QED  BY <2>1, <2>2, <2>3 DEF NS!StreamIsFaithful, NsBetween
<1>3. QED  BY <1>1, <1>2 DEF NS!StreamIsFaithful

-----------------------------------------------------------------------------

\* The invariant of the part that runs.
PartInv == /\ part = "nvprobe" => NvInv
           /\ part = "wakeprobe" => WkInv
           /\ part = "stream" => NsInv

\* In every use of the parts the scan is one of Discovery: OneRace and
\* RightResults hold of them too.
THEOREM ScanOfParts == PartsSpec => Spec
<1>1. PartsInit => Init
  BY DEF PartsInit
<1>2. [PartsNext]_partsVars => [Next]_vars
  BY DEF PartsNext, partsVars
<1>3. QED  BY <1>1, <1>2, PTL DEF PartsSpec, Spec

LEMMA PartInvariant == PartsSpec => []PartInv
<1>1. PartsInit => PartInv
  BY NvInitially, WkInitially, NsInitially DEF PartsInit, PartInv
<1>2. PartInv /\ [PartsNext]_partsVars => PartInv'
  <2> SUFFICES ASSUME PartInv, [PartsNext]_partsVars PROVE PartInv'
    OBVIOUS
  <2>1. CASE part = "scan" /\ UNCHANGED part
    BY <2>1 DEF PartInv
  <2>2. CASE part = "nvprobe" /\ NV!Next /\ UNCHANGED part
    BY <2>2, NvInductive DEF PartInv
  <2>3. CASE part = "wakeprobe" /\ WK!Next /\ UNCHANGED part
    BY <2>3, WkInductive DEF PartInv
  <2>4. CASE part = "stream" /\ NS!Next /\ UNCHANGED part
    BY <2>4, NsInductive DEF PartInv
  <2>5. CASE UNCHANGED partsVars
    <3>1. UNCHANGED NV!vars /\ UNCHANGED WK!vars /\ UNCHANGED part
      BY <2>5 DEF partsVars, probeVars, nvOnly, wkOnly, NV!vars, NV!runVars, NV!tvVars,
         WK!vars, WK!runVars, WK!heldVars
    <3>2. UNCHANGED NS!vars
      BY <2>5 DEF partsVars, nsVars, NS!vars
    <3>3. QED  BY <3>1, <3>2, NvStutters, WkStutters, NsStutters DEF PartInv
  <2>6. QED  BY <2>1, <2>2, <2>3, <2>4, <2>5 DEF PartsNext
<1>3. QED  BY <1>1, <1>2, PTL DEF PartsSpec

\* nvprobe: the attempt at which it stops is the one that switched the
\* television, unless a sample or another cause hides that.
THEOREM RightBlame == PartsSpec => []BlameIsRight
<1>1. PartInv => BlameIsRight
  BY NvPromises DEF PartInv, BlameIsRight
<1>2. QED  BY <1>1, PartInvariant, PTL

\* nvprobe: stopped and resumed by its log as often as one likes, it leaves no
\* attempt out and repeats only those whose line was lost.
THEOREM CoveringResume == PartsSpec => []ResumeCoversAll
<1>1. PartInv => ResumeCoversAll
  BY NvPromises DEF PartInv, ResumeCoversAll
<1>2. QED  BY <1>1, PartInvariant, PTL

\* wakeprobe: a key is left held only by an error of its release, by a release
\* or a press that came late or never though it was reported as sent, or where
\* the list was left between the two halves of a long press.
THEOREM CausedHold == PartsSpec => []HeldKeyHasCause
<1>1. PartInv => HeldKeyHasCause
  BY WkPromises DEF PartInv, HeldKeyHasCause
<1>2. QED  BY <1>1, PartInvariant, PTL

\* The stream: cut and joined as one likes, but for announcements and messages
\* without one, it gives the reader, and the dump from its start on, what was
\* sent, in order, up to the first message that does not decode.
THEOREM FaithfulStream == PartsSpec => []StreamIsFaithful
<1>1. PartInv => StreamIsFaithful
  BY NsPromises DEF PartInv, StreamIsFaithful
<1>2. QED  BY <1>1, PartInvariant, PTL
=============================================================================
