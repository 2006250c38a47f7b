--------------------------- MODULE GtkRemote_proofs ---------------------------
(****************************************************************************)
(* For every set of televisions, every number of operations and of edits of *)
(* the entry, and every order in which operations end and their results are *)
(* shown: at rest the window shows what the store holds, and a key goes to  *)
(* the television that the label names.                                     *)
(****************************************************************************)
EXTENDS GtkRemote, TLAPS

\* An operation: what it is for, how far it is and what it has found.
Shape(k) ==
    /\ k.kind = "refresh" => k.pc # "store"
    /\ k.kind \in {"refresh", "pair"} /\ k.pc \in {"work", "store"} =>
          k.target \in Targets
    /\ k.kind \in {"refresh", "pair", "save"} /\ k.pc \notin {"work", "store"} =>
          k.target \in Texts \cup {None}
    /\ k.kind = "save" => k.target # None /\ k.pc = "run"
    /\ k.kind = "pair" => k.pc \in {"run", "work", "store"}

Tasks == {k \in [id : Nat \ {0},
                 kind : {"refresh", "discover", "save", "pair", "launch"},
                 target : Texts \cup Targets \cup {None},
                 pc : {"run", "default", "resolve", "work", "store"},
                 isPaired : BOOLEAN, isSaved : BOOLEAN] : Shape(k)}

Posts == {m \in [task : Tasks, how : {"ok", "error"}] :
             m.how = "ok" =>
                /\ m.task.kind = "refresh" => m.task.pc = "work"
                /\ m.task.kind = "discover" => m.task.target \in Targets}

Types ==
    /\ entry \in Texts \cup {None} /\ label \in Targets \cup {None}
    /\ targetShown \in BOOLEAN /\ pairShown \in BOOLEAN /\ sensitive \in BOOLEAN
    /\ saved \in Targets \cup {None, Torn} /\ paired \in BOOLEAN
    /\ running \subseteq Tasks /\ posts \in Seq(Posts)
    /\ started \in Nat \ {0} /\ applied \in Nat
    /\ newest \in [id : Nat \ {0}, asked : Texts \cup {None}]
    /\ edited \in BOOLEAN /\ overtaken \in BOOLEAN /\ failed \in BOOLEAN

TasksOf(s) == {s[i].task : i \in 1..Len(s)}

\* Operations whose result has not been shown.
Unfinished == running \cup TasksOf(posts)

Distinct(s) == \A i, j \in 1..Len(s) : s[i].task.id = s[j].task.id => i = j

\* Each operation has its own number and is in one place.
Single ==
    /\ \A k \in Unfinished : k.id <= started /\ k.id # applied
    /\ \A k, l \in running : k.id = l.id => k = l
    /\ \A k \in running, l \in TasksOf(posts) : k.id # l.id
    /\ Distinct(posts)

\* The refresh started last is on its way, was shown, or failed.
Newest ==
    /\ applied <= newest.id /\ newest.id <= started
    /\ \A k \in Unfinished : /\ k.kind = "refresh" => k.id <= newest.id
                             /\ k.id = newest.id => k.kind = "refresh"
    /\ \/ \E k \in Unfinished : k.id = newest.id
       \/ applied = newest.id
       \/ failed

\* Somebody may change the store, or has changed it, and a refresh will follow.
Pending == \E k \in Unfinished : k.kind \in {"save", "pair"}

FromStore == newest.asked = None /\ saved # None

Names(t) ==
    /\ newest.asked # None => t = Norm(newest.asked)
    /\ FromStore => t = saved

\* What the refresh k has read so far is what the store holds.
TrueTo(k) ==
    /\ k.pc \in {"run", "default", "resolve"} => k.target = newest.asked
    /\ k.pc = "default" => newest.asked = None
    /\ k.pc \in {"run", "default"} => ~k.isSaved
    /\ k.pc \in {"default", "resolve", "work"} => k.isPaired = paired
    /\ k.pc \in {"resolve", "work"} => k.isSaved = FromStore
    /\ k.pc = "work" => Names(k.target)

ReadsTrue ==
    ~failed /\ ~Pending => \A k \in Unfinished : k.id = newest.id => TrueTo(k)

ShowsTrue ==
    ~failed /\ ~Pending /\ ~overtaken /\ applied = newest.id =>
        pairShown = ~paired /\ targetShown = ~FromStore /\ Names(label)

\* Unless somebody else changes it, the entry is what the newest refresh was
\* started with, until that refresh fills it.
Fills ==
    /\ applied # 0 => label \in Targets
    /\ ~edited /\ ~overtaken =>
           entry = IF newest.asked = None /\ applied = newest.id
                   THEN [host |-> label.host, port |-> Unset]
                   ELSE newest.asked

Enabled == AtRest => sensitive

IInv == Types /\ Single /\ Newest /\ ReadsTrue /\ ShowsTrue /\ Fills /\ Enabled

-----------------------------------------------------------------------------
(* Targets and queues *)

LEMMA NormIs ==
    ASSUME NEW t \in Texts \cup Targets
    PROVE  /\ Norm(t) \in Targets /\ Norm(t).host = t.host
           /\ t.port = Unset => Norm(t) = [host |-> t.host, port |-> DefaultPort]
BY DEF Norm, Texts, Targets, Unset, DefaultPort, OtherPort

LEMMA Appended ==
    ASSUME NEW s \in Seq(Posts), NEW m \in Posts
    PROVE  /\ Append(s, m) \in Seq(Posts) /\ Append(s, m) # <<>>
           /\ TasksOf(Append(s, m)) = TasksOf(s) \cup {m.task}
           /\ Distinct(s) /\ (\A k \in TasksOf(s) : k.id # m.task.id) =>
                 Distinct(Append(s, m))
<1>. DEFINE r == Append(s, m)
<1>1. /\ r \in Seq(Posts) /\ Len(s) \in Nat /\ Len(r) = Len(s) + 1
      /\ \A i \in 1..Len(s) : r[i] = s[i]
      /\ r[Len(s) + 1] = m
  OBVIOUS
<1>2. 1..Len(r) = 1..Len(s) \cup {Len(s) + 1} /\ Len(s) + 1 \notin 1..Len(s)
  BY <1>1
<1>. HIDE DEF r
<1>3. TasksOf(r) = TasksOf(s) \cup {m.task}
  BY <1>1, <1>2 DEF TasksOf
<1>4. ASSUME Distinct(s), \A k \in TasksOf(s) : k.id # m.task.id PROVE Distinct(r)
  BY <1>1, <1>2, <1>4 DEF Distinct, TasksOf
<1>5. r # <<>>
  BY <1>1
<1>. QED
  BY <1>1, <1>3, <1>4, <1>5 DEF r

LEMMA Taken ==
    ASSUME NEW s \in Seq(Posts), s # <<>>
    PROVE  /\ Head(s) \in Posts /\ Head(s).task \in TasksOf(s)
           /\ Tail(s) \in Seq(Posts)
           /\ TasksOf(s) = TasksOf(Tail(s)) \cup {Head(s).task}
           /\ Distinct(s) => /\ Distinct(Tail(s))
                             /\ \A k \in TasksOf(Tail(s)) : k.id # Head(s).task.id
<1>. DEFINE r == Tail(s)
            n == Len(r)
<1>1. /\ n \in Nat /\ Len(s) = n + 1 /\ r \in Seq(Posts)
      /\ \A i \in 1..n : r[i] = s[i + 1]
      /\ Head(s) = s[1] /\ Head(s) \in Posts
  OBVIOUS
<1>2. /\ 1 \in 1..Len(s)
      /\ \A i \in 1..n : i + 1 \in 1..Len(s) /\ i + 1 # 1
      /\ \A i \in 1..Len(s) : i = 1 \/ \E j \in 1..n : i = j + 1
  <2>1. \A i \in 1..Len(s) : i = 1 \/ (i - 1 \in 1..n /\ i = (i - 1) + 1)
    BY <1>1
  <2>. QED
    BY <1>1, <2>1
<1>3. \A i, j \in 1..n : i + 1 = j + 1 => i = j
  BY <1>1
<1>. HIDE DEF r
<1>4. TasksOf(s) = TasksOf(r) \cup {Head(s).task}
  <2>1. ASSUME NEW i \in 1..Len(s) PROVE s[i].task \in TasksOf(r) \cup {Head(s).task}
    <3>1. CASE i = 1
      BY <1>1, <3>1
    <3>2. ASSUME NEW j \in 1..n, i = j + 1 PROVE s[i].task \in TasksOf(r)
      BY <1>1, <3>2 DEF TasksOf
    <3>. QED
      BY <1>2, <3>1, <3>2
  <2>2. ASSUME NEW j \in 1..n PROVE r[j].task \in TasksOf(s)
    BY <1>1, <1>2, <2>2 DEF TasksOf
  <2>3. Head(s).task \in TasksOf(s)
    BY <1>1, <1>2 DEF TasksOf
  <2>. QED
    BY <2>1, <2>2, <2>3 DEF TasksOf
<1>5. ASSUME Distinct(s) PROVE Distinct(r) /\ \A k \in TasksOf(r) : k.id # Head(s).task.id
  <2>1. ASSUME NEW i \in 1..n, NEW j \in 1..n, r[i].task.id = r[j].task.id PROVE i = j
    <3>1. i + 1 \in 1..Len(s) /\ j + 1 \in 1..Len(s) /\ s[i + 1] = r[i] /\ s[j + 1] = r[j]
      BY <1>1, <1>2
    <3>2. i + 1 = j + 1
      BY <1>5, <2>1, <3>1 DEF Distinct
    <3>. QED
      BY <1>3, <3>2
  <2>2. ASSUME NEW i \in 1..n PROVE r[i].task.id # Head(s).task.id
    BY <1>1, <1>2, <1>5, <2>2 DEF Distinct
  <2>. QED
    BY <2>1, <2>2 DEF Distinct, TasksOf
<1>. QED
  BY <1>1, <1>4, <1>5 DEF r

-----------------------------------------------------------------------------
(* A goroutine goes on, or posts its result *)

\* The operation k becomes new, in a goroutine or among the results.
Moved(k, new) ==
    /\ new \in Tasks /\ new.id = k.id /\ new.kind = k.kind
    /\ Unfinished' = (Unfinished \ {k}) \cup {new}
    /\ running' \subseteq Tasks /\ posts' \in Seq(Posts)
    /\ Single' /\ ~AtRest'

LEMMA GoesOn ==
    ASSUME IInv, NEW k \in running, NEW new \in Tasks, new.id = k.id, new.kind = k.kind,
           Becomes(k, new), UNCHANGED <<posts, started, applied>>
    PROVE  Moved(k, new)
<1>1. \A l \in TasksOf(posts) : l # k
  BY DEF IInv, Single
<1>2. Unfinished' = (Unfinished \ {k}) \cup {new}
  BY <1>1 DEF Unfinished, Becomes
<1>3. running' \subseteq Tasks /\ ~AtRest'
  BY DEF IInv, Types, Becomes, AtRest
<1>4. Single'
  BY <1>2 DEF IInv, Single, Becomes, Unfinished
<1>. QED
  BY <1>2, <1>3, <1>4 DEF Moved, IInv, Types

LEMMA PostsIt ==
    ASSUME IInv, NEW k \in running, NEW new \in Tasks, new.id = k.id, new.kind = k.kind,
           NEW how \in {"ok", "error"}, [task |-> new, how |-> how] \in Posts,
           PostResult(k, new, how), UNCHANGED <<started, applied>>
    PROVE  Moved(k, new)
<1>. DEFINE m == [task |-> new, how |-> how]
<1>1. \A l \in TasksOf(posts) : l # k /\ l.id # k.id
  BY DEF IInv, Single
<1>2. /\ posts' \in Seq(Posts) /\ posts' # <<>>
      /\ TasksOf(posts') = TasksOf(posts) \cup {new}
      /\ Distinct(posts')
  <2>1. posts \in Seq(Posts) /\ Distinct(posts) /\ posts' = Append(posts, m) /\ m \in Posts
    BY DEF IInv, Types, Single, PostResult
  <2>2. \A l \in TasksOf(posts) : l.id # m.task.id
    BY <1>1
  <2>3. m.task = new
    OBVIOUS
  <2>. HIDE DEF m
  <2>. QED
    BY <2>1, <2>2, <2>3, Appended
<1>3. running' = running \ {k}
  BY DEF PostResult
<1>4. Unfinished' = (Unfinished \ {k}) \cup {new}
  BY <1>1, <1>2, <1>3 DEF Unfinished
<1>5. Single'
  BY <1>2, <1>3, <1>4 DEF IInv, Single, Unfinished
<1>. QED
  BY <1>2, <1>3, <1>4, <1>5 DEF Moved, IInv, Types, AtRest

\* Only saving and pairing change the store; a refresh that was true to it
\* stays so.
Works(k, new) ==
    /\ Moved(k, new)
    /\ saved' \in Targets \cup {None, Torn} /\ paired' \in BOOLEAN
    /\ k.kind \in {"save", "pair"} \/ UNCHANGED store
    /\ k.kind = "refresh" /\ TrueTo(k) => TrueTo(new)
    /\ UNCHANGED <<widgets, sensitive, started, history>>

LEMMA WorkKeeps ==
    ASSUME IInv, NEW k \in running, NEW new, Works(k, new)
    PROVE  IInv'
<1>. USE DEF Works, Moved, widgets, history, store
<1>1. Types'
  BY DEF IInv, Types
<1>2. Single' /\ Enabled'
  BY DEF Enabled
<1>3. k \in Unfinished
  BY DEF Unfinished
<1>4. Newest'
  BY <1>3 DEF IInv, Newest
<1>5. ASSUME ~Pending' PROVE ~Pending /\ UNCHANGED store
  BY <1>3, <1>5 DEF Pending
<1>6. ReadsTrue'
  <2>1. ASSUME ~failed, ~Pending', NEW l \in Unfinished', l.id = newest.id
        PROVE  TrueTo(l)'
    <3>1. l \in Unfinished \ {k} \/ l = new
      BY <2>1
    <3>2. CASE l \in Unfinished \ {k}
      BY <1>5, <2>1, <3>2 DEF IInv, ReadsTrue, TrueTo, Names, FromStore
    <3>3. CASE l = new
      <4>1. k.kind = "refresh" /\ TrueTo(k)
        BY <1>3, <1>5, <2>1, <3>3 DEF IInv, Newest, ReadsTrue
      <4>. QED
        BY <1>5, <2>1, <3>3, <4>1 DEF TrueTo, Names, FromStore
    <3>. QED
      BY <3>1, <3>2, <3>3
  <2>. QED
    BY <2>1 DEF ReadsTrue
<1>7. ShowsTrue'
  BY <1>5 DEF IInv, ShowsTrue, Names, FromStore
<1>8. Fills'
  BY DEF IInv, Fills
<1>. QED
  BY <1>1, <1>2, <1>4, <1>6, <1>7, <1>8 DEF IInv

\* Posting an error, whatever was done before.
LEMMA PostsError ==
    ASSUME IInv, NEW k \in running, Post(k, "error"), UNCHANGED <<started, applied>>
    PROVE  Moved(k, k)
<1>1. k \in Tasks /\ [task |-> k, how |-> "error"] \in Posts
  BY DEF IInv, Types, Posts
<1>. QED
  BY <1>1, PostsIt DEF Post

\* What a discovered or a given target resolves to.
LEMMA ResolutionsAreTargets ==
    ASSUME IInv, NEW k \in Tasks, k.kind \in {"refresh", "pair"},
           k.pc \notin {"work", "store"}
    PROVE  Resolutions(k) \subseteq Targets
<1>1. k.target \in Texts \cup {None}
  BY DEF Tasks, Shape
<1>2. \A t \in Discoveries : t \in Targets
  BY GtkRemoteAssumption DEF Discoveries, Targets
<1>. QED
  BY <1>1, <1>2, NormIs DEF Resolutions, IInv, Types

LEMMA RefreshWorks ==
    ASSUME IInv, NEW k \in running, k.kind = "refresh", Goroutine(k)
    PROVE  \E new : Works(k, new)
<1>. USE DEF Worker, history
<1>1. /\ k \in Tasks /\ k.target \in Texts \cup Targets \cup {None}
      /\ k.pc \in {"run", "default", "resolve", "work"} /\ Shape(k)
      /\ saved \in Targets \cup {None, Torn} /\ paired \in BOOLEAN
  BY DEF IInv, Types, Tasks, Shape
<1>2. UNCHANGED <<widgets, sensitive, started, history, store>>
  BY DEF Goroutine, ReadPairing, ReadDefault, Unresolved, Resolve, Loaded, Scanned,
         SaveTarget, PairTarget, StoreTarget, Launched
<1>3. ASSUME NEW new, Moved(k, new), TrueTo(k) => TrueTo(new) PROVE Works(k, new)
  BY <1>1, <1>2, <1>3 DEF Works, store
<1>4. CASE Post(k, "error")
  BY <1>2, <1>3, <1>4, PostsError
<1>5. CASE ReadPairing(k) /\ ~Post(k, "error")
  <2>. DEFINE new == [k EXCEPT !.pc = IF k.target = None THEN "default" ELSE "resolve",
                               !.isPaired = paired]
  <2>1. k.pc = "run" /\ Becomes(k, new) /\ UNCHANGED posts
    BY <1>5 DEF ReadPairing
  <2>2. new \in Tasks /\ new.id = k.id /\ new.kind = k.kind
    BY <1>1, <2>1 DEF Tasks, Shape
  <2>3. TrueTo(k) => TrueTo(new)
    BY <1>1, <2>1 DEF TrueTo, FromStore, Tasks
  <2>. HIDE DEF new
  <2>. QED
    BY <1>2, <1>3, <2>1, <2>2, <2>3, GoesOn
<1>6. CASE ReadDefault(k) /\ ~Post(k, "error")
  <2>. DEFINE new == [k EXCEPT !.pc = "resolve", !.isSaved = saved # None]
  <2>1. k.pc = "default" /\ Becomes(k, new) /\ UNCHANGED posts
    BY <1>6 DEF ReadDefault
  <2>2. new \in Tasks /\ new.id = k.id /\ new.kind = k.kind
    BY <1>1, <2>1 DEF Tasks, Shape
  <2>3. TrueTo(k) => TrueTo(new)
    BY <1>1, <2>1 DEF TrueTo, FromStore, Tasks
  <2>. HIDE DEF new
  <2>. QED
    BY <1>2, <1>3, <2>1, <2>2, <2>3, GoesOn
<1>7. CASE Resolve(k)
  <2>1. k.pc = "resolve" /\ UNCHANGED posts
    BY <1>1, <1>7 DEF Resolve, Resolving
  <2>2. PICK t \in Resolutions(k) : Becomes(k, [k EXCEPT !.pc = "work", !.target = t])
    BY <1>7 DEF Resolve
  <2>. DEFINE new == [k EXCEPT !.pc = "work", !.target = t]
  <2>3. t \in Targets
    BY <1>1, <2>1, <2>2, ResolutionsAreTargets
  <2>4. new \in Tasks /\ new.id = k.id /\ new.kind = k.kind
    BY <1>1, <2>1, <2>3 DEF Tasks, Shape
  <2>5. ASSUME TrueTo(k) PROVE TrueTo(new)
    <3>1. Names(t)
      BY <2>1, <2>2, <2>5 DEF TrueTo, Names, FromStore, Resolutions
    <3>. QED
      BY <1>1, <2>1, <2>5, <3>1 DEF TrueTo, Tasks
  <2>6. Becomes(k, new)
    BY <2>2
  <2>. HIDE DEF new
  <2>. QED
    BY <1>2, <1>3, <2>1, <2>4, <2>5, <2>6, GoesOn
<1>8. CASE Loaded(k)
  <2>1. k.pc = "work" /\ PostResult(k, k, "ok")
    BY <1>8 DEF Loaded, Post
  <2>2. [task |-> k, how |-> "ok"] \in Posts
    BY <1>1, <2>1 DEF Posts
  <2>3. Moved(k, k)
    BY <1>1, <1>2, <2>1, <2>2, PostsIt
  <2>. QED
    BY <1>3, <2>3
<1>. QED
  BY <1>4, <1>5, <1>6, <1>7, <1>8 DEF Goroutine, Unresolved, Scanned, SaveTarget,
     PairTarget, StoreTarget, Launched, Resolving

LEMMA OthersWork ==
    ASSUME IInv, NEW k \in running, k.kind # "refresh", Goroutine(k)
    PROVE  \E new : Works(k, new)
<1>. USE DEF Worker, history
<1>1. /\ k \in Tasks /\ k.target \in Texts \cup Targets \cup {None} /\ Shape(k)
      /\ saved \in Targets \cup {None, Torn} /\ paired \in BOOLEAN
  BY DEF IInv, Types, Tasks
<1>2. /\ UNCHANGED <<widgets, sensitive, started, history>>
      /\ k.kind \in {"save", "pair"} \/ UNCHANGED store
  BY DEF Goroutine, ReadPairing, ReadDefault, Unresolved, Resolve, Loaded, Scanned,
         SaveTarget, PairTarget, StoreTarget, Launched, Resolving
<1>3. saved' \in Targets \cup {None, Torn} /\ paired' \in BOOLEAN
  <2>1. ASSUME k.target \in Texts \cup Targets, Select(k.target) PROVE saved' \in Targets
    BY <2>1, NormIs DEF Select
  <2>2. k.kind = "save" \/ (k.kind = "pair" /\ k.pc = "store") =>
           k.target \in Texts \cup Targets
    BY <1>1 DEF Shape
  <2>. QED
    BY <1>1, <1>2, <2>1, <2>2 DEF Goroutine, ReadPairing, ReadDefault, Unresolved,
       Resolve, Loaded, Scanned, SaveTarget, PairTarget, StoreTarget, Launched,
       Resolving, SelectFails, store
<1>4. ASSUME NEW new, Moved(k, new) PROVE Works(k, new)
  BY <1>2, <1>3, <1>4 DEF Works
<1>5. CASE Post(k, "error")
  BY <1>2, <1>4, <1>5, PostsError
<1>6. CASE Post(k, "ok") /\ k.kind # "discover"
  <2>1. [task |-> k, how |-> "ok"] \in Posts
    BY <1>1, <1>6 DEF Posts
  <2>. QED
    BY <1>1, <1>2, <1>4, <1>6, <2>1, PostsIt DEF Post
<1>7. CASE Scanned(k) /\ ~Post(k, "error")
  <2>1. PICK t \in Discoveries : PostResult(k, [k EXCEPT !.target = t], "ok")
    BY <1>7 DEF Scanned
  <2>. DEFINE new == [k EXCEPT !.target = t]
  <2>2. t \in Targets /\ k.kind = "discover"
    BY <1>7, GtkRemoteAssumption DEF Discoveries, Targets, Scanned
  <2>3. new \in Tasks /\ new.id = k.id /\ new.kind = k.kind
    BY <1>1, <2>2 DEF Tasks, Shape
  <2>4. [task |-> new, how |-> "ok"] \in Posts
    BY <1>1, <2>2, <2>3 DEF Posts, Tasks
  <2>5. PostResult(k, new, "ok")
    BY <2>1
  <2>. HIDE DEF new
  <2>. QED
    BY <1>2, <1>4, <2>3, <2>4, <2>5, PostsIt
<1>8. CASE Resolve(k)
  <2>1. k.kind = "pair" /\ k.pc = "run" /\ UNCHANGED posts
    BY <1>8 DEF Resolve, Resolving
  <2>2. PICK t \in Resolutions(k) : Becomes(k, [k EXCEPT !.pc = "work", !.target = t])
    BY <1>8 DEF Resolve
  <2>. DEFINE new == [k EXCEPT !.pc = "work", !.target = t]
  <2>3. t \in Targets
    BY <1>1, <2>1, <2>2, ResolutionsAreTargets
  <2>4. new \in Tasks /\ new.id = k.id /\ new.kind = k.kind
    BY <1>1, <2>1, <2>3 DEF Tasks, Shape
  <2>5. Becomes(k, new)
    BY <2>2
  <2>. HIDE DEF new
  <2>. QED
    BY <1>2, <1>4, <2>1, <2>4, <2>5, GoesOn
<1>9. CASE PairTarget(k) /\ ~Post(k, "error")
  <2>. DEFINE new == [k EXCEPT !.pc = "store"]
  <2>1. k.kind = "pair" /\ k.pc = "work" /\ Becomes(k, new) /\ UNCHANGED posts
    BY <1>9 DEF PairTarget
  <2>2. new \in Tasks /\ new.id = k.id /\ new.kind = k.kind
    BY <1>1, <2>1 DEF Tasks, Shape
  <2>. HIDE DEF new
  <2>. QED
    BY <1>2, <1>4, <2>1, <2>2, GoesOn
<1>. QED
  BY <1>5, <1>6, <1>7, <1>8, <1>9 DEF Goroutine, Unresolved, Scanned, SaveTarget,
     PairTarget, StoreTarget, Launched, ReadPairing, ReadDefault, Loaded

-----------------------------------------------------------------------------
(* The UI thread *)

LEMMA EditKeeps == ASSUME IInv, Edit PROVE IInv'
<1>. USE DEF Edit, store
<1>1. Types'
  BY GtkRemoteAssumption DEF IInv, Types
<1>2. UNCHANGED <<Unfinished, Pending, FromStore, AtRest>> /\ Single' /\ Newest'
  BY DEF IInv, Unfinished, Pending, FromStore, AtRest, Single, Newest
<1>3. ReadsTrue' /\ ShowsTrue' /\ Fills' /\ Enabled'
  BY <1>2 DEF IInv, ReadsTrue, ShowsTrue, Fills, Enabled, TrueTo, Names
<1>. QED
  BY <1>1, <1>2, <1>3 DEF IInv

\* The user starts an operation.
LEMMA UserKeeps ==
    ASSUME IInv, NEW kind \in {"discover", "save", "pair", "launch"}, User(kind),
           kind = "save" => entry # None
    PROVE  IInv'
<1>. DEFINE new == Task(kind, entry)
<1>. USE DEF User, Start, widgets, store, history
<1>1. new \in Tasks /\ new.id = started + 1 /\ new.kind = kind
  BY DEF IInv, Types, Tasks, Shape, Task
<1>2. /\ running' = running \cup {new} /\ started' = started + 1
      /\ started \in Nat /\ applied \in Nat
  BY DEF IInv, Types
<1>. HIDE DEF new
<1>3. Types'
  <2>1. running' \subseteq Tasks /\ started' \in Nat \ {0}
    BY <1>1, <1>2 DEF IInv, Types
  <2>. QED
    BY <2>1 DEF IInv, Types
<1>4. Unfinished' = Unfinished \cup {new}
  BY <1>2 DEF Unfinished
<1>5. \A k \in Unfinished : k.id \in Nat /\ k.id <= started /\ k.id # new.id
  <2>1. \A k \in Unfinished : k \in Tasks
    BY DEF IInv, Types, Unfinished, TasksOf, Posts
  <2>. QED
    BY <1>1, <1>2, <2>1 DEF IInv, Single, Tasks
<1>6. applied <= started /\ newest.id <= started /\ newest.id \in Nat
  BY DEF IInv, Newest, Types
<1>7. Single'
  <2>1. \A k \in Unfinished' : k.id <= started' /\ k.id # applied'
    BY <1>1, <1>2, <1>4, <1>5, <1>6 DEF IInv, Single
  <2>2. \A k, l \in running' : k.id = l.id => k = l
    BY <1>2, <1>5 DEF IInv, Single, Unfinished
  <2>3. \A k \in running', l \in TasksOf(posts') : k.id # l.id
    BY <1>2, <1>5 DEF IInv, Single, Unfinished
  <2>. QED
    BY <2>1, <2>2, <2>3 DEF IInv, Single
<1>8. Newest'
  BY <1>1, <1>2, <1>4, <1>6 DEF IInv, Newest
<1>9. ~Pending' => ~Pending
  BY <1>4 DEF Pending
<1>10. ReadsTrue'
  BY <1>1, <1>2, <1>4, <1>6, <1>9 DEF IInv, ReadsTrue, TrueTo, Names, FromStore
<1>11. ShowsTrue' /\ Fills'
  BY <1>9 DEF IInv, ShowsTrue, Names, FromStore, Fills
<1>12. Enabled'
  BY <1>2 DEF Enabled, AtRest
<1>. QED
  BY <1>3, <1>7, <1>8, <1>10, <1>11, <1>12 DEF IInv

\* The first of the posted functions is taken.
LEMMA TakesFirst ==
    ASSUME IInv, posts # <<>>, posts' = Tail(posts)
    PROVE  /\ Head(posts) \in Posts /\ Result \in Tasks /\ Result \in Unfinished
           /\ Result.id \in Nat \ {0} /\ Result.id <= started /\ Result.id # applied
           /\ posts' \in Seq(Posts) /\ Distinct(posts')
           /\ TasksOf(posts') \subseteq TasksOf(posts)
           /\ Unfinished = running \cup TasksOf(posts') \cup {Result}
           /\ \A k \in running \cup TasksOf(posts') : k.id # Result.id
           /\ \A k \in Unfinished : k.id \in Nat \ {0} /\ k.id <= started
<1>1. posts \in Seq(Posts) /\ Distinct(posts) /\ running \subseteq Tasks
  BY DEF IInv, Types, Single
<1>2. /\ Head(posts) \in Posts /\ Result \in TasksOf(posts)
      /\ posts' \in Seq(Posts) /\ Distinct(posts')
      /\ TasksOf(posts) = TasksOf(posts') \cup {Result}
      /\ \A k \in TasksOf(posts') : k.id # Result.id
  BY <1>1, Taken DEF Result
<1>3. Result \in Tasks
  BY <1>2 DEF Posts, Result
<1>4. \A k \in Unfinished : k \in Tasks
  BY <1>1 DEF Unfinished, TasksOf, Posts
<1>. QED
  BY <1>2, <1>3, <1>4 DEF IInv, Single, Unfinished, Tasks

\* It ends the operation without a refresh: that must have been one that did
\* not change the store, or a failure.
LEMMA EndKeeps ==
    ASSUME IInv, posts # <<>>, posts' = Tail(posts), Ends,
           UNCHANGED <<entry, label, targetShown, pairShown, paired, applied, overtaken>>,
           saved' \in Targets \cup {None, Torn}, failed' \in BOOLEAN, failed => failed',
           failed' \/ (saved' = saved /\ Result.kind \notin {"refresh", "save", "pair"})
    PROVE  IInv'
<1>. USE DEF Ends
<1>1. Types'
  BY TakesFirst DEF IInv, Types
<1>2. /\ Unfinished' = running \cup TasksOf(posts')
      /\ Unfinished = Unfinished' \cup {Result}
  BY TakesFirst DEF Unfinished
<1>3. Single'
  BY <1>2, TakesFirst DEF IInv, Single, Unfinished
<1>4. Newest'
  BY <1>2, TakesFirst DEF IInv, Newest
<1>5. ~failed' /\ ~Pending' => ~failed /\ ~Pending /\ saved' = saved
  BY <1>2 DEF Pending
<1>6. ReadsTrue' /\ ShowsTrue'
  BY <1>2, <1>5 DEF IInv, ReadsTrue, ShowsTrue, TrueTo, Names, FromStore
<1>7. Fills' /\ Enabled'
  BY DEF IInv, Fills, Enabled
<1>. QED
  BY <1>1, <1>3, <1>4, <1>6, <1>7 DEF IInv

\* It starts a refresh for what is in the entry.
LEMMA RefreshKeeps ==
    ASSUME IInv, posts # <<>>, posts' = Tail(posts), entry' \in Texts \cup {None},
           Refresh(entry'), pairShown' \in BOOLEAN,
           saved' \in Targets \cup {None, Torn},
           UNCHANGED <<label, targetShown, paired, applied, overtaken, failed>>
    PROVE  IInv'
<1>. DEFINE new == Task("refresh", entry')
<1>. USE DEF Refresh, Start
<1>1. new \in Tasks /\ new.id = started + 1 /\ new.kind = "refresh"
      /\ new.pc = "run" /\ ~new.isSaved /\ new.target = entry'
  BY DEF IInv, Types, Tasks, Shape, Task
<1>2. /\ running' = running \cup {new} /\ started' = started + 1
      /\ newest' = [id |-> started + 1, asked |-> entry']
      /\ started \in Nat /\ applied \in Nat
  BY DEF IInv, Types
<1>. HIDE DEF new
<1>3. Types'
  <2>1. running' \subseteq Tasks /\ started' \in Nat \ {0}
    BY <1>1, <1>2 DEF IInv, Types
  <2>2. newest' \in [id : Nat \ {0}, asked : Texts \cup {None}] /\ edited' = FALSE
        /\ sensitive' = FALSE
    BY <1>2
  <2>. QED
    BY <2>1, <2>2, TakesFirst DEF IInv, Types
<1>4. Unfinished' = (running \cup TasksOf(posts')) \cup {new}
  BY <1>2 DEF Unfinished
<1>5. \A k \in running \cup TasksOf(posts') :
         k \in Unfinished /\ k.id \in Nat /\ k.id <= started /\ k.id # new.id
  BY <1>1, <1>2, TakesFirst
<1>6. applied <= started /\ applied # started + 1
  BY <1>2 DEF IInv, Newest, Types
<1>7. Single'
  <2>1. \A k \in Unfinished' : k.id <= started' /\ k.id # applied'
    BY <1>1, <1>2, <1>4, <1>5, <1>6 DEF IInv, Single
  <2>2. \A k, l \in running' : k.id = l.id => k = l
    BY <1>2, <1>5 DEF IInv, Single
  <2>3. \A k \in running', l \in TasksOf(posts') : k.id # l.id
    BY <1>2, <1>5, TakesFirst DEF IInv, Single, Unfinished
  <2>. QED
    BY <2>1, <2>2, <2>3, TakesFirst DEF Single
<1>8. Newest'
  <2>1. \A k \in Unfinished' : /\ k.kind = "refresh" => k.id <= newest'.id
                               /\ k.id = newest'.id => k.kind = "refresh"
    BY <1>1, <1>2, <1>4, <1>5
  <2>. QED
    BY <1>1, <1>2, <1>4, <1>6, <2>1 DEF Newest
<1>9. ReadsTrue'
  <2>1. ASSUME NEW k \in Unfinished', k.id = newest'.id PROVE TrueTo(k)'
    <3>1. k = new
      BY <1>1, <1>2, <1>4, <1>5, <2>1
    <3>. QED
      BY <1>1, <1>2, <3>1 DEF TrueTo
  <2>. QED
    BY <2>1 DEF ReadsTrue
<1>10. ShowsTrue'
  BY <1>2, <1>6 DEF ShowsTrue
<1>11. Fills' /\ Enabled'
  BY <1>2, <1>6 DEF IInv, Fills, Enabled, AtRest
<1>. QED
  BY <1>3, <1>7, <1>8, <1>9, <1>10, <1>11 DEF IInv

\* The result of a refresh is shown.  When it is the newest and nothing that
\* changes the store is on its way, what it has read is still so.
LEMMA ApplyKeeps == ASSUME IInv, ApplyState PROVE IInv'
<1>. DEFINE r == Result
<1>. USE DEF ApplyState, RunPost, store
<1>1. /\ r \in Tasks /\ r.kind = "refresh" /\ r.pc = "work" /\ r.target \in Targets
      /\ r.isPaired \in BOOLEAN /\ r.isSaved \in BOOLEAN
      /\ r.id \in Nat \ {0} /\ applied \in Nat /\ r.id # applied
      /\ newest.id \in Nat \ {0} /\ r.id <= newest.id /\ applied <= newest.id
  <2>1. r \in Tasks /\ Head(posts) \in Posts
    BY TakesFirst
  <2>2. r.kind = "refresh" /\ r.pc = "work"
    BY <2>1 DEF Posts, Result
  <2>3. r.target \in Targets /\ r.isPaired \in BOOLEAN /\ r.isSaved \in BOOLEAN
    BY <2>1, <2>2 DEF Tasks, Shape
  <2>4. r.id <= newest.id
    BY <2>2, TakesFirst DEF IInv, Newest
  <2>. QED
    BY <2>1, <2>2, <2>3, <2>4, TakesFirst DEF IInv, Types, Newest
<1>2. /\ Unfinished' = running \cup TasksOf(posts')
      /\ Unfinished = Unfinished' \cup {r}
      /\ \A k \in Unfinished' : k.id # r.id
  BY TakesFirst DEF Unfinished
<1>3. /\ label' = r.target /\ targetShown' = ~r.isSaved /\ pairShown' = ~r.isPaired
      /\ applied' = IF applied > r.id THEN applied ELSE r.id
      /\ overtaken' = (overtaken \/ applied > r.id)
      /\ sensitive' = TRUE
      /\ UNCHANGED <<running, started, newest, saved, paired, failed>>
  BY DEF Result
<1>4. /\ entry = None => /\ entry' = [host |-> r.target.host, port |-> Unset]
                         /\ edited' = (edited \/ r.id # newest.id)
      /\ entry # None => entry' = entry /\ edited' = edited
  BY DEF Result
<1>5. posts' \in Seq(Posts) /\ Distinct(posts') /\ TasksOf(posts') \subseteq TasksOf(posts)
  BY TakesFirst
<1>. HIDE DEF r, ApplyState, RunPost
<1>6. [host |-> r.target.host, port |-> Unset] \in Texts
  BY <1>1 DEF Targets, Texts
<1>7. entry' \in Texts \cup {None} /\ edited' \in BOOLEAN
  BY <1>4, <1>6 DEF IInv, Types
<1>8. Types'
  BY <1>1, <1>3, <1>5, <1>7 DEF IInv, Types
<1>9. applied' \in {applied, r.id} /\ applied' >= applied /\ applied' >= r.id
      /\ applied' <= newest.id /\ applied' # 0
  BY <1>1, <1>3
<1>10. Single'
  BY <1>2, <1>3, <1>5, <1>9 DEF IInv, Single, Unfinished
<1>11. Newest'
  <2>1. r.id = newest.id => applied' = newest.id
    BY <1>1, <1>9
  <2>2. applied = newest.id => applied' = newest.id
    BY <1>1, <1>9
  <2>. QED
    BY <1>2, <1>3, <1>9, <2>1, <2>2 DEF IInv, Newest
<1>12. Pending => Pending'
  BY <1>1, <1>2 DEF Pending
<1>13. ReadsTrue'
  BY <1>2, <1>3, <1>12 DEF IInv, ReadsTrue, TrueTo, Names, FromStore
<1>14. ASSUME ~overtaken' PROVE ~overtaken /\ applied < r.id /\ applied' = r.id
  <2>1. ~overtaken /\ ~(applied > r.id)
    BY <1>3, <1>14
  <2>. QED
    BY <1>1, <1>3, <2>1
<1>15. ShowsTrue'
  <2>. SUFFICES ASSUME ~failed, ~Pending, ~overtaken', r.id = newest.id
                PROVE  pairShown' = ~paired /\ targetShown' = ~FromStore /\ Names(label')
    BY <1>3, <1>12, <1>14 DEF ShowsTrue, Names, FromStore
  <2>1. TrueTo(r)
    BY <1>2 DEF IInv, ReadsTrue
  <2>. QED
    BY <1>1, <1>3, <2>1 DEF TrueTo
<1>16. Fills'
  <2>. SUFFICES ASSUME ~edited', ~overtaken'
                PROVE  entry' = IF newest.asked = None /\ r.id = newest.id
                                THEN [host |-> r.target.host, port |-> Unset]
                                ELSE newest.asked
    BY <1>1, <1>3, <1>14 DEF Fills
  <2>1. ~overtaken /\ applied # newest.id
    BY <1>1, <1>14
  <2>2. ~edited
    BY <1>4
  <2>3. entry = newest.asked
    BY <2>1, <2>2 DEF IInv, Fills
  <2>. QED
    BY <1>4, <2>3
<1>17. Enabled'
  BY <1>3 DEF Enabled
<1>. QED
  BY <1>8, <1>10, <1>11, <1>13, <1>15, <1>16, <1>17 DEF IInv

LEMMA PostedKeeps == ASSUME IInv, Posted PROVE IInv'
<1>. USE DEF RunPost, Ends, widgets, store
<1>1. saved \in Targets \cup {None, Torn} /\ failed \in BOOLEAN
  BY DEF IInv, Types
<1>2. ASSUME NEW kind \in {"refresh", "discover", "save", "pair", "launch"},
             ShowError(kind)
      PROVE  IInv'
  BY <1>1, <1>2, EndKeeps DEF ShowError, Result
<1>3. CASE ShowFound
  <2>1. Result.target \in Targets
    BY <1>3, TakesFirst DEF ShowFound, Posts, Result
  <2>2. CASE failed' = TRUE /\ SelectFails /\ Ends /\ UNCHANGED entry
    BY <1>1, <1>3, <2>2, EndKeeps DEF ShowFound, SelectFails
  <2>3. CASE Select(Result.target) /\ Refresh(entry') /\ UNCHANGED failed
             /\ entry' = [host |-> Result.target.host, port |-> Unset]
    <3>1. entry' \in Texts
      BY <2>1, <2>3 DEF Targets, Texts
    <3>2. saved' \in Targets
      BY <2>1, <2>3, NormIs DEF Select
    <3>. QED
      BY <1>3, <2>3, <3>1, <3>2, RefreshKeeps DEF ShowFound, IInv, Types
  <2>. QED
    BY <1>3, <2>2, <2>3 DEF ShowFound
<1>4. CASE ShowSaved
  BY <1>1, <1>4, RefreshKeeps DEF ShowSaved, IInv, Types
<1>5. CASE ShowPaired
  BY <1>1, <1>5, RefreshKeeps DEF ShowPaired, IInv, Types
<1>6. CASE ShowLaunched
  BY <1>1, <1>6, EndKeeps DEF ShowLaunched, Result
<1>. QED
  BY <1>2, <1>3, <1>4, <1>5, <1>6, ApplyKeeps DEF Posted

-----------------------------------------------------------------------------
(* Results *)

LEMMA Initially == Init => IInv
<1>. SUFFICES ASSUME Init PROVE IInv
  OBVIOUS
<1>. DEFINE k == [id |-> 1, kind |-> "refresh", target |-> None, pc |-> "run",
                  isPaired |-> FALSE, isSaved |-> FALSE]
<1>1. /\ running = {k} /\ posts = <<>> /\ Len(posts) = 0
      /\ k.id = 1 /\ k.kind = "refresh" /\ k.pc = "run" /\ k.target = None
      /\ ~k.isSaved /\ k \in Tasks
  BY DEF Init, Tasks, Shape
<1>. HIDE DEF k
<1>2. TasksOf(posts) = {} /\ Distinct(posts) /\ posts \in Seq(Posts)
  BY <1>1 DEF TasksOf, Distinct
<1>3. Unfinished = {k}
  BY <1>1, <1>2 DEF Unfinished
<1>4. saved \in Targets \cup {None, Torn}
  BY GtkRemoteAssumption DEF Init
<1>5. /\ started = 1 /\ applied = 0 /\ newest.id = 1 /\ newest.asked = None
      /\ newest \in [id : Nat \ {0}, asked : Texts \cup {None}]
      /\ entry = None
  BY DEF Init
<1>6. Types
  <2>1. running \subseteq Tasks
    BY <1>1
  <2>2. 1 \in Nat \ {0} /\ 0 \in Nat
    OBVIOUS
  <2>. QED
    BY <1>2, <1>4, <1>5, <2>1, <2>2 DEF Init, Types
<1>7. Single /\ Newest
  BY <1>1, <1>2, <1>3, <1>5 DEF Single, Newest
<1>8. ReadsTrue /\ ShowsTrue /\ Fills /\ Enabled
  BY <1>1, <1>3, <1>5 DEF ReadsTrue, TrueTo, ShowsTrue, Fills, Enabled, AtRest
<1>. QED
  BY <1>6, <1>7, <1>8 DEF IInv

LEMMA Inductive == IInv /\ [Next]_vars => IInv'
<1>. SUFFICES ASSUME IInv, [Next]_vars PROVE IInv'
  OBVIOUS
<1>1. CASE Discover \/ Save \/ Pair \/ Launch
  BY <1>1, UserKeeps DEF Discover, Save, Pair, Launch
<1>2. ASSUME NEW k \in running, Goroutine(k) PROVE IInv'
  BY <1>2, RefreshWorks, OthersWork, WorkKeeps
<1>3. CASE UNCHANGED vars
  <2>1. UNCHANGED <<Unfinished, Pending, FromStore, AtRest, Single>>
    BY <1>3 DEF vars, widgets, store, history, Unfinished, Pending, FromStore, AtRest,
                Single
  <2>. QED
    BY <1>3, <2>1 DEF vars, widgets, store, history, IInv, Types, Newest, ReadsTrue,
                      TrueTo, Names, ShowsTrue, Fills, Enabled
<1>. QED
  BY <1>1, <1>2, <1>3, EditKeeps, PostedKeeps DEF Next

LEMMA Invariant == Spec => []IInv
BY Initially, Inductive, PTL DEF Spec

\* At rest every result that mattered has been shown.
LEMMA Rests ==
    ASSUME IInv, AtRest, ~failed
    PROVE  ~Pending /\ applied = newest.id /\ label \in Targets
<1>1. Unfinished = {}
  BY DEF AtRest, Unfinished, TasksOf
<1>2. ~Pending /\ applied = newest.id
  BY <1>1 DEF Pending, IInv, Newest
<1>. QED
  BY <1>2 DEF IInv, Types, Fills

\* At rest the buttons are enabled and the window shows what the store holds
\* (setBusy, refreshStateAsync, applyRemoteState).
THEOREM TrueView == Spec => []ViewIsTrue
<1>1. ASSUME IInv, AtRest PROVE sensitive
  BY <1>1 DEF IInv, Enabled
<1>2. ASSUME IInv, AtRest, ~overtaken, ~failed
      PROVE  /\ pairShown = ~paired
             /\ targetShown = ~(newest.asked = None /\ saved # None)
             /\ newest.asked # None => label = Norm(newest.asked)
             /\ newest.asked = None /\ saved # None => label = saved
  BY <1>2, Rests DEF IInv, ShowsTrue, Names, FromStore
<1>3. IInv => ViewIsTrue
  BY <1>1, <1>2 DEF ViewIsTrue
<1>. QED
  BY <1>3, Invariant, PTL

\* At rest, and with the entry not edited since, keys go to the television that
\* the label names (explicitTarget, applyRemoteState).
THEOREM KeysReachShown == Spec => []KeysReachShownTarget
<1>1. ASSUME IInv, AtRest, ~overtaken, ~failed, ~edited
      PROVE  /\ entry # None
             /\ entry.host = label.host
             /\ label.port = DefaultPort => Norm(entry) = label
  <2>1. /\ applied = newest.id /\ label \in Targets
        /\ newest.asked # None => label = Norm(newest.asked)
        /\ newest.asked \in Texts \cup {None}
    BY <1>1, Rests DEF IInv, ShowsTrue, Names, Types
  <2>2. CASE newest.asked = None
    <3>1. entry = [host |-> label.host, port |-> Unset]
      BY <1>1, <2>1, <2>2 DEF IInv, Fills
    <3>2. entry \in Texts /\ entry.host = label.host /\ entry.port = Unset
      BY <2>1, <3>1 DEF Targets, Texts
    <3>3. ASSUME label.port = DefaultPort PROVE Norm(entry) = label
      <4>1. Norm(entry) = [host |-> label.host, port |-> DefaultPort]
        BY <3>2, NormIs
      <4>. QED
        BY <2>1, <3>3, <4>1 DEF Targets
    <3>. QED
      BY <3>2, <3>3, GtkRemoteAssumption
  <2>3. CASE newest.asked # None
    <3>1. entry = newest.asked /\ entry \in Texts
      BY <1>1, <2>1, <2>3 DEF IInv, Fills
    <3>. QED
      BY <2>1, <2>3, <3>1, NormIs
  <2>. QED
    BY <2>2, <2>3
<1>2. IInv => KeysReachShownTarget
  BY <1>1 DEF KeysReachShownTarget
<1>. QED
  BY <1>2, Invariant, PTL
=============================================================================
