------------------------------ MODULE GtkRemote ------------------------------
(****************************************************************************)
(* The window of the GTK remote and the operations it starts: refreshing    *)
(* the shown state, discovering, saving a target, pairing, launching.  Each *)
(* runs in a goroutine of its own and posts its result to the UI thread,    *)
(* which runs events and posted functions one at a time.  Operations        *)
(* overlap: only the action buttons are disabled while one runs, and a      *)
(* finished one may start a refresh.  The files behind the store are those  *)
(* of TargetStore and Credentials; here a save is one step.                 *)
(****************************************************************************)
EXTENDS Naturals, Sequences

CONSTANTS
    Hosts,      \* televisions
    Found,      \* the hosts that discovery may find
    None,       \* no target, an empty entry
    Torn,       \* a target file that cannot be decoded
    Typed,      \* what the user types into the host entry
    Stored,     \* default targets that earlier runs may have left
    MaxEvents,  \* bound: operations that the user starts
    MaxEdits    \* bound: edits of the host entry

Unset == 0          \* no port given
DefaultPort == 1    \* that of the Android TV protocol
OtherPort == 2      \* any other

Texts == [host : Hosts, port : {Unset, OtherPort}]
Targets == [host : Hosts, port : {DefaultPort, OtherPort}]

ASSUME GtkRemoteAssumption ==
    /\ Found \subseteq Hosts
    /\ Typed \subseteq Texts
    /\ Stored \subseteq Targets
    /\ None \notin Texts \cup Targets /\ Torn \notin Targets /\ Torn # None
    /\ MaxEvents \in Nat /\ MaxEdits \in Nat

VARIABLES
    entry,       \* host entry, as explicitTarget reads it
    label,       \* target label
    targetShown, \* the section with the host entry is visible
    pairShown,   \* the section with the pairing code is visible
    sensitive,   \* action buttons are enabled
    saved,       \* default target of the store
    paired,      \* credential files exist
    running,     \* operations whose goroutine has not posted its result
    posts,       \* functions waiting for the UI thread
    started,     \* operations started
    events,      \* operations that the user started
    edits,       \* edits of the entry
    newest,      \* the refresh started last and the target it names (history)
    applied,     \* the last refresh whose result is shown (history)
    edited,      \* since the newest refresh started, the user or the result of
                 \* an older one has changed the entry (history)
    overtaken,   \* a result was shown after that of a newer refresh (history)
    failed       \* an operation that may change the store, or a refresh, failed
                 \* (history)

widgets == <<entry, label, targetShown, pairShown>>
store == <<saved, paired>>
history == <<newest, applied, edited, overtaken, failed>>
vars == <<widgets, sensitive, store, running, posts, started, events, edits, history>>

Norm(t) == IF t.port = Unset THEN [t EXCEPT !.port = DefaultPort] ELSE t

-----------------------------------------------------------------------------
(* Starting an operation, on the UI thread *)

Task(kind, t) ==
    [id |-> started + 1, kind |-> kind, target |-> t, pc |-> "run",
     isPaired |-> FALSE, isSaved |-> FALSE]

\* setBusy(true) and a goroutine, for the target that is in the entry.
Start(kind, t) ==
    /\ sensitive' = FALSE
    /\ running' = running \cup {Task(kind, t)}
    /\ started' = started + 1

\* Mutant for KeysReachShownTarget: a refresh asks for the default target,
\* whatever the entry says.
RefreshDefault(t) ==
    /\ Start("refresh", None)
    /\ newest' = [id |-> started + 1, asked |-> t] /\ edited' = FALSE

Refresh(t) ==
    /\ Start("refresh", t)
    /\ newest' = [id |-> started + 1, asked |-> t] /\ edited' = FALSE

\* activate: the window asks for the state, with an empty entry.
Init ==
    /\ entry = None /\ label = None
    /\ targetShown = TRUE /\ pairShown = TRUE /\ sensitive = FALSE
    /\ saved \in Stored \cup {None} /\ paired \in BOOLEAN
    /\ running = {[id |-> 1, kind |-> "refresh", target |-> None, pc |-> "run",
                   isPaired |-> FALSE, isSaved |-> FALSE]}
    /\ posts = <<>> /\ started = 1 /\ events = 0 /\ edits = 0
    /\ newest = [id |-> 1, asked |-> None] /\ applied = 0
    /\ edited = FALSE /\ overtaken = FALSE /\ failed = FALSE

-----------------------------------------------------------------------------
(* What the user does.  A hidden section takes no input; its own buttons and *)
(* entries stay enabled while operations run.                               *)

Edit ==
    /\ targetShown /\ edits < MaxEdits /\ edits' = edits + 1
    /\ entry' \in Typed \cup {None} /\ entry' # entry
    /\ edited' = TRUE
    /\ UNCHANGED <<label, targetShown, pairShown, sensitive, store, running, posts,
                   started, events, newest, applied, overtaken, failed>>

User(kind) ==
    /\ events < MaxEvents /\ events' = events + 1
    /\ Start(kind, entry)
    /\ UNCHANGED <<widgets, store, posts, edits, history>>

Discover == targetShown /\ User("discover")
Save == targetShown /\ entry # None /\ User("save")
Pair == pairShown /\ User("pair")
Launch == sensitive /\ User("launch")

-----------------------------------------------------------------------------
(* The goroutines *)

Becomes(k, new) == running' = (running \ {k}) \cup {new}

PostResult(k, result, how) ==
    /\ running' = running \ {k}
    /\ posts' = Append(posts, [task |-> result, how |-> how])

Post(k, how) == PostResult(k, k, how)

Worker(k) == k \in running /\ UNCHANGED <<widgets, sensitive, started, events, edits, history>>

\* TargetFromDevice, for a device found; it advertises the default port.
Discoveries == {[host |-> h, port |-> DefaultPort] : h \in Found}

\* device.Service.Resolve, for a request with or without a target of its own.
Resolutions(k) ==
    IF k.target # None THEN {Norm(k.target)}
    ELSE IF saved # None THEN {saved} \ {Torn}
    ELSE Discoveries

\* remote.Load: the credentials, the default target, the resolution.
ReadPairing(k) ==
    /\ Worker(k) /\ k.kind = "refresh" /\ k.pc = "run"
    /\ \/ Post(k, "error")
       \/ /\ Becomes(k, [k EXCEPT !.pc = IF k.target = None THEN "default" ELSE "resolve",
                                  !.isPaired = paired])
          /\ UNCHANGED posts
    /\ UNCHANGED store

ReadDefault(k) ==
    /\ Worker(k) /\ k.kind = "refresh" /\ k.pc = "default"
    /\ IF saved = Torn
       THEN Post(k, "error")
       ELSE /\ Becomes(k, [k EXCEPT !.pc = "resolve", !.isSaved = saved # None])
            /\ UNCHANGED posts
    /\ UNCHANGED store

Resolving(k) == <<k.kind, k.pc>> \in {<<"refresh", "resolve">>, <<"pair", "run">>}

\* Nothing found, too many found, or a file that cannot be decoded.
Unresolved(k) ==
    /\ Worker(k) /\ Resolving(k)
    /\ k.target = None /\ saved \in {None, Torn}
    /\ Post(k, "error")
    /\ UNCHANGED store

\* For a refresh the connection is warmed up before the state is shown, for a
\* pairing the work begins.
Resolve(k) ==
    /\ Worker(k) /\ Resolving(k)
    /\ \E t \in Resolutions(k) : Becomes(k, [k EXCEPT !.pc = "work", !.target = t])
    /\ UNCHANGED <<posts, store>>

Loaded(k) ==
    /\ Worker(k) /\ k.kind = "refresh" /\ k.pc = "work"
    /\ Post(k, "ok")
    /\ UNCHANGED store

\* Scan ends with the context at the latest.
Scanned(k) ==
    /\ Worker(k) /\ k.kind = "discover"
    /\ \/ \E t \in Discoveries : PostResult(k, [k EXCEPT !.target = t], "ok")
       \/ Post(k, "error")
    /\ UNCHANGED store

\* Controller.SelectTarget.  A write that fails may leave half a file.
Select(t) == saved' = Norm(t)
SelectFails == saved' \in {saved, Torn}

SaveTarget(k) ==
    /\ Worker(k) /\ k.kind = "save"
    /\ \/ Select(k.target) /\ Post(k, "ok")
       \/ SelectFails /\ Post(k, "error")
    /\ UNCHANGED paired

\* Controller.Pair: the files come first and stay when the television refuses.
PairTarget(k) ==
    /\ Worker(k) /\ k.kind = "pair" /\ k.pc = "work"
    /\ \/ /\ paired' = TRUE
          /\ Becomes(k, [k EXCEPT !.pc = "store"]) /\ UNCHANGED posts
       \/ paired' \in {paired, TRUE} /\ Post(k, "error")
    /\ UNCHANGED saved

StoreTarget(k) ==
    /\ Worker(k) /\ k.kind = "pair" /\ k.pc = "store"
    /\ \/ Select(k.target) /\ Post(k, "ok")
       \/ SelectFails /\ Post(k, "error")
    /\ UNCHANGED paired

Launched(k) ==
    /\ Worker(k) /\ k.kind = "launch"
    /\ \E how \in {"ok", "error"} : Post(k, how)
    /\ UNCHANGED store

Goroutine(k) ==
    \/ ReadPairing(k) \/ ReadDefault(k) \/ Unresolved(k) \/ Resolve(k) \/ Loaded(k)
    \/ Scanned(k) \/ SaveTarget(k) \/ PairTarget(k) \/ StoreTarget(k) \/ Launched(k)

-----------------------------------------------------------------------------
(* The posted functions, on the UI thread *)

\* The next function is that of an operation of this kind that ended so.
RunPost(kind, how) ==
    /\ posts # <<>> /\ Head(posts).task.kind = kind /\ Head(posts).how = how
    /\ posts' = Tail(posts)
    /\ UNCHANGED <<events, edits>>

Result == Head(posts).task
Ends == sensitive' = TRUE /\ UNCHANGED <<running, started, newest, edited>>

\* setBusy(false), and the error in the status line.
ShowError(kind) ==
    /\ RunPost(kind, "error")
    /\ Ends
    /\ failed' = (failed \/ kind \in {"refresh", "save", "pair"})
    /\ UNCHANGED <<widgets, store, applied, overtaken>>

\* applyRemoteState: an empty entry is filled with the host, without its port.
ApplyState ==
    /\ RunPost("refresh", "ok")
    /\ sensitive' = TRUE
    /\ IF entry = None
       THEN /\ entry' = [host |-> Result.target.host, port |-> Unset]
            /\ edited' = (edited \/ Result.id # newest.id)
       ELSE UNCHANGED <<entry, edited>>
    /\ label' = Result.target
    /\ targetShown' = ~Result.isSaved
    /\ pairShown' = ~Result.isPaired
    /\ overtaken' = (overtaken \/ applied > Result.id)
    /\ applied' = IF applied > Result.id THEN applied ELSE Result.id
    /\ UNCHANGED <<running, started, newest, store, failed>>

\* The only device that was found becomes the default target at once.
ShowFound ==
    /\ RunPost("discover", "ok")
    /\ \/ /\ Select(Result.target)
          /\ entry' = [host |-> Result.target.host, port |-> Unset]
          /\ Refresh(entry')
          /\ UNCHANGED failed
       \/ SelectFails /\ Ends /\ failed' = TRUE /\ UNCHANGED entry
    /\ UNCHANGED <<label, targetShown, pairShown, paired, applied, overtaken>>

ShowSaved ==
    /\ RunPost("save", "ok")
    /\ Refresh(entry)
    /\ UNCHANGED <<widgets, store, applied, overtaken, failed>>

\* Mutant for ViewIsTrue: pairing shows its own result only.
ShowPairedOnly ==
    /\ RunPost("pair", "ok")
    /\ pairShown' = FALSE
    /\ Ends
    /\ UNCHANGED <<entry, label, targetShown, store, applied, overtaken, failed>>

ShowPaired ==
    /\ RunPost("pair", "ok")
    /\ pairShown' = FALSE
    /\ Refresh(entry)
    /\ UNCHANGED <<entry, label, targetShown, store, applied, overtaken, failed>>

ShowLaunched ==
    /\ RunPost("launch", "ok")
    /\ Ends
    /\ UNCHANGED <<widgets, store, applied, overtaken, failed>>

Posted ==
    \/ \E kind \in {"refresh", "discover", "save", "pair", "launch"} : ShowError(kind)
    \/ ApplyState \/ ShowFound \/ ShowSaved \/ ShowPaired \/ ShowLaunched

Next ==
    \/ Edit \/ Discover \/ Save \/ Pair \/ Launch
    \/ \E k \in running : Goroutine(k)
    \/ Posted

Spec == Init /\ [][Next]_vars

-----------------------------------------------------------------------------
(* Properties *)

AtRest == running = {} /\ posts = <<>>

\* Once everything has ended, however operations overlapped, started one another
\* and failed, the action buttons are enabled again (setBusy).  And the window
\* shows what the store holds: every
\* change of the store is followed by a refresh that begins after it.  The only
\* exceptions are failures, and a result that overtakes a newer one, which
\* nothing in the code prevents (refreshStateAsync, applyRemoteState).
ViewIsTrue ==
    AtRest =>
        /\ sensitive
        /\ ~overtaken /\ ~failed =>
              /\ pairShown = ~paired
              /\ targetShown = ~(newest.asked = None /\ saved # None)
              /\ newest.asked # None => label = Norm(newest.asked)
              /\ newest.asked = None /\ saved # None => label = saved

\* Once everything has ended, a key goes to the television that the label
\* shows, unless the user has edited the entry since, or an older refresh has
\* filled it while a newer one was on its way: then the label is of the newer
\* and the entry of the older.  The port is lost on the way through the entry,
\* so that only for the default port is it the same target (explicitTarget,
\* applyRemoteState).
KeysReachShownTarget ==
    AtRest /\ ~overtaken /\ ~failed /\ ~edited =>
        /\ entry # None
        /\ entry.host = label.host
        /\ label.port = DefaultPort => Norm(entry) = label
=============================================================================
