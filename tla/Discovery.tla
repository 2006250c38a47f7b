------------------------------ MODULE Discovery ------------------------------
(****************************************************************************)
(* Scan of internal/discovery and the Discoverer over it: a browser         *)
(* goroutine and a collector goroutine per mDNS service, a map of records   *)
(* under a mutex, and a reader of that map that waits for the context and   *)
(* for the browsers, but neither for the collectors nor for the mutex.      *)
(* The zeroconf library is external: it offers one entry at a time on an    *)
(* unbuffered channel, which it may close once the context has ended.       *)
(****************************************************************************)
EXTENDS Naturals, FiniteSets

CONSTANTS
    Services,   \* service names handed to Scan
    Instances,  \* devices on the network
    Addrs,      \* addresses a device may be announced with
    Texts,      \* contents of its TXT record
    None,
    MaxEntries  \* bound: entries the library offers

ASSUME DiscoveryAssumption ==
    /\ Services # {} /\ None \notin Services
    /\ None \notin [inst : Instances, addr : Addrs, text : Texts]
    /\ MaxEntries \in Nat

\* Host name and port of an instance do not change and are left out.

VARIABLES
    ctx,        \* "live" or "done"
    browser,    \* step of each browser goroutine
    collector,  \* step of each collector goroutine
    offer,      \* what the library is blocked on sending, or None
    closed,     \* services whose channel is closed
    entries,    \* entries offered so far
    hand,       \* the device a collector is about to record, or None
    mu,         \* owner of the mutex: a service, or None
    records,    \* the map, as the set of its values
    errs,       \* services with an error recorded
    scan,       \* step of Scan itself
    found,      \* its results
    taken, due  \* devices received; recorded before the map was read (history)

libVars == <<offer, closed, entries>>
mapVars == <<records, mu>>
scanVars == <<scan, found>>
vars == <<ctx, browser, collector, libVars, hand, mapVars, errs, scanVars,
          taken, due>>

Init ==
    /\ ctx = "live"
    /\ browser = [s \in Services |-> "start"]
    /\ collector = [s \in Services |-> "none"]
    /\ offer = [s \in Services |-> None] /\ closed = {} /\ entries = 0
    /\ hand = [s \in Services |-> None]
    /\ mu = None /\ records = {} /\ errs = {}
    /\ scan = "waitCtx" /\ found = {} /\ taken = {} /\ due = {}

Set(f, s, v) == [f EXCEPT ![s] = v]
Running == scan # "fatal"

CtxEnds ==
    /\ ctx = "live" /\ ctx' = "done"
    /\ UNCHANGED <<browser, collector, libVars, hand, mapVars, errs, scanVars,
                   taken, due>>

-----------------------------------------------------------------------------
(* The zeroconf library, external *)

Offers(s) ==
    /\ browser[s] \in {"browsing", "finished"} /\ collector[s] # "none"
    /\ offer[s] = None /\ s \notin closed /\ entries < MaxEntries
    /\ \E i \in Instances, a \in Addrs, t \in Texts :
           offer' = Set(offer, s, [inst |-> i, addr |-> a, text |-> t])
    /\ entries' = entries + 1
    /\ UNCHANGED <<ctx, browser, collector, closed, hand, mapVars, errs,
                   scanVars, taken, due>>

Closes(s) ==
    /\ ctx = "done" /\ collector[s] # "none" /\ offer[s] = None
    /\ s \notin closed /\ closed' = closed \cup {s}
    /\ UNCHANGED <<ctx, browser, collector, offer, entries, hand, mapVars, errs,
                   scanVars, taken, due>>

-----------------------------------------------------------------------------
(* The browser goroutine of a service *)

\* Mutant for AllEnds: a failed resolver returns without wg.Done.
ResolverFailsSilently(s) ==
    /\ browser[s] = "start" /\ mu = None
    /\ browser' = Set(browser, s, "lost") /\ errs' = errs \cup {s}
    /\ UNCHANGED <<ctx, collector, libVars, hand, mapVars, scanVars, taken, due>>

\* NewResolver fails: nothing else is started for this service.
ResolverFails(s) ==
    /\ browser[s] = "start" /\ mu = None
    /\ browser' = Set(browser, s, "finished") /\ errs' = errs \cup {s}
    /\ UNCHANGED <<ctx, collector, libVars, hand, mapVars, scanVars, taken, due>>

\* The collector is started before Browse, which may fail after it.
Browse(s) ==
    /\ browser[s] = "start"
    /\ collector' = Set(collector, s, "select")
    /\ browser' \in {Set(browser, s, "browsing"), Set(browser, s, "failed")}
    /\ UNCHANGED <<ctx, libVars, hand, mapVars, errs, scanVars, taken, due>>

BrowseFailed(s) ==
    /\ browser[s] = "failed" /\ mu = None
    /\ browser' = Set(browser, s, "browsing") /\ errs' = errs \cup {s}
    /\ UNCHANGED <<ctx, collector, libVars, hand, mapVars, scanVars, taken, due>>

BrowserEnds(s) ==
    /\ browser[s] = "browsing" /\ ctx = "done"
    /\ browser' = Set(browser, s, "finished")
    /\ UNCHANGED <<ctx, collector, libVars, hand, mapVars, errs, scanVars,
                   taken, due>>

-----------------------------------------------------------------------------
(* The collector goroutine of a service *)

\* ctx.Done or the closed channel: a select with both ready takes either.
CollectorEnds(s) ==
    /\ collector[s] = "select" /\ (ctx = "done" \/ s \in closed)
    /\ collector' = Set(collector, s, "stopped")
    /\ UNCHANGED <<ctx, browser, libVars, hand, mapVars, errs, scanVars, taken, due>>

fromEntry(s, e) == [svc |-> s, inst |-> e.inst, addr |-> e.addr, text |-> e.text]

\* The select may take an entry although the context has ended.
Receive(s) ==
    /\ collector[s] = "select" /\ offer[s] # None
    /\ LET d == fromEntry(s, offer[s])
       IN  hand' = Set(hand, s, d) /\ taken' = taken \cup {d}
    /\ offer' = Set(offer, s, None)
    /\ collector' = Set(collector, s, "lock")
    /\ UNCHANGED <<ctx, browser, closed, entries, mapVars, errs, scanVars, due>>

\* Mutant for RaceOnlyAtEnd: the map is written without the mutex.
WriteUnlocked(s) ==
    /\ collector[s] = "lock"
    /\ collector' = Set(collector, s, "write")
    /\ UNCHANGED <<ctx, browser, libVars, hand, mapVars, errs, scanVars, taken, due>>

BeginWrite(s) ==
    /\ collector[s] = "lock" /\ mu = None
    /\ mu' = s /\ collector' = Set(collector, s, "write")
    /\ UNCHANGED <<ctx, browser, libVars, hand, records, errs, scanVars, taken, due>>

\* Mutant for ResultsAreRight: records of one instance replace each other,
\* whatever the service they were found under.
InstanceKey(d) == d.inst

\* The text is no part of the key: a later entry replaces it.
recordKey(d) == <<d.svc, d.inst, d.addr>>

Recorded(d) == {r \in records : recordKey(r) # recordKey(d)} \cup {d}

EndWrite(s) ==
    /\ collector[s] = "write"
    /\ records' = Recorded(hand[s])
    /\ due' = IF scan \in {"waitCtx", "wait"} THEN due \cup {hand[s]} ELSE due
    /\ mu' = None /\ hand' = Set(hand, s, None)
    /\ collector' = Set(collector, s, "select")
    /\ UNCHANGED <<ctx, browser, libVars, errs, scanVars, taken>>

-----------------------------------------------------------------------------
(* Scan *)

ScanWoken ==
    /\ scan = "waitCtx" /\ ctx = "done" /\ scan' = "wait"
    /\ UNCHANGED <<ctx, browser, collector, libVars, hand, mapVars, errs, found,
                   taken, due>>

\* wg.Wait, then the loop over the map begins.
BeginRead ==
    /\ scan = "wait" /\ \A s \in Services : browser[s] = "finished"
    /\ scan' = "read"
    /\ UNCHANGED <<ctx, browser, collector, libVars, hand, mapVars, errs, found,
                   taken, due>>

\* A map being written may or may not show the loop the record in hand.
EndRead ==
    /\ scan = "read" /\ scan' = "returned"
    /\ found' \in {records} \cup
                  {Recorded(hand[s]) : s \in {t \in Services : collector[t] = "write"}}
    /\ UNCHANGED <<ctx, browser, collector, libVars, hand, mapVars, errs, taken, due>>

\* Two goroutines in the map at once: the run time may end the program.
Race ==
    \/ Cardinality({s \in Services : collector[s] = "write"}) > 1
    \/ scan = "read" /\ \E s \in Services : collector[s] = "write"

Fatal ==
    /\ Race /\ scan' = "fatal"
    /\ UNCHANGED <<ctx, browser, collector, libVars, hand, mapVars, errs, found,
                   taken, due>>

\* What Discover returns and ResolveTarget makes of it: any error discards
\* every device, and a single one is needed.
Discover == IF errs # {} THEN {} ELSE found
ResolveTarget ==
    IF errs # {} THEN "error"
    ELSE IF Discover = {} THEN "no devices"
    ELSE IF Cardinality(Discover) > 1 THEN "multiple devices" ELSE "resolved"

Browser(s) == ResolverFails(s) \/ Browse(s) \/ BrowseFailed(s) \/ BrowserEnds(s)
Collector(s) == CollectorEnds(s) \/ Receive(s) \/ BeginWrite(s) \/ EndWrite(s)
Scan == ScanWoken \/ BeginRead \/ EndRead

Next ==
    /\ Running
    /\ \/ CtxEnds \/ Scan \/ Fatal
       \/ \E s \in Services : Offers(s) \/ Closes(s) \/ Browser(s) \/ Collector(s)

Spec == Init /\ [][Next]_vars

\* Callers give Scan a context with a deadline, and goroutines run.
FairSpec ==
    /\ Spec /\ WF_vars(Running /\ CtxEnds) /\ WF_vars(Running /\ Scan)
    /\ \A s \in Services : /\ WF_vars(Running /\ Browser(s))
                           /\ WF_vars(Running /\ Collector(s))

-----------------------------------------------------------------------------
(* Properties *)

\* Two goroutines are in the map at once only when Scan reads it at the end:
\* before that, the mutex and the two waits keep them apart.
RaceOnlyAtEnd ==
    Race => /\ scan = "read" /\ ctx = "done"
            /\ Cardinality({s \in Services : collector[s] = "write"}) = 1

\* What was recorded before Scan read the map is among its results, under its
\* own service and with every address it was announced with, though other
\* collectors write in between; nothing else is, and a television that kept its
\* address is there once, however often it was announced and whatever its text.
\* Resolving is then ambiguous only if there are two televisions, two services
\* or two addresses.
ResultsAreRight ==
    scan = "returned" =>
        /\ found \subseteq taken
        /\ \A d \in due : \E r \in found :
               r.svc = d.svc /\ r.inst = d.inst /\ r.addr = d.addr
        /\ ResolveTarget = "multiple devices" =>
               \E d, e \in taken : <<d.svc, d.inst, d.addr>> # <<e.svc, e.inst, e.addr>>

\* When the context has ended Scan returns and no collector is left behind,
\* unless the run time has ended the program.
AllEnds ==
    ctx = "done" ~> \/ scan = "fatal"
                    \/ /\ scan = "returned"
                       /\ \A s \in Services : collector[s] \in {"none", "stopped"}
=============================================================================
