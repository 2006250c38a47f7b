------------------------------- MODULE MCParts -------------------------------
(****************************************************************************)
(* Parts for TLC, with some command lines of the probes, and with the       *)
(* fairness of the scan.                                                    *)
(****************************************************************************)
EXTENDS Parts, Sequences

CONSTANTS v1, v2, tv, a1, a2, t1, t2, kPower, kHome

-----------------------------------------------------------------------------
(* Command lines *)

R(lo, hi) == [kind |-> "range", lo |-> lo, hi |-> hi]
One(n) == <<R(n, n)>>
Blank == [R(0, 0) EXCEPT !.kind = "blank"]
Bad == [R(0, 0) EXCEPT !.kind = "bad"]

Ints == [serviceTags |-> One(1), commandTags |-> One(2), payloadTags |-> One(3),
         inputTags |-> One(1), specialTags |-> One(2), serviceIDs |-> <<R(1, 2)>>,
         commandIDs |-> One(0), inputTypes |-> One(1), specialInputs |-> One(5),
         devInfoTags |-> One(1), capabilityTags |-> <<R(1, 2)>>,
         remotePorts |-> <<R(0, 0), Blank, R(7, 7)>>, deviceOSs |-> <<R(0, 1)>>,
         capabilities |-> One(4)]
Wide == [Ints EXCEPT !.serviceTags = <<R(1, 2)>>, !.inputTags = <<R(1, 2)>>,
                     !.commandTags = <<R(2, 2), Blank, R(1, 3)>>,
                     !.payloadTags = <<R(0, 1), R(3, 4)>>]

Plain == [mode |-> "empty", preamble |-> FALSE, frames |-> <<"varint">>,
          layouts |-> <<"os-name-package-android-host-port">>, ints |-> Ints,
          text |-> [name |-> <<115>>, package_name |-> <<99, 110>>,
                    android_id |-> <<9>>, host |-> <<49>>],
          startAt |-> 0, limit |-> 0, stopOnChange |-> TRUE, monitor |-> TRUE]

\* Those with a start-at past their list only show the list.
SomeNvFlags == [
    plain |-> Plain,
    cut |-> [Plain EXCEPT !.ints.serviceIDs = <<R(1, 3)>>, !.startAt = 1,
                          !.limit = 1, !.stopOnChange = FALSE],
    blind |-> [Plain EXCEPT !.monitor = FALSE],
    preamble |-> [Plain EXCEPT !.preamble = TRUE, !.ints.serviceIDs = One(1),
                               !.ints.deviceOSs = One(1), !.text.name = <<>>,
                               !.ints.capabilityTags = One(1), !.startAt = 1],
    special |-> [Plain EXCEPT !.mode = "special", !.ints = Wide, !.startAt = 999,
                              !.frames = <<"raw", "u32be", "ascii", "raw">>],
    hello |-> [Plain EXCEPT !.mode = "hello", !.startAt = 999, !.frames = <<"u32le">>,
                   !.ints.payloadTags = <<R(0, 3)>>, !.text.android_id = <<>>,
                   !.layouts = <<"os-name-package-android-host-port",
                                 "name-os-package-android-host-port",
                                 "name-package-android-os-host-port">>],
    malformed |-> [Plain EXCEPT !.ints.commandIDs = <<R(0, 1), Bad>>],
    descending |-> [Plain EXCEPT !.ints.commandIDs = <<R(1, 0)>>],
    unknown |-> [Plain EXCEPT !.layouts = <<"other">>]]

Long == [host |-> TRUE, credentials |-> TRUE, codes |-> <<kPower, kHome>>,
         withLong |-> TRUE, startAt |-> 0, limit |-> 0, stopOnWake |-> TRUE]

SomeWakeFlags == [
    long |-> Long,
    cut |-> [Long EXCEPT !.limit = 2],
    short |-> [Long EXCEPT !.withLong = FALSE],
    on |-> [Long EXCEPT !.stopOnWake = FALSE],
    middle |-> [Long EXCEPT !.startAt = 2],
    unknown |-> [Long EXCEPT !.codes = <<>>],
    unpaired |-> [Long EXCEPT !.credentials = FALSE]]

-----------------------------------------------------------------------------

\* The fairness of FairSpec in Discovery, for the part that is the scan.
Scans == part = "scan" /\ Running
AllSpec ==
    /\ PartsSpec
    /\ WF_vars(Scans /\ CtxEnds) /\ WF_vars(Scans /\ Scan)
    /\ \A s \in Services : /\ WF_vars(Scans /\ Browser(s))
                           /\ WF_vars(Scans /\ Collector(s))
=============================================================================
