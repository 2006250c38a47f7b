---------------------------- MODULE ProbeAttempts ----------------------------
(****************************************************************************)
(* The list of guesses that cmd/nvprobe works through, from its main.go     *)
(* and hello.go: protobuf envelopes with guessed field numbers and values.  *)
(* A message is the sequence of its varints, each counted as one byte, and  *)
(* a string a sequence of such.  Descriptions that only go to the log are   *)
(* left out.                                                                *)
(****************************************************************************)
EXTENDS Naturals, FiniteSets, SequencesExt

Mapped(Op(_), s) == [i \in DOMAIN s |-> Op(s[i])]

\* Nested loops: the tuples of the given ranges, the last one innermost.
Loops(ranges) ==
    LET inner[i \in 0 .. Len(ranges)] ==
            IF i = Len(ranges) THEN 1 ELSE inner[i + 1] * Len(ranges[i + 1])
    IN  [k \in 1 .. inner[0] |-> [i \in DOMAIN ranges |->
            ranges[i][(((k - 1) \div inner[i]) % Len(ranges[i])) + 1]]]

\* First occurrences only: the seen maps.
Distinct(s) ==
    LET firsts == SelectSeq([i \in DOMAIN s |-> i],
                            LAMBDA i : \A j \in 1 .. i - 1 : s[j] # s[i])
    IN  Mapped(LAMBDA i : s[i], firsts)

-----------------------------------------------------------------------------
(* Flags *)

\* bound: a number fits in one byte of a varint.
MaxNumber == 127

\* A part of a list flag is a blank, a number or range, or does not parse;
\* an error and an empty list are both refused, and both are <<>> here.
parseIntList(parts) ==
    LET ranges == {p \in ToSet(parts) : p.kind = "range"}
        refused == \E p \in ToSet(parts) :
                       p.kind = "bad" \/ (p.kind = "range" /\ p.hi < p.lo)
    IN  IF refused THEN <<>>
        ELSE SelectSeq([n \in 1 .. MaxNumber + 1 |-> n - 1],
                       LAMBDA n : \E p \in ranges : n \in p.lo .. p.hi)

Styles == {"raw", "varint", "u32be", "u32le"}
parseFrameStyles(s) == Distinct(SelectSeq(s, LAMBDA x : x \in Styles))

Fields == {"device_os", "name", "package_name", "android_id", "host", "remote_port"}
Layout(os, name, pkg, aid) ==
    [f \in Fields |-> CASE f = "device_os" -> os [] f = "name" -> name
                        [] f = "package_name" -> pkg [] f = "android_id" -> aid
                        [] f = "host" -> 5 [] OTHER -> 6]
knownHelloLayouts ==
    [n \in {"os-name-package-android-host-port", "name-os-package-android-host-port",
            "name-package-android-os-host-port"} |->
        CASE n = "os-name-package-android-host-port" -> Layout(1, 2, 3, 4)
          [] n = "name-os-package-android-host-port" -> Layout(2, 1, 3, 4)
          [] OTHER -> Layout(4, 1, 2, 3)]

\* An unknown layout refuses the whole list.
resolveHelloLayouts(names) ==
    IF ToSet(names) \subseteq DOMAIN knownHelloLayouts
    THEN Mapped(LAMBDA n : knownHelloLayouts[n], Distinct(names)) ELSE <<>>

\* raw holds the flags as given; the result is a configuration whose lists are
\* all filled, or the command line is refused.
Parsed(raw) ==
    [raw EXCEPT !.frames = parseFrameStyles(@), !.layouts = resolveHelloLayouts(@),
                !.ints = [l \in DOMAIN @ |-> parseIntList(@[l])]]
parseConfig(raw) ==
    /\ raw.mode \in {"special", "empty", "hello"}
    /\ ~(raw.mode = "hello" /\ raw.preamble)
    /\ Parsed(raw).frames # <<>> /\ Parsed(raw).layouts # <<>>
    /\ \A l \in DOMAIN raw.ints : Parsed(raw).ints[l] # <<>>

-----------------------------------------------------------------------------
(* Messages *)

fieldVarint(tag, value) == <<tag * 8, value>>
fieldBytes(tag, payload) == <<tag * 8 + 2, Len(payload)>> \o payload

buildMessage(a) ==
    fieldVarint(a.svcTag, a.svc) \o fieldVarint(a.cmdTag, a.cmd)
    \o IF a.tag = 0 THEN <<>> ELSE fieldBytes(a.tag, a.payload)

applyFrame(style, m) ==
    CASE style = "varint" -> <<Len(m)>> \o m
      [] style = "u32be" -> <<0, 0, 0, Len(m)>> \o m
      [] style = "u32le" -> <<Len(m), 0, 0, 0>> \o m
      [] OTHER -> m

\* What an attempt writes on one connection, in order.
Payloads(a) ==
    (IF a.preamble = <<>> THEN <<>> ELSE <<applyFrame(a.frame, a.preamble)>>)
    \o <<applyFrame(a.frame, buildMessage(a))>>

-----------------------------------------------------------------------------
(* Hello payloads *)

helloFieldSets == <<
    {"device_os"}, {"name"}, {"device_os", "name"}, {"name", "package_name"},
    {"device_os", "name", "package_name"},
    {"device_os", "name", "package_name", "android_id"},
    Fields \ {"remote_port"}, Fields>>

Numbers == {"device_os", "remote_port"}

\* The fields in the order of their tags; a text that is empty cannot be sent.
CanBuild(fields, c) == \A f \in fields \ Numbers : c.text[f] # <<>>
buildHelloDevInfo(layout, fields, os, port, c) ==
    LET encoded(f) ==
            CASE f = "device_os" -> fieldVarint(layout[f], os)
              [] f = "remote_port" -> fieldVarint(layout[f], port)
              [] OTHER -> fieldBytes(layout[f], c.text[f])
        byTag == SelectSeq([t \in 1 .. 6 |-> CHOOSE f \in Fields : layout[f] = t],
                           LAMBDA f : f \in fields)
    IN  FlattenSeq(Mapped(encoded, byTag))

Capabilities(c) ==
    Mapped(LAMBDA t : [tag |-> t[1], bytes |-> fieldVarint(t[1], t[2])],
           Loops(<<c.ints.capabilityTags, c.ints.capabilities>>))

\* For one devInfo tag: the devInfo alone, then with every capability whose
\* tag is another.
WithCapabilities(tag, devInfo, c) ==
    <<fieldBytes(tag, devInfo)>>
    \o Mapped(LAMBDA cap : fieldBytes(tag, devInfo) \o cap.bytes,
              SelectSeq(Capabilities(c), LAMBDA cap : cap.tag # tag))

DevInfos(layout, tag, c) ==
    LET used(fields, f, values) == IF f \in fields THEN values ELSE <<0>>
        variants(fields) ==
            IF CanBuild(fields, c)
            THEN Loops(<<used(fields, "device_os", c.ints.deviceOSs),
                         used(fields, "remote_port", c.ints.remotePorts)>>)
            ELSE <<>>
        build(fields) ==
            FlattenSeq(Mapped(LAMBDA v : WithCapabilities(tag,
                           buildHelloDevInfo(layout, fields, v[1], v[2], c), c),
                       variants(fields)))
    IN  <<fieldBytes(tag, <<>>)>> \o FlattenSeq(Mapped(build, helloFieldSets))

\* Mutant for GuessesAreSound: the same bytes under another description.
PayloadsUnseen(c) ==
    Mapped(LAMBDA cap : cap.bytes, Capabilities(c))
    \o FlattenSeq(Mapped(LAMBDA t : DevInfos(t[1], t[2], c),
                         Loops(<<c.layouts, c.ints.devInfoTags>>)))

buildHelloPayloadCandidates(c) ==
    Distinct(Mapped(LAMBDA cap : cap.bytes, Capabilities(c))
             \o FlattenSeq(Mapped(LAMBDA t : DevInfos(t[1], t[2], c),
                                  Loops(<<c.layouts, c.ints.devInfoTags>>))))

-----------------------------------------------------------------------------
(* Attempts *)

Envelope(frame, svcTag, svc, cmdTag, cmd, tag, payload) ==
    [frame |-> frame, svcTag |-> svcTag, svc |-> svc, cmdTag |-> cmdTag,
     cmd |-> cmd, tag |-> tag, payload |-> payload, preamble |-> <<>>]

EnvelopeLists(c) ==
    <<c.frames, c.ints.serviceTags, c.ints.commandTags, c.ints.serviceIDs,
      c.ints.commandIDs>>

buildEmptyAttempts(c) ==
    Mapped(LAMBDA t : Envelope(t[1], t[2], t[4], t[3], t[5], 0, <<>>),
           SelectSeq(Loops(EnvelopeLists(c)), LAMBDA t : t[3] # t[2]))

\* Tags that name two fields of one message at once are skipped.
buildSpecialAttempts(c) ==
    Mapped(LAMBDA t : Envelope(t[1], t[2], t[4], t[3], t[5], t[6],
                               fieldVarint(t[7], t[9]) \o fieldVarint(t[8], t[10])),
           SelectSeq(Loops(EnvelopeLists(c) \o
                           <<c.ints.payloadTags, c.ints.inputTags, c.ints.specialTags,
                             c.ints.inputTypes, c.ints.specialInputs>>),
                     LAMBDA t : /\ t[3] # t[2] /\ t[6] \notin {t[2], t[3]}
                                /\ t[7] # t[8]))

buildHelloAttempts(c) ==
    Mapped(LAMBDA t : Envelope(t[1], t[2], t[4], t[3], t[5], t[6], t[7]),
           SelectSeq(Loops(EnvelopeLists(c) \o
                           <<c.ints.payloadTags, buildHelloPayloadCandidates(c)>>),
                     LAMBDA t : t[3] # t[2] /\ t[6] \notin {0, t[2], t[3]}))

\* The canonical hello is service 1, command 0, payload field 3.
buildCanonicalHelloRaw(payload) ==
    fieldVarint(1, 1) \o fieldVarint(2, 0) \o fieldBytes(3, payload)

attachHelloPreambles(c, attempts) ==
    Mapped(LAMBDA t : [t[1] EXCEPT !.preamble = buildCanonicalHelloRaw(t[2])],
           Loops(<<attempts, buildHelloPayloadCandidates(c)>>))

buildAttempts(c) ==
    LET attempts == CASE c.mode = "empty" -> buildEmptyAttempts(c)
                      [] c.mode = "special" -> buildSpecialAttempts(c)
                      [] OTHER -> buildHelloAttempts(c)
    IN  IF c.preamble THEN attachHelloPreambles(c, attempts) ELSE attempts

-----------------------------------------------------------------------------
(* Reading a message back, the reference for the encoding *)

\* The fields of a message as pairs of a tag and what it carries.
ReadBack(m) ==
    LET from[i \in 1 .. Len(m) + 1] ==
            IF i > Len(m) THEN <<>>
            ELSE IF m[i] % 8 = 0
                 THEN << <<m[i] \div 8, <<m[i + 1]>> >> >> \o from[i + 2]
                 ELSE << <<m[i] \div 8, SubSeq(m, i + 2, i + 1 + m[i + 1])>> >>
                      \o from[i + 2 + m[i + 1]]
    IN  from[1]

Tags(m) == Mapped(LAMBDA f : f[1], ReadBack(m))
NoTagTwice(m) == IsInjective(Tags(m))
=============================================================================
