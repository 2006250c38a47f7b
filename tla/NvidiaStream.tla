----------------------------- MODULE NvidiaStream -----------------------------
(****************************************************************************)
(* Framing of the NVIDIA protocol: Frames and Reassembler of                *)
(* internal/beyonder/messages.go, the reader of client.go that feeds one    *)
(* chunk after the other, and the second Reassembler of `beyonderprobe      *)
(* --dump`, which is hooked in once Dial has started the reader.            *)
(* Bytes are places in the stream, counted from 1; what they say is left    *)
(* out, but for where messages and their announcements begin and end.       *)
(****************************************************************************)
EXTENDS Naturals, Sequences

CONSTANTS
    MaxUnframedSize,  \* longest message that is sent without announcement
    Sizes,            \* lengths of messages
    Messages,         \* how many the SHIELD sends
    None

\* Assumed of the constants by the module that instantiates this one.
NvidiaStreamAssumption ==
    /\ MaxUnframedSize \in Nat \ {0} /\ Sizes \subseteq Nat \ {0}
    /\ Messages \in Nat

VARIABLES
    msgs,     \* the messages sent: size, whether they are bad, place of the end
    arrived,  \* bytes of the stream that were delivered
    client,   \* the Reassembler of the reader, what came out of it
    dump,     \* that of the dump, or None
    since,    \* bytes that had arrived when the dump was hooked in (history)
    hurt      \* a chunk had a boundary where none may be (history)

vars == <<msgs, arrived, client, dump, since, hurt>>

Sent == 1 .. Len(msgs)

\* Message k is the last size bytes up to its end; those before it, from the
\* end of the one before, are its announcement.
End(k) == IF k = 0 THEN 0 ELSE msgs[k].end
Body(k) == msgs[k].end - msgs[k].size
Framed(k) == msgs[k].size > MaxUnframedSize

\* Bytes that Frames makes of a message: a tag and a length precede a long one.
Frames(size) == IF size > MaxUnframedSize THEN 2 + size ELSE size

\* A Reassembler that has consumed the stream up to at.  Its buffer holds the
\* last got bytes of that.
Fresh(at) == [at |-> at, want |-> 0, got |-> 0, out |-> <<>>, failed |-> FALSE]

Init ==
    /\ msgs = <<>> /\ arrived = 0 /\ client = Fresh(0)
    /\ dump = None /\ since = 0 /\ hurt = FALSE

-----------------------------------------------------------------------------

\* The SHIELD sends a message, framed as Frames does it.
Send ==
    /\ Len(msgs) < Messages
    /\ \E size \in Sizes, bad \in BOOLEAN :
           msgs' = Append(msgs, [size |-> size, bad |-> bad,
                                 end |-> End(Len(msgs)) + Frames(size)])
    /\ UNCHANGED <<arrived, client, dump, since, hurt>>

Error == 0
Garbled == Messages + 1

\* Bytes that are one message give it, or an error; so does a lone tag; others
\* give something that nobody sent, or an error.
Decode(from, to) ==
    IF \E k \in Sent : Body(k) = from /\ End(k) = to
    THEN {IF msgs[k].bad THEN Error ELSE k :
          k \in {k \in Sent : Body(k) = from /\ End(k) = to}}
    ELSE IF \E k \in Sent : Framed(k) /\ End(k - 1) = from /\ from + 1 = to
    THEN {Error}
    ELSE {Error, Garbled}

\* The bytes between from and to are decoded, and what follows rest is fed
\* next.  An error drops what is left of the chunk.
Decoded(r, from, to, rest) ==
    {IF d = Error THEN [Fresh(arrived) EXCEPT !.out = r.out, !.failed = TRUE]
     ELSE [Fresh(rest) EXCEPT !.out = Append(r.out, d)] : d \in Decode(from, to)}

\* What is left of the chunk begins with tag and length of message k.  Bytes
\* inside a message might look like that too: Decode stands for them.
Announces(k, at) == Framed(k) /\ End(k - 1) = at /\ at + 2 <= arrived

\* Mutant for StreamIsFaithful: what follows a complete framed message in the
\* same chunk is dropped.
AfterFrameNothing(end) == arrived

AfterFrame(end) == end

\* One turn of the loop of Feed, as the set of what may come of it.
Feed(r) ==
    LET end == r.at + (r.want - r.got)
    IN  IF r.want > 0
        THEN IF arrived < end
             THEN {[r EXCEPT !.at = arrived, !.got = @ + (arrived - r.at)]}
             ELSE Decoded(r, r.at - r.got, end, AfterFrame(end))
        ELSE IF \E k \in Sent : Announces(k, r.at)
        THEN {[r EXCEPT !.at = @ + 2, !.want = msgs[k].size] :
              k \in {k \in Sent : Announces(k, r.at)}}
        ELSE Decoded(r, r.at, arrived, arrived)

Fed(r) == r.at = arrived
HookReturned == dump # None => Fed(dump)

\* An announcement must not be cut, a message without one neither cut nor
\* followed by anything in its chunk.
Hurts(to) ==
    \E k \in Sent :
        \/ Framed(k) /\ End(k - 1) + 1 \in {arrived, to}
        \/ /\ ~Framed(k) /\ End(k - 1) < to /\ arrived < End(k)
           /\ ~(arrived <= End(k - 1) /\ to = End(k))

\* One TLS read.
Read ==
    /\ Fed(client) /\ HookReturned /\ ~client.failed
    /\ \E to \in arrived + 1 .. End(Len(msgs)) :
           arrived' = to /\ hurt' = (hurt \/ Hurts(to))
    /\ dump' = IF dump = None THEN None ELSE [dump EXCEPT !.failed = FALSE]
    /\ UNCHANGED <<msgs, client, since>>

\* The hook sees the chunk first, then the client's Reassembler.
FeedDump ==
    /\ ~HookReturned /\ dump' \in Feed(dump)
    /\ UNCHANGED <<msgs, arrived, client, since, hurt>>

FeedClient ==
    /\ ~Fed(client) /\ HookReturned /\ client' \in Feed(client)
    /\ UNCHANGED <<msgs, arrived, dump, since, hurt>>

\* OnFrame is set when Dial has returned: the reader runs already.
SetOnFrame ==
    /\ dump = None /\ dump' = Fresh(arrived) /\ since' = arrived
    /\ UNCHANGED <<msgs, arrived, client, hurt>>

Next == Send \/ Read \/ FeedDump \/ FeedClient \/ SetOnFrame

Spec == Init /\ [][Next]_vars

-----------------------------------------------------------------------------
(* Properties *)

\* A bad message lies in what a Reassembler has consumed since from.
Bad(from, at) == \E k \in Sent : msgs[k].bad /\ from <= End(k - 1) /\ End(k) <= at

\* The messages in that, to the first bad one.
Between(from, at) ==
    {k \in Sent : from <= End(k - 1) /\ End(k) <= at /\ ~Bad(from, End(k))}

\* What came out are these messages, in order.
Gives(r, from) ==
    /\ {r.out[i] : i \in 1 .. Len(r.out)} = Between(from, r.at)
    /\ \A i, j \in 1 .. Len(r.out) : i < j => r.out[i] < r.out[j]

\* However the transport cuts and joins the stream, as long as it keeps
\* announcements and messages without one in chunks of their own, the reader
\* gets the messages that were sent, in order, up to the first that does not
\* decode, and fails there and only there; and so does the dump from its start
\* on, if it was hooked in between two messages.
StreamIsFaithful ==
    ~hurt =>
        /\ Gives(client, 0) /\ client.failed = Bad(0, client.at)
        /\ dump # None /\ (\E k \in 0 .. Len(msgs) : since = End(k))
               => Gives(dump, since)
=============================================================================
