------------------------- MODULE MCAndroidTVSender -------------------------
(* Small instances of AndroidTVSender for TLC. *)
EXTENDS AndroidTVSender

CONSTANTS a, b, tv1, tv2

R(what, cfg) == [what |-> what, cfg |-> cfg]

\* For two callers: a two-step plan for one television, a call that only
\* needs the session of that television, and a key for another one.
MixedRequests == {R("power", tv1), R("warmup", tv1), R("key", tv2)}

\* For two callers with a television each: the kinds that leave one out.
ApartRequests == {R("link", tv1), R("key", tv2)}

PowerRequests == {R("power", tv1)}
=============================================================================
