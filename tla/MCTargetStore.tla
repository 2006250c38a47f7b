---------------------------- MODULE MCTargetStore ----------------------------
(* Two processes, a television of an older version and two others. *)
EXTENDS TargetStore, TLC

CONSTANTS gui, cli, old, tv1, tv2

Symmetry == Permutations({gui, cli}) \cup Permutations({tv1, tv2})
=============================================================================
