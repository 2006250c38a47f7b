---------------------------- MODULE MCActionQueue ----------------------------
(* A small instance of ActionQueue for TLC: two keys, room for two actions. *)
EXTENDS ActionQueue

CONSTANTS up, down
=============================================================================
