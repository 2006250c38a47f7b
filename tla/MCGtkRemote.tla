----------------------------- MODULE MCGtkRemote -----------------------------
(* Two televisions: one is typed in with a port, the other is found by       *)
(* discovery and may have been saved with a port of its own.                 *)
EXTENDS GtkRemote

CONSTANTS tv1, tv2

SomeTyped == {[host |-> tv1, port |-> OtherPort]}
SomeStored == {[host |-> tv2, port |-> OtherPort]}
=============================================================================
