----------------------------- MODULE MCLogView -----------------------------
(* Values of the constants of LogView for TLC. *)
EXTENDS LogView

CONSTANTS a, b, x

TwoWriters == {a, b}

OneDevice == {x}
=============================================================================
