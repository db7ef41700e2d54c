------------------------------ MODULE MCWebApp -----------------------------
(* Values of the constants of WebApp for TLC. *)
EXTENDS WebApp

CONSTANTS a, b

OneName == {a}
TwoNames == {a, b}
=============================================================================
