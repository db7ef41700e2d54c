--------------------------- MODULE MCDeviceStore ---------------------------
(* Values of the constants of DeviceStore for TLC, and their symmetry. *)
EXTENDS DeviceStore, TLC

CONSTANTS a, b, x

MCNames == {a, b}
MCIds == {x}

Alike == Permutations(MCNames)
=============================================================================
