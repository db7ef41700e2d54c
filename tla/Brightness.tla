----------------------------- MODULE Brightness -----------------------------
(***************************************************************************)
(* The two brightness conversions of a bulb.  The device counts brightness *)
(* (DP3) from 25 to 255, MQTT and the API in per cent.  The code computes  *)
(* in double and rounds half away from zero; the quotients below are the   *)
(* same numbers in integers, for every value that is not clamped.          *)
(***************************************************************************)
EXTENDS Integers

Clamp(lo, hi, v) == IF v < lo THEN lo ELSE IF v > hi THEN hi ELSE v

\* Fault: the quotient is truncated and not rounded.
PctTruncated(value) == Clamp(0, 100, ((value - 25) * 100) \div 230)

(* round((value - 25) / 230 * 100), clamped to 0..100. *)
BrightnessPct(value) == Clamp(0, 100, ((value - 25) * 200 + 230) \div 460)

(* round(pct / 100 * 230 + 25), clamped to 25..255. *)
PctToBrightness(pct) == Clamp(25, 255, (pct * 230 + 2550) \div 100)

\* A percentage written to the device is the percentage read back from it:
\* the two roundings of pctToBrightness and brightnessPct never add up.
RoundTrip == \A pct \in 0 .. 100 : BrightnessPct(PctToBrightness(pct)) = pct
=============================================================================
