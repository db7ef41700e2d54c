-------------------------- MODULE BrightnessProofs --------------------------
(* Facts about the brightness conversions, for every integer. *)
EXTENDS Brightness, TLAPS

\* Whatever the device reports, the payload holds a percentage.
LEMMA BrightnessPctRange == \A v \in Int : BrightnessPct(v) \in 0 .. 100
  BY DEF BrightnessPct, Clamp

\* Whatever a caller asks for, the device is sent a value of its scale.
LEMMA PctToBrightnessRange == \A p \in Int : PctToBrightness(p) \in 25 .. 255
  BY DEF PctToBrightness, Clamp

\* What is written as a percentage is read back as the same percentage.
THEOREM BrightnessRoundTrip == RoundTrip
<1> SUFFICES ASSUME NEW pct \in 0 .. 100
             PROVE  BrightnessPct(PctToBrightness(pct)) = pct
  BY DEF RoundTrip
<1> DEFINE b == (pct * 230 + 2550) \div 100
<1>1. b \in 25 .. 255 /\ 100 * b <= pct * 230 + 2550 /\ pct * 230 + 2550 < 100 * b + 100
  OBVIOUS
<1>2. PctToBrightness(pct) = b
  BY <1>1 DEF PctToBrightness, Clamp
<1>3. (b - 25) * 200 + 230 >= 460 * pct /\ (b - 25) * 200 + 230 < 460 * pct + 460
  BY <1>1
<1>4. ((b - 25) * 200 + 230) \div 460 = pct
  BY <1>1, <1>3
<1> QED
  BY <1>2, <1>4 DEF BrightnessPct, Clamp
=============================================================================
