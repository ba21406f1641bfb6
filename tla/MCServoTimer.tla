----------------------------- MODULE MCServoTimer -----------------------------
(***************************************************************************)
(* The numbers of the code.  Two servos, two angles, and interrupts late   *)
(* enough for the interval to be over after the pulses.                    *)
(***************************************************************************)
EXTENDS ServoTimer
MCDegrees == {0, 180}
=============================================================================
