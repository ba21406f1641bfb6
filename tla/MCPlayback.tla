------------------------------ MODULE MCPlayback ------------------------------
(***************************************************************************)
(* Two phones and two motors.  One script moves motor 0 up and motor 1     *)
(* down, so that its result depends on where it starts; the other has one  *)
(* move more.                                                              *)
(***************************************************************************)
EXTENDS Playback, TLC

Two(a, b) == [m \in 0 .. 1 |-> IF m = 0 THEN a ELSE b]

MCLow  == Two(0, 1)
MCHigh == Two(2, 3)
MCHome == Two(0, 3)

MCScripts == { << <<0, 1>>, <<1, -1>> >>, << <<0, 1>>, <<1, -1>>, <<0, 1>> >> }
PhoneSymmetry == Permutations(Phones)

MCPostures == { Two(1, 2) }
=============================================================================
