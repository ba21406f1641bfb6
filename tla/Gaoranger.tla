------------------------------ MODULE Gaoranger ------------------------------
(***************************************************************************)
(* The arithmetic of the RAD class of the Gaoranger library: the commanded *)
(* angle of every motor of the arm, the limits it is clipped to and the    *)
(* operations that change it.  The class holds one value, `states', which  *)
(* the sketch (module ArmServer) owns; its methods are operators here, from*)
(* a position to a position.                                               *)
(*                                                                         *)
(* Motors are numbered as the switch of RAD::do_action numbers them: base, *)
(* shoulder, elbow, wrist, rotate, gripper are 0 .. 5.                     *)
(***************************************************************************)
EXTENDS Integers, Sequences

CONSTANTS
  NumMotors,   \* 6 in the code
  Low, High,   \* the literals of each case of the switch, by motor
  Home,        \* the literals of RAD::reset, by motor
  IntHalf,     \* half the range of an int: 32768 on the board's AVR
  Junk         \* any text String.toInt finds no number in

Motor == 0 .. NumMotors - 1

ASSUME MotorsAssumption == NumMotors \in Nat \ {0}

ASSUME LimitsAssumption ==
  /\ Low \in [Motor -> Int] /\ High \in [Motor -> Int] /\ Home \in [Motor -> Int]
  /\ \A m \in Motor : Low[m] <= Home[m] /\ Home[m] <= High[m]

\* Every legal angle and every motor's number is an int of the board.
ASSUME WidthAssumption ==
  /\ IntHalf \in Nat \ {0} /\ NumMotors <= IntHalf
  /\ \A m \in Motor : -IntHalf <= Low[m] /\ High[m] < IntHalf

\* A text with no number in it is not one.
ASSUME TextAssumption == Junk \notin Int

\* The commanded positions the limits allow.
Position == {p \in [Motor -> Int] : \A m \in Motor : Low[m] <= p[m] /\ p[m] <= High[m]}

-----------------------------------------------------------------------------
(***************************************************************************)
(* Conversions.  toInt answers 0 for a text without a number and a long    *)
(* otherwise; the long loses its high half where it becomes an int         *)
(* argument, and an int sum that overflows wraps on the board's build.     *)
(***************************************************************************)

int16(x) == ((x + IntHalf) % (2 * IntHalf)) - IntHalf

toInt(text) == IF text = Junk THEN 0 ELSE int16(text)

(***************************************************************************)
(* The parts StringSplit puts in a container of len places: a delimiter    *)
(* that is not found yields "$$", a part with no number in it.             *)
(***************************************************************************)
StringSplit(parts, len, missing) ==
  [i \in 1 .. len |-> IF i <= Len(parts) THEN parts[i] ELSE missing]

-----------------------------------------------------------------------------
(***************************************************************************)
(* The methods of RAD.                                                     *)
(***************************************************************************)

\* Mutated form of clip: the upper test is missing.
clip_low_only(m, v) == IF v < Low[m] THEN Low[m] ELSE v

\* The two tests that follow every new angle, low first.
clip(m, v) == IF v < Low[m] THEN Low[m] ELSE IF v > High[m] THEN High[m] ELSE v

\* Mutated form of do_action: a case of the switch that does not clip.
do_action_unclipped(p, m, param) ==
  IF m \in Motor THEN [p EXCEPT ![m] = int16(p[m] + param)] ELSE p

\* A relative move of one motor; a number outside the switch moves nothing.
do_action(p, m, param) ==
  IF m \in Motor THEN [p EXCEPT ![m] = clip(m, int16(p[m] + param))] ELSE p

\* The moves of a choreography, pairs of a motor and a param, one after another.
Acted(p, moves) ==
  LET at[n \in 0 .. Len(moves)] ==
        IF n = 0 THEN p ELSE do_action(at[n - 1], moves[n][1], moves[n][2])
  IN  at[Len(moves)]

\* An absolute move of all motors.
set_states(v) == [m \in Motor |-> clip(m, v[m])]

\* RAD::reset, which the constructor calls too.
reset == Home

=============================================================================
