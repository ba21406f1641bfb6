------------------------------ MODULE MCBraccio ------------------------------
(***************************************************************************)
(* The driver with the numbers of the code: parameters and servos are      *)
(* 0 base, 1 shoulder, 2 elbow, 3 wrist_ver, 4 wrist_rot, 5 gripper.       *)
(***************************************************************************)
EXTENDS Braccio

MCMotor == 0 .. 5

\* A function on the motors from its six values.
Six(a, b, c, d, e, f) ==
  [m \in MCMotor |-> CASE m = 0 -> a [] m = 1 -> b [] m = 2 -> c
                       [] m = 3 -> d [] m = 4 -> e [] m = 5 -> f]

MCDrive    == Six(0, 1, 2, 4, 3, 5)
MCSafeLow  == Six(0, 15, 0, 0, 0, 10)
MCSafeHigh == Six(180, 165, 180, 180, 180, 73)
MCPowerOn  == Six(0, 40, 180, 170, 0, 73)

\* The reset position, two legal postures and two sets of arguments beyond
\* every limit, below and above.
MCCalls == {
  Six(0, 40, 180, 0, 170, 73),
  Six(90, 90, 90, 90, 90, 40),
  Six(45, 120, 20, 135, 10, 72),
  Six(-1, 14, -300, -1, -40, 0),
  Six(181, 166, 300, 400, 181, 74) }

=============================================================================
