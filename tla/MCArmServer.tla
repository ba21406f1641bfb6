----------------------------- MODULE MCArmServer -----------------------------
(***************************************************************************)
(* A small arm: motor 0 has a low limit above 0, as the shoulder and the   *)
(* gripper have; motors 1 and 2 are the wrists, crossed in the driver.     *)
(***************************************************************************)
EXTENDS ArmServer

Three(a, b, c) == [m \in 0 .. 2 |-> CASE m = 0 -> a [] m = 1 -> b [] m = 2 -> c]

MCLow     == Three(1, 0, 0)
MCHigh    == Three(3, 3, 3)
MCHome    == Three(2, 0, 3)
MCDrive   == Three(0, 2, 1)
MCPowerOn == Three(2, 3, 0)

\* The driver's limits are wider, so that they cannot make up for a clip that
\* is missing in the sketch.
MCSafeLow  == Three(0, -1, -1)
MCSafeHigh == Three(4, 4, 4)

\* Overflow: with 3 bits and a sign, 3 + 6 is -7.
MCRequests == {
  [kind |-> "probe"],
  [kind |-> "illegal"],
  [kind |-> "unknown"],
  [kind |-> "reset"],
  [kind |-> "led", mode |-> "on"],
  [kind |-> "led", mode |-> "toggle"],
  [kind |-> "led", mode |-> "other"],
  [kind |-> "motor", motor |-> 0, param |-> 6],
  \* as the app sends it
  [kind |-> "choreography", count |-> 2, actions |-> << <<1, 2>>, <<2, -1>> >>],
  \* more announced than sent, a number that is no motor, an entry without ":"
  [kind |-> "choreography", count |-> 4, actions |-> << <<7, 1>>, <<3>>, <<1, 9>> >>],
  \* fewer announced than sent
  [kind |-> "choreography", count |-> 1, actions |-> << <<0, 1>>, <<0, 1>> >>],
  [kind |-> "toward", angles |-> <<3, 2, 9>>],
  \* too few angles, one of them no number
  [kind |-> "toward", angles |-> <<Junk, 1>>] }
=============================================================================
