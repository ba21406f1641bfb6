----------------------------- MODULE MCTestServer -----------------------------
(***************************************************************************)
(* Three motors, one with a low limit above 0.  The requests are those of  *)
(* MCArmServer where both servers know them, and the ones that raise.      *)
(***************************************************************************)
EXTENDS TestServer

Three(a, b, c) == [m \in 0 .. 2 |-> CASE m = 0 -> a [] m = 1 -> b [] m = 2 -> c]

MCLow  == Three(1, 0, 0)
MCHigh == Three(3, 3, 3)
MCHome == Three(2, 0, 3)

MCRequests == {
  [kind |-> "probe"],
  [kind |-> "part"],
  [kind |-> "reset"],
  [kind |-> "clear"],
  [kind |-> "actor"],
  [kind |-> "led", mode |-> "on"],
  [kind |-> "led", mode |-> "toggle"],
  [kind |-> "motor", motor |-> 0, param |-> 6],
  [kind |-> "motor", motor |-> 2, param |-> -2],
  [kind |-> "motor", motor |-> 1, param |-> Junk],
  \* as the app sends it
  [kind |-> "choreography", actions |-> << <<1, 2>>, <<2, -1>> >>],
  \* an index from the end, then one that is out of the list
  [kind |-> "choreography", actions |-> << <<-3, 1>>, <<3, 1>>, <<1, 9>> >>],
  [kind |-> "choreography", actions |-> << <<1>> >>],
  [kind |-> "toward", angles |-> <<3, 2, 9>>],
  \* too few angles, no number on the way, too many
  [kind |-> "toward", angles |-> <<0>>],
  [kind |-> "toward", angles |-> <<1, Junk, 1>>],
  [kind |-> "toward", angles |-> <<1, 1, 1, 1>>] }
=============================================================================
