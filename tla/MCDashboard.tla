----------------------------- MODULE MCDashboard -----------------------------
(***************************************************************************)
(* One page and a server that is sent one request of each kind that differs*)
(* for the page: changes of one part, of all, and ones that raise.         *)
(***************************************************************************)
EXTENDS Dashboard

Three(a, b, c) == [m \in 0 .. 2 |-> CASE m = 0 -> a [] m = 1 -> b [] m = 2 -> c]

MCLow  == Three(1, 0, 0)
MCHigh == Three(3, 3, 3)
MCHome == Three(2, 0, 3)

MCRequests == {
  [kind |-> "clear"],
  [kind |-> "motor", motor |-> 0, param |-> 1],
  [kind |-> "choreography", actions |-> << <<1, 2>>, <<2, -1>> >>],
  [kind |-> "toward", angles |-> <<1, Junk, 1>>] }
=============================================================================
