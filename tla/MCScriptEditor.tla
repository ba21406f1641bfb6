---------------------------- MODULE MCScriptEditor ----------------------------
(***************************************************************************)
(* Two motors: 0 starts at its low limit, 0, as the base does; 1 has a low *)
(* limit above 0 and starts at its high limit, as the gripper does.  The   *)
(* store holds a new script or one of two actions.                         *)
(***************************************************************************)
EXTENDS ScriptEditor

Two(a, b) == [m \in 0 .. 1 |-> IF m = 0 THEN a ELSE b]

MCLow  == Two(0, 1)
MCHigh == Two(1, 2)
MCHome == Two(0, 2)

MCSamples == {
  <<>>,
  << [action |-> 0, value |-> 1], [action |-> 1, value |-> -1] >> }
=============================================================================
