---------------------------- MODULE MCSerialBridge ----------------------------
(***************************************************************************)
(* Enough calls for a two-valued index to be used again; the reply of the  *)
(* fourth does not fit.                                                    *)
(***************************************************************************)
EXTENDS SerialBridge
MCLong == {4}
=============================================================================
