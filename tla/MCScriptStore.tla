---------------------------- MODULE MCScriptStore ----------------------------
(***************************************************************************)
(* A first start, with an empty table, or a table of two scripts.          *)
(***************************************************************************)
EXTENDS ScriptStore

MCStored == { [rows |-> <<>>, next |-> 1], [rows |-> <<0, 0>>, next |-> 3] }
=============================================================================
