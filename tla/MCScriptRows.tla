----------------------------- MODULE MCScriptRows -----------------------------
(***************************************************************************)
(* Three rows, and a view for each of them to change once while the views  *)
(* before are fading.                                                      *)
(***************************************************************************)
EXTENDS ScriptRows, TLC
CONSTANTS v1, v2, v3, v4, v5
MCView == {v1, v2, v3, v4, v5}
MCViewSymmetry == Permutations(MCView)
=============================================================================
