----------------------------- MODULE MCLuaStates -----------------------------
(* LuaStates for TLC: the model values of the instance are in the configuration. *)
EXTENDS LuaStates
=============================================================================
