------------------------------ MODULE MCLuaState ------------------------------
(* The threads of one extension state. *)
EXTENDS LuaState
===============================================================================
