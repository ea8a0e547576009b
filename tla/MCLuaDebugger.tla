----------------------------- MODULE MCLuaDebugger -----------------------------
(* Small instances of LuaDebugger. *)
EXTENDS LuaDebugger
===============================================================================
