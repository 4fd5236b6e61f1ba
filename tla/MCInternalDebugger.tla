-------------------------- MODULE MCInternalDebugger --------------------------
(* The command protocol with a few of the API methods. *)
EXTENDS InternalDebugger

Basics == {"run", "kill", "cont", "interrupt", "wait", "step", "peek"}
===============================================================================
