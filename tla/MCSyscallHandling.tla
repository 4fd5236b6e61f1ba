--------------------------- MODULE MCSyscallHandling ---------------------------
(* Syscall handlers on two syscalls and two threads. *)
EXTENDS SyscallHandling

CONSTANTS read, write, t1, t2
TwoSyscalls == {read, write}
TwoThreads == {t1, t2}

(* A careful script, and scripts that do more, each of a kind. *)
Scripts == {{"toggle", "pprint"}, {"same"}, {"step"}, {"no return"}, {"inside"}}

(* Two threads may be in the same syscall. *)
Shared == {{"same"}}
===============================================================================
