----------------------------- MODULE MCHijackLoops -----------------------------
(***************************************************************************)
(* Loops of hijacks: one thread meets a syscall hijacked to another that   *)
(* is hijacked to the first, and then a signal of which the same is true.  *)
(***************************************************************************)
EXTENDS SignalForwarding

CONSTANTS t1, int, sigpipe, read, write, None
OneThread == {t1}
TwoSignals == {int, sigpipe}
TwoSyscalls == {read, write}
Hijacking == [callback : TwoSignals, recursive : BOOLEAN, enabled : {TRUE}]
OnlyHijacks == {[catchers |-> Hijacking, uses |-> {}, threads |-> OneThread]}

VARIABLES uses, handled_syscalls, inside, diverted, alive, syscall_mode, syscall_head,
          syscall_pending, syscall_resume, handle_syscall_enabled, ran

syscallVars == <<uses, handled_syscalls, inside, diverted, alive, syscall_mode, syscall_head,
                 syscall_pending, syscall_resume, handle_syscall_enabled, ran>>

Syscall == INSTANCE SyscallHandling
              WITH Syscalls <- TwoSyscalls, Scenarios <- {{}}, mode <- syscall_mode,
                   head <- syscall_head, pending <- syscall_pending, resume <- syscall_resume

-------------------------------------------------------------------------------
(* The last stop was the entry of a syscall in a loop. *)
SyscallHijacked(n, m) ==
    /\ Syscall!Handled(n)
    /\ handled_syscalls[n].enabled
    /\ handled_syscalls[n].on_enter = m
SyscallLoop ==
    /\ ran.stop = "enter"
    /\ \E m \in TwoSyscalls \ {ran.asked} : SyscallHijacked(ran.asked, m) /\ SyscallHijacked(m, ran.asked)

(* A thread is being reported with a signal in a loop. *)
SignalHijacked(n, m) == Caught(n) /\ caught_signals[n].callback = m
SignalLoop ==
    \E t \in Threads, n, m \in Signals :
        /\ Arrives(t) /\ sent[t] = n
        /\ m # n /\ SignalHijacked(n, m) /\ SignalHijacked(m, n)

LoopsInit == Init /\ Syscall!Init

(* The signals come after the syscalls. *)
LoopsNext ==
    \/ ~SyscallLoop /\ Syscall!Next /\ UNCHANGED vars
    \/ SyscallLoop /\ Next /\ UNCHANGED syscallVars

LoopsSpec == LoopsInit /\ [][LoopsNext]_<<vars, syscallVars>>

(* "For example, the following code raises a RuntimeError", say            *)
(* handle_syscalls.rst and catch_signals.rst of two hijacks to one         *)
(* another: then of a loop of syscalls and a loop of signals that are both *)
(* met at least one raises.  Neither does if the hijacks are not           *)
(* recursive, which is the default and so in both examples.                *)
HijackLoopsRaise ==
    [][SyscallLoop /\ SignalLoop => syscall_mode = "error" \/ mode' = "error"]_<<vars, syscallVars>>
================================================================================
