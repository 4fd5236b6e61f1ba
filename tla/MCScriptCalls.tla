----------------------------- MODULE MCScriptCalls -----------------------------
(***************************************************************************)
(* What the calls of a script come to: the command protocol, with every    *)
(* method and failure and, with automatic interrupts, for what must happen *)
(* in the end; the pipes to the program; and the objects of two debuggers. *)
(* The components share no state, so each behavior is about one part.      *)
(***************************************************************************)
EXTENDS InternalDebugger, PipeManager, InstanceManager

VARIABLE part

-------------------------------------------------------------------------------
(* All methods, in two parts: those that a script uses with a process that *)
(* it starts, and some of them with attach and step_until.                 *)
Started == AllCalls \ {"attach", "step_until"}
Attaching == INSTANCE InternalDebugger
                WITH Calls <- {"run", "attach", "detach", "kill", "cont", "step_until", "peek"}

Basics == {"run", "kill", "cont", "interrupt", "wait", "step", "peek"}

(* The protocol with automatic interrupts, and nothing that fails. *)
Live == INSTANCE InternalDebugger
           WITH Calls <- Basics, AutoInterrupt <- TRUE, EscapeAntidebug <- FALSE,
                CallbacksRaise <- FALSE, RunFails <- FALSE, ExternalKill <- FALSE

(* A program that writes a few bytes, and a delimiter of two bytes. *)
TwoBytes == {"x", "n"}
Double == <<"n", "n">>
Short == {0, 1}
Twice == {2}
ZeroTo3 == {0, 1, 3}

(* Two debuggers, two handlers that may be confused, and another object. *)
CONSTANTS d1, d2, o1, h1, h2
TwoDebuggers == {d1, d2}
OneOwned == {o1}
TwoHandlers == {h1, h2}

-------------------------------------------------------------------------------
(* A part that is not looked at stays in one of its initial states. *)
CallsInit ==
    /\ part \in {"protocol", "attaching", "live", "pipes", "instances"}
    /\ Init /\ PipesInit /\ InstancesInit
    /\ part # "instances" => uses = {} /\ \A o \in Objects : value[o] = <<1, 0>>

(* The protocol may stop for ever, which is a finding of its own; no other *)
(* part may.                                                               *)
CallsNext ==
    \/ part = "protocol" /\ Next /\ UNCHANGED <<part, pipeVars, instanceVars>>
    \/ part = "attaching" /\ Attaching!Next /\ UNCHANGED <<part, pipeVars, instanceVars>>
    \/ part \in {"protocol", "attaching"} /\ UNCHANGED <<part, vars, pipeVars, instanceVars>>
    \/ part = "live" /\ Live!Next /\ UNCHANGED <<part, pipeVars, instanceVars>>
    \/ part = "pipes" /\ PipesNext /\ UNCHANGED <<part, vars, instanceVars>>
    \/ part = "instances" /\ InstancesNext /\ UNCHANGED <<part, vars, pipeVars>>

(* Fairness.  Protocol: a thread of Python that can take a step takes it,  *)
(* and a pending SIGSTOP is delivered by the kernel, however often other   *)
(* stops come first; the script need not call anything, and the tracee     *)
(* need not stop or exit.  Pipes: the library runs on, and time passes.    *)
CallsSpec ==
    /\ CallsInit
    /\ [][CallsNext]_<<part, vars, pipeVars, instanceVars>>
    /\ WF_vars(part = "live" /\ Live!Main /\ prog # << >>)
    /\ WF_vars(part = "live" /\ Live!Poll)
    /\ SF_vars(part = "live" /\ Live!SigstopDelivered)
    /\ WF_pipeVars(part = "pipes" /\ Library)
    /\ WF_pipeVars(part = "pipes" /\ Tick)

(* With automatic interrupts, interrupt and kill return. *)
InterruptsReturn == part = "live" => InterruptReturns
================================================================================
