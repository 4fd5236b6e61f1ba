------------------------------- MODULE CallStack -------------------------------
(***************************************************************************)
(* Leaving a function: finish, in both of its heuristics, step_until and   *)
(* the stack unwinder, on a thread that runs a small program of functions  *)
(* with frame pointers.                                                    *)
(*                                                                         *)
(* The program is laid out in bytes, since the debugger looks at four or   *)
(* eight of them.  The stack is a sequence of words, the last is at rsp;   *)
(* rbp is a position in it, and 0 before there is a frame.                 *)
(***************************************************************************)
EXTENDS Integers, Sequences, SequencesExt

CONSTANTS Scenarios,    \* sequence of [code, software, hardware, uses]: program, breakpoints, script
          Start,        \* where the thread stands at first ...
          Outside,      \* ... and the return address of its function
          Addresses, Limits,   \* arguments of step_until
          MaxStack      \* bound: words on the stack

(* anywhere: finish is called at any instruction; recursive: a function    *)
(* calls itself; prefixed: calls with a REX prefix; rep: repeated          *)
(* instructions.                                                           *)
AllUses == {"anywhere", "recursive", "prefixed", "rep"}

VARIABLES
    scenario,
    cpu,       \* [rip, rbp, stack, frames]; frames: where the return addresses really are
    rf,        \* resume flag: the hardware breakpoint at rip has been reported
    doing,        \* "idle", or what the debugger is about to do
    previous_ip, nested_call_counter,     \* of stepping_finish
    target,    \* address of step_until, or the breakpoint of finish
    max_steps, count,                     \* of step_until
    executed,  \* instructions completed since the method was called
    method,    \* the method that was called last, "none" when the script has gone on ...
    begun      \* ... and the cpu when it was called

vars == <<scenario, cpu, rf, doing, previous_ip, nested_call_counter, target, max_steps, count,
          executed, method, begun>>

This == Scenarios[scenario]
code == This.code
Op(a) == code[a].op
Breakpoints == This.software \cup This.hardware

-------------------------------------------------------------------------------
(* The processor. *)

(* What one instruction may do; a repeated one may be interrupted. *)
Moves(c) ==
    LET i == code[c.rip]
        n == [c EXCEPT !.rip = @ + i.size]
        top == Len(c.stack)
    IN  CASE i.op \in {"endbr", "plain", "disp55"} -> {n}
          [] i.op = "rep" -> {c, n}
          [] i.op = "jcc" -> {n, [c EXCEPT !.rip = i.to]}
          [] i.op = "push" -> {[n EXCEPT !.stack = Append(@, c.rbp)]}
          [] i.op = "sub" -> {[n EXCEPT !.stack = Append(@, 0)]}
          [] i.op = "mov" -> {[n EXCEPT !.rbp = top]}
          [] i.op = "leave" -> {[n EXCEPT !.stack = SubSeq(@, 1, c.rbp - 1), !.rbp = c.stack[c.rbp]]}
          [] i.op = "ret" -> {[c EXCEPT !.rip = c.stack[top], !.stack = Front(@), !.frames = Front(@)]}
          [] i.op \in {"call", "rexcall"} ->
                IF top >= MaxStack THEN {}
                ELSE {[c EXCEPT !.rip = i.to, !.stack = Append(@, n.rip), !.frames = Append(@, top + 1)]}
          [] i.op = "end" -> {}

(* PTRACE_SINGLESTEP and the wait for it: a hardware breakpoint stops the  *)
(* thread before the instruction, once.                                    *)
SingleStep ==
    \/ /\ cpu.rip \in This.hardware /\ ~rf
       /\ rf' = TRUE
       /\ UNCHANGED <<cpu, executed>>
    \/ /\ cpu.rip \notin This.hardware \/ rf
       /\ cpu' \in Moves(cpu)
       /\ rf' = FALSE
       /\ executed' = IF cpu' = cpu THEN executed ELSE executed + 1

-------------------------------------------------------------------------------
(* The stack unwinder. *)

(* Bytes that make a prologue, in the four bytes from a on.  push rbp is   *)
(* the byte 0x55, which other instructions have as well.                   *)
InWindow(a, b, n) == a <= b /\ b + n <= a + 4
Has55(a) ==
    \E b \in DOMAIN code : \/ Op(b) = "push" /\ InWindow(a, b, 1)
                           \/ Op(b) = "disp55" /\ InWindow(a, b + 1, 1)
HasEndbr(a) == \E b \in DOMAIN code : Op(b) = "endbr" /\ InWindow(a, b, 4)
HasMov(a) == \E b \in DOMAIN code : Op(b) = "mov" /\ InWindow(a, b, 3)

(* Mutant: the return address is taken to be on top until rbp is set. *)
PreambleStateTop(a) == IF HasEndbr(a) \/ Has55(a) \/ HasMov(a) THEN 1 ELSE 0

(* _preamble_state *)
PreambleState(a) == IF HasEndbr(a) \/ Has55(a) THEN 1 ELSE IF HasMov(a) THEN 2 ELSE 0

(* get_return_address: the word, or none if it cannot be read. *)
Word(c, k) == IF k \in DOMAIN c.stack THEN {c.stack[k]} ELSE {}
GetReturnAddress(c) ==
    CASE PreambleState(c.rip) = 0 -> Word(c, c.rbp - 1)
      [] PreambleState(c.rip) = 1 -> Word(c, Len(c.stack))
      [] PreambleState(c.rip) = 2 -> Word(c, Len(c.stack) - 1)

(* The loop of unwind: the chain of saved frame pointers. *)
Chain(c) ==
    LET from[b \in 0..MaxStack] ==
            IF b < 2 \/ c.stack[b - 1] \notin DOMAIN code THEN << >>
            ELSE <<c.stack[b - 1]>> \o from[c.stack[b]]
    IN  from[c.rbp]

(* unwind.  It raises an IndexError or a TypeError, for which the result   *)
(* is empty, without a first frame or a first return address.              *)
Unwind(c) ==
    LET trace == <<c.rip>> \o Chain(c)
    IN  IF GetReturnAddress(c) = {} \/ Len(trace) = 1 THEN << >>
        ELSE IF trace[2] \in GetReturnAddress(c) THEN trace
        ELSE <<c.rip>> \o SetToSeq(GetReturnAddress(c)) \o Tail(trace)

-------------------------------------------------------------------------------
(* Methods of the script. *)

Idle == doing = "idle"
Calls(m) ==
    /\ Idle
    /\ method' = m /\ begun' = cpu

Others == <<scenario, previous_ip, nested_call_counter, target, max_steps, count>>

(* step *)
Step ==
    /\ Calls("step")
    /\ executed = 0
    /\ SingleStep
    /\ UNCHANGED <<Others, doing>>

(* A careful script does not call finish with step-mode at an instruction  *)
(* that will not be looked at: the next one and, on a software breakpoint, *)
(* the one after it.  Nor does it do so from one software breakpoint to    *)
(* another: the loop would execute the int3 of the second.                 *)
Transfers == {"call", "rexcall", "ret"}
GoodToStep ==
    /\ Op(cpu.rip) \notin Transfers
    /\ cpu.rip \in This.software =>
          \A c \in Moves(cpu) : Op(c.rip) \notin Transfers /\ c.rip \notin This.software

(* ... nor, with backtrace, where a byte 0x55 is no push of rbp or the     *)
(* frame is gone.                                                          *)
GoodToUnwind == Op(cpu.rip) \in {"endbr", "push"} \/ (Op(cpu.rip) # "ret" /\ ~Has55(cpu.rip))

(* prepare_for_run: one step if the thread stands on a listed breakpoint. *)
Prepare ==
    IF cpu.rip \in This.software THEN SingleStep
    ELSE UNCHANGED <<cpu, rf, executed>>

(* finish with step-mode; the registers of the list are those from before  *)
(* the step of prepare_for_run.                                            *)
FinishStepping ==
    /\ Calls("stepping") /\ executed = 0
    /\ "anywhere" \in This.uses \/ GoodToStep
    /\ Prepare
    /\ previous_ip' = cpu.rip
    /\ nested_call_counter' = 1
    /\ doing' = "loop"
    /\ UNCHANGED <<scenario, target, max_steps, count>>

IS_SW_BREAKPOINT(a) == a \in This.software
IS_CALL_INSTRUCTION(a) == Op(a) = "call"
IS_RET_INSTRUCTION(a) == Op(a) = "ret"

(* Mutant: calls on the way are not counted. *)
LoopNoNesting ==
    /\ doing = "loop"
    /\ SingleStep
    /\ previous_ip' = cpu'.rip
    /\ LET ip == cpu'.rip
           stop == ip = previous_ip \/ IS_SW_BREAKPOINT(ip)
       IN  /\ nested_call_counter' = IF ~stop /\ IS_RET_INSTRUCTION(ip) THEN 0 ELSE nested_call_counter
           /\ doing' = IF stop THEN "idle" ELSE IF nested_call_counter' > 0 THEN "loop" ELSE "last"
    /\ UNCHANGED <<scenario, target, max_steps, count, method, begun>>

(* The loop of stepping_finish. *)
Loop ==
    /\ doing = "loop"
    /\ SingleStep
    /\ previous_ip' = cpu'.rip
    /\ LET ip == cpu'.rip
           stop == ip = previous_ip \/ IS_SW_BREAKPOINT(ip)
       IN  /\ nested_call_counter' =
                  IF stop THEN nested_call_counter
                  ELSE IF IS_CALL_INSTRUCTION(ip) THEN nested_call_counter + 1
                  ELSE IF IS_RET_INSTRUCTION(ip) THEN nested_call_counter - 1
                  ELSE nested_call_counter
           /\ doing' = IF stop THEN "idle" ELSE IF nested_call_counter' > 0 THEN "loop" ELSE "last"
    /\ UNCHANGED <<scenario, target, max_steps, count, method, begun>>

(* The step over the return instruction. *)
LastStep ==
    /\ doing = "last"
    /\ SingleStep
    /\ doing' = "idle"
    /\ UNCHANGED <<Others, method, begun>>

(* finish with backtrace: a hardware breakpoint at the return address, the *)
(* thread continues.  It raises if there is no return address.             *)
FinishBacktrace ==
    /\ Calls("backtrace") /\ executed = 0
    /\ "anywhere" \in This.uses \/ GoodToUnwind
    /\ target' \in GetReturnAddress(cpu)
    /\ Prepare
    /\ doing' = "run"
    /\ UNCHANGED <<scenario, previous_ip, nested_call_counter, max_steps, count>>

(* The thread runs until it meets a breakpoint; then the one of finish is  *)
(* removed.                                                                *)
Run ==
    /\ doing = "run"
    /\ cpu' \in Moves(cpu)
    /\ cpu.rip \notin This.software
    /\ rf \/ cpu.rip \notin This.hardware \cup {target}
    /\ rf' = FALSE
    /\ executed' = 1
    /\ UNCHANGED <<Others, doing, method, begun>>

RunStops ==
    /\ doing = "run"
    /\ \/ IS_SW_BREAKPOINT(cpu.rip) /\ rf' = FALSE
       \/ ~rf /\ cpu.rip \in This.hardware \cup {target} /\ rf' = TRUE
    /\ doing' = "idle"
    /\ UNCHANGED <<Others, cpu, executed, method, begun>>

(* step_until; -1 is no limit. *)
StepUntil(a, n) ==
    /\ Calls("until") /\ executed = 0
    /\ target' = a /\ max_steps' = n /\ count' = 0
    /\ doing' = "until"
    /\ UNCHANGED <<scenario, cpu, rf, executed, previous_ip, nested_call_counter>>

(* Mutant: a stop at a hardware breakpoint counts as a step. *)
UntilCountsStops ==
    /\ doing = "until"
    /\ IF max_steps = -1 \/ count < max_steps
       THEN /\ SingleStep
            /\ IF cpu'.rip = target THEN doing' = "idle" /\ UNCHANGED count
               ELSE count' = count + 1 /\ UNCHANGED doing
       ELSE doing' = "idle" /\ UNCHANGED <<cpu, rf, count, executed>>
    /\ UNCHANGED <<scenario, previous_ip, nested_call_counter, target, max_steps, method, begun>>

(* The loop of step_until: an unchanged instruction pointer does not count *)
(* as a step.                                                              *)
Until ==
    /\ doing = "until"
    /\ IF max_steps = -1 \/ count < max_steps
       THEN /\ SingleStep
            /\ IF cpu'.rip = target THEN doing' = "idle" /\ UNCHANGED count
               ELSE /\ count' = IF cpu'.rip = cpu.rip THEN count ELSE count + 1
                    /\ UNCHANGED doing
       ELSE doing' = "idle" /\ UNCHANGED <<cpu, rf, count, executed>>
    /\ UNCHANGED <<scenario, previous_ip, nested_call_counter, target, max_steps, method, begun>>

(* The script goes on. *)
GoOn ==
    /\ Idle /\ executed > 0
    /\ executed' = 0 /\ method' = "none" /\ begun' = cpu
    /\ previous_ip' = 0 /\ nested_call_counter' = 0 /\ target' = 0 /\ max_steps' = 0 /\ count' = 0
    /\ UNCHANGED <<scenario, cpu, rf, doing>>

-------------------------------------------------------------------------------
Init ==
    /\ scenario \in DOMAIN Scenarios
    /\ cpu = [rip |-> Start, rbp |-> 0, stack |-> <<Outside>>, frames |-> <<1>>]
    /\ rf = FALSE
    /\ doing = "idle" /\ method = "none" /\ begun = cpu
    /\ previous_ip = 0 /\ nested_call_counter = 0 /\ target = 0 /\ max_steps = 0 /\ count = 0
    /\ executed = 0

Next ==
    \/ Step \/ FinishStepping \/ Loop \/ LastStep
    \/ FinishBacktrace \/ Run \/ RunStops
    \/ \E a \in Addresses, n \in Limits : StepUntil(a, n)
    \/ Until \/ GoOn

Spec == Init /\ [][Next]_vars

-------------------------------------------------------------------------------
(* Properties. *)

Uses(s) == This.uses \cap s # {}

(* The frames, innermost first. *)
ReturnAddresses(c) == Reverse([k \in DOMAIN c.frames |-> c.stack[c.frames[k]]])

(* finish leaves the function it was called in, and only that one: the     *)
(* thread is where the function was called from, however many calls were   *)
(* nested on the way; or it has stopped at a breakpoint.                   *)
FinishReturns ==
    /\ Idle
    /\ \/ method = "stepping" /\ ~Uses({"anywhere", "prefixed", "rep"})
       \/ method = "backtrace" /\ ~Uses({"anywhere", "recursive"})
    => \/ cpu.rip \in Breakpoints
       \/ cpu.frames = Front(begun.frames) /\ cpu.rip = Head(ReturnAddresses(begun))

(* The unwinder lists exactly the functions that the thread is in, through *)
(* the prologue as well as in the body.                                    *)
UnwindExact ==
    Idle /\ GoodToUnwind /\ cpu.rbp # 0 /\ Op(cpu.rip) # "end" /\ ~Uses({"recursive"}) =>
        Unwind(cpu) = <<cpu.rip>> \o ReturnAddresses(cpu)

(* step_until ends at its address or after exactly as many instructions as *)
(* it was allowed, whatever hardware breakpoints stopped it on the way.    *)
StepsExact ==
    Idle /\ method = "until" =>
        \/ cpu.rip = target /\ (max_steps # -1 => executed <= max_steps)
        \/ executed = max_steps
================================================================================
