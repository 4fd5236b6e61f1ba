--------------------------- MODULE InternalDebugger ---------------------------
(***************************************************************************)
(* The command protocol of InternalDebugger: the thread of the user's      *)
(* script calls the API, every ptrace request is made by the background    *)
(* polling thread, and the two meet in two queue.Queue objects (commands   *)
(* and responses).  A third actor is the single-threaded tracee.           *)
(*                                                                         *)
(* An API method is a sequence of micro-operations (Body), each of them    *)
(* one access to state that another thread can see: a put, a join, a test  *)
(* of a flag, a signal.  prog is what is left of the method being called.  *)
(***************************************************************************)
EXTENDS Naturals, Sequences

CONSTANTS Calls,              \* the API methods the script uses
          AutoInterrupt,      \* auto_interrupt_on_command
          EscapeAntidebug,    \* escape_antidebug
          CallbacksRaise,     \* a user callback may raise an exception
          RunFails,           \* starting or attaching may raise
          ExternalKill,       \* the tracee may be SIGKILLed from outside
          MaxBacklog          \* bound: commands left in the queue when a method is called

AllCalls == {"run", "attach", "detach", "kill", "terminate", "cont", "interrupt",
             "wait", "step", "step_until", "finish", "peek", "set"}

ASSUME CallsAssumption ==
    /\ Calls \subseteq AllCalls
    /\ AutoInterrupt \in BOOLEAN
    /\ EscapeAntidebug \in BOOLEAN
    /\ CallbacksRaise \in BOOLEAN
    /\ RunFails \in BOOLEAN
    /\ ExternalKill \in BOOLEAN
    /\ MaxBacklog \in Nat

VARIABLES
    call, outcome, prog,      \* the script: last method called, how it ended, what is left of it
    cmdQ, cmdUnfinished,      \* command queue and its count of unfinished tasks
    rspQ, rspUnfinished,      \* response queue and its count of unfinished tasks
    ppc, cmd, ret,            \* polling thread: where it is, its command, the return value
    instanced, is_running,    \* flags of InternalDebugger
    threads, dead,            \* self.threads is not empty; self.threads[0].dead
    pipe, detached,           \* pipe_manager; detached of PtraceInterface
    resume, force_interrupt, is_a_step,  \* ResumeContext
    proc, event, sigstop, child  \* the tracee as the kernel sees it

mainVars == <<call, outcome, prog>>
queueVars == <<cmdQ, cmdUnfinished, rspQ, rspUnfinished>>
pollVars == <<ppc, cmd, ret>>
flagVars == <<instanced, is_running, threads, dead, pipe, detached>>
resumeVars == <<resume, force_interrupt, is_a_step>>
procVars == <<proc, event, sigstop, child>>
vars == <<mainVars, queueVars, pollVars, flagVars, resumeVars, procVars>>

-------------------------------------------------------------------------------
(* Values. *)

MicroOps == {"instanced?", "alive?", "ensure", "interrupt", "sigstop", "join", "waitmore",
             "kill?", "catch", "uninstance", "close", "clear", "instance",
             "empty?", "pipe?", "joincmd", "getrsp", "jointhread"}

(* What the polling thread can be asked to do.  As a micro-operation, a    *)
(* command stands for putting it on the command queue.                     *)
Commands == {"run", "attach", "detach", "kill", "cont", "wait", "step",
             "step_until", "finish", "peek", "set", "terminate"}

(* "None": no return value; "value": the bytes of a peek; "OSError": an    *)
(* OSError or RuntimeError; "Exception": any other exception, for instance *)
(* one that a user callback raised.                                        *)
Returns == {"None", "value", "OSError", "Exception"}

(* What a stop makes the status handler do.  trap_* is a SIGTRAP, sig_* a  *)
(* signal or a syscall stop; *_stop asks for a pause (no callback), *_go   *)
(* does not, *_raise runs a callback that raises.                          *)
Events == {"none", "trap_stop", "trap_go", "trap_raise",
           "sig_stop", "sig_go", "sig_raise", "sigstop"}

(* none: never started; stopped: ptrace-stop already waited for; event:    *)
(* stop not yet waited for; zombie: exited, not waited for; reaped: gone;  *)
(* free: running without a tracer.                                         *)
Procs == {"none", "stopped", "running", "stepping", "event", "zombie", "reaped", "free"}

(* Where the polling thread is: waiting for a command; executing it; in    *)
(* the waitpid and after it, in the loop of __threaded_wait; publishing    *)
(* the return value; at task_done; waiting for the response to be taken.   *)
PollingStates == {"get", "exec", "waitpid", "decide", "respond", "taskdone", "joinrsp", "ended"}

-------------------------------------------------------------------------------
(* The API methods. *)

ProcessWrapper == <<"instanced?", "ensure", "alive?">>   \* change_state_function_process
ThreadWrapper == <<"instanced?", "ensure", "alive?">>    \* change_state_function_thread
WaitBody == <<"instanced?", "join", "waitmore">>
KillBody == <<"ensure", "catch", "kill", "uninstance", "close", "join">>
RunBody == <<"kill?", "clear", "instance", "empty?", "run">>
           \o (IF EscapeAntidebug THEN <<"set">> ELSE << >>) \o <<"join", "pipe?">>
AttachBody == <<"kill?", "clear", "instance", "empty?", "attach", "join">>
InterruptBody == <<"instanced?", "alive?", "interrupt">>

(* Mutants: cont without the trailing wait, step without the wait. *)
ContBodyNoWait == ProcessWrapper \o <<"cont", "join">>
StepBodyNoWait == ThreadWrapper \o <<"ensure", "step", "join">>

ContBody == ProcessWrapper \o <<"cont", "join", "wait">>
StepBody == ThreadWrapper \o <<"ensure", "step", "wait", "join">>

Body(c) ==
    CASE c = "run"        -> RunBody
      [] c = "attach"     -> AttachBody
      [] c = "detach"     -> <<"instanced?", "ensure", "detach", "join">>
      [] c = "kill"       -> KillBody
      [] c = "terminate"  -> <<"terminate", "jointhread">>
      [] c = "cont"       -> ContBody
      [] c = "interrupt"  -> InterruptBody
      [] c = "wait"       -> WaitBody
      [] c = "step"       -> StepBody
      [] c = "step_until" -> ThreadWrapper \o <<"step_until", "join">>
      [] c = "finish"     -> ThreadWrapper \o <<"finish", "join">>
      [] c = "peek"       -> <<"instanced?", "ensure", "peek", "joincmd", "getrsp">>
      [] c = "set"        -> ProcessWrapper \o <<"set", "join">>

-------------------------------------------------------------------------------
(* Exceptions in the script's thread.  kill() swallows OSError and         *)
(* RuntimeError raised by _ensure_process_stopped ("catch" ends that try). *)

Caught(e) == e = "OSError" /\ \E i \in DOMAIN prog : prog[i] = "catch"

AfterCatch == LET i == CHOOSE j \in DOMAIN prog : prog[j] = "catch"
              IN  SubSeq(prog, i + 1, Len(prog))

Raise(e) ==
    IF Caught(e)
    THEN /\ prog' = AfterCatch
         /\ UNCHANGED outcome
    ELSE /\ prog' = << >>
         /\ outcome' = "raised"

Continue == prog' = Tail(prog) /\ UNCHANGED outcome
ContinueWith(ops) == prog' = ops \o Tail(prog) /\ UNCHANGED outcome
At(op) == prog # << >> /\ Head(prog) = op

(* The script calls a method.  After terminate() the object is not used.   *)
(* The queues are unbounded; a method that raised may have left commands   *)
(* in one, of which MaxBacklog are allowed.                                *)
Call(c) ==
    /\ prog = << >>
    /\ Len(cmdQ) <= MaxBacklog
    /\ ~(call = "terminate" /\ outcome = "ok")
    /\ call' = c
    /\ outcome' = "ok"
    /\ prog' = Body(c)
    /\ UNCHANGED <<queueVars, pollVars, flagVars, resumeVars, procVars>>

-------------------------------------------------------------------------------
(* Micro-operations of the script's thread. *)

CheckInstanced ==
    /\ At("instanced?")
    /\ IF instanced THEN Continue ELSE Raise("OSError")
    /\ UNCHANGED <<call, queueVars, pollVars, flagVars, resumeVars, procVars>>

CheckAlive ==
    /\ At("alive?")
    /\ IF ~threads THEN Raise("Exception")
       ELSE IF dead THEN Raise("OSError")
       ELSE Continue
    /\ UNCHANGED <<call, queueVars, pollVars, flagVars, resumeVars, procVars>>

(* _ensure_process_stopped *)
EnsureProcessStopped ==
    /\ At("ensure")
    /\ IF ~is_running THEN Continue
       ELSE IF AutoInterrupt THEN ContinueWith(InterruptBody \o <<"join">>)
       ELSE ContinueWith(<<"join">>)
    /\ UNCHANGED <<call, queueVars, pollVars, flagVars, resumeVars, procVars>>

(* interrupt(): the flag is set before the signal is sent. *)
Interrupt ==
    /\ At("interrupt")
    /\ IF is_running
       THEN /\ force_interrupt' = TRUE
            /\ ContinueWith(<<"sigstop">> \o WaitBody)
       ELSE /\ Continue
            /\ UNCHANGED force_interrupt
    /\ UNCHANGED <<call, queueVars, pollVars, flagVars, resume, is_a_step, procVars>>

(* os.kill(process_id, SIGSTOP) *)
SendSigstop ==
    /\ At("sigstop")
    /\ IF proc = "reaped"
       THEN Raise("OSError") /\ UNCHANGED sigstop
       ELSE Continue /\ sigstop' = (proc # "zombie")
    /\ UNCHANGED <<call, queueVars, pollVars, flagVars, resumeVars, proc, event, child>>

(* wait(), after the join: most of the time there is nothing to wait for. *)
WaitMore ==
    /\ At("waitmore")
    /\ IF ~threads THEN Raise("Exception")
       ELSE IF dead \/ ~is_running THEN Continue
       ELSE ContinueWith(<<"wait", "join">>)
    /\ UNCHANGED <<call, queueVars, pollVars, flagVars, resumeVars, procVars>>

Put(c) ==
    /\ At(c)
    /\ cmdQ' = Append(cmdQ, c)
    /\ cmdUnfinished' = cmdUnfinished + 1
    /\ Continue
    /\ UNCHANGED <<call, rspQ, rspUnfinished, pollVars, flagVars, resumeVars, procVars>>

(* _join_and_check_status *)
JoinAndCheckStatus ==
    /\ At("join")
    /\ cmdUnfinished = 0
    /\ IF rspQ = << >>
       THEN /\ Continue
            /\ UNCHANGED <<rspQ, rspUnfinished>>
       ELSE /\ rspQ' = Tail(rspQ)
            /\ rspUnfinished' = rspUnfinished - 1
            /\ Raise(Head(rspQ).value)
    /\ UNCHANGED <<call, cmdQ, cmdUnfinished, pollVars, flagVars, resumeVars, procVars>>

(* _peek_memory joins and takes the response itself. *)
JoinCommands ==
    /\ At("joincmd")
    /\ cmdUnfinished = 0
    /\ Continue
    /\ UNCHANGED <<call, queueVars, pollVars, flagVars, resumeVars, procVars>>

GetResponse ==
    /\ At("getrsp")
    /\ rspQ # << >>
    /\ rspQ' = Tail(rspQ)
    /\ rspUnfinished' = rspUnfinished - 1
    /\ IF Head(rspQ).value = "value" THEN Continue ELSE Raise(Head(rspQ).value)
    /\ UNCHANGED <<call, cmdQ, cmdUnfinished, pollVars, flagVars, resumeVars, procVars>>

(* run() and attach() kill the previous process first. *)
KillPrevious ==
    /\ At("kill?")
    /\ IF instanced THEN ContinueWith(KillBody) ELSE Continue
    /\ UNCHANGED <<call, queueVars, pollVars, flagVars, resumeVars, procVars>>

(* The end of kill()'s try block, reached without an exception. *)
EndTry ==
    /\ At("catch")
    /\ Continue
    /\ UNCHANGED <<call, queueVars, pollVars, flagVars, resumeVars, procVars>>

ClearInstanced ==
    /\ At("uninstance")
    /\ instanced' = FALSE
    /\ Continue
    /\ UNCHANGED <<call, queueVars, pollVars, is_running, threads, dead, pipe, detached,
                   resumeVars, procVars>>

(* PipeManager.close: closing the descriptors again raises OSError. *)
ClosePipe ==
    /\ At("close")
    /\ IF pipe = "closed" THEN Raise("OSError") /\ UNCHANGED pipe
       ELSE Continue /\ pipe' = (IF pipe = "open" THEN "closed" ELSE pipe)
    /\ UNCHANGED <<call, queueVars, pollVars, instanced, is_running, threads, dead, detached,
                   resumeVars, procVars>>

(* clear() and debugging_interface.reset(), made by the script's thread.   *)
(* Neither the registers of the old process nor its queues are touched.    *)
ClearAndReset ==
    /\ At("clear")
    /\ Continue
    /\ IF threads
       THEN /\ instanced' = FALSE
            /\ is_running' = FALSE
            /\ threads' = FALSE
            /\ dead' = FALSE
            /\ pipe' = "none"
            /\ resume' = TRUE
            /\ force_interrupt' = FALSE
            /\ is_a_step' = FALSE
       ELSE UNCHANGED <<instanced, is_running, threads, dead, pipe, resumeVars>>
    /\ UNCHANGED <<call, queueVars, pollVars, detached, procVars>>

SetInstanced ==
    /\ At("instance")
    /\ instanced' = TRUE
    /\ Continue
    /\ UNCHANGED <<call, queueVars, pollVars, is_running, threads, dead, pipe, detached,
                   resumeVars, procVars>>

CheckQueueEmpty ==
    /\ At("empty?")
    /\ IF cmdQ = << >> THEN Continue ELSE Raise("OSError")
    /\ UNCHANGED <<call, queueVars, pollVars, flagVars, resumeVars, procVars>>

CheckPipe ==
    /\ At("pipe?")
    /\ IF pipe = "none" THEN Raise("OSError") ELSE Continue
    /\ UNCHANGED <<call, queueVars, pollVars, flagVars, resumeVars, procVars>>

(* terminate() joins the polling thread itself. *)
JoinThread ==
    /\ At("jointhread")
    /\ ppc = "ended"
    /\ Continue
    /\ UNCHANGED <<call, queueVars, pollVars, flagVars, resumeVars, procVars>>

Main ==
    \/ \E c \in Calls : Call(c)
    \/ CheckInstanced \/ CheckAlive \/ EnsureProcessStopped \/ Interrupt \/ SendSigstop
    \/ WaitMore \/ JoinAndCheckStatus \/ JoinCommands \/ GetResponse
    \/ \E c \in Commands : Put(c)
    \/ KillPrevious \/ EndTry \/ ClearInstanced \/ ClosePipe \/ ClearAndReset
    \/ SetInstanced \/ CheckQueueEmpty \/ CheckPipe \/ JoinThread

-------------------------------------------------------------------------------
(* The polling thread. *)

PollGet ==
    /\ ppc = "get"
    /\ cmdQ # << >>
    /\ cmdQ' = Tail(cmdQ)
    /\ cmd' = Head(cmdQ)
    /\ ret' = "None"
    /\ IF Head(cmdQ) = "terminate"
       THEN ppc' = "ended" /\ cmdUnfinished' = cmdUnfinished - 1
       ELSE ppc' = "exec" /\ UNCHANGED cmdUnfinished
    /\ UNCHANGED <<mainVars, rspQ, rspUnfinished, flagVars, resumeVars, procVars>>

(* A response is published before the command is marked as done ... *)
PollRespond ==
    /\ ppc = "respond"
    /\ rspQ' = Append(rspQ, [from |-> cmd, value |-> ret])
    /\ rspUnfinished' = rspUnfinished + 1
    /\ ppc' = "taskdone"
    /\ UNCHANGED <<mainVars, cmdQ, cmdUnfinished, cmd, ret, flagVars, resumeVars, procVars>>

PollTaskDone ==
    /\ ppc = "taskdone"
    /\ cmdUnfinished' = cmdUnfinished - 1
    /\ ppc' = (IF ret = "None" THEN "get" ELSE "joinrsp")
    /\ UNCHANGED <<mainVars, cmdQ, rspQ, rspUnfinished, cmd, ret, flagVars, resumeVars, procVars>>

(* Mutant: the polling thread does not wait for its response to be taken. *)
PollSkipJoin ==
    /\ ppc = "joinrsp"
    /\ ppc' = "get"
    /\ UNCHANGED <<mainVars, queueVars, cmd, ret, flagVars, resumeVars, procVars>>

(* ... and must be taken before the next command. *)
PollJoinResponses ==
    /\ ppc = "joinrsp"
    /\ rspUnfinished = 0
    /\ ppc' = "get"
    /\ UNCHANGED <<mainVars, queueVars, cmd, ret, flagVars, resumeVars, procVars>>

Executing(c) == ppc = "exec" /\ cmd = c

Return(v) ==
    /\ ret' = v
    /\ ppc' = (IF v = "None" THEN "taskdone" ELSE "respond")
    /\ UNCHANGED cmd

(* A new tracee, stopped, known to the debugger. *)
StartTracee(isChild) ==
    /\ proc' = "stopped"
    /\ event' = "none"
    /\ sigstop' = FALSE
    /\ child' = isChild
    /\ threads' = TRUE
    /\ dead' = FALSE
    /\ detached' = FALSE

(* __threaded_run.  It can fail before the process is spawned or, with the *)
(* process registered, on the way to its entry point; or the process dies  *)
(* on that way, which run() does not notice.                               *)
ThreadedRun ==
    /\ Executing("run")
    /\ \/ /\ StartTracee(TRUE)
          /\ pipe' = "open"
          /\ is_running' = FALSE
          /\ Return("None")
       \/ /\ RunFails
          /\ StartTracee(TRUE)
          /\ Return("OSError")
          /\ UNCHANGED <<pipe, is_running>>
       \/ /\ RunFails
          /\ Return("OSError")
          /\ UNCHANGED <<procVars, threads, dead, detached, pipe, is_running>>
       \/ /\ RunFails
          /\ proc' = "reaped" /\ event' = "none" /\ sigstop' = FALSE /\ child' = TRUE
          /\ threads' = TRUE /\ dead' = TRUE /\ detached' = FALSE
          /\ pipe' = "open"
          /\ is_running' = FALSE
          /\ Return("None")
    /\ UNCHANGED <<mainVars, queueVars, instanced, resumeVars>>

ThreadedAttach ==
    /\ Executing("attach")
    /\ \/ /\ StartTracee(FALSE)
          /\ is_running' = FALSE
          /\ Return("None")
       \/ /\ RunFails
          /\ Return("OSError")
          /\ UNCHANGED <<procVars, threads, dead, detached, is_running>>
    /\ UNCHANGED <<mainVars, queueVars, instanced, pipe, resumeVars>>

(* __threaded_detach.  Hardware breakpoints are taken away first, which    *)
(* fails if one is in no register, or if the tracee is not stopped.        *)
(* Detaching twice from a child waits for a stop that is no longer         *)
(* reported, so until the child is dead.                                   *)
ThreadedDetach ==
    /\ Executing("detach")
    /\ \/ /\ Return("Exception") \/ (proc # "stopped" /\ Return("OSError"))
          /\ UNCHANGED <<procVars, detached, is_running>>
       \/ /\ ~(proc = "free" /\ child)
          /\ proc' = CASE proc \in {"none", "reaped"} -> proc
                       [] proc = "zombie"             -> "reaped"
                       [] OTHER                       -> "free"
          /\ event' = "none"
          /\ sigstop' = FALSE
          /\ detached' = TRUE
          /\ is_running' = FALSE
          /\ Return("None")
          /\ UNCHANGED child
    /\ UNCHANGED <<mainVars, queueVars, instanced, threads, dead, pipe, resumeVars>>

(* __threaded_kill.  threads[0].dead and is_running are left alone. *)
ThreadedKill ==
    /\ Executing("kill")
    /\ IF ~detached THEN Return("None")
       ELSE IF proc \in {"none", "reaped"} \/ ~child THEN Return("OSError")
       ELSE Return("None")
    /\ proc' = (IF proc = "none" THEN proc ELSE "reaped")
    /\ event' = "none"
    /\ sigstop' = FALSE
    /\ UNCHANGED <<mainVars, queueVars, flagVars, resumeVars, child>>

(* PtraceInterface.cont: a stopped tracee runs.  Otherwise the requests    *)
(* fail, which is only printed unless a thread sits on a breakpoint.       *)
InterfaceCont(fails) ==
    IF proc = "stopped"
    THEN ~fails /\ proc' = "running"
    ELSE (fails => ~dead) /\ UNCHANGED proc

ThreadedCont ==
    /\ Executing("cont")
    /\ is_running' = TRUE
    /\ \E fails \in BOOLEAN :
          /\ InterfaceCont(fails)
          /\ Return(IF fails THEN "OSError" ELSE "None")
    /\ UNCHANGED <<mainVars, queueVars, instanced, threads, dead, pipe, detached, resumeVars,
                   event, sigstop, child>>

(* Top of the loop of __threaded_wait. *)
WaitTop ==
    /\ Executing("wait")
    /\ IF ~threads THEN Return("Exception") /\ UNCHANGED <<is_running, resume>>
       ELSE IF dead THEN Return("None") /\ is_running' = FALSE /\ UNCHANGED resume
       ELSE /\ resume' = TRUE
            /\ ppc' = "waitpid"
            /\ UNCHANGED <<cmd, ret, is_running>>
    /\ UNCHANGED <<mainVars, queueVars, instanced, threads, dead, pipe, detached,
                   force_interrupt, is_a_step, procVars>>

(* debugging_interface.wait: waitpid returns a stop, and the status        *)
(* handler decides.                                                        *)
IsTrap(e) == e \in {"trap_stop", "trap_go", "trap_raise"}
CallbackRaises(e) == e \in {"trap_raise", "sig_raise"}
StopRequested(e) == e \in {"trap_stop", "sig_stop"}

(* Mutant: the SIGSTOP of interrupt() does not stop the tracee. *)
MustStopNoForce(e) ==
    \/ StopRequested(e)
    \/ IsTrap(e) /\ is_a_step

MustStop(e) ==
    \/ StopRequested(e)
    \/ IsTrap(e) /\ is_a_step
    \/ e = "sigstop" /\ force_interrupt

HandleStop ==
    /\ ppc = "waitpid"
    /\ proc = "event"
    /\ proc' = "stopped"
    /\ event' = "none"
    /\ IF CallbackRaises(event)
       THEN /\ \E e \in {"OSError", "Exception"} : Return(e)
            /\ UNCHANGED resumeVars
       ELSE /\ resume' = ~MustStop(event)
            /\ is_a_step' = (is_a_step /\ ~IsTrap(event))
            /\ force_interrupt' = (force_interrupt /\ event # "sigstop")
            /\ ppc' = "decide"
            /\ UNCHANGED <<cmd, ret>>
    /\ UNCHANGED <<mainVars, queueVars, flagVars, sigstop, child>>

(* waitpid returns the death of the tracee, or fails. *)
HandleExit ==
    /\ ppc = "waitpid"
    /\ proc = "zombie"
    /\ proc' = "reaped"
    /\ dead' = TRUE
    /\ ppc' = "decide"
    /\ UNCHANGED <<mainVars, queueVars, cmd, ret, instanced, is_running, threads, pipe, detached,
                   resumeVars, event, sigstop, child>>

WaitNothing ==
    /\ ppc = "waitpid"
    /\ proc \in {"none", "reaped"} \/ (proc = "free" /\ ~child)
    /\ ppc' = "decide"
    /\ UNCHANGED <<mainVars, queueVars, cmd, ret, flagVars, resumeVars, procVars>>

(* Bottom of the loop: resume the tracee and wait again, or stop. *)
WaitDecide ==
    /\ ppc = "decide"
    /\ IF resume
       THEN /\ \E fails \in BOOLEAN :
                  /\ InterfaceCont(fails)
                  /\ IF fails THEN Return("OSError") ELSE ppc' = "exec" /\ UNCHANGED <<cmd, ret>>
            /\ UNCHANGED is_running
       ELSE /\ is_running' = FALSE
            /\ Return("None")
            /\ UNCHANGED proc
    /\ UNCHANGED <<mainVars, queueVars, instanced, threads, dead, pipe, detached, resumeVars,
                   event, sigstop, child>>

ThreadedStep ==
    /\ Executing("step")
    /\ IF proc = "stopped"
       THEN /\ proc' = "stepping"
            /\ is_a_step' = TRUE
            /\ is_running' = TRUE
            /\ Return("None")
       ELSE /\ Return("OSError")
            /\ UNCHANGED <<proc, is_a_step, is_running>>
    /\ UNCHANGED <<mainVars, queueVars, instanced, threads, dead, pipe, detached,
                   resume, force_interrupt, event, sigstop, child>>

(* step_until waits by itself and looks at no status: signals and even the *)
(* death of the tracee are swallowed.                                      *)
ThreadedStepUntil ==
    /\ Executing("step_until")
    /\ \/ /\ proc = "stopped"
          /\ sigstop' \in {sigstop, FALSE}
          /\ Return("None")
          /\ is_running' = FALSE
          /\ proc' \in {"stopped", "reaped"}
       \/ /\ proc' = (IF proc = "stopped" THEN "reaped" ELSE proc)
          /\ Return("OSError")
          /\ UNCHANGED <<is_running, sigstop>>
    /\ UNCHANGED <<mainVars, queueVars, instanced, threads, dead, pipe, detached, resumeVars,
                   event, child>>

(* finish continues and waits once; whatever stops the tracee ends it. *)
ThreadedFinish ==
    /\ Executing("finish")
    /\ \/ /\ proc = "stopped"
          /\ \/ proc' = "stopped" /\ UNCHANGED dead
             \/ proc' = "reaped" /\ dead' = TRUE
          /\ is_a_step' \in {is_a_step, FALSE}
          /\ \/ UNCHANGED <<sigstop, force_interrupt>>
             \/ sigstop /\ sigstop' = FALSE /\ force_interrupt' = FALSE
          /\ is_running' = FALSE
          /\ Return("None")
       \/ /\ CallbacksRaise
          /\ proc = "stopped"
          /\ Return("Exception")
          /\ UNCHANGED <<proc, dead, is_a_step, sigstop, force_interrupt, is_running>>
       \/ /\ proc # "stopped"
          /\ Return("OSError")
          /\ UNCHANGED <<proc, dead, is_a_step, sigstop, force_interrupt, is_running>>
    /\ UNCHANGED <<mainVars, queueVars, instanced, threads, pipe, detached, resume, event, child>>

ThreadedPeekMemory ==
    /\ Executing("peek")
    /\ Return(IF proc = "stopped" THEN "value" ELSE "OSError")
    /\ UNCHANGED <<mainVars, queueVars, flagVars, resumeVars, procVars>>

(* Commands that change tables of the debugger or the memory of the tracee *)
(* and answer nothing: breakpoint, catch_signal, handle_syscall, poke...   *)
ThreadedSet ==
    /\ Executing("set")
    /\ \/ Return("None")
       \/ proc # "stopped" /\ Return("OSError")
    /\ UNCHANGED <<mainVars, queueVars, flagVars, resumeVars, procVars>>

Poll ==
    \/ PollGet \/ PollRespond \/ PollTaskDone \/ PollJoinResponses
    \/ ThreadedRun \/ ThreadedAttach \/ ThreadedDetach \/ ThreadedKill \/ ThreadedCont
    \/ WaitTop \/ HandleStop \/ HandleExit \/ WaitNothing \/ WaitDecide
    \/ ThreadedStep \/ ThreadedStepUntil \/ ThreadedFinish \/ ThreadedPeekMemory \/ ThreadedSet

-------------------------------------------------------------------------------
(* The tracee. *)

UNCHANGED_Debugger == UNCHANGED <<mainVars, queueVars, pollVars, flagVars, resumeVars>>

(* It stops: a breakpoint, a syscall, a signal, the end of a step. *)
TraceeStops ==
    /\ proc \in {"running", "stepping"}
    /\ proc' = "event"
    /\ event' \in Events \ {"none", "sigstop"}
    /\ CallbackRaises(event') => CallbacksRaise
    /\ UNCHANGED <<sigstop, child>>
    /\ UNCHANGED_Debugger

(* The pending SIGSTOP is delivered. *)
SigstopDelivered ==
    /\ proc \in {"running", "stepping"}
    /\ sigstop
    /\ proc' = "event"
    /\ event' = "sigstop"
    /\ sigstop' = FALSE
    /\ UNCHANGED child
    /\ UNCHANGED_Debugger

TraceeExits ==
    /\ proc \in {"running", "stepping", "free"}
    /\ proc' = (IF proc = "free" /\ ~child THEN "reaped" ELSE "zombie")
    /\ sigstop' = FALSE
    /\ UNCHANGED <<event, child>>
    /\ UNCHANGED_Debugger

(* Someone else sends SIGKILL, which stops do not hold back. *)
TraceeKilled ==
    /\ ExternalKill
    /\ proc \in {"stopped", "event"}
    /\ proc' = "zombie"
    /\ event' = "none"
    /\ sigstop' = FALSE
    /\ UNCHANGED child
    /\ UNCHANGED_Debugger

Tracee == TraceeStops \/ SigstopDelivered \/ TraceeExits \/ TraceeKilled

-------------------------------------------------------------------------------
(* Specification. *)

Init ==
    /\ call = "none" /\ outcome = "ok" /\ prog = << >>
    /\ cmdQ = << >> /\ cmdUnfinished = 0
    /\ rspQ = << >> /\ rspUnfinished = 0
    /\ ppc = "get" /\ cmd = "none" /\ ret = "None"
    /\ instanced = FALSE /\ is_running = FALSE
    /\ threads = FALSE /\ dead = FALSE
    /\ pipe = "none" /\ detached = FALSE
    /\ resume = TRUE /\ force_interrupt = FALSE /\ is_a_step = FALSE
    /\ proc = "none" /\ event = "none" /\ sigstop = FALSE /\ child = FALSE

Next == Main \/ Poll \/ Tracee

Spec == Init /\ [][Next]_vars

-------------------------------------------------------------------------------
(* Properties. *)

(* Every variable holds a value of its kind. *)
TypeOK ==
    /\ call \in Calls \cup {"none"}
    /\ outcome \in {"ok", "raised"}
    /\ prog \in Seq(MicroOps \cup Commands)
    /\ cmdQ \in Seq(Commands) /\ cmdUnfinished \in Nat
    /\ rspQ \in Seq([from : Commands, value : Returns \ {"None"}]) /\ rspUnfinished \in Nat
    /\ ppc \in PollingStates /\ cmd \in Commands \cup {"none"} /\ ret \in Returns
    /\ instanced \in BOOLEAN /\ is_running \in BOOLEAN
    /\ threads \in BOOLEAN /\ dead \in BOOLEAN
    /\ pipe \in {"none", "open", "closed"} /\ detached \in BOOLEAN
    /\ resume \in BOOLEAN /\ force_interrupt \in BOOLEAN /\ is_a_step \in BOOLEAN
    /\ proc \in Procs /\ event \in Events /\ sigstop \in BOOLEAN /\ child \in BOOLEAN

(* The polling thread holds a command whose task_done it has not called. *)
Busy == ppc \in {"exec", "waitpid", "decide", "respond", "taskdone"}

(* The counts behind Queue.join never drift from the queues: a join on the *)
(* commands ends exactly when every queued command has been executed, and  *)
(* there is at most one response, published by a polling thread that does  *)
(* not touch another command until the script has taken it.                *)
QueueAccounting ==
    /\ cmdUnfinished = Len(cmdQ) + (IF Busy THEN 1 ELSE 0)
    /\ rspUnfinished = Len(rspQ)
    /\ rspQ # << >> => ppc \in {"taskdone", "joinrsp"} /\ Len(rspQ) = 1
    /\ ppc = "taskdone" /\ ret = "None" => rspQ = << >>

(* _peek_memory takes the first response without looking at whose it is:   *)
(* that response is always the one to its own peek, never the late         *)
(* exception of a command that an earlier method left in the queue.        *)
ResponseMatched == At("getrsp") /\ rspQ # << >> => Head(rspQ).from = "peek"

(* The ptrace requests that need a stopped tracee are made only when it is *)
(* not running, although the script decides this from is_running, before   *)
(* the request is queued.                                                  *)
StoppedAccess ==
    ppc = "exec" /\ cmd \in {"peek", "set", "cont", "step", "step_until", "finish", "detach"}
        => proc \notin {"running", "stepping", "event"}

(* A synchronous method that returns normally returns with the tracee not  *)
(* running.  interrupt may find is_running already cleared while the wait  *)
(* of an earlier cont is on its way to task_done.                          *)
SyncReturn ==
    prog = << >> /\ outcome = "ok" /\ call \in AllCalls \ {"cont"}
        => proc \notin {"running", "stepping", "event"}

(* The protocol implements CommandService: commands are executed in the    *)
(* order in which the script puts them, each once; a response is that of   *)
(* the command just executed, and the next command waits until it is       *)
(* taken.                                                                  *)
Service == INSTANCE CommandService WITH
    Command <- Commands,
    Value <- Returns \ {"None"},
    pending <- (IF Busy THEN <<cmd>> ELSE << >>) \o cmdQ,
    answered <- ppc = "taskdone" /\ ret # "None",
    answer <- rspQ

ServiceSpec == Service!Spec

(* interrupt() returns, whatever the tracee and its breakpoints do, and so *)
(* does kill(), even when the tracee would run forever.                    *)
InterruptReturns == (call \in {"interrupt", "kill"} /\ prog # << >>) ~> (prog = << >>)

(* The background thread and the script never wait for each other: the     *)
(* former for its response to be taken, the latter for its commands.       *)
NoMutualWait ==
    ~(/\ ppc = "joinrsp" /\ rspUnfinished > 0
      /\ At("join") \/ At("joincmd")
      /\ cmdUnfinished > 0)

===============================================================================
