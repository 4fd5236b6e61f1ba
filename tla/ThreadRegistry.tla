---------------------------- MODULE ThreadRegistry ----------------------------
(***************************************************************************)
(* The threads of the debugged process as the kernel has them, the list of *)
(* threads in C (global_state.t_HEAD), the list of ThreadContexts in       *)
(* Python, and the code that keeps them together: wait_all_and_update_regs *)
(* and PtraceStatusHandler, which learn of clones, stops and deaths in     *)
(* batches; cont, step, step_until, kill, detach, and the migration to gdb *)
(* and back.  Threads act between any two system calls of the debugger.    *)
(***************************************************************************)
EXTENDS Naturals, Sequences, SequencesExt

CONSTANTS Threads,    \* thread ids; an id is used once
          NoThread,   \* no thread: the -1 of a waitpid
          Main,       \* the first thread, whose id is the process id
          Scenarios   \* what script, program and gdb may do: sets of uses

(* leader: the main thread may end before the others.                      *)
(* exits: exit_group or SIGKILL ends all threads, while all of them run;   *)
(* sudden: at any moment, and the kernel may leave out their exit events   *)
(* (ptrace(2) promises none after SIGKILL).                                *)
(* step; until: step_until, which waits without a look at the status.      *)
(* change: a software breakpoint is enabled or disabled by the script.     *)
(* gdb: the session migrates; gdb threads: threads start or end meanwhile; *)
(* gdb runs: gdb leaves the process running.                               *)
AllUses == {"leader", "exits", "sudden", "step", "until", "change",
            "gdb", "gdb threads", "gdb runs"}

ASSUME ThreadsAssumption ==
    /\ Main \in Threads /\ NoThread \notin Threads
    /\ Scenarios \subseteq SUBSET AllUses

VARIABLES
    uses,               \* the scenario of this behaviour
    st, stat,           \* kernel: state of a thread; the status a waitpid would return
    sigstop,            \* kernel: threads with SIGSTOP pending
    exiting, doomed,    \* kernel: threads past their exit event; the whole process must exit
    child, options,     \* kernel: the thread that a clone made; the ptrace options are set
    tList,              \* C: the registered threads, t_HEAD first
    threads, dead,      \* Python: the threads in order of registration; those set as dead
    fresh, clobbered,   \* regs in C are the thread's; stale ones were written to a thread
    changed, crashed,   \* a breakpoint change is pending; t_HEAD was NULL when applied
    pc, todo, waitFor,  \* debugger: where it is, threads left in a loop, the waitpid's thread
    results, next,      \* the batch of statuses, and the one to handle
    resume, is_a_step   \* ResumeContext

kernelVars == <<st, stat, sigstop, exiting, doomed, child, options>>
listVars == <<tList, threads, dead>>
regVars == <<fresh, clobbered>>
bpVars == <<changed, crashed>>
loopVars == <<todo, waitFor, results, next>>
resumeVars == <<resume, is_a_step>>
vars == <<uses, kernelVars, listVars, regVars, bpVars, pc, loopVars, resumeVars>>

(* States of a thread.                                                     *)
(* none: does not exist; new: created, its SIGSTOP not yet taken; run;     *)
(* clone: in clone, before its event; stop: in a ptrace-stop; zombie: dead *)
(* and not reaped; gone: reaped; free: alive and not traced.               *)
(* Statuses that waitpid reports.                                          *)
(* nothing: none; stop: SIGSTOP (4991); trap: a SIGTRAP that stops for the *)
(* script; clone, exitev: ptrace events; exit: the death.                  *)

Registered == {tList[i] : i \in DOMAIN tList}
Contexts == {threads[i] : i \in DOMAIN threads}
Alive == {t \in Threads : st[t] \notin {"none", "zombie", "gone"}}
Stopped(t) == st[t] = "stop"

-------------------------------------------------------------------------------
(* The kernel. *)

(* The death of the main thread is reported after all the others are reaped. *)
Waitable(t) ==
    /\ stat[t] # "nothing"
    /\ t = Main /\ stat[t] = "exit" => \A u \in Threads \ {Main} : st[u] \in {"none", "gone"}

(* waitpid has returned the status of t. *)
Reap(t) ==
    /\ stat' = [stat EXCEPT ![t] = "nothing"]
    /\ st' = [st EXCEPT ![t] = IF stat[t] = "exit" THEN "gone" ELSE @]

(* SIGKILL, or the exit of the group, wakes a thread whatever it waits for; *)
(* a status that was not collected is lost.                                 *)
Woken(t) ==
    CASE st[t] \in {"new", "clone", "stop"} -> "run"
      [] st[t] = "free"                     -> "gone"
      [] OTHER                              -> st[t]
WokenStatus(t) == IF st[t] \in {"new", "clone", "stop"} THEN "nothing" ELSE stat[t]

Stop(t, s) ==
    /\ st' = [st EXCEPT ![t] = "stop"]
    /\ stat' = [stat EXCEPT ![t] = s]

UNCHANGED_Debugger == UNCHANGED <<uses, listVars, regVars, bpVars, pc, loopVars, resumeVars>>

(* A clone is reported, and the new thread traced, if the option is set. *)
Clone(t, n) ==
    /\ st[t] = "run" /\ t \notin exiting /\ ~doomed
    /\ st[n] = "none"
    /\ IF options
       THEN /\ st' = [st EXCEPT ![t] = "clone", ![n] = "new"]
            /\ child' = [child EXCEPT ![t] = n]
       ELSE st' = [st EXCEPT ![n] = "free"] /\ UNCHANGED child
    /\ UNCHANGED <<stat, sigstop, exiting, doomed, options>>
    /\ UNCHANGED_Debugger

(* The event of the parent and the first stop of the child: in any order. *)
CloneEvent(t) ==
    /\ st[t] = "clone"
    /\ Stop(t, "clone")
    /\ UNCHANGED <<sigstop, exiting, doomed, child, options>>
    /\ UNCHANGED_Debugger

FirstStop(n) ==
    /\ st[n] = "new"
    /\ Stop(n, "stop")
    /\ UNCHANGED <<sigstop, exiting, doomed, child, options>>
    /\ UNCHANGED_Debugger

TakesSigstop(t) ==
    /\ st[t] = "run" /\ t \in sigstop /\ t \notin exiting /\ ~doomed
    /\ Stop(t, "stop")
    /\ sigstop' = sigstop \ {t}
    /\ UNCHANGED <<exiting, doomed, child, options>>
    /\ UNCHANGED_Debugger

Traps(t) ==
    /\ st[t] = "run" /\ t \notin exiting /\ ~doomed
    /\ Stop(t, "trap")
    /\ UNCHANGED <<sigstop, exiting, doomed, child, options>>
    /\ UNCHANGED_Debugger

MayEnd(t) == t = Main => "leader" \in uses \/ doomed \/ Alive = {Main}

(* A thread ends: an event stop first, its death when it is continued. *)
ExitEvent(t) ==
    /\ st[t] = "run" /\ t \notin exiting /\ options
    /\ MayEnd(t)
    /\ Stop(t, "exitev")
    /\ exiting' = exiting \cup {t}
    /\ UNCHANGED <<sigstop, doomed, child, options>>
    /\ UNCHANGED_Debugger

Dies(t) ==
    /\ st[t] = "run"
    /\ t \in exiting \/ (~options /\ MayEnd(t)) \/ (doomed /\ "sudden" \in uses)
    /\ st' = [st EXCEPT ![t] = "zombie"]
    /\ stat' = [stat EXCEPT ![t] = "exit"]
    /\ UNCHANGED <<sigstop, exiting, doomed, child, options>>
    /\ UNCHANGED_Debugger

(* A thread that is not traced ends on its own. *)
FreeEnds(t) ==
    /\ st[t] = "free" /\ t # Main /\ pc \notin {"gdb", "back"}
    /\ st' = [st EXCEPT ![t] = "gone"]
    /\ UNCHANGED <<stat, sigstop, exiting, doomed, child, options>>
    /\ UNCHANGED_Debugger

GroupEnds ==
    /\ "exits" \in uses /\ ~doomed /\ options
    /\ "sudden" \in uses \/ \A t \in Alive : t \in Registered /\ st[t] = "run"

(* exit_group of t; the others follow from wherever they are. *)
ExitGroup(t) ==
    /\ GroupEnds
    /\ st[t] = "run" /\ t \notin exiting
    /\ st' = [u \in Threads |-> IF u = t THEN "stop" ELSE Woken(u)]
    /\ stat' = [u \in Threads |-> IF u = t THEN "exitev" ELSE WokenStatus(u)]
    /\ exiting' = exiting \cup {t}
    /\ doomed' = TRUE
    /\ UNCHANGED <<sigstop, child, options>>
    /\ UNCHANGED_Debugger

(* SIGKILL from outside. *)
Killed ==
    /\ GroupEnds
    /\ pc \notin {"gdb", "ended"}
    /\ st' = [u \in Threads |-> Woken(u)]
    /\ stat' = [u \in Threads |-> WokenStatus(u)]
    /\ doomed' = TRUE
    /\ UNCHANGED <<sigstop, exiting, child, options>>
    /\ UNCHANGED_Debugger

Kernel ==
    \/ \E t, n \in Threads : Clone(t, n)
    \/ \E t \in Threads : \/ CloneEvent(t) \/ FirstStop(t) \/ TakesSigstop(t) \/ Traps(t)
                          \/ ExitEvent(t) \/ Dies(t) \/ FreeEnds(t) \/ ExitGroup(t)
    \/ Killed

-------------------------------------------------------------------------------
(* wait_all_and_update_regs. *)

UNCHANGED_Thread == UNCHANGED <<exiting, doomed, child, options, uses>>

(* The top of the loop of __threaded_wait; resume_context.resume is set. *)
WaitTop ==
    /\ pc = "top"
    /\ IF Main \in dead
       THEN pc' = "idle" /\ UNCHANGED resume
       ELSE pc' = "wait" /\ resume' = TRUE
    /\ UNCHANGED <<uses, kernelVars, listVars, regVars, bpVars, loopVars, is_a_step>>

(* The blocking waitpid on the group. *)
WaitFirst(t) ==
    /\ pc = "wait"
    /\ Waitable(t) /\ Reap(t)
    /\ results' = <<<<t, stat[t]>>>>
    /\ todo' = tList
    /\ pc' = "stopall"
    /\ UNCHANGED <<sigstop, waitFor, next, listVars, regVars, bpVars, resumeVars>>
    /\ UNCHANGED_Thread

(* There is nothing to wait for: NULL, an empty batch. *)
WaitNone ==
    /\ pc = "wait"
    /\ \A t \in Threads : st[t] \in {"none", "gone", "free"}
    /\ results' = <<>>
    /\ pc' = "decide"
    /\ UNCHANGED <<uses, kernelVars, todo, waitFor, next, listVars, regVars, bpVars, resumeVars>>

(* One thread of the list: the one of the latest status and those whose    *)
(* registers can be read are left alone, the others get a SIGSTOP.         *)
StopNext ==
    /\ pc = "stopall" /\ todo # <<>>
    /\ LET t == Head(todo)
       IN IF t = results[1][1] \/ Stopped(t)
          THEN /\ fresh' = IF t = results[1][1] THEN fresh ELSE fresh \cup {t}
               /\ todo' = Tail(todo)
               /\ UNCHANGED <<sigstop, waitFor, pc>>
          ELSE /\ sigstop' = IF t \in Alive THEN sigstop \cup {t} ELSE sigstop
               /\ waitFor' = t
               /\ pc' = "stopone"
               /\ UNCHANGED <<fresh, todo>>
    /\ UNCHANGED <<st, stat, results, next, clobbered, listVars, bpVars, resumeVars>>
    /\ UNCHANGED_Thread

(* waitpid on that thread: its status, or -1 when it is no more. *)
StopWait ==
    /\ pc = "stopone"
    /\ \/ Waitable(waitFor) /\ Reap(waitFor)
          /\ results' = <<<<waitFor, stat[waitFor]>>>> \o results
       \/ st[waitFor] = "gone" /\ UNCHANGED <<st, stat>>
          /\ results' = <<<<NoThread, "nothing">>>> \o results
    /\ waitFor' = NoThread
    /\ todo' = Tail(todo)
    /\ pc' = "stopall"
    /\ UNCHANGED <<sigstop, next, listVars, regVars, bpVars, resumeVars>>
    /\ UNCHANGED_Thread

(* The statuses that are there already, without blocking. *)
PollOne(t) ==
    /\ pc = "stopall" /\ todo = <<>>
    /\ Waitable(t) /\ Reap(t)
    /\ results' = <<<<t, stat[t]>>>> \o results
    /\ UNCHANGED <<sigstop, todo, waitFor, next, pc, listVars, regVars, bpVars, resumeVars>>
    /\ UNCHANGED_Thread

(* Mutant: only the threads that were found stopped have their registers read. *)
PollEndNoRegs ==
    /\ pc = "stopall" /\ todo = <<>>
    /\ ~ \E t \in Threads : Waitable(t)
    /\ next' = 1
    /\ pc' = "handle"
    /\ UNCHANGED <<st, stat, sigstop, todo, waitFor, results, regVars, listVars, bpVars, resumeVars>>
    /\ UNCHANGED_Thread

(* No status is left: the registers of all registered threads are read.    *)
(* The batch is handed to manage_change, latest status first.              *)
PollEnd ==
    /\ pc = "stopall" /\ todo = <<>>
    /\ ~ \E t \in Threads : Waitable(t)
    /\ fresh' = fresh \cup {t \in Registered : Stopped(t)}
    /\ next' = 1
    /\ pc' = "handle"
    /\ UNCHANGED <<st, stat, sigstop, todo, waitFor, results, clobbered, listVars, bpVars, resumeVars>>
    /\ UNCHANGED_Thread

-------------------------------------------------------------------------------
(* manage_change and _handle_change. *)

(* get_thread_by_id *)
Known(t) == t \in Contexts \ dead

(* register_thread and unregister_thread in C, insert_new_thread and       *)
(* set_thread_as_dead in Python: the lists afterwards.                     *)
RegisterThread(n) == IF n \in Registered THEN tList ELSE <<n>> \o tList
UnregisterThread(t) == RemoveFirst(tList, t)
InsertNewThread(n) == Append(threads, n)
SetThreadAsDead(t) == dead \cup {t}

(* Mutant: the end of the list in C as well. *)
RegisterLast(n) ==
    /\ tList' = IF n \in Registered THEN tList ELSE Append(tList, n)
    /\ threads' = Append(threads, n)
    /\ fresh' = IF Stopped(n) THEN fresh \cup {n} ELSE fresh

(* register_new_thread: the front of the list in C, the end of the list in *)
(* Python.                                                                 *)
Register(n) ==
    /\ tList' = RegisterThread(n)
    /\ threads' = InsertNewThread(n)
    /\ fresh' = IF Stopped(n) THEN fresh \cup {n} ELSE fresh

(* unregister_thread *)
Unregister(t) ==
    /\ tList' = UnregisterThread(t)
    /\ dead' = SetThreadAsDead(t)

(* _handle_breakpoints and the step: what a SIGTRAP of t, of any event,    *)
(* says about resuming.                                                    *)
TrapResumes(t, s) ==
    /\ resume' = (resume /\ Known(t) /\ ~is_a_step /\ s # "trap")
    /\ is_a_step' = FALSE

HandleIgnored ==
    /\ pc = "handle" /\ next <= Len(results)
    /\ results[next][1] = NoThread \/ results[next][2] = "stop"
    /\ next' = next + 1
    /\ UNCHANGED <<uses, kernelVars, listVars, regVars, bpVars, pc, todo, waitFor, results, resumeVars>>

HandleTrap ==
    /\ pc = "handle" /\ next <= Len(results)
    /\ results[next][2] \in {"trap", "exitev"}
    /\ TrapResumes(results[next][1], results[next][2])
    /\ next' = next + 1
    /\ UNCHANGED <<uses, kernelVars, listVars, regVars, bpVars, pc, todo, waitFor, results>>

(* Mutant: the death is not recorded. *)
HandleExitForgets ==
    /\ pc = "handle" /\ next <= Len(results)
    /\ results[next][2] = "exit"
    /\ next' = next + 1
    /\ UNCHANGED <<uses, kernelVars, listVars, regVars, bpVars, pc, todo, waitFor, results, resumeVars>>

HandleExit ==
    /\ pc = "handle" /\ next <= Len(results)
    /\ results[next][2] = "exit"
    /\ IF Known(results[next][1])
       THEN Unregister(results[next][1])
       ELSE UNCHANGED <<tList, dead>>
    /\ next' = next + 1
    /\ UNCHANGED <<uses, kernelVars, threads, regVars, bpVars, pc, todo, waitFor, results, resumeVars>>

(* Mutants: a first stop of the batch is waited for again; one that is not *)
(* in the batch is not waited for.                                         *)
HandleCloneAlwaysWaits ==
    /\ pc = "handle" /\ next <= Len(results)
    /\ results[next][2] = "clone"
    /\ TrapResumes(results[next][1], "clone")
    /\ waitFor' = child[results[next][1]]
    /\ pc' = "waitnew"
    /\ UNCHANGED <<st, stat, sigstop, next, todo, results, listVars, regVars, bpVars>>
    /\ UNCHANGED_Thread

HandleCloneNeverWaits ==
    /\ pc = "handle" /\ next <= Len(results)
    /\ results[next][2] = "clone"
    /\ LET n == child[results[next][1]]
       IN /\ TrapResumes(results[next][1], "clone")
          /\ IF <<n, "stop">> \in {results[i] : i \in DOMAIN results}
             THEN Register(n) ELSE UNCHANGED <<tList, threads, fresh>>
    /\ next' = next + 1
    /\ UNCHANGED <<st, stat, sigstop, waitFor, pc, todo, results, dead, clobbered, bpVars>>
    /\ UNCHANGED_Thread

(* _handle_clone: the new thread is registered at once if its first stop   *)
(* is in the batch; otherwise it is waited for.  Without an event message  *)
(* (the parent is no longer in its stop) os.waitpid raises.                *)
HandleClone ==
    /\ pc = "handle" /\ next <= Len(results)
    /\ results[next][2] = "clone"
    /\ LET t == results[next][1]
           n == child[t]
       IN /\ TrapResumes(t, "clone")
          /\ \/ /\ ~Stopped(t) \/ t \in exiting
                /\ pc' = "raised"
                /\ UNCHANGED <<next, waitFor, tList, threads, fresh>>
             \/ /\ Stopped(t) /\ t \notin exiting
                /\ <<n, "stop">> \in {results[i] : i \in DOMAIN results}
                /\ Register(n)
                /\ next' = next + 1
                /\ UNCHANGED <<waitFor, pc>>
             \/ /\ Stopped(t) /\ t \notin exiting
                /\ <<n, "stop">> \notin {results[i] : i \in DOMAIN results}
                /\ waitFor' = n
                /\ pc' = "waitnew"
                /\ UNCHANGED <<next, tList, threads, fresh>>
    /\ UNCHANGED <<st, stat, sigstop, todo, results, dead, clobbered, bpVars>>
    /\ UNCHANGED_Thread

WaitNew ==
    /\ pc = "waitnew"
    /\ \/ Waitable(waitFor) /\ Reap(waitFor) /\ Register(waitFor)
          /\ next' = next + 1 /\ pc' = "handle"
       \/ st[waitFor] = "gone" /\ pc' = "raised"
          /\ UNCHANGED <<st, stat, next, tList, threads, fresh>>
    /\ waitFor' = NoThread
    /\ UNCHANGED <<sigstop, todo, results, dead, clobbered, bpVars, resumeVars>>
    /\ UNCHANGED_Thread

HandleEnd ==
    /\ pc = "handle" /\ next > Len(results)
    /\ results' = <<>> /\ next' = 1
    /\ pc' = "decide"
    /\ UNCHANGED <<uses, kernelVars, listVars, regVars, bpVars, todo, waitFor, resumeVars>>

-------------------------------------------------------------------------------
(* cont, and what else gives the threads their registers back. *)

(* SETREGS on every thread of the list: it fails on one that is not        *)
(* stopped, and does no harm to one on its way out.                        *)
FlushRegs ==
    clobbered' = (clobbered \/ \E t \in Registered \ exiting : Stopped(t) /\ t \notin fresh)

(* The threads of a set go on. *)
Resumed(S) ==
    /\ st' = [t \in Threads |-> IF t \in S /\ Stopped(t) THEN "run" ELSE st[t]]
    /\ stat' = [t \in Threads |-> IF t \in S /\ Stopped(t) THEN "nothing" ELSE stat[t]]
    /\ fresh' = fresh \ {t \in S : Stopped(t)}

(* PtraceInterface.cont: pending changes of breakpoints go through the     *)
(* first thread of the list.                                               *)
Cont ==
    /\ crashed' = (crashed \/ (changed /\ tList = <<>>))
    /\ changed' = FALSE
    /\ FlushRegs
    /\ Resumed(Registered)
    /\ pc' = IF crashed' THEN "ended" ELSE "top"
    /\ UNCHANGED <<sigstop, loopVars, listVars, resumeVars>>
    /\ UNCHANGED_Thread

Decide ==
    /\ pc = "decide"
    /\ \/ resume /\ Cont
       \/ ~resume /\ pc' = "idle"
          /\ UNCHANGED <<uses, kernelVars, listVars, regVars, bpVars, loopVars, resumeVars>>

-------------------------------------------------------------------------------
(* What the script does while the process is stopped. *)

ScriptCont == pc = "idle" /\ Main \notin dead /\ Cont

(* enable or disable of a breakpoint: applied by the next cont. *)
ScriptChange ==
    /\ pc = "idle" /\ "change" \in uses /\ Main \notin dead /\ ~changed
    /\ changed' = TRUE
    /\ UNCHANGED <<uses, kernelVars, listVars, regVars, crashed, pc, loopVars, resumeVars>>

(* step: SETREGS on all threads, one instruction of one of them. *)
ScriptStep(t) ==
    /\ pc = "idle" /\ "step" \in uses
    /\ Main \notin dead /\ Known(t)
    /\ FlushRegs
    /\ Resumed({t} \cap Registered)
    /\ IF Stopped(t)
       THEN pc' = "top" /\ is_a_step' = TRUE
       ELSE pc' = "raised" /\ UNCHANGED is_a_step
    /\ UNCHANGED <<sigstop, loopVars, listVars, bpVars, resume>>
    /\ UNCHANGED_Thread

(* step_until: the statuses of the thread are read and dropped. *)
ScriptUntil(t) ==
    /\ pc = "idle" /\ "until" \in uses
    /\ Main \notin dead /\ Known(t)
    /\ FlushRegs
    /\ Resumed({t} \cap Registered)
    /\ IF Stopped(t)
       THEN pc' = "until" /\ waitFor' = t
       ELSE pc' = "raised" /\ UNCHANGED waitFor
    /\ UNCHANGED <<sigstop, todo, results, next, listVars, bpVars, resumeVars>>
    /\ UNCHANGED_Thread

(* After each step the address has been reached, or the thread steps again; *)
(* a thread that is no more cannot, and the call raises.                    *)
UntilStep ==
    /\ pc = "until" /\ Waitable(waitFor)
    /\ stat' = [stat EXCEPT ![waitFor] = "nothing"]
    /\ IF stat[waitFor] = "exit"
       THEN /\ st' = [st EXCEPT ![waitFor] = "gone"]
            /\ pc' = "idle" /\ UNCHANGED fresh
       ELSE \/ pc' = "idle" /\ fresh' = fresh \cup {waitFor} /\ UNCHANGED st
            \/ st' = [st EXCEPT ![waitFor] = "run"] /\ UNCHANGED <<pc, fresh>>
    /\ waitFor' = IF pc' = "idle" THEN NoThread ELSE waitFor
    /\ UNCHANGED <<sigstop, clobbered, todo, results, next, listVars, bpVars, resumeVars>>
    /\ UNCHANGED_Thread

(* kill: ptrace_detach_for_kill, thread by thread. *)
ScriptKill ==
    /\ pc = "idle"
    /\ todo' = tList
    /\ pc' = "killing"
    /\ UNCHANGED <<uses, kernelVars, listVars, regVars, bpVars, waitFor, results, next, resumeVars>>

(* PTRACE_DETACH and SIGKILL.  What a detached thread leaves is for its    *)
(* process alone, except the main thread, whose parent is the debugger.    *)
DetachKill(t) ==
    LET ended(u) == u = t /\ st[u] \in {"stop", "run"}
    IN /\ st' = [u \in Threads |->
                    IF ended(u) THEN IF u = Main THEN "zombie" ELSE "gone" ELSE Woken(u)]
       /\ stat' = [u \in Threads |->
                    IF ended(u) THEN IF u = Main THEN "exit" ELSE "nothing" ELSE WokenStatus(u)]
       /\ doomed' = TRUE
       /\ todo' = Tail(todo)

KillStopped ==
    /\ pc = "killing" /\ todo # <<>>
    /\ Stopped(Head(todo)) /\ DetachKill(Head(todo))
    /\ UNCHANGED <<sigstop, exiting, child, options, pc, waitFor, results, next>>
    /\ UNCHANGED <<uses, listVars, regVars, bpVars, resumeVars>>

KillRunning ==
    /\ pc = "killing" /\ todo # <<>>
    /\ ~Stopped(Head(todo))
    /\ sigstop' = IF Head(todo) \in Alive THEN sigstop \cup {Head(todo)} ELSE sigstop
    /\ waitFor' = Head(todo)
    /\ pc' = "killwait"
    /\ UNCHANGED <<uses, st, stat, exiting, doomed, child, options>>
    /\ UNCHANGED <<todo, results, next, listVars, regVars, bpVars, resumeVars>>

KillWaited ==
    /\ pc = "killwait"
    /\ \/ Waitable(waitFor) /\ stat[waitFor] # "exit" /\ DetachKill(waitFor)
       \/ Waitable(waitFor) /\ stat[waitFor] = "exit" /\ Reap(waitFor)
          /\ todo' = Tail(todo) /\ UNCHANGED doomed
       \/ st[waitFor] = "gone" /\ todo' = Tail(todo) /\ UNCHANGED <<st, stat, doomed>>
    /\ waitFor' = NoThread
    /\ pc' = "killing"
    /\ UNCHANGED <<uses, sigstop, exiting, child, options, results, next, listVars, regVars, bpVars, resumeVars>>

(* The last waitpid, on the process. *)
KillEnd ==
    /\ pc = "killing" /\ todo = <<>>
    /\ \/ Waitable(Main) /\ Reap(Main)
       \/ st[Main] = "gone" /\ UNCHANGED <<st, stat>>
    /\ pc' = "ended"
    /\ UNCHANGED <<sigstop, loopVars, listVars, regVars, bpVars, resumeVars>>
    /\ UNCHANGED_Thread

(* ptrace_detach_for_migration: registers back, SIGSTOP, PTRACE_DETACH. *)
DetachAll ==
    /\ FlushRegs
    /\ st' = [t \in Threads |-> IF t \in Registered /\ Stopped(t) THEN "free" ELSE st[t]]
    /\ stat' = [t \in Threads |-> IF t \in Registered /\ Stopped(t) THEN "nothing" ELSE stat[t]]
    /\ fresh' = {}

(* detach: the process also gets SIGCONT. *)
ScriptDetach ==
    /\ pc = "idle" /\ ~doomed /\ Main \notin dead
    /\ \A t \in Registered : Stopped(t)
    /\ DetachAll
    /\ pc' = "ended"
    /\ UNCHANGED <<sigstop, loopVars, listVars, bpVars, resumeVars>>
    /\ UNCHANGED_Thread

ScriptGdb ==
    /\ pc = "idle" /\ "gdb" \in uses /\ ~doomed /\ Main \notin dead
    /\ \A t \in Registered : Stopped(t)
    /\ DetachAll
    /\ pc' = "gdb"
    /\ UNCHANGED <<sigstop, loopVars, listVars, bpVars, resumeVars>>
    /\ UNCHANGED_Thread

(* External: what gdb does to the threads. *)
GdbSession ==
    /\ pc = "gdb"
    /\ \/ UNCHANGED st
       \/ /\ "gdb threads" \in uses
          /\ \E t \in Threads \ {Main} :
                \/ st[t] = "free" /\ st' = [st EXCEPT ![t] = "gone"]
                \/ st[t] = "none" /\ st' = [st EXCEPT ![t] = "free"]
    /\ pc' = "back"
    /\ UNCHANGED <<stat, sigstop, loopVars, listVars, regVars, bpVars, resumeVars>>
    /\ UNCHANGED_Thread

(* ptrace_reattach_from_gdb: PTRACE_ATTACH, and GETREGS at once.  A thread *)
(* that gdb left stopped is traced and stopped by then; one that runs will *)
(* stop some time after.  The options are not set again.                   *)
Reattach(late) ==
    /\ st' = [t \in Threads |->
          IF t \in late THEN "run"
          ELSE IF t \in Registered /\ st[t] = "free" THEN "stop" ELSE st[t]]
    /\ stat' = [t \in Threads |->
          IF t \in Registered \ late /\ st[t] = "free" THEN "stop" ELSE stat[t]]
    /\ sigstop' = sigstop \cup late
    /\ fresh' = {t \in Registered \ late : st[t] = "free"}
    /\ options' = FALSE

(* check_for_new_threads calls register_new_thread, with an argument too   *)
(* many, for the threads that it finds.                                    *)
NewThreads == {t \in Alive : ~Known(t)}

(* migrate_from_gdb *)
GdbBack ==
    /\ pc = "back"
    /\ \E late \in SUBSET {t \in Registered : st[t] = "free" /\ "gdb runs" \in uses} : Reattach(late)
    /\ pc' = IF NewThreads # {} THEN "raised" ELSE "idle"
    /\ UNCHANGED <<uses, exiting, doomed, child, clobbered, loopVars, listVars, bpVars, resumeVars>>

(* The session is over, or an exception left the batch half handled. *)
Ended == pc \in {"ended", "raised"} /\ UNCHANGED vars

-------------------------------------------------------------------------------
Wait == \/ WaitTop \/ WaitNone \/ StopNext \/ StopWait \/ PollEnd
        \/ \E t \in Threads : WaitFirst(t) \/ PollOne(t)

Handle == HandleIgnored \/ HandleTrap \/ HandleExit \/ HandleClone \/ WaitNew \/ HandleEnd \/ Decide

Script == \/ ScriptCont \/ ScriptChange \/ ScriptKill \/ ScriptDetach \/ ScriptGdb
          \/ \E t \in Threads : ScriptStep(t) \/ ScriptUntil(t)
          \/ UntilStep \/ KillStopped \/ KillRunning \/ KillWaited \/ KillEnd
          \/ GdbSession \/ GdbBack

(* The process has been started: one thread, stopped. *)
Init ==
    /\ uses \in Scenarios
    /\ st = [t \in Threads |-> IF t = Main THEN "stop" ELSE "none"]
    /\ stat = [t \in Threads |-> "nothing"]
    /\ sigstop = {} /\ exiting = {} /\ doomed = FALSE
    /\ child = [t \in Threads |-> NoThread] /\ options = TRUE
    /\ tList = <<Main>> /\ threads = <<Main>> /\ dead = {}
    /\ fresh = {Main} /\ clobbered = FALSE
    /\ changed = FALSE /\ crashed = FALSE
    /\ pc = "idle" /\ todo = <<>> /\ waitFor = NoThread
    /\ results = <<>> /\ next = 1
    /\ resume = TRUE /\ is_a_step = FALSE

Next == Kernel \/ Wait \/ Handle \/ Script \/ Ended

Spec == Init /\ [][Next]_vars

-------------------------------------------------------------------------------
(* Properties. *)

(* The list in C is that of the live ThreadContexts, newest first, and no  *)
(* thread is in a list twice: so the main thread is the last to be         *)
(* detached ("the main thread must be detached last"), and forward_signal  *)
(* finds every thread that its cursor meets (its loop does not advance     *)
(* past an unknown one).                                                   *)
ListsAgree ==
    /\ Registered = Contexts \ dead
    /\ \A i, j \in DOMAIN tList : \A k, l \in DOMAIN threads :
          i < j /\ tList[i] = threads[k] /\ tList[j] = threads[l] => l < k
    /\ \A k, l \in DOMAIN threads : threads[k] = threads[l] => k = l

(* When the script has the process, every traced thread is registered and  *)
(* stopped ("they are either all stopped or all running"; "the new thread  *)
(* is automatically traced and registered"), in whatever order clone       *)
(* events, first stops and deaths were reported; and when the main thread  *)
(* is dead no thread is left ("All threads are dead").                     *)
AllStopped ==
    pc = "idle" =>
        /\ ~doomed /\ uses \cap {"until", "gdb"} = {} =>
              \A t \in Alive : Stopped(t) /\ t \in Registered
        /\ Main \in dead /\ uses \cap {"until", "sudden", "gdb threads"} = {} => tList = <<>>

(* The thread of a waitpid that blocks. *)
Blocked == IF pc = "killing" /\ todo = <<>> THEN Main ELSE waitFor

(* Nothing it waits for will ever be reported. *)
Stuck(t) ==
    \/ Stopped(t) /\ stat[t] = "nothing"
    \/ /\ st[t] = "zombie" /\ ~Waitable(t)
       /\ \A u \in Threads \ {t} : st[u] \in {"none", "gone", "zombie", "stop"}

(* The debugger never blocks in a waitpid that cannot be answered, nor     *)
(* waits in a loop for a process that is gone.  Left aside: the main       *)
(* thread ends first, on its own or because the script steps it past its   *)
(* exit event while the others are kept stopped.                           *)
WaitsAnswered ==
    /\ uses \cap {"leader", "sudden", "until"} = {}
    /\ ~({"exits", "step"} \subseteq uses)
    =>
        /\ Blocked # NoThread => ~Stuck(Blocked)
        /\ pc = "wait" => \E t \in Threads : Waitable(t) \/ st[t] \in {"run", "new", "clone"}

(* Registers that are written to a thread were read since it last ran.     *)
NoStaleWrite == "gdb runs" \notin uses => ~clobbered

(* A batch of statuses is handled to its end and a step finds its thread   *)
(* stopped: neither raises.  A pending change of a breakpoint is applied   *)
(* through the first thread of the list in C: there is one.                *)
NothingRaises ==
    /\ uses \cap {"sudden", "until", "gdb"} = {} => pc # "raised"
    /\ ~({"change", "step"} \subseteq uses) => ~crashed
===============================================================================
