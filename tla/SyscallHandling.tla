---------------------------- MODULE SyscallHandling ----------------------------
(***************************************************************************)
(* Syscall handlers: how PtraceStatusHandler decides, at a syscall stop of *)
(* a thread, whether the syscall is being entered or left, which callbacks *)
(* run, and how one syscall is hijacked to another.                        *)
(*                                                                         *)
(* The kernel reports an entry stop and then an exit stop, and does not    *)
(* say which is which.  The code keeps _has_entered in the handler, so one *)
(* flag serves all the threads.                                            *)
(***************************************************************************)
EXTENDS Naturals, Sequences, FiniteSets

CONSTANTS Syscalls,
          Threads,
          None,
          Scenarios  \* sets of what script and program do, each a part of AllUses

(* toggle: enables and disables handlers; pprint: turns pretty printing on *)
(* and off; inside: does so, or overrides a handler, while a thread is     *)
(* stopped in a syscall concerned; step: single-steps out of a syscall;    *)
(* same: two threads are in one syscall; no return: a syscall that ends    *)
(* its thread.                                                             *)
AllUses == {"toggle", "pprint", "inside", "step", "same", "no return"}

ASSUME SyscallsAssumption ==
    /\ None \notin Syscalls
    /\ \A u \in Scenarios : u \subseteq AllUses
    /\ IsFiniteSet(Syscalls)

VARIABLES
    uses,              \* what script and program do in this behavior
    handled_syscalls,  \* the dictionary of SyscallHandlers
    inside,            \* syscall number of a thread between entry and exit
    diverted,          \* threads brought there by a non-recursive hijack
    alive,
    mode,              \* "stopped", "running", "reporting" or "error"
    head, pending,     \* the threads whose statuses wait() has to look at
    resume,            \* resume_context.resume
    handle_syscall_enabled,
    ran                \* what the last syscall stop executed

vars == <<uses, handled_syscalls, inside, diverted, alive, mode, head, pending, resume,
          handle_syscall_enabled, ran>>

(* on_enter is the number that the thread has after the callback: its own  *)
(* for a callback that only looks, another one for a hijack.               *)
NewHandler(enter, exit, pp, rec, on) ==
    [on_enter |-> enter, on_exit |-> exit, pprint |-> pp, recursive |-> rec, enabled |-> on,
     has_entered |-> FALSE, skip_exit |-> FALSE]

Nothing == [stop |-> "none", thread |-> None, asked |-> None, called |-> << >>]

Handled(n) == n \in DOMAIN handled_syscalls
WithoutCallback(h) == h.on_enter = None /\ ~h.on_exit
Put(n, h) == [m \in DOMAIN handled_syscalls \cup {n} |->
                 IF m = n THEN h ELSE handled_syscalls[m]]
Occupied(n) == \E t \in Threads : inside[t] = n

-------------------------------------------------------------------------------
(* What the script does while the process is stopped. *)

ScriptMay(n) ==
    /\ mode = "stopped"
    /\ "inside" \in uses \/ ~Occupied(n)

ScriptKeeps == UNCHANGED <<inside, diverted, alive, mode, head, pending, resume,
                           handle_syscall_enabled>> /\ ran' = Nothing

(* handle_syscall and hijack_syscall: an existing handler is overridden    *)
(* and keeps the state it is in.                                           *)
SetUserCallbacks(n, enter, exit, rec) ==
    Put(n, IF Handled(n)
           THEN [handled_syscalls[n] EXCEPT !.on_enter = enter, !.on_exit = exit,
                                            !.recursive = rec, !.enabled = TRUE]
           ELSE NewHandler(enter, exit, FALSE, rec, TRUE))

HandleSyscall(n, exit, rec) ==
    /\ ScriptMay(n)
    /\ \E enter \in {None, n} : handled_syscalls' = SetUserCallbacks(n, enter, exit, rec)
    /\ ScriptKeeps

HijackSyscall(n, m, rec) ==
    /\ ScriptMay(n)
    /\ n # m
    /\ handled_syscalls' = SetUserCallbacks(n, m, FALSE, rec)
    /\ ScriptKeeps

(* SyscallHandler.enable and disable *)
Toggle(n, on) ==
    /\ "toggle" \in uses
    /\ \A m \in Syscalls : ScriptMay(m)
    /\ Handled(n)
    /\ handled_syscalls' = [handled_syscalls EXCEPT ![n].enabled = on, ![n].has_entered = FALSE]
    /\ ScriptKeeps

(* enable_pretty_print with the selection P. *)
EnablePrettyPrint(P) ==
    /\ "pprint" \in uses
    /\ \A n \in Syscalls : ScriptMay(n)
    /\ handled_syscalls' =
          [n \in DOMAIN handled_syscalls \cup P |->
              IF Handled(n) THEN [handled_syscalls[n] EXCEPT !.pprint = n \in P]
              ELSE NewHandler(None, FALSE, TRUE, FALSE, FALSE)]
    /\ ScriptKeeps

DisablePrettyPrint ==
    /\ "pprint" \in uses
    /\ \A n \in Syscalls : ScriptMay(n)
    /\ LET kept == {n \in DOMAIN handled_syscalls :
                       ~(handled_syscalls[n].pprint /\ WithoutCallback(handled_syscalls[n]))}
       IN  handled_syscalls' = [n \in kept |-> [handled_syscalls[n] EXCEPT !.pprint = FALSE]]
    /\ ScriptKeeps

(* A single step leaves the syscall without an exit stop. *)
Step(t) ==
    /\ "step" \in uses
    /\ mode = "stopped"
    /\ inside[t] # None
    /\ inside' = [inside EXCEPT ![t] = None]
    /\ diverted' = diverted \ {t}
    /\ ran' = Nothing
    /\ UNCHANGED <<handled_syscalls, alive, mode, head, pending, resume, handle_syscall_enabled>>

-------------------------------------------------------------------------------
(* cont: syscall stops are asked for only if some handler needs them.      *)

Wanted(H) == \E n \in DOMAIN H : H[n].enabled \/ H[n].pprint

Resuming(H, in) ==
    /\ mode' = "running"
    /\ handle_syscall_enabled' = Wanted(H)
    /\ inside' = IF Wanted(H) THEN in ELSE [t \in Threads |-> None]

Cont ==
    /\ mode = "stopped"
    /\ Resuming(handled_syscalls, inside)
    /\ ran' = Nothing
    /\ UNCHANGED <<handled_syscalls, diverted, alive, head, pending, resume>>

(* wait: the first thread to stop is reported last; all the others are     *)
(* stopped as well and reported before it.                                 *)
Wait(h) ==
    /\ mode = "running"
    /\ h \in alive
    /\ mode' = "reporting"
    /\ head' = h
    /\ pending' = alive \ {h}
    /\ resume' = TRUE
    /\ ran' = Nothing
    /\ UNCHANGED <<handled_syscalls, inside, diverted, alive, handle_syscall_enabled>>

-------------------------------------------------------------------------------
(* The decision at a syscall stop. *)

(* Mutant: a handler that only prints does not note the entry. *)
MarksEnteredUserOnly(h) == h.on_exit \/ h.enabled

(* A handler whose on_enter does not run has something to do at the exit. *)
MarksEntered(h) == h.pprint \/ h.on_exit \/ h.enabled

(* Mutant: the new syscall is handled whatever the flag says. *)
AlwaysRecursive(h) == TRUE

RunsHandlerOfNew(h) == h.recursive

(* Mutant: the set of hijacked syscalls starts empty. *)
NoHijackedYet(n) == {}

HijackedSet(n) == {n}

(* What an entry comes to.  num: the number of the syscall at the end;     *)
(* called: the syscalls whose on_enter ran; entered and skip: the handlers *)
(* that get _has_entered and _skip_exit.                                   *)
Outcome(num, called, entered, skip, stop, loop) ==
    [num |-> num, called |-> called, entered |-> entered, skip |-> skip,
     stop |-> stop, loop |-> loop]

(* _manage_syscall_on_enter, manage being its call of itself: the callback *)
(* of n may make it m, whose handler then runs too if that of n is         *)
(* recursive; a syscall met before in the chain is an error.               *)
OnEnter(manage, n, hijacked_set) ==
    LET h == handled_syscalls[n]
        m == h.on_enter
    IN  IF ~h.enabled \/ m = None
        THEN Outcome(n, << >>, IF MarksEntered(h) THEN {n} ELSE {}, {},
                     WithoutCallback(h) /\ h.enabled, FALSE)
        ELSE IF m = n THEN Outcome(n, <<n>>, {n}, {}, FALSE, FALSE)
        ELSE IF ~Handled(m) THEN Outcome(m, <<n>>, {}, {}, FALSE, FALSE)
        ELSE IF ~RunsHandlerOfNew(h) THEN Outcome(m, <<n>>, {m}, {m}, FALSE, FALSE)
        ELSE IF m \in hijacked_set THEN Outcome(m, <<n>>, {}, {}, FALSE, TRUE)
        ELSE LET rest == manage[<<m, hijacked_set \cup {m}>>]
             IN  [rest EXCEPT !.called = <<n>> \o rest.called]

ManageOnEnter(start) ==
    LET manage[p \in Syscalls \X SUBSET Syscalls] == OnEnter(manage, p[1], p[2])
    IN  manage[<<start, HijackedSet(start)>>]

(* _handle_syscall on a thread whose number is n: what it runs, and the    *)
(* handlers afterwards.                                                    *)
AsEnter(n) ==
    LET r == ManageOnEnter(n)
    IN  [num |-> r.num, stop |-> r.stop, loop |-> r.loop,
         called |-> [i \in DOMAIN r.called |-> <<"on_enter", r.called[i]>>],
         after |-> [k \in DOMAIN handled_syscalls |->
                       [handled_syscalls[k] EXCEPT !.has_entered = @ \/ k \in r.entered,
                                                   !.skip_exit = @ \/ k \in r.skip]]]

(* Mutant: _skip_exit is not looked at. *)
AsExitIgnoreSkip(n) ==
    LET h == handled_syscalls[n]
    IN  [num |-> n, stop |-> WithoutCallback(h) /\ h.enabled, loop |-> FALSE,
         called |-> IF h.on_exit /\ h.enabled THEN <<<<"on_exit", n>>>> ELSE << >>,
         after |-> [handled_syscalls EXCEPT ![n].has_entered = FALSE, ![n].skip_exit = FALSE]]

(* Mutant: only the entry stops for the script. *)
AsExitNoStop(n) ==
    LET h == handled_syscalls[n]
    IN  [num |-> n, stop |-> FALSE, loop |-> FALSE,
         called |-> IF h.on_exit /\ h.enabled /\ ~h.skip_exit THEN <<<<"on_exit", n>>>> ELSE << >>,
         after |-> [handled_syscalls EXCEPT ![n].has_entered = FALSE, ![n].skip_exit = FALSE]]

AsExit(n) ==
    LET h == handled_syscalls[n]
    IN  [num |-> n, stop |-> WithoutCallback(h) /\ h.enabled, loop |-> FALSE,
         called |-> IF h.on_exit /\ h.enabled /\ ~h.skip_exit THEN <<<<"on_exit", n>>>> ELSE << >>,
         after |-> [handled_syscalls EXCEPT ![n].has_entered = FALSE, ![n].skip_exit = FALSE]]

HandleSyscallStop(n) ==
    IF ~Handled(n)
    THEN [num |-> n, stop |-> FALSE, loop |-> FALSE, called |-> << >>, after |-> handled_syscalls]
    ELSE IF handled_syscalls[n].has_entered THEN AsExit(n) ELSE AsEnter(n)

-------------------------------------------------------------------------------
(* One thread is reported. *)

MayReport(t) ==
    /\ mode = "reporting"
    /\ IF pending = {} THEN t = head ELSE t \in pending

(* After the head the process is resumed or left to the script. *)
Reported(t, H, in, res) ==
    /\ handled_syscalls' = H
    /\ resume' = res
    /\ pending' = pending \ {t}
    /\ UNCHANGED head
    /\ IF t # head THEN inside' = in /\ UNCHANGED <<mode, handle_syscall_enabled>>
       ELSE IF res THEN Resuming(H, in)
       ELSE inside' = in /\ mode' = "stopped" /\ UNCHANGED handle_syscall_enabled

(* The exception ends the report. *)
Failed(H, in) ==
    /\ handled_syscalls' = H
    /\ inside' = in
    /\ mode' = "error"
    /\ UNCHANGED <<head, pending, resume, handle_syscall_enabled>>

(* The last callback was that of a non-recursive hijack to a handled syscall. *)
Diverts(r) ==
    /\ r.called # << >> /\ Handled(r.num)
    /\ LET last == r.called[Len(r.called)][2]
       IN  last # r.num /\ ~handled_syscalls[last].recursive

EnterStop(t, n) ==
    LET r == HandleSyscallStop(n)
        in == [inside EXCEPT ![t] = r.num]
    IN  /\ MayReport(t)
        /\ inside[t] = None
        /\ handle_syscall_enabled
        /\ "same" \in uses \/ \A u \in Threads \ {t} : inside[u] \notin {n, r.num}
        /\ IF r.loop THEN Failed(r.after, in) ELSE Reported(t, r.after, in, resume /\ ~r.stop)
        /\ ran' = [stop |-> "enter", thread |-> t, asked |-> n, called |-> r.called]
        /\ diverted' = IF Diverts(r) THEN diverted \cup {t} ELSE diverted \ {t}
        /\ UNCHANGED alive

ExitStop(t) ==
    LET n == inside[t]
        r == HandleSyscallStop(n)
        in == [inside EXCEPT ![t] = None]
    IN  /\ MayReport(t)
        /\ n # None
        /\ IF r.loop THEN Failed(r.after, in) ELSE Reported(t, r.after, in, resume /\ ~r.stop)
        /\ ran' = [stop |-> "exit", thread |-> t, asked |-> n, called |-> r.called]
        /\ UNCHANGED <<alive, diverted>>

(* A thread outside any syscall stops for another reason: the SIGSTOP that *)
(* stops all the threads, a breakpoint, a signal.                          *)
OtherStop(t) ==
    /\ MayReport(t)
    /\ inside[t] = None
    /\ \E res \in {resume, FALSE} : Reported(t, handled_syscalls, inside, res)
    /\ ran' = Nothing
    /\ UNCHANGED <<alive, diverted>>

(* The syscall ends its thread: no exit stop, and the handlers are not     *)
(* told.  The main thread (the last one alive) is not considered.          *)
NoReturn(t) ==
    /\ "no return" \in uses
    /\ MayReport(t)
    /\ inside[t] # None
    /\ alive # {t}
    /\ alive' = alive \ {t}
    /\ diverted' = diverted \ {t}
    /\ Reported(t, handled_syscalls, [inside EXCEPT ![t] = None], resume)
    /\ ran' = Nothing

-------------------------------------------------------------------------------
Init ==
    /\ uses \in Scenarios
    /\ handled_syscalls = [n \in {} |-> NewHandler(None, FALSE, FALSE, FALSE, FALSE)]
    /\ inside = [t \in Threads |-> None]
    /\ diverted = {}
    /\ alive = Threads
    /\ mode = "stopped"
    /\ head \in Threads
    /\ pending = {}
    /\ resume = FALSE
    /\ handle_syscall_enabled = FALSE
    /\ ran = Nothing

Actions ==
    \/ \E n \in Syscalls, exit, rec \in BOOLEAN : HandleSyscall(n, exit, rec)
    \/ \E n, m \in Syscalls, rec \in BOOLEAN : HijackSyscall(n, m, rec)
    \/ \E n \in Syscalls, on \in BOOLEAN : Toggle(n, on)
    \/ \E P \in SUBSET Syscalls : EnablePrettyPrint(P)
    \/ DisablePrettyPrint
    \/ Cont
    \/ \E t \in Threads : Step(t) \/ Wait(t) \/ ExitStop(t) \/ OtherStop(t) \/ NoReturn(t)
    \/ \E t \in Threads, n \in Syscalls : EnterStop(t, n)

Next == Actions /\ UNCHANGED uses

Spec == Init /\ [][Next]_vars

-------------------------------------------------------------------------------
(* Properties. *)

(* What a script, and a program with several threads, must refrain from. *)
Careful == uses \subseteq {"toggle", "pprint"}

Calls(phase) == {i \in DOMAIN ran.called : ran.called[i][1] = phase}

(* on_enter callbacks run before the syscall is executed and on_exit       *)
(* callbacks after it, never the other way round.                          *)
InPhase ==
    /\ ran.stop = "enter" => Calls("on_exit") = {}
    /\ ran.stop = "exit" => Calls("on_enter") = {}

(* For a careful script they do so, and none is left out: at the entry of  *)
(* a syscall the enabled on_enter callback of its handler runs; at the     *)
(* exit its on_exit callback runs, unless a non-recursive hijack brought   *)
(* the thread there.                                                       *)
CallbacksRun ==
    Careful =>
        /\ InPhase
        /\ ran.stop = "enter" /\ Handled(ran.asked) =>
              LET h == handled_syscalls[ran.asked]
              IN  h.enabled /\ h.on_enter # None =>
                      ran.called # << >> /\ ran.called[1] = <<"on_enter", ran.asked>>
        /\ ran.stop = "exit" /\ Handled(ran.asked) =>
              LET h == handled_syscalls[ran.asked]
              IN  (ran.called = <<<<"on_exit", ran.asked>>>>)
                      <=> (h.enabled /\ h.on_exit /\ ran.thread \notin diverted)

(* _has_entered says that a thread is inside the syscall, for every        *)
(* handler that has something to do at the exit, and _skip_exit is only    *)
(* set together with it.                                                   *)
PhaseTracked ==
    Careful /\ mode # "error" =>
        \A n \in DOMAIN handled_syscalls :
            LET h == handled_syscalls[n]
            IN  /\ h.has_entered => Occupied(n)
                /\ h.skip_exit => h.has_entered
                /\ Occupied(n) /\ (h.on_exit \/ h.pprint \/ h.enabled) => h.has_entered

(* No on_enter callback runs twice at one stop, however the script has     *)
(* hijacked syscalls to one another.                                       *)
NoRepeat == \A i, j \in DOMAIN ran.called : ran.called[i] = ran.called[j] => i = j

(* Following the recursive hijacks from a syscall never comes to an end:   *)
(* it stays among syscalls that are hijacked to one another.               *)
Hijacks(n) ==
    /\ Handled(n)
    /\ LET h == handled_syscalls[n]
       IN  h.enabled /\ h.on_enter \notin {None, n} /\ Handled(h.on_enter) /\ h.recursive
Endless(n) ==
    \E C \in SUBSET Syscalls :
        n \in C /\ \A k \in C : Hijacks(k) /\ handled_syscalls[k].on_enter \in C

(* The RuntimeError is raised exactly when recursive hijacks would never   *)
(* come to an end.  A hijack that is not recursive ends the chain also in  *)
(* a loop, of which the documentation says otherwise: see the run          *)
(* hijack_loops.                                                           *)
LoopExact == Careful /\ ran.stop = "enter" => (mode = "error" <=> Endless(ran.asked))

(* An enabled handler without callbacks leaves the process to the script   *)
(* at the entry of its syscall and at the exit.                            *)
StopsForScript ==
    [][/\ ran'.stop # "none" /\ Handled(ran'.asked) =>
              LET h == handled_syscalls[ran'.asked]
              IN  WithoutCallback(h) /\ h.enabled => ~resume' /\ mode' # "running"
       /\ mode = "reporting" /\ ~resume => mode' # "running"]_vars

===============================================================================
