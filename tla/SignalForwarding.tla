---------------------------- MODULE SignalForwarding ----------------------------
(***************************************************************************)
(* Signals: a thread about to receive a signal is stopped, the catcher of  *)
(* the signal may look at it or change it, and the signal is handed over   *)
(* when the process is resumed.                                            *)
(*                                                                         *)
(* Two pieces of state must agree for that: _signal_number of the thread   *)
(* and the list threads_with_signals_to_forward.  Every stop writes the    *)
(* first; only the stops for a genuine signal, and the script, add to the  *)
(* second.                                                                 *)
(***************************************************************************)
EXTENDS Naturals, FiniteSets

CONSTANTS Signals,   \* the signals a script may catch
          NoSig,     \* signal number 0
          SIGTRAP, SIGSTOP, SYSCALL_SIGTRAP,
          NoCallback,
          Threads,
          Scenarios  \* what script and program do

(* step, step until: the script steps a thread; at breakpoint: a thread is *)
(* stepped over a breakpoint when it is resumed; in callback: a breakpoint *)
(* or syscall callback sets the signal of its thread; block: the script    *)
(* sets signals_to_block; set: the script sets a signal; toggle: it        *)
(* enables and disables catchers.                                          *)
AllUses == {"step", "step until", "at breakpoint", "in callback", "block", "set", "toggle"}

(* callback is the number that the thread has after the callback: that of  *)
(* the signal if the callback only looks.  catch_signal and hijack_signal  *)
(* make such an object.                                                    *)
Catcher == [callback : Signals \cup {NoSig, NoCallback}, recursive : BOOLEAN, enabled : BOOLEAN]

ASSUME SignalsAssumption ==
    /\ IsFiniteSet(Signals)
    /\ Signals \cap {NoSig, SIGTRAP, SIGSTOP, SYSCALL_SIGTRAP, NoCallback} = {}
    /\ Cardinality({NoSig, SIGTRAP, SIGSTOP, SYSCALL_SIGTRAP, NoCallback}) = 5
    /\ \A s \in Scenarios : /\ s.catchers \subseteq Catcher
                            /\ s.uses \subseteq AllUses
                            /\ s.threads \subseteq Threads

VARIABLES
    scenario,          \* the catchers installed, what else happens, the threads there are
    caught_signals,
    signals_to_block,
    signal_number,     \* _signal_number of each thread
    to_forward,        \* threads_with_signals_to_forward
    resume, is_a_step, \* of the resume context
    mode, head, pending,
    sent,              \* a signal that the kernel is about to deliver
    due,               \* the signal the program should get when resumed
    delivered,         \* what the last PTRACE_CONT handed over
    hits               \* <<t, n>>: the catcher of n stopped the process

vars == <<caught_signals, signals_to_block, signal_number, to_forward, resume, is_a_step,
          mode, head, pending, sent, due, delivered, hits, scenario>>

Genuine == Signals \cup {SIGTRAP}
Numbers == Genuine \cup {NoSig, SIGSTOP, SYSCALL_SIGTRAP}
Silent == [t \in Threads |-> NoSig]
Caught(n) == n \in DOMAIN caught_signals

-------------------------------------------------------------------------------
(* What the script does while the process is stopped. *)

scriptVars == <<signal_number, to_forward, resume, is_a_step, mode, head, pending, sent, due,
                delivered>>

(* catch_signal and hijack_signal: the new catcher replaces an old one. *)
CatchSignal(n, c) ==
    /\ mode = "stopped"
    /\ caught_signals' = [m \in DOMAIN caught_signals \cup {n} |->
                             IF m = n THEN c ELSE caught_signals[m]]
    /\ hits' = {}
    /\ UNCHANGED <<scriptVars, signals_to_block>>

Toggle(n, on) ==
    /\ "toggle" \in scenario.uses
    /\ mode = "stopped"
    /\ Caught(n)
    /\ caught_signals' = [caught_signals EXCEPT ![n].enabled = on]
    /\ UNCHANGED <<scriptVars, signals_to_block, hits>>

SetSignalsToBlock(B) ==
    /\ "block" \in scenario.uses
    /\ mode = "stopped"
    /\ signals_to_block' = B
    /\ UNCHANGED <<scriptVars, caught_signals, hits>>

(* The setter of ThreadContext.signal *)
SetSignal(t, n) ==
    /\ "set" \in scenario.uses
    /\ mode = "stopped"
    /\ signal_number' = [signal_number EXCEPT ![t] = n]
    /\ to_forward' = to_forward \cup {t}
    /\ due' = [due EXCEPT ![t] = n]
    /\ hits' = {}
    /\ UNCHANGED <<caught_signals, signals_to_block, resume, is_a_step, mode, head, pending,
                   sent, delivered>>

(* step, and the wait that follows it: only this thread runs, and its      *)
(* signal is not handed over.                                              *)
Step(t) ==
    /\ "step" \in scenario.uses
    /\ mode = "stopped"
    /\ is_a_step' = TRUE
    /\ resume' = TRUE
    /\ mode' = "stepping"
    /\ head' = t
    /\ pending' = {}
    /\ hits' = {}
    /\ UNCHANGED <<caught_signals, signals_to_block, signal_number, to_forward, sent, due, delivered>>

(* step_until does not look at the status of the thread: a signal that     *)
(* stops it on the way is dropped by the next single step.                 *)
StepUntil(t) ==
    /\ "step until" \in scenario.uses
    /\ mode = "stopped"
    /\ sent[t] # NoSig
    /\ due' = [due EXCEPT ![t] = sent[t]]
    /\ sent' = [sent EXCEPT ![t] = NoSig]
    /\ UNCHANGED <<caught_signals, signals_to_block, signal_number, to_forward, resume, is_a_step,
                   mode, head, pending, delivered, hits>>

-------------------------------------------------------------------------------
(* cont *)

Forwardable(t) ==
    /\ t \in to_forward
    /\ signal_number[t] # NoSig
    /\ signal_number[t] \notin signals_to_block

(* Mutant: the list is not cleared. *)
ForwardSignalKeepList ==
    /\ delivered' = [t \in Threads |-> IF Forwardable(t) THEN signal_number[t] ELSE NoSig]
    /\ signal_number' = [t \in Threads |-> IF Forwardable(t) THEN NoSig ELSE signal_number[t]]
    /\ to_forward' = to_forward

(* forward_signal, and the PTRACE_CONT that takes signal_to_forward. *)
ForwardSignal ==
    /\ delivered' = [t \in Threads |-> IF Forwardable(t) THEN signal_number[t] ELSE NoSig]
    /\ signal_number' = [t \in Threads |-> IF Forwardable(t) THEN NoSig ELSE signal_number[t]]
    /\ to_forward' = {}

(* The script's cont, or the one in __threaded_wait when no one asked to   *)
(* stop.  The threads in L stood on a breakpoint, and the single step over *)
(* it in prepare_for_run met the signal.                                   *)
Cont(L) ==
    /\ mode \in {"stopped", "resuming"}
    /\ L \subseteq {t \in Threads : sent[t] # NoSig}
    /\ "at breakpoint" \in scenario.uses \/ L = {}
    /\ ForwardSignal
    /\ due' = [t \in Threads |-> IF t \in L THEN sent[t] ELSE NoSig]
    /\ sent' = [t \in Threads |-> IF t \in L THEN NoSig ELSE sent[t]]
    /\ mode' = "running"
    /\ hits' = {}
    /\ UNCHANGED <<caught_signals, signals_to_block, resume, is_a_step, head, pending>>

(* Some process sends a signal to a thread. *)
Send(t, n) ==
    /\ mode \in {"running", "stopped"}
    /\ sent[t] = NoSig
    /\ sent' = [sent EXCEPT ![t] = n]
    /\ UNCHANGED <<caught_signals, signals_to_block, signal_number, to_forward, resume, is_a_step,
                   mode, head, pending, due, delivered, hits>>

(* wait: the thread that stops first is reported last, the others are      *)
(* stopped and reported before it.                                         *)
Wait(h) ==
    /\ mode = "running"
    /\ mode' = "reporting"
    /\ head' = h
    /\ pending' = scenario.threads \ {h}
    /\ resume' = TRUE
    /\ UNCHANGED <<caught_signals, signals_to_block, signal_number, to_forward, is_a_step, sent,
                   due, delivered, hits>>

-------------------------------------------------------------------------------
(* What a catcher makes of a signal. *)

(* Mutant: the catcher of the new signal is never consulted. *)
NeverConsults(c) == FALSE

ConsultsNew(c) == c.recursive /\ Caught(c.callback)

Outcome(num, stop, loop) == [num |-> num, stop |-> stop, loop |-> loop]

(* _manage_caught_signal, manage being its call of itself: a callback may  *)
(* change the number, and the catcher of the new signal is consulted if    *)
(* that of the old is recursive; a signal met before in the chain is an    *)
(* error.                                                                  *)
OnCaught(manage, n, hijacked_set) ==
    LET c == caught_signals[n]
        m == c.callback
    IN  IF ~c.enabled \/ m = n THEN Outcome(n, FALSE, FALSE)
        ELSE IF m = NoCallback THEN Outcome(n, TRUE, FALSE)
        ELSE IF ~ConsultsNew(c) THEN Outcome(m, FALSE, FALSE)
        ELSE IF m \in hijacked_set THEN Outcome(m, FALSE, TRUE)
        ELSE manage[<<m, hijacked_set \cup {m}>>]

ManageCaughtSignal(start) ==
    LET manage[p \in Signals \X SUBSET Signals] == OnCaught(manage, p[1], p[2])
    IN  manage[<<start, {start}>>]

HandleSignal(n) ==
    IF Caught(n) THEN ManageCaughtSignal(n) ELSE Outcome(n, FALSE, FALSE)

-------------------------------------------------------------------------------
(* The report of one thread. *)

MayReport(t) ==
    /\ mode \in {"reporting", "stepping"}
    /\ IF pending = {} THEN t = head ELSE t \in pending

Reported(t, res) ==
    /\ resume' = res
    /\ pending' = pending \ {t}
    /\ mode' = IF t # head THEN mode ELSE IF res THEN "resuming" ELSE "stopped"
    /\ UNCHANGED <<caught_signals, signals_to_block, head, delivered>>

(* Mutant: a catcher without callback does not keep the process stopped. *)
SignalReportRuns(t) ==
    LET n == sent[t]
        r == HandleSignal(n)
    IN  /\ MayReport(t)
        /\ n # NoSig
        /\ Reported(t, resume)
        /\ signal_number' = [signal_number EXCEPT ![t] = r.num]
        /\ to_forward' = to_forward \cup {t}
        /\ is_a_step' = is_a_step
        /\ hits' = IF r.stop THEN hits \cup {<<t, r.num>>} ELSE hits
        /\ sent' = [sent EXCEPT ![t] = NoSig]
        /\ due' = [due EXCEPT ![t] = r.num]

(* _handle_change for a genuine signal.  A SIGTRAP while is_a_step is set  *)
(* is taken for the end of the step.  The exception of a loop ends the     *)
(* report, and what the script does with the rest is not considered.       *)
SignalReport(t) ==
    LET n == sent[t]
        r == HandleSignal(n)
        step == n = SIGTRAP /\ is_a_step
    IN  /\ MayReport(t)
        /\ n # NoSig
        /\ IF r.loop
           THEN /\ mode' = "error"
                /\ UNCHANGED <<caught_signals, signals_to_block, resume, head, pending, delivered>>
           ELSE Reported(t, resume /\ ~r.stop /\ ~step)
        /\ signal_number' = [signal_number EXCEPT ![t] = r.num]
        /\ to_forward' = IF step \/ r.loop THEN to_forward ELSE to_forward \cup {t}
        /\ is_a_step' = (is_a_step /\ ~step)
        /\ hits' = IF r.stop THEN hits \cup {<<t, r.num>>} ELSE hits
        /\ sent' = [sent EXCEPT ![t] = NoSig]
        /\ due' = [due EXCEPT ![t] = r.num]

(* _handle_change for a stop that concerns the debugger alone: a           *)
(* breakpoint or the end of a step (SIGTRAP), or a syscall.  A callback,   *)
(* if there is one (cb), may set the signal of the thread to v before      *)
(* _signal_number is written.                                              *)
InternalReport(t, num, cb, v) ==
    /\ MayReport(t)
    /\ mode = "stepping" => num = SIGTRAP /\ sent[t] = NoSig
    /\ v # NoCallback => cb /\ "in callback" \in scenario.uses
    /\ LET step == num = SIGTRAP /\ is_a_step
       IN  /\ Reported(t, resume /\ cb /\ ~step)
           /\ is_a_step' = (is_a_step /\ ~step)
    /\ signal_number' = [signal_number EXCEPT ![t] = num]
    /\ IF v = NoCallback THEN UNCHANGED <<to_forward, due>>
       ELSE to_forward' = to_forward \cup {t} /\ due' = [due EXCEPT ![t] = v]
    /\ UNCHANGED <<sent, hits>>

(* Mutant: SIGSTOP is forwarded like any other signal. *)
StopReportForwards(t, interrupted) ==
    /\ MayReport(t)
    /\ mode = "reporting"
    /\ Reported(t, resume /\ ~interrupted)
    /\ signal_number' = [signal_number EXCEPT ![t] = SIGSTOP]
    /\ to_forward' = to_forward \cup {t}
    /\ UNCHANGED <<is_a_step, sent, due, hits>>

(* The SIGSTOP of wait, or that of interrupt. *)
StopReport(t, interrupted) ==
    /\ MayReport(t)
    /\ mode = "reporting"
    /\ Reported(t, resume /\ ~interrupted)
    /\ signal_number' = [signal_number EXCEPT ![t] = SIGSTOP]
    /\ UNCHANGED <<to_forward, is_a_step, sent, due, hits>>

-------------------------------------------------------------------------------
Init ==
    /\ caught_signals = [n \in {} |-> NoCallback]
    /\ signals_to_block = {}
    /\ signal_number = Silent /\ sent = Silent /\ due = Silent /\ delivered = Silent
    /\ to_forward = {} /\ hits = {} /\ pending = {}
    /\ resume = TRUE
    /\ is_a_step = FALSE
    /\ mode = "stopped"
    /\ scenario \in Scenarios
    /\ head \in scenario.threads

Actions ==
    \/ \E n \in Signals, c \in scenario.catchers : CatchSignal(n, c)
    \/ \E n \in Signals, on \in BOOLEAN : Toggle(n, on)
    \/ \E B \in SUBSET Signals : SetSignalsToBlock(B)
    \/ \E t \in scenario.threads, n \in Signals \cup {NoSig} : SetSignal(t, n)
    \/ \E t \in scenario.threads : Step(t) \/ StepUntil(t) \/ Wait(t) \/ SignalReport(t)
    \/ \E L \in SUBSET scenario.threads : Cont(L)
    \/ \E t \in scenario.threads, n \in Genuine : Send(t, n)
    \/ \E t \in scenario.threads, num \in {SIGTRAP, SYSCALL_SIGTRAP}, cb \in BOOLEAN,
          v \in Signals \cup {NoCallback} : InternalReport(t, num, cb, v)
    \/ \E t \in scenario.threads, interrupted \in BOOLEAN : StopReport(t, interrupted)

Next == Actions /\ UNCHANGED scenario

Spec == Init /\ [][Next]_vars

-------------------------------------------------------------------------------
(* Properties. *)

(* Steps, and signals set by a callback, are left aside.                   *)
Careful == scenario.uses \subseteq {"block", "set"}

(* When the process is resumed each thread is handed the signal that it is *)
(* due (the one that arrived, as its catchers changed it, or the one the   *)
(* script set) unless the script blocks it, and no other: SIGSTOP and the  *)
(* traps of the debugger never reach the program, and no signal does       *)
(* twice.                                                                  *)
ForwardedExactly ==
    [][Careful /\ mode' = "running" /\ mode # "running" =>
          delivered' = [t \in Threads |-> IF due[t] \in signals_to_block THEN NoSig ELSE due[t]]]_vars

(* A thread has a signal to hand over exactly when it is in the list with  *)
(* that number: the two pieces of state agree at every moment.             *)
ListAgrees ==
    Careful /\ mode # "error" =>
        /\ \A t \in to_forward : signal_number[t] = due[t]
        /\ \A t \in Threads \ to_forward : due[t] = NoSig

(* When a catcher without callback is reached, on any thread of the batch  *)
(* and through any chain of hijacks, the process is left to the script,    *)
(* and hit_on of that catcher tells it so.                                 *)
CaughtStops ==
    /\ hits # {} => mode \in {"reporting", "stepping", "stopped", "error"}
    /\ mode = "stopped" => \A h \in hits : signal_number[h[1]] = h[2]

(* Following the recursive hijacks from a signal never comes to an end: it *)
(* stays among signals that are hijacked to one another.                   *)
Hijacks(n) ==
    /\ Caught(n)
    /\ LET c == caught_signals[n]
       IN  c.enabled /\ c.callback # n /\ Caught(c.callback) /\ c.recursive
Endless(n) ==
    \E C \in SUBSET Signals :
        n \in C /\ \A k \in C : Hijacks(k) /\ caught_signals[k].callback \in C

Arrives(t) == mode \in {"reporting", "stepping"} /\ sent[t] # NoSig /\ sent'[t] = NoSig

(* The RuntimeError is raised exactly when recursive hijacks never end.  A *)
(* hijack that is not recursive ends the chain also in a loop, of which    *)
(* the documentation says otherwise: see the run hijack_loops.             *)
LoopExact == [][\A t \in Threads : Arrives(t) => (mode' = "error" <=> Endless(sent[t]))]_vars

================================================================================
