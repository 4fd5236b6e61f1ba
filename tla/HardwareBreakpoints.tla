-------------------------- MODULE HardwareBreakpoints --------------------------
(***************************************************************************)
(* Hardware breakpoints and watchpoints.  Each thread has its own debug    *)
(* registers and a manager (Amd64PtraceHardwareBreakpointManager) that     *)
(* remembers which Breakpoint is in which; a Breakpoint is installed on    *)
(* every thread, and on a thread that starts later.                        *)
(*                                                                         *)
(* enable() and disable() only set flags that the next cont acts upon, so  *)
(* four things can drift apart: the dictionary of breakpoints, their       *)
(* flags, the managers' tables, and the registers themselves.              *)
(***************************************************************************)
EXTENDS Naturals, FiniteSets, Sequences

CONSTANTS Bps,                \* Breakpoint objects with hardware = True
          Address,            \* their addresses
          InstructionPointers, \* where a thread may stop
          Execute,            \* those with condition "x"; others are watchpoints
          Refused,            \* those the kernel does not accept
          Threads, Main, None,
          AMD64_DBREGS_COUNT,
          Scenarios           \* sets of what happens, each a part of AllUses

(* again: enables or disables a breakpoint twice before a cont; limit:     *)
(* has more breakpoints enabled than registers; swap: enables one and      *)
(* disables another in one stop; clone disabled: a thread starts while a   *)
(* breakpoint is disabled; pending: detaches with a flag not acted upon;   *)
(* together: two registers trigger at once; other trap: a thread stops     *)
(* with SIGTRAP for another reason, such as a clone event; refused: sets a *)
(* breakpoint of Refused; same: sets one where there is one; detach: the   *)
(* script detaches; beside: a trap stops a thread right at or right after  *)
(* the address of an enabled breakpoint that did not trigger.              *)
AllUses == {"again", "limit", "swap", "clone disabled", "pending", "together", "other trap",
            "refused", "same", "detach", "beside"}

ASSUME HardwareAssumption ==
    /\ AMD64_DBREGS_COUNT \in Nat \ {0}
    /\ IsFiniteSet(Bps) /\ IsFiniteSet(Threads)
    /\ Main \in Threads
    /\ None \notin Bps
    /\ Execute \subseteq Bps /\ Refused \subseteq Bps
    /\ Address \in [Bps -> Nat]
    /\ InstructionPointers \subseteq Nat
    /\ \A u \in Scenarios : u \subseteq AllUses

VARIABLES
    uses,                \* what happens in this behavior
    breakpoints,         \* the dictionary, in order of insertion
    enabled, changed,    \* of each Breakpoint
    helpers,             \* the threads with a manager, in order
    registers,           \* breakpoint_registers of each manager
    breakpoint_count,    \* of each manager
    cpu,                 \* what the debug registers of a thread really hold
    dr6,                 \* the registers named by the status register DR6
    mode,                \* "stopped", "running" or "detached"
    raised,              \* the exception of the last call, if any
    report               \* what was made of the last trap

tables == <<registers, breakpoint_count, cpu>>
vars == <<uses, breakpoints, enabled, changed, helpers, tables, dr6, mode, raised, report>>

Regs == 1..AMD64_DBREGS_COUNT
Empty == [i \in Regs |-> None]
ToSet(s) == {s[i] : i \in DOMAIN s}
Listed == ToSet(breakpoints)
Alive == ToSet(helpers)
Enabled == {b \in Listed : enabled[b]}
Raise(why, b) == [why |-> why, bp |-> b]
Fine == Raise("nothing", None)
NoReport == [triggered |-> {}, bp |-> None, forwarded |-> FALSE, rewound |-> 0]

-------------------------------------------------------------------------------
(* A manager: its table, its count and the registers of its thread. *)

Row(reg, count, dbregs) == [reg |-> reg, count |-> count, cpu |-> dbregs]
Holding(reg, b) == {i \in Regs : reg[i] = b}
Lowest(S) == CHOOSE i \in S : \A k \in S : i <= k

(* install_breakpoint, and what it raises.  _poke_user does not notice     *)
(* that the kernel refuses.                                                *)
InstallRaises(m) ==
    IF m.count >= AMD64_DBREGS_COUNT THEN "limit"
    ELSE IF Holding(m.reg, None) = {} THEN "missing" ELSE "nothing"

InstallBreakpoint(m, b) ==
    LET i == Lowest(Holding(m.reg, None))
    IN  Row([m.reg EXCEPT ![i] = b], m.count + 1,
            IF b \in Refused THEN m.cpu ELSE [m.cpu EXCEPT ![i] = b])

(* remove_breakpoint: the search for the register fails with StopIteration *)
(* if the breakpoint is in none.                                           *)
RemoveRaises(m, b) ==
    IF m.count <= 0 \/ Holding(m.reg, b) = {} THEN "missing" ELSE "nothing"

RemoveBreakpoint(m, b) ==
    LET i == Lowest(Holding(m.reg, b))
    IN  Row([m.reg EXCEPT ![i] = None], m.count - 1, [m.cpu EXCEPT ![i] = None])

(* A method of the interface goes through the managers of the threads in   *)
(* line.  H is what has become of them; an exception ends the rest.        *)
Managers == [t \in Threads |-> Row(registers[t], breakpoint_count[t], cpu[t])]
Begin == [of |-> Managers, raised |-> Fine]

(* Those before the first that fails. *)
Done(line, error) ==
    {line[i] : i \in {k \in DOMAIN line : \A j \in 1..k : error[line[j]] = "nothing"}}
Outcome(line, error, b) ==
    LET failing == {i \in DOMAIN line : error[line[i]] # "nothing"}
    IN  IF failing = {} THEN Fine ELSE Raise(error[line[Lowest(failing)]], b)

Install(H, b, line) ==
    LET error == [t \in Threads |-> InstallRaises(H.of[t])]
    IN  [of |-> [t \in Threads |-> IF t \in Done(line, error) THEN InstallBreakpoint(H.of[t], b)
                                   ELSE H.of[t]],
         raised |-> Outcome(line, error, b)]
Remove(H, b, line) ==
    LET error == [t \in Threads |-> RemoveRaises(H.of[t], b)]
    IN  [of |-> [t \in Threads |-> IF t \in Done(line, error) THEN RemoveBreakpoint(H.of[t], b)
                                   ELSE H.of[t]],
         raised |-> Outcome(line, error, b)]

(* Mutant: only the main thread gets the breakpoint. *)
SetOnMain(b) == Install(Begin, b, <<Main>>)

SetOnAll(b) == Install(Begin, b, helpers)

(* The same for all of the dictionary, in its order: some breakpoints are  *)
(* installed, some removed.                                                *)
Handle(H, b, set, unset, line) ==
    IF H.raised # Fine THEN H
    ELSE IF b \in set THEN Install(H, b, line)
    ELSE IF b \in unset THEN Remove(H, b, line)
    ELSE H

HandleAll(set, unset, line) ==
    LET after[i \in 0..Len(breakpoints)] ==
            IF i = 0 THEN Begin ELSE Handle(after[i - 1], breakpoints[i], set, unset, line)
    IN  after[Len(breakpoints)]

Update(H) ==
    /\ registers' = [t \in Threads |-> H.of[t].reg]
    /\ breakpoint_count' = [t \in Threads |-> H.of[t].count]
    /\ cpu' = [t \in Threads |-> H.of[t].cpu]
    /\ raised' = H.raised

-------------------------------------------------------------------------------
(* The script, while the process is stopped. *)

At(a) == {b \in Listed : Address[b] = a}

(* The dictionary keeps the place of a key that is assigned again. *)
Inserted(b) ==
    IF At(Address[b]) = {} THEN Append(breakpoints, b)
    ELSE [i \in DOMAIN breakpoints |->
             IF Address[breakpoints[i]] = Address[b] THEN b ELSE breakpoints[i]]

(* A careful script counts the registers in use. *)
Room(b) == \/ "limit" \in uses
           \/ "swap" \in uses /\ Cardinality(Enabled \cup {b}) <= AMD64_DBREGS_COUNT
           \/ Cardinality({c \in Listed : enabled[c] \/ changed[c]} \cup {b}) <= AMD64_DBREGS_COUNT

(* breakpoint(..., hardware=True) and watchpoint(...) *)
SetBreakpoint(b) ==
    /\ mode = "stopped"
    /\ b \notin Listed
    /\ "refused" \in uses \/ b \notin Refused
    /\ "same" \in uses \/ At(Address[b]) = {}
    /\ Room(b) \/ \A c \in Listed : ~changed[c]
    /\ LET H == SetOnAll(b)
       IN  /\ Update(H)
           /\ IF H.raised # Fine THEN UNCHANGED <<breakpoints, enabled, changed>>
              ELSE /\ breakpoints' = Inserted(b)
                   /\ enabled' = [enabled EXCEPT ![b] = TRUE]
                   /\ changed' = [changed EXCEPT ![b] = FALSE]
    /\ report' = NoReport
    /\ UNCHANGED <<helpers, dr6, mode>>

(* Breakpoint.enable and Breakpoint.disable *)
Toggle(b, on) ==
    /\ mode = "stopped"
    /\ b \in Listed
    /\ "again" \in uses \/ (enabled[b] # on /\ ~changed[b])
    /\ on => Room(b)
    /\ enabled' = [enabled EXCEPT ![b] = on]
    /\ changed' = [changed EXCEPT ![b] = TRUE]
    /\ raised' = Fine
    /\ report' = NoReport
    /\ UNCHANGED <<breakpoints, helpers, tables, dr6, mode>>

(* cont: the flags are cleared, then acted upon in the order of the        *)
(* dictionary.                                                             *)
Apply == HandleAll({b \in Listed : changed[b] /\ enabled[b]},
                   {b \in Listed : changed[b] /\ ~enabled[b]}, helpers)

(* Mutant: _changed is cleared only when the process runs again. *)
ContAgain ==
    /\ mode = "stopped"
    /\ Update(Apply)
    /\ mode' = IF raised' = Fine THEN "running" ELSE mode
    /\ report' = NoReport
    /\ UNCHANGED <<breakpoints, enabled, changed, helpers, dr6>>

Cont ==
    /\ mode = "stopped"
    /\ changed' = [b \in Bps |-> IF b \in Listed THEN FALSE ELSE changed[b]]
    /\ Update(Apply)
    /\ mode' = IF raised' = Fine THEN "running" ELSE mode
    /\ report' = NoReport
    /\ UNCHANGED <<breakpoints, enabled, helpers, dr6>>

(* detach: only the enabled breakpoints are removed. *)
Detach ==
    /\ "detach" \in uses
    /\ mode = "stopped"
    /\ "pending" \in uses \/ \A b \in Listed : ~changed[b]
    /\ Update(HandleAll({}, Enabled, helpers))
    /\ IF raised' # Fine THEN UNCHANGED <<breakpoints, mode>>
       ELSE /\ mode' = "detached"
            /\ breakpoints' = SelectSeq(breakpoints, LAMBDA b : ~enabled[b])
    /\ report' = NoReport
    /\ UNCHANGED <<enabled, changed, helpers, dr6>>

-------------------------------------------------------------------------------
(* Threads start and end. *)

(* register_new_thread installs all that is in the dictionary. *)
Clone(t) ==
    /\ mode = "running"
    /\ t \notin Alive
    /\ "clone disabled" \in uses \/ Enabled = Listed
    /\ Update(HandleAll(Listed, {}, <<t>>))
    /\ mode' = IF raised' = Fine THEN mode ELSE "stopped"
    /\ helpers' = Append(helpers, t)
    /\ report' = NoReport
    /\ UNCHANGED <<breakpoints, enabled, changed, dr6>>

(* unregister_thread drops the manager. *)
Exit(t) ==
    /\ mode = "running"
    /\ t \in Alive \ {Main}
    /\ \E i \in DOMAIN helpers :
          /\ helpers[i] = t
          /\ helpers' = SubSeq(helpers, 1, i - 1) \o SubSeq(helpers, i + 1, Len(helpers))
    /\ registers' = [registers EXCEPT ![t] = Empty]
    /\ breakpoint_count' = [breakpoint_count EXCEPT ![t] = 0]
    /\ cpu' = [cpu EXCEPT ![t] = Empty]
    /\ dr6' = [dr6 EXCEPT ![t] = {}]
    /\ raised' = Fine
    /\ report' = NoReport
    /\ UNCHANGED <<breakpoints, enabled, changed, mode>>

-------------------------------------------------------------------------------
(* Traps. *)

(* Mutant: the first two registers are confused. *)
WatchpointHitSwapped(t, status) ==
    LET i == CHOOSE j \in status : \A k \in status : j <= k
        b == registers[t][IF i = 1 THEN AMD64_DBREGS_COUNT ELSE i]
    IN  IF status = {} THEN None ELSE IF b \in Execute THEN None ELSE b

(* is_watchpoint_hit: the lowest register that DR6 names. *)
WatchpointHit(t, status) ==
    LET i == CHOOSE j \in status : \A k \in status : j <= k
        b == registers[t][i]
    IN  IF status = {} THEN None ELSE IF b \in Execute THEN None ELSE b

(* _handle_breakpoints, of any SIGTRAP: an enabled breakpoint at the       *)
(* instruction pointer, or else one a byte before, as if its int3 had been *)
(* executed, or else a watchpoint.                                         *)
Here(ip) == {b \in Enabled : Address[b] = ip}
Before(ip) == {b \in Enabled : Address[b] + 1 = ip}
HandleBreakpoints(t, status, ip) ==
    IF Here(ip) # {} THEN CHOOSE b \in Here(ip) : TRUE
    ELSE IF Before(ip) # {} THEN CHOOSE b \in Before(ip) : TRUE
    ELSE WatchpointHit(t, status)

(* By how much the thread is put back. *)
Rewound(ip) == IF Here(ip) = {} /\ Before(ip) # {} THEN 1 ELSE 0

(* The trap of the breakpoints in hit is mistaken for one of another that  *)
(* happens to be where the thread is.                                      *)
Beside(hit, ip) ==
    \/ \E b \in Here(ip) : b \notin hit
    \/ Here(ip) = {} /\ Before(ip) # {}

(* Without a breakpoint to blame, the SIGTRAP is forwarded to the program, *)
(* unless it is a ptrace event; a breakpoint without callback stops the    *)
(* process.                                                                *)
HandleTrap(t, hit, status, ip) ==
    /\ "beside" \in uses \/ ~Beside(hit, ip)
    /\ LET bp == HandleBreakpoints(t, status, ip)
       IN  /\ \E forwarded \in {bp = None} \cup (IF hit = {} THEN {FALSE} ELSE {}) :
                 report' = [triggered |-> hit, bp |-> bp, forwarded |-> forwarded, rewound |-> Rewound(ip)]
           /\ mode' \in IF bp = None THEN {"running"} ELSE {"running", "stopped"}

(* The registers in S trigger: the kernel notes them in DR6.  Only another *)
(* trap ever looks at what DR6 holds from before.  A breakpoint that       *)
(* executes triggers before its instruction, a watchpoint after one.       *)
Trigger(t, S, ip) ==
    /\ mode = "running"
    /\ t \in Alive
    /\ S # {} /\ S \subseteq {i \in Regs : cpu[t][i] # None}
    /\ "together" \in uses \/ Cardinality({cpu[t][i] : i \in S}) = 1
    /\ \A i \in S : cpu[t][i] \in Execute => Address[cpu[t][i]] = ip
    /\ dr6' = IF "other trap" \in uses THEN [dr6 EXCEPT ![t] = S] ELSE dr6
    /\ HandleTrap(t, {cpu[t][i] : i \in S}, S, ip)
    /\ raised' = Fine
    /\ UNCHANGED <<breakpoints, enabled, changed, helpers, tables>>

(* A ptrace event or a SIGTRAP of the program: DR6 keeps its value. *)
OtherTrap(t, ip) ==
    /\ "other trap" \in uses
    /\ mode = "running"
    /\ t \in Alive
    /\ HandleTrap(t, {}, dr6[t], ip)
    /\ raised' = Fine
    /\ UNCHANGED <<breakpoints, enabled, changed, helpers, tables, dr6>>

(* The process stops for a reason that is not a trap. *)
Interrupt ==
    /\ mode = "running"
    /\ mode' = "stopped"
    /\ raised' = Fine
    /\ report' = NoReport
    /\ UNCHANGED <<breakpoints, enabled, changed, helpers, tables, dr6>>

-------------------------------------------------------------------------------
Init ==
    /\ uses \in Scenarios
    /\ breakpoints = << >>
    /\ enabled = [b \in Bps |-> TRUE]
    /\ changed = [b \in Bps |-> FALSE]
    /\ helpers = <<Main>>
    /\ registers = [t \in Threads |-> Empty]
    /\ breakpoint_count = [t \in Threads |-> 0]
    /\ cpu = [t \in Threads |-> Empty]
    /\ dr6 = [t \in Threads |-> {}]
    /\ mode = "stopped"
    /\ raised = Fine
    /\ report = NoReport

Actions ==
    \/ \E b \in Bps : SetBreakpoint(b)
    \/ \E b \in Bps, on \in BOOLEAN : Toggle(b, on)
    \/ Cont \/ Detach \/ Interrupt
    \/ \E t \in Threads : Clone(t) \/ Exit(t)
    \/ \E t \in Threads, ip \in InstructionPointers :
          OtherTrap(t, ip) \/ (\E S \in SUBSET Regs : Trigger(t, S, ip))

Next == Actions /\ UNCHANGED uses

Spec == Init /\ [][Next]_vars

-------------------------------------------------------------------------------
(* Properties. *)

(* What does no harm. *)
Careful == uses \subseteq {"detach", "together", "other trap"}

(* While the process runs, each enabled breakpoint is in exactly one debug *)
(* register of each thread, also of the threads that started after it was  *)
(* set, and nothing else is in any; after detach all are empty.  The count *)
(* that guards the limit is right after failed calls too, so that the      *)
(* search for a free register that follows the guard succeeds.             *)
RegistersMatch ==
    /\ Careful /\ mode = "running" =>
          \A t \in Alive :
              /\ \A b \in Enabled : Cardinality(Holding(cpu[t], b)) = 1
              /\ \A i \in Regs : cpu[t][i] \in Enabled \cup {None}
    /\ Careful /\ mode = "detached" => \A t \in Alive : cpu[t] = Empty
    /\ \A t \in Threads :
          breakpoint_count[t] = Cardinality({i \in Regs : registers[t][i] # None})

(* The process is refused a breakpoint only for want of registers: when    *)
(* more are enabled than the processor has.  No call fails because a       *)
(* breakpoint is not where it should be.                                   *)
RaisedRightly ==
    (Careful \/ uses = {"refused"}) /\ raised # Fine =>
        /\ raised.why = "limit"
        /\ Cardinality(Enabled \cup {raised.bp}) > AMD64_DBREGS_COUNT

(* A trap is attributed to a breakpoint that triggered it, and never puts  *)
(* the thread back, also while the tables of the managers and the flags    *)
(* disagree; only what is left in some registers by a call that failed,    *)
(* and is not in the dictionary, is no part of this.  When a debug         *)
(* register triggers alone, its breakpoint is reported and the program     *)
(* does not get the SIGTRAP.  A trap beside another breakpoint is the      *)
(* subject of HitsCounted.                                                 *)
Attributed ==
    /\ "beside" \notin uses /\ report.bp # None /\ report.triggered \subseteq Listed =>
          /\ \/ report.bp \in report.triggered
             \/ report.triggered = {} /\ "other trap" \in uses
          /\ report.rewound = 0
    /\ Careful /\ "together" \notin uses /\ report.triggered # {} => report.triggered = {report.bp}

(* "hit_count (int): The number of times this specific breakpoint has been *)
(* hit" (data/breakpoint.py): each stop that counts for a breakpoint is    *)
(* one that it caused.                                                     *)
HitsCounted == report.bp # None => report.bp \in report.triggered

================================================================================
