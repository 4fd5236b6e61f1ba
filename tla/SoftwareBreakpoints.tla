-------------------------- MODULE SoftwareBreakpoints --------------------------
(***************************************************************************)
(* Software breakpoints: the list that the C library keeps, the Breakpoint *)
(* objects of the script, the memory of the tracee that both patch, and    *)
(* the threads that run into the patches.                                  *)
(*                                                                         *)
(* PTRACE_PEEKDATA and PTRACE_POKEDATA move words of WordSize bytes, so a  *)
(* breakpoint saves and writes back the bytes that follow it as well.      *)
(* Every instruction is one byte long and may jump anywhere.               *)
(***************************************************************************)
EXTENDS Naturals, Sequences, SequencesExt, FiniteSets

CONSTANTS MaxAddr,        \* the code is 0..MaxAddr
          WordSize,       \* bytes moved by a peek or a poke (8)
          Threads,
          BreakAddrs,     \* where the script sets breakpoints
          Scenarios       \* sets of what a script does, each a part of AllUses

Addrs == 0..MaxAddr
NoAddr == MaxAddr + WordSize + 1

(* disable: disables and enables breakpoints; at ip: sets or enables them  *)
(* where a thread stands, or steps onto one just enabled; write: writes to *)
(* the memory of the tracee; finish disabled: calls finish with a disabled *)
(* breakpoint at the return address; overlap: sets breakpoints closer than *)
(* a word to one another; the others are methods.                          *)
AllUses == {"disable", "at ip", "write", "finish", "finish disabled", "overlap", "finish stepping",
            "step_until"}

ASSUME BreakpointsAssumption ==
    /\ MaxAddr \in Nat
    /\ WordSize \in Nat \ {0, 1}
    /\ BreakAddrs \subseteq Addrs
    /\ \A u \in Scenarios : u \subseteq AllUses

VARIABLES
    uses,        \* what the script does in this behavior
    mem,         \* memory of the tracee
    program,     \* what mem would be without any debugger
    bList,       \* b_HEAD, the linked list of struct software_breakpoint
    bps,         \* internal_debugger.breakpoints, in insertion order
    pc,          \* instruction pointer of each thread
    state,       \* "stopped", "running", or "free" once detached
    trapped,     \* threads that have executed an int3 while running
    hit,         \* breakpoint that the last stop reported for each thread
    temporary,   \* address of the breakpoint that finish() is to remove
    skipped      \* an int3 has been executed by a single step

vars == <<uses, mem, program, bList, bps, pc, state, trapped, hit, temporary, skipped>>

Bytes == {"old", "new", "cc"}
Memory == [0..(MaxAddr + WordSize) -> Bytes]

-------------------------------------------------------------------------------
(* Words. *)

Peek(m, a) == [i \in 0..(WordSize - 1) |-> m[a + i]]
Covers(a, x) == a <= x /\ x < a + WordSize
INSTALL_BREAKPOINT(w) == [w EXCEPT ![0] = "cc"]

(* The pokes writes[i], i \in made, in this order: the last one wins. *)
PokeSeq(m, writes, made) ==
    [x \in DOMAIN m |->
        LET over == {i \in made : Covers(writes[i].addr, x)}
        IN  IF over = {} THEN m[x] ELSE writes[Max(over)].word[x - writes[Max(over)].addr]]

Poke(m, a, w) == PokeSeq(m, <<[addr |-> a, word |-> w]>>, {1})

EnabledIn(list) == {i \in DOMAIN list : list[i].enabled}
Patches(list) == [i \in DOMAIN list |-> [addr |-> list[i].addr, word |-> list[i].patched_instruction]]
Restores(list) == [i \in DOMAIN list |-> [addr |-> list[i].addr, word |-> list[i].instruction]]

(* The loops of prepare_for_run and of wait_all_and_update_regs. *)
InstallAll(m, list) == PokeSeq(m, Patches(list), EnabledIn(list))

(* Mutant: the restores run through the list backwards. *)
RestoreAllBackwards(m, list) ==
    LET backwards == Reverse(list) IN PokeSeq(m, Restores(backwards), EnabledIn(backwards))

RestoreAll(m, list) == PokeSeq(m, Restores(list), EnabledIn(list))

-------------------------------------------------------------------------------
(* The list of the C library. *)

Listed(list, a) == \E i \in DOMAIN list : list[i].addr = a
IndexOf(list, a) == CHOOSE i \in DOMAIN list : list[i].addr = a
EntryAt(list, a) == list[IndexOf(list, a)]
SetFlag(list, a, e) ==
    [i \in DOMAIN list |-> IF list[i].addr = a THEN [list[i] EXCEPT !.enabled = e] ELSE list[i]]

(* Mutant: the new entry is put in front, whatever its address. *)
InsertFront(list, b) == <<b>> \o list

(* Insertion by increasing address: n entries stay in front. *)
Insert(list, b) ==
    LET n == CHOOSE n \in 0..Len(list) :
                 /\ \A i \in 1..n : list[i].addr < b.addr
                 /\ n < Len(list) => list[n + 1].addr >= b.addr
    IN  InsertAt(list, n + 1, b)

(* register_breakpoint: a known address keeps the words saved before. *)
Register(list, m, a) ==
    IF Listed(list, a) THEN SetFlag(list, a, TRUE)
    ELSE Insert(list, [addr |-> a, instruction |-> Peek(m, a),
                       patched_instruction |-> INSTALL_BREAKPOINT(Peek(m, a)), enabled |-> TRUE])

RegisterPoke(m, a) == Poke(m, a, INSTALL_BREAKPOINT(Peek(m, a)))

Unregister(list, a) == IF Listed(list, a) THEN RemoveAt(list, IndexOf(list, a)) ELSE list

-------------------------------------------------------------------------------
(* The dictionary of Breakpoint objects. *)

Known(a) == Listed(bps, a)
BpAt(a) == EntryAt(bps, a)
NewBp(a) == [addr |-> a, enabled |-> TRUE, changed |-> FALSE, disabled_for_step |-> FALSE]
PutBp(a) == IF Known(a)
            THEN [i \in DOMAIN bps |-> IF bps[i].addr = a THEN NewBp(a) ELSE bps[i]]
            ELSE Append(bps, NewBp(a))
DelBp(a) == IF Known(a) THEN RemoveAt(bps, IndexOf(bps, a)) ELSE bps
Active(a) == Known(a) /\ BpAt(a).enabled /\ ~BpAt(a).disabled_for_step

NoHits == [t \in Threads |-> NoAddr]
Standing(a) == \E t \in Threads : pc[t] = a
Overlaps(a) == \E i \in DOMAIN bps : bps[i].addr # a /\ (Covers(a, bps[i].addr) \/ Covers(bps[i].addr, a))

-------------------------------------------------------------------------------
(* What the script does while the tracee is stopped. *)

(* set_breakpoint(bp): the int3 is written at once. *)
SetBreakpoint(a) ==
    /\ state = "stopped"
    /\ "at ip" \in uses \/ ~Standing(a)
    /\ "overlap" \in uses \/ ~Overlaps(a)
    /\ bList' = Register(bList, mem, a)
    /\ mem' = RegisterPoke(mem, a)
    /\ bps' = PutBp(a)
    /\ UNCHANGED <<program, pc, state, trapped, hit, temporary, skipped>>

(* Breakpoint.enable and Breakpoint.disable: effective at the next cont. *)
Change(a, e) ==
    /\ "disable" \in uses
    /\ state = "stopped"
    /\ Known(a)
    /\ e => "at ip" \in uses \/ ~Standing(a)
    /\ bps' = [i \in DOMAIN bps |->
                  IF bps[i].addr = a THEN [bps[i] EXCEPT !.enabled = e, !.changed = TRUE] ELSE bps[i]]
    /\ UNCHANGED <<mem, program, bList, pc, state, trapped, hit, temporary, skipped>>

WriteMemory(a) ==
    /\ "write" \in uses
    /\ state = "stopped"
    /\ mem' = [mem EXCEPT ![a] = "new"]
    /\ program' = [program EXCEPT ![a] = "new"]
    /\ UNCHANGED <<bList, bps, pc, state, trapped, hit, temporary, skipped>>

-------------------------------------------------------------------------------
(* Resuming. *)

(* The changed breakpoints are written through, in insertion order. *)
ChangedBps(bs) == {i \in DOMAIN bs : bs[i].changed}
WriteThrough(list, b) ==
    LET e == EntryAt(list, b.addr)
    IN  [addr |-> b.addr, word |-> IF b.enabled THEN e.patched_instruction ELSE e.instruction]

AppliedMem(m, list, bs) ==
    PokeSeq(m, [i \in DOMAIN bs |-> WriteThrough(list, bs[i])], ChangedBps(bs))

(* Mutant: the changes are not applied to the list. *)
AppliedListStale(list, bs) == list

AppliedList(list, bs) ==
    [i \in DOMAIN list |->
        IF \E j \in DOMAIN bs : bs[j].addr = list[i].addr /\ bs[j].changed
        THEN [list[i] EXCEPT !.enabled = \E j \in DOMAIN bs : bs[j].addr = list[i].addr /\ bs[j].enabled]
        ELSE list[i]]

AppliedBps(bs) == [i \in DOMAIN bs |-> [bs[i] EXCEPT !.changed = FALSE, !.disabled_for_step = FALSE]]

(* One instruction of thread t: an int3 moves it by one byte, any other    *)
(* instruction takes it anywhere.                                          *)
Executes(m, t, next) == IF m[pc[t]] = "cc" THEN next = pc[t] + 1 ELSE next \in Addrs

(* prepare_for_run: threads on a listed address make a single step before  *)
(* the int3s are written.                                                  *)
StepOver(m, list, next) ==
    \A t \in Threads : IF Listed(list, pc[t]) THEN Executes(m, t, next[t]) ELSE next[t] = pc[t]

StepsOnInt3(m, list) == \E t \in Threads : Listed(list, pc[t]) /\ m[pc[t]] = "cc"

(* Mutant: the int3s are written before the threads have stepped. *)
ResumeInstallFirst(m, list, bs) ==
    LET l1 == AppliedList(list, bs)
        m1 == InstallAll(AppliedMem(m, list, bs), l1)
    IN  /\ pc' \in [Threads -> 0..(MaxAddr + 1)]
        /\ StepOver(m1, l1, pc')
        /\ skipped' = (skipped \/ StepsOnInt3(m1, l1))
        /\ mem' = m1
        /\ bList' = l1
        /\ bps' = AppliedBps(bs)
        /\ state' = "running"
        /\ trapped' = {}
        /\ hit' = NoHits

(* PtraceInterface.cont with the breakpoints bs and the list. *)
Resume(m, list, bs) ==
    LET m1 == AppliedMem(m, list, bs)
        l1 == AppliedList(list, bs)
    IN  /\ pc' \in [Threads -> 0..(MaxAddr + 1)]
        /\ StepOver(m1, l1, pc')
        /\ skipped' = (skipped \/ StepsOnInt3(m1, l1))
        /\ mem' = InstallAll(m1, l1)
        /\ bList' = l1
        /\ bps' = AppliedBps(bs)
        /\ state' = "running"
        /\ trapped' = {}
        /\ hit' = NoHits

Cont ==
    /\ state = "stopped"
    /\ Resume(mem, bList, bps)
    /\ UNCHANGED <<program, temporary>>

(* finish with the backtrace heuristic and no hardware breakpoint left: a  *)
(* breakpoint at the return address r, unless there is one, which is       *)
(* enabled in the C library only.                                          *)
FinishBacktrace(r) ==
    /\ "finish" \in uses
    /\ state = "stopped"
    /\ "at ip" \in uses \/ ~Standing(r)
    /\ "overlap" \in uses \/ ~Overlaps(r)
    /\ \/ /\ ~Known(r)
          /\ Resume(RegisterPoke(mem, r), Register(bList, mem, r), PutBp(r))
          /\ temporary' = r
       \/ /\ Known(r) /\ BpAt(r).enabled
          /\ Resume(mem, bList, bps)
          /\ temporary' = NoAddr
       \/ /\ "finish disabled" \in uses
          /\ Known(r) /\ ~BpAt(r).enabled
          /\ Resume(Poke(mem, r, EntryAt(bList, r).patched_instruction), SetFlag(bList, r, TRUE), bps)
          /\ temporary' = NoAddr
    /\ UNCHANGED program

(* step: breakpoints count as disabled, the int3s are not in memory unless *)
(* just written; the wait that follows restores the memory.                *)
Step(t) ==
    /\ state = "stopped"
    /\ bps' = [i \in DOMAIN bps |-> [bps[i] EXCEPT !.disabled_for_step = TRUE]]
    /\ \E next \in 0..(MaxAddr + 1) :
          /\ Executes(mem, t, next)
          /\ "at ip" \in uses \/ ~(Known(next) /\ BpAt(next).changed /\ BpAt(next).enabled)
          /\ pc' = [pc EXCEPT ![t] = next]
    /\ skipped' = (skipped \/ mem[pc[t]] = "cc")
    /\ mem' = RestoreAll(mem, bList)
    /\ hit' = NoHits
    /\ UNCHANGED <<program, bList, state, trapped, temporary>>

(* step_until: any number of steps, nothing is restored in between, and an *)
(* int3 on the way is executed like any instruction.                       *)
StepUntil(t) ==
    /\ "step_until" \in uses
    /\ state = "stopped"
    /\ bps' = [i \in DOMAIN bps |-> [bps[i] EXCEPT !.disabled_for_step = TRUE]]
    /\ \E next \in Addrs : pc' = [pc EXCEPT ![t] = next]
    /\ skipped' \in {TRUE} \cup (IF mem[pc[t]] = "cc" THEN {} ELSE {skipped})
    /\ skipped' /\ ~skipped => \E a \in Addrs : mem[a] = "cc"
    /\ UNCHANGED <<mem, program, bList, state, trapped, hit, temporary>>

(* finish with the step-mode heuristic: prepare_for_run, steps that stop   *)
(* short of an int3 (the first step does not look, and the loop goes on    *)
(* behind the one that it has executed), and a restore.                    *)
FinishStepping(t) ==
    /\ "finish stepping" \in uses
    /\ state = "stopped"
    /\ \E mid \in [Threads -> 0..(MaxAddr + 1)], next \in 0..(MaxAddr + 1) :
          LET m1 == InstallAll(mem, bList)
          IN  /\ StepOver(mem, bList, mid)
              /\ \/ m1[mid[t]] = "cc" /\ next = mid[t] + 1
                 \/ ~(m1[mid[t]] = "cc" /\ m1[mid[t] + 1] = "cc") /\ next \in Addrs
              /\ pc' = [mid EXCEPT ![t] = next]
              /\ skipped' = (skipped \/ StepsOnInt3(mem, bList) \/ m1[mid[t]] = "cc")
              /\ mem' = RestoreAll(m1, bList)
    /\ UNCHANGED <<program, bList, bps, state, trapped, hit, temporary>>

(* The elements of s with an index in S, in their order. *)
Kept(s, S) == [i \in 1..Cardinality(S) |-> s[CHOOSE j \in S : Cardinality({k \in S : k <= j}) = i]]

(* detach: only enabled breakpoints are dropped, and nothing is restored. *)
Detach ==
    /\ state = "stopped"
    /\ bList' = Kept(bList, {i \in DOMAIN bList : ~(Known(bList[i].addr) /\ BpAt(bList[i].addr).enabled)})
    /\ bps' = Kept(bps, {i \in DOMAIN bps : ~bps[i].enabled})
    /\ state' = "free"
    /\ hit' = NoHits
    /\ UNCHANGED <<mem, program, pc, trapped, temporary, skipped>>

-------------------------------------------------------------------------------
(* The tracee runs. *)

Run(t) ==
    /\ state = "running"
    /\ t \notin trapped
    /\ \E next \in 0..(MaxAddr + 1) : Executes(mem, t, next) /\ pc' = [pc EXCEPT ![t] = next]
    /\ trapped' = IF mem[pc[t]] = "cc" THEN trapped \cup {t} ELSE trapped
    /\ UNCHANGED <<mem, program, bList, bps, state, hit, temporary, skipped>>

(* Mutant: the instruction pointer stays behind the int3. *)
ReportNoRewind(t) ==
    IF t \notin trapped THEN [bp |-> NoAddr, ip |-> pc[t]]
    ELSE IF Active(pc[t]) THEN [bp |-> pc[t], ip |-> pc[t]]
    ELSE IF pc[t] > 0 /\ Active(pc[t] - 1) THEN [bp |-> pc[t] - 1, ip |-> pc[t]]
    ELSE [bp |-> NoAddr, ip |-> pc[t]]

(* _handle_breakpoints: first a breakpoint at the instruction pointer (a   *)
(* hardware one, it is assumed), then one just before it.                  *)
Report(t) ==
    IF t \notin trapped THEN [bp |-> NoAddr, ip |-> pc[t]]
    ELSE IF Active(pc[t]) THEN [bp |-> pc[t], ip |-> pc[t]]
    ELSE IF pc[t] > 0 /\ Active(pc[t] - 1) THEN [bp |-> pc[t] - 1, ip |-> pc[t] - 1]
    ELSE [bp |-> NoAddr, ip |-> pc[t]]

(* wait: a thread has trapped, or something else stops the process; all    *)
(* the threads are stopped and the memory is restored.                     *)
Stop ==
    /\ state = "running"
    /\ state' = "stopped"
    /\ mem' = RestoreAll(mem, bList)
    /\ hit' = [t \in Threads |-> Report(t).bp]
    /\ pc' = [t \in Threads |-> Report(t).ip]
    /\ trapped' = {}
    /\ temporary' = NoAddr
    /\ IF temporary = NoAddr
       THEN UNCHANGED <<bList, bps>>
       ELSE bList' = Unregister(bList, temporary) /\ bps' = DelBp(temporary)
    /\ UNCHANGED <<program, skipped>>

-------------------------------------------------------------------------------
(* Specification. *)

Init ==
    /\ uses \in Scenarios
    /\ program = [a \in 0..(MaxAddr + WordSize) |-> "old"]
    /\ mem = program
    /\ bList = << >> /\ bps = << >>
    /\ pc \in [Threads -> Addrs \ BreakAddrs]
    /\ state = "stopped"
    /\ trapped = {}
    /\ hit = NoHits
    /\ temporary = NoAddr
    /\ skipped = FALSE

Actions ==
    \/ \E a \in BreakAddrs : SetBreakpoint(a)
    \/ \E a \in BreakAddrs, e \in BOOLEAN : Change(a, e)
    \/ \E a \in Addrs : WriteMemory(a)
    \/ Cont \/ Detach \/ Stop
    \/ \E a \in BreakAddrs : FinishBacktrace(a)
    \/ \E t \in Threads : Run(t) \/ Step(t) \/ StepUntil(t) \/ FinishStepping(t)

Next == Actions /\ UNCHANGED uses

Spec == Init /\ [][Next]_vars

-------------------------------------------------------------------------------
(* Properties. *)

(* What a script must refrain from. *)
Unaltered == uses \cap {"write", "finish disabled"} = {} /\ ~({"overlap", "disable"} \subseteq uses)
Careful == uses \subseteq {"disable", "finish"}

(* While the tracee runs, an int3 is in its code exactly where the script  *)
(* has an enabled breakpoint, whatever was set, enabled, disabled or       *)
(* re-armed before, and all other bytes are the program's own: also when   *)
(* the words of breakpoints overlap, unless one of them is disabled.       *)
Armed ==
    Unaltered /\ state = "running" =>
        \A a \in DOMAIN mem :
            mem[a] = (IF a \in Addrs /\ Known(a) /\ BpAt(a).enabled THEN "cc" ELSE program[a])

(* When the tracee has stopped the script reads the program's own bytes. *)
RestoredAtStop ==
    [][Unaltered /\ state = "running" /\ state' = "stopped" => mem' = program']_vars

(* A thread that ran into an int3 is reported to have hit the breakpoint   *)
(* of that address and stands on it again.                                 *)
HitAttributed ==
    [][Careful /\ state = "running" /\ state' = "stopped" =>
          \A t \in trapped : hit'[t] = pc[t] - 1 /\ pc'[t] = pc[t] - 1]_vars

(* Stepping over a breakpoint executes the original instruction, also when *)
(* the words of breakpoints overlap.                                       *)
OriginalExecuted ==
    Unaltered /\ uses \cap {"at ip", "step_until", "finish stepping"} = {} => ~skipped

(* The list stays ordered by address, holds every breakpoint the script    *)
(* knows of, and never took the int3 of a breakpoint for the instruction   *)
(* to restore, whatever the script does.                                   *)
ListConsistent ==
    /\ \A i, j \in DOMAIN bList : i < j => bList[i].addr < bList[j].addr
    /\ \A i \in DOMAIN bps : Listed(bList, bps[i].addr)
    /\ \A i \in DOMAIN bList : bList[i].instruction[0] # "cc"

===============================================================================
