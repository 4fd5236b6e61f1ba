# libdebug: TLA+ models, checks and proofs

libdebug is a Python library for scripted debugging of Linux programs (x86-64,
ptrace). This directory holds TLA+ models of its core logic, the TLC
configurations that check them, and proofs about the command protocol, the thread
registry, software and hardware breakpoints, the syscall handlers, the signals, the pipes,
the memory view, the address resolution and the instance manager.

Run a check with `tlc -config X.cfg MCModule`, the proofs of a module with
`tlapm XProofs.tla` (a few minutes for `InternalDebuggerProofs`, `SoftwareBreakpointsProofs`, `HardwareBreakpointsProofs` and
`ThreadRegistryProofs`, seconds to a minute for the others). `PROJECT.json` lists the components, the runs,
the source lines behind each definition, the hazards, the findings and the
theorems.

## 1. Inventory

| Component | State it keeps | Operations | Interacts with | What makes it correct |
|---|---|---|---|---|
| Command protocol (`internal_debugger.py`, `debugger_wrappers.py`, `resume_context.py`) | command and response queue, `instanced`, `is_running`, threads, resume context | run, attach, detach, kill, terminate, cont, interrupt, wait, step, step_until, finish, breakpoint, memory access | script thread and polling thread, through two `queue.Queue`s; the tracee, through signals and `waitpid` | no lost or foreign response, no ptrace request on a running tracee, methods return, flags tell the truth |
| Software breakpoints (C list, `ptrace_interface.py`, `breakpoint.py`) | ordered list of saved words, `Breakpoint` flags, the tracee's memory | set, enable, disable, step over, patch, restore, finish, detach | memory view, status handler | int3 exactly where wanted while running, original bytes otherwise, right attribution |
| Hardware breakpoints (`amd64_ptrace_hw_bp_helper.py`) | one register table and count per thread | install, remove, hit test, install on a new thread | thread registration, deferred changes in `cont` | registers = enabled breakpoints, on all threads |
| Syscall handling (`ptrace_status_handler.py`, `syscall_handler.py`) | handlers with `_has_entered`, `_skip_exit` | handle, hijack, enable, disable, pretty print | wait loop, threads | callbacks in their phase; loops of hijacks detected |
| Signals (`ptrace_status_handler.py`, `signal_catcher.py`, `thread_context.py`) | catchers, number per thread, list to forward, block list | catch, hijack, set, block, forward | wait loop, steps, breakpoints | each signal is delivered once, as its catchers changed it |
| Pipes (`pipe_manager.py`) | file descriptors | recv, recvuntil, sendafter, ... | the program, time | exact data, deadlines kept, calls return |
| Memory view (`memory_view.py`) | none | read, write by address, symbol, length, slice | command protocol (one command per word), address resolution | exact bytes, nothing beside them |
| Address and symbol resolution (`debugging_utils.py`, `elf_utils.py`, `process_utils.py`) | caches of maps, path of the program and symbols; `sym_lvl` | resolve an address, a symbol, a name for an address | memory view, breakpoints, backtrace; the polling thread drops the maps | what is answered is true of the process as it is now |
| Thread registry (`wait_all_and_update_regs`, `ptrace_status_handler.py`, `ptrace_interface.py`) | `threads`, the C list of threads with their registers | learn of clones, stops and deaths; kill, detach | everything above | both lists agree, the script gets all threads stopped, no wait in vain |
| Migration to gdb (`internal_debugger.py`, `ptrace_interface.py`) | none | detach, reattach, look for new threads | thread registry | registers are not overwritten, lists agree |
| Calls and returns (`step_until`, `stepping_finish` in C, `amd64_stack_unwinder.py`, `finish`) | none | finish in two heuristics, step_until, backtrace | breakpoints, memory | finish leaves one function, the backtrace is the call stack |
| Instance manager (`internal_debugger_instance_manager.py`, `internal_debugger_holder.py`) | weak dictionary of objects, global debugger, lock | link, provide, extend | constructors of all objects, several debuggers and their threads | every object finds its own debugger |
| Anti-debugging escape, logging and options, process start, tables | see `PROJECT.json` | | | |

The hard behaviours are: two threads around two blocking queues, with exceptions
crossing from one to the other; a tracee that stops, exits, or is killed at any
moment; batches of stops of several threads; changes that are only applied at
the next `cont`; threads that appear, stop and die between two system calls of the
debugger; answers cached in one thread and dropped in another; a kernel interface that reports stops without saying which
kind, and moves whole words; deadlines nested in one another. The hazards in
`PROJECT.json` name the line of each.

## 2. Modules

Each model keeps the control flow of the code and abstracts its data: an address
is a small number, a signal or a syscall a model value, a callback is what it
does to the thread.

Much in this library holds only for scripts that refrain from something. The
modules (all but the protocol, the pipes and the memory) have a variable `uses`, chosen in
`Init` from the constant `Scenarios` and never changed: the things a script (or the
program) does in this behaviour that the properties tell apart. An action that
belongs to a use is guarded by it, and a property that a use breaks is stated
under the condition (`Careful`, `Unaltered`) that it is absent; properties without
such a condition hold for every script. In `SignalForwarding` and `CallStack` a
scenario is a record that holds also the catchers and threads, or the program and its
breakpoints. Section 4 says what each use breaks, and why.

**InternalDebugger** models the protocol. An API method is a sequence of
micro-operations (`Body`, e.g. `StepBody` = wrapper, put step, put wait, join), each
of them one access to shared state; `prog` is what is left of the method. The
polling thread (`ppc`) goes through get, exec (one `Threaded...` action per command),
waitpid and decide for the wait loop, respond, taskdone and joinrsp, the steps of
`__polling_thread_function`. An exception is a return value of the polling thread,
raised in the script by `JoinAndCheckStatus`, caught by `kill` only. The tracee is
single-threaded and has the states the kernel tells apart; its stops carry what
the wait loop decides from (breakpoint with or without callback, raising callback,
signal, SIGSTOP, step trap). External: `queue.Queue`, the kernel.

**CommandService** is the abstract specification of the protocol: a server that
completes commands in the order of submission and answers at most once for each,
and whose answer is taken before the next command is answered or completed.
`InternalDebugger` states the refinement (`Service`, `ServiceSpec`): the pending
commands are the one the polling thread holds followed by the queue, the answer is the
content of the response queue, and the command in service is answered when the
polling thread is past its put.

**ThreadRegistry** composes the kernel's view of up to three threads (`st`, `stat`,
pending SIGSTOPs, exit events, a process that must exit), the C list `tList` with
what its registers are worth (`fresh`), and the list of Python (`threads`, `dead`).
The debugger is a program counter that goes through `wait_all_and_update_regs` call by
call (first waitpid, GETREGS, tgkill and waitpid of each other thread, polling without
blocking, registers), `manage_change` status by status, and `cont`, `step`,
`step_until`, `kill`, `detach` and the way to gdb and back; kernel and program act
between any two of them.

**InstanceManager** has the weak dictionary, the value by which an object is compared
(dataclasses by their fields, all others by identity), the debugger that really made
each object, and the threads inside `extend_internal_debugger`.

**SoftwareBreakpoints** has the tracee's memory (`mem`), what it would be without a
debugger (`program`), the C list (`bList`), the Python objects (`bps`) and the
threads' instruction pointers. `Cont` is the whole of `PtraceInterface.cont` and
`cont_all_and_set_bps`: deferred changes, steps over breakpoints, patches. `Stop` is
`wait_all_and_update_regs` followed by `_handle_breakpoints` for each trapped thread.

**HardwareBreakpoints** has the dictionary, the flags, the managers' tables, and the
real registers (`cpu`, `dr6`) separately, because the code lets them drift apart. A trap
stops a thread at some instruction pointer, and `HandleTrap` looks it up as
`_handle_breakpoints` does: there (`Here`), a byte before (`Before`), and in DR6 last.

**SyscallHandling** has the handlers and, for the truth, the syscall each thread is
really inside. `EnterStop` and `ExitStop` are what the kernel reports; the model of
`_handle_syscall` decides from `_has_entered` only, as the code does.

**SignalForwarding** has `_signal_number`, the list to forward, and, for the truth,
the signal each thread is due (`due`) and was handed (`delivered`).

**PipeManager** has a program that writes, a clock, and the loops of `_recvuntil`,
`_recvonceuntil` and `_recv` with their deadlines.

**Addresses** holds the pure look-ups: absolute and relative addresses, the file that a
name stands for, symbols by `sym_lvl`, the base of position-independent files, and
back from an address to a name. **MemoryView** has the loop over words of an access on
top of it. **AddressResolution** has the script that asks, in steps (maps read, maps kept,
resolved, process stopped, used), a process that maps memory, executes another
program or is started again, and the polling thread that drops the maps.

**CallStack** has a processor that runs a small program laid out in bytes, with a
stack, frame pointers and the truth about the frames; `stepping_finish`, `finish` by
`get_return_address`, `step_until` and the unwinder look at it as the code does, through
opcodes and a window of four bytes.

**MC...** modules give the constants their values. `MCScriptCalls` runs the protocol (with
every method and failure, and once more with automatic interrupts for liveness), the
pipes and the instance manager side by side, `MCTraceeViews` the three views of
a stopped process (memory, addresses, calls): these components share no state, and each
behaviour is about one part. `MCHijackLoops` has the handlers of syscalls and then, in the
same behaviour, those of signals. The **...Proofs** modules hold the proofs about the module of the same name,
**InternalDebuggerProofs** also those about `InstanceManager`, and **TraceeViewsProofs**
those about `MemoryView` and `AddressResolution`.

## 3. Passing runs

| Run | Shows |
|---|---|
| script_calls | five parts. All API methods (`attach` and `step_until` in a set of seven, the other eleven together), raising callbacks, failing starts, external kills, without `auto_interrupt_on_command`: the counts behind `Queue.join` are exact (`QueueAccounting`), `_peek_memory` gets its own response (`ResponseMatched`), ptrace requests meet a stopped tracee (`StoppedAccess`), synchronous methods return with the tracee not running (`SyncReturn`), and the queues implement `CommandService` (`ServiceSpec`). With `auto_interrupt_on_command`, `interrupt` and `kill` return (`InterruptsReturn`). Data, deadlines and sends of the receive calls (`UntilExact`, `RecvExact`), which return (`CallsReturn`). Every object finds the debugger that made it (`LinkedRight`); the global debugger is that of the thread inside the block (`GlobalRight`). No deadlock, except in the first two parts |
| breakpoints | two threads, three breakpoints: int3 exactly where wanted (`Armed`), program bytes at a stop (`RestoredAtStop`), both with overlapping words too; hits attributed (`HitAttributed`), originals executed (`OriginalExecuted`), an ordered list that never saves an int3 (`ListConsistent`) |
| syscalls | two threads, two syscalls: callbacks in their phase and when they should (`CallbacksRun`), entered flags right (`PhaseTracked`), loops of recursive hijacks detected exactly (`LoopExact`); for careless scripts too, no callback runs twice at a stop (`NoRepeat`) and a handler without callbacks leaves the process to the script (`StopsForScript`) |
| signals | two threads with simple catchers, blocked signals and signals set by the script: every resume delivers exactly what each thread is due (`ForwardedExactly`, `ListAgrees`); one thread with all catchers and all the other uses: a catcher without callback stops the process (`CaughtStops`), loops of recursive hijacks are detected exactly (`LoopExact`) |
| hardware | the count that guards the registers is right whatever happens, and for a careful script registers and detach are (`RegistersMatch`); the limit is raised rightly (`RaisedRightly`), hits of breakpoints in the dictionary are attributed to one that triggered and put no thread back, away from other breakpoints (`Attributed`) |
| views | reads and writes of any length, inside the maps, at their ends and across, by symbol and between symbols too: exact, and nothing beside the value and the range is touched (`ReadExact`, `WriteExact`); cached answers are those of fresh files (`AnswersCurrent`), a name resolves to its address again (`NamesResolve`); finish leaves one function (`FinishReturns`), the unwinder lists the functions the thread is in (`UnwindExact`), step_until counts instructions, with no limit, a limit of 0 and others (`StepsExact`) |
| threads | the lists of C and Python agree whatever happens (`ListsAgree`); the script gets a process whose threads are all known and stopped (`AllStopped`), no waitpid waits in vain (`WaitsAnswered`), no stale registers are written (`NoStaleWrite`), no batch raises and no breakpoint change finds an empty list (`NothingRaises`) |

`CHECK_DEADLOCK FALSE` stands where the script may end: after `terminate`, after an
exception left the script with nothing to do, after detach, when the debugged
process is gone or the program of `CallStack` has ended. `script_calls` runs with the
deadlock check: its first two parts, which may stop for ever (`mutual_wait`), may stutter,
the others may not. In `threads` a debugger that waits for ever
is not seen as a deadlock, because other threads may still run: `WaitsAnswered` states
it as an invariant.

### Bounds and why they are enough

- `MaxBacklog = 1` (commands in the queue when a method is called): a method that
  ends with an exception leaves at most its own commands behind, and one is enough
  to meet every order of stale and new responses. `attach` begins like `run`, and
  `step_until` is queued like `finish`, so that they are checked in a part of their own,
  with five other methods. The theorems need no bound, and hold for all methods together.
- Breakpoints: words of two bytes, code of four, breakpoints at three adjacent
  addresses. What matters is whether words overlap, in which order, and whether
  addresses are adjacent. The scenarios are in `MCSoftwareBreakpoints`.
- Hardware: two registers for three places, so that the limit is reached, and a
  fourth breakpoint that shares a place and that the kernel refuses. A second
  thread starts and ends. Three instruction pointers stand at and around the places of
  the breakpoints. What `dr6` holds from before is kept only in the scenario
  in which something reads it.
- Syscalls and signals: two of each and two threads (a second thread is what one
  shared flag or one list can confuse); a chain of two hijacks is the shortest loop.
- Pipes: four bytes with a two-byte delimiter that overlaps itself, timeouts of 0
  and 1 tick, two occurrences, of which the second is looked for as a single one would be
  (`MaxBytes` bounds what the program writes).
- Memory: words of four bytes, keys shorter, equal and longer than one and two
  words, two maps with a hole between them, one write (`MaxWrites`). `ReadExact`
  leaves aside keys that mean no range (`Meaningful`): a negative size, a slice from a
  symbol to a number, or a slice with one bound relative to a file and one absolute. They are
  among the keys of the run, and `WriteExact` holds for them too.
- Addresses: two programs, one position-independent, whose maps move and to which a
  library is added; one symbol in each of the three places where symbols are looked for.
- Calls: three functions, one of which calls the others in turn and one of which may
  call itself up to `MaxStack` words of stack; software and hardware breakpoints in the
  function that is left, on the way and behind it.
- Threads: three, of which two start while the debugger runs; a batch then holds the
  clone event of one and the first stop or death of another in each order. An id is
  used once. The theorems need no bound.
- Instances: two debuggers, two handlers and another object, since what is confused is
  confused between two, and only handlers are compared by their fields. The theorems need no bound.

Symmetry: threads in `signals`, all but the main thread in `threads`. No action or property distinguishes their members.

### Fairness

All in `script_calls`. Protocol: weak fairness of the script inside a method and of the
polling thread (the interpreter schedules both), strong fairness of the delivery of a pending
SIGSTOP (the kernel delivers it, even if the tracee keeps stopping for other
reasons). The script is not obliged to call anything, the tracee neither to stop
nor to exit. Pipes: weak fairness of the library's code and of time; none
of the program.

## 4. What a script must refrain from

Five runs show a disagreement between the code and what the repository says of it;
`findings` in `PROJECT.json` quotes the lines.

- `mutual_wait`: `step()` queues its step and its wait together. If the step raises
  (the process was killed from outside), the polling thread waits for its exception
  to be taken while the script waits for the second command.
- `syscall_threads`: `_has_entered` belongs to the handler. When a second thread
  enters the syscall that the first is in, its entry is taken for an exit.
- `hijack_loops`: a loop of hijacks raises only if they are recursive, which is not the
  default. The documentation's examples, of syscalls and of signals, leave the argument
  out and are said to raise.
- `short_write`: `write` goes by the length of the value. The rest of a longer range
  keeps its bytes, where the documentation promises zeros.
- `traps_beside`: every SIGTRAP is looked up at the instruction pointer and, if nothing is
  there, a byte before, and DR6 is read last. A watchpoint that triggers by an instruction that ends
  at an enabled breakpoint, or by a one-byte instruction that carries one (a `push` to a
  watched word), counts as a hit of that breakpoint and not as its own; in the second case
  the thread is also put back before the instruction. The look-up is one for all
  breakpoints; `SoftwareBreakpoints` has no watchpoints, so the run is about those of debug
  registers.

The uses of the modules are the other limits that the models found. Weakening the
condition of the property in the table (dropping the use from `Careful`, `Unaltered`
or the run's constant) lets TLC show the behaviour.

| Module | Use | Fails | Why |
|---|---|---|---|
| SoftwareBreakpoints | at ip | `OriginalExecuted` | the int3 is written at once; the step over it at the next `cont` executes it |
| | overlap | `HitAttributed` | after an int3 a breakpoint at the next address is taken for a hardware hit |
| | overlap with disable | `Armed` | disabling writes back the whole saved word, the neighbour's byte included |
| | write | `RestoredAtStop` | bytes written near a breakpoint are overwritten with the word saved before |
| | finish disabled | `Armed`, `HitAttributed` | `finish` arms a disabled breakpoint in the C list only; its hit is not recognised |
| | step_until, finish stepping | `OriginalExecuted` | single steps over memory that may still hold an int3 |
| HardwareBreakpoints | again | `RegistersMatch` | enabling twice between two `cont`s takes a second register |
| | limit, swap | `RaisedRightly`, `RegistersMatch` | changes are applied in dictionary order; after an error the rest is dropped, its flags already cleared |
| | clone disabled | `RegistersMatch` | a new thread gets the disabled breakpoints too |
| | pending | `RegistersMatch` (detach) | detach looks at `enabled`, not at what is in the registers |
| | together | `Attributed` | only the lowest register that DR6 names is reported |
| | other trap | `Attributed` | DR6 is never cleared |
| | refused | `RegistersMatch` | the result of the poke is unsigned, so -1 is not seen |
| | same | `Attributed` | the dictionary entry is replaced, the register is not |
| | beside | `Attributed` | the look-up by address comes before DR6: see `traps_beside` |
| SyscallHandling | same | `CallbacksRun` | see above |
| | step | `CallbacksRun` | a step leaves the syscall without an exit stop |
| | inside | `CallbacksRun` | a handler set or toggled inside its syscall has no `_has_entered`: the exit is taken for an entry |
| | no return | `CallbacksRun` | a thread that ends inside a syscall leaves `_has_entered` set |
| SignalForwarding | step | `ForwardedExactly` | the SIGTRAP of the step overwrites the number to forward |
| | step until | `ForwardedExactly` | the status of the wait is ignored, the next single step drops the signal |
| | at breakpoint | `ForwardedExactly` | the step over a breakpoint reaps a signal stop and continues without it |
| | in callback | `ForwardedExactly` | the number of the stop is written after the callback set another |
| ThreadRegistry | leader | `WaitsAnswered` | the death of a main thread that ends first is not reported before the others are reaped; the loop that stops the threads waits for it |
| | exits with step | `WaitsAnswered` | a step takes the main thread past its exit event while the others are kept stopped: it ends first, as above |
| | sudden | `WaitsAnswered`, `NothingRaises`, `AllStopped` | SIGKILL or exit_group in the middle of a batch: the thread of a clone event is gone when it is waited for |
| | until | `AllStopped`, `WaitsAnswered`, `NothingRaises` | the waitpid of step_until takes clone events and deaths that no one handles |
| | change with step | `NothingRaises` | the last thread may die in the step; the pending change then dereferences the head of an empty list |
| | gdb | `AllStopped`, `NothingRaises` | the ptrace options are not set again, so later clones go unnoticed, and a second migration stumbles over the unknown thread |
| | gdb threads | `AllStopped`, `NothingRaises` | `check_for_new_threads` passes two arguments to a method that takes one |
| | gdb runs | `NoStaleWrite` | the threads are attached while they run, GETREGS fails, and the next resume writes the registers of before |
| AddressResolution | early | `AnswersCurrent`, `NamesResolve` | `d.memory[...]` resolves before the process is stopped, and the maps it read may be kept after the polling thread dropped them |
| | another, exec | `AnswersCurrent` | the path of the program is cached for ever |
| | levels | `AnswersCurrent`, `NamesResolve` | so are symbol answers, at `sym_lvl` 0 as hexadecimal text |
| CallStack | anywhere | `FinishReturns` | at the return instruction itself the first step has left the function already; in an epilogue the frame pointer is the caller's |
| | prefixed | `FinishReturns` | a call with a REX prefix is not counted, its return is |
| | rep | `FinishReturns` | an instruction that repeats is seen again at the same address |
| | recursive | `FinishReturns` (backtrace), `UnwindExact` | the breakpoint at the return address is reached by an inner call first; a return address equal to the next is not inserted |
| InstanceManager | equal | `LinkedRight` | equal handlers are one key: the second takes over the entry, and the end of the first removes it |
| | raises | `GlobalRight` | the reset after the `yield` is skipped |

Further limits are written into the properties themselves, or follow from the
actions:

- After the RuntimeError of a loop of hijacks (`mode = "error"`) `SyscallHandling` and
  `SignalForwarding` end: the rest of the batch is not handled, the process stays
  stopped, and what the script then makes of it is not considered.
- Turning pretty printing off removes a user's handler that has no callbacks
  (`DisablePrettyPrint`).
- `finish` with step-mode from one software breakpoint to another executes the int3 of the
  second in its loop (`GoodToStep` in `CallStack`; `SoftwareBreakpoints` follows the loop
  over it, in the use finish stepping).
- A hardware `breakpoint()` that fails with the limit on one thread leaves the breakpoint in
  the registers of the threads before it, and nothing removes it: a later breakpoint at the
  same address is taken for it (`Attributed`).
- `recv(0)` reads whatever is there, and when the program ends during `recv(n)` the
  read of the pseudoterminal fails and what was read is lost (`ReadFails`).
- The last bytes of a map cannot be read when their word is not whole (`CanPeek`), a
  slice up to the end of a map is refused (`ResolvedSize`), and a write that runs out
  of a map is not reported (`Poke`).
- A callback that raises leaves `running` true on a stopped process; `kill()` twice and
  then `run()` clears the context while the polling thread is busy; a signal during
  `step()` is forwarded with a `cont`; `step_until` past the exit leaves `dead` false;
  without `auto_interrupt_on_command` `kill()` waits for the process to stop by itself.

## 5. Proofs

`InternalDebuggerProofs` proves for every set of API methods, every setting of the
switches and every backlog (`CallsAssumption`):

- `TypeCorrect`: `Spec => []TypeOK`;
- `QueuesAccounted`: `Spec => []QueueAccounting`. The count of unfinished commands
  is the length of the queue plus one while the polling thread holds a command; the
  count of responses is the length of that queue; a response is out only between
  the polling thread's put and the end of its join, and then it is the only one.
- `ImplementsService`: `Spec => ServiceSpec`. Every step of the script, the polling
  thread and the tracee is a step of `CommandService` or leaves its variables alone.

`TypeOK` and `QueueAccounting` are not inductive alone: the accounting of `task_done`
needs that the polling thread comes to it from a command, and the response that it
publishes must not be `None`, or it would skip the join. `IndInv` is `TypeOK /\
QueueAccounting /\ PollingData`, where `PollingData` says that a busy polling thread has
a command and one about to respond has something to say. The proof splits the state
into what the script changes (`ScriptType`: the rest of the method is a sequence of
micro-operations), what the protocol changes (`ProtocolInv`) and the flags and the
tracee (`StateType`), each preserved by each action; the bodies of the methods are
shown to be sequences first (`BodyType`). The refinement uses `ProtocolInv` where it
matters: that at most one response is out makes the polling thread's put an `Answer` on
an empty place, and that it joins before the next `get` makes `Complete` wait for the
client.

Its second part proves, with the same generality, the three properties that depend on
what the methods do before and after they queue a command:

- `StoppedWhenAccessed`: `Spec => []StoppedAccess`;
- `SynchronousReturn`: `Spec => []SyncReturn`;
- `PeekAnswered`: `Spec => []ResponseMatched`.

The script checks `is_running` long before the command that relies on it is executed, and
may have left commands of an earlier method in the queue. What the check really
gives is `CalmAt(i)`: when the i-th queued command is reached the tracee is at rest,
because it is now, or a kill comes first, and nothing that sets it going stands
between. `SafeInv` says who has that promise: the rest of the method, if it has a
command that relies on it without a check of its own before it (`Promise`), and each
queued command that needs it (`Kept`). It holds because a tracee without such a promise
is visible: `is_running` is set, or the script is just about to wait (`Visible`). That
is an invariant only together with where the script is while a `cont` or a `step` is
under way (`Waiting`, `Continued`), who will wait for a tracee that runs (`Attended`),
that a kill belongs to a debugger that is being left (`Killing`), what the wait loop
and a failed command leave behind (`Served`), and what a method ends with (`Returned`,
`Peeking`). There are too many rests of methods to list, since
`ensure`, `interrupt`, `waitmore` and `kill?` put other operations in their place; `Shaped` says of any such rest
which operation follows which, and is shown for each method when it is called (`Fresh...`)
and for each replacement (`Shaped...`). The steps are then grouped by what they
do to the argument (`Passes`, `Quits`, `Expands`, `Sets`, `Puts`, `Begins` of the script;
`Loops`, `Ends` of the polling thread), and each conjunct is shown for each group.

`ThreadRegistryProofs` proves for any set of threads (`ThreadsAssumption`):

- `TypeCorrect`: `Spec => []TypeOK`;
- `ThreadListsAgree`: `Spec => []ListsAgree`, without a condition on the script;
- `RegistersOwn`: `Spec => []NoStaleWrite`;
- `ThreadsStopped`: `Spec => []AllStopped`;
- `WaitsAreAnswered`: `Spec => []WaitsAnswered`;
- `NothingIsRaised`: `Spec => []NothingRaises`.

`ListsAgree` is preserved by a registration only if the child of a clone event is not
registered yet. So `PendingInv` follows a clone event from the kernel to its status in
the batch: it is handled once, its child is the child of no other event and not
registered, and the thread stays in its stop until then, so that the kernel does not
overwrite the child. The first stop of a child may be in the same batch, before or after
its clone event; the proof shows that neither order registers it twice.
`FreshInv` carries `NoStaleWrite` through the collection of a batch: every registered thread
that is not still to be stopped is settled (it stops again at most for its exit), and from
the moment the batch is handled its registers have been read. `KernelInv` and
`BatchInv` hold what both need of the kernel and of the program counter.

The last three theorems are about threads that the debugger does not know yet and about
waits that the kernel still has to answer, on which those invariants say nothing. They
need a second one, `StopsInv`. Its core, `Good`, holds at every place of the wait loop as
long as nobody has dropped a status (`Calm`):

- `TracedInv`: a traced thread is registered or the child of a clone event that is still to
  be handled, and a child has yet to stop or its first stop is on the way (`Offspring`,
  `Adopted`);
- `QuietInv`: a thread that the loop is done with stays where it is, so that at the end of
  the batch all registered threads are stopped or gone;
- `DeathInv`: a registered thread that is gone has its death in the batch (`ExitSeen`), and
  the main thread is the last to go;
- `WaitInv`: what a waitpid waits for can still happen;
- `LeaderInv`: the main thread ends with the process or after the others, so that none is
  left in a stop behind it.

`OrderInv` adds that the loops of the C code come to the main thread last, `KillInv` what
`kill` leaves behind, and `RaiseInv` when a batch may raise. No part is inductive alone:
that a stop arrives depends on the thread being traced, this on its clone event being
handled, and this on the batch that holds the earlier stop.

`SoftwareBreakpointsProofs` proves for every word size of at least two bytes, code of
any length, and any number of threads, breakpoints and scenarios (`BreakpointsAssumption`):

- `ListStaysConsistent`: `Spec => []ListConsistent`;
- `ArmedWhileRunning`: `Spec => []Armed`;
- `StepsExecuteOriginal`: `Spec => []OriginalExecuted`;
- `MemoryIsRestored`: `Spec => RestoredAtStop`, an action property;
- `HitsAreAttributed`: `Spec => HitAttributed`, an action property.

A word is larger than an int3, so that putting one in place and putting the
saved word back touch bytes that other breakpoints own. The lemmas compute, byte by
byte, what one pass over the list leaves (`PokeSeqIs`, then `InstallIs`, `RestoreIs`,
`AppliedIs`): the word that is written last over a byte decides it, and in a list ordered by address
that is the word of the highest address that covers it. From this follows what
the program needs: when either no two words overlap (`Apart`) or every breakpoint of the list
is enabled (`AllOn`), installing gives int3 at the enabled addresses and the
program's bytes elsewhere (`InstallRunning`), and restoring gives the program back
(`RestoreProgram`, `RestoreAt`). `Inv` holds what makes this survive the next step: every
int3 in memory or in a saved word is that of an entry of the list (`LiveInv`); the saved
words and memory differ from the program by such an int3 only, and flags and list agree
except for deferred changes (`UnalteredInv`); the temporary breakpoint of `finish` is
listed and enabled until the stop that removes it (`TempInv`); no thread stands on an
int3, one still to be applied included (`PlainInv`); and for each trapped thread an int3 was
really at the address before its instruction pointer (`TrapInv`). Each action is split
where the code is: deferred changes, steps over breakpoints, patches (`Ready`,
`ResumeInv`), and the stop.

`HardwareBreakpointsProofs` proves for any number of debug registers, breakpoints and
threads (`HardwareAssumption`):

- `RegistersHoldEnabled`: `Spec => []RegistersMatch`;
- `RaisesForTheLimit`: `Spec => []RaisedRightly`;
- `HitsFindTheirBreakpoint`: `Spec => []Attributed`.

A call to the interface works through breakpoints and, for each, through threads, and an
exception leaves both loops half done. `InstallRow` and `RemoveRow` say what becomes
of one manager, `InstallIs` and `RemoveIs` of a line of threads, and `HandleAllIs` unwinds the loop
over the dictionary. Whatever the script does, a manager counts right, and the thread
holds in each register what the manager thinks or nothing (`RowOK`, `ManagersRight`): this
is enough for the free register that `install_breakpoint` looks for, and for a hit to be
found: a trap with no other enabled breakpoint at the instruction pointer or a byte
before it finds the one that triggered at the instruction pointer or in DR6
(`HandleBreakpointsIs`, `TrapReport`). A script that counts the registers has more (`NiceInv`): the managers of all
threads hold the same set (`Holds`), which is that of the enabled breakpoints corrected by
the flags still to be acted upon (`Acted`), and this set and all that are wanted
(`Wanted`) fit into the registers. The second is what makes `cont` safe: it acts in
dictionary order, which may install before it removes, and between the two the managers
hold more than before or after. `CarefulInv` adds that the kernel accepted
everything. The proof corrected the model: without a condition on the script a breakpoint
of the dictionary may be blamed for another one at its address. A second breakpoint
there that replaced the entry is one way (`same`); a `breakpoint()` that met the limit on
one thread only is the other, since what it installed on the threads before stays in
their registers and not in the dictionary. TLC finds it with five
breakpoints, two of them at one address. So `Attributed` speaks of traps of breakpoints
in the dictionary (`report.triggered \subseteq Listed`).

`SyscallHandlingProofs` proves for any threads and any finite set of syscalls
(`SyscallsAssumption`):

- `PhasesTracked`: `Spec => []PhaseTracked`;
- `CallbacksRunRight`: `Spec => []CallbacksRun`;
- `NoCallbackTwice`: `Spec => []NoRepeat`;
- `LoopsDetected`: `Spec => []LoopExact`;
- `LeavesToScript`: `Spec => StopsForScript`, an action property.

`_manage_syscall_on_enter` calls itself, and the model follows it with a recursive
function. That this function has a value is proved for this function: a chain never goes on to a syscall
that it has met, so the syscalls not yet hijacked become fewer (`Deeper`,
`Recursion`, `ManageIs`); what is wrong at some place of the recursion is wrong at
one from which all further places are right (`PlaceInduction`). By the same
induction a chain runs no callback twice, notes the entry in the handler of the
syscall that it ends with, and is an error exactly when the hijacks stay in a set of
syscalls hijacked to one another (`ManageOnEnterIs`). The invariant `Inv` says, for a
careful script, that the handlers know which syscalls the threads are in (`Tracked`), that `_skip_exit` is set
exactly where a thread was diverted to (`Skipped`), that no two threads are in one
syscall (`Alone`), and that syscall stops are asked for as long as a thread is in a syscall
(`Asked`): without the last, `cont` would let the thread leave the syscall and its
handler would take the next entry for an exit. `NoRepeat` and `StopsForScript` need no careful
script and rest on the types alone.

`SignalForwardingProofs` proves for any threads, signals and catchers (`SignalsAssumption`):

- `SignalsListed`: `Spec => []ListAgrees`;
- `CatcherLeavesStopped`: `Spec => []CaughtStops`;
- `HandedOver`: `Spec => ForwardedExactly`, an action property;
- `LoopsDetected`: `Spec => LoopExact`, an action property.

The list and the numbers agree in the middle of a batch only because a thread whose
stop is still to be reported is not in the list (`ForwardInv`), or its SIGTRAP would
take the place of its signal; and a number stays because its thread has been
reported already (`HitInv`). The chain of hijacked signals is treated like that of
syscalls (`ManageIs`, `OnCaughtIs`, `HandleSignalIs`).

`PipeManagerProofs` proves for every delimiter, timeout and program (`PipeAssumption`)
`RecvCorrect`: `Spec => []RecvExact`, and `UntilKeepsAll`, the part of `UntilExact` that does not
need to know what the delimiters are: a `recvuntil` loses no byte on the way through its
three buffers, and a `TimeoutError` comes only after the time of the caller, because each
inner deadline ends no earlier than the one around it (`UntilInv`).

`TraceeViewsProofs` is about two modules. For every word size, memory, key and map
(`MemoryAssumption`) it proves `ReadsExactly`: `Spec => []ReadExact` and `WritesExactly`:
`Spec => []WriteExact`. The loop invariant is that the access is at a word boundary and
what lies before it has been moved (`Reading`, `Writing`), and of a write also that
nothing but bytes of the value has changed (`Written`, from which `WriteExact` follows); the lemmas about
multiplication and remainder say that the words and the rest cover the size exactly. For
every layout, symbol table and query (`TablesAssumption`) it proves `CachesInvisible`:
`AddressSpec => []AnswersCurrent`. `Kept` says of each cache when it is true: the symbols
and names always, the path as long as the program stays, and the maps from the moment the
process is waited for until it runs on.

The third part of `InternalDebuggerProofs` is about `InstanceManager` and proves for every
number of debuggers, objects and handlers (`InstancesAssumption`):

- `ObjectsLinked`: `InstancesSpec => []LinkedRight`;
- `GlobalExclusive`: `InstancesSpec => []GlobalRight`.

The inductive invariant `InstancesInv` adds to the types that at most one thread is inside the
block and the lock is taken then (`Exclusive`), that without exceptions no global
debugger is set when no thread is inside (`Unlocked`), that the thread inside finds its own debugger
in the global (`InsideRight`), and what the dictionary holds: an object that is
compared by identity has its own entry and its own value (`OwnedRight`), and, unless two
handlers may be equal, the addresses of two handlers differ, so that no change
of fields can make one the key of another (`HandlersRight`). Without the last two,
`LinkedRight` says nothing about the next `link_to_internal_debugger`.

The assumptions on constants that these proofs use are stated in the modules that declare
them, and TLC evaluates them in the runs.

Only model-checked:

- `InterruptsReturn`, `CallsReturn` and the absence of deadlock: liveness and ENABLED are
  out of the prover's reach.
- `UntilExact` beyond what `UntilKeepsAll` says: what a delimiter is in a string is
  defined recursively.
- `FinishReturns`, `UnwindExact`, `StepsExact`: they compare with a walk over the stack or
  the program of unbounded length.
- `NamesResolve`: it holds for tables in which no name stands twice and files that are
  mapped in one piece, which is how the run's tables are.

## 6. What comes next

- Memory with breakpoints as a refinement of plain program memory and a set of armed
  addresses.
- Breakpoints that are set again after gdb, in a composition of the thread registry
  with the breakpoint modules.

## 7. Not modelled

Register contents and accessors, the parsing of ELF and DWARF files and the download
from debuginfod, process start below `run` (posix_spawn, jumpstart), the terminal and
the command line of gdb, logging, printing and tables: they are pure I/O, generated
accessors or static data without effect on the properties above. The values that the
anti-debugging escape fakes and the arguments of hijacked syscalls are register
contents too. `align_to` other than 1 has no caller. The programs under `examples/` are
users of the library. A fork event only drops the signal; the forked process is not
the debugged one.
