------------------------ MODULE InternalDebuggerProofs ------------------------
(***************************************************************************)
(* Proofs about the command protocol, for every value of the constants:    *)
(* type correctness, the accounting of the two queues and the service that *)
(* they implement; then what the script may rely on: the tracee is stopped *)
(* when a ptrace request needs it to be, a synchronous method returns with *)
(* the tracee not running, and a peek gets its own response.  Last, about  *)
(* the instance manager, for any number of debuggers, objects and          *)
(* addresses: every object finds the debugger that made it.                *)
(***************************************************************************)
EXTENDS InternalDebugger, InstanceManager, Integers, TLAPS

Ops == MicroOps \cup Commands
Response == [from : Commands, value : Returns \ {"None"}]

(* What the polling thread carries between two of its steps. *)
PollingData ==
    /\ Busy => cmd \in Commands
    /\ ppc = "respond" => ret # "None"

IndInv == TypeOK /\ QueueAccounting /\ PollingData

-------------------------------------------------------------------------------
(* The bodies of the API methods are sequences of micro-operations. *)

LEMMA ConcatType == ASSUME NEW s \in Seq(Ops), NEW t \in Seq(Ops) PROVE s \o t \in Seq(Ops)
  OBVIOUS

LEMMA WrapperType ==
    /\ ProcessWrapper \in Seq(Ops) /\ ThreadWrapper \in Seq(Ops)
    /\ WaitBody \in Seq(Ops) /\ KillBody \in Seq(Ops) /\ InterruptBody \in Seq(Ops)
    /\ AttachBody \in Seq(Ops)
  BY DEF Ops, MicroOps, Commands, ProcessWrapper, ThreadWrapper, WaitBody, KillBody,
         InterruptBody, AttachBody

LEMMA RunBodyType == RunBody \in Seq(Ops)
<1> DEFINE a == <<"kill?", "clear", "instance", "empty?", "run">>
           b == IF EscapeAntidebug THEN <<"set">> ELSE << >>
           c == <<"join", "pipe?">>
<1>1. a \in Seq(Ops) /\ c \in Seq(Ops) /\ <<"set">> \in Seq(Ops) /\ << >> \in Seq(Ops)
  BY DEF Ops, MicroOps, Commands
<1>3. b \in Seq(Ops)
  BY <1>1, Zenon
<1> HIDE DEF a, b, c
<1>2. (a \o b) \o c \in Seq(Ops)
  BY <1>1, <1>3, ConcatType
<1> QED BY <1>2 DEF RunBody, a, b, c

LEMMA BodyType == ASSUME NEW c \in AllCalls PROVE Body(c) \in Seq(Ops)
<1>1. /\ <<"cont", "join", "wait">> \in Seq(Ops)
      /\ <<"ensure", "step", "wait", "join">> \in Seq(Ops)
      /\ <<"step_until", "join">> \in Seq(Ops)
      /\ <<"finish", "join">> \in Seq(Ops)
      /\ <<"set", "join">> \in Seq(Ops)
      /\ <<"instanced?", "ensure", "detach", "join">> \in Seq(Ops)
      /\ <<"terminate", "jointhread">> \in Seq(Ops)
      /\ <<"instanced?", "ensure", "peek", "joincmd", "getrsp">> \in Seq(Ops)
  BY DEF Ops, MicroOps, Commands
<1>2. /\ ContBody \in Seq(Ops) /\ StepBody \in Seq(Ops)
      /\ ThreadWrapper \o <<"step_until", "join">> \in Seq(Ops)
      /\ ThreadWrapper \o <<"finish", "join">> \in Seq(Ops)
      /\ ProcessWrapper \o <<"set", "join">> \in Seq(Ops)
  BY <1>1, ConcatType, WrapperType DEF ContBody, StepBody
<1> QED
  BY <1>1, <1>2, WrapperType, RunBodyType DEF Body, AllCalls

-------------------------------------------------------------------------------
(* How a micro-operation leaves the rest of the method. *)

ScriptType == prog \in Seq(Ops) /\ outcome \in {"ok", "raised"}

LEMMA ContinueType == ASSUME ScriptType, prog # << >>, Continue PROVE ScriptType'
  BY DEF ScriptType, Continue

LEMMA ContinueWithType ==
    ASSUME ScriptType, prog # << >>, NEW ops \in Seq(Ops), ContinueWith(ops) PROVE ScriptType'
<1>1. Tail(prog) \in Seq(Ops)
  BY DEF ScriptType
<1>2. ops \o Tail(prog) \in Seq(Ops)
  BY <1>1, ConcatType
<1> QED BY <1>2 DEF ScriptType, ContinueWith

LEMMA RaiseType == ASSUME ScriptType, NEW e, Raise(e) PROVE ScriptType'
<1>1. << >> \in Seq(Ops)
  OBVIOUS
<1>2. CASE ~Caught(e)
  BY <1>1, <1>2 DEF ScriptType, Raise
<1>3. CASE Caught(e)
  <2> DEFINE i == CHOOSE j \in DOMAIN prog : prog[j] = "catch"
  <2>1. i \in DOMAIN prog
    BY <1>3, Zenon DEF Caught
  <2>2. AfterCatch = SubSeq(prog, i + 1, Len(prog))
    BY DEF AfterCatch
  <2> HIDE DEF i
  <2>3. i \in 1..Len(prog)
    BY <2>1 DEF ScriptType
  <2>4. SubSeq(prog, i + 1, Len(prog)) \in Seq(Ops)
    BY <2>3 DEF ScriptType
  <2> QED BY <1>3, <2>2, <2>4 DEF ScriptType, Raise
<1> QED BY <1>2, <1>3

-------------------------------------------------------------------------------
(* The script's thread. *)

(* The variables that the queues and the polling thread are made of. *)
protocolVars == <<cmdQ, cmdUnfinished, rspQ, rspUnfinished, ppc, cmd, ret>>

LEMMA CallType == ASSUME TypeOK, NEW c \in Calls, Call(c) PROVE ScriptType' /\ call' \in Calls
<1>1. c \in AllCalls
  BY CallsAssumption
<1> QED BY <1>1, BodyType DEF Call, ScriptType

LEMMA MainScript == ASSUME TypeOK, Main PROVE ScriptType' /\ call' \in Calls \cup {"none"}
<1> USE DEF At
<1>s. ScriptType /\ call \in Calls \cup {"none"}
  BY DEF TypeOK, ScriptType, Ops
<1>q. <<"join">> \in Seq(Ops) /\ <<"sigstop">> \in Seq(Ops) /\ <<"wait", "join">> \in Seq(Ops)
  BY DEF Ops, MicroOps, Commands
<1>b. /\ InterruptBody \o <<"join">> \in Seq(Ops)
      /\ <<"sigstop">> \o WaitBody \in Seq(Ops)
      /\ KillBody \in Seq(Ops)
  BY <1>q, ConcatType, WrapperType
<1>1. CASE \E c \in Calls : Call(c)
  BY <1>1, CallType
<1>2. CASE CheckInstanced
  BY <1>s, <1>2, ContinueType, RaiseType DEF CheckInstanced
<1>3. CASE CheckAlive
  BY <1>s, <1>3, ContinueType, RaiseType DEF CheckAlive
<1>4. CASE EnsureProcessStopped
  BY <1>s, <1>b, <1>q, <1>4, ContinueType, ContinueWithType DEF EnsureProcessStopped
<1>5. CASE Interrupt
  BY <1>s, <1>b, <1>5, ContinueType, ContinueWithType DEF Interrupt
<1>6. CASE SendSigstop
  BY <1>s, <1>6, ContinueType, RaiseType DEF SendSigstop
<1>7. CASE WaitMore
  BY <1>s, <1>q, <1>7, ContinueType, ContinueWithType, RaiseType DEF WaitMore
<1>8. CASE JoinAndCheckStatus
  BY <1>s, <1>8, ContinueType, RaiseType DEF JoinAndCheckStatus
<1>9. CASE JoinCommands
  BY <1>s, <1>9, ContinueType DEF JoinCommands
<1>10. CASE GetResponse
  BY <1>s, <1>10, ContinueType, RaiseType DEF GetResponse
<1>11. CASE \E c \in Commands : Put(c)
  BY <1>s, <1>11, ContinueType DEF Put
<1>12. CASE KillPrevious
  BY <1>s, <1>b, <1>12, ContinueType, ContinueWithType DEF KillPrevious
<1>13. CASE EndTry \/ ClearInstanced \/ ClearAndReset \/ SetInstanced \/ JoinThread
  BY <1>s, <1>13, ContinueType
     DEF EndTry, ClearInstanced, ClearAndReset, SetInstanced, JoinThread
<1>14. CASE ClosePipe
  BY <1>s, <1>14, ContinueType, RaiseType DEF ClosePipe
<1>15. CASE CheckQueueEmpty \/ CheckPipe
  BY <1>s, <1>15, ContinueType, RaiseType DEF CheckQueueEmpty, CheckPipe
<1> QED
  BY <1>1, <1>2, <1>3, <1>4, <1>5, <1>6, <1>7, <1>8, <1>9, <1>10, <1>11, <1>12, <1>13, <1>14,
     <1>15 DEF Main

(* The types of the flags, of the resume context and of the tracee. *)
StateType ==
    /\ instanced \in BOOLEAN /\ is_running \in BOOLEAN
    /\ threads \in BOOLEAN /\ dead \in BOOLEAN
    /\ pipe \in {"none", "open", "closed"} /\ detached \in BOOLEAN
    /\ resume \in BOOLEAN /\ force_interrupt \in BOOLEAN /\ is_a_step \in BOOLEAN
    /\ proc \in Procs /\ event \in Events /\ sigstop \in BOOLEAN /\ child \in BOOLEAN

(* The types of the queues and of the polling thread. *)
ProtocolType ==
    /\ cmdQ \in Seq(Commands) /\ cmdUnfinished \in Nat
    /\ rspQ \in Seq(Response) /\ rspUnfinished \in Nat
    /\ ppc \in PollingStates /\ cmd \in Commands \cup {"none"} /\ ret \in Returns

LEMMA TypeSplit ==
    TypeOK <=> ScriptType /\ call \in Calls \cup {"none"} /\ StateType /\ ProtocolType
  BY DEF TypeOK, ScriptType, StateType, ProtocolType, Ops, Response

LEMMA MainState == ASSUME StateType, Main PROVE StateType'
<1> USE DEF StateType, flagVars, resumeVars, procVars
<1>1. CASE \E c \in Calls : Call(c)
  BY <1>1 DEF Call
<1>2. CASE CheckInstanced \/ CheckAlive \/ EnsureProcessStopped \/ WaitMore
  BY <1>2 DEF CheckInstanced, CheckAlive, EnsureProcessStopped, WaitMore
<1>3. CASE Interrupt
  BY <1>3, ZenonT(45) DEF Interrupt
<1>9. CASE SendSigstop
  <2>1. sigstop' = sigstop \/ sigstop' = TRUE \/ sigstop' = FALSE
    BY <1>9, Zenon DEF SendSigstop
  <2> QED BY <1>9, <2>1, ZenonT(45) DEF SendSigstop
<1>4. CASE JoinAndCheckStatus \/ JoinCommands \/ GetResponse
  BY <1>4 DEF JoinAndCheckStatus, JoinCommands, GetResponse
<1>5. CASE \E c \in Commands : Put(c)
  BY <1>5 DEF Put
<1>6. CASE KillPrevious \/ EndTry \/ CheckQueueEmpty \/ CheckPipe \/ JoinThread
  BY <1>6 DEF KillPrevious, EndTry, CheckQueueEmpty, CheckPipe, JoinThread
<1>7. CASE ClearInstanced
  BY <1>7 DEF ClearInstanced
<1>11. CASE SetInstanced
  BY <1>11 DEF SetInstanced
<1>10. CASE ClosePipe
  <2>1. pipe' = pipe \/ pipe' = "closed"
    BY <1>10 DEF ClosePipe
  <2> QED BY <1>10, <2>1 DEF ClosePipe
<1>8. CASE ClearAndReset
  BY <1>8 DEF ClearAndReset
<1> QED
  BY <1>1, <1>2, <1>3, <1>4, <1>5, <1>6, <1>7, <1>8, <1>9, <1>10, <1>11 DEF Main

(* The invariant of the protocol proper, on which the script's flags have  *)
(* no influence.                                                           *)
ProtocolInv == ProtocolType /\ QueueAccounting /\ PollingData

LEMMA ProtocolStutter == ASSUME ProtocolInv, UNCHANGED protocolVars PROVE ProtocolInv'
  BY DEF ProtocolInv, ProtocolType, QueueAccounting, PollingData, Busy, protocolVars

(* The script changes the queues in three ways only: a put, and the two    *)
(* places that take a response.                                            *)
LEMMA MainProtocol == ASSUME ProtocolInv, Main PROVE ProtocolInv'
<1> USE DEF protocolVars, queueVars, pollVars
<1>1. CASE \E c \in Calls : Call(c)
  BY <1>1, ProtocolStutter DEF Call
<1>2. CASE CheckInstanced \/ CheckAlive \/ EnsureProcessStopped \/ WaitMore \/ Interrupt
           \/ SendSigstop \/ JoinCommands
  BY <1>2, ProtocolStutter DEF CheckInstanced, CheckAlive, EnsureProcessStopped, WaitMore, Interrupt,
         SendSigstop, JoinCommands
<1>3. CASE KillPrevious \/ EndTry \/ CheckQueueEmpty \/ CheckPipe \/ JoinThread
           \/ ClearInstanced \/ SetInstanced \/ ClosePipe \/ ClearAndReset
  BY <1>3, ProtocolStutter DEF KillPrevious, EndTry, CheckQueueEmpty, CheckPipe, JoinThread, ClearInstanced,
         SetInstanced, ClosePipe, ClearAndReset
<1>4. CASE \E c \in Commands : Put(c)
  BY <1>4 DEF Put, ProtocolInv, ProtocolType, QueueAccounting, PollingData, Busy
<1>5. ASSUME rspQ # << >>, rspQ' = Tail(rspQ), rspUnfinished' = rspUnfinished - 1,
             UNCHANGED <<cmdQ, cmdUnfinished, ppc, cmd, ret>>
      PROVE  ProtocolInv'
  <2>1. Len(rspQ) = 1 /\ rspUnfinished = 1
    BY <1>5 DEF ProtocolInv, ProtocolType, QueueAccounting
  <2>2. rspQ' = << >> /\ Len(rspQ') = 0
    BY <1>5, <2>1 DEF ProtocolInv, ProtocolType
  <2> QED
    BY <1>5, <2>1, <2>2 DEF ProtocolInv, ProtocolType, QueueAccounting, PollingData, Busy
<1>6. CASE JoinAndCheckStatus
  <2>1. CASE rspQ = << >>
    BY <1>6, <2>1, ProtocolStutter DEF JoinAndCheckStatus
  <2>2. CASE rspQ # << >>
    BY <1>5, <1>6, <2>2 DEF JoinAndCheckStatus
  <2> QED BY <2>1, <2>2
<1>7. CASE GetResponse
  BY <1>5, <1>7 DEF GetResponse
<1> QED
  BY <1>1, <1>2, <1>3, <1>4, <1>6, <1>7 DEF Main

-------------------------------------------------------------------------------
(* The polling thread. *)

(* A command that ends leaves the queues to PollRespond and PollTaskDone. *)
LEMMA ReturnProtocol ==
    ASSUME ProtocolInv, ppc \in {"exec", "waitpid", "decide"}, NEW v \in Returns, Return(v),
           UNCHANGED queueVars
    PROVE  ProtocolInv'
  BY DEF ProtocolInv, ProtocolType, QueueAccounting, PollingData, Busy, Return, queueVars,
         PollingStates

(* A move inside the loop of __threaded_wait. *)
LEMMA LoopProtocol ==
    ASSUME ProtocolInv, ppc \in {"exec", "waitpid", "decide"}, ppc' \in {"exec", "waitpid", "decide"},
           UNCHANGED <<queueVars, cmd, ret>>
    PROVE  ProtocolInv'
  BY DEF ProtocolInv, ProtocolType, QueueAccounting, PollingData, Busy, queueVars, PollingStates

LEMMA PollProtocol == ASSUME ProtocolInv, Poll PROVE ProtocolInv'
<1> USE DEF Executing
<1>r. "None" \in Returns /\ "value" \in Returns /\ "OSError" \in Returns /\ "Exception" \in Returns
  BY DEF Returns
<1>1. CASE PollGet
  <2>1. rspQ = << >> /\ rspUnfinished = 0 /\ ~Busy /\ Head(cmdQ) \in Commands
        /\ cmdQ' \in Seq(Commands) /\ Len(cmdQ') = Len(cmdQ) - 1 /\ Len(cmdQ) \in Nat
    BY <1>1 DEF PollGet, ProtocolInv, ProtocolType, QueueAccounting, Busy
  <2> QED
    BY <1>1, <1>r, <2>1
       DEF PollGet, ProtocolInv, ProtocolType, QueueAccounting, PollingData, Busy, PollingStates
<1>2. CASE PollRespond
  <2>1. rspQ = << >> /\ rspUnfinished = 0 /\ ret # "None" /\ cmd \in Commands
    BY <1>2 DEF PollRespond, ProtocolInv, ProtocolType, QueueAccounting, PollingData, Busy
  <2>2. [from |-> cmd, value |-> ret] \in Response
    BY <2>1 DEF ProtocolInv, ProtocolType, Response
  <2>3. rspQ' \in Seq(Response) /\ Len(rspQ') = 1 /\ rspUnfinished' = 1 /\ rspQ' # << >>
    BY <1>2, <2>1, <2>2 DEF PollRespond, ProtocolInv, ProtocolType
  <2> QED
    BY <1>2, <2>1, <2>3
       DEF PollRespond, ProtocolInv, ProtocolType, QueueAccounting, PollingData, Busy, PollingStates
<1>3. CASE PollTaskDone
  BY <1>3 DEF PollTaskDone, ProtocolInv, ProtocolType, QueueAccounting, PollingData, Busy,
              PollingStates
<1>4. CASE PollJoinResponses
  BY <1>4 DEF PollJoinResponses, ProtocolInv, ProtocolType, QueueAccounting, PollingData, Busy,
              PollingStates, queueVars
<1>5. CASE ThreadedRun
  BY <1>5, <1>r, ReturnProtocol DEF ThreadedRun
<1>6. CASE ThreadedAttach
  BY <1>6, <1>r, ReturnProtocol DEF ThreadedAttach
<1>7. CASE ThreadedDetach
  BY <1>7, <1>r, ReturnProtocol DEF ThreadedDetach
<1>8. CASE ThreadedKill
  BY <1>8, <1>r, ReturnProtocol DEF ThreadedKill
<1>9. CASE ThreadedCont
  BY <1>9, <1>r, ReturnProtocol DEF ThreadedCont
<1>10. CASE WaitTop
  BY <1>10, <1>r, ReturnProtocol, LoopProtocol DEF WaitTop
<1>11. CASE HandleStop
  BY <1>11, <1>r, ReturnProtocol, LoopProtocol DEF HandleStop
<1>12. CASE HandleExit
  BY <1>12, LoopProtocol DEF HandleExit
<1>13. CASE WaitNothing
  BY <1>13, LoopProtocol DEF WaitNothing
<1>14. CASE WaitDecide
  BY <1>14, <1>r, ReturnProtocol, LoopProtocol DEF WaitDecide
<1>15. CASE ThreadedStep
  BY <1>15, <1>r, ReturnProtocol DEF ThreadedStep
<1>16. CASE ThreadedStepUntil
  BY <1>16, <1>r, ReturnProtocol DEF ThreadedStepUntil
<1>17. CASE ThreadedFinish
  BY <1>17, <1>r, ReturnProtocol DEF ThreadedFinish
<1>18. CASE ThreadedPeekMemory
  BY <1>18, <1>r, ReturnProtocol DEF ThreadedPeekMemory
<1>19. CASE ThreadedSet
  BY <1>19, <1>r, ReturnProtocol DEF ThreadedSet
<1> QED
  BY <1>1, <1>2, <1>3, <1>4, <1>5, <1>6, <1>7, <1>8, <1>9, <1>10, <1>11, <1>12, <1>13, <1>14,
     <1>15, <1>16, <1>17, <1>18, <1>19 DEF Poll

LEMMA PollState == ASSUME StateType, Poll PROVE StateType'
<1>1. CASE PollGet \/ PollRespond \/ PollTaskDone \/ PollJoinResponses \/ WaitNothing
           \/ ThreadedPeekMemory \/ ThreadedSet
  BY <1>1 DEF PollGet, PollRespond, PollTaskDone, PollJoinResponses, WaitNothing,
     ThreadedPeekMemory, ThreadedSet, flagVars, resumeVars, procVars, StateType
<1>2. ASSUME NEW b \in BOOLEAN, StartTracee(b)
      PROVE  /\ proc' \in Procs /\ event' \in Events /\ sigstop' \in BOOLEAN /\ child' \in BOOLEAN
             /\ threads' \in BOOLEAN /\ dead' \in BOOLEAN /\ detached' \in BOOLEAN
  <2>1. proc' \in Procs /\ event' \in Events
    BY <1>2 DEF StartTracee, Procs, Events
  <2>2. /\ sigstop' \in BOOLEAN /\ child' \in BOOLEAN
        /\ threads' \in BOOLEAN /\ dead' \in BOOLEAN /\ detached' \in BOOLEAN
    BY <1>2, Zenon DEF StartTracee
  <2> QED BY <2>1, <2>2
<1>3. CASE ThreadedRun
  <2>1. UNCHANGED <<instanced, resume, force_interrupt, is_a_step>>
    BY <1>3 DEF ThreadedRun, resumeVars
  <2>2. CASE StartTracee(TRUE) /\ pipe' = "open" /\ is_running' = FALSE
    BY <1>2, <2>1, <2>2 DEF StateType
  <2>3. CASE StartTracee(TRUE) /\ UNCHANGED <<pipe, is_running>>
    BY <1>2, <2>1, <2>3 DEF StateType
  <2>4. CASE UNCHANGED <<procVars, threads, dead, detached, pipe, is_running>>
    BY <2>1, <2>4 DEF StateType, procVars
  <2>5. CASE /\ proc' = "reaped" /\ event' = "none" /\ sigstop' = FALSE /\ child' = TRUE
             /\ threads' = TRUE /\ dead' = TRUE /\ detached' = FALSE
             /\ pipe' = "open" /\ is_running' = FALSE
    <3>1. proc' \in Procs /\ event' \in Events /\ pipe' \in {"none", "open", "closed"}
      BY <2>5 DEF Procs, Events
    <3> QED BY <2>1, <2>5, <3>1 DEF StateType
  <2> QED BY <1>3, <2>2, <2>3, <2>4, <2>5 DEF ThreadedRun
<1>4. CASE ThreadedAttach
  <2>1. UNCHANGED <<instanced, pipe, resume, force_interrupt, is_a_step>>
    BY <1>4 DEF ThreadedAttach, resumeVars
  <2>2. CASE StartTracee(FALSE) /\ is_running' = FALSE
    BY <1>2, <2>1, <2>2 DEF StateType
  <2>3. CASE UNCHANGED <<procVars, threads, dead, detached, is_running>>
    BY <2>1, <2>3 DEF StateType, procVars
  <2> QED BY <1>4, <2>2, <2>3 DEF ThreadedAttach
<1>5. CASE ThreadedDetach
  <2>1. proc' \in Procs /\ event' \in Events
    BY <1>5 DEF ThreadedDetach, StateType, Procs, Events, procVars
  <2>2. /\ is_running' \in BOOLEAN /\ detached' \in BOOLEAN
        /\ sigstop' \in BOOLEAN /\ child' \in BOOLEAN
    BY <1>5 DEF ThreadedDetach, StateType, procVars
  <2> QED BY <1>5, <2>1, <2>2 DEF ThreadedDetach, StateType, resumeVars
<1>6. CASE ThreadedKill
  <2>1. proc' \in Procs /\ event' \in Events
    BY <1>6 DEF ThreadedKill, StateType, Procs, Events
  <2> QED BY <1>6, <2>1 DEF ThreadedKill, StateType, flagVars, resumeVars
<1>7. CASE ThreadedCont
  <2>1. proc' \in Procs
    BY <1>7 DEF ThreadedCont, InterfaceCont, StateType, Procs
  <2> QED BY <1>7, <2>1 DEF ThreadedCont, StateType, resumeVars
<1>8. CASE WaitTop
  <2>1. (is_running' = is_running \/ is_running' = FALSE) /\ (resume' = resume \/ resume' = TRUE)
    BY <1>8 DEF WaitTop
  <2>2. UNCHANGED <<instanced, threads, dead, pipe, detached, force_interrupt, is_a_step, procVars>>
    BY <1>8 DEF WaitTop
  <2>3. is_running' \in BOOLEAN /\ resume' \in BOOLEAN
    BY <2>1, Zenon DEF StateType
  <2> QED BY <2>2, <2>3 DEF StateType, procVars
<1>9. CASE HandleStop
  <2>1. resume' \in BOOLEAN /\ is_a_step' \in BOOLEAN /\ force_interrupt' \in BOOLEAN
    BY <1>9 DEF HandleStop, StateType, resumeVars
  <2>2. proc' \in Procs /\ event' \in Events
    BY <1>9 DEF HandleStop, Procs, Events
  <2> QED BY <1>9, <2>1, <2>2 DEF HandleStop, StateType, flagVars
<1>10. CASE HandleExit
  <2>1. proc' \in Procs
    BY <1>10 DEF HandleExit, Procs
  <2> QED BY <1>10, <2>1 DEF HandleExit, StateType, resumeVars
<1>11. CASE WaitDecide
  <2>1. proc' \in Procs
    BY <1>11 DEF WaitDecide, InterfaceCont, StateType, Procs
  <2>2. is_running' = is_running \/ is_running' = FALSE
    BY <1>11 DEF WaitDecide
  <2>3. UNCHANGED <<instanced, threads, dead, pipe, detached, resumeVars, event, sigstop, child>>
    BY <1>11 DEF WaitDecide
  <2>4. is_running' \in BOOLEAN
    BY <2>2, Zenon DEF StateType
  <2> QED BY <2>1, <2>3, <2>4 DEF StateType, resumeVars
<1>12. CASE ThreadedStep
  <2>1. proc' \in Procs
    BY <1>12 DEF ThreadedStep, StateType, Procs
  <2>2. (is_running' = is_running \/ is_running' = TRUE) /\ (is_a_step' = is_a_step \/ is_a_step' = TRUE)
    BY <1>12 DEF ThreadedStep
  <2>3. UNCHANGED <<instanced, threads, dead, pipe, detached, resume, force_interrupt, event, sigstop,
                    child>>
    BY <1>12 DEF ThreadedStep
  <2>4. is_running' \in BOOLEAN /\ is_a_step' \in BOOLEAN
    BY <2>2, Zenon DEF StateType
  <2> QED BY <2>1, <2>3, <2>4 DEF StateType
<1>13. CASE ThreadedStepUntil
  <2>1. proc' \in Procs
    BY <1>13 DEF ThreadedStepUntil, StateType, Procs
  <2>2. (is_running' = is_running \/ is_running' = FALSE) /\ (sigstop' = sigstop \/ sigstop' = FALSE)
    BY <1>13 DEF ThreadedStepUntil
  <2>3. UNCHANGED <<instanced, threads, dead, pipe, detached, resumeVars, event, child>>
    BY <1>13 DEF ThreadedStepUntil
  <2>4. is_running' \in BOOLEAN /\ sigstop' \in BOOLEAN
    BY <2>2, Zenon DEF StateType
  <2> QED BY <2>1, <2>3, <2>4 DEF StateType, resumeVars
<1>14. CASE ThreadedFinish
  <2>1. proc' \in Procs
    BY <1>14 DEF ThreadedFinish, StateType, Procs
  <2>2. /\ is_running' = is_running \/ is_running' = FALSE
        /\ dead' = dead \/ dead' = TRUE
        /\ is_a_step' = is_a_step \/ is_a_step' = FALSE
        /\ sigstop' = sigstop \/ sigstop' = FALSE
        /\ force_interrupt' = force_interrupt \/ force_interrupt' = FALSE
    BY <1>14 DEF ThreadedFinish
  <2>3. UNCHANGED <<instanced, threads, pipe, detached, resume, event, child>>
    BY <1>14 DEF ThreadedFinish
  <2>4. /\ is_running' \in BOOLEAN /\ dead' \in BOOLEAN /\ is_a_step' \in BOOLEAN
        /\ sigstop' \in BOOLEAN /\ force_interrupt' \in BOOLEAN
    BY <2>2, Zenon DEF StateType
  <2>5. /\ instanced' \in BOOLEAN /\ threads' \in BOOLEAN /\ pipe' \in {"none", "open", "closed"}
        /\ detached' \in BOOLEAN /\ resume' \in BOOLEAN /\ event' \in Events /\ child' \in BOOLEAN
    BY <2>3 DEF StateType
  <2> QED BY <2>1, <2>4, <2>5, Zenon DEF StateType
<1> QED
  BY <1>1, <1>3, <1>4, <1>5, <1>6, <1>7, <1>8, <1>9, <1>10, <1>11, <1>12, <1>13, <1>14 DEF Poll

-------------------------------------------------------------------------------
(* The tracee. *)

LEMMA TraceeState == ASSUME StateType, Tracee PROVE StateType' /\ UNCHANGED protocolVars
<1>1. proc' \in Procs /\ event' \in Events
  BY DEF StateType, Tracee, TraceeStops, SigstopDelivered, TraceeExits, TraceeKilled, Procs, Events
<1>2. sigstop' = sigstop \/ sigstop' = FALSE
  BY DEF Tracee, TraceeStops, SigstopDelivered, TraceeExits, TraceeKilled
<1>3. UNCHANGED <<flagVars, resumeVars, protocolVars, child>>
  BY DEF Tracee, TraceeStops, SigstopDelivered, TraceeExits, TraceeKilled, UNCHANGED_Debugger,
         queueVars, pollVars, protocolVars
<1> QED BY <1>1, <1>2, <1>3, ZenonT(45) DEF StateType, flagVars, resumeVars

-------------------------------------------------------------------------------
(* The theorems. *)

LEMMA IndInvSplit == IndInv <=> /\ ScriptType /\ call \in Calls \cup {"none"}
                                /\ StateType /\ ProtocolInv
  BY TypeSplit DEF IndInv, ProtocolInv

(* IndInv holds initially and every step preserves it. *)
LEMMA InitInd == Init => IndInv
<1> SUFFICES ASSUME Init PROVE IndInv
  OBVIOUS
<1>1. ScriptType /\ call \in Calls \cup {"none"}
  BY DEF Init, ScriptType
<1>3. StateType
  <2>1. pipe \in {"none", "open", "closed"} /\ proc \in Procs /\ event \in Events
    BY DEF Init, Procs, Events
  <2> QED BY <2>1, Zenon DEF Init, StateType
<1>2. ProtocolInv
  BY DEF Init, ProtocolInv, ProtocolType, QueueAccounting, PollingData, Busy, PollingStates, Returns
<1> QED BY <1>1, <1>2, <1>3, IndInvSplit

LEMMA NextInd == IndInv /\ [Next]_vars => IndInv'
<1> SUFFICES ASSUME IndInv, [Next]_vars PROVE IndInv'
  OBVIOUS
<1>0. ScriptType /\ call \in Calls \cup {"none"} /\ StateType /\ ProtocolInv /\ TypeOK
  BY IndInvSplit DEF IndInv
<1>i. ASSUME ScriptType', (call \in Calls \cup {"none"})', StateType', ProtocolInv' PROVE IndInv'
  <2>1. TypeOK'
    BY <1>i DEF TypeOK, ScriptType, StateType, ProtocolInv, ProtocolType, Ops, Response
  <2> QED BY <1>i, <2>1 DEF IndInv, ProtocolInv
<1>1. CASE Main
  BY <1>0, <1>1, <1>i, MainScript, MainState, MainProtocol
<1>2. CASE Poll
  <2>1. ScriptType' /\ (call \in Calls \cup {"none"})'
    BY <1>0, <1>2 DEF Poll, ScriptType, mainVars, PollGet, PollRespond, PollTaskDone,
       PollJoinResponses, ThreadedRun, ThreadedAttach, ThreadedDetach, ThreadedKill, ThreadedCont,
       WaitTop, HandleStop, HandleExit, WaitNothing, WaitDecide, ThreadedStep, ThreadedStepUntil,
       ThreadedFinish, ThreadedPeekMemory, ThreadedSet
  <2> QED BY <1>0, <1>2, <1>i, <2>1, PollState, PollProtocol
<1>3. CASE Tracee
  <2>1. ScriptType' /\ (call \in Calls \cup {"none"})'
    BY <1>0, <1>3 DEF Tracee, TraceeStops, SigstopDelivered, TraceeExits, TraceeKilled,
       UNCHANGED_Debugger, ScriptType, mainVars
  <2> QED BY <1>0, <1>3, <1>i, <2>1, TraceeState, ProtocolStutter
<1>4. CASE UNCHANGED vars
  <2>1. ScriptType' /\ (call \in Calls \cup {"none"})' /\ UNCHANGED protocolVars
    BY <1>0, <1>4 DEF vars, ScriptType, mainVars, queueVars, pollVars, protocolVars
  <2>2. StateType'
    BY <1>0, <1>4 DEF vars, StateType, flagVars, resumeVars, procVars
  <2> QED BY <1>0, <1>i, <2>1, <2>2, ProtocolStutter
<1> QED BY <1>1, <1>2, <1>3, <1>4 DEF Next

(* Every reachable state of the protocol is well typed, whatever methods   *)
(* the script calls and however they fail.                                 *)
THEOREM TypeCorrect == Spec => []TypeOK
<1>1. IndInv => TypeOK
  BY DEF IndInv
<1> QED BY <1>1, InitInd, NextInd, PTL DEF Spec

(* The unfinished-task counts that Queue.join waits for always equal the   *)
(* commands and responses really outstanding, and at most one response is  *)
(* outstanding, for every set of API methods and every failure.            *)
THEOREM QueuesAccounted == Spec => []QueueAccounting
<1>1. IndInv => QueueAccounting
  BY DEF IndInv
<1> QED BY <1>1, InitInd, NextInd, PTL DEF Spec

-------------------------------------------------------------------------------
(* The protocol implements CommandService. *)

Pending == (IF Busy THEN <<cmd>> ELSE << >>) \o cmdQ
Answered == ppc = "taskdone" /\ ret # "None"

(* What the abstract service sees of a state. *)
serviceVars == <<Pending, Answered, rspQ>>

LEMMA ServiceNext ==
    ASSUME \/ (\E c \in Commands : Pending' = Append(Pending, c)) /\ Answered' = Answered /\ rspQ' = rspQ
           \/ /\ Pending # << >> /\ ~Answered /\ rspQ = << >>
              /\ \E v \in Returns \ {"None"} : rspQ' = << [from |-> Head(Pending), value |-> v] >>
              /\ Answered' /\ Pending' = Pending
           \/ /\ Pending # << >> /\ (Answered \/ rspQ = << >>)
              /\ Pending' = Tail(Pending) /\ ~Answered' /\ rspQ' = rspQ
           \/ rspQ # << >> /\ rspQ' = << >> /\ Pending' = Pending /\ Answered' = Answered
           \/ UNCHANGED serviceVars
    PROVE  [Service!Next]_<<Pending, Answered, rspQ>>
  BY DEF Service!Next, Service!Submit, Service!Answer, Service!Complete, Service!Take, Pending,
         Answered, serviceVars

LEMMA EmptyFirst == ASSUME NEW s \in Seq(Commands) PROVE << >> \o s = s
  OBVIOUS

LEMMA HeadTail == ASSUME NEW s \in Seq(Commands), s # << >> PROVE <<Head(s)>> \o Tail(s) = s
  OBVIOUS

LEMMA FirstRest ==
    ASSUME NEW c \in Commands, NEW s \in Seq(Commands)
    PROVE  <<c>> \o s # << >> /\ Head(<<c>> \o s) = c /\ Tail(<<c>> \o s) = s
  OBVIOUS

LEMMA AppendLast ==
    ASSUME NEW a \in Seq(Commands), NEW s \in Seq(Commands), NEW c \in Commands
    PROVE  a \o Append(s, c) = Append(a \o s, c)
  OBVIOUS

(* A step that leaves the queues and the polling thread alone. *)
LEMMA ServiceStutter == ASSUME UNCHANGED protocolVars PROVE [Service!Next]_<<Pending, Answered, rspQ>>
  BY ServiceNext DEF serviceVars, Pending, Answered, Busy, protocolVars

(* The script submits with a put and takes with the two gets. *)
LEMMA MainService == ASSUME ProtocolInv, Main PROVE [Service!Next]_<<Pending, Answered, rspQ>>
<1>1. CASE UNCHANGED protocolVars
  BY <1>1, ServiceStutter
<1>2. CASE \E c \in Commands : Put(c)
  <2>1. PICK c \in Commands : Put(c)
    BY <1>2
  <2>2. cmdQ' = Append(cmdQ, c) /\ UNCHANGED <<ppc, cmd, ret, rspQ>> /\ cmdQ \in Seq(Commands)
    BY <2>1 DEF Put, pollVars, ProtocolInv, ProtocolType
  <2> DEFINE a == IF Busy THEN <<cmd>> ELSE << >>
  <2>3. a \in Seq(Commands)
    BY DEF ProtocolInv, PollingData
  <2>4. a' = a
    BY <2>2 DEF Busy
  <2> HIDE DEF a
  <2>5. a \o Append(cmdQ, c) = Append(a \o cmdQ, c)
    BY <2>2, <2>3, AppendLast
  <2>6. Pending = a \o cmdQ /\ Pending' = a' \o cmdQ'
    BY DEF Pending, a
  <2>7. Pending' = Append(Pending, c) /\ Answered' = Answered
    BY <2>2, <2>4, <2>5, <2>6 DEF Answered
  <2> QED BY <2>2, <2>7, ServiceNext
<1>3. ASSUME rspQ # << >>, rspQ' = Tail(rspQ), UNCHANGED <<cmdQ, ppc, cmd, ret>>
      PROVE  [Service!Next]_<<Pending, Answered, rspQ>>
  <2>1. rspQ' = << >>
    <3>1. rspQ \in Seq(Response) /\ Len(rspQ) = 1
      BY <1>3 DEF ProtocolInv, ProtocolType, QueueAccounting
    <3> QED BY <1>3, <3>1
  <2>2. Pending' = Pending /\ Answered' = Answered
    BY <1>3 DEF Pending, Answered, Busy
  <2> QED BY <1>3, <2>1, <2>2, ServiceNext
<1>4. CASE JoinAndCheckStatus
  BY <1>1, <1>3, <1>4 DEF JoinAndCheckStatus, pollVars, protocolVars
<1>5. CASE GetResponse
  BY <1>3, <1>5 DEF GetResponse, pollVars
<1>6. CASE \E c \in Calls : Call(c)
  BY <1>1, <1>6 DEF Call, protocolVars, queueVars, pollVars
<1>7. CASE CheckInstanced \/ CheckAlive \/ EnsureProcessStopped \/ WaitMore \/ Interrupt
           \/ SendSigstop \/ JoinCommands
  BY <1>1, <1>7 DEF CheckInstanced, CheckAlive, EnsureProcessStopped, WaitMore, Interrupt,
     SendSigstop, JoinCommands, protocolVars, queueVars, pollVars
<1>8. CASE KillPrevious \/ EndTry \/ CheckQueueEmpty \/ CheckPipe \/ JoinThread
           \/ ClearInstanced \/ SetInstanced \/ ClosePipe \/ ClearAndReset
  BY <1>1, <1>8 DEF KillPrevious, EndTry, CheckQueueEmpty, CheckPipe, JoinThread, ClearInstanced,
     SetInstanced, ClosePipe, ClearAndReset, protocolVars, queueVars, pollVars
<1> QED
  BY <1>2, <1>4, <1>5, <1>6, <1>7, <1>8 DEF Main

(* The execution of a command, and its end, are invisible: the service     *)
(* moves when the response is put and at task_done.                        *)
LEMMA ReturnService ==
    ASSUME ProtocolInv, ppc \in {"exec", "waitpid", "decide"}, NEW v \in Returns, Return(v),
           UNCHANGED queueVars
    PROVE  [Service!Next]_<<Pending, Answered, rspQ>>
<1>1. Pending' = Pending /\ Answered' = Answered /\ rspQ' = rspQ
  BY DEF Return, Pending, Answered, Busy, queueVars
<1> QED BY <1>1, ServiceNext DEF serviceVars

LEMMA LoopService ==
    ASSUME ppc \in {"exec", "waitpid", "decide"}, ppc' \in {"exec", "waitpid", "decide"},
           UNCHANGED <<queueVars, cmd, ret>>
    PROVE  [Service!Next]_<<Pending, Answered, rspQ>>
<1>1. Pending' = Pending /\ Answered' = Answered /\ rspQ' = rspQ
  BY DEF Pending, Answered, Busy, queueVars
<1> QED BY <1>1, ServiceNext DEF serviceVars

LEMMA PollService == ASSUME ProtocolInv, Poll PROVE [Service!Next]_<<Pending, Answered, rspQ>>
<1> USE DEF Executing
<1>r. "None" \in Returns /\ "value" \in Returns /\ "OSError" \in Returns /\ "Exception" \in Returns
  BY DEF Returns
<1>q. cmdQ \in Seq(Commands)
  BY DEF ProtocolInv, ProtocolType
<1>b. ASSUME Busy PROVE /\ Pending # << >> /\ Head(Pending) = cmd /\ Tail(Pending) = cmdQ
                        /\ Pending = <<cmd>> \o cmdQ
  <2>1. cmd \in Commands
    BY <1>b DEF ProtocolInv, PollingData
  <2> QED BY <1>b, <1>q, <2>1, FirstRest DEF Pending
<1>n. ASSUME ~Busy PROVE Pending = cmdQ
  BY <1>n, <1>q, EmptyFirst DEF Pending
<1>1. CASE PollGet
  <2>1. ~Busy /\ rspQ = << >> /\ ~Answered /\ rspQ' = rspQ /\ cmdQ' = Tail(cmdQ) /\ cmdQ # << >>
        /\ cmdQ' \in Seq(Commands) /\ cmd' = Head(cmdQ)
    BY <1>1, <1>q DEF PollGet, Busy, Answered, ProtocolInv, ProtocolType, QueueAccounting
  <2>2. CASE Head(cmdQ) = "terminate"
    <3>1. ~Busy' /\ ~Answered'
      BY <1>1, <2>2 DEF PollGet, Busy, Answered
    <3>2. Pending' = << >> \o cmdQ'
      BY <3>1 DEF Pending
    <3>3. Pending' = cmdQ'
      BY <2>1, <3>2, EmptyFirst
    <3> QED BY <1>n, <2>1, <3>1, <3>3, ServiceNext
  <2>3. CASE Head(cmdQ) # "terminate"
    <3>1. Busy' /\ Answered' = Answered
      BY <1>1, <2>3 DEF PollGet, Busy, Answered
    <3>2. Pending' = <<Head(cmdQ)>> \o Tail(cmdQ)
      BY <2>1, <3>1 DEF Pending
    <3>3. Pending' = cmdQ
      BY <1>q, <2>1, <3>2, HeadTail
    <3> QED BY <1>n, <2>1, <3>1, <3>3, ServiceNext DEF serviceVars
  <2> QED BY <2>2, <2>3
<1>2. CASE PollRespond
  <2>1. Busy /\ ~Answered /\ rspQ = << >> /\ ret \in Returns \ {"None"} /\ cmdQ' = cmdQ /\ cmd' = cmd
    BY <1>2 DEF PollRespond, Busy, Answered, ProtocolInv, ProtocolType, QueueAccounting, PollingData
  <2>2. Busy' /\ Answered'
    BY <1>2, <2>1 DEF PollRespond, Busy, Answered
  <2>3. Pending' = Pending
    BY <2>1, <2>2 DEF Pending
  <2>4. rspQ' = << [from |-> cmd, value |-> ret] >>
    BY <1>2, <2>1 DEF PollRespond
  <2> QED BY <1>b, <2>1, <2>2, <2>3, <2>4, ServiceNext
<1>3. CASE PollTaskDone
  <2>1. Busy /\ ~Busy' /\ ~Answered' /\ cmdQ' = cmdQ /\ rspQ' = rspQ /\ (Answered \/ rspQ = << >>)
    BY <1>3 DEF PollTaskDone, Busy, Answered, ProtocolInv, QueueAccounting
  <2>2. Pending' = << >> \o cmdQ
    BY <2>1 DEF Pending
  <2>3. Pending' = Tail(Pending)
    BY <1>b, <1>q, <2>1, <2>2, EmptyFirst
  <2> QED BY <1>b, <2>1, <2>3, ServiceNext
<1>4. CASE PollJoinResponses
  <2>1. Pending' = Pending /\ Answered' = Answered /\ rspQ' = rspQ
    BY <1>4 DEF PollJoinResponses, Pending, Answered, Busy, queueVars
  <2> QED BY <2>1, ServiceNext DEF serviceVars
<1>5. CASE ThreadedRun \/ ThreadedAttach \/ ThreadedDetach \/ ThreadedKill \/ ThreadedCont
  BY <1>5, <1>r, ReturnService
     DEF ThreadedRun, ThreadedAttach, ThreadedDetach, ThreadedKill, ThreadedCont
<1>6. CASE WaitTop
  BY <1>6, <1>r, ReturnService, LoopService DEF WaitTop
<1>7. CASE HandleStop
  BY <1>7, <1>r, ReturnService, LoopService DEF HandleStop
<1>8. CASE HandleExit \/ WaitNothing
  BY <1>8, LoopService DEF HandleExit, WaitNothing
<1>9. CASE WaitDecide
  BY <1>9, <1>r, ReturnService, LoopService DEF WaitDecide
<1>10. CASE ThreadedStep \/ ThreadedStepUntil \/ ThreadedFinish \/ ThreadedPeekMemory \/ ThreadedSet
  BY <1>10, <1>r, ReturnService
     DEF ThreadedStep, ThreadedStepUntil, ThreadedFinish, ThreadedPeekMemory, ThreadedSet
<1> QED
  BY <1>1, <1>2, <1>3, <1>4, <1>5, <1>6, <1>7, <1>8, <1>9, <1>10 DEF Poll

(* The two queues and the polling thread implement the command service,    *)
(* for every set of API methods and every failure: commands are completed  *)
(* in the order of the puts, each once, and a response is taken before the *)
(* next command is answered or completed.                                  *)
THEOREM ImplementsService == Spec => ServiceSpec
<1>1. Init => Service!Init
  <2> SUFFICES ASSUME Init PROVE Service!Init
    OBVIOUS
  <2>1. ~Busy /\ cmdQ = << >> /\ rspQ = << >> /\ ppc # "taskdone"
    BY DEF Init, Busy
  <2>2. << >> \o << >> = << >>
    OBVIOUS
  <2> QED BY <2>1, <2>2 DEF Service!Init
<1>2. IndInv /\ [Next]_vars => [Service!Next]_<<Pending, Answered, rspQ>>
  <2> SUFFICES ASSUME IndInv, [Next]_vars PROVE [Service!Next]_<<Pending, Answered, rspQ>>
    OBVIOUS
  <2>0. ProtocolInv /\ StateType
    BY IndInvSplit
  <2>1. CASE Tracee
    BY <2>0, <2>1, TraceeState, ServiceStutter
  <2>2. CASE UNCHANGED vars
    BY <2>2, ServiceStutter DEF vars, queueVars, pollVars, protocolVars
  <2> QED BY <2>0, <2>1, <2>2, MainService, PollService DEF Next
<1> QED
  BY <1>1, <1>2, InitInd, NextInd, PTL DEF Spec, ServiceSpec, Service!Spec, Pending, Answered

-------------------------------------------------------------------------------
(* What the script may rely on.  The argument is about the promise that a  *)
(* check of is_running, or a join, gives to the commands that are queued   *)
(* after it.                                                               *)

Access == {"peek", "set", "cont", "step", "step_until", "finish", "detach"}
Starting == {"run", "attach"}
Moving == {"cont", "step", "wait"}

(* Commands and operations that rely on a tracee at rest, and the          *)
(* operations that see to it; the operations that rely on an instanced     *)
(* debugger with threads; and those a synchronous method ends with.        *)
Guarded == Access \cup Starting \cup {"uninstance", "clear"}
Checks == {"ensure", "join", "kill?", "kill"}
Instanced == Moving \cup {"waitmore", "interrupt"}
Populated == Moving \cup {"interrupt"}
Closers == {"join", "joincmd", "jointhread", "interrupt"}

Quiet == proc \notin {"running", "stepping", "event"}

(* The polling thread executes its command. *)
Working == ppc \in {"exec", "waitpid", "decide"}

Queued(cs) == \E j \in DOMAIN cmdQ : cmdQ[j] \in cs

(* When the i-th queued command is reached, the tracee is at rest: it is   *)
(* now, or a kill comes first, and nothing sets it going after that.       *)
NowCalm == IF Working THEN cmd = "kill" \/ (cmd \notin Moving /\ Quiet) ELSE Quiet
CalmAt(i) ==
    /\ \A j \in DOMAIN cmdQ : j < i /\ cmdQ[j] \in Moving =>
          \E k \in DOMAIN cmdQ : j < k /\ k < i /\ cmdQ[k] = "kill"
    /\ NowCalm \/ \E k \in DOMAIN cmdQ : k < i /\ cmdQ[k] = "kill"
Calm == CalmAt(Len(cmdQ) + 1)

(* The tracee is at rest and nothing that is queued sets it going. *)
AtRest == Quiet /\ ~(Working /\ cmd \in Moving) /\ ~Queued(Moving)

(* p has one of ops with none of guards before it. *)
Unguarded(p, ops, guards) ==
    \E i \in DOMAIN p : p[i] \in ops /\ \A k \in DOMAIN p : k < i => p[k] \notin guards

Follow(p, i, ops) == i + 1 <= Len(p) /\ p[i + 1] \in ops

(* What an operation of a method is followed by. *)
ShapeAt(p, i, c) ==
    /\ p[i] = "cont" => Len(p) = i + 2 /\ p[i + 1] = "join" /\ p[i + 2] = "wait"
    /\ p[i] = "step" => Len(p) = i + 2 /\ p[i + 1] = "wait" /\ p[i + 2] = "join"
    /\ p[i] = "wait" => (i = Len(p) /\ c = "cont") \/ Follow(p, i, {"join"})
    /\ Follow(p, i, {"wait"}) => p[i] = "step" \/ (p[i] = "join" /\ i + 1 = Len(p))
    /\ i + 2 <= Len(p) /\ p[i + 1] = "join" /\ p[i + 2] = "wait" => p[i] = "cont"
    /\ p[i] = "catch" => Follow(p, i, {"kill"}) /\ i + 4 <= Len(p) /\ p[i + 4] = "join"
    /\ p[i] = "kill" => Follow(p, i, {"uninstance"})
    /\ Follow(p, i, {"instance"}) => p[i] = "clear"
    /\ p[i] \in Starting => Follow(p, i, {"join", "set"})
    /\ p[i] = "set" => Follow(p, i, {"join"})
    /\ p[i] = "terminate" => Len(p) = i + 1 /\ Follow(p, i, {"jointhread"})
    /\ p[i] = "jointhread" => i = Len(p) /\ c = "terminate"
    /\ Follow(p, i, {"joincmd"}) => p[i] = "peek"
    /\ Follow(p, i, {"getrsp"}) => p[i] = "joincmd"
    /\ p[i] \in {"catch", "uninstance", "clear", "kill?"} =>
          \A j \in DOMAIN p : j > i => p[j] \notin Instanced
Shaped(p, c) == \A i \in DOMAIN p : ShapeAt(p, i, c)

(* What the rest of the method relies on. *)
Promise ==
    /\ Unguarded(prog, Guarded, Checks) => Calm
    /\ Unguarded(prog, Instanced, {"instanced?"}) => instanced
    /\ Unguarded(prog, Populated, {"alive?"}) => threads
    /\ At("instance") => ~threads

(* When nothing promises a tracee at rest, the script is about to wait or  *)
(* can see it: is_running is set.                                          *)
Visible ==
    /\ ~instanced \/ ~threads => Calm
    /\ ~Calm => At("join") \/ At("wait") \/ is_running

(* The commands in the queue and the one that is executed find the tracee  *)
(* at rest if they need it.                                                *)
Kept ==
    /\ \A i \in DOMAIN cmdQ : cmdQ[i] \in Access \cup Starting => CalmAt(i)
    /\ Working /\ cmd \in Access \cup Starting => Quiet

(* Where the script is while commands of its are under way. *)
Stepped(n) == \/ n = 0 /\ prog = <<"wait", "join">>
              \/ n = 1 /\ cmdQ[Len(cmdQ)] = "wait" /\ prog = <<"join">>
Waiting ==
    /\ \A j \in DOMAIN cmdQ : cmdQ[j] = "cont" => j = Len(cmdQ) /\ prog = <<"join", "wait">>
    /\ Working /\ cmd = "cont" => cmdQ = << >> /\ prog = <<"join", "wait">>
    /\ \A j \in DOMAIN cmdQ : cmdQ[j] = "step" => Stepped(Len(cmdQ) - j)
    /\ Working /\ cmd = "step" => Stepped(Len(cmdQ))
    /\ \A j \in DOMAIN cmdQ : cmdQ[j] = "wait" =>
          At("join") \/ (j = 1 /\ ~Busy) \/ \E k \in DOMAIN cmdQ : k > j /\ cmdQ[k] = "kill"
    /\ Queued(Starting) \/ (Working /\ cmd \in Starting) => At("join") \/ At("set")
    /\ \A j \in DOMAIN cmdQ : cmdQ[j] = "terminate" => j = Len(cmdQ) /\ prog = <<"jointhread">>
    /\ ppc = "ended" => cmdQ = << >> /\ (prog = << >> \/ prog = <<"jointhread">>)
                        /\ call = "terminate" /\ outcome = "ok"

(* cont() has seen its command executed and goes on to wait. *)
Continued ==
    /\ prog = <<"wait">> => cmdQ = << >> /\ ~Busy /\ is_running
    /\ prog = <<"join", "wait">> => \/ Queued({"cont"}) \/ (Working /\ cmd = "cont")
                                    \/ cmdQ = << >> /\ ~Working /\ is_running

(* Who will see to it that a tracee that runs is waited for or killed. *)
Attended ==
    ~Quiet => \/ Queued({"kill", "wait"}) \/ (Working /\ cmd \in {"kill", "wait"})
              \/ prog = <<"wait">> \/ prog = <<"join", "wait">> \/ prog = <<"wait", "join">>

(* The loop of __threaded_wait, and how commands fail. *)
Served ==
    /\ ppc \in {"waitpid", "decide"} => cmd = "wait"
    /\ ppc = "decide" => Quiet
    /\ dead => proc = "reaped"
    /\ ppc = "respond" \/ (ppc \in {"taskdone", "joinrsp"} /\ ret # "None") =>
          Quiet \/ Queued({"kill"})
    /\ rspQ # << >> => ret # "None" /\ Head(rspQ).from = cmd

(* A kill that is under way is one of a debugger that is no longer used. *)
Killing ==
    /\ Queued({"kill"}) \/ (Working /\ cmd = "kill") => ~instanced \/ ~threads \/ At("uninstance")
    /\ \A j, k \in DOMAIN cmdQ : j < k /\ cmdQ[j] \in Starting => cmdQ[k] # "kill"
    /\ Working /\ cmd \in Starting => ~Queued({"kill"})

(* A synchronous method that is past its last wait. *)
Returned ==
    /\ outcome = "ok" /\ call \notin {"cont", "none"} =>
          AtRest \/ \E i \in DOMAIN prog : prog[i] \in Closers
    /\ prog # << >> => outcome = "ok"

(* _peek_memory, from its put to its get. *)
Peeking ==
    /\ At("joincmd") => IF cmdQ = << >> THEN cmd = "peek" ELSE cmdQ[Len(cmdQ)] = "peek"
    /\ At("getrsp") => cmdQ = << >> /\ cmd = "peek"

SafeInv ==
    /\ Shaped(prog, call)
    /\ Promise /\ Visible /\ Kept /\ Waiting /\ Continued /\ Attended /\ Served /\ Killing
    /\ Returned /\ Peeking

-------------------------------------------------------------------------------
(* Sequences of operations. *)

LEMMA TailIs ==
    ASSUME NEW p \in Seq(Ops), p # << >>
    PROVE  /\ Len(p) \in Nat \ {0} /\ DOMAIN p = 1..Len(p) /\ Head(p) = p[1]
           /\ Tail(p) \in Seq(Ops) /\ Len(Tail(p)) = Len(p) - 1
           /\ DOMAIN Tail(p) = 1..(Len(p) - 1)
           /\ \A i \in 1..(Len(p) - 1) : Tail(p)[i] = p[i + 1]
  OBVIOUS

LEMMA PrependIs ==
    ASSUME NEW p \in Seq(Ops), p # << >>, NEW s \in Seq(Ops)
    PROVE  /\ s \o Tail(p) \in Seq(Ops)
           /\ Len(s \o Tail(p)) = Len(s) + Len(p) - 1
           /\ DOMAIN (s \o Tail(p)) = 1..(Len(s) + Len(p) - 1)
           /\ \A i \in 1..Len(s) : (s \o Tail(p))[i] = s[i]
           /\ \A i \in (Len(s) + 1)..(Len(s) + Len(p) - 1) : (s \o Tail(p))[i] = p[i - Len(s) + 1]
<1>1. /\ Tail(p) \in Seq(Ops) /\ Len(Tail(p)) = Len(p) - 1 /\ Len(p) \in Nat \ {0}
      /\ \A i \in 1..(Len(p) - 1) : Tail(p)[i] = p[i + 1]
  BY TailIs
<1> DEFINE t == Tail(p)
<1> HIDE DEF t
<1>2. t \in Seq(Ops)
  BY <1>1 DEF t
<1>3. /\ s \o t \in Seq(Ops) /\ Len(s \o t) = Len(s) + Len(t)
      /\ DOMAIN (s \o t) = 1..(Len(s) + Len(t))
      /\ \A i \in 1..Len(s) : (s \o t)[i] = s[i]
      /\ \A i \in (Len(s) + 1)..(Len(s) + Len(t)) : (s \o t)[i] = t[i - Len(s)]
  BY <1>2
<1>4. \A i \in (Len(s) + 1)..(Len(s) + Len(p) - 1) : (s \o t)[i] = p[i - Len(s) + 1]
  BY <1>1, <1>3 DEF t
<1> QED BY <1>1, <1>3, <1>4 DEF t

(* From i on, q is p moved by d. *)
Moved(p, q, d, i) ==
    /\ d \in Int /\ Len(p) \in Int /\ Len(q) \in Int
    /\ DOMAIN p = 1..Len(p) /\ DOMAIN q = 1..Len(q)
    /\ i \in DOMAIN q /\ i + d \in DOMAIN p /\ Len(p) = Len(q) + d
    /\ \A k \in DOMAIN q : k >= i => q[k] = p[k + d]

(* What stands at an offset after the place. *)
LEMMA MovedOffsets ==
    ASSUME NEW p, NEW q, NEW d, NEW i, Moved(p, q, d, i)
    PROVE  /\ i + 2 <= Len(q) => /\ i + d + 2 <= Len(p)
                                 /\ q[i + 1] = p[i + d + 1] /\ q[i + 2] = p[i + d + 2]
           /\ i + 4 <= Len(q) => q[i + 4] = p[i + d + 4]
           /\ i + d + 4 <= Len(p) => i + 4 <= Len(q)
           /\ Len(p) = i + d + 2 => Len(q) = i + 2
           /\ q[i] = p[i + d] /\ i \in 1..Len(q)
           /\ \A ops : Follow(q, i, ops) <=> Follow(p, i + d, ops)
<1> DEFINE m == Len(q)
           n == Len(p)
<1>1. /\ d \in Int /\ m \in Int /\ n \in Int /\ n = m + d /\ i \in 1..m
      /\ \A k \in 1..m : k >= i => q[k] = p[k + d]
  BY DEF Moved
<1> HIDE DEF m, n
<1>2. ASSUME NEW o \in 0..4, i + o <= m PROVE q[i + o] = p[i + d + o]
  <2>1. i + o \in 1..m /\ i + o >= i /\ (i + o) + d = i + d + o
    BY <1>1, <1>2
  <2> QED BY <1>1, <2>1
<1>3. ASSUME i + 2 <= m
      PROVE  i + d + 2 <= n /\ q[i + 1] = p[i + d + 1] /\ q[i + 2] = p[i + d + 2]
  <2>1. i + d + 2 <= n /\ i + 1 <= m /\ 1 \in 0..4 /\ 2 \in 0..4
    BY <1>1, <1>3
  <2> QED BY <1>2, <1>3, <2>1
<1>4. ASSUME i + 4 <= m PROVE q[i + 4] = p[i + d + 4]
  BY <1>2, <1>4
<1>5. (i + d + 4 <= n => i + 4 <= m) /\ (n = i + d + 2 => m = i + 2)
  BY <1>1
<1>6. q[i] = p[i + d]
  BY <1>1
<1>7. \A ops : i + 1 <= m /\ q[i + 1] \in ops <=> i + d + 1 <= n /\ p[i + d + 1] \in ops
  <2>1. (i + 1 <= m <=> i + d + 1 <= n) /\ 1 \in 0..4
    BY <1>1
  <2>2. i + 1 <= m => q[i + 1] = p[i + d + 1]
    BY <1>2, <2>1
  <2> QED BY <2>1, <2>2
<1>8. \A ops : Follow(q, i, ops) <=> Follow(p, i + d, ops)
  BY <1>7 DEF Follow, m, n
<1> QED BY <1>1, <1>3, <1>4, <1>5, <1>6, <1>8 DEF m, n

(* A rule of ShapeAt is about what follows: it moves with the sequence. *)
LEMMA ShapeShift ==
    ASSUME NEW p \in Seq(Ops), NEW q \in Seq(Ops), NEW c, NEW d \in Int, NEW i \in DOMAIN q,
           Moved(p, q, d, i), ShapeAt(p, i + d, c)
    PROVE  ShapeAt(q, i, c)
<1>1. /\ DOMAIN p = 1..Len(p) /\ DOMAIN q = 1..Len(q) /\ Len(p) \in Int /\ Len(q) \in Int
      /\ Len(p) = Len(q) + d /\ i + d \in DOMAIN p
  BY DEF Moved
<1>2. /\ i + 2 <= Len(q) => /\ i + d + 2 <= Len(p)
                            /\ q[i + 1] = p[i + d + 1] /\ q[i + 2] = p[i + d + 2]
      /\ i + 4 <= Len(q) => q[i + 4] = p[i + d + 4]
      /\ i + d + 4 <= Len(p) => i + 4 <= Len(q)
      /\ Len(p) = i + d + 2 => Len(q) = i + 2
      /\ q[i] = p[i + d] /\ i \in 1..Len(q)
      /\ \A ops : Follow(q, i, ops) <=> Follow(p, i + d, ops)
  BY MovedOffsets
<1>3. \A j \in DOMAIN q : j > i => j + d \in DOMAIN p /\ j + d > i + d /\ q[j] = p[j + d]
  BY <1>1 DEF Moved
<1>4. ASSUME Len(p) = i + d + 2
      PROVE  Len(q) = i + 2 /\ q[i + 1] = p[i + d + 1] /\ q[i + 2] = p[i + d + 2]
  BY <1>1, <1>2, <1>4
<1>5. i \in Int /\ d \in Int
  BY <1>2
<1>6. (i = Len(q) <=> i + d = Len(p)) /\ (i + 1 = Len(q) <=> i + d + 1 = Len(p))
  BY <1>1, SMTT(30)
<1>7. Len(p) = i + d + 1 <=> Len(q) = i + 1
  BY <1>1
<1>8. /\ i + 2 <= Len(q) /\ q[i + 1] = "join" /\ q[i + 2] = "wait" => q[i] = "cont"
      /\ q[i] = "catch" => i + 4 <= Len(q) /\ q[i + 4] = "join"
  BY <1>1, <1>2 DEF ShapeAt
<1>9. q[i] \in {"catch", "uninstance", "clear", "kill?"} =>
          \A j \in DOMAIN q : j > i => q[j] \notin Instanced
  BY <1>2, <1>3 DEF ShapeAt
<1>10. /\ q[i] = "cont" => Len(q) = i + 2 /\ q[i + 1] = "join" /\ q[i + 2] = "wait"
       /\ q[i] = "step" => Len(q) = i + 2 /\ q[i + 1] = "wait" /\ q[i + 2] = "join"
  BY <1>1, <1>2, <1>4 DEF ShapeAt
<1>11. q[i] = p[i + d] /\ \A ops : Follow(q, i, ops) <=> Follow(p, i + d, ops)
  BY <1>2
<1> QED BY <1>6, <1>7, <1>8, <1>9, <1>10, <1>11 DEF ShapeAt

LEMMA ShapedTail ==
    ASSUME NEW p \in Seq(Ops), p # << >>, NEW c, Shaped(p, c) PROVE Shaped(Tail(p), c)
<1> DEFINE q == Tail(p)
<1>1. /\ q \in Seq(Ops) /\ Len(p) = Len(q) + 1 /\ DOMAIN q = 1..Len(q) /\ DOMAIN p = 1..Len(p)
      /\ \A k \in DOMAIN q : q[k] = p[k + 1]
  BY TailIs
<1> HIDE DEF q
<1>2. ASSUME NEW i \in DOMAIN q PROVE ShapeAt(q, i, c)
  <2>1. i + 1 \in DOMAIN p /\ Len(p) \in Nat /\ Len(q) \in Nat /\ 1 \in Int
    BY <1>1, <1>2
  <2>2. ShapeAt(p, i + 1, c)
    BY <2>1 DEF Shaped
  <2>3. Moved(p, q, 1, i)
    BY <1>1, <1>2, <2>1 DEF Moved
  <2> QED BY <1>1, <1>2, <2>1, <2>2, <2>3, ShapeShift
<1> QED BY <1>2 DEF Shaped, q

LEMMA ShapedSuffix ==
    ASSUME NEW p \in Seq(Ops), NEW c, Shaped(p, c), NEW m \in 1..Len(p)
    PROVE  Shaped(SubSeq(p, m + 1, Len(p)), c)
<1> DEFINE q == SubSeq(p, m + 1, Len(p))
<1>1. /\ q \in Seq(Ops) /\ Len(p) = Len(q) + m /\ DOMAIN q = 1..Len(q) /\ DOMAIN p = 1..Len(p)
      /\ \A k \in DOMAIN q : q[k] = p[k + m]
  OBVIOUS
<1> HIDE DEF q
<1>2. ASSUME NEW i \in DOMAIN q PROVE ShapeAt(q, i, c)
  <2>1. i + m \in DOMAIN p /\ Len(p) \in Nat /\ Len(q) \in Nat /\ m \in Int
    BY <1>1, <1>2
  <2>2. ShapeAt(p, i + m, c)
    BY <2>1 DEF Shaped
  <2>3. Moved(p, q, m, i)
    BY <1>1, <1>2, <2>1 DEF Moved
  <2> QED BY <1>1, <1>2, <2>1, <2>2, <2>3, ShapeShift
<1> QED BY <1>2 DEF Shaped, q

LEMMA ShapedPrepend ==
    ASSUME NEW p \in Seq(Ops), p # << >>, NEW s \in Seq(Ops), NEW c, Shaped(p, c),
           \A i \in 1..Len(s) : ShapeAt(s \o Tail(p), i, c)
    PROVE  Shaped(s \o Tail(p), c)
<1> DEFINE q == s \o Tail(p)
           d == 1 - Len(s)
<1>1. /\ q \in Seq(Ops) /\ Len(q) = Len(s) + Len(p) - 1 /\ DOMAIN q = 1..Len(q)
      /\ DOMAIN p = 1..Len(p) /\ Len(p) \in Nat /\ Len(s) \in Nat /\ Len(q) \in Nat
      /\ \A i \in (Len(s) + 1)..Len(q) : q[i] = p[i - Len(s) + 1]
  BY PrependIs, TailIs
<1>q. \A i \in 1..Len(s) : ShapeAt(q, i, c)
  OBVIOUS
<1>2. d \in Int /\ Len(p) = Len(q) + d
  BY <1>1
<1>3. \A i \in (Len(s) + 1)..Len(q) : i + d \in DOMAIN p /\ q[i] = p[i + d]
  BY <1>1
<1> HIDE DEF q, d
<1>4. ASSUME NEW i \in DOMAIN q PROVE ShapeAt(q, i, c)
  <2>1. CASE i \in 1..Len(s)
    BY <1>q, <2>1
  <2>2. CASE i \in (Len(s) + 1)..Len(q)
    <3>1. i + d \in DOMAIN p /\ \A k \in DOMAIN q : k >= i => q[k] = p[k + d]
      BY <1>1, <1>3, <2>2
    <3>2. ShapeAt(p, i + d, c)
      BY <3>1 DEF Shaped
    <3>3. Moved(p, q, d, i)
      BY <1>1, <1>2, <1>4, <3>1 DEF Moved
    <3> QED BY <1>1, <1>2, <1>4, <3>2, <3>3, ShapeShift
  <2> QED BY <1>1, <1>4, <2>1, <2>2
<1> QED BY <1>4 DEF Shaped, q

(* The operations that a method is extended by. *)
Joining == <<"join">>
Interrupting == <<"instanced?", "alive?", "interrupt", "join">>
Stopping == <<"sigstop", "instanced?", "join", "waitmore">>
WaitingMore == <<"wait", "join">>

LEMMA ConcatIs ==
    ASSUME NEW s \in Seq(Ops), NEW t \in Seq(Ops)
    PROVE  /\ s \o t \in Seq(Ops) /\ Len(s \o t) = Len(s) + Len(t)
           /\ \A i \in 1..Len(s) : (s \o t)[i] = s[i]
           /\ \A i \in 1..Len(t) : (s \o t)[Len(s) + i] = t[i]
<1>1. /\ s \o t \in Seq(Ops) /\ Len(s \o t) = Len(s) + Len(t)
      /\ \A i \in 1..Len(s) : (s \o t)[i] = s[i]
  OBVIOUS
<1>2. \A i \in (Len(s) + 1)..(Len(s) + Len(t)) : (s \o t)[i] = t[i - Len(s)]
  OBVIOUS
<1>3. \A i \in 1..Len(t) : Len(s) + i \in (Len(s) + 1)..(Len(s) + Len(t)) /\ (Len(s) + i) - Len(s) = i
  OBVIOUS
<1>4. \A i \in 1..Len(t) : (s \o t)[Len(s) + i] = t[(Len(s) + i) - Len(s)]
  BY <1>2, <1>3
<1> QED BY <1>1, <1>3, <1>4

LEMMA FourIs ==
    ASSUME NEW p \in Seq(Ops), Len(p) = 4 PROVE p = <<p[1], p[2], p[3], p[4]>>
  OBVIOUS

LEMMA ExtensionsAre ==
    /\ InterruptBody \o <<"join">> = Interrupting /\ <<"sigstop">> \o WaitBody = Stopping
    /\ Joining \in Seq(Ops) /\ Interrupting \in Seq(Ops) /\ Stopping \in Seq(Ops)
    /\ WaitingMore \in Seq(Ops) /\ KillBody \in Seq(Ops)
    /\ Len(Joining) = 1 /\ Len(Interrupting) = 4 /\ Len(Stopping) = 4 /\ Len(WaitingMore) = 2
    /\ Len(KillBody) = 6
<1>a. Len(<<"join">>) = 1 /\ Len(<<"sigstop">>) = 1 /\ <<"join">>[1] = "join" /\ <<"sigstop">>[1] = "sigstop"
      /\ <<"join">> \in Seq(Ops) /\ <<"sigstop">> \in Seq(Ops)
  BY DEF Ops, MicroOps, Commands
<1>1. InterruptBody \o <<"join">> = Interrupting
  <2> DEFINE a == <<"join">>
             q == InterruptBody \o a
  <2>1. /\ Len(InterruptBody) = 3 /\ InterruptBody[1] = "instanced?" /\ InterruptBody[2] = "alive?"
        /\ InterruptBody[3] = "interrupt"
    BY DEF InterruptBody
  <2>2. Len(a) = 1 /\ a[1] = "join" /\ a \in Seq(Ops)
    BY <1>a
  <2> HIDE DEF a
  <2>3. /\ q \in Seq(Ops) /\ Len(q) = Len(InterruptBody) + Len(a)
        /\ \A i \in 1..Len(InterruptBody) : q[i] = InterruptBody[i]
        /\ \A i \in 1..Len(a) : q[Len(InterruptBody) + i] = a[i]
    BY <2>2, WrapperType, ConcatIs, Zenon
  <2> HIDE DEF q
  <2>4. Len(q) = 4 /\ q[1] = "instanced?" /\ q[2] = "alive?" /\ q[3] = "interrupt" /\ q[4] = "join"
    BY <2>1, <2>2, <2>3
  <2>5. q = Interrupting
    BY <2>3, <2>4, FourIs DEF Interrupting
  <2> QED BY <2>5 DEF q, a
<1>2. <<"sigstop">> \o WaitBody = Stopping
  <2> DEFINE a == <<"sigstop">>
             q == a \o WaitBody
  <2>1. /\ Len(WaitBody) = 3 /\ WaitBody[1] = "instanced?" /\ WaitBody[2] = "join"
        /\ WaitBody[3] = "waitmore"
    BY DEF WaitBody
  <2>2. Len(a) = 1 /\ a[1] = "sigstop" /\ a \in Seq(Ops)
    BY <1>a
  <2> HIDE DEF a
  <2>3. /\ q \in Seq(Ops) /\ Len(q) = Len(a) + Len(WaitBody)
        /\ \A i \in 1..Len(a) : q[i] = a[i]
        /\ \A i \in 1..Len(WaitBody) : q[Len(a) + i] = WaitBody[i]
    BY <2>2, WrapperType, ConcatIs, Zenon
  <2> HIDE DEF q
  <2>4. Len(q) = 4 /\ q[1] = "sigstop" /\ q[2] = "instanced?" /\ q[3] = "join" /\ q[4] = "waitmore"
    BY <2>1, <2>2, <2>3
  <2>5. q = Stopping
    BY <2>3, <2>4, FourIs DEF Stopping
  <2> QED BY <2>5 DEF q, a
<1>3. /\ Joining \in Seq(Ops) /\ Interrupting \in Seq(Ops) /\ Stopping \in Seq(Ops)
      /\ WaitingMore \in Seq(Ops) /\ KillBody \in Seq(Ops)
  BY DEF Joining, Interrupting, Stopping, WaitingMore, KillBody, Ops, MicroOps, Commands
<1>4. /\ Len(Joining) = 1 /\ Len(Interrupting) = 4 /\ Len(Stopping) = 4 /\ Len(WaitingMore) = 2
      /\ Len(KillBody) = 6
  BY DEF Joining, Interrupting, Stopping, WaitingMore, KillBody
<1> QED BY <1>1, <1>2, <1>3, <1>4

(* An operation that asks nothing of what follows it. *)
LEMMA PlainShape ==
    ASSUME NEW q, NEW i \in Nat, NEW c,
           q[i] \notin {"cont", "step", "wait", "catch", "kill", "set", "terminate", "jointhread",
                        "uninstance", "clear", "kill?"} \cup Starting,
           i + 1 <= Len(q) => q[i + 1] \notin {"wait", "instance", "joincmd", "getrsp"},
           ~(i + 2 <= Len(q) /\ q[i + 1] = "join" /\ q[i + 2] = "wait")
    PROVE  ShapeAt(q, i, c)
<1>1. /\ ~Follow(q, i, {"wait"}) /\ ~Follow(q, i, {"instance"}) /\ ~Follow(q, i, {"joincmd"})
      /\ ~Follow(q, i, {"getrsp"})
  BY DEF Follow
<1> QED BY <1>1 DEF ShapeAt

(* What may come after an operation that extends its method. *)
LEMMA NextIs ==
    ASSUME NEW p \in Seq(Ops), p # << >>, NEW c, Shaped(p, c),
           p[1] \in {"ensure", "interrupt", "waitmore", "kill?"}
    PROVE  /\ ~Follow(p, 1, {"wait"}) /\ ~Follow(p, 1, {"instance"}) /\ ~Follow(p, 1, {"joincmd"})
           /\ ~Follow(p, 1, {"getrsp"})
           /\ ~(Len(p) >= 3 /\ p[2] = "join" /\ p[3] = "wait")
           /\ p[1] = "kill?" => \A j \in 2..Len(p) : p[j] \notin Instanced
<1>1. 1 \in DOMAIN p /\ DOMAIN p = 1..Len(p) /\ Len(p) \in Nat
  BY TailIs
<1>2. ShapeAt(p, 1, c)
  BY <1>1 DEF Shaped
<1> QED BY <1>1, <1>2 DEF ShapeAt

LEMMA ShapedJoining ==
    ASSUME NEW p \in Seq(Ops), p # << >>, NEW c, Shaped(p, c), p[1] = "ensure"
    PROVE  Shaped(Joining \o Tail(p), c)
<1> DEFINE q == Joining \o Tail(p)
<1>1. /\ Len(q) = Len(p) /\ q[1] = "join" /\ Len(p) \in Nat \ {0}
      /\ \A i \in 2..Len(p) : q[i] = p[i]
  BY PrependIs, ExtensionsAre, TailIs DEF Joining
<1> HIDE DEF q
<1>n. /\ Len(p) >= 2 => p[2] \notin {"wait", "instance", "joincmd", "getrsp"}
      /\ ~(Len(p) >= 3 /\ p[2] = "join" /\ p[3] = "wait")
  BY NextIs DEF Follow
<1>m. (Len(p) >= 2 => q[2] = p[2]) /\ (Len(p) >= 3 => q[3] = p[3])
  BY <1>1
<1>2. ShapeAt(q, 1, c)
  BY <1>1, <1>m, <1>n DEF ShapeAt, Follow, Starting
<1>4. \A i \in 1..Len(Joining) : ShapeAt(q, i, c)
  BY <1>2, ExtensionsAre
<1> QED BY <1>4, ExtensionsAre, ShapedPrepend DEF q

LEMMA ShapedInterrupting ==
    ASSUME NEW p \in Seq(Ops), p # << >>, NEW c, Shaped(p, c), p[1] = "ensure"
    PROVE  Shaped(Interrupting \o Tail(p), c)
<1> DEFINE q == Interrupting \o Tail(p)
<1>1. /\ Len(q) = Len(p) + 3 /\ Len(p) \in Nat \ {0}
      /\ q[1] = "instanced?" /\ q[2] = "alive?" /\ q[3] = "interrupt" /\ q[4] = "join"
      /\ \A i \in 5..(Len(p) + 3) : q[i] = p[i - 3]
  BY PrependIs, ExtensionsAre, TailIs DEF Interrupting
<1> HIDE DEF q
<1>n. /\ Len(p) >= 2 => p[2] \notin {"wait", "instance", "joincmd", "getrsp"}
      /\ ~(Len(p) >= 3 /\ p[2] = "join" /\ p[3] = "wait")
  BY NextIs DEF Follow
<1>a. ASSUME Len(p) >= 2 PROVE q[5] = p[2]
  <2>1. q[5] = p[5 - 3]
    BY <1>1, <1>a
  <2> QED BY <2>1
<1>b. ASSUME Len(p) >= 3 PROVE q[6] = p[3]
  <2>1. q[6] = p[6 - 3]
    BY <1>1, <1>b
  <2> QED BY <2>1
<1>m. (Len(p) >= 2 => q[5] = p[2]) /\ (Len(p) >= 3 => q[6] = p[3])
  BY <1>a, <1>b
<1>2. ShapeAt(q, 4, c)
  <2>1. 4 + 1 <= Len(q) => q[4 + 1] \notin {"wait", "instance", "joincmd", "getrsp"}
    BY <1>1, <1>m, <1>n
  <2>2. ~(4 + 2 <= Len(q) /\ q[4 + 1] = "join" /\ q[4 + 2] = "wait")
    BY <1>1, <1>m, <1>n
  <2> QED BY <1>1, <2>1, <2>2, PlainShape DEF Starting
<1>3. ShapeAt(q, 1, c) /\ ShapeAt(q, 2, c) /\ ShapeAt(q, 3, c)
  BY <1>1, <1>m, <1>n DEF ShapeAt, Follow, Starting
<1>5. \A i \in 1..Len(Interrupting) : ShapeAt(q, i, c)
  BY <1>2, <1>3, ExtensionsAre
<1> QED BY <1>5, ExtensionsAre, ShapedPrepend DEF q

LEMMA ShapedStopping ==
    ASSUME NEW p \in Seq(Ops), p # << >>, NEW c, Shaped(p, c), p[1] = "interrupt"
    PROVE  Shaped(Stopping \o Tail(p), c)
<1> DEFINE q == Stopping \o Tail(p)
<1>1. /\ Len(q) = Len(p) + 3 /\ Len(p) \in Nat \ {0}
      /\ q[1] = "sigstop" /\ q[2] = "instanced?" /\ q[3] = "join" /\ q[4] = "waitmore"
      /\ \A i \in 5..(Len(p) + 3) : q[i] = p[i - 3]
  BY PrependIs, ExtensionsAre, TailIs DEF Stopping
<1> HIDE DEF q
<1>n. /\ Len(p) >= 2 => p[2] \notin {"wait", "instance", "joincmd", "getrsp"}
      /\ ~(Len(p) >= 3 /\ p[2] = "join" /\ p[3] = "wait")
  BY NextIs DEF Follow
<1>a. ASSUME Len(p) >= 2 PROVE q[5] = p[2]
  <2>1. q[5] = p[5 - 3]
    BY <1>1, <1>a
  <2> QED BY <2>1
<1>b. ASSUME Len(p) >= 3 PROVE q[6] = p[3]
  <2>1. q[6] = p[6 - 3]
    BY <1>1, <1>b
  <2> QED BY <2>1
<1>m. (Len(p) >= 2 => q[5] = p[2]) /\ (Len(p) >= 3 => q[6] = p[3])
  BY <1>a, <1>b
<1>2. ShapeAt(q, 4, c)
  <2>1. 4 + 1 <= Len(q) => q[4 + 1] \notin {"wait", "instance", "joincmd", "getrsp"}
    BY <1>1, <1>m, <1>n
  <2>2. ~(4 + 2 <= Len(q) /\ q[4 + 1] = "join" /\ q[4 + 2] = "wait")
    BY <1>1, <1>m, <1>n
  <2> QED BY <1>1, <2>1, <2>2, PlainShape DEF Starting
<1>3. ShapeAt(q, 1, c) /\ ShapeAt(q, 2, c) /\ ShapeAt(q, 3, c)
  BY <1>1, <1>m, <1>n DEF ShapeAt, Follow, Starting
<1>5. \A i \in 1..Len(Stopping) : ShapeAt(q, i, c)
  BY <1>2, <1>3, ExtensionsAre
<1> QED BY <1>5, ExtensionsAre, ShapedPrepend DEF q

LEMMA ShapedWaitingMore ==
    ASSUME NEW p \in Seq(Ops), p # << >>, NEW c, Shaped(p, c), p[1] = "waitmore"
    PROVE  Shaped(WaitingMore \o Tail(p), c)
<1> DEFINE q == WaitingMore \o Tail(p)
<1>1. /\ Len(q) = Len(p) + 1 /\ Len(p) \in Nat \ {0}
      /\ q[1] = "wait" /\ q[2] = "join"
      /\ \A i \in 3..(Len(p) + 1) : q[i] = p[i - 1]
  BY PrependIs, ExtensionsAre, TailIs DEF WaitingMore
<1> HIDE DEF q
<1>n. /\ Len(p) >= 2 => p[2] \notin {"wait", "instance", "joincmd", "getrsp"}
      /\ ~(Len(p) >= 3 /\ p[2] = "join" /\ p[3] = "wait")
  BY NextIs DEF Follow
<1>a. ASSUME Len(p) >= 2 PROVE q[3] = p[2]
  <2>1. q[3] = p[3 - 1]
    BY <1>1, <1>a
  <2> QED BY <2>1
<1>b. ASSUME Len(p) >= 3 PROVE q[4] = p[3]
  <2>1. q[4] = p[4 - 1]
    BY <1>1, <1>b
  <2> QED BY <2>1
<1>m. (Len(p) >= 2 => q[3] = p[2]) /\ (Len(p) >= 3 => q[4] = p[3])
  BY <1>a, <1>b
<1>2. ShapeAt(q, 2, c)
  <2>1. 2 + 1 <= Len(q) => q[2 + 1] \notin {"wait", "instance", "joincmd", "getrsp"}
    BY <1>1, <1>m, <1>n
  <2>2. ~(2 + 2 <= Len(q) /\ q[2 + 1] = "join" /\ q[2 + 2] = "wait")
    BY <1>1, <1>m, <1>n
  <2> QED BY <1>1, <2>1, <2>2, PlainShape DEF Starting
<1>3. ShapeAt(q, 1, c)
  BY <1>1, <1>m, <1>n DEF ShapeAt, Follow, Starting
<1>5. \A i \in 1..Len(WaitingMore) : ShapeAt(q, i, c)
  BY <1>2, <1>3, ExtensionsAre
<1> QED BY <1>5, ExtensionsAre, ShapedPrepend DEF q

LEMMA ShapedKill ==
    ASSUME NEW p \in Seq(Ops), p # << >>, NEW c, Shaped(p, c), p[1] = "kill?"
    PROVE  Shaped(KillBody \o Tail(p), c)
<1> DEFINE q == KillBody \o Tail(p)
<1>1. /\ Len(q) = Len(p) + 5 /\ Len(p) \in Nat \ {0} /\ DOMAIN q = 1..(Len(p) + 5)
      /\ q[1] = "ensure" /\ q[2] = "catch" /\ q[3] = "kill" /\ q[4] = "uninstance"
      /\ q[5] = "close" /\ q[6] = "join"
      /\ \A i \in 7..(Len(p) + 5) : q[i] = p[i - 5]
  BY PrependIs, ExtensionsAre, TailIs DEF KillBody
<1> HIDE DEF q
<1>n. /\ Len(p) >= 2 => p[2] \notin {"wait", "instance", "joincmd", "getrsp"}
      /\ ~(Len(p) >= 3 /\ p[2] = "join" /\ p[3] = "wait")
  BY NextIs DEF Follow
<1>a. ASSUME Len(p) >= 2 PROVE q[7] = p[2]
  <2>1. q[7] = p[7 - 5]
    BY <1>1, <1>a
  <2> QED BY <2>1
<1>b. ASSUME Len(p) >= 3 PROVE q[8] = p[3]
  <2>1. q[8] = p[8 - 5]
    BY <1>1, <1>b
  <2> QED BY <2>1
<1>m. (Len(p) >= 2 => q[7] = p[2]) /\ (Len(p) >= 3 => q[8] = p[3])
  BY <1>a, <1>b
<1>2. ShapeAt(q, 6, c)
  <2>1. 6 + 1 <= Len(q) => q[6 + 1] \notin {"wait", "instance", "joincmd", "getrsp"}
    BY <1>1, <1>m, <1>n
  <2>2. ~(6 + 2 <= Len(q) /\ q[6 + 1] = "join" /\ q[6 + 2] = "wait")
    BY <1>1, <1>m, <1>n
  <2> QED BY <1>1, <2>1, <2>2, PlainShape DEF Starting
<1>4. \A j \in 3..(Len(p) + 5) : q[j] \notin Instanced
  <2>1. \A j \in 2..Len(p) : p[j] \notin Instanced
    BY NextIs
  <2>2. \A j \in 7..(Len(p) + 5) : j - 5 \in 2..Len(p)
    BY <1>1
  <2>3. \A j \in 3..6 : q[j] \notin Instanced
    BY <1>1 DEF Instanced, Moving
  <2> QED BY <1>1, <2>1, <2>2, <2>3
<1>3. ShapeAt(q, 1, c) /\ ShapeAt(q, 2, c) /\ ShapeAt(q, 3, c) /\ ShapeAt(q, 4, c) /\ ShapeAt(q, 5, c)
  BY <1>1, <1>4, <1>m, <1>n DEF ShapeAt, Follow, Starting
<1>5. \A i \in 1..Len(KillBody) : ShapeAt(q, i, c)
  BY <1>2, <1>3, ExtensionsAre
<1> QED BY <1>5, ExtensionsAre, ShapedPrepend DEF q

-------------------------------------------------------------------------------
(* The methods as they are called. *)

LEMMA GuardedBy ==
    ASSUME NEW p \in Seq(Ops), NEW X, NEW G, NEW k \in 1..Len(p), p[k] \in G,
           \A i \in 1..k : p[i] \notin X
    PROVE  ~Unguarded(p, X, G)
  BY DEF Unguarded

LEMMA NoneOf ==
    ASSUME NEW p \in Seq(Ops), NEW X, NEW G, \A i \in 1..Len(p) : p[i] \notin X
    PROVE  ~Unguarded(p, X, G)
  BY DEF Unguarded

(* What a method promises when it is called. *)
Fresh(p, c) ==
    /\ Shaped(p, c)
    /\ ~Unguarded(p, Guarded, Checks)
    /\ ~Unguarded(p, Instanced, {"instanced?"})
    /\ ~Unguarded(p, Populated, {"alive?"})
    /\ \E i \in DOMAIN p : p[i] \in Closers
    /\ p # << >> /\ p[1] \in {"instanced?", "kill?", "ensure", "terminate"}

LEMMA WrapIs ==
    ASSUME NEW x \in Seq(Ops), NEW q, q = ThreadWrapper \o x
    PROVE  /\ q \in Seq(Ops) /\ Len(q) = 3 + Len(x) /\ DOMAIN q = 1..(3 + Len(x))
           /\ q[1] = "instanced?" /\ q[2] = "ensure" /\ q[3] = "alive?"
           /\ \A i \in 1..Len(x) : q[3 + i] = x[i]
<1>1. /\ Len(ThreadWrapper) = 3 /\ ThreadWrapper[1] = "instanced?" /\ ThreadWrapper[2] = "ensure"
      /\ ThreadWrapper[3] = "alive?"
  BY DEF ThreadWrapper
<1>3. ThreadWrapper \in Seq(Ops)
  BY WrapperType
<1>2. /\ q \in Seq(Ops) /\ Len(q) = Len(ThreadWrapper) + Len(x)
      /\ \A i \in 1..Len(ThreadWrapper) : q[i] = ThreadWrapper[i]
      /\ \A i \in 1..Len(x) : q[Len(ThreadWrapper) + i] = x[i]
  BY <1>3, ConcatIs, Zenon
<1> QED BY <1>1, <1>2

LEMMA FreshCont == Fresh(ContBody, "cont")
<1> DEFINE x == <<"cont", "join", "wait">>
<1>1. x \in Seq(Ops) /\ Len(x) = 3 /\ x[1] = "cont" /\ x[2] = "join" /\ x[3] = "wait"
  BY DEF Ops, MicroOps, Commands
<1>2. ContBody = ThreadWrapper \o x
  BY DEF ContBody, ProcessWrapper, ThreadWrapper
<1> HIDE DEF x
<1>3. PICK q : q = ContBody
  OBVIOUS
<1>a. /\ q \in Seq(Ops) /\ Len(q) = 3 + Len(x) /\ DOMAIN q = 1..(3 + Len(x))
      /\ q[1] = "instanced?" /\ q[2] = "ensure" /\ q[3] = "alive?"
      /\ \A i \in 1..Len(x) : q[3 + i] = x[i]
  BY <1>1, <1>2, <1>3, WrapIs, Zenon
<1>4. /\ q \in Seq(Ops) /\ Len(q) = 6 /\ DOMAIN q = 1..6 /\ q # << >>
      /\ q[1] = "instanced?" /\ q[2] = "ensure" /\ q[3] = "alive?"
      /\ q[4] = "cont" /\ q[5] = "join" /\ q[6] = "wait"
  BY <1>1, <1>a
<1>5. Shaped(q, "cont")
  BY <1>4 DEF Shaped, ShapeAt, Follow, Starting
<1>6. ~Unguarded(q, Guarded, Checks)
  BY <1>4 DEF Unguarded, Guarded, Access, Starting, Checks
<1>7. ~Unguarded(q, Instanced, {"instanced?"})
  BY <1>4 DEF Unguarded, Instanced, Moving
<1>8. ~Unguarded(q, Populated, {"alive?"})
  BY <1>4 DEF Unguarded, Populated, Moving
<1>9. q[5] \in Closers
  BY <1>4 DEF Closers
<1> QED BY <1>3, <1>4, <1>5, <1>6, <1>7, <1>8, <1>9 DEF Fresh

LEMMA FreshStep == Fresh(StepBody, "step")
<1> DEFINE x == <<"ensure", "step", "wait", "join">>
<1>1. x \in Seq(Ops) /\ Len(x) = 4 /\ x[1] = "ensure" /\ x[2] = "step" /\ x[3] = "wait" /\ x[4] = "join"
  BY DEF Ops, MicroOps, Commands
<1>2. StepBody = ThreadWrapper \o x
  BY DEF StepBody
<1> HIDE DEF x
<1>3. PICK q : q = StepBody
  OBVIOUS
<1>a. /\ q \in Seq(Ops) /\ Len(q) = 3 + Len(x) /\ DOMAIN q = 1..(3 + Len(x))
      /\ q[1] = "instanced?" /\ q[2] = "ensure" /\ q[3] = "alive?"
      /\ \A i \in 1..Len(x) : q[3 + i] = x[i]
  BY <1>1, <1>2, <1>3, WrapIs, Zenon
<1>4. /\ q \in Seq(Ops) /\ Len(q) = 7 /\ DOMAIN q = 1..7 /\ q # << >>
      /\ q[1] = "instanced?" /\ q[2] = "ensure" /\ q[3] = "alive?"
      /\ q[4] = "ensure" /\ q[5] = "step" /\ q[6] = "wait" /\ q[7] = "join"
  BY <1>1, <1>a
<1>5. Shaped(q, "step")
  BY <1>4 DEF Shaped, ShapeAt, Follow, Starting
<1>6. ~Unguarded(q, Guarded, Checks)
  BY <1>4 DEF Unguarded, Guarded, Access, Starting, Checks
<1>7. ~Unguarded(q, Instanced, {"instanced?"})
  BY <1>4 DEF Unguarded, Instanced, Moving
<1>8. ~Unguarded(q, Populated, {"alive?"})
  BY <1>4 DEF Unguarded, Populated, Moving
<1>9. q[7] \in Closers
  BY <1>4 DEF Closers
<1> QED BY <1>3, <1>4, <1>5, <1>6, <1>7, <1>8, <1>9 DEF Fresh

LEMMA FreshStepUntil == Fresh(ThreadWrapper \o <<"step_until", "join">>, "step_until")
<1> DEFINE x == <<"step_until", "join">>
<1>1. x \in Seq(Ops) /\ Len(x) = 2 /\ x[1] = "step_until" /\ x[2] = "join"
  BY DEF Ops, MicroOps, Commands
<1>2. ThreadWrapper \o <<"step_until", "join">> = ThreadWrapper \o x
  BY DEF ProcessWrapper, ThreadWrapper
<1> HIDE DEF x
<1>3. PICK q : q = ThreadWrapper \o <<"step_until", "join">>
  OBVIOUS
<1>a. /\ q \in Seq(Ops) /\ Len(q) = 3 + Len(x) /\ DOMAIN q = 1..(3 + Len(x))
      /\ q[1] = "instanced?" /\ q[2] = "ensure" /\ q[3] = "alive?"
      /\ \A i \in 1..Len(x) : q[3 + i] = x[i]
  BY <1>1, <1>2, <1>3, WrapIs, Zenon
<1>4. /\ q \in Seq(Ops) /\ Len(q) = 5 /\ DOMAIN q = 1..5 /\ q # << >>
      /\ q[1] = "instanced?" /\ q[2] = "ensure" /\ q[3] = "alive?"
      /\ q[4] = "step_until" /\ q[5] = "join"
  BY <1>1, <1>a
<1>5. Shaped(q, "step_until")
  BY <1>4 DEF Shaped, ShapeAt, Follow, Starting
<1>6. ~Unguarded(q, Guarded, Checks)
  BY <1>4 DEF Unguarded, Guarded, Access, Starting, Checks
<1>7. ~Unguarded(q, Instanced, {"instanced?"})
  BY <1>4 DEF Unguarded, Instanced, Moving
<1>8. ~Unguarded(q, Populated, {"alive?"})
  BY <1>4 DEF Unguarded, Populated, Moving
<1>9. q[5] \in Closers
  BY <1>4 DEF Closers
<1> QED BY <1>3, <1>4, <1>5, <1>6, <1>7, <1>8, <1>9 DEF Fresh

LEMMA FreshFinish == Fresh(ThreadWrapper \o <<"finish", "join">>, "finish")
<1> DEFINE x == <<"finish", "join">>
<1>1. x \in Seq(Ops) /\ Len(x) = 2 /\ x[1] = "finish" /\ x[2] = "join"
  BY DEF Ops, MicroOps, Commands
<1>2. ThreadWrapper \o <<"finish", "join">> = ThreadWrapper \o x
  BY DEF ProcessWrapper, ThreadWrapper
<1> HIDE DEF x
<1>3. PICK q : q = ThreadWrapper \o <<"finish", "join">>
  OBVIOUS
<1>a. /\ q \in Seq(Ops) /\ Len(q) = 3 + Len(x) /\ DOMAIN q = 1..(3 + Len(x))
      /\ q[1] = "instanced?" /\ q[2] = "ensure" /\ q[3] = "alive?"
      /\ \A i \in 1..Len(x) : q[3 + i] = x[i]
  BY <1>1, <1>2, <1>3, WrapIs, Zenon
<1>4. /\ q \in Seq(Ops) /\ Len(q) = 5 /\ DOMAIN q = 1..5 /\ q # << >>
      /\ q[1] = "instanced?" /\ q[2] = "ensure" /\ q[3] = "alive?"
      /\ q[4] = "finish" /\ q[5] = "join"
  BY <1>1, <1>a
<1>5. Shaped(q, "finish")
  BY <1>4 DEF Shaped, ShapeAt, Follow, Starting
<1>6. ~Unguarded(q, Guarded, Checks)
  BY <1>4 DEF Unguarded, Guarded, Access, Starting, Checks
<1>7. ~Unguarded(q, Instanced, {"instanced?"})
  BY <1>4 DEF Unguarded, Instanced, Moving
<1>8. ~Unguarded(q, Populated, {"alive?"})
  BY <1>4 DEF Unguarded, Populated, Moving
<1>9. q[5] \in Closers
  BY <1>4 DEF Closers
<1> QED BY <1>3, <1>4, <1>5, <1>6, <1>7, <1>8, <1>9 DEF Fresh

LEMMA FreshSet == Fresh(ProcessWrapper \o <<"set", "join">>, "set")
<1> DEFINE x == <<"set", "join">>
<1>1. x \in Seq(Ops) /\ Len(x) = 2 /\ x[1] = "set" /\ x[2] = "join"
  BY DEF Ops, MicroOps, Commands
<1>2. ProcessWrapper \o <<"set", "join">> = ThreadWrapper \o x
  BY DEF ProcessWrapper, ThreadWrapper
<1> HIDE DEF x
<1>3. PICK q : q = ProcessWrapper \o <<"set", "join">>
  OBVIOUS
<1>a. /\ q \in Seq(Ops) /\ Len(q) = 3 + Len(x) /\ DOMAIN q = 1..(3 + Len(x))
      /\ q[1] = "instanced?" /\ q[2] = "ensure" /\ q[3] = "alive?"
      /\ \A i \in 1..Len(x) : q[3 + i] = x[i]
  BY <1>1, <1>2, <1>3, WrapIs, Zenon
<1>4. /\ q \in Seq(Ops) /\ Len(q) = 5 /\ DOMAIN q = 1..5 /\ q # << >>
      /\ q[1] = "instanced?" /\ q[2] = "ensure" /\ q[3] = "alive?"
      /\ q[4] = "set" /\ q[5] = "join"
  BY <1>1, <1>a
<1>5. Shaped(q, "set")
  BY <1>4 DEF Shaped, ShapeAt, Follow, Starting
<1>6. ~Unguarded(q, Guarded, Checks)
  BY <1>4 DEF Unguarded, Guarded, Access, Starting, Checks
<1>7. ~Unguarded(q, Instanced, {"instanced?"})
  BY <1>4 DEF Unguarded, Instanced, Moving
<1>8. ~Unguarded(q, Populated, {"alive?"})
  BY <1>4 DEF Unguarded, Populated, Moving
<1>9. q[5] \in Closers
  BY <1>4 DEF Closers
<1> QED BY <1>3, <1>4, <1>5, <1>6, <1>7, <1>8, <1>9 DEF Fresh

LEMMA FreshDetach == Fresh(<<"instanced?", "ensure", "detach", "join">>, "detach")
<1>3. PICK q : q = <<"instanced?", "ensure", "detach", "join">>
  OBVIOUS
<1>4. /\ q \in Seq(Ops) /\ Len(q) = 4 /\ DOMAIN q = 1..4 /\ q # << >>
      /\ q[1] = "instanced?" /\ q[2] = "ensure" /\ q[3] = "detach" /\ q[4] = "join"
  BY <1>3 DEF Ops, MicroOps, Commands
<1>5. Shaped(q, "detach")
  BY <1>4 DEF Shaped, ShapeAt, Follow, Starting
<1>6. ~Unguarded(q, Guarded, Checks)
  BY <1>4 DEF Unguarded, Guarded, Access, Starting, Checks
<1>7. ~Unguarded(q, Instanced, {"instanced?"})
  BY <1>4 DEF Unguarded, Instanced, Moving
<1>8. ~Unguarded(q, Populated, {"alive?"})
  BY <1>4 DEF Unguarded, Populated, Moving
<1>9. q[4] \in Closers
  BY <1>4 DEF Closers
<1> QED BY <1>3, <1>4, <1>5, <1>6, <1>7, <1>8, <1>9 DEF Fresh

LEMMA FreshKill == Fresh(KillBody, "kill")
<1>3. PICK q : q = KillBody
  OBVIOUS
<1>4. /\ q \in Seq(Ops) /\ Len(q) = 6 /\ DOMAIN q = 1..6 /\ q # << >>
      /\ q[1] = "ensure" /\ q[2] = "catch" /\ q[3] = "kill" /\ q[4] = "uninstance"
      /\ q[5] = "close" /\ q[6] = "join"
  BY <1>3 DEF KillBody, Ops, MicroOps, Commands
<1>5. Shaped(q, "kill")
  BY <1>4 DEF Shaped, ShapeAt, Follow, Starting, Instanced, Moving
<1>6. ~Unguarded(q, Guarded, Checks)
  BY <1>4 DEF Unguarded, Guarded, Access, Starting, Checks
<1>7. ~Unguarded(q, Instanced, {"instanced?"})
  BY <1>4 DEF Unguarded, Instanced, Moving
<1>8. ~Unguarded(q, Populated, {"alive?"})
  BY <1>4 DEF Unguarded, Populated, Moving
<1>9. q[6] \in Closers
  BY <1>4 DEF Closers
<1> QED BY <1>3, <1>4, <1>5, <1>6, <1>7, <1>8, <1>9 DEF Fresh

LEMMA FreshTerminate == Fresh(<<"terminate", "jointhread">>, "terminate")
<1>3. PICK q : q = <<"terminate", "jointhread">>
  OBVIOUS
<1>4. /\ q \in Seq(Ops) /\ Len(q) = 2 /\ DOMAIN q = 1..2 /\ q # << >>
      /\ q[1] = "terminate" /\ q[2] = "jointhread"
  BY <1>3 DEF Ops, MicroOps, Commands
<1>5. Shaped(q, "terminate")
  BY <1>4 DEF Shaped, ShapeAt, Follow, Starting
<1>6. ~Unguarded(q, Guarded, Checks)
  BY <1>4 DEF Unguarded, Guarded, Access, Starting, Checks
<1>7. ~Unguarded(q, Instanced, {"instanced?"})
  BY <1>4 DEF Unguarded, Instanced, Moving
<1>8. ~Unguarded(q, Populated, {"alive?"})
  BY <1>4 DEF Unguarded, Populated, Moving
<1>9. q[2] \in Closers
  BY <1>4 DEF Closers
<1> QED BY <1>3, <1>4, <1>5, <1>6, <1>7, <1>8, <1>9 DEF Fresh

LEMMA FreshInterrupt == Fresh(InterruptBody, "interrupt")
<1>3. PICK q : q = InterruptBody
  OBVIOUS
<1>4. /\ q \in Seq(Ops) /\ Len(q) = 3 /\ DOMAIN q = 1..3 /\ q # << >>
      /\ q[1] = "instanced?" /\ q[2] = "alive?" /\ q[3] = "interrupt"
  BY <1>3 DEF InterruptBody, Ops, MicroOps, Commands
<1>5. Shaped(q, "interrupt")
  BY <1>4 DEF Shaped, ShapeAt, Follow, Starting
<1>6. ~Unguarded(q, Guarded, Checks)
  BY <1>4 DEF Unguarded, Guarded, Access, Starting, Checks
<1>7. ~Unguarded(q, Instanced, {"instanced?"})
  BY <1>4 DEF Unguarded, Instanced, Moving
<1>8. ~Unguarded(q, Populated, {"alive?"})
  BY <1>4 DEF Unguarded, Populated, Moving
<1>9. q[3] \in Closers
  BY <1>4 DEF Closers
<1> QED BY <1>3, <1>4, <1>5, <1>6, <1>7, <1>8, <1>9 DEF Fresh

LEMMA FreshWait == Fresh(WaitBody, "wait")
<1>3. PICK q : q = WaitBody
  OBVIOUS
<1>4. /\ q \in Seq(Ops) /\ Len(q) = 3 /\ DOMAIN q = 1..3 /\ q # << >>
      /\ q[1] = "instanced?" /\ q[2] = "join" /\ q[3] = "waitmore"
  BY <1>3 DEF WaitBody, Ops, MicroOps, Commands
<1>5. Shaped(q, "wait")
  BY <1>4 DEF Shaped, ShapeAt, Follow, Starting
<1>6. ~Unguarded(q, Guarded, Checks)
  BY <1>4 DEF Unguarded, Guarded, Access, Starting, Checks
<1>7. ~Unguarded(q, Instanced, {"instanced?"})
  BY <1>4 DEF Unguarded, Instanced, Moving
<1>8. ~Unguarded(q, Populated, {"alive?"})
  BY <1>4 DEF Unguarded, Populated, Moving
<1>9. q[2] \in Closers
  BY <1>4 DEF Closers
<1> QED BY <1>3, <1>4, <1>5, <1>6, <1>7, <1>8, <1>9 DEF Fresh

LEMMA FreshPeek == Fresh(<<"instanced?", "ensure", "peek", "joincmd", "getrsp">>, "peek")
<1>3. PICK q : q = <<"instanced?", "ensure", "peek", "joincmd", "getrsp">>
  OBVIOUS
<1>4. /\ q \in Seq(Ops) /\ Len(q) = 5 /\ DOMAIN q = 1..5 /\ q # << >>
      /\ q[1] = "instanced?" /\ q[2] = "ensure" /\ q[3] = "peek" /\ q[4] = "joincmd"
      /\ q[5] = "getrsp"
  BY <1>3 DEF Ops, MicroOps, Commands
<1>5. Shaped(q, "peek")
  BY <1>4 DEF Shaped, ShapeAt, Follow, Starting
<1>6. ~Unguarded(q, Guarded, Checks)
  BY <1>4 DEF Unguarded, Guarded, Access, Starting, Checks
<1>7. ~Unguarded(q, Instanced, {"instanced?"})
  BY <1>4 DEF Unguarded, Instanced, Moving
<1>8. ~Unguarded(q, Populated, {"alive?"})
  BY <1>4 DEF Unguarded, Populated, Moving
<1>9. q[4] \in Closers
  BY <1>4 DEF Closers
<1> QED BY <1>3, <1>4, <1>5, <1>6, <1>7, <1>8, <1>9 DEF Fresh

LEMMA FreshAttach == Fresh(AttachBody, "attach")
<1>3. PICK q : q = AttachBody
  OBVIOUS
<1>4. /\ q \in Seq(Ops) /\ Len(q) = 6 /\ DOMAIN q = 1..6 /\ q # << >>
      /\ q[1] = "kill?" /\ q[2] = "clear" /\ q[3] = "instance" /\ q[4] = "empty?"
      /\ q[5] = "attach" /\ q[6] = "join"
  BY <1>3 DEF AttachBody, Ops, MicroOps, Commands
<1>5. Shaped(q, "attach")
  BY <1>4 DEF Shaped, ShapeAt, Follow, Starting, Instanced, Moving
<1>6. ~Unguarded(q, Guarded, Checks)
  BY <1>4 DEF Unguarded, Guarded, Access, Starting, Checks
<1>7. ~Unguarded(q, Instanced, {"instanced?"})
  BY <1>4 DEF Unguarded, Instanced, Moving
<1>8. ~Unguarded(q, Populated, {"alive?"})
  BY <1>4 DEF Unguarded, Populated, Moving
<1>9. q[6] \in Closers
  BY <1>4 DEF Closers
<1> QED BY <1>3, <1>4, <1>5, <1>6, <1>7, <1>8, <1>9 DEF Fresh

LEMMA FreshRun == Fresh(RunBody, "run")
<1> DEFINE a == <<"kill?", "clear", "instance", "empty?", "run">>
           s == <<"set">>
           n == << >>
           b == IF EscapeAntidebug THEN s ELSE n
           j == <<"join", "pipe?">>
<1>1. /\ a \in Seq(Ops) /\ Len(a) = 5 /\ a[1] = "kill?" /\ a[2] = "clear" /\ a[3] = "instance"
      /\ a[4] = "empty?" /\ a[5] = "run"
      /\ s \in Seq(Ops) /\ Len(s) = 1 /\ s[1] = "set" /\ n \in Seq(Ops) /\ Len(n) = 0
      /\ j \in Seq(Ops) /\ Len(j) = 2 /\ j[1] = "join" /\ j[2] = "pipe?"
  BY DEF Ops, MicroOps, Commands
<1> HIDE DEF a, s, n, j
<1>2. b \in Seq(Ops) /\ (b = s \/ b = n)
  BY <1>1, Zenon
<1>r. RunBody = (a \o b) \o j
  BY DEF RunBody, a, b, s, n, j
<1> HIDE DEF b
<1>5. /\ a \o b \in Seq(Ops) /\ Len(a \o b) = Len(a) + Len(b)
      /\ \A i \in 1..Len(a) : (a \o b)[i] = a[i]
      /\ \A i \in 1..Len(b) : (a \o b)[Len(a) + i] = b[i]
  BY <1>1, <1>2, ConcatIs, Zenon
<1>3. PICK p : p = a \o b
  OBVIOUS
<1>4. PICK q : q = p \o j
  OBVIOUS
<1>6. /\ q \in Seq(Ops) /\ Len(q) = Len(p) + Len(j)
      /\ \A i \in 1..Len(p) : q[i] = p[i]
      /\ \A i \in 1..Len(j) : q[Len(p) + i] = j[i]
  <2>1. p \in Seq(Ops) /\ j \in Seq(Ops)
    BY <1>1, <1>3, <1>5
  <2> QED BY <1>4, <2>1, ConcatIs, Zenon
<1>7. /\ p \in Seq(Ops) /\ p[1] = "kill?" /\ p[2] = "clear" /\ p[3] = "instance" /\ p[4] = "empty?"
      /\ p[5] = "run" /\ (Len(p) = 5 \/ (Len(p) = 6 /\ p[6] = "set"))
  <2>1. Len(b) = 0 \/ (Len(b) = 1 /\ b[1] = "set")
    BY <1>1, <1>2
  <2>2. p \in Seq(Ops) /\ Len(p) = 5 + Len(b) /\ \A i \in 1..5 : p[i] = a[i]
    BY <1>1, <1>3, <1>5
  <2>3. \A i \in 1..Len(b) : p[5 + i] = b[i]
    BY <1>1, <1>3, <1>5
  <2> QED BY <1>1, <2>1, <2>2, <2>3
<1>8. /\ q[1] = "kill?" /\ q[2] = "clear" /\ q[3] = "instance" /\ q[4] = "empty?" /\ q[5] = "run"
      /\ \/ Len(q) = 7 /\ DOMAIN q = 1..7 /\ q[6] = "join" /\ q[7] = "pipe?"
         \/ Len(q) = 8 /\ DOMAIN q = 1..8 /\ q[6] = "set" /\ q[7] = "join" /\ q[8] = "pipe?"
      /\ q # << >>
  <2>1. /\ q \in Seq(Ops) /\ Len(q) = Len(p) + 2 /\ \A i \in 1..Len(p) : q[i] = p[i]
        /\ q[Len(p) + 1] = "join" /\ q[Len(p) + 2] = "pipe?"
    BY <1>1, <1>6
  <2>4. /\ q[1] = "kill?" /\ q[2] = "clear" /\ q[3] = "instance" /\ q[4] = "empty?" /\ q[5] = "run"
        /\ DOMAIN q = 1..Len(q) /\ q # << >>
    BY <1>7, <2>1, SMTT(30)
  <2>2. CASE Len(p) = 5
    <3>1. Len(q) = 7 /\ q[6] = "join" /\ q[7] = "pipe?"
      BY <2>1, <2>2
    <3> QED BY <2>4, <3>1
  <2>3. CASE Len(p) = 6
    <3>1. q[6] = "set"
      BY <1>7, <2>1, <2>3
    <3>2. Len(q) = 8 /\ q[7] = "join" /\ q[8] = "pipe?"
      BY <2>1, <2>3
    <3> QED BY <2>4, <3>1, <3>2
  <2> QED BY <1>7, <2>2, <2>3
<1>9. Shaped(q, "run")
  <2>1. CASE Len(q) = 7
    BY <1>8, <2>1 DEF Shaped, ShapeAt, Follow, Starting, Instanced, Moving
  <2>2. CASE Len(q) = 8
    BY <1>8, <2>2 DEF Shaped, ShapeAt, Follow, Starting, Instanced, Moving
  <2> QED BY <1>8, <2>1, <2>2
<1>10. ~Unguarded(q, Guarded, Checks)
  <2>1. 1 \in 1..Len(q) /\ q[1] \in Checks /\ \A i \in 1..1 : q[i] \notin Guarded
    BY <1>8 DEF Guarded, Access, Starting, Checks
  <2> QED BY <1>6, <2>1, GuardedBy
<1>14. \A i \in 1..Len(q) : q[i] \notin Instanced
  BY <1>8 DEF Instanced, Moving
<1>11. ~Unguarded(q, Instanced, {"instanced?"})
  BY <1>6, <1>14, NoneOf
<1>12. ~Unguarded(q, Populated, {"alive?"})
  BY <1>6, <1>14, NoneOf DEF Populated, Instanced
<1>13. \E i \in DOMAIN q : q[i] \in Closers
  BY <1>8 DEF Closers
<1> QED BY <1>r, <1>3, <1>4, <1>8, <1>9, <1>10, <1>11, <1>12, <1>13 DEF Fresh

LEMMA FreshBody == ASSUME NEW c \in AllCalls PROVE Fresh(Body(c), c) /\ Body(c) \in Seq(Ops)
  BY FreshRun, FreshAttach, FreshDetach, FreshKill, FreshTerminate, FreshCont, FreshInterrupt,
     FreshWait, FreshStep, FreshStepUntil, FreshFinish, FreshPeek, FreshSet, BodyType DEF Body, AllCalls

-------------------------------------------------------------------------------
(* Calm. *)

LEMMA CalmSame ==
    ASSUME UNCHANGED <<cmdQ, ppc, cmd>>, Quiet => Quiet'
    PROVE  /\ \A i \in Int : CalmAt(i) => CalmAt(i)'
           /\ Calm => Calm'
<1>1. NowCalm => NowCalm'
  BY DEF NowCalm, Working
<1> QED BY <1>1 DEF Calm, CalmAt

LEMMA CalmEqual ==
    ASSUME UNCHANGED <<cmdQ, ppc, cmd, proc>> PROVE Calm' = Calm
<1>1. NowCalm' = NowCalm
  BY DEF NowCalm, Working, Quiet
<1> QED BY <1>1 DEF Calm, CalmAt

(* Nothing is under way. *)
LEMMA CalmIdle == ASSUME cmdQ = << >>, ~Working, Quiet PROVE Calm
<1>1. DOMAIN cmdQ = {}
  OBVIOUS
<1> QED BY <1>1 DEF Calm, CalmAt, NowCalm

LEMMA AppendIs ==
    ASSUME NEW q \in Seq(Commands), NEW c \in Commands
    PROVE  /\ Append(q, c) \in Seq(Commands) /\ Len(Append(q, c)) = Len(q) + 1 /\ Len(q) \in Nat
           /\ DOMAIN q = 1..Len(q) /\ DOMAIN Append(q, c) = 1..(Len(q) + 1)
           /\ Append(q, c)[Len(q) + 1] = c
           /\ \A i \in 1..Len(q) : Append(q, c)[i] = q[i]
           /\ Append(q, c) # << >>
  OBVIOUS

LEMMA CalmPut ==
    ASSUME cmdQ \in Seq(Commands), NEW c \in Commands, cmdQ' = Append(cmdQ, c),
           UNCHANGED <<ppc, cmd, proc>>
    PROVE  /\ \A i \in 1..(Len(cmdQ) + 1) : CalmAt(i) => CalmAt(i)'
           /\ c \notin Moving /\ Calm => Calm'
           /\ c = "kill" => Calm'
<1>1. /\ Len(cmdQ') = Len(cmdQ) + 1 /\ Len(cmdQ) \in Nat
      /\ DOMAIN cmdQ = 1..Len(cmdQ) /\ DOMAIN cmdQ' = 1..(Len(cmdQ) + 1)
      /\ cmdQ'[Len(cmdQ) + 1] = c /\ \A i \in 1..Len(cmdQ) : cmdQ'[i] = cmdQ[i]
  BY AppendIs
<1>2. NowCalm' = NowCalm
  BY DEF NowCalm, Working, Quiet
<1>3. \A i \in 1..(Len(cmdQ) + 1) : CalmAt(i) => CalmAt(i)'
  BY <1>1, <1>2 DEF CalmAt
<1>4. ASSUME c \notin Moving, Calm PROVE Calm'
  BY <1>1, <1>2, <1>4 DEF Calm, CalmAt
<1>5. ASSUME c = "kill" PROVE Calm'
  <2>1. c \notin Moving
    BY <1>5 DEF Moving
  <2> QED BY <1>1, <1>5, <2>1 DEF Calm, CalmAt
<1> QED BY <1>3, <1>4, <1>5

LEMMA RestIs ==
    ASSUME NEW q \in Seq(Commands), q # << >>
    PROVE  /\ Tail(q) \in Seq(Commands) /\ Len(Tail(q)) = Len(q) - 1 /\ Len(q) \in Nat \ {0}
           /\ DOMAIN q = 1..Len(q) /\ DOMAIN Tail(q) = 1..(Len(q) - 1) /\ Head(q) = q[1]
           /\ \A i \in 1..(Len(q) - 1) : Tail(q)[i] = q[i + 1]
           /\ q[1] \in Commands
  OBVIOUS

LEMMA CalmGet ==
    ASSUME cmdQ \in Seq(Commands), PollGet
    PROVE  /\ \A i \in 1..Len(cmdQ) : CalmAt(i + 1) => CalmAt(i)'
           /\ Calm => Calm'
<1>1. /\ cmdQ # << >> /\ Len(cmdQ) \in Nat \ {0} /\ Len(cmdQ') = Len(cmdQ) - 1
      /\ DOMAIN cmdQ = 1..Len(cmdQ) /\ DOMAIN cmdQ' = 1..(Len(cmdQ) - 1)
      /\ \A i \in 1..(Len(cmdQ) - 1) : cmdQ'[i] = cmdQ[i + 1]
  BY RestIs DEF PollGet
<1>2. /\ ~Working /\ cmd' = cmdQ[1] /\ proc' = proc
      /\ cmdQ[1] = "terminate" => ~Working'
      /\ cmdQ[1] # "terminate" => Working'
  BY <1>1, RestIs DEF PollGet, Working, procVars
<1>3. Quiet' = Quiet
  BY <1>2 DEF Quiet
<1>4. ASSUME NEW i \in 1..Len(cmdQ), CalmAt(i + 1) PROVE CalmAt(i)'
  <2>1. ASSUME NEW j \in DOMAIN cmdQ', j < i, cmdQ'[j] \in Moving
        PROVE  \E k \in DOMAIN cmdQ' : j < k /\ k < i /\ cmdQ'[k] = "kill"
    <3>1. j + 1 \in DOMAIN cmdQ /\ j + 1 < i + 1 /\ cmdQ[j + 1] \in Moving
      BY <1>1, <1>4, <2>1
    <3>2. PICK k \in DOMAIN cmdQ : j + 1 < k /\ k < i + 1 /\ cmdQ[k] = "kill"
      BY <1>4, <3>1 DEF CalmAt
    <3>3. k - 1 \in DOMAIN cmdQ' /\ j < k - 1 /\ k - 1 < i /\ cmdQ'[k - 1] = "kill"
      BY <1>1, <2>1, <3>2
    <3> QED BY <3>3
  <2>2. CASE \E k \in DOMAIN cmdQ : k < i + 1 /\ cmdQ[k] = "kill" /\ k > 1
    <3>1. PICK k \in DOMAIN cmdQ : k < i + 1 /\ cmdQ[k] = "kill" /\ k > 1
      BY <2>2
    <3>2. k - 1 \in DOMAIN cmdQ' /\ k - 1 < i /\ cmdQ'[k - 1] = "kill"
      BY <1>1, <1>4, <3>1
    <3> QED BY <2>1, <3>2 DEF CalmAt
  <2>3. CASE cmdQ[1] = "kill"
    <3>1. NowCalm'
      BY <1>2, <2>3 DEF NowCalm
    <3> QED BY <2>1, <3>1 DEF CalmAt
  <2>4. CASE /\ ~\E k \in DOMAIN cmdQ : k < i + 1 /\ cmdQ[k] = "kill" /\ k > 1
             /\ cmdQ[1] # "kill"
    <3>1. ~\E k \in DOMAIN cmdQ : k < i + 1 /\ cmdQ[k] = "kill"
      BY <1>1, <2>4
    <3>2. NowCalm /\ cmdQ[1] \notin Moving
      BY <1>1, <1>4, <3>1 DEF CalmAt
    <3>3. NowCalm'
      BY <1>2, <1>3, <3>2 DEF NowCalm
    <3> QED BY <2>1, <3>3 DEF CalmAt
  <2> QED BY <2>2, <2>3, <2>4
<1>5. ASSUME Calm PROVE Calm'
  BY <1>1, <1>4, <1>5 DEF Calm
<1> QED BY <1>4, <1>5

-------------------------------------------------------------------------------
(* What the polling thread can do, as far as the argument needs it. *)

scriptVars == <<call, outcome, prog, cmdQ>>

(* It goes on in the loop of __threaded_wait. *)
Loops ==
    /\ Working /\ Working' /\ cmd = "wait"
    /\ UNCHANGED <<scriptVars, rspQ, cmd, ret, instanced, is_running, threads>>
    /\ ppc' = "decide" => Quiet'
    /\ dead' => proc' = "reaped"

(* It comes to the end of its command. *)
Ends ==
    /\ Working /\ cmd \in Access \cup Starting \cup {"kill", "wait"}
    /\ ppc' = (IF ret' = "None" THEN "taskdone" ELSE "respond")
    /\ UNCHANGED <<scriptVars, rspQ, cmd, instanced>>
    /\ cmd \notin Moving /\ Quiet => Quiet'
    /\ cmd = "kill" => Quiet'
    /\ cmd = "wait" => Quiet' \/ ~threads
    /\ ret' # "None" /\ Quiet => Quiet'
    /\ cmd = "cont" => is_running'
    /\ threads' = threads \/ (cmd \in Starting /\ threads')
    /\ dead' => proc' = "reaped"

LEMMA StartEnds ==
    ASSUME Served, Executing("run"), ThreadedRun PROVE Ends
<1>1. /\ Working /\ UNCHANGED <<scriptVars, rspQ, cmd, instanced>> /\ cmd = "run"
      /\ ppc' = (IF ret' = "None" THEN "taskdone" ELSE "respond")
  BY DEF ThreadedRun, Executing, Working, Return, mainVars, queueVars, scriptVars
<1>2. \/ (proc' = "stopped" /\ dead' = FALSE)
      \/ (proc' = proc /\ dead' = dead)
      \/ (proc' = "reaped")
  BY DEF ThreadedRun, StartTracee, procVars
<1>4. threads' = threads \/ threads'
  BY DEF ThreadedRun, StartTracee
<1>3. (Quiet => Quiet') /\ (dead' => proc' = "reaped")
  BY <1>2 DEF Quiet, Served
<1> QED BY <1>1, <1>3, <1>4 DEF Ends, Starting

LEMMA AttachEnds ==
    ASSUME Served, Executing("attach"), ThreadedAttach PROVE Ends
<1>1. /\ Working /\ UNCHANGED <<scriptVars, rspQ, cmd, instanced>> /\ cmd = "attach"
      /\ ppc' = (IF ret' = "None" THEN "taskdone" ELSE "respond")
  BY DEF ThreadedAttach, Executing, Working, Return, mainVars, queueVars, scriptVars
<1>2. (proc' = "stopped" /\ dead' = FALSE) \/ (proc' = proc /\ dead' = dead)
  BY DEF ThreadedAttach, StartTracee, procVars
<1>4. threads' = threads \/ threads'
  BY DEF ThreadedAttach, StartTracee
<1>3. (Quiet => Quiet') /\ (dead' => proc' = "reaped")
  BY <1>2 DEF Quiet, Served
<1> QED BY <1>1, <1>3, <1>4 DEF Ends, Starting

(* The commands that leave a tracee at rest alone, or end it. *)
LEMMA RestEnds ==
    ASSUME Served, \/ ThreadedDetach \/ ThreadedKill \/ ThreadedStepUntil \/ ThreadedFinish
                   \/ ThreadedPeekMemory \/ ThreadedSet
    PROVE  Ends
<1>1. /\ Working /\ UNCHANGED <<scriptVars, rspQ, cmd, instanced, threads>>
      /\ cmd \in {"detach", "kill", "step_until", "finish", "peek", "set"}
      /\ ppc' = (IF ret' = "None" THEN "taskdone" ELSE "respond")
  BY DEF ThreadedDetach, ThreadedKill, ThreadedStepUntil, ThreadedFinish, ThreadedPeekMemory,
         ThreadedSet, Executing, Working, Return, mainVars, queueVars, scriptVars, flagVars
<1>2. CASE ThreadedDetach
  <2>1. dead' = dead /\ cmd = "detach" /\ (proc = "reaped" => proc' = "reaped") /\ (Quiet => Quiet')
    BY <1>2 DEF ThreadedDetach, Executing, Quiet, procVars
  <2> QED BY <1>1, <2>1 DEF Ends, Served, Access
<1>3. CASE ThreadedKill
  <2>1. dead' = dead /\ (proc = "reaped" => proc' = "reaped") /\ Quiet'
    BY <1>3 DEF ThreadedKill, Quiet, flagVars
  <2> QED BY <1>1, <2>1 DEF Ends, Served, Access
<1>4. CASE ThreadedStepUntil
  <2>1. dead' = dead /\ cmd = "step_until" /\ (proc = "reaped" => proc' = "reaped") /\ (Quiet => Quiet')
    BY <1>4 DEF ThreadedStepUntil, Executing, Quiet
  <2> QED BY <1>1, <2>1 DEF Ends, Served, Access
<1>5. CASE ThreadedFinish
  <2>1. cmd = "finish" /\ (Quiet => Quiet') /\ ((dead' = dead /\ proc' = proc) \/ proc' = "reaped"
            \/ (dead' = dead /\ proc = "stopped"))
    BY <1>5 DEF ThreadedFinish, Executing, Quiet
  <2> QED BY <1>1, <2>1 DEF Ends, Served, Access
<1>6. CASE ThreadedPeekMemory \/ ThreadedSet
  <2>1. cmd \in {"peek", "set"} /\ dead' = dead /\ proc' = proc
    BY <1>6 DEF ThreadedPeekMemory, ThreadedSet, Executing, flagVars, procVars
  <2> QED BY <1>1, <2>1 DEF Ends, Served, Quiet, Access
<1> QED BY <1>2, <1>3, <1>4, <1>5, <1>6

(* The commands that set it going. *)
LEMMA MoveEnds == ASSUME Served, ThreadedCont \/ ThreadedStep PROVE Ends
<1>1. /\ Working /\ UNCHANGED <<scriptVars, rspQ, cmd, instanced, threads, dead>>
      /\ cmd \in {"cont", "step"}
      /\ ppc' = (IF ret' = "None" THEN "taskdone" ELSE "respond")
  BY DEF ThreadedCont, ThreadedStep, Executing, Working, Return, mainVars, queueVars, scriptVars
<1>2. /\ proc' = proc \/ proc = "stopped"
      /\ ret' # "None" => proc' = proc
  BY DEF ThreadedCont, ThreadedStep, InterfaceCont, Return
<1>3. cmd = "cont" => is_running'
  BY DEF ThreadedCont, ThreadedStep, Executing
<1> QED BY <1>1, <1>2, <1>3 DEF Ends, Served, Quiet, Moving, Access

LEMMA WaitEnds ==
    ASSUME Served, \/ WaitTop \/ HandleStop \/ HandleExit \/ WaitNothing \/ WaitDecide
    PROVE  Ends \/ Loops
<1>w. cmd = "wait" /\ Working
  BY DEF Served, WaitTop, HandleStop, HandleExit, WaitNothing, WaitDecide, Executing, Working
<1>u. UNCHANGED <<scriptVars, rspQ, cmd, instanced, threads>>
  BY DEF WaitTop, HandleStop, HandleExit, WaitNothing, WaitDecide, Return, mainVars, queueVars,
         scriptVars, flagVars
<1>e. ASSUME NEW v, Return(v), Quiet' \/ ~threads, dead' => proc' = "reaped", Quiet => Quiet'
      PROVE  Ends
  BY <1>w, <1>u, <1>e DEF Ends, Return, Moving
<1>1. CASE WaitTop
  <2>1. proc' = proc /\ dead' = dead /\ (dead => proc = "reaped")
    BY <1>1 DEF WaitTop, procVars, Served
  <2>2. CASE ~threads
    BY <1>1, <1>e, <2>1, <2>2 DEF WaitTop, Quiet
  <2>3. CASE threads /\ dead
    BY <1>1, <1>e, <2>1, <2>3 DEF WaitTop, Quiet
  <2>4. CASE threads /\ ~dead
    BY <1>1, <1>w, <1>u, <2>1, <2>4 DEF WaitTop, Loops, Working, scriptVars
  <2> QED BY <2>2, <2>3, <2>4
<1>2. CASE HandleStop
  <2>1. proc' = "stopped" /\ dead' = dead /\ proc = "event" /\ UNCHANGED is_running
    BY <1>2 DEF HandleStop, flagVars
  <2>2. ~dead /\ Quiet'
    BY <2>1 DEF Served, Quiet
  <2>3. CASE CallbackRaises(event)
    BY <1>2, <1>e, <2>1, <2>2, <2>3 DEF HandleStop
  <2>4. CASE ~CallbackRaises(event)
    BY <1>2, <1>w, <1>u, <2>1, <2>2, <2>4 DEF HandleStop, Loops, Working, scriptVars
  <2> QED BY <2>3, <2>4
<1>3. CASE HandleExit
  BY <1>3, <1>w, <1>u DEF HandleExit, Loops, Working, scriptVars, Quiet
<1>4. CASE WaitNothing
  BY <1>4, <1>w, <1>u DEF WaitNothing, Loops, Working, scriptVars, Quiet, Served, flagVars, procVars
<1>5. CASE WaitDecide
  <2>1. dead' = dead /\ Quiet /\ (dead => proc = "reaped") /\ (proc' = proc \/ proc = "stopped")
    BY <1>5 DEF WaitDecide, InterfaceCont, Served
  <2>2. CASE ~resume
    <3>1. proc' = proc
      BY <1>5, <2>2 DEF WaitDecide
    <3> QED BY <1>5, <1>e, <2>1, <2>2, <3>1 DEF WaitDecide, Quiet
  <2>3. CASE resume
    <3>1. UNCHANGED is_running
      BY <1>5, <2>3 DEF WaitDecide
    <3>2. \/ ppc' = "exec" /\ UNCHANGED <<cmd, ret>>
          \/ Return("OSError") /\ proc' = proc
      BY <1>5, <2>3 DEF WaitDecide, InterfaceCont
    <3>3. CASE ppc' = "exec" /\ UNCHANGED <<cmd, ret>>
      BY <1>w, <1>u, <2>1, <3>1, <3>3 DEF Loops, Working, scriptVars
    <3>4. CASE Return("OSError") /\ proc' = proc
      BY <1>e, <2>1, <3>4 DEF Quiet
    <3> QED BY <3>2, <3>3, <3>4
  <2> QED BY <2>2, <2>3
<1> QED BY <1>1, <1>2, <1>3, <1>4, <1>5

LEMMA PollCases ==
    ASSUME Served, Poll
    PROVE  PollGet \/ PollRespond \/ PollTaskDone \/ PollJoinResponses \/ Loops \/ Ends
<1>2. CASE ThreadedRun
  BY <1>2, StartEnds DEF ThreadedRun
<1>3. CASE ThreadedAttach
  BY <1>3, AttachEnds DEF ThreadedAttach
<1> QED BY <1>2, <1>3, RestEnds, MoveEnds, WaitEnds DEF Poll

-------------------------------------------------------------------------------
(* What the script can do, as far as the argument needs it. *)

(* No operation of the script touches the polling thread or the tracee,    *)
(* and a response is only ever taken away.                                 *)
Undisturbed ==
    /\ UNCHANGED <<ppc, cmd, ret, proc>>
    /\ dead' => dead
    /\ rspQ' # << >> => rspQ' = rspQ

(* An operation passes: what it was there to see is so. *)
Passes ==
    /\ prog # << >> /\ prog' = Tail(prog)
    /\ prog[1] \in MicroOps \ {"uninstance", "clear", "instance"}
    /\ UNCHANGED <<call, outcome, cmdQ, instanced, is_running, threads>>
    /\ prog[1] \in {"join", "joincmd"} => cmdUnfinished = 0
    /\ prog[1] \in {"ensure", "interrupt"} => ~is_running
    /\ prog[1] = "kill?" => ~instanced
    /\ prog[1] = "instanced?" => instanced
    /\ prog[1] = "alive?" => threads
    /\ prog[1] = "jointhread" => ppc = "ended"

(* It raises: the method ends, or kill() goes on after its try block. *)
Quits ==
    /\ prog # << >>
    /\ prog[1] \in {"instanced?", "alive?", "sigstop", "waitmore", "join", "getrsp", "close",
                    "empty?", "pipe?"}
    /\ \/ prog' = << >> /\ outcome' = "raised"
       \/ /\ outcome' = outcome
          /\ \E i \in 1..Len(prog) : prog[i] = "catch" /\ prog' = SubSeq(prog, i + 1, Len(prog))
    /\ UNCHANGED <<call, cmdQ, instanced, is_running, threads>>
    /\ prog[1] = "join" => cmdUnfinished = 0 /\ rspQ # << >>

(* It is the first of several that take its place. *)
Expands ==
    /\ prog # << >>
    /\ \/ prog[1] = "ensure" /\ prog' = Joining \o Tail(prog)
       \/ prog[1] = "ensure" /\ prog' = Interrupting \o Tail(prog)
       \/ prog[1] = "interrupt" /\ prog' = Stopping \o Tail(prog)
       \/ prog[1] = "waitmore" /\ threads /\ prog' = WaitingMore \o Tail(prog)
       \/ prog[1] = "kill?" /\ prog' = KillBody \o Tail(prog)
    /\ UNCHANGED <<call, outcome, cmdQ, instanced, is_running, threads>>

(* It changes a flag of the debugger. *)
Sets ==
    /\ prog # << >> /\ prog' = Tail(prog)
    /\ UNCHANGED <<call, outcome, cmdQ>>
    /\ \/ prog[1] = "uninstance" /\ ~instanced' /\ UNCHANGED <<is_running, threads>>
       \/ prog[1] = "clear" /\ ~threads'
       \/ prog[1] = "instance" /\ instanced' /\ UNCHANGED <<is_running, threads>>

(* It puts a command on the queue. *)
Puts(c) ==
    /\ prog # << >> /\ prog' = Tail(prog) /\ prog[1] = c
    /\ cmdQ' = Append(cmdQ, c)
    /\ UNCHANGED <<call, outcome, instanced, is_running, threads>>

(* A method is called. *)
Begins(c) ==
    /\ prog = << >> /\ prog' = Body(c)
    /\ ~(call = "terminate" /\ outcome = "ok")
    /\ call' = c /\ outcome' = "ok"
    /\ UNCHANGED <<cmdQ, instanced, is_running, threads>>

LEMMA RaiseQuits ==
    ASSUME prog \in Seq(Ops), prog # << >>, NEW e, Raise(e),
           prog[1] \in {"instanced?", "alive?", "sigstop", "waitmore", "join", "getrsp", "close",
                        "empty?", "pipe?"},
           UNCHANGED <<call, cmdQ, instanced, is_running, threads>>,
           prog[1] = "join" => cmdUnfinished = 0 /\ rspQ # << >>
    PROVE  Quits
<1>1. CASE ~Caught(e)
  BY <1>1 DEF Raise, Quits
<1>2. CASE Caught(e)
  <2> DEFINE i == CHOOSE j \in DOMAIN prog : prog[j] = "catch"
  <2>1. i \in DOMAIN prog /\ prog[i] = "catch"
    BY <1>2, Zenon DEF Caught
  <2>2. AfterCatch = SubSeq(prog, i + 1, Len(prog))
    BY DEF AfterCatch
  <2> HIDE DEF i
  <2>3. i \in 1..Len(prog)
    BY <2>1
  <2>4. prog' = SubSeq(prog, i + 1, Len(prog)) /\ outcome' = outcome
    BY <1>2, <2>2 DEF Raise
  <2> QED BY <2>1, <2>3, <2>4 DEF Quits
<1> QED BY <1>1, <1>2

LEMMA HeadIs == ASSUME prog \in Seq(Ops), NEW op, At(op) PROVE prog # << >> /\ prog[1] = op
  BY DEF At

LEMMA MainCases ==
    ASSUME prog \in Seq(Ops), Main
    PROVE  \/ Passes \/ Quits \/ Expands \/ Sets
           \/ (\E c \in Commands : Puts(c)) \/ (\E c \in Calls : Begins(c))
<1> USE DEF flagVars
<1>1. CASE \E c \in Calls : Call(c)
  BY <1>1 DEF Call, Begins, queueVars
<1>2. CASE \E c \in Commands : Put(c)
  BY <1>2, HeadIs DEF Put, Puts, Continue
<1>3. CASE CheckInstanced
  BY <1>3, HeadIs, RaiseQuits DEF CheckInstanced, Passes, Continue, queueVars, MicroOps
<1>4. CASE CheckAlive
  BY <1>4, HeadIs, RaiseQuits DEF CheckAlive, Passes, Continue, queueVars, MicroOps
<1>5. CASE EnsureProcessStopped
  <2>1. /\ prog # << >> /\ prog[1] = "ensure"
        /\ UNCHANGED <<call, outcome, cmdQ, instanced, is_running, threads>>
    BY <1>5, HeadIs DEF EnsureProcessStopped, Continue, ContinueWith, queueVars
  <2>2. CASE ~is_running
    BY <1>5, <2>1, <2>2 DEF EnsureProcessStopped, Passes, Continue, MicroOps
  <2>3. CASE is_running
    <3>1. \/ prog' = (InterruptBody \o <<"join">>) \o Tail(prog)
          \/ prog' = Joining \o Tail(prog)
      BY <1>5, <2>3 DEF EnsureProcessStopped, ContinueWith, Joining
    <3>2. prog' = Interrupting \o Tail(prog) \/ prog' = Joining \o Tail(prog)
      BY <3>1, ExtensionsAre, Zenon
    <3> QED BY <2>1, <3>2, Zenon DEF Expands
  <2> QED BY <2>2, <2>3
<1>6. CASE Interrupt
  <2>1. /\ prog # << >> /\ prog[1] = "interrupt"
        /\ UNCHANGED <<call, outcome, cmdQ, instanced, is_running, threads>>
    BY <1>6, HeadIs DEF Interrupt, Continue, ContinueWith, queueVars
  <2>2. CASE ~is_running
    BY <1>6, <2>1, <2>2 DEF Interrupt, Passes, Continue, MicroOps
  <2>3. CASE is_running
    <3>1. prog' = (<<"sigstop">> \o WaitBody) \o Tail(prog)
      BY <1>6, <2>3 DEF Interrupt, ContinueWith
    <3>2. prog' = Stopping \o Tail(prog)
      BY <3>1, ExtensionsAre, Zenon
    <3> QED BY <2>1, <3>2, Zenon DEF Expands
  <2> QED BY <2>2, <2>3
<1>7. CASE SendSigstop
  BY <1>7, HeadIs, RaiseQuits DEF SendSigstop, Passes, Continue, queueVars, MicroOps
<1>8. CASE WaitMore
  <2>1. /\ prog # << >> /\ prog[1] = "waitmore"
        /\ UNCHANGED <<call, cmdQ, instanced, is_running, threads>>
    BY <1>8, HeadIs DEF WaitMore, queueVars
  <2>2. \/ Raise("Exception") \/ Continue
        \/ threads /\ ContinueWith(WaitingMore)
    BY <1>8 DEF WaitMore, WaitingMore
  <2>3. CASE Raise("Exception")
    BY <2>1, <2>3, RaiseQuits
  <2>4. CASE Continue
    BY <2>1, <2>4 DEF Passes, Continue, MicroOps
  <2>5. CASE threads /\ ContinueWith(WaitingMore)
    BY <2>1, <2>5, Zenon DEF Expands, ContinueWith
  <2> QED BY <2>2, <2>3, <2>4, <2>5
<1>9. CASE JoinAndCheckStatus
  BY <1>9, HeadIs, RaiseQuits DEF JoinAndCheckStatus, Passes, Continue, MicroOps
<1>10. CASE JoinCommands
  BY <1>10, HeadIs DEF JoinCommands, Passes, Continue, queueVars, MicroOps
<1>11. CASE GetResponse
  BY <1>11, HeadIs, RaiseQuits DEF GetResponse, Passes, Continue, MicroOps
<1>12. CASE KillPrevious
  BY <1>12, HeadIs DEF KillPrevious, Passes, Expands, Continue, ContinueWith, queueVars, MicroOps
<1>13. CASE EndTry
  BY <1>13, HeadIs DEF EndTry, Passes, Continue, queueVars, MicroOps
<1>14. CASE ClearInstanced
  BY <1>14, HeadIs DEF ClearInstanced, Sets, Continue, queueVars
<1>15. CASE ClosePipe
  BY <1>15, HeadIs, RaiseQuits DEF ClosePipe, Passes, Continue, queueVars, MicroOps
<1>16. CASE ClearAndReset
  BY <1>16, HeadIs DEF ClearAndReset, Sets, Continue, queueVars
<1>17. CASE SetInstanced
  BY <1>17, HeadIs DEF SetInstanced, Sets, Continue, queueVars
<1>18. CASE CheckQueueEmpty
  BY <1>18, HeadIs, RaiseQuits DEF CheckQueueEmpty, Passes, Continue, queueVars, MicroOps
<1>19. CASE CheckPipe
  BY <1>19, HeadIs, RaiseQuits DEF CheckPipe, Passes, Continue, queueVars, MicroOps
<1>20. CASE JoinThread
  BY <1>20, HeadIs DEF JoinThread, Passes, Continue, queueVars, MicroOps
<1> QED
  BY <1>1, <1>2, <1>3, <1>4, <1>5, <1>6, <1>7, <1>8, <1>9, <1>10, <1>11, <1>12, <1>13, <1>14,
     <1>15, <1>16, <1>17, <1>18, <1>19, <1>20 DEF Main

LEMMA MainUndisturbed == ASSUME IndInv, Main PROVE Undisturbed
<1> USE DEF flagVars, pollVars, procVars
<1>q. rspQ # << >> => Tail(rspQ) = << >>
  <2>3. \A t \in Seq(Response) : Len(t) = 0 => t = << >>
    OBVIOUS
  <2>1. rspQ \in Seq(Response) /\ (rspQ # << >> => Len(rspQ) = 1)
    BY DEF IndInv, TypeOK, QueueAccounting, Response
  <2>2. ASSUME rspQ # << >> PROVE Tail(rspQ) \in Seq(Response) /\ Len(Tail(rspQ)) = 0
    BY <2>1, <2>2
  <2> QED BY <2>2, <2>3, Zenon
<1>1. UNCHANGED <<ppc, cmd, ret, proc>>
  BY DEF Main, Call, Put, CheckInstanced, CheckAlive, EnsureProcessStopped, Interrupt, SendSigstop,
     WaitMore, JoinAndCheckStatus, JoinCommands, GetResponse, KillPrevious, EndTry, ClearInstanced,
     ClosePipe, ClearAndReset, SetInstanced, CheckQueueEmpty, CheckPipe, JoinThread
<1>2. dead' = dead \/ dead' = FALSE
  BY DEF Main, Call, Put, CheckInstanced, CheckAlive, EnsureProcessStopped, Interrupt, SendSigstop,
     WaitMore, JoinAndCheckStatus, JoinCommands, GetResponse, KillPrevious, EndTry, ClearInstanced,
     ClosePipe, ClearAndReset, SetInstanced, CheckQueueEmpty, CheckPipe, JoinThread
<1>3. rspQ' = rspQ \/ (rspQ # << >> /\ rspQ' = Tail(rspQ))
  BY DEF Main, Call, Put, CheckInstanced, CheckAlive, EnsureProcessStopped, Interrupt, SendSigstop,
     WaitMore, JoinAndCheckStatus, JoinCommands, GetResponse, KillPrevious, EndTry, ClearInstanced,
     ClosePipe, ClearAndReset, SetInstanced, CheckQueueEmpty, CheckPipe, JoinThread, queueVars
<1> QED BY <1>q, <1>1, <1>2, <1>3 DEF Undisturbed

-------------------------------------------------------------------------------
(* What is left of a method relies on no more than the method did. *)

LEMMA UnguardedFirst ==
    ASSUME NEW p \in Seq(Ops), p # << >>, NEW X, NEW G, p[1] \in X PROVE Unguarded(p, X, G)
<1>1. 1 \in DOMAIN p /\ \A k \in DOMAIN p : ~(k < 1)
  BY TailIs
<1> QED BY <1>1 DEF Unguarded

LEMMA UnguardedTail ==
    ASSUME NEW p \in Seq(Ops), p # << >>, NEW X, NEW G, p[1] \notin G, Unguarded(Tail(p), X, G)
    PROVE  Unguarded(p, X, G)
<1> DEFINE t == Tail(p)
<1>1. /\ Len(p) \in Nat \ {0} /\ DOMAIN p = 1..Len(p) /\ DOMAIN t = 1..(Len(p) - 1)
      /\ \A i \in 1..(Len(p) - 1) : t[i] = p[i + 1]
  BY TailIs
<1>2. PICK i \in DOMAIN t : t[i] \in X /\ \A k \in DOMAIN t : k < i => t[k] \notin G
  BY DEF Unguarded
<1> HIDE DEF t
<1>3. i + 1 \in DOMAIN p /\ p[i + 1] \in X
  BY <1>1, <1>2
<1>4. ASSUME NEW k \in DOMAIN p, k < i + 1 PROVE p[k] \notin G
  <2>1. CASE k = 1
    BY <2>1
  <2>2. CASE k # 1
    <3>1. k - 1 \in DOMAIN t /\ k - 1 < i /\ (k - 1) + 1 = k
      BY <1>1, <1>2, <1>4, <2>2
    <3>2. t[k - 1] = p[(k - 1) + 1]
      BY <1>1, <3>1
    <3> QED BY <1>2, <3>1, <3>2
  <2> QED BY <2>1, <2>2
<1> QED BY <1>3, <1>4 DEF Unguarded

(* Operations that are put in front and rely on nothing of the kind. *)
LEMMA UnguardedPrepend ==
    ASSUME NEW p \in Seq(Ops), p # << >>, NEW s \in Seq(Ops), NEW X, NEW G, p[1] \notin G,
           \A i \in 1..Len(s) : s[i] \notin X, Unguarded(s \o Tail(p), X, G)
    PROVE  Unguarded(p, X, G)
<1> DEFINE q == s \o Tail(p)
<1>1. /\ Len(p) \in Nat \ {0} /\ DOMAIN p = 1..Len(p) /\ Len(s) \in Nat
      /\ DOMAIN q = 1..(Len(s) + Len(p) - 1)
      /\ \A i \in 1..Len(s) : q[i] = s[i]
      /\ \A i \in (Len(s) + 1)..(Len(s) + Len(p) - 1) : q[i] = p[i - Len(s) + 1]
  BY PrependIs, TailIs
<1>2. PICK i \in DOMAIN q : q[i] \in X /\ \A k \in DOMAIN q : k < i => q[k] \notin G
  BY DEF Unguarded
<1> HIDE DEF q
<1>3. i \in (Len(s) + 1)..(Len(s) + Len(p) - 1)
  <2>1. i \notin 1..Len(s)
    BY <1>1, <1>2
  <2> QED BY <1>1, <2>1
<1>4. i - Len(s) + 1 \in DOMAIN p /\ p[i - Len(s) + 1] \in X
  BY <1>1, <1>2, <1>3, SMTT(30)
<1>5. ASSUME NEW k \in DOMAIN p, k < i - Len(s) + 1 PROVE p[k] \notin G
  <2>1. CASE k = 1
    BY <2>1
  <2>2. CASE k # 1
    <3>1. PICK m \in Int : m = k + Len(s) - 1
      BY <1>1
    <3>2. m \in (Len(s) + 1)..(Len(s) + Len(p) - 1) /\ m \in DOMAIN q /\ m < i /\ m - Len(s) + 1 = k
      BY <1>1, <1>3, <1>5, <2>2, <3>1, SMTT(30)
    <3>3. q[m] = p[k]
      BY <1>1, <3>2
    <3> QED BY <1>2, <3>2, <3>3
  <2> QED BY <2>1, <2>2
<1> QED BY <1>4, <1>5 DEF Unguarded

LEMMA GuardedPrepend ==
    ASSUME NEW p \in Seq(Ops), p # << >>, NEW s \in Seq(Ops), NEW X, NEW G,
           NEW k \in 1..Len(s), s[k] \in G, \A i \in 1..k : s[i] \notin X
    PROVE  ~Unguarded(s \o Tail(p), X, G)
<1> DEFINE q == s \o Tail(p)
<1>1. /\ q \in Seq(Ops) /\ Len(q) = Len(s) + Len(p) - 1 /\ Len(p) \in Nat \ {0} /\ Len(s) \in Nat
      /\ \A i \in 1..Len(s) : q[i] = s[i]
  BY PrependIs, TailIs
<1> HIDE DEF q
<1>3. k \in 1..Len(q) /\ \A i \in 1..k : i \in 1..Len(s)
  BY <1>1
<1>4. q[k] = s[k] /\ \A i \in 1..k : q[i] = s[i]
  BY <1>1, <1>3
<1>2. q[k] \in G /\ \A i \in 1..k : q[i] \notin X
  BY <1>4, SMTT(30)
<1> QED BY <1>1, <1>2, <1>3, GuardedBy DEF q

(* What is left after kill()'s try block. *)
LEMMA CatchIs ==
    ASSUME NEW p \in Seq(Ops), NEW c, Shaped(p, c), NEW i \in 1..Len(p), p[i] = "catch"
    PROVE  LET q == SubSeq(p, i + 1, Len(p)) IN
           /\ q \in Seq(Ops) /\ q # << >> /\ q[1] = "kill"
           /\ \A j \in 1..Len(q) : q[j] \notin Instanced
           /\ \E j \in DOMAIN q : q[j] \in Closers
<1> DEFINE q == SubSeq(p, i + 1, Len(p))
<1>1. /\ q \in Seq(Ops) /\ Len(p) = Len(q) + i /\ DOMAIN q = 1..Len(q) /\ DOMAIN p = 1..Len(p)
      /\ \A k \in DOMAIN q : q[k] = p[k + i]
  OBVIOUS
<1> HIDE DEF q
<1>7. Len(p) \in Nat /\ Len(q) \in Nat
  BY <1>1
<1>2. ShapeAt(p, i, c)
  BY <1>1 DEF Shaped
<1>3. /\ i + 1 <= Len(p) /\ p[i + 1] = "kill" /\ i + 4 <= Len(p) /\ p[i + 4] = "join"
      /\ \A j \in DOMAIN p : j > i => p[j] \notin Instanced
  BY <1>2 DEF ShapeAt, Follow
<1>4. 1 \in DOMAIN q /\ 4 \in DOMAIN q /\ q[1] = p[1 + i] /\ q[4] = p[4 + i] /\ 1 + i = i + 1 /\ 4 + i = i + 4
  BY <1>1, <1>3, <1>7, SMTT(30)
<1>5. q[1] = "kill" /\ q[4] \in Closers /\ q # << >>
  BY <1>3, <1>4 DEF Closers
<1>6. \A j \in 1..Len(q) : q[j] \notin Instanced
  BY <1>1, <1>3, <1>7, SMTT(30)
<1> QED BY <1>1, <1>4, <1>5, <1>6 DEF q

LEMMA ShortIs ==
    ASSUME NEW p \in Seq(Ops)
    PROVE  /\ Len(p) = 0 => p = << >>
           /\ Len(p) = 1 => p = <<p[1]>>
           /\ Len(p) = 2 => p = <<p[1], p[2]>>
  OBVIOUS

(* What an operation of a method leaves. *)
LEMMA LeavesIs ==
    ASSUME NEW p \in Seq(Ops), p # << >>, NEW c, Shaped(p, c)
    PROVE  LET t == Tail(p) IN
           /\ p[1] = "cont" => t = <<"join", "wait">>
           /\ p[1] = "step" => t = <<"wait", "join">>
           /\ p[1] = "wait" => (t = << >> /\ c = "cont") \/ (t # << >> /\ t[1] = "join")
           /\ t # << >> /\ t[1] = "wait" => p[1] = "step" \/ p = <<"join", "wait">>
           /\ t = <<"join", "wait">> => p[1] = "cont"
           /\ p[1] = "kill" => t # << >> /\ t[1] = "uninstance"
           /\ t # << >> /\ t[1] = "instance" => p[1] = "clear"
           /\ p[1] \in Starting => t # << >> /\ t[1] \in {"join", "set"}
           /\ p[1] = "set" => t # << >> /\ t[1] = "join"
           /\ p[1] = "terminate" => t = <<"jointhread">>
           /\ p[1] = "jointhread" => t = << >> /\ c = "terminate"
           /\ t # << >> /\ t[1] = "joincmd" => p[1] = "peek"
           /\ t # << >> /\ t[1] = "getrsp" => p[1] = "joincmd"
           /\ p[1] \in {"catch", "uninstance", "clear", "kill?"} =>
                 \A j \in 1..Len(t) : t[j] \notin Instanced
<1> DEFINE t == Tail(p)
<1>1. /\ Len(p) \in Nat \ {0} /\ DOMAIN p = 1..Len(p) /\ t \in Seq(Ops) /\ Len(t) = Len(p) - 1
      /\ \A i \in 1..(Len(p) - 1) : t[i] = p[i + 1]
  BY TailIs
<1> HIDE DEF t
<1>2. ShapeAt(p, 1, c)
  BY <1>1 DEF Shaped
<1>3. /\ \A ops : Follow(p, 1, ops) => t # << >> /\ t[1] \in ops
      /\ \A ops : t # << >> /\ t[1] \in ops => Follow(p, 1, ops)
  <2>1. t # << >> <=> 1 + 1 <= Len(p)
    BY <1>1
  <2>2. 1 + 1 <= Len(p) => t[1] = p[1 + 1]
    BY <1>1
  <2> QED BY <2>1, <2>2 DEF Follow
<1>4. ASSUME Len(p) = 1 + 2 PROVE Len(t) = 2 /\ t[1] = p[1 + 1] /\ t[2] = p[1 + 2]
  BY <1>1, <1>4
<1>5. p[1] = "cont" => t = <<"join", "wait">>
  <2> SUFFICES ASSUME p[1] = "cont" PROVE t = <<"join", "wait">>
    OBVIOUS
  <2>1. Len(p) = 1 + 2 /\ p[1 + 1] = "join" /\ p[1 + 2] = "wait"
    BY <1>2 DEF ShapeAt
  <2> QED BY <1>1, <1>4, <2>1, ShortIs
<1>6. p[1] = "step" => t = <<"wait", "join">>
  <2> SUFFICES ASSUME p[1] = "step" PROVE t = <<"wait", "join">>
    OBVIOUS
  <2>1. Len(p) = 1 + 2 /\ p[1 + 1] = "wait" /\ p[1 + 2] = "join"
    BY <1>2 DEF ShapeAt
  <2> QED BY <1>1, <1>4, <2>1, ShortIs
<1>7. p[1] = "wait" => (t = << >> /\ c = "cont") \/ (t # << >> /\ t[1] = "join")
  <2>1. Len(p) = 1 => t = << >>
    BY <1>1
  <2>2. p[1] = "wait" => (1 = Len(p) /\ c = "cont") \/ Follow(p, 1, {"join"})
    BY <1>2 DEF ShapeAt
  <2> QED BY <1>3, <2>1, <2>2
<1>8. t # << >> /\ t[1] = "wait" => p[1] = "step" \/ p = <<"join", "wait">>
  <2> SUFFICES ASSUME t # << >>, t[1] = "wait", p[1] # "step" PROVE p = <<"join", "wait">>
    OBVIOUS
  <2>1. Follow(p, 1, {"wait"})
    BY <1>3
  <2>2. p[1] = "join" /\ 1 + 1 = Len(p)
    BY <1>2, <2>1 DEF ShapeAt
  <2>3. p[2] = "wait" /\ Len(p) = 2
    BY <2>1, <2>2 DEF Follow
  <2> QED BY <2>2, <2>3, ShortIs
<1>14. ASSUME Len(t) >= 2 PROVE 1 + 2 <= Len(p) /\ p[1 + 1] = t[1] /\ p[1 + 2] = t[2]
  BY <1>1, <1>14
<1>9. t = <<"join", "wait">> => p[1] = "cont"
  <2> SUFFICES ASSUME t = <<"join", "wait">> PROVE p[1] = "cont"
    OBVIOUS
  <2>1. Len(t) >= 2 /\ t[1] = "join" /\ t[2] = "wait"
    OBVIOUS
  <2>2. 1 + 2 <= Len(p) /\ p[1 + 1] = "join" /\ p[1 + 2] = "wait"
    BY <1>14, <2>1
  <2> QED BY <1>2, <2>2 DEF ShapeAt
<1>10. p[1] = "terminate" => t = <<"jointhread">>
  <2> SUFFICES ASSUME p[1] = "terminate" PROVE t = <<"jointhread">>
    OBVIOUS
  <2>1. Len(p) = 1 + 1 /\ Follow(p, 1, {"jointhread"})
    BY <1>2 DEF ShapeAt
  <2>2. Len(t) = 1 /\ t[1] = "jointhread"
    BY <1>1, <1>3, <2>1
  <2> QED BY <1>1, <2>2, ShortIs
<1>11. p[1] = "jointhread" => t = << >> /\ c = "terminate"
  <2> SUFFICES ASSUME p[1] = "jointhread" PROVE t = << >> /\ c = "terminate"
    OBVIOUS
  <2>1. 1 = Len(p) /\ c = "terminate"
    BY <1>2 DEF ShapeAt
  <2> QED BY <1>1, <2>1
<1>12. /\ p[1] = "kill" => t # << >> /\ t[1] = "uninstance"
       /\ t # << >> /\ t[1] = "instance" => p[1] = "clear"
       /\ p[1] \in Starting => t # << >> /\ t[1] \in {"join", "set"}
       /\ p[1] = "set" => t # << >> /\ t[1] = "join"
       /\ t # << >> /\ t[1] = "joincmd" => p[1] = "peek"
       /\ t # << >> /\ t[1] = "getrsp" => p[1] = "joincmd"
  BY <1>2, <1>3 DEF ShapeAt
<1>13. p[1] \in {"catch", "uninstance", "clear", "kill?"} => \A j \in 1..Len(t) : t[j] \notin Instanced
  <2>1. p[1] \in {"catch", "uninstance", "clear", "kill?"} =>
            \A j \in DOMAIN p : j > 1 => p[j] \notin Instanced
    BY <1>2 DEF ShapeAt
  <2> QED BY <1>1, <2>1
<1> QED BY <1>5, <1>6, <1>7, <1>8, <1>9, <1>10, <1>11, <1>12, <1>13 DEF t

-------------------------------------------------------------------------------
(* What the script knows when an operation passes. *)

LEMMA AtIs == ASSUME prog \in Seq(Ops), NEW op PROVE At(op) <=> prog # << >> /\ prog[1] = op
  BY DEF At

LEMMA JoinedIs ==
    ASSUME IndInv, cmdUnfinished = 0
    PROVE  cmdQ = << >> /\ ~Busy /\ ~Working /\ DOMAIN cmdQ = {}
<1>1. /\ cmdQ \in Seq(Commands) /\ cmdUnfinished = Len(cmdQ) + (IF Busy THEN 1 ELSE 0)
  BY DEF IndInv, TypeOK, QueueAccounting
<1>2. ~Busy /\ Len(cmdQ) = 0
  BY <1>1
<1> QED BY <1>1, <1>2 DEF Busy, Working

LEMMA IdleRests ==
    ASSUME cmdQ = << >>, ~Working, Quiet PROVE Calm /\ AtRest
<1>1. DOMAIN cmdQ = {}
  OBVIOUS
<1> QED BY <1>1, CalmIdle DEF AtRest, Queued

(* A join ends with nothing under way; who waits for the tracee is the     *)
(* method itself.                                                          *)
LEMMA JoinRests ==
    ASSUME IndInv, SafeInv, prog # << >>, prog[1] \in {"join", "joincmd"}, cmdUnfinished = 0
    PROVE  prog = <<"join", "wait">> \/ (Calm /\ AtRest)
<1>1. cmdQ = << >> /\ ~Working /\ DOMAIN cmdQ = {}
  BY JoinedIs
<1>2. prog # <<"wait">> /\ prog # <<"wait", "join">>
  OBVIOUS
<1>3. Quiet \/ prog = <<"join", "wait">>
  BY <1>1, <1>2 DEF SafeInv, Attended, Queued
<1> QED BY <1>1, <1>3, IdleRests

(* The command that a join raises for has left the tracee alone. *)
LEMMA RaisedRests ==
    ASSUME IndInv, SafeInv, cmdUnfinished = 0, rspQ # << >> PROVE Calm /\ AtRest
<1>1. cmdQ = << >> /\ ~Working /\ ~Busy /\ DOMAIN cmdQ = {}
  BY JoinedIs
<1>2. ppc = "joinrsp" /\ ret # "None"
  BY <1>1 DEF IndInv, QueueAccounting, Busy, SafeInv, Served
<1>3. Quiet
  BY <1>1, <1>2 DEF SafeInv, Served, Queued
<1> QED BY <1>1, <1>3, IdleRests

LEMMA EndedRests ==
    ASSUME SafeInv, prog # << >>, ppc = "ended" PROVE Calm /\ AtRest
<1>1. cmdQ = << >> /\ ~Working /\ prog = <<"jointhread">>
  BY DEF SafeInv, Waiting, Working
<1>2. DOMAIN cmdQ = {}
  BY <1>1
<1>3. prog # <<"wait">> /\ prog # <<"wait", "join">> /\ prog # <<"join", "wait">>
  BY <1>1
<1>4. Quiet
  BY <1>1, <1>2, <1>3 DEF SafeInv, Attended, Queued
<1> QED BY <1>1, <1>4, IdleRests

(* Not to see the tracee running is enough, except while one is about to   *)
(* wait.                                                                   *)
LEMMA UnseenCalm ==
    ASSUME IndInv, SafeInv, prog # << >>, prog[1] \notin {"join", "wait"}, ~is_running PROVE Calm
<1>1. prog \in Seq(Ops)
  BY DEF IndInv, TypeOK, Ops
<1>2. ~At("join") /\ ~At("wait")
  BY <1>1, AtIs
<1> QED BY <1>2 DEF SafeInv, Visible

LEMMA InterruptRests ==
    ASSUME IndInv, SafeInv, prog # << >>, prog[1] = "interrupt", ~is_running PROVE AtRest
<1>1. prog \in Seq(Ops) /\ cmdQ \in Seq(Commands)
  BY DEF IndInv, TypeOK, Ops
<1>2. Calm
  BY UnseenCalm
<1>3. instanced /\ threads
  <2>1. Unguarded(prog, Instanced, {"instanced?"})
    BY <1>1, UnguardedFirst DEF Instanced
  <2>2. Unguarded(prog, Populated, {"alive?"})
    BY <1>1, UnguardedFirst DEF Populated
  <2> QED BY <2>1, <2>2 DEF SafeInv, Promise
<1>4. ~At("uninstance")
  BY <1>1, AtIs
<1>5. ~Queued({"kill"}) /\ ~(Working /\ cmd = "kill")
  BY <1>3, <1>4 DEF SafeInv, Killing
<1>6. \A k \in DOMAIN cmdQ : cmdQ[k] # "kill"
  BY <1>5 DEF Queued
<1>7. \A j \in DOMAIN cmdQ : j < Len(cmdQ) + 1
  BY <1>1
<1>8. ~Queued(Moving)
  BY <1>2, <1>6, <1>7 DEF Calm, CalmAt, Queued
<1>9. NowCalm
  BY <1>2, <1>6 DEF Calm, CalmAt
<1> QED BY <1>5, <1>8, <1>9 DEF NowCalm, AtRest

LEMMA PassCalm ==
    ASSUME IndInv, SafeInv, Passes, prog[1] \in Checks
    PROVE  Calm \/ prog = <<"join", "wait">>
<1>1. CASE prog[1] = "join"
  BY <1>1, JoinRests DEF Passes
<1>2. CASE prog[1] = "ensure"
  BY <1>2, UnseenCalm DEF Passes
<1>3. CASE prog[1] = "kill?"
  BY <1>3 DEF Passes, SafeInv, Visible
<1> QED BY <1>1, <1>2, <1>3 DEF Checks, Passes, MicroOps

LEMMA PassRests ==
    ASSUME IndInv, SafeInv, Passes, prog[1] \in Closers
    PROVE  AtRest \/ prog = <<"join", "wait">>
<1>1. CASE prog[1] \in {"join", "joincmd"}
  BY <1>1, JoinRests DEF Passes
<1>2. CASE prog[1] = "interrupt"
  BY <1>2, InterruptRests DEF Passes
<1>3. CASE prog[1] = "jointhread"
  BY <1>3, EndedRests DEF Passes
<1> QED BY <1>1, <1>2, <1>3 DEF Closers

-------------------------------------------------------------------------------
(* An operation that is replaced by several. *)

(* What the operations that take its place see to. *)
Replaces(s) ==
    /\ prog # << >> /\ prog' = s \o Tail(prog) /\ s \in Seq(Ops)
    /\ prog[1] \in {"ensure", "interrupt", "waitmore", "kill?"}
    /\ s[1] \in {"join", "instanced?", "sigstop", "wait", "ensure"}
    /\ s[1] = "join" => Len(s) = 1
    /\ \E k \in 1..Len(s) : s[k] \in Closers
    /\ \E k \in 1..Len(s) : s[k] \in Checks /\ \A i \in 1..k : s[i] \notin Guarded

LEMMA ExpandsIs ==
    ASSUME IndInv, SafeInv, Expands
    PROVE  /\ Shaped(prog', call)
           /\ Unguarded(prog', Instanced, {"instanced?"}) => instanced
           /\ Unguarded(prog', Populated, {"alive?"}) => threads
           /\ \E s \in {Joining, Interrupting, Stopping, WaitingMore, KillBody} : Replaces(s)
<1>0. prog \in Seq(Ops) /\ Shaped(prog, call) /\ prog # << >> /\ Promise
  BY DEF IndInv, TypeOK, Ops, SafeInv, Expands
<1>e. Joining \in Seq(Ops) /\ Interrupting \in Seq(Ops) /\ Stopping \in Seq(Ops)
      /\ WaitingMore \in Seq(Ops) /\ KillBody \in Seq(Ops)
      /\ Len(Joining) = 1 /\ Len(Interrupting) = 4 /\ Len(Stopping) = 4 /\ Len(WaitingMore) = 2
      /\ Len(KillBody) = 6
  BY ExtensionsAre
<1>1. CASE prog[1] = "ensure" /\ prog' = Joining \o Tail(prog)
  <2>1. Shaped(prog', call)
    BY <1>0, <1>1, ShapedJoining
  <2>2. Joining[1] = "join" /\ \A i \in 1..Len(Joining) : Joining[i] \notin Instanced \cup Populated
    BY <1>e DEF Joining, Instanced, Populated, Moving
  <2>3. Unguarded(prog', Instanced, {"instanced?"}) => Unguarded(prog, Instanced, {"instanced?"})
    BY <1>0, <1>e, <1>1, <2>2, UnguardedPrepend
  <2>4. Unguarded(prog', Populated, {"alive?"}) => Unguarded(prog, Populated, {"alive?"})
    BY <1>0, <1>e, <1>1, <2>2, UnguardedPrepend
  <2>5. Replaces(Joining)
    <3>1. 1 \in 1..Len(Joining) /\ \A i \in 1..1 : Joining[i] \notin Guarded
      BY <1>e, <2>2 DEF Guarded, Access, Starting
    <3> QED BY <1>0, <1>e, <1>1, <2>2, <3>1 DEF Replaces, Closers, Checks
  <2> QED BY <1>0, <2>1, <2>3, <2>4, <2>5 DEF Promise
<1>2. CASE prog[1] = "ensure" /\ prog' = Interrupting \o Tail(prog)
  <2>1. Shaped(prog', call)
    BY <1>0, <1>2, ShapedInterrupting
  <2>2. /\ Interrupting[1] = "instanced?" /\ Interrupting[2] = "alive?"
        /\ Interrupting[3] = "interrupt" /\ Interrupting[4] = "join"
    BY DEF Interrupting
  <2>3. ~Unguarded(prog', Instanced, {"instanced?"})
    <3>1. 1 \in 1..Len(Interrupting) /\ \A i \in 1..1 : Interrupting[i] \notin Instanced
      BY <1>e, <2>2 DEF Instanced, Moving
    <3> QED BY <1>0, <1>e, <1>2, <2>2, <3>1, GuardedPrepend
  <2>4. ~Unguarded(prog', Populated, {"alive?"})
    <3>1. 2 \in 1..Len(Interrupting) /\ \A i \in 1..2 : Interrupting[i] \notin Populated
      BY <1>e, <2>2 DEF Populated, Moving
    <3> QED BY <1>0, <1>e, <1>2, <2>2, <3>1, GuardedPrepend
  <2>5. Replaces(Interrupting)
    <3>1. 4 \in 1..Len(Interrupting) /\ \A i \in 1..4 : Interrupting[i] \notin Guarded
      BY <1>e, <2>2 DEF Guarded, Access, Starting
    <3> QED BY <1>0, <1>e, <1>2, <2>2, <3>1 DEF Replaces, Closers, Checks
  <2> QED BY <2>1, <2>3, <2>4, <2>5
<1>3. CASE prog[1] = "interrupt" /\ prog' = Stopping \o Tail(prog)
  <2>1. Shaped(prog', call)
    BY <1>0, <1>3, ShapedStopping
  <2>2. /\ Stopping[1] = "sigstop" /\ Stopping[2] = "instanced?" /\ Stopping[3] = "join"
        /\ Stopping[4] = "waitmore"
    BY DEF Stopping
  <2>3. instanced /\ threads
    <3>1. Unguarded(prog, Instanced, {"instanced?"}) /\ Unguarded(prog, Populated, {"alive?"})
      BY <1>0, <1>3, UnguardedFirst DEF Instanced, Populated
    <3> QED BY <1>0, <3>1 DEF Promise
  <2>5. Replaces(Stopping)
    <3>1. 3 \in 1..Len(Stopping) /\ \A i \in 1..3 : Stopping[i] \notin Guarded
      BY <1>e, <2>2 DEF Guarded, Access, Starting
    <3> QED BY <1>0, <1>e, <1>3, <2>2, <3>1 DEF Replaces, Closers, Checks
  <2> QED BY <2>1, <2>3, <2>5
<1>4. CASE prog[1] = "waitmore" /\ threads /\ prog' = WaitingMore \o Tail(prog)
  <2>1. Shaped(prog', call)
    BY <1>0, <1>4, ShapedWaitingMore
  <2>2. WaitingMore[1] = "wait" /\ WaitingMore[2] = "join"
    BY DEF WaitingMore
  <2>3. instanced
    <3>1. Unguarded(prog, Instanced, {"instanced?"})
      BY <1>0, <1>4, UnguardedFirst DEF Instanced
    <3> QED BY <1>0, <3>1 DEF Promise
  <2>5. Replaces(WaitingMore)
    <3>1. 2 \in 1..Len(WaitingMore) /\ \A i \in 1..2 : WaitingMore[i] \notin Guarded
      BY <1>e, <2>2 DEF Guarded, Access, Starting
    <3> QED BY <1>0, <1>e, <1>4, <2>2, <3>1 DEF Replaces, Closers, Checks
  <2> QED BY <1>4, <2>1, <2>3, <2>5
<1>5. CASE prog[1] = "kill?" /\ prog' = KillBody \o Tail(prog)
  <2>1. Shaped(prog', call)
    BY <1>0, <1>5, ShapedKill
  <2>2. /\ KillBody[1] = "ensure" /\ KillBody[2] = "catch" /\ KillBody[3] = "kill"
        /\ KillBody[4] = "uninstance" /\ KillBody[5] = "close" /\ KillBody[6] = "join"
    BY DEF KillBody
  <2>3. \A i \in 1..Len(KillBody) : KillBody[i] \notin Instanced
    BY <1>e, <2>2 DEF Instanced, Moving
  <2>4. prog' \in Seq(Ops) /\ \A i \in 1..Len(prog') : prog'[i] \notin Instanced
    <3> DEFINE q == KillBody \o Tail(prog)
    <3>1. \A j \in 2..Len(prog) : prog[j] \notin Instanced
      BY <1>0, <1>5, NextIs
    <3>2. /\ q \in Seq(Ops) /\ Len(q) = Len(KillBody) + Len(prog) - 1 /\ Len(prog) \in Nat \ {0}
          /\ \A i \in 1..Len(KillBody) : q[i] = KillBody[i]
          /\ \A i \in (Len(KillBody) + 1)..(Len(KillBody) + Len(prog) - 1) :
                q[i] = prog[i - Len(KillBody) + 1]
      BY <1>0, <1>e, PrependIs, TailIs
    <3> HIDE DEF q
    <3>3. ASSUME NEW i \in 1..Len(q) PROVE q[i] \notin Instanced
      <4>1. CASE i \in 1..Len(KillBody)
        BY <2>3, <3>2, <4>1
      <4>2. CASE i \in (Len(KillBody) + 1)..(Len(KillBody) + Len(prog) - 1)
        <5>1. i - Len(KillBody) + 1 \in 2..Len(prog)
          BY <1>e, <3>2, <4>2
        <5> QED BY <3>1, <3>2, <4>2, <5>1
      <4> QED BY <1>e, <3>2, <4>1, <4>2
    <3> QED BY <1>5, <3>2, <3>3 DEF q
  <2>6. ~Unguarded(prog', Instanced, {"instanced?"}) /\ ~Unguarded(prog', Populated, {"alive?"})
    BY <2>4, NoneOf DEF Instanced, Populated
  <2>5. Replaces(KillBody)
    <3>1. 1 \in 1..Len(KillBody) /\ \A i \in 1..1 : KillBody[i] \notin Guarded
      BY <1>e, <2>2 DEF Guarded, Access, Starting
    <3>2. 6 \in 1..Len(KillBody) /\ KillBody[6] \in Closers
      BY <1>e, <2>2 DEF Closers
    <3> QED BY <1>0, <1>e, <1>5, <2>2, <3>1, <3>2 DEF Replaces, Checks
  <2> QED BY <2>1, <2>5, <2>6
<1> QED BY <1>1, <1>2, <1>3, <1>4, <1>5 DEF Expands

LEMMA ReplacesIs ==
    ASSUME prog \in Seq(Ops), Shaped(prog, call), NEW s, Replaces(s), Shaped(prog', call)
    PROVE  /\ prog' \in Seq(Ops) /\ prog' # << >>
           /\ prog'[1] \in {"join", "instanced?", "sigstop", "wait", "ensure"}
           /\ prog' # <<"wait">> /\ prog' # <<"join", "wait">>
           /\ \E i \in DOMAIN prog' : prog'[i] \in Closers
           /\ ~Unguarded(prog', Guarded, Checks)
<1> DEFINE q == s \o Tail(prog)
<1>0. prog' = q /\ s \in Seq(Ops) /\ prog # << >> /\ Len(s) >= 1
  BY DEF Replaces
<1>1. /\ q \in Seq(Ops) /\ Len(q) = Len(s) + Len(prog) - 1 /\ Len(prog) \in Nat \ {0} /\ Len(s) \in Nat
      /\ DOMAIN q = 1..Len(q)
      /\ \A i \in 1..Len(s) : q[i] = s[i]
      /\ \A i \in (Len(s) + 1)..(Len(s) + Len(prog) - 1) : q[i] = prog[i - Len(s) + 1]
  BY <1>0, PrependIs, TailIs
<1> HIDE DEF q
<1>2. q[1] = s[1] /\ q # << >> /\ 1 \in 1..Len(q)
  BY <1>0, <1>1
<1>3. \E i \in DOMAIN q : q[i] \in Closers
  <2>1. PICK k \in 1..Len(s) : s[k] \in Closers
    BY DEF Replaces
  <2>2. k \in DOMAIN q /\ q[k] = s[k]
    BY <1>1, <2>1
  <2> QED BY <2>1, <2>2
<1>4. ~Unguarded(q, Guarded, Checks)
  <2>1. PICK k \in 1..Len(s) : s[k] \in Checks /\ \A i \in 1..k : s[i] \notin Guarded
    BY DEF Replaces
  <2>3. k \in 1..Len(q) /\ \A i \in 1..k : i \in 1..Len(s)
    BY <1>1, <2>1
  <2>2. q[k] \in Checks /\ \A i \in 1..k : q[i] \notin Guarded
    BY <1>1, <2>1, <2>3
  <2> QED BY <1>1, <2>2, <2>3, GuardedBy
<1>5. q # <<"wait">>
  <2> SUFFICES ASSUME q = <<"wait">> PROVE FALSE
    OBVIOUS
  <2>1. Len(q) = 1 /\ q[1] = "wait"
    OBVIOUS
  <2> QED BY <1>3, <2>1 DEF Closers
<1>6. q # <<"join", "wait">>
  <2> SUFFICES ASSUME q = <<"join", "wait">> PROVE FALSE
    OBVIOUS
  <2>1. Len(q) <= 2 /\ Len(q) >= 2 /\ q[1] = "join" /\ q[2] = "wait"
    OBVIOUS
  <2>2. s[1] = "join"
    BY <1>2, <2>1
  <2>3. Len(s) = 1
    BY <2>2 DEF Replaces
  <2>4. Len(prog) >= 2
    BY <1>1, <2>1, <2>3
  <2>5. 2 \in (Len(s) + 1)..(Len(s) + Len(prog) - 1) /\ 2 - Len(s) + 1 = 2
    BY <1>1, <2>3, <2>4
  <2>6. q[2] = prog[2]
    BY <1>1, <2>5
  <2>7. Follow(prog, 1, {"wait"})
    BY <2>1, <2>4, <2>6 DEF Follow
  <2> QED BY <1>0, <2>7, NextIs DEF Replaces
<1> QED BY <1>0, <1>1, <1>2, <1>3, <1>4, <1>5, <1>6 DEF Replaces

-------------------------------------------------------------------------------
(* The script's thread: every operation preserves SafeInv. *)

(* The operations that put no command. *)
Moves == Passes \/ Quits \/ Expands \/ Sets \/ \E c \in Calls : Begins(c)

LEMMA MovesQueue == ASSUME Moves PROVE cmdQ' = cmdQ
  BY DEF Moves, Passes, Quits, Expands, Sets, Begins

LEMMA SameQueue ==
    ASSUME Undisturbed, cmdQ' = cmdQ
    PROVE  /\ Calm' = Calm /\ AtRest' = AtRest /\ Working' = Working /\ Busy' = Busy /\ Quiet' = Quiet
           /\ \A cs : Queued(cs)' = Queued(cs)
<1>1. Working' = Working /\ Busy' = Busy /\ Quiet' = Quiet
  BY DEF Undisturbed, Working, Busy, Quiet
<1>2. \A cs : Queued(cs)' = Queued(cs)
  BY DEF Queued
<1>3. Calm' = Calm
  BY CalmEqual DEF Undisturbed
<1>4. AtRest' = AtRest
  BY <1>1, <1>2 DEF AtRest, Undisturbed
<1> QED BY <1>1, <1>2, <1>3, <1>4

LEMMA KeptSame ==
    ASSUME Kept, Undisturbed, cmdQ' = cmdQ PROVE Kept'
<1>1. Working' = Working /\ Quiet' = Quiet /\ cmd' = cmd
  BY SameQueue DEF Undisturbed
<1>3. \A i : CalmAt(i)' = CalmAt(i)
  <2>1. NowCalm' = NowCalm
    BY <1>1 DEF NowCalm
  <2> QED BY <2>1 DEF CalmAt
<1> QED BY <1>1, <1>3 DEF Kept

LEMMA ServedMain ==
    ASSUME Served, Undisturbed, \A cs : Queued(cs) => Queued(cs)' PROVE Served'
<1>1. Quiet' = Quiet /\ UNCHANGED <<ppc, cmd, ret, proc>> /\ (dead' => dead)
      /\ (rspQ' # << >> => rspQ' = rspQ)
  BY DEF Undisturbed, Quiet
<1> QED BY <1>1 DEF Served

LEMMA ShapedMoves ==
    ASSUME IndInv, SafeInv, Moves PROVE Shaped(prog', call')
<1>0. prog \in Seq(Ops) /\ Shaped(prog, call)
  BY DEF IndInv, TypeOK, Ops, SafeInv
<1>1. CASE Passes \/ Sets
  BY <1>0, <1>1, ShapedTail DEF Passes, Sets
<1>2. CASE Quits
  <2>1. Shaped(<< >>, call)
    BY DEF Shaped
  <2>2. ASSUME NEW i \in 1..Len(prog), prog' = SubSeq(prog, i + 1, Len(prog)) PROVE Shaped(prog', call)
    BY <1>0, <2>2, ShapedSuffix
  <2>3. Shaped(prog', call)
    BY <1>2, <2>1, <2>2 DEF Quits
  <2> QED BY <1>2, <2>3 DEF Quits
<1>3. CASE Expands
  BY <1>3, ExpandsIs DEF Expands
<1>4. CASE \E c \in Calls : Begins(c)
  BY <1>4, FreshBody, CallsAssumption DEF Begins, Fresh
<1> QED BY <1>1, <1>2, <1>3, <1>4 DEF Moves

(* Where a method stands after an operation that did not just pass. *)
LEMMA QuitsIs ==
    ASSUME IndInv, SafeInv, Quits
    PROVE  /\ prog' \in Seq(Ops)
           /\ prog' = << >> \/ (prog' # << >> /\ prog'[1] = "kill")
           /\ \A j \in 1..Len(prog') : prog'[j] \notin Instanced
           /\ outcome' = "ok" => \E j \in DOMAIN prog' : prog'[j] \in Closers
<1>0. prog \in Seq(Ops) /\ Shaped(prog, call)
  BY DEF IndInv, TypeOK, Ops, SafeInv
<1>1. CASE prog' = << >> /\ outcome' = "raised"
  BY <1>1
<1>2. CASE \E i \in 1..Len(prog) : prog[i] = "catch" /\ prog' = SubSeq(prog, i + 1, Len(prog))
  <2>1. PICK i \in 1..Len(prog) : prog[i] = "catch" /\ prog' = SubSeq(prog, i + 1, Len(prog))
    BY <1>2
  <2>2. LET q == SubSeq(prog, i + 1, Len(prog)) IN
        /\ q \in Seq(Ops) /\ q # << >> /\ q[1] = "kill"
        /\ \A j \in 1..Len(q) : q[j] \notin Instanced
        /\ \E j \in DOMAIN q : q[j] \in Closers
    BY <1>0, <2>1, CatchIs
  <2> QED BY <2>1, <2>2
<1> QED BY <1>1, <1>2 DEF Quits

LEMMA PromiseMoves ==
    ASSUME IndInv, SafeInv, Moves, Undisturbed, prog' \in Seq(Ops) PROVE Promise'
<1>0. prog \in Seq(Ops) /\ Shaped(prog, call) /\ Promise
  BY DEF IndInv, TypeOK, Ops, SafeInv
<1>c. Calm' = Calm
  BY MovesQueue, SameQueue
<1>a. At("instance")' <=> prog' # << >> /\ prog'[1] = "instance"
  BY DEF At
<1>e. ASSUME prog' = << >>, NEW X, NEW G PROVE ~Unguarded(prog', X, G)
  BY <1>e DEF Unguarded
<1>1. CASE Passes
  <2>0. prog # << >> /\ prog' = Tail(prog) /\ instanced' = instanced /\ threads' = threads
    BY <1>1 DEF Passes
  <2>1. Unguarded(prog', Guarded, Checks) => Calm'
    <3>1. CASE prog[1] \in Checks
      <4>1. CASE prog = <<"join", "wait">>
        <5>1. prog' = <<"wait">>
          BY <2>0, <4>1
        <5>3. \A i \in 1..Len(prog') : prog'[i] \notin Guarded
          BY <5>1 DEF Guarded, Access, Starting
        <5>2. ~Unguarded(prog', Guarded, Checks)
          BY <5>3, NoneOf
        <5> QED BY <5>2
      <4> QED BY <1>1, <1>c, <3>1, <4>1, PassCalm
    <3>2. CASE prog[1] \notin Checks
      BY <1>0, <1>c, <2>0, <3>2, UnguardedTail DEF Promise
    <3> QED BY <3>1, <3>2
  <2>2. Unguarded(prog', Instanced, {"instanced?"}) => instanced
    <3>1. CASE prog[1] = "instanced?"
      BY <1>1, <3>1 DEF Passes
    <3>2. CASE prog[1] # "instanced?"
      BY <1>0, <2>0, <3>2, UnguardedTail DEF Promise
    <3> QED BY <3>1, <3>2
  <2>3. Unguarded(prog', Populated, {"alive?"}) => threads
    <3>1. CASE prog[1] = "alive?"
      BY <1>1, <3>1 DEF Passes
    <3>2. CASE prog[1] # "alive?"
      BY <1>0, <2>0, <3>2, UnguardedTail DEF Promise
    <3> QED BY <3>1, <3>2
  <2>4. ~At("instance")'
    BY <1>0, <1>1, <1>a, <2>0, LeavesIs DEF Passes
  <2> QED BY <2>0, <2>1, <2>2, <2>3, <2>4 DEF Promise
<1>2. CASE Quits
  <2>1. /\ prog' = << >> \/ (prog' # << >> /\ prog'[1] = "kill")
        /\ \A j \in 1..Len(prog') : prog'[j] \notin Instanced
    BY <1>2, QuitsIs
  <2>2. ~Unguarded(prog', Guarded, Checks)
    <3>1. CASE prog' # << >> /\ prog'[1] = "kill"
      <4>1. 1 \in 1..Len(prog') /\ prog'[1] \in Checks /\ \A i \in 1..1 : prog'[i] \notin Guarded
        BY <3>1 DEF Checks, Guarded, Access, Starting
      <4> QED BY <4>1, GuardedBy
    <3> QED BY <1>e, <2>1, <3>1
  <2>3. ~Unguarded(prog', Instanced, {"instanced?"}) /\ ~Unguarded(prog', Populated, {"alive?"})
    BY <2>1, NoneOf DEF Instanced, Populated
  <2> QED BY <1>a, <2>1, <2>2, <2>3 DEF Promise
<1>3. CASE Expands
  <2>1. /\ Shaped(prog', call)
        /\ Unguarded(prog', Instanced, {"instanced?"}) => instanced
        /\ Unguarded(prog', Populated, {"alive?"}) => threads
        /\ \E s \in {Joining, Interrupting, Stopping, WaitingMore, KillBody} : Replaces(s)
    BY <1>3, ExpandsIs
  <2>2. PICK s : Replaces(s)
    BY <2>1
  <2>3. /\ prog'[1] \in {"join", "instanced?", "sigstop", "wait", "ensure"}
        /\ ~Unguarded(prog', Guarded, Checks)
    BY <1>0, <2>1, <2>2, ReplacesIs
  <2>4. instanced' = instanced /\ threads' = threads
    BY <1>3 DEF Expands
  <2> QED BY <1>a, <2>1, <2>3, <2>4 DEF Promise
<1>4. CASE Sets
  <2>0. prog # << >> /\ prog' = Tail(prog) /\ prog[1] \in {"uninstance", "clear", "instance"}
    BY <1>4 DEF Sets
  <2>1. Unguarded(prog', Guarded, Checks) => Calm'
    BY <1>0, <1>c, <2>0, UnguardedTail DEF Promise, Checks
  <2>2. CASE prog[1] \in {"uninstance", "clear"}
    <3>1. \A j \in 1..Len(prog') : prog'[j] \notin Instanced
      BY <1>0, <2>0, <2>2, LeavesIs
    <3>2. ~Unguarded(prog', Instanced, {"instanced?"}) /\ ~Unguarded(prog', Populated, {"alive?"})
      BY <3>1, NoneOf DEF Instanced, Populated
    <3>3. At("instance")' => prog[1] = "clear"
      BY <1>0, <1>a, <2>0, LeavesIs
    <3>4. prog[1] = "clear" => ~threads'
      BY <1>4 DEF Sets
    <3> QED BY <2>1, <3>2, <3>3, <3>4 DEF Promise
  <2>3. CASE prog[1] = "instance"
    <3>1. instanced' /\ threads' = threads
      BY <1>4, <2>3 DEF Sets
    <3>2. Unguarded(prog', Populated, {"alive?"}) => threads
      BY <1>0, <2>0, <2>3, UnguardedTail DEF Promise
    <3>3. ~At("instance")'
      BY <1>0, <1>a, <2>0, <2>3, LeavesIs
    <3> QED BY <2>1, <3>1, <3>2, <3>3 DEF Promise
  <2> QED BY <2>0, <2>2, <2>3
<1>5. CASE \E c \in Calls : Begins(c)
  <2>1. PICK c \in Calls : Begins(c)
    BY <1>5
  <2>2. Fresh(prog', c)
    BY <2>1, FreshBody, CallsAssumption DEF Begins
  <2> QED BY <1>a, <2>2 DEF Fresh, Promise
<1> QED BY <1>1, <1>2, <1>3, <1>4, <1>5 DEF Moves

LEMMA VisibleMoves ==
    ASSUME IndInv, SafeInv, Moves, Undisturbed, prog' \in Seq(Ops) PROVE Visible'
<1>0. prog \in Seq(Ops) /\ Promise /\ Visible
  BY DEF IndInv, TypeOK, Ops, SafeInv
<1>c. Calm' = Calm
  BY MovesQueue, SameQueue
<1>1. CASE Sets
  <2>1. prog # << >>
    BY <1>1 DEF Sets
  <2>2. CASE prog[1] \in {"uninstance", "clear"}
    <3>1. Unguarded(prog, Guarded, Checks)
      BY <1>0, <2>1, <2>2, UnguardedFirst DEF Guarded
    <3> QED BY <1>0, <1>c, <3>1 DEF Promise, Visible
  <2>3. CASE prog[1] = "instance"
    <3>1. At("instance")
      BY <1>0, <2>1, <2>3, AtIs
    <3>2. Calm
      BY <1>0, <3>1 DEF Promise, Visible
    <3> QED BY <1>c, <3>2 DEF Visible
  <2> QED BY <1>1, <2>2, <2>3 DEF Sets
<1>2. CASE ~Sets
  <2>1. UNCHANGED <<instanced, is_running, threads>>
    BY <1>2 DEF Moves, Passes, Quits, Expands, Begins
  <2>2. CASE Calm \/ is_running
    BY <1>0, <1>c, <2>1, <2>2 DEF Visible
  <2>3. CASE ~Calm /\ ~is_running
    <3>1. prog # << >> /\ prog[1] \in {"join", "wait"}
      BY <1>0, <2>3, AtIs DEF Visible
    <3>2. Passes \/ Quits
      BY <1>2, <3>1 DEF Moves, Expands, Begins
    <3>3. prog[1] = "join"
      BY <3>1, <3>2 DEF Passes, Quits, MicroOps
    <3>4. ~Quits
      BY <2>3, <3>3, RaisedRests DEF Quits
    <3>5. prog = <<"join", "wait">>
      BY <2>3, <3>2, <3>3, <3>4, PassCalm DEF Checks
    <3>6. prog' = <<"wait">>
      BY <3>2, <3>4, <3>5 DEF Passes
    <3>7. At("wait")'
      BY <3>6 DEF At
    <3> QED BY <1>0, <1>c, <2>1, <3>7 DEF Visible
  <2> QED BY <2>2, <2>3
<1> QED BY <1>1, <1>2

(* An operation that puts no command has waited for all that is queued, or *)
(* nothing of it matters.                                                  *)
LEMMA MovesFree ==
    ASSUME IndInv, SafeInv, Moves
    PROVE  /\ prog # <<"wait", "join">> /\ prog # <<"wait">>
           /\ At("join") \/ prog = <<"join", "wait">> \/ prog = <<"join">> =>
                 cmdQ = << >> /\ ~Busy /\ ~Working
           /\ ~At("set")
           /\ prog = <<"jointhread">> => ppc = "ended" /\ prog' = << >> /\ UNCHANGED <<call, outcome>>
<1>0. prog \in Seq(Ops)
  BY DEF IndInv, TypeOK, Ops
<1>1. prog # << >> => prog[1] \notin {"wait", "set"}
  BY DEF Moves, Passes, Quits, Expands, Sets, Begins, MicroOps
<1>2. prog # <<"wait", "join">> /\ prog # <<"wait">>
  BY <1>1
<1>3. ~At("set")
  BY <1>0, <1>1, AtIs
<1>4. ASSUME At("join") \/ prog = <<"join", "wait">> \/ prog = <<"join">>
      PROVE  cmdQ = << >> /\ ~Busy /\ ~Working
  <2>1. prog # << >> /\ prog[1] = "join"
    BY <1>0, <1>4, AtIs
  <2>2. cmdUnfinished = 0
    BY <2>1 DEF Moves, Passes, Quits, Expands, Sets, Begins
  <2> QED BY <2>2, JoinedIs
<1>5. ASSUME prog = <<"jointhread">> PROVE ppc = "ended" /\ prog' = << >> /\ UNCHANGED <<call, outcome>>
  <2>1. prog # << >> /\ prog[1] = "jointhread" /\ Tail(prog) = << >>
    BY <1>5
  <2>2. Passes
    BY <2>1 DEF Moves, Quits, Expands, Sets, Begins
  <2> QED BY <2>1, <2>2 DEF Passes
<1> QED BY <1>2, <1>3, <1>4, <1>5

LEMMA WaitingMoves ==
    ASSUME IndInv, SafeInv, Moves, Undisturbed PROVE Waiting'
<1>0. Waiting /\ cmdQ' = cmdQ /\ cmdQ \in Seq(Commands)
  BY MovesQueue DEF SafeInv, IndInv, TypeOK
<1>s. Working' = Working /\ Busy' = Busy /\ cmd' = cmd /\ ppc' = ppc
      /\ \A cs : Queued(cs)' = Queued(cs)
  BY <1>0, SameQueue DEF Undisturbed
<1>f. /\ prog # <<"wait", "join">> /\ prog # <<"wait">>
      /\ At("join") \/ prog = <<"join", "wait">> \/ prog = <<"join">> => cmdQ = << >> /\ ~Busy /\ ~Working
      /\ ~At("set")
      /\ prog = <<"jointhread">> => ppc = "ended" /\ prog' = << >> /\ UNCHANGED <<call, outcome>>
  BY MovesFree
<1>d. cmdQ = << >> => DOMAIN cmdQ = {}
  OBVIOUS
<1>1. /\ \A j \in DOMAIN cmdQ : cmdQ[j] \notin {"cont", "step", "terminate"}
      /\ ~(Working /\ cmd \in {"cont", "step"})
  <2>1. \A j \in DOMAIN cmdQ : cmdQ[j] # "cont"
    BY <1>0, <1>d, <1>f DEF Waiting
  <2>2. ~(Working /\ cmd = "cont")
    BY <1>0, <1>f DEF Waiting
  <2>3. \A j \in DOMAIN cmdQ : cmdQ[j] # "step"
    BY <1>0, <1>d, <1>f DEF Waiting, Stepped
  <2>4. ~(Working /\ cmd = "step")
    BY <1>0, <1>f DEF Waiting, Stepped
  <2>5. \A j \in DOMAIN cmdQ : cmdQ[j] # "terminate"
    BY <1>0, <1>d, <1>f DEF Waiting
  <2> QED BY <2>1, <2>2, <2>3, <2>4, <2>5
<1>2. ~Queued(Starting) /\ ~(Working /\ cmd \in Starting)
  BY <1>0, <1>d, <1>f DEF Waiting, Queued
<1>3. \A j \in DOMAIN cmdQ : cmdQ[j] = "wait" =>
          (j = 1 /\ ~Busy) \/ \E k \in DOMAIN cmdQ : k > j /\ cmdQ[k] = "kill"
  BY <1>0, <1>d, <1>f DEF Waiting
<1>4. ASSUME ppc = "ended"
      PROVE  cmdQ' = << >> /\ prog' = << >> /\ call' = "terminate" /\ outcome' = "ok"
  <2>1. cmdQ = << >> /\ (prog = << >> \/ prog = <<"jointhread">>) /\ call = "terminate" /\ outcome = "ok"
    BY <1>0, <1>4 DEF Waiting
  <2>2. prog # << >>
    BY <2>1 DEF Moves, Passes, Quits, Expands, Sets, Begins
  <2> QED BY <1>0, <1>f, <2>1, <2>2
<1>5. /\ \A j \in DOMAIN cmdQ' : cmdQ'[j] \notin {"cont", "step", "terminate"}
      /\ ~(Working' /\ cmd' \in {"cont", "step"})
  BY <1>0, <1>1, <1>s
<1>6. ~Queued(Starting)' /\ ~(Working' /\ cmd' \in Starting)
  BY <1>2, <1>s
<1>7. \A j \in DOMAIN cmdQ' : cmdQ'[j] = "wait" =>
          (j = 1 /\ ~Busy') \/ \E k \in DOMAIN cmdQ' : k > j /\ cmdQ'[k] = "kill"
  BY <1>0, <1>3, <1>s
<1>8. ppc' = "ended" => cmdQ' = << >> /\ prog' = << >> /\ call' = "terminate" /\ outcome' = "ok"
  BY <1>4, <1>s
<1> QED BY <1>5, <1>6, <1>7, <1>8 DEF Waiting

LEMMA ContinuedMoves ==
    ASSUME IndInv, SafeInv, Moves, Undisturbed, prog' \in Seq(Ops) PROVE Continued'
<1>0. prog \in Seq(Ops) /\ Shaped(prog, call) /\ Continued /\ cmdQ' = cmdQ
  BY MovesQueue DEF SafeInv, IndInv, TypeOK, Ops
<1>s. Working' = Working /\ Busy' = Busy /\ cmd' = cmd /\ \A cs : Queued(cs)' = Queued(cs)
  BY <1>0, SameQueue DEF Undisturbed
<1>1. CASE Passes
  <2>0. prog # << >> /\ prog' = Tail(prog) /\ is_running' = is_running
    BY <1>1 DEF Passes
  <2>1. prog' # <<"join", "wait">>
    BY <1>0, <1>1, <2>0, LeavesIs DEF Passes, MicroOps
  <2>2. ASSUME prog' = <<"wait">> PROVE cmdQ' = << >> /\ ~Busy' /\ is_running'
    <3>1. prog' # << >> /\ prog'[1] = "wait"
      BY <2>2
    <3>2. prog[1] = "step" \/ prog = <<"join", "wait">>
      BY <1>0, <2>0, <3>1, LeavesIs
    <3>3. prog = <<"join", "wait">> /\ prog[1] = "join"
      BY <1>1, <3>2 DEF Passes, MicroOps
    <3>4. cmdQ = << >> /\ ~Busy /\ ~Working /\ DOMAIN cmdQ = {}
      BY <1>1, <3>3, JoinedIs DEF Passes
    <3> QED BY <1>0, <1>s, <2>0, <3>3, <3>4 DEF Continued, Queued
  <2> QED BY <2>1, <2>2 DEF Continued
<1>2. CASE Quits
  BY <1>2, QuitsIs DEF Continued
<1>3. CASE Expands
  <2>1. Shaped(prog', call) /\ \E s \in {Joining, Interrupting, Stopping, WaitingMore, KillBody} : Replaces(s)
    BY <1>3, ExpandsIs
  <2>2. prog' # <<"wait">> /\ prog' # <<"join", "wait">>
    BY <1>0, <2>1, ReplacesIs
  <2> QED BY <2>2 DEF Continued
<1>4. CASE Sets
  <2>0. prog # << >> /\ prog' = Tail(prog) /\ prog[1] \in {"uninstance", "clear", "instance"}
    BY <1>4 DEF Sets
  <2>1. prog' # <<"join", "wait">>
    BY <1>0, <2>0, LeavesIs
  <2>2. prog # <<"join", "wait">>
    BY <2>0
  <2>3. prog' # <<"wait">>
    <3> SUFFICES ASSUME prog' = <<"wait">> PROVE FALSE
      OBVIOUS
    <3>1. prog' # << >> /\ prog'[1] = "wait"
      OBVIOUS
    <3> QED BY <1>0, <2>0, <2>2, <3>1, LeavesIs
  <2> QED BY <2>1, <2>3 DEF Continued
<1>5. CASE \E c \in Calls : Begins(c)
  <2>1. prog' # << >> /\ prog'[1] \in {"instanced?", "kill?", "ensure", "terminate"}
    BY <1>5, FreshBody, CallsAssumption DEF Begins, Fresh
  <2>2. prog' # <<"wait">> /\ prog' # <<"join", "wait">>
    BY <2>1
  <2> QED BY <2>2 DEF Continued
<1> QED BY <1>1, <1>2, <1>3, <1>4, <1>5 DEF Moves

LEMMA AttendedMoves ==
    ASSUME IndInv, SafeInv, Moves, Undisturbed PROVE Attended'
<1>0. Attended /\ cmdQ' = cmdQ
  BY MovesQueue DEF SafeInv
<1>s. Working' = Working /\ Quiet' = Quiet /\ cmd' = cmd /\ \A cs : Queued(cs)' = Queued(cs)
  BY <1>0, SameQueue DEF Undisturbed
<1>1. prog # <<"wait", "join">> /\ prog # <<"wait">>
  BY MovesFree
<1>2. ASSUME ~Quiet, prog = <<"join", "wait">> PROVE prog' = <<"wait">>
  <2>1. prog # << >> /\ prog[1] = "join" /\ Tail(prog) = <<"wait">>
    BY <1>2
  <2>2. Passes \/ Quits
    BY <2>1 DEF Moves, Expands, Sets, Begins
  <2>3. ~Quits
    BY <1>2, <2>1, RaisedRests DEF Quits, AtRest
  <2> QED BY <2>1, <2>2, <2>3 DEF Passes
<1> QED BY <1>0, <1>s, <1>1, <1>2 DEF Attended

LEMMA KillingMoves ==
    ASSUME IndInv, SafeInv, Moves, Undisturbed PROVE Killing'
<1>0. prog \in Seq(Ops) /\ Killing /\ Promise /\ cmdQ' = cmdQ
  BY MovesQueue DEF SafeInv, IndInv, TypeOK, Ops
<1>s. Working' = Working /\ cmd' = cmd /\ \A cs : Queued(cs)' = Queued(cs)
  BY <1>0, SameQueue DEF Undisturbed
<1>1. ASSUME Queued({"kill"}) \/ (Working /\ cmd = "kill")
      PROVE  ~instanced' \/ ~threads'
  <2>1. ~instanced \/ ~threads \/ At("uninstance")
    BY <1>0, <1>1 DEF Killing
  <2>2. CASE Sets
    <3>1. CASE prog[1] = "instance"
      <4>1. At("instance")
        BY <1>0, <2>2, <3>1, AtIs DEF Sets
      <4> QED BY <1>0, <2>2, <3>1, <4>1 DEF Sets, Promise
    <3> QED BY <2>2, <3>1 DEF Sets
  <2>3. CASE ~Sets
    <3>1. UNCHANGED <<instanced, threads>> /\ (prog # << >> => prog[1] # "uninstance")
      BY <2>3 DEF Moves, Passes, Quits, Expands, Begins
    <3>2. ~At("uninstance")
      BY <1>0, <3>1, AtIs
    <3> QED BY <2>1, <3>1, <3>2
  <2> QED BY <2>2, <2>3
<1>2. /\ \A j, k \in DOMAIN cmdQ' : j < k /\ cmdQ'[j] \in Starting => cmdQ'[k] # "kill"
      /\ Working' /\ cmd' \in Starting => ~Queued({"kill"})'
  BY <1>0, <1>s DEF Killing
<1> QED BY <1>1, <1>2, <1>s DEF Killing

(* The last operation that waits is not passed before the tracee rests. *)
LEMMA ReturnedMoves ==
    ASSUME IndInv, SafeInv, Moves, Undisturbed PROVE Returned'
<1>0. prog \in Seq(Ops) /\ Shaped(prog, call) /\ Returned /\ cmdQ' = cmdQ
  BY MovesQueue DEF SafeInv, IndInv, TypeOK, Ops
<1>s. AtRest' = AtRest
  BY <1>0, SameQueue
<1>t. ASSUME prog # << >>, prog' = Tail(prog), prog[1] \notin Closers, \E i \in DOMAIN prog : prog[i] \in Closers
      PROVE  \E i \in DOMAIN prog' : prog'[i] \in Closers
  <2> DEFINE t == Tail(prog)
  <2>1. /\ Len(prog) \in Nat \ {0} /\ DOMAIN prog = 1..Len(prog) /\ DOMAIN t = 1..(Len(prog) - 1)
        /\ \A i \in 1..(Len(prog) - 1) : t[i] = prog[i + 1]
    BY <1>0, <1>t, TailIs
  <2>2. prog' = t
    BY <1>t
  <2> HIDE DEF t
  <2>3. PICK i \in DOMAIN prog : prog[i] \in Closers
    BY <1>t
  <2>4. i - 1 \in DOMAIN t /\ (i - 1) + 1 = i
    BY <1>t, <2>1, <2>3
  <2>5. t[i - 1] = prog[(i - 1) + 1]
    BY <2>1, <2>4
  <2> QED BY <2>2, <2>3, <2>4, <2>5
<1>1. CASE Passes
  <2>0. prog # << >> /\ prog' = Tail(prog) /\ outcome' = outcome /\ call' = call
    BY <1>1 DEF Passes
  <2>1. CASE prog[1] \in Closers
    <3>1. CASE prog = <<"join", "wait">>
      <4>1. prog' = <<"wait">> /\ ~(2 + 1 <= Len(prog)) /\ prog[2] = "wait" /\ 2 \in DOMAIN prog
        BY <2>0, <3>1
      <4>2. ShapeAt(prog, 2, call)
        BY <1>0, <4>1 DEF Shaped
      <4>3. call = "cont"
        BY <4>1, <4>2 DEF ShapeAt, Follow
      <4> QED BY <1>0, <2>0, <4>3 DEF Returned
    <3>2. CASE AtRest
      BY <1>0, <1>s, <2>0, <3>2 DEF Returned
    <3> QED BY <1>1, <2>1, <3>1, <3>2, PassRests
  <2>2. CASE prog[1] \notin Closers
    BY <1>0, <1>s, <1>t, <2>0, <2>2 DEF Returned
  <2> QED BY <2>1, <2>2
<1>2. CASE Sets
  <2>1. /\ prog # << >> /\ prog' = Tail(prog) /\ outcome' = outcome /\ call' = call
        /\ prog[1] \notin Closers
    BY <1>2 DEF Sets, Closers
  <2> QED BY <1>0, <1>s, <1>t, <2>1 DEF Returned
<1>3. CASE Quits
  <2>1. outcome' = "ok" => \E j \in DOMAIN prog' : prog'[j] \in Closers
    BY <1>3, QuitsIs
  <2>2. prog' # << >> => outcome' = "ok"
    BY <1>0, <1>3 DEF Quits, Returned
  <2> QED BY <2>1, <2>2 DEF Returned
<1>4. CASE Expands
  <2>1. Shaped(prog', call) /\ \E s \in {Joining, Interrupting, Stopping, WaitingMore, KillBody} : Replaces(s)
    BY <1>4, ExpandsIs
  <2>2. \E i \in DOMAIN prog' : prog'[i] \in Closers
    BY <1>0, <2>1, ReplacesIs
  <2>3. outcome' = "ok"
    BY <1>0, <1>4 DEF Expands, Returned
  <2> QED BY <2>2, <2>3 DEF Returned
<1>5. CASE \E c \in Calls : Begins(c)
  <2>1. outcome' = "ok" /\ \E i \in DOMAIN prog' : prog'[i] \in Closers
    BY <1>5, FreshBody, CallsAssumption DEF Begins, Fresh
  <2> QED BY <2>1 DEF Returned
<1> QED BY <1>1, <1>2, <1>3, <1>4, <1>5 DEF Moves

LEMMA PeekingMoves ==
    ASSUME IndInv, SafeInv, Moves, Undisturbed, prog' \in Seq(Ops) PROVE Peeking'
<1>0. prog \in Seq(Ops) /\ Shaped(prog, call) /\ Peeking /\ cmdQ' = cmdQ /\ cmd' = cmd
  BY MovesQueue DEF SafeInv, IndInv, TypeOK, Ops, Undisturbed
<1>a. \A op : At(op)' <=> prog' # << >> /\ prog'[1] = op
  BY DEF At
<1>1. CASE Passes
  <2>0. prog # << >> /\ prog' = Tail(prog)
    BY <1>1 DEF Passes
  <2>1. ~At("joincmd")'
    BY <1>0, <1>1, <1>a, <2>0, LeavesIs DEF Passes, MicroOps
  <2>2. ASSUME At("getrsp")' PROVE cmdQ' = << >> /\ cmd' = "peek"
    <3>1. prog[1] = "joincmd"
      BY <1>0, <1>a, <2>0, <2>2, LeavesIs
    <3>2. cmdQ = << >> /\ At("joincmd")
      BY <1>0, <1>1, <2>0, <3>1, JoinedIs, AtIs DEF Passes
    <3> QED BY <1>0, <3>2 DEF Peeking
  <2> QED BY <2>1, <2>2 DEF Peeking
<1>2. CASE Sets
  <2>0. prog # << >> /\ prog' = Tail(prog) /\ prog[1] \in {"uninstance", "clear", "instance"}
    BY <1>2 DEF Sets
  <2>1. ~At("joincmd")' /\ ~At("getrsp")'
    BY <1>0, <1>a, <2>0, LeavesIs
  <2> QED BY <2>1 DEF Peeking
<1>3. CASE Quits
  <2>1. ~At("joincmd")' /\ ~At("getrsp")'
    BY <1>3, <1>a, QuitsIs
  <2> QED BY <2>1 DEF Peeking
<1>4. CASE Expands
  <2>1. Shaped(prog', call) /\ \E s \in {Joining, Interrupting, Stopping, WaitingMore, KillBody} : Replaces(s)
    BY <1>4, ExpandsIs
  <2>2. prog'[1] \in {"join", "instanced?", "sigstop", "wait", "ensure"}
    BY <1>0, <2>1, ReplacesIs
  <2>3. ~At("joincmd")' /\ ~At("getrsp")'
    BY <1>a, <2>2
  <2> QED BY <2>3 DEF Peeking
<1>5. CASE \E c \in Calls : Begins(c)
  <2>1. prog' # << >> /\ prog'[1] \in {"instanced?", "kill?", "ensure", "terminate"}
    BY <1>5, FreshBody, CallsAssumption DEF Begins, Fresh
  <2>2. ~At("joincmd")' /\ ~At("getrsp")'
    BY <1>a, <2>1
  <2> QED BY <2>2 DEF Peeking
<1> QED BY <1>1, <1>2, <1>3, <1>4, <1>5 DEF Moves

LEMMA MovesSafe ==
    ASSUME IndInv, SafeInv, Moves, Undisturbed, prog' \in Seq(Ops) PROVE SafeInv'
<1>1. Kept'
  BY KeptSame, MovesQueue DEF SafeInv
<1>2. Served'
  BY ServedMain, MovesQueue, SameQueue DEF SafeInv
<1>3. Shaped(prog', call') /\ Promise' /\ Visible' /\ Waiting' /\ Continued' /\ Attended'
  BY ShapedMoves, PromiseMoves, VisibleMoves, WaitingMoves, ContinuedMoves, AttendedMoves
<1>4. Killing' /\ Returned' /\ Peeking'
  BY KillingMoves, ReturnedMoves, PeekingMoves
<1> QED BY <1>1, <1>2, <1>3, <1>4 DEF SafeInv

-------------------------------------------------------------------------------
(* The script puts a command. *)

LEMMA PutIs ==
    ASSUME IndInv, SafeInv, Undisturbed, NEW c \in Commands, Puts(c)
    PROVE  /\ prog \in Seq(Ops) /\ Shaped(prog, call) /\ prog # << >> /\ prog[1] = c
           /\ prog' = Tail(prog) /\ prog' \in Seq(Ops) /\ \A op : At(op) => c = op
           /\ Len(cmdQ) \in Nat /\ Len(cmdQ') = Len(cmdQ) + 1 /\ cmdQ' # << >>
           /\ DOMAIN cmdQ = 1..Len(cmdQ) /\ DOMAIN cmdQ' = 1..(Len(cmdQ) + 1)
           /\ cmdQ'[Len(cmdQ) + 1] = c /\ \A i \in 1..Len(cmdQ) : cmdQ'[i] = cmdQ[i]
           /\ Working' = Working /\ Busy' = Busy /\ Quiet' = Quiet
           /\ UNCHANGED <<ppc, cmd, ret, proc, call, outcome, instanced, is_running, threads>>
           /\ \A cs : Queued(cs)' <=> Queued(cs) \/ c \in cs
           /\ \A op : At(op)' <=> prog' # << >> /\ prog'[1] = op
<1>1. /\ prog \in Seq(Ops) /\ Shaped(prog, call) /\ prog # << >> /\ prog[1] = c
      /\ prog' = Tail(prog) /\ cmdQ \in Seq(Commands)
  BY DEF IndInv, TypeOK, Ops, SafeInv, Puts
<1>2. prog' \in Seq(Ops) /\ \A op : At(op) => c = op
  BY <1>1, AtIs
<1>3. /\ Len(cmdQ) \in Nat /\ Len(cmdQ') = Len(cmdQ) + 1 /\ cmdQ' # << >>
      /\ DOMAIN cmdQ = 1..Len(cmdQ) /\ DOMAIN cmdQ' = 1..(Len(cmdQ) + 1)
      /\ cmdQ'[Len(cmdQ) + 1] = c /\ \A i \in 1..Len(cmdQ) : cmdQ'[i] = cmdQ[i]
  BY <1>1, AppendIs DEF Puts
<1>4. /\ Working' = Working /\ Busy' = Busy /\ Quiet' = Quiet
      /\ UNCHANGED <<ppc, cmd, ret, proc, call, outcome, instanced, is_running, threads>>
  BY DEF Undisturbed, Puts, Working, Busy, Quiet
<1>5. \A cs : Queued(cs)' <=> Queued(cs) \/ c \in cs
  <2>1. ASSUME NEW cs, Queued(cs) PROVE Queued(cs)'
    BY <1>3, <2>1 DEF Queued
  <2>2. ASSUME NEW cs, c \in cs PROVE Queued(cs)'
    <3>1. Len(cmdQ) + 1 \in DOMAIN cmdQ'
      BY <1>3
    <3> QED BY <1>3, <2>2, <3>1 DEF Queued
  <2>3. ASSUME NEW cs, Queued(cs)' PROVE Queued(cs) \/ c \in cs
    <3>1. PICK j \in DOMAIN cmdQ' : cmdQ'[j] \in cs
      BY <2>3 DEF Queued
    <3>2. j = Len(cmdQ) + 1 \/ j \in DOMAIN cmdQ
      BY <1>3, <3>1
    <3> QED BY <1>3, <3>1, <3>2 DEF Queued
  <2> QED BY <2>1, <2>2, <2>3
<1>6. \A op : At(op)' <=> prog' # << >> /\ prog'[1] = op
  BY <1>2 DEF At
<1> QED BY <1>1, <1>2, <1>3, <1>4, <1>5, <1>6

(* What is left after a command that sets the tracee going. *)
LEMMA MovingPut ==
    ASSUME IndInv, SafeInv, Undisturbed, NEW c \in Moving, Puts(c)
    PROVE  /\ instanced /\ threads
           /\ c = "cont" => prog' = <<"join", "wait">>
           /\ c = "step" => prog' = <<"wait", "join">>
           /\ c = "wait" => (prog' = << >> /\ call = "cont" /\ prog = <<"wait">>)
                            \/ (prog' # << >> /\ prog'[1] = "join")
           /\ ~Unguarded(prog', Guarded, Checks)
<1>1. c \in Commands
  BY DEF Moving, Commands
<1>2. prog \in Seq(Ops) /\ Shaped(prog, call) /\ prog # << >> /\ prog[1] = c /\ prog' = Tail(prog)
      /\ prog' \in Seq(Ops)
  BY <1>1, PutIs
<1>3. instanced /\ threads
  <2>1. Unguarded(prog, Instanced, {"instanced?"}) /\ Unguarded(prog, Populated, {"alive?"})
    BY <1>2, UnguardedFirst DEF Instanced, Populated
  <2> QED BY <2>1 DEF SafeInv, Promise
<1>4. /\ c = "cont" => prog' = <<"join", "wait">>
      /\ c = "step" => prog' = <<"wait", "join">>
      /\ c = "wait" => (prog' = << >> /\ call = "cont") \/ (prog' # << >> /\ prog'[1] = "join")
  BY <1>2, LeavesIs
<1>5. c = "wait" /\ prog' = << >> => prog = <<"wait">>
  <2> DEFINE t == Tail(prog)
  <2>1. Len(t) = Len(prog) - 1 /\ Len(prog) \in Nat /\ prog' = t
    BY <1>2, TailIs
  <2> HIDE DEF t
  <2>2. ASSUME prog' = << >> PROVE Len(prog) = 1
    <3>1. Len(t) = 0
      BY <2>1, <2>2
    <3> QED BY <2>1, <3>1
  <2> QED BY <1>2, <2>2, ShortIs
<1>6. ~Unguarded(prog', Guarded, Checks)
  <2>1. CASE prog' # << >> /\ prog'[1] = "join"
    <3>1. 1 \in 1..Len(prog') /\ prog'[1] \in Checks /\ \A i \in 1..1 : prog'[i] \notin Guarded
      BY <1>2, <2>1 DEF Checks, Guarded, Access, Starting
    <3> QED BY <1>2, <3>1, GuardedBy
  <2>2. CASE prog' = << >> \/ prog' = <<"wait", "join">>
    <3>1. \A i \in 1..Len(prog') : prog'[i] \notin Guarded
      BY <2>2 DEF Guarded, Access, Starting
    <3> QED BY <1>2, <3>1, NoneOf
  <2>3. prog' = <<"join", "wait">> => prog' # << >> /\ prog'[1] = "join"
    OBVIOUS
  <2> QED BY <1>4, <2>1, <2>2, <2>3 DEF Moving
<1> QED BY <1>3, <1>4, <1>5, <1>6

LEMMA PromisePuts ==
    ASSUME IndInv, SafeInv, Undisturbed, NEW c \in Commands, Puts(c) PROVE Promise'
<1>0. /\ prog \in Seq(Ops) /\ Shaped(prog, call) /\ prog # << >> /\ prog[1] = c /\ prog' = Tail(prog)
      /\ \A op : At(op)' <=> prog' # << >> /\ prog'[1] = op
      /\ UNCHANGED <<instanced, threads>>
  BY PutIs
<1>p. Promise /\ cmdQ \in Seq(Commands)
  BY DEF SafeInv, IndInv, TypeOK
<1>c. (c \notin Moving /\ Calm => Calm') /\ (c = "kill" => Calm')
  BY <1>p, CalmPut DEF Undisturbed, Puts
<1>1. Unguarded(prog', Guarded, Checks) => Calm'
  <2>1. CASE c \in Moving
    BY <2>1, MovingPut
  <2>2. CASE c \notin Moving /\ c # "kill"
    <3>1. c \notin Checks
      BY <2>2 DEF Checks, Commands
    <3> QED BY <1>0, <1>p, <1>c, <2>2, <3>1, UnguardedTail DEF Promise
  <2> QED BY <1>c, <2>1, <2>2
<1>2. c # "instanced?" /\ c # "alive?"
  BY DEF Commands
<1>3. Unguarded(prog', Instanced, {"instanced?"}) => instanced
  BY <1>0, <1>p, <1>2, UnguardedTail DEF Promise
<1>4. Unguarded(prog', Populated, {"alive?"}) => threads
  BY <1>0, <1>p, <1>2, UnguardedTail DEF Promise
<1>5. ~At("instance")'
  BY <1>0, LeavesIs DEF Commands
<1> QED BY <1>0, <1>1, <1>3, <1>4, <1>5 DEF Promise

LEMMA VisiblePuts ==
    ASSUME IndInv, SafeInv, Undisturbed, NEW c \in Commands, Puts(c) PROVE Visible'
<1>0. /\ prog # << >> /\ prog[1] = c /\ \A op : At(op) => c = op
      /\ \A op : At(op)' <=> prog' # << >> /\ prog'[1] = op
      /\ UNCHANGED <<instanced, is_running, threads>>
  BY PutIs
<1>p. Visible /\ Continued /\ cmdQ \in Seq(Commands)
  BY DEF SafeInv, IndInv, TypeOK
<1>c. (c \notin Moving /\ Calm => Calm') /\ (c = "kill" => Calm')
  BY <1>p, CalmPut DEF Undisturbed, Puts
<1>1. CASE c \in Moving
  <2>1. /\ instanced /\ threads
        /\ c = "cont" => prog' = <<"join", "wait">>
        /\ c = "step" => prog' = <<"wait", "join">>
        /\ c = "wait" => (prog' = << >> /\ call = "cont" /\ prog = <<"wait">>)
                         \/ (prog' # << >> /\ prog'[1] = "join")
    BY <1>1, MovingPut
  <2>2. At("join")' \/ At("wait")' \/ is_running
    <3>1. CASE prog = <<"wait">>
      BY <1>p, <3>1 DEF Continued
    <3>2. CASE prog # <<"wait">>
      BY <1>0, <1>1, <2>1, <3>2 DEF Moving
    <3> QED BY <3>1, <3>2
  <2> QED BY <1>0, <2>1, <2>2 DEF Visible
<1>2. CASE c \notin Moving
  <2>1. ~At("join") /\ ~At("wait")
    BY <1>0, <1>2 DEF Commands, Moving
  <2> QED BY <1>0, <1>p, <1>c, <1>2, <2>1 DEF Visible
<1> QED BY <1>1, <1>2

LEMMA KeptPuts ==
    ASSUME IndInv, SafeInv, Undisturbed, NEW c \in Commands, Puts(c) PROVE Kept'
<1>0. /\ prog \in Seq(Ops) /\ prog # << >> /\ prog[1] = c
      /\ Len(cmdQ) \in Nat /\ DOMAIN cmdQ = 1..Len(cmdQ) /\ DOMAIN cmdQ' = 1..(Len(cmdQ) + 1)
      /\ cmdQ'[Len(cmdQ) + 1] = c /\ \A i \in 1..Len(cmdQ) : cmdQ'[i] = cmdQ[i]
      /\ Working' = Working /\ Quiet' = Quiet /\ cmd' = cmd
  BY PutIs
<1>p. Kept /\ Promise /\ cmdQ \in Seq(Commands)
  BY DEF SafeInv, IndInv, TypeOK
<1>c. \A i \in 1..(Len(cmdQ) + 1) : CalmAt(i) => CalmAt(i)'
  BY <1>p, CalmPut DEF Undisturbed, Puts
<1>1. ASSUME NEW i \in DOMAIN cmdQ', cmdQ'[i] \in Access \cup Starting PROVE CalmAt(i)'
  <2>1. CASE i \in 1..Len(cmdQ)
    <3>1. CalmAt(i)
      BY <1>0, <1>p, <1>1, <2>1 DEF Kept
    <3> QED BY <1>0, <1>1, <1>c, <3>1
  <2>2. CASE i = Len(cmdQ) + 1
    <3>1. Unguarded(prog, Guarded, Checks)
      BY <1>0, <1>1, <2>2, UnguardedFirst DEF Guarded
    <3>2. CalmAt(i)
      BY <1>p, <2>2, <3>1 DEF Promise, Calm
    <3> QED BY <1>0, <1>1, <1>c, <3>2
  <2> QED BY <1>0, <1>1, <2>1, <2>2
<1> QED BY <1>0, <1>1, <1>p DEF Kept

LEMMA WaitingPuts ==
    ASSUME IndInv, SafeInv, Undisturbed, NEW c \in Commands, Puts(c) PROVE Waiting'
<1>0. /\ prog \in Seq(Ops) /\ Shaped(prog, call) /\ prog # << >> /\ prog[1] = c /\ prog' = Tail(prog)
      /\ \A op : At(op) => c = op
      /\ Len(cmdQ) \in Nat /\ Len(cmdQ') = Len(cmdQ) + 1
      /\ DOMAIN cmdQ = 1..Len(cmdQ) /\ DOMAIN cmdQ' = 1..(Len(cmdQ) + 1)
      /\ cmdQ'[Len(cmdQ) + 1] = c /\ \A i \in 1..Len(cmdQ) : cmdQ'[i] = cmdQ[i]
      /\ Working' = Working /\ Busy' = Busy /\ UNCHANGED <<ppc, cmd>>
      /\ \A cs : Queued(cs)' <=> Queued(cs) \/ c \in cs
      /\ \A op : At(op)' <=> prog' # << >> /\ prog'[1] = op
  BY PutIs
<1>w. Waiting /\ Continued
  BY DEF SafeInv
<1>l. /\ c = "cont" => prog' = <<"join", "wait">>
      /\ c = "step" => prog' = <<"wait", "join">>
      /\ c = "terminate" => prog' = <<"jointhread">>
      /\ c \in Starting => prog' # << >> /\ prog'[1] \in {"join", "set"}
      /\ c = "set" => prog' # << >> /\ prog'[1] = "join"
  BY <1>0, LeavesIs
<1>h. /\ prog # <<"join", "wait">> /\ prog # <<"join">> /\ prog # <<"jointhread">> /\ ~At("join")
      /\ prog = <<"wait", "join">> => c = "wait" /\ prog' = <<"join">>
  <2>1. c \notin {"join", "jointhread"}
    BY DEF Commands
  <2>2. ASSUME prog = <<"wait", "join">> PROVE c = "wait" /\ prog' = <<"join">>
    BY <1>0, <2>2
  <2> QED BY <1>0, <2>1, <2>2
<1>d. \A j \in DOMAIN cmdQ' : j = Len(cmdQ) + 1 \/ (j \in DOMAIN cmdQ /\ cmdQ'[j] = cmdQ[j])
  BY <1>0
<1>1. ASSUME NEW j \in DOMAIN cmdQ', cmdQ'[j] = "cont"
      PROVE  j = Len(cmdQ') /\ prog' = <<"join", "wait">>
  <2>1. ~(j \in DOMAIN cmdQ /\ cmdQ'[j] = cmdQ[j])
    BY <1>1, <1>w, <1>h DEF Waiting
  <2>2. j = Len(cmdQ) + 1
    BY <1>1, <1>d, <2>1
  <2> QED BY <1>0, <1>1, <1>l, <2>2
<1>2. ~(Working' /\ cmd' = "cont")
  BY <1>0, <1>w, <1>h DEF Waiting
<1>3. ASSUME NEW j \in DOMAIN cmdQ', cmdQ'[j] = "step" PROVE Stepped(Len(cmdQ) - j)'
  <2>1. CASE j = Len(cmdQ) + 1
    <3>1. Len(cmdQ') - j = 0 /\ prog' = <<"wait", "join">>
      BY <1>0, <1>3, <1>l, <2>1
    <3> QED BY <3>1 DEF Stepped
  <2>2. CASE j \in DOMAIN cmdQ /\ cmdQ'[j] = cmdQ[j]
    <3>1. Stepped(Len(cmdQ) - j)
      BY <1>3, <1>w, <2>2 DEF Waiting
    <3>2. Len(cmdQ) - j = 0 /\ prog = <<"wait", "join">>
      BY <1>h, <3>1 DEF Stepped
    <3>3. Len(cmdQ') - j = 1 /\ cmdQ'[Len(cmdQ')] = "wait" /\ prog' = <<"join">>
      BY <1>0, <1>h, <2>2, <3>2
    <3> QED BY <3>3 DEF Stepped
  <2> QED BY <1>3, <1>d, <2>1, <2>2
<1>4. ASSUME Working', cmd' = "step" PROVE Stepped(Len(cmdQ))'
  <2>1. Stepped(Len(cmdQ))
    BY <1>0, <1>4, <1>w DEF Waiting
  <2>2. Len(cmdQ) = 0 /\ prog = <<"wait", "join">>
    BY <1>h, <2>1 DEF Stepped
  <2>3. Len(cmdQ') = 1 /\ cmdQ'[Len(cmdQ')] = "wait" /\ prog' = <<"join">>
    BY <1>0, <1>h, <2>2
  <2> QED BY <2>3 DEF Stepped
<1>5. ASSUME NEW j \in DOMAIN cmdQ', cmdQ'[j] = "wait"
      PROVE  At("join")' \/ (j = 1 /\ ~Busy') \/ \E k \in DOMAIN cmdQ' : k > j /\ cmdQ'[k] = "kill"
  <2>1. CASE j = Len(cmdQ) + 1
    <3>1. c = "wait" /\ c \in Moving
      BY <1>0, <1>5, <2>1 DEF Moving
    <3>2. (prog' = << >> /\ call = "cont" /\ prog = <<"wait">>) \/ (prog' # << >> /\ prog'[1] = "join")
      BY <3>1, MovingPut
    <3>3. CASE prog' # << >> /\ prog'[1] = "join"
      BY <1>0, <3>3
    <3>4. CASE prog = <<"wait">>
      <4>1. cmdQ = << >> /\ ~Busy
        BY <1>w, <3>4 DEF Continued
      <4>2. Len(cmdQ) = 0
        BY <4>1
      <4> QED BY <1>0, <2>1, <4>1, <4>2
    <3> QED BY <3>2, <3>3, <3>4
  <2>2. CASE j \in DOMAIN cmdQ /\ cmdQ'[j] = cmdQ[j]
    <3>1. (j = 1 /\ ~Busy) \/ \E k \in DOMAIN cmdQ : k > j /\ cmdQ[k] = "kill"
      BY <1>5, <1>w, <1>h, <2>2 DEF Waiting
    <3>2. CASE j = 1 /\ ~Busy
      BY <1>0, <3>2
    <3>3. CASE \E k \in DOMAIN cmdQ : k > j /\ cmdQ[k] = "kill"
      BY <1>0, <3>3
    <3> QED BY <3>1, <3>2, <3>3
  <2> QED BY <1>5, <1>d, <2>1, <2>2
<1>6. ASSUME Queued(Starting)' \/ (Working' /\ cmd' \in Starting) PROVE At("join")' \/ At("set")'
  <2>1. CASE c \in Starting
    BY <1>0, <1>l, <2>1
  <2>2. CASE c \notin Starting
    <3>1. At("set")
      BY <1>0, <1>6, <1>w, <1>h, <2>2 DEF Waiting
    <3> QED BY <1>0, <1>l, <3>1
  <2> QED BY <2>1, <2>2
<1>7. ASSUME NEW j \in DOMAIN cmdQ', cmdQ'[j] = "terminate"
      PROVE  j = Len(cmdQ') /\ prog' = <<"jointhread">>
  <2>1. ~(j \in DOMAIN cmdQ /\ cmdQ'[j] = cmdQ[j])
    BY <1>7, <1>w, <1>h DEF Waiting
  <2>2. j = Len(cmdQ) + 1
    BY <1>7, <1>d, <2>1
  <2> QED BY <1>0, <1>7, <1>l, <2>2
<1>8. ppc' # "ended"
  BY <1>0, <1>w, <1>h DEF Waiting
<1> QED BY <1>1, <1>2, <1>3, <1>4, <1>5, <1>6, <1>7, <1>8 DEF Waiting

LEMMA ContinuedPuts ==
    ASSUME IndInv, SafeInv, Undisturbed, NEW c \in Commands, Puts(c) PROVE Continued'
<1>0. /\ prog \in Seq(Ops) /\ Shaped(prog, call) /\ prog # << >> /\ prog[1] = c /\ prog' = Tail(prog)
      /\ \A cs : Queued(cs)' <=> Queued(cs) \/ c \in cs
  BY PutIs
<1>1. prog' = <<"join", "wait">> => Queued({"cont"})'
  BY <1>0, LeavesIs
<1>2. prog' # <<"wait">>
  <2> SUFFICES ASSUME prog' = <<"wait">> PROVE FALSE
    OBVIOUS
  <2>1. prog' # << >> /\ prog'[1] = "wait" /\ prog' # <<"wait", "join">>
    OBVIOUS
  <2>2. prog # <<"join", "wait">>
    BY <1>0 DEF Commands
  <2>3. c = "step"
    BY <1>0, <2>1, <2>2, LeavesIs, ZenonT(45)
  <2>4. prog' = <<"wait", "join">>
    BY <1>0, <2>3, LeavesIs
  <2> QED BY <2>1, <2>4
<1> QED BY <1>1, <1>2 DEF Continued

LEMMA AttendedPuts ==
    ASSUME IndInv, SafeInv, Undisturbed, NEW c \in Commands, Puts(c) PROVE Attended'
<1>0. /\ prog # << >> /\ prog[1] = c /\ Working' = Working /\ Quiet' = Quiet /\ cmd' = cmd
      /\ \A cs : Queued(cs)' <=> Queued(cs) \/ c \in cs
  BY PutIs
<1>1. prog # <<"join", "wait">>
  BY <1>0 DEF Commands
<1>2. prog = <<"wait">> \/ prog = <<"wait", "join">> => c = "wait"
  BY <1>0
<1> QED BY <1>0, <1>1, <1>2 DEF SafeInv, Attended

LEMMA KillingPuts ==
    ASSUME IndInv, SafeInv, Undisturbed, NEW c \in Commands, Puts(c) PROVE Killing'
<1>0. /\ prog \in Seq(Ops) /\ Shaped(prog, call) /\ prog # << >> /\ prog[1] = c /\ prog' = Tail(prog)
      /\ \A op : At(op) => c = op
      /\ Len(cmdQ) \in Nat /\ DOMAIN cmdQ = 1..Len(cmdQ) /\ DOMAIN cmdQ' = 1..(Len(cmdQ) + 1)
      /\ cmdQ'[Len(cmdQ) + 1] = c /\ \A i \in 1..Len(cmdQ) : cmdQ'[i] = cmdQ[i]
      /\ Working' = Working /\ cmd' = cmd /\ UNCHANGED <<instanced, threads>>
      /\ \A cs : Queued(cs)' <=> Queued(cs) \/ c \in cs
      /\ \A op : At(op)' <=> prog' # << >> /\ prog'[1] = op
  BY PutIs
<1>k. Killing /\ Waiting
  BY DEF SafeInv
<1>u. ~At("uninstance") /\ ~At("join") /\ (c = "kill" => ~At("set"))
  BY <1>0 DEF Commands
<1>1. ASSUME Queued({"kill"})' \/ (Working' /\ cmd' = "kill")
      PROVE  ~instanced' \/ ~threads' \/ At("uninstance")'
  <2>1. CASE c = "kill"
    BY <1>0, <2>1, LeavesIs
  <2>2. CASE c # "kill"
    BY <1>0, <1>1, <1>k, <1>u, <2>2 DEF Killing
  <2> QED BY <2>1, <2>2
<1>2. c = "kill" => ~Queued(Starting) /\ ~(Working /\ cmd \in Starting)
  BY <1>k, <1>u DEF Waiting
<1>3. ASSUME NEW j \in DOMAIN cmdQ', NEW k \in DOMAIN cmdQ', j < k, cmdQ'[j] \in Starting
      PROVE  cmdQ'[k] # "kill"
  <2>1. j \in DOMAIN cmdQ /\ cmdQ[j] \in Starting /\ Queued(Starting)
    BY <1>0, <1>3 DEF Queued
  <2>2. CASE k = Len(cmdQ) + 1
    BY <1>0, <1>2, <2>1, <2>2
  <2>3. CASE k \in DOMAIN cmdQ
    BY <1>0, <1>3, <1>k, <2>1, <2>3 DEF Killing
  <2> QED BY <1>0, <1>3, <2>2, <2>3
<1>4. Working' /\ cmd' \in Starting => ~Queued({"kill"})'
  BY <1>0, <1>2, <1>k DEF Killing
<1> QED BY <1>1, <1>3, <1>4 DEF Killing

LEMMA ReturnedPuts ==
    ASSUME IndInv, SafeInv, Undisturbed, NEW c \in Commands, Puts(c) PROVE Returned'
<1>0. /\ prog \in Seq(Ops) /\ Shaped(prog, call) /\ prog # << >> /\ prog[1] = c /\ prog' = Tail(prog)
      /\ Working' = Working /\ Quiet' = Quiet /\ UNCHANGED <<cmd, call, outcome>>
      /\ \A cs : Queued(cs)' <=> Queued(cs) \/ c \in cs
      /\ prog' \in Seq(Ops)
  BY PutIs
<1>r. Returned /\ outcome = "ok"
  BY <1>0 DEF SafeInv, Returned
<1>1. CASE \E i \in DOMAIN prog : prog[i] \in Closers
  <2> DEFINE t == Tail(prog)
  <2>1. /\ Len(prog) \in Nat \ {0} /\ DOMAIN prog = 1..Len(prog) /\ DOMAIN t = 1..(Len(prog) - 1)
        /\ \A i \in 1..(Len(prog) - 1) : t[i] = prog[i + 1]
    BY <1>0, TailIs
  <2>2. prog' = t
    BY <1>0
  <2> HIDE DEF t
  <2>3. PICK i \in DOMAIN prog : prog[i] \in Closers
    BY <1>1
  <2>6. i # 1
    BY <1>0, <2>3 DEF Closers, Commands
  <2>4. i - 1 \in DOMAIN t /\ (i - 1) + 1 = i
    BY <2>1, <2>3, <2>6
  <2>5. t[i - 1] = prog[(i - 1) + 1]
    BY <2>1, <2>4
  <2>7. \E j \in DOMAIN prog' : prog'[j] \in Closers
    BY <2>2, <2>3, <2>4, <2>5
  <2> QED BY <1>0, <1>r, <2>7 DEF Returned
<1>2. CASE call \in {"cont", "none"}
  BY <1>0, <1>2, <1>r DEF Returned
<1>3. CASE AtRest /\ call \notin {"cont", "none"}
  <2>1. CASE c \notin Moving
    <3>1. AtRest'
      BY <1>0, <1>3, <2>1 DEF AtRest
    <3> QED BY <1>0, <1>r, <3>1 DEF Returned
  <2>2. CASE c \in Moving
    <3>1. prog' # << >> /\ (prog'[1] = "join" \/ prog' = <<"wait", "join">>)
      BY <1>3, <2>2, MovingPut DEF Moving
    <3>2. \E j \in DOMAIN prog' : prog'[j] \in Closers
      <4>1. CASE prog'[1] = "join"
        <5>1. 1 \in DOMAIN prog'
          BY <1>0, <3>1
        <5> QED BY <4>1, <5>1 DEF Closers
      <4>2. CASE prog' = <<"wait", "join">>
        <5>1. 2 \in DOMAIN prog' /\ prog'[2] = "join"
          BY <4>2
        <5> QED BY <5>1 DEF Closers
      <4> QED BY <3>1, <4>1, <4>2
    <3> QED BY <1>0, <1>r, <3>2 DEF Returned
  <2> QED BY <2>1, <2>2
<1> QED BY <1>r, <1>1, <1>2, <1>3 DEF Returned

LEMMA PeekingPuts ==
    ASSUME IndInv, SafeInv, Undisturbed, NEW c \in Commands, Puts(c) PROVE Peeking'
<1>0. /\ prog \in Seq(Ops) /\ Shaped(prog, call) /\ prog # << >> /\ prog[1] = c /\ prog' = Tail(prog)
      /\ cmdQ' # << >> /\ Len(cmdQ') = Len(cmdQ) + 1 /\ cmdQ'[Len(cmdQ) + 1] = c
      /\ \A op : At(op)' <=> prog' # << >> /\ prog'[1] = op
  BY PutIs
<1>1. At("joincmd")' => cmdQ'[Len(cmdQ')] = "peek"
  BY <1>0, LeavesIs
<1>2. ~At("getrsp")'
  <2>1. c # "joincmd"
    BY DEF Commands
  <2> QED BY <1>0, <2>1, LeavesIs
<1> QED BY <1>0, <1>1, <1>2 DEF Peeking

LEMMA PutsSafe ==
    ASSUME IndInv, SafeInv, Undisturbed, NEW c \in Commands, Puts(c) PROVE SafeInv'
<1>1. Served'
  BY PutIs, ServedMain DEF SafeInv
<1>2. Shaped(prog', call')
  BY PutIs, ShapedTail
<1>3. Promise' /\ Visible' /\ Kept' /\ Waiting' /\ Continued' /\ Attended'
  BY PromisePuts, VisiblePuts, KeptPuts, WaitingPuts, ContinuedPuts, AttendedPuts
<1>4. Killing' /\ Returned' /\ Peeking'
  BY KillingPuts, ReturnedPuts, PeekingPuts
<1> QED BY <1>1, <1>2, <1>3, <1>4 DEF SafeInv

LEMMA MainSafe == ASSUME IndInv, SafeInv, Main PROVE SafeInv'
<1>1. prog \in Seq(Ops) /\ prog' \in Seq(Ops)
  BY MainScript DEF IndInv, TypeOK, Ops, ScriptType
<1>2. Undisturbed
  BY MainUndisturbed
<1>3. Moves \/ \E c \in Commands : Puts(c)
  BY <1>1, MainCases DEF Moves
<1> QED BY <1>1, <1>2, <1>3, MovesSafe, PutsSafe

-------------------------------------------------------------------------------
(* The polling thread takes a command. *)

(* What the method relies on does not depend on who moves. *)
LEMMA SettledPromise ==
    ASSUME SafeInv, UNCHANGED <<call, prog, instanced>>, Calm => Calm',
           threads' = threads \/ (threads' /\ ~At("instance"))
    PROVE  Shaped(prog', call') /\ Promise' /\ \A op : At(op)' <=> At(op)
<1>1. \A op : At(op)' <=> At(op)
  BY DEF At
<1>2. Promise
  BY DEF SafeInv
<1>3. /\ Unguarded(prog', Guarded, Checks) => Calm'
      /\ Unguarded(prog', Instanced, {"instanced?"}) => instanced'
  BY <1>2 DEF Promise
<1>4. Unguarded(prog', Populated, {"alive?"}) => threads'
  BY <1>2 DEF Promise
<1>5. At("instance")' => ~threads'
  BY <1>1, <1>2 DEF Promise
<1>6. Promise'
  BY <1>3, <1>4, <1>5 DEF Promise
<1> QED BY <1>1, <1>6 DEF SafeInv

LEMMA GetIs ==
    ASSUME IndInv, PollGet
    PROVE  /\ Len(cmdQ) \in Nat \ {0} /\ Len(cmdQ') = Len(cmdQ) - 1 /\ cmdQ # << >>
           /\ cmdQ' \in Seq(Commands)
           /\ DOMAIN cmdQ = 1..Len(cmdQ) /\ DOMAIN cmdQ' = 1..(Len(cmdQ) - 1)
           /\ \A i \in 1..(Len(cmdQ) - 1) : cmdQ'[i] = cmdQ[i + 1]
           /\ ~Working /\ ~Busy /\ cmd' = cmdQ[1] /\ Quiet' = Quiet
           /\ \/ cmdQ[1] = "terminate" /\ ppc' = "ended" /\ ~Working' /\ ~Busy'
              \/ cmdQ[1] # "terminate" /\ ppc' = "exec" /\ Working' /\ Busy'
           /\ UNCHANGED <<call, outcome, prog, instanced, is_running, threads, dead, proc>>
           /\ rspQ' = << >>
           /\ \A cs : Queued(cs)' => Queued(cs)
           /\ \A cs : cmdQ[1] \in cs => Queued(cs)
           /\ \A cs : Queued(cs) => Queued(cs)' \/ cmdQ[1] \in cs
<1>1. /\ cmdQ # << >> /\ Len(cmdQ) \in Nat \ {0} /\ Len(cmdQ') = Len(cmdQ) - 1
      /\ cmdQ' \in Seq(Commands) /\ cmdQ[1] = Head(cmdQ)
      /\ DOMAIN cmdQ = 1..Len(cmdQ) /\ DOMAIN cmdQ' = 1..(Len(cmdQ) - 1)
      /\ \A i \in 1..(Len(cmdQ) - 1) : cmdQ'[i] = cmdQ[i + 1]
  BY RestIs DEF PollGet, IndInv, TypeOK
<1>2. /\ ~Working /\ ~Busy /\ cmd' = cmdQ[1] /\ Quiet' = Quiet
      /\ \/ cmdQ[1] = "terminate" /\ ppc' = "ended" /\ ~Working' /\ ~Busy'
         \/ cmdQ[1] # "terminate" /\ ppc' = "exec" /\ Working' /\ Busy'
      /\ UNCHANGED <<call, outcome, prog, instanced, is_running, threads, dead, proc>>
  BY <1>1 DEF PollGet, Working, Busy, Quiet, mainVars, flagVars, procVars
<1>3. rspQ' = << >>
  BY DEF PollGet, IndInv, QueueAccounting
<1>4. ASSUME NEW cs, Queued(cs)' PROVE Queued(cs)
  <2>1. PICK j \in DOMAIN cmdQ' : cmdQ'[j] \in cs
    BY <1>4 DEF Queued
  <2>2. j + 1 \in DOMAIN cmdQ /\ cmdQ[j + 1] \in cs
    BY <1>1, <2>1
  <2> QED BY <2>2 DEF Queued
<1>5. ASSUME NEW cs, cmdQ[1] \in cs PROVE Queued(cs)
  <2>1. 1 \in DOMAIN cmdQ
    BY <1>1
  <2> QED BY <1>5, <2>1 DEF Queued
<1>6. ASSUME NEW cs, Queued(cs), cmdQ[1] \notin cs PROVE Queued(cs)'
  <2>1. PICK j \in DOMAIN cmdQ : cmdQ[j] \in cs
    BY <1>6 DEF Queued
  <2>2. j # 1
    BY <1>6, <2>1
  <2>3. PICK k \in Int : k = j - 1
    BY <1>1, <2>1
  <2>4. k \in DOMAIN cmdQ' /\ k + 1 = j
    BY <1>1, <2>1, <2>2, <2>3
  <2>5. cmdQ'[k] \in cs
    BY <1>1, <2>1, <2>4
  <2> QED BY <2>4, <2>5 DEF Queued
<1> QED BY <1>1, <1>2, <1>3, <1>4, <1>5, <1>6

LEMMA WaitingGet ==
    ASSUME IndInv, SafeInv, PollGet PROVE Waiting'
<1>0. /\ Len(cmdQ) \in Nat \ {0} /\ Len(cmdQ') = Len(cmdQ) - 1 /\ cmdQ' \in Seq(Commands)
      /\ DOMAIN cmdQ = 1..Len(cmdQ) /\ DOMAIN cmdQ' = 1..(Len(cmdQ) - 1)
      /\ \A i \in 1..(Len(cmdQ) - 1) : cmdQ'[i] = cmdQ[i + 1]
      /\ cmd' = cmdQ[1]
      /\ \/ cmdQ[1] = "terminate" /\ ppc' = "ended" /\ ~Working' /\ ~Busy'
         \/ cmdQ[1] # "terminate" /\ ppc' = "exec" /\ Working' /\ Busy'
      /\ UNCHANGED <<call, outcome, prog>>
      /\ \A cs : Queued(cs)' => Queued(cs)
      /\ \A cs : cmdQ[1] \in cs => Queued(cs)
  BY GetIs
<1>w. Waiting /\ Returned /\ Shaped(prog, call)
  BY DEF SafeInv
<1>a. \A op : At(op)' <=> At(op)
  BY <1>0 DEF At
<1>d. \A j \in DOMAIN cmdQ' : j + 1 \in DOMAIN cmdQ /\ cmdQ'[j] = cmdQ[j + 1]
  BY <1>0
<1>e. 1 \in DOMAIN cmdQ
  BY <1>0
<1>1. ASSUME NEW j \in DOMAIN cmdQ', cmdQ'[j] = "cont"
      PROVE  j = Len(cmdQ') /\ prog' = <<"join", "wait">>
  <2>1. j + 1 = Len(cmdQ) /\ prog = <<"join", "wait">>
    BY <1>1, <1>d, <1>w DEF Waiting
  <2> QED BY <1>0, <1>1, <2>1
<1>z. ASSUME Len(cmdQ) = 1 PROVE cmdQ' = << >>
  <2>1. Len(cmdQ') = 0
    BY <1>0, <1>z
  <2> QED BY <1>0, <2>1
<1>2. ASSUME cmd' = "cont" PROVE cmdQ' = << >> /\ prog' = <<"join", "wait">>
  <2>1. 1 = Len(cmdQ) /\ prog = <<"join", "wait">>
    BY <1>0, <1>2, <1>e, <1>w DEF Waiting
  <2> QED BY <1>0, <1>z, <2>1
<1>s. ASSUME NEW n \in 0..1, Stepped(n), Len(cmdQ') >= n PROVE Stepped(n)'
  <2>1. CASE n = 0
    BY <1>0, <1>s, <2>1 DEF Stepped
  <2>2. CASE n = 1
    <3>1. cmdQ[Len(cmdQ)] = "wait" /\ prog = <<"join">>
      BY <1>s, <2>2 DEF Stepped
    <3>2. Len(cmdQ') \in DOMAIN cmdQ' /\ Len(cmdQ') + 1 = Len(cmdQ)
      BY <1>0, <1>s, <2>2
    <3>3. cmdQ'[Len(cmdQ')] = "wait"
      BY <1>d, <3>1, <3>2
    <3> QED BY <1>0, <2>2, <3>1, <3>3 DEF Stepped
  <2> QED BY <1>s, <2>1, <2>2
<1>3. ASSUME NEW j \in DOMAIN cmdQ', cmdQ'[j] = "step" PROVE Stepped(Len(cmdQ) - j)'
  <2>1. PICK n \in Int : n = Len(cmdQ) - (j + 1)
    BY <1>0, <1>3
  <2>2. Stepped(n)
    BY <1>3, <1>d, <1>w, <2>1 DEF Waiting
  <2>3. n \in 0..1
    BY <2>2 DEF Stepped
  <2>4. Len(cmdQ') - j = n /\ Len(cmdQ') >= n
    BY <1>0, <1>3, <2>1
  <2> QED BY <1>s, <2>2, <2>3, <2>4
<1>4. ASSUME cmd' = "step" PROVE Stepped(Len(cmdQ))'
  <2>1. PICK n \in Int : n = Len(cmdQ) - 1
    BY <1>0
  <2>2. Stepped(n)
    BY <1>0, <1>4, <1>e, <1>w, <2>1 DEF Waiting
  <2>3. n \in 0..1
    BY <2>2 DEF Stepped
  <2>4. Len(cmdQ') = n /\ Len(cmdQ') >= n
    BY <1>0, <2>1
  <2> QED BY <1>s, <2>2, <2>3, <2>4
<1>5. ASSUME NEW j \in DOMAIN cmdQ', cmdQ'[j] = "wait"
      PROVE  At("join")' \/ (j = 1 /\ ~Busy') \/ \E k \in DOMAIN cmdQ' : k > j /\ cmdQ'[k] = "kill"
  <2>1. At("join") \/ j + 1 = 1 \/ \E k \in DOMAIN cmdQ : k > j + 1 /\ cmdQ[k] = "kill"
    BY <1>5, <1>d, <1>w DEF Waiting
  <2>2. j + 1 # 1
    BY <1>0, <1>5
  <2>3. ASSUME NEW k \in DOMAIN cmdQ, k > j + 1, cmdQ[k] = "kill"
        PROVE  \E m \in DOMAIN cmdQ' : m > j /\ cmdQ'[m] = "kill"
    <3>1. PICK m \in Int : m = k - 1
      BY <1>0, <2>3
    <3>2. m \in DOMAIN cmdQ' /\ m > j /\ m + 1 = k
      BY <1>0, <1>5, <2>3, <3>1
    <3> QED BY <1>d, <2>3, <3>2
  <2> QED BY <1>a, <2>1, <2>2, <2>3
<1>6. ASSUME Queued(Starting)' \/ cmd' \in Starting PROVE At("join")' \/ At("set")'
  <2>1. Queued(Starting)
    BY <1>0, <1>6
  <2> QED BY <1>a, <1>w, <2>1 DEF Waiting
<1>7. ASSUME NEW j \in DOMAIN cmdQ', cmdQ'[j] = "terminate"
      PROVE  j = Len(cmdQ') /\ prog' = <<"jointhread">>
  <2>1. j + 1 = Len(cmdQ) /\ prog = <<"jointhread">>
    BY <1>7, <1>d, <1>w DEF Waiting
  <2> QED BY <1>0, <1>7, <2>1
<1>8. ASSUME ppc' = "ended"
      PROVE  cmdQ' = << >> /\ prog' = <<"jointhread">> /\ call' = "terminate" /\ outcome' = "ok"
  <2>1. 1 = Len(cmdQ) /\ prog = <<"jointhread">>
    BY <1>0, <1>8, <1>e, <1>w DEF Waiting
  <2>3. 1 \in DOMAIN prog /\ prog[1] = "jointhread" /\ prog # << >>
    BY <2>1
  <2>4. ShapeAt(prog, 1, call)
    BY <1>w, <2>3 DEF Shaped
  <2>5. call = "terminate" /\ outcome = "ok"
    BY <1>w, <2>3, <2>4 DEF ShapeAt, Returned
  <2> QED BY <1>0, <1>z, <2>1, <2>5
<1> QED BY <1>1, <1>2, <1>3, <1>4, <1>5, <1>6, <1>7, <1>8 DEF Waiting

LEMMA GetSafe ==
    ASSUME IndInv, SafeInv, PollGet PROVE SafeInv'
<1>0. /\ Len(cmdQ) \in Nat \ {0} /\ Len(cmdQ') = Len(cmdQ) - 1 /\ cmdQ' \in Seq(Commands)
      /\ cmdQ # << >>
      /\ DOMAIN cmdQ = 1..Len(cmdQ) /\ DOMAIN cmdQ' = 1..(Len(cmdQ) - 1)
      /\ \A i \in 1..(Len(cmdQ) - 1) : cmdQ'[i] = cmdQ[i + 1]
      /\ ~Working /\ cmd' = cmdQ[1] /\ Quiet' = Quiet
      /\ \/ cmdQ[1] = "terminate" /\ ppc' = "ended" /\ ~Working' /\ ~Busy'
         \/ cmdQ[1] # "terminate" /\ ppc' = "exec" /\ Working' /\ Busy'
      /\ UNCHANGED <<call, outcome, prog, instanced, is_running, threads, dead, proc>>
      /\ rspQ' = << >>
      /\ \A cs : Queued(cs)' => Queued(cs)
      /\ \A cs : cmdQ[1] \in cs => Queued(cs)
      /\ \A cs : Queued(cs) => Queued(cs)' \/ cmdQ[1] \in cs
  BY GetIs
<1>d. \A j \in DOMAIN cmdQ' : j + 1 \in DOMAIN cmdQ /\ cmdQ'[j] = cmdQ[j + 1]
  BY <1>0
<1>e. 1 \in DOMAIN cmdQ
  BY <1>0
<1>c. (\A i \in 1..Len(cmdQ) : CalmAt(i + 1) => CalmAt(i)') /\ (Calm => Calm')
  BY CalmGet DEF IndInv, TypeOK
<1>1. Shaped(prog', call') /\ Promise' /\ \A op : At(op)' <=> At(op)
  BY <1>0, <1>c, SettledPromise
<1>2. Visible'
  BY <1>0, <1>c, <1>1 DEF SafeInv, Visible
<1>3. Kept'
  <2>1. ASSUME NEW i \in DOMAIN cmdQ', cmdQ'[i] \in Access \cup Starting PROVE CalmAt(i)'
    <3>1. CalmAt(i + 1) /\ i \in 1..Len(cmdQ)
      BY <1>0, <1>d, <2>1 DEF SafeInv, Kept
    <3> QED BY <1>c, <3>1
  <2>2. ASSUME cmd' \in Access \cup Starting PROVE Quiet'
    <3>1. CalmAt(1)
      BY <1>0, <1>e, <2>2 DEF SafeInv, Kept
    <3>2. NowCalm
      BY <1>0, <3>1 DEF CalmAt
    <3> QED BY <1>0, <3>2 DEF NowCalm
  <2> QED BY <2>1, <2>2 DEF Kept
<1>4. Waiting'
  BY WaitingGet
<1>5. Continued'
  <2>1. prog' # <<"wait">>
    BY <1>0 DEF SafeInv, Continued
  <2>2. ASSUME prog' = <<"join", "wait">> PROVE Queued({"cont"})' \/ (Working' /\ cmd' = "cont")
    <3>1. Queued({"cont"})
      BY <1>0, <2>2 DEF SafeInv, Continued
    <3> QED BY <1>0, <3>1
  <2> QED BY <2>1, <2>2 DEF Continued
<1>6. Attended'
  <2>1. Queued({"kill", "wait"}) => Queued({"kill", "wait"})' \/ (Working' /\ cmd' \in {"kill", "wait"})
    BY <1>0
  <2> QED BY <1>0, <2>1 DEF SafeInv, Attended
<1>7. Served'
  BY <1>0 DEF SafeInv, Served
<1>8. Killing'
  <2>1. Queued({"kill"})' \/ cmd' = "kill" => ~instanced' \/ ~threads' \/ At("uninstance")'
    <3>1. Queued({"kill"})' \/ cmd' = "kill" => Queued({"kill"})
      BY <1>0
    <3> QED BY <1>0, <1>1, <3>1 DEF SafeInv, Killing
  <2>2. ASSUME NEW j \in DOMAIN cmdQ', NEW k \in DOMAIN cmdQ', j < k, cmdQ'[j] \in Starting
        PROVE  cmdQ'[k] # "kill"
    <3>1. j + 1 < k + 1 /\ cmdQ[j + 1] \in Starting /\ j + 1 \in DOMAIN cmdQ /\ k + 1 \in DOMAIN cmdQ
      BY <1>0, <1>d, <2>2
    <3>2. cmdQ[k + 1] # "kill"
      BY <3>1 DEF SafeInv, Killing
    <3> QED BY <1>d, <2>2, <3>2
  <2>3. ASSUME cmd' \in Starting PROVE ~Queued({"kill"})'
    <3>1. ASSUME NEW k \in DOMAIN cmdQ' PROVE cmdQ'[k] # "kill"
      <4>1. 1 < k + 1 /\ cmdQ[1] \in Starting /\ k + 1 \in DOMAIN cmdQ
        BY <1>0, <1>d, <2>3, <3>1
      <4>2. cmdQ[k + 1] # "kill"
        BY <1>e, <4>1 DEF SafeInv, Killing
      <4> QED BY <1>d, <3>1, <4>2
    <3> QED BY <3>1 DEF Queued
  <2> QED BY <2>1, <2>2, <2>3 DEF Killing
<1>9. Returned'
  <2>1. AtRest => AtRest'
    BY <1>0 DEF AtRest
  <2> QED BY <1>0, <2>1 DEF SafeInv, Returned
<1>10. Peeking'
  <2>1. ~At("getrsp")'
    BY <1>0, <1>1 DEF SafeInv, Peeking
  <2>2. ASSUME At("joincmd") PROVE cmdQ[Len(cmdQ)] = "peek"
    BY <1>0, <2>2 DEF SafeInv, Peeking
  <2>3. ASSUME At("joincmd"), cmdQ' = << >> PROVE cmd' = "peek"
    <3>1. Len(cmdQ') = 0
      BY <2>3
    <3>2. Len(cmdQ) = 1
      BY <1>0, <3>1
    <3> QED BY <1>0, <2>2, <2>3, <3>2
  <2>4. ASSUME At("joincmd"), cmdQ' # << >> PROVE cmdQ'[Len(cmdQ')] = "peek"
    <3>1. Len(cmdQ') # 0
      BY <1>0, <2>4
    <3>2. Len(cmdQ') \in DOMAIN cmdQ' /\ Len(cmdQ') + 1 = Len(cmdQ)
      BY <1>0, <3>1
    <3> QED BY <1>d, <2>2, <2>4, <3>2
  <2> QED BY <1>1, <2>1, <2>3, <2>4 DEF Peeking
<1> QED BY <1>1, <1>2, <1>3, <1>4, <1>5, <1>6, <1>7, <1>8, <1>9, <1>10 DEF SafeInv

-------------------------------------------------------------------------------
(* The polling thread and the tracee, between two commands or in the loop  *)
(* of __threaded_wait.                                                     *)

LEMMA StillSafe ==
    ASSUME SafeInv, Served',
           UNCHANGED <<call, outcome, prog, cmdQ, cmd, instanced, is_running, threads>>,
           Working' = Working, ~Busy => ~Busy', ppc' = "ended" => ppc = "ended",
           Quiet /\ ~(Working /\ cmd = "wait") => Quiet'
    PROVE  SafeInv'
<1>q. \A cs : Queued(cs)' <=> Queued(cs)
  BY DEF Queued
<1>n. NowCalm => NowCalm'
  BY DEF NowCalm, Moving
<1>c. (\A i : CalmAt(i) => CalmAt(i)') /\ (Calm => Calm')
  BY <1>n DEF Calm, CalmAt
<1>1. Shaped(prog', call') /\ Promise' /\ \A op : At(op)' <=> At(op)
  BY <1>c, SettledPromise
<1>2. Visible'
  BY <1>c, <1>1 DEF SafeInv, Visible
<1>3. Kept'
  BY <1>c DEF SafeInv, Kept, Access, Starting
<1>4. Waiting'
  <2>1. \A n : Stepped(n)' <=> Stepped(n)
    BY DEF Stepped
  <2> QED BY <1>1, <1>q, <2>1 DEF SafeInv, Waiting
<1>5. Continued'
  BY <1>q DEF SafeInv, Continued
<1>6. Attended'
  BY <1>q DEF SafeInv, Attended
<1>7. Killing'
  BY <1>q, <1>1 DEF SafeInv, Killing
<1>8. Returned'
  <2>1. AtRest => AtRest'
    BY <1>q DEF AtRest, Moving
  <2> QED BY <2>1 DEF SafeInv, Returned
<1>9. Peeking'
  BY <1>1 DEF SafeInv, Peeking
<1> QED BY <1>1, <1>2, <1>3, <1>4, <1>5, <1>6, <1>7, <1>8, <1>9 DEF SafeInv

LEMMA HandsServed ==
    ASSUME IndInv, SafeInv, PollRespond \/ PollTaskDone \/ PollJoinResponses PROVE Served'
<1>s. Served /\ QueueAccounting /\ PollingData /\ rspQ \in Seq(Response)
  BY DEF SafeInv, IndInv, TypeOK, Response
<1>1. /\ UNCHANGED <<cmdQ, cmd, ret, dead, proc>> /\ ppc' \in {"taskdone", "joinrsp", "get"}
      /\ ppc' = "taskdone" => ppc = "respond"
      /\ ppc' = "joinrsp" => ppc = "taskdone"
  BY DEF PollRespond, PollTaskDone, PollJoinResponses, mainVars, queueVars, flagVars, procVars
<1>2. Quiet' = Quiet /\ \A cs : Queued(cs)' <=> Queued(cs)
  BY <1>1 DEF Quiet, Queued
<1>4. ppc' \in {"taskdone", "joinrsp"} /\ ret' # "None" => Quiet' \/ Queued({"kill"})'
  BY <1>1, <1>2, <1>s DEF Served
<1>5. ASSUME rspQ' # << >> PROVE ret' # "None" /\ Head(rspQ').from = cmd'
  <2>1. CASE PollRespond
    <3>1. rspQ = << >> /\ ret # "None"
      BY <1>s, <2>1 DEF PollRespond, QueueAccounting, PollingData
    <3>2. rspQ' = <<[from |-> cmd, value |-> ret]>>
      BY <2>1, <3>1 DEF PollRespond
    <3> QED BY <1>1, <3>1, <3>2
  <2>2. CASE PollTaskDone \/ PollJoinResponses
    <3>1. rspQ' = rspQ
      BY <2>2 DEF PollTaskDone, PollJoinResponses, queueVars
    <3> QED BY <1>1, <1>5, <1>s, <3>1 DEF Served
  <2> QED BY <2>1, <2>2
<1> QED BY <1>1, <1>4, <1>5, <1>s DEF Served

LEMMA LoopsSafe ==
    ASSUME IndInv, SafeInv, Loops PROVE SafeInv'
<1>1. /\ Working /\ Working' /\ cmd = "wait" /\ cmd' = cmd /\ ret' = ret /\ rspQ' = rspQ
      /\ UNCHANGED <<call, outcome, prog, cmdQ, cmd, instanced, is_running, threads>>
      /\ ppc' = "decide" => Quiet'
      /\ dead' => proc' = "reaped"
  BY DEF Loops, scriptVars
<1>2. Busy /\ ppc' \in {"exec", "waitpid", "decide"}
  BY <1>1 DEF Busy, Working
<1>3. Served'
  BY <1>1, <1>2 DEF SafeInv, Served
<1> QED BY <1>1, <1>2, <1>3, StillSafe

LEMMA TraceeSafe ==
    ASSUME IndInv, SafeInv, Tracee \/ UNCHANGED vars PROVE SafeInv'
<1>1. /\ UNCHANGED <<call, outcome, prog, cmdQ, rspQ, ppc, cmd, ret, instanced, is_running, threads, dead>>
      /\ Quiet => Quiet'
      /\ proc' = proc \/ proc \notin {"none", "reaped", "zombie"}
  <2>1. CASE UNCHANGED vars
    BY <2>1 DEF vars, mainVars, queueVars, pollVars, flagVars, procVars, Quiet
  <2>2. CASE Tracee
    <3>1. UNCHANGED_Debugger
      BY <2>2 DEF Tracee, TraceeStops, SigstopDelivered, TraceeExits, TraceeKilled
    <3>2. (Quiet => Quiet') /\ proc \notin {"none", "reaped", "zombie"}
      BY <2>2 DEF Tracee, TraceeStops, SigstopDelivered, TraceeExits, TraceeKilled, Quiet
    <3> QED BY <3>1, <3>2 DEF UNCHANGED_Debugger, mainVars, queueVars, pollVars, flagVars
  <2> QED BY <2>1, <2>2
<1>2. Working' = Working /\ Busy' = Busy /\ \A cs : Queued(cs)' <=> Queued(cs)
  BY <1>1 DEF Working, Busy, Queued
<1>3. Served'
  BY <1>1, <1>2 DEF SafeInv, Served
<1> QED BY <1>1, <1>2, <1>3, StillSafe

-------------------------------------------------------------------------------
(* The polling thread comes to the end of a command. *)

(* A queued command that sets the tracee going, with no kill after it, is  *)
(* one the script is about to wait for.                                    *)
LEMMA MovingSeen ==
    ASSUME SafeInv, Busy, NEW j \in DOMAIN cmdQ, cmdQ[j] \in Moving,
           ~\E k \in DOMAIN cmdQ : k > j /\ cmdQ[k] = "kill"
    PROVE  At("join") \/ At("wait")
<1>1. Waiting
  BY DEF SafeInv
<1>2. CASE cmdQ[j] = "cont"
  <2>1. prog = <<"join", "wait">>
    BY <1>1, <1>2 DEF Waiting
  <2> QED BY <2>1 DEF At
<1>3. CASE cmdQ[j] = "step"
  <2>1. prog = <<"wait", "join">> \/ prog = <<"join">>
    BY <1>1, <1>3 DEF Waiting, Stepped
  <2> QED BY <2>1 DEF At
<1>4. CASE cmdQ[j] = "wait"
  BY <1>1, <1>4 DEF Waiting
<1> QED BY <1>2, <1>3, <1>4 DEF Moving

(* How a command can leave a tracee that is not at rest. *)
LEMMA EndsGoing ==
    ASSUME IndInv, SafeInv, Ends, ~Quiet'
    PROVE  \/ cmd = "wait" /\ Calm /\ Queued({"kill"})
           \/ cmd = "cont" /\ prog = <<"join", "wait">> /\ is_running'
           \/ cmd = "step" /\ (prog = <<"wait", "join">> \/ (prog = <<"join">> /\ Queued({"wait"})))
<1>s. Kept /\ Visible /\ Waiting /\ cmdQ \in Seq(Commands)
  BY DEF SafeInv, IndInv, TypeOK
<1>1. CASE cmd = "kill" \/ cmd \in (Access \cup Starting) \ Moving
  <2>1. Quiet'
    BY <1>1, <1>s DEF Ends, Kept, Moving
  <2> QED BY <2>1
<1>2. CASE cmd = "wait"
  <2>1. ~threads /\ Working
    BY <1>2 DEF Ends
  <2>2. Calm
    BY <1>s, <2>1 DEF Visible
  <2>3. ~NowCalm
    BY <1>2, <2>1 DEF NowCalm, Moving
  <2>4. Queued({"kill"})
    BY <2>2, <2>3 DEF Calm, CalmAt, Queued
  <2> QED BY <1>2, <2>2, <2>4
<1>3. CASE cmd = "cont"
  BY <1>3, <1>s DEF Ends, Waiting
<1>4. CASE cmd = "step"
  <2>1. Stepped(Len(cmdQ))
    BY <1>4, <1>s DEF Ends, Waiting
  <2>2. ASSUME Len(cmdQ) = 1, cmdQ[Len(cmdQ)] = "wait" PROVE Queued({"wait"})
    <3>1. 1 \in DOMAIN cmdQ
      BY <1>s, <2>2
    <3> QED BY <2>2, <3>1 DEF Queued
  <2> QED BY <1>4, <2>1, <2>2 DEF Stepped
<1> QED BY <1>1, <1>2, <1>3, <1>4 DEF Ends, Moving, Access

LEMMA EndsSafe ==
    ASSUME IndInv, SafeInv, Ends PROVE SafeInv'
<1>0. /\ Working /\ UNCHANGED <<call, outcome, prog, cmdQ, rspQ, cmd, instanced>>
      /\ ppc' \in {"taskdone", "respond"} /\ (ppc' = "respond" => ret' # "None")
      /\ cmd \notin Moving /\ Quiet => Quiet'
      /\ cmd = "kill" => Quiet'
      /\ ret' # "None" /\ Quiet => Quiet'
      /\ threads' = threads \/ (cmd \in Starting /\ threads')
      /\ dead' => proc' = "reaped"
  BY DEF Ends, scriptVars
<1>b. Busy /\ Busy' /\ ~Working' /\ ppc' # "ended"
  BY <1>0 DEF Busy, Working
<1>g. ~Quiet' => \/ cmd = "wait" /\ Calm /\ Queued({"kill"})
                 \/ cmd = "cont" /\ prog = <<"join", "wait">> /\ is_running'
                 \/ cmd = "step" /\ (prog = <<"wait", "join">> \/ (prog = <<"join">> /\ Queued({"wait"})))
  BY EndsGoing
<1>q. \A cs : Queued(cs)' <=> Queued(cs)
  BY <1>0 DEF Queued
<1>n. NowCalm => NowCalm'
  BY <1>0, <1>b DEF NowCalm
<1>c. (\A i : CalmAt(i) => CalmAt(i)') /\ (Calm => Calm')
  BY <1>0, <1>n DEF Calm, CalmAt
<1>i. threads' = threads \/ (threads' /\ ~At("instance"))
  <2>1. cmd \in Starting => At("join") \/ At("set")
    BY <1>0 DEF SafeInv, Waiting
  <2>2. At("join") \/ At("set") => ~At("instance")
    BY DEF At
  <2> QED BY <1>0, <2>1, <2>2
<1>1. Shaped(prog', call') /\ Promise' /\ \A op : At(op)' <=> At(op)
  BY <1>0, <1>c, <1>i, SettledPromise
<1>2. Visible'
  <2>1. ~instanced' \/ ~threads' => Calm'
    BY <1>0, <1>c DEF SafeInv, Visible
  <2>2. ASSUME ~Calm' PROVE At("join") \/ At("wait") \/ is_running'
    <3>1. CASE \E j \in DOMAIN cmdQ : cmdQ[j] \in Moving /\ ~\E k \in DOMAIN cmdQ : k > j /\ cmdQ[k] = "kill"
      BY <1>b, <3>1, MovingSeen
    <3>2. CASE ~NowCalm'
      <4>1. ~Quiet' /\ ~Calm
        BY <1>b, <1>c, <2>2, <3>2 DEF NowCalm
      <4>2. \/ prog = <<"join", "wait">> /\ is_running'
            \/ prog = <<"wait", "join">> \/ prog = <<"join">>
        BY <1>g, <4>1
      <4> QED BY <4>2 DEF At
    <3>3. cmdQ \in Seq(Commands)
      BY DEF IndInv, TypeOK
    <3>4. \A k \in DOMAIN cmdQ : k < Len(cmdQ) + 1
      BY <3>3
    <3>5. ASSUME NowCalm', ~\E j \in DOMAIN cmdQ : cmdQ[j] \in Moving /\ ~\E k \in DOMAIN cmdQ : k > j /\ cmdQ[k] = "kill"
          PROVE  Calm'
      <4>1. \A j \in DOMAIN cmdQ : cmdQ[j] \in Moving =>
               \E k \in DOMAIN cmdQ : j < k /\ k < Len(cmdQ) + 1 /\ cmdQ[k] = "kill"
        BY <3>3, <3>4, <3>5
      <4> QED BY <1>0, <3>5, <4>1 DEF Calm, CalmAt
    <3> QED BY <2>2, <3>1, <3>2, <3>5
  <2> QED BY <1>1, <2>1, <2>2 DEF Visible
<1>3. Kept'
  BY <1>0, <1>b, <1>c DEF SafeInv, Kept
<1>4. Waiting'
  <2>1. \A n : Stepped(n)' <=> Stepped(n)
    BY <1>0 DEF Stepped
  <2> QED BY <1>0, <1>b, <1>1, <1>q, <2>1 DEF SafeInv, Waiting
<1>5. Continued'
  <2>1. prog' # <<"wait">>
    BY <1>0, <1>b DEF SafeInv, Continued
  <2>2. ASSUME prog' = <<"join", "wait">>, ~Queued({"cont"}) PROVE cmdQ' = << >> /\ is_running'
    <3>1. cmd = "cont"
      BY <1>0, <2>2 DEF SafeInv, Continued
    <3> QED BY <1>0, <3>1 DEF SafeInv, Waiting, Ends
  <2> QED BY <1>b, <1>q, <2>1, <2>2 DEF Continued
<1>6. Attended'
  <2>1. Queued({"kill"}) \/ Queued({"wait"}) => Queued({"kill", "wait"})
    BY DEF Queued
  <2> QED BY <1>0, <1>g, <1>q, <2>1 DEF Attended
<1>7. Served'
  <2>1. rspQ' = << >>
    BY <1>0 DEF IndInv, QueueAccounting, Working
  <2>2. ret' # "None" => Quiet' \/ Queued({"kill"})'
    <3>1. ASSUME ret' # "None", ~Quiet' PROVE Queued({"kill"})
      <4>1. ~Quiet
        BY <1>0, <3>1
      <4>2. cmd \notin {"cont", "step"}
        BY <1>0, <4>1 DEF SafeInv, Kept, Access
      <4> QED BY <1>g, <3>1, <4>2
    <3> QED BY <1>q, <3>1
  <2> QED BY <1>0, <2>1, <2>2 DEF Served
<1>8. Killing'
  <2>1. ASSUME Queued({"kill"}) PROVE ~instanced' \/ ~threads' \/ At("uninstance")'
    <3>1. cmd \notin Starting
      BY <1>0, <2>1 DEF SafeInv, Killing
    <3> QED BY <1>0, <1>1, <2>1, <3>1 DEF SafeInv, Killing
  <2>2. \A j, k \in DOMAIN cmdQ' : j < k /\ cmdQ'[j] \in Starting => cmdQ'[k] # "kill"
    BY <1>0 DEF SafeInv, Killing
  <2> QED BY <1>b, <1>q, <2>1, <2>2 DEF Killing
<1>9. Returned'
  <2>1. AtRest => AtRest'
    BY <1>0, <1>b, <1>q DEF AtRest
  <2> QED BY <1>0, <2>1 DEF SafeInv, Returned
<1>10. Peeking'
  BY <1>0, <1>1 DEF SafeInv, Peeking
<1> QED BY <1>1, <1>2, <1>3, <1>4, <1>5, <1>6, <1>7, <1>8, <1>9, <1>10 DEF SafeInv

LEMMA PollSafe == ASSUME IndInv, SafeInv, Poll PROVE SafeInv'
<1>1. CASE PollRespond \/ PollTaskDone \/ PollJoinResponses
  <2>1. /\ UNCHANGED <<call, outcome, prog, cmdQ, cmd, instanced, is_running, threads, proc>>
        /\ Working' = Working /\ (~Busy => ~Busy') /\ ppc' # "ended"
    BY <1>1 DEF PollRespond, PollTaskDone, PollJoinResponses, mainVars, queueVars, flagVars, procVars,
       Working, Busy
  <2>2. Quiet => Quiet'
    BY <2>1 DEF Quiet
  <2>3. Served'
    BY <1>1, HandsServed
  <2> QED BY <2>1, <2>2, <2>3, StillSafe
<1>2. CASE PollGet \/ Loops \/ Ends
  BY <1>2, GetSafe, LoopsSafe, EndsSafe
<1>3. PollRespond \/ PollTaskDone \/ PollJoinResponses \/ PollGet \/ Loops \/ Ends
  BY PollCases DEF SafeInv
<1> QED BY <1>1, <1>2, <1>3

-------------------------------------------------------------------------------
(* The specification. *)

LEMMA InitSafe == Init => SafeInv
<1> SUFFICES ASSUME Init PROVE SafeInv
  OBVIOUS
<1>1. /\ prog = << >> /\ cmdQ = << >> /\ rspQ = << >> /\ DOMAIN prog = {} /\ DOMAIN cmdQ = {}
      /\ ppc = "get" /\ proc = "none" /\ ~dead /\ call = "none" /\ outcome = "ok"
  BY DEF Init
<1>2. ~Working /\ Quiet /\ \A op : ~At(op)
  BY <1>1 DEF Working, Quiet, At
<1>3. Calm /\ \A cs : ~Queued(cs)
  BY <1>1, <1>2, CalmIdle DEF Queued
<1>4. Shaped(prog, call) /\ Promise
  BY <1>1, <1>2, <1>3 DEF Shaped, Promise, Unguarded
<1>5. Visible /\ Kept /\ Attended
  BY <1>1, <1>2, <1>3 DEF Visible, Kept, Attended
<1>6. Waiting
  BY <1>1, <1>2, <1>3 DEF Waiting
<1>7. Continued /\ Served /\ Killing
  BY <1>1, <1>2, <1>3 DEF Continued, Served, Killing
<1>8. Returned /\ Peeking
  BY <1>1, <1>2 DEF Returned, Peeking
<1> QED BY <1>4, <1>5, <1>6, <1>7, <1>8 DEF SafeInv

LEMMA NextSafe == IndInv /\ SafeInv /\ [Next]_vars => SafeInv'
<1> SUFFICES ASSUME IndInv, SafeInv, [Next]_vars PROVE SafeInv'
  OBVIOUS
<1>1. CASE Main
  BY <1>1, MainSafe
<1>2. CASE Poll
  BY <1>2, PollSafe
<1>3. CASE Tracee \/ UNCHANGED vars
  BY <1>3, TraceeSafe
<1> QED BY <1>1, <1>2, <1>3 DEF Next

LEMMA SpecSafe == Spec => [](IndInv /\ SafeInv)
<1>1. Init => IndInv /\ SafeInv
  BY InitInd, InitSafe
<1>2. (IndInv /\ SafeInv) /\ [Next]_vars => (IndInv /\ SafeInv)'
  BY NextInd, NextSafe
<1> QED BY <1>1, <1>2, PTL DEF Spec

(* The requests of __threaded_peek_memory, __threaded_cont,                *)
(* __threaded_step and the others that the kernel grants for a stopped     *)
(* tracee only are made when it does not run, although is_running was      *)
(* looked at by the script, before the command was put on the queue.       *)
THEOREM StoppedWhenAccessed == Spec => []StoppedAccess
<1>1. SafeInv => StoppedAccess
  BY DEF SafeInv, Kept, Working, Access, Quiet, StoppedAccess
<1> QED BY <1>1, SpecSafe, PTL

(* A method other than cont() that returns without an exception leaves a   *)
(* tracee that does not run: step, wait, interrupt, finish, run, attach... *)
(* are synchronous.                                                        *)
THEOREM SynchronousReturn == Spec => []SyncReturn
<1>1. ASSUME SafeInv PROVE SyncReturn
  <2> SUFFICES ASSUME prog = << >>, outcome = "ok", call \in AllCalls \ {"cont"} PROVE Quiet
    BY DEF SyncReturn, Quiet
  <2>1. DOMAIN prog = {} /\ call \notin {"cont", "none"}
    BY DEF AllCalls
  <2>2. AtRest
    BY <1>1, <2>1 DEF SafeInv, Returned
  <2> QED BY <2>2 DEF AtRest
<1> QED BY <1>1, SpecSafe, PTL

(* The response that _peek_memory takes from the queue is the one to its   *)
(* own peek, never the exception of a command that an earlier method left  *)
(* behind.                                                                 *)
THEOREM PeekAnswered == Spec => []ResponseMatched
<1>1. SafeInv => ResponseMatched
  BY DEF SafeInv, Served, Peeking, ResponseMatched
<1> QED BY <1>1, SpecSafe, PTL

-------------------------------------------------------------------------------
(* The instance manager. *)

(* The lock: at most one thread is inside, and the lock is taken then. *)
Exclusive ==
    \A p \in PyThreads : inside[p] # None =>
        /\ internal_debugger_lock
        /\ \A q \in PyThreads : inside[q] # None => q = p

Unlocked == (\A p \in PyThreads : inside[p] = None) /\ "raises" \notin uses
                => global_internal_debugger = None

InsideRight == \A p \in PyThreads : inside[p] # None => global_internal_debugger = inside[p]

(* An owned object is compared by identity, and its own entry is right. *)
OwnedRight ==
    /\ \A o \in Owned : internal_debuggers[o] = maker[o]
    /\ \A o \in Owned : Exists(o) => value[o] = <<o, 0>>
    /\ \A h \in Handlers : value[h][1] \in Addresses

(* Unless equal handlers are made, existing handlers have addresses of     *)
(* their own, and the entries are those of the handlers themselves.        *)
HandlersRight ==
    "equal" \notin uses =>
        /\ \A h \in Handlers : internal_debuggers[h] = maker[h]
        /\ \A h, k \in Handlers : Exists(h) /\ Exists(k) /\ value[h][1] = value[k][1] => h = k

InstancesInv == InstancesTypeOK /\ Exclusive /\ Unlocked /\ InsideRight /\ OwnedRight /\ HandlersRight

-------------------------------------------------------------------------------
(* A value of a handler keeps its address when its other fields change. *)
LEMMA OtherBit == \A b \in {0, 1} : Other(b) \in {0, 1}
BY DEF Other

(* An object that exists is found by its own entry alone. *)
LEMMA LookupOwned ==
    ASSUME InstancesInv, NEW o \in Owned, Exists(o)
    PROVE  Lookup(o) = {maker[o]}
<1>1. \A k \in Objects : internal_debuggers[k] # None /\ value[k] = value[o] => k = o
  <2> SUFFICES ASSUME NEW k \in Objects, internal_debuggers[k] # None, value[k] = value[o]
               PROVE  k = o
    OBVIOUS
  <2>1. value[o] = <<o, 0>>
    BY DEF InstancesInv, OwnedRight
  <2>2. CASE k \in Owned
    <3>1. Exists(k)
      BY <2>2 DEF InstancesInv, OwnedRight, Exists
    <3>2. value[k] = <<k, 0>>
      BY <2>2, <3>1 DEF InstancesInv, OwnedRight
    <3> QED BY <2>1, <3>2
  <2>3. CASE k \in Handlers
    <3>1. value[k][1] \in Addresses
      BY <2>3 DEF InstancesInv, OwnedRight
    <3>2. value[k][1] = o
      BY <2>1
    <3> QED BY <3>1, <3>2, InstancesAssumption
  <2> QED BY <2>2, <2>3 DEF Objects
<1>2. internal_debuggers[o] = maker[o] /\ maker[o] # None /\ o \in Objects
  BY DEF InstancesInv, OwnedRight, Exists, Objects
<1>3. Found(value[o]) = {o}
  BY <1>1, <1>2 DEF Found
<1> QED BY <1>2, <1>3 DEF Lookup

LEMMA LookupHandler ==
    ASSUME InstancesInv, "equal" \notin uses, NEW h \in Handlers, Exists(h)
    PROVE  Lookup(h) = {maker[h]}
<1>1. \A k \in Objects : internal_debuggers[k] # None /\ value[k] = value[h] => k = h
  <2> SUFFICES ASSUME NEW k \in Objects, internal_debuggers[k] # None, value[k] = value[h]
               PROVE  k = h
    OBVIOUS
  <2>1. value[h][1] \in Addresses /\ value[k][1] = value[h][1]
    BY DEF InstancesInv, OwnedRight
  <2>2. CASE k \in Owned
    <3>1. Exists(k)
      BY <2>2 DEF InstancesInv, OwnedRight, Exists
    <3>2. value[k] = <<k, 0>>
      BY <2>2, <3>1 DEF InstancesInv, OwnedRight
    <3> QED BY <2>1, <2>2, <3>2, InstancesAssumption
  <2>3. CASE k \in Handlers
    <3>1. Exists(k)
      BY <2>3 DEF InstancesInv, HandlersRight, Exists
    <3> QED BY <2>1, <2>3, <3>1 DEF InstancesInv, HandlersRight
  <2> QED BY <2>2, <2>3 DEF Objects
<1>2. internal_debuggers[h] = maker[h] /\ maker[h] # None /\ h \in Objects
  BY DEF InstancesInv, HandlersRight, Exists, Objects
<1>3. Found(value[h]) = {h}
  BY <1>1, <1>2 DEF Found
<1> QED BY <1>2, <1>3 DEF Lookup

-------------------------------------------------------------------------------
LEMMA InstancesInvInit == InstancesInit => InstancesInv
<1> SUFFICES ASSUME InstancesInit PROVE InstancesInv
  OBVIOUS
<1> USE DEF InstancesInit
<1>1. InstancesTypeOK
  <2>1. PICK a \in Addresses : value = [o \in Objects |-> <<a, 0>>]
    OBVIOUS
  <2>2. <<a, 0>> \in Values
    BY DEF Values
  <2> QED BY <2>1, <2>2 DEF InstancesTypeOK
<1>2. Exclusive /\ Unlocked /\ InsideRight
  BY DEF Exclusive, Unlocked, InsideRight
<1>3. OwnedRight /\ HandlersRight
  BY DEF OwnedRight, HandlersRight, Exists, Objects
<1> QED BY <1>1, <1>2, <1>3 DEF InstancesInv

(* Entering the block: the lock was free, so nobody was inside. *)
LEMMA EnterInv ==
    ASSUME InstancesInv, NEW p \in PyThreads, NEW d \in Debuggers, Enter(p, d, d)
    PROVE  InstancesInv'
<1> USE DEF InstancesInv, Enter
<1>1. InstancesTypeOK'
  BY DEF InstancesTypeOK
<1>2. \A q \in PyThreads : inside[q] = None
  BY DEF Exclusive
<1>3. \A q \in PyThreads : inside'[q] = (IF q = p THEN d ELSE None)
  BY <1>2 DEF InstancesTypeOK
<1>4. Exclusive' /\ Unlocked' /\ InsideRight'
  BY <1>3, InstancesAssumption DEF Exclusive, Unlocked, InsideRight, PyThreads
<1>5. OwnedRight' /\ HandlersRight'
  BY DEF OwnedRight, HandlersRight, Exists
<1> QED BY <1>1, <1>4, <1>5 DEF InstancesInv

LEMMA ConstructInv ==
    ASSUME InstancesInv, NEW p \in PyThreads, NEW o \in Owned, Construct(p, o)
    PROVE  InstancesInv'
<1> USE DEF InstancesInv, Construct
<1>1. o \in Objects /\ o \notin Handlers /\ inside[p] \in Debuggers
  BY InstancesAssumption DEF Objects, InstancesTypeOK
<1>2. global_internal_debugger = inside[p]
  BY DEF InsideRight
<1>3. InstancesTypeOK'
  <2>1. <<o, 0>> \in Values
    BY DEF Values
  <2> QED BY <1>1, <1>2, <2>1 DEF InstancesTypeOK, lockVars
<1>4. Exclusive' /\ Unlocked' /\ InsideRight'
  BY DEF Exclusive, Unlocked, InsideRight, lockVars
<1>5. OwnedRight'
  BY <1>1, <1>2 DEF OwnedRight, Exists, InstancesTypeOK, Objects
<1>6. HandlersRight'
  BY <1>1 DEF HandlersRight, Exists, InstancesTypeOK, Objects
<1> QED BY <1>3, <1>4, <1>5, <1>6 DEF InstancesInv

(* Leaving the block, in order or by an exception. *)
LEMMA ReleaseInv ==
    ASSUME InstancesInv, NEW p \in PyThreads, Leave(p) \/ Raises(p)
    PROVE  InstancesInv'
<1> USE DEF InstancesInv, Leave, Raises, Release
<1>1. InstancesTypeOK'
  BY DEF InstancesTypeOK
<1>2. \A q \in PyThreads : inside'[q] = None
  BY DEF Exclusive, InstancesTypeOK
<1>3. Exclusive' /\ Unlocked' /\ InsideRight'
  BY <1>2 DEF Exclusive, Unlocked, InsideRight
<1>4. OwnedRight' /\ HandlersRight'
  BY DEF OwnedRight, HandlersRight, Exists
<1> QED BY <1>1, <1>3, <1>4 DEF InstancesInv

(* A new handler: unless handlers may be equal, no key is equal to it. *)
LEMMA MakeHandlerInv ==
    ASSUME InstancesInv, NEW d \in Debuggers, NEW h \in Handlers, NEW a \in Addresses, MakeHandler(d, h, a)
    PROVE  InstancesInv'
<1> DEFINE v == <<a, 0>>
<1> USE DEF InstancesInv, MakeHandler
<1>1. h \in Objects /\ h \notin Owned
  BY InstancesAssumption DEF Objects
<1>2. \A k \in Found(v) : k \in Handlers
  <2> SUFFICES ASSUME NEW k \in Owned, internal_debuggers[k] # None, value[k] = v PROVE FALSE
    BY DEF Found, Objects
  <2>1. value[k] = <<k, 0>>
    BY DEF OwnedRight, Exists
  <2> QED BY <2>1, InstancesAssumption
<1>3. PICK k \in Handlers : /\ internal_debuggers' = [internal_debuggers EXCEPT ![k] = d]
                            /\ k = h \/ k \in Found(v)
  BY <1>2 DEF Link
<1>4. InstancesTypeOK'
  <2>1. v \in Values /\ k \in Objects
    BY DEF Values, Objects
  <2> QED BY <1>1, <1>3, <2>1 DEF InstancesTypeOK, lockVars
<1>5. Exclusive' /\ Unlocked' /\ InsideRight'
  BY DEF Exclusive, Unlocked, InsideRight, lockVars
<1>6. OwnedRight'
  <2>1. \A o \in Owned : o # h /\ o # k /\ o \in Objects
    BY InstancesAssumption DEF Objects
  <2>2. \A o \in Owned : /\ internal_debuggers'[o] = internal_debuggers[o]
                         /\ maker'[o] = maker[o] /\ value'[o] = value[o]
    BY <1>3, <2>1 DEF InstancesTypeOK
  <2>3. \A g \in Handlers : value'[g] = IF g = h THEN v ELSE value[g]
    BY DEF InstancesTypeOK, Objects
  <2>4. \A g \in Handlers : value'[g][1] \in Addresses
    BY <2>3 DEF OwnedRight
  <2> QED BY <2>2, <2>4 DEF OwnedRight, Exists
<1>7. HandlersRight'
  <2> SUFFICES ASSUME "equal" \notin uses
               PROVE  /\ \A g \in Handlers : internal_debuggers'[g] = maker'[g]
                      /\ \A g, i \in Handlers : /\ Exists(g)' /\ Exists(i)'
                                               /\ value'[g][1] = value'[i][1] => g = i
    BY DEF HandlersRight
  <2>1. k = h
    <3> SUFFICES ASSUME k \in Found(v) PROVE FALSE
      BY <1>3
    <3>1. internal_debuggers[k] # None /\ value[k] = v
      BY DEF Found
    <3>2. Exists(k)
      BY <3>1 DEF HandlersRight, Exists
    <3>3. value[k][1] # a
      BY <3>2
    <3> QED BY <3>1, <3>3
  <2>2. \A g \in Handlers : /\ maker'[g] = IF g = h THEN d ELSE maker[g]
                            /\ internal_debuggers'[g] = IF g = h THEN d ELSE internal_debuggers[g]
                            /\ value'[g] = IF g = h THEN v ELSE value[g]
    BY <1>3, <2>1 DEF InstancesTypeOK, Objects
  <2>3. \A g \in Handlers : Exists(g) => value[g][1] # a
    OBVIOUS
  <2>4. \A g \in Handlers : internal_debuggers'[g] = maker'[g]
    BY <2>2 DEF HandlersRight
  <2>5. ASSUME NEW g \in Handlers, NEW i \in Handlers, Exists(g)', Exists(i)',
               value'[g][1] = value'[i][1]
        PROVE  g = i
    <3>1. g # h => Exists(g) /\ value'[g][1] = value[g][1]
      BY <2>2, <2>5 DEF Exists
    <3>2. i # h => Exists(i) /\ value'[i][1] = value[i][1]
      BY <2>2, <2>5 DEF Exists
    <3>3. value'[h][1] = a
      BY <2>2
    <3> QED BY <2>3, <2>5, <3>1, <3>2, <3>3 DEF HandlersRight
  <2> QED BY <2>4, <2>5
<1> QED BY <1>4, <1>5, <1>6, <1>7 DEF InstancesInv

(* A field of a handler changes; its address stays. *)
LEMMA HitInv ==
    ASSUME InstancesInv, NEW h \in Handlers, Exists(h),
           value' = [value EXCEPT ![h] = <<value[h][1], Other(value[h][2])>>],
           UNCHANGED <<uses, started, maker, global_internal_debugger, lockVars>>,
           \/ UNCHANGED internal_debuggers
           \/ /\ Lookup(h) = {} /\ global_internal_debugger # None
              /\ internal_debuggers' = [internal_debuggers EXCEPT ![h] = global_internal_debugger]
    PROVE  InstancesInv'
<1> USE DEF InstancesInv
<1>1. h \in Objects /\ h \notin Owned
  BY InstancesAssumption DEF Objects
<1>2. value[h] \in Values
  BY <1>1 DEF InstancesTypeOK
<1>3. <<value[h][1], Other(value[h][2])>> \in Values
  BY <1>2, OtherBit DEF Values
<1>4. InstancesTypeOK'
  BY <1>1, <1>3 DEF InstancesTypeOK, lockVars
<1>5. Exclusive' /\ Unlocked' /\ InsideRight'
  BY DEF Exclusive, Unlocked, InsideRight, lockVars
<1>6. \A g \in Handlers : value'[g][1] = value[g][1]
  BY <1>1 DEF InstancesTypeOK, Objects
<1>7. \A o \in Owned : value'[o] = value[o] /\ internal_debuggers'[o] = internal_debuggers[o]
  BY <1>1 DEF InstancesTypeOK, Objects
<1>8. OwnedRight'
  BY <1>6, <1>7 DEF OwnedRight, Exists
<1>9. HandlersRight'
  <2> SUFFICES ASSUME "equal" \notin uses PROVE HandlersRight'
    BY DEF HandlersRight
  <2>1. UNCHANGED internal_debuggers
    BY LookupHandler
  <2> QED BY <1>6, <2>1 DEF HandlersRight, Exists
<1> QED BY <1>4, <1>5, <1>8, <1>9 DEF InstancesInv

LEMMA CollectInv ==
    ASSUME InstancesInv, NEW o \in Objects, Collect(o)
    PROVE  InstancesInv'
<1> USE DEF InstancesInv, Collect
<1>1. InstancesTypeOK'
  BY DEF InstancesTypeOK, lockVars
<1>2. Exclusive' /\ Unlocked' /\ InsideRight'
  BY DEF Exclusive, Unlocked, InsideRight, lockVars
<1>3. \A k \in Objects : /\ maker'[k] = IF k = o THEN None ELSE maker[k]
                         /\ internal_debuggers'[k] = IF k = o THEN None ELSE internal_debuggers[k]
  BY DEF InstancesTypeOK
<1>4. OwnedRight'
  BY <1>3 DEF OwnedRight, Exists, Objects
<1>5. HandlersRight'
  BY <1>3 DEF HandlersRight, Exists, Objects
<1> QED BY <1>1, <1>2, <1>4, <1>5 DEF InstancesInv

-------------------------------------------------------------------------------
(* Every step of a debugger, of the script and of the collector keeps the  *)
(* invariant.                                                              *)
LEMMA InstancesInvNext == InstancesInv /\ [InstancesNext]_instanceVars => InstancesInv'
<1> SUFFICES ASSUME InstancesInv, [InstancesNext]_instanceVars PROVE InstancesInv'
  OBVIOUS
<1>1. ASSUME NEW d \in Debuggers, StartUp(d) PROVE InstancesInv'
  BY <1>1 DEF StartUp, InstancesInv, InstancesTypeOK, Exclusive, Unlocked, InsideRight, OwnedRight, HandlersRight,
              Exists, lockVars
<1>2. ASSUME NEW p \in PyThreads, NEW d \in Debuggers, ExtendDebugger(p, d) PROVE InstancesInv'
  BY <1>2, EnterInv DEF ExtendDebugger
<1>3. ASSUME NEW o \in Owned, ExtendInterface(o) PROVE InstancesInv'
  <2>1. Lookup(o) = {maker[o]}
    BY <1>3, LookupOwned DEF ExtendInterface
  <2>2. maker[o] \in Debuggers /\ maker[o] \in PyThreads
    BY <1>3 DEF ExtendInterface, Exists, InstancesInv, InstancesTypeOK, Objects, PyThreads
  <2>3. Enter(maker[o], maker[o], maker[o])
    BY <1>3, <2>1 DEF ExtendInterface
  <2> QED BY <2>2, <2>3, EnterInv
<1>4. ASSUME NEW p \in PyThreads, NEW o \in Owned, Construct(p, o) PROVE InstancesInv'
  BY <1>4, ConstructInv
<1>5. ASSUME NEW p \in PyThreads, Leave(p) \/ Raises(p) PROVE InstancesInv'
  BY <1>5, ReleaseInv
<1>6. ASSUME NEW d \in Debuggers, NEW h \in Handlers, NEW a \in Addresses, MakeHandler(d, h, a)
      PROVE InstancesInv'
  BY <1>6, MakeHandlerInv
<1>7. ASSUME NEW h \in Handlers, Hit(h) \/ Toggle(h) PROVE InstancesInv'
  BY <1>7, HitInv DEF Hit, Toggle
<1>8. ASSUME NEW o \in Objects, Collect(o) PROVE InstancesInv'
  BY <1>8, CollectInv
<1>9. CASE UNCHANGED instanceVars
  BY <1>9 DEF instanceVars, InstancesInv, InstancesTypeOK, Exclusive, Unlocked, InsideRight, OwnedRight, HandlersRight, Exists
<1> QED BY <1>1, <1>2, <1>3, <1>4, <1>5, <1>6, <1>7, <1>8, <1>9 DEF InstancesNext

LEMMA InvAlways == InstancesSpec => []InstancesInv
<1> QED BY InstancesInvInit, InstancesInvNext, PTL DEF InstancesSpec

(* Every object finds the debugger that made it, through any interleaving  *)
(* of scripts, polling threads and collector (provide_internal_debugger,   *)
(* link_to_internal_debugger).                                             *)
THEOREM ObjectsLinked == InstancesSpec => []LinkedRight
<1>1. InstancesInv => LinkedRight
  BY LookupOwned, LookupHandler DEF LinkedRight, Objects
<1> QED BY <1>1, InvAlways, PTL

(* The global debugger is that of the thread inside the with block, and    *)
(* none otherwise (extend_internal_debugger).                              *)
THEOREM GlobalExclusive == InstancesSpec => []GlobalRight
<1>1. InstancesInv => GlobalRight
  BY DEF InstancesInv, GlobalRight, InsideRight, Unlocked
<1> QED BY <1>1, InvAlways, PTL

===============================================================================
