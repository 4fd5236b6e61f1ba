------------------------------ MODULE PipeManager ------------------------------
(***************************************************************************)
(* The pipes to the debugged program: recv, recvuntil and the calls built  *)
(* on them (recvline, sendafter, and the same on stderr).                  *)
(*                                                                         *)
(* The program writes, and ends, while a call is between two of its own    *)
(* steps, and so does time pass.  Each loop keeps its own deadline,        *)
(* computed from what is left of the deadline around it: the model counts  *)
(* the time left to each, -1 once a deadline has passed.                   *)
(***************************************************************************)
EXTENDS Integers, Sequences, SequencesExt, FiniteSets

CONSTANTS Bytes,
          delims,        \* the delimiter, a sequence of Bytes
          Timeouts,      \* timeouts a script passes
          Numbs,         \* numbers of bytes it asks for; 0 stands for None too
          Occurences,    \* numbers of delimiters it asks for
          MaxBytes       \* bound: how much the program writes

ASSUME PipeAssumption ==
    /\ delims \in Seq(Bytes) /\ delims # << >>
    /\ Timeouts \subseteq Nat /\ Numbs \subseteq Nat
    /\ Occurences \subseteq Nat \ {0}
    /\ MaxBytes \in Nat

VARIABLES
    stdout, written,                \* what can be read; how much was written
    alive,                          \* the program still has its end open
    pc,                             \* where the call is
    asked,                          \* its arguments
    untilLeft, onceLeft, recvLeft,  \* time left to _recvuntil, _recvonceuntil, _recv
    occurences,                     \* occurrences still to find
    numb, data,                     \* of _recv: bytes to receive, and received
    once, buffer,                   \* data_buffer of _recvonceuntil and _recvuntil
    taken,                          \* all that this call has read
    sent,                           \* the call has written its data
    result                          \* how the last call ended

programVars == <<stdout, written, alive>>
clocks == <<untilLeft, onceLeft, recvLeft>>
pipeVars == <<programVars, pc, asked, clocks, occurences, numb, data, once, buffer, taken, sent, result>>

NoCall == [kind |-> "none", numb |-> 0, occ |-> 0, drop |-> FALSE, timeout |-> 0]
NoResult == [status |-> "none", data |-> << >>]
Later(n) == IF n > 0 THEN n ELSE 0
DelimFound == \E i \in 1..(Len(once) - Len(delims) + 1) : SubSeq(once, i, i + Len(delims) - 1) = delims

-------------------------------------------------------------------------------
(* The program and the clock. *)

Write(b) ==
    /\ alive
    /\ written < MaxBytes
    /\ stdout' = Append(stdout, b)
    /\ written' = written + 1
    /\ UNCHANGED <<alive, pc, asked, clocks, occurences, numb, data, once, buffer, taken, sent, result>>

Exit ==
    /\ alive
    /\ alive' = FALSE
    /\ UNCHANGED <<stdout, written, pc, asked, clocks, occurences, numb, data, once, buffer, taken, sent, result>>

Tick ==
    /\ pc # "idle"
    /\ untilLeft' = IF untilLeft >= 0 THEN untilLeft - 1 ELSE -1
    /\ onceLeft' = IF onceLeft >= 0 THEN onceLeft - 1 ELSE -1
    /\ recvLeft' = IF recvLeft >= 0 THEN recvLeft - 1 ELSE -1
    /\ UNCHANGED <<programVars, pc, asked, occurences, numb, data, once, buffer, taken, sent, result>>

-------------------------------------------------------------------------------
(* The calls. *)

Returning(status, bytes) ==
    /\ pc' = "idle"
    /\ result' = [status |-> status, data |-> bytes]

(* recv and recverr *)
CallRecv(n, timeout) ==
    /\ pc = "idle"
    /\ asked' = [NoCall EXCEPT !.kind = "recv", !.numb = n, !.timeout = timeout]
    /\ pc' = IF n = 0 THEN "select_once" ELSE "recv_loop"
    /\ numb' = n
    /\ recvLeft' = timeout /\ onceLeft' = -1 /\ untilLeft' = -1
    /\ data' = << >> /\ once' = << >> /\ buffer' = << >> /\ taken' = << >>
    /\ occurences' = 0
    /\ sent' = FALSE
    /\ result' = NoResult
    /\ UNCHANGED programVars

(* recvuntil, recverruntil, recvline and recverrline; with send, sendafter *)
(* and sendlineafter.                                                      *)
CallUntil(kind, occ, drop, timeout) ==
    /\ pc = "idle"
    /\ asked' = [kind |-> kind, numb |-> 0, occ |-> occ, drop |-> drop, timeout |-> timeout]
    /\ pc' = "occurrence"
    /\ occurences' = occ
    /\ untilLeft' = timeout /\ onceLeft' = -1 /\ recvLeft' = -1
    /\ data' = << >> /\ once' = << >> /\ buffer' = << >> /\ taken' = << >>
    /\ numb' = 0
    /\ sent' = FALSE
    /\ result' = NoResult
    /\ UNCHANGED programVars

(* The loop of _recvuntil, and the send that may follow it. *)
Occurrence ==
    /\ pc = "occurrence"
    /\ IF occurences = 0
       THEN /\ sent' = (asked.kind = "sendafter")
            /\ Returning("ok", buffer)
            /\ UNCHANGED <<onceLeft, once, occurences>>
       ELSE /\ onceLeft' = Later(untilLeft)
            /\ once' = << >>
            /\ occurences' = occurences - 1
            /\ pc' = "once_loop"
            /\ UNCHANGED <<sent, result>>
    /\ UNCHANGED <<programVars, asked, untilLeft, recvLeft, numb, data, buffer, taken>>

(* Mutant: the deadline starts anew with every byte. *)
OnceLoopRestarts ==
    /\ pc = "once_loop"
    /\ recvLeft' = asked.timeout /\ onceLeft' = asked.timeout
    /\ numb' = 1
    /\ data' = << >>
    /\ pc' = "recv_loop"
    /\ UNCHANGED <<programVars, asked, untilLeft, occurences, once, buffer, taken, sent, result>>

(* The head of the loop of _recvonceuntil. *)
OnceLoop ==
    /\ pc = "once_loop"
    /\ IF onceLeft < 0
       THEN Returning("TimeoutError", << >>) /\ UNCHANGED <<recvLeft, numb, data>>
       ELSE /\ recvLeft' = Later(onceLeft)
            /\ numb' = 1
            /\ data' = << >>
            /\ pc' = "recv_loop"
            /\ UNCHANGED result
    /\ UNCHANGED <<programVars, asked, untilLeft, onceLeft, occurences, once, buffer, taken, sent>>

(* Mutant: one byte is dropped whatever the delimiter. *)
OnceDataDropOne ==
    /\ pc = "once_data"
    /\ LET dropped == IF asked.drop THEN SubSeq(once, 1, Len(once) - 1) ELSE once
       IN  IF DelimFound
           THEN pc' = "occurrence" /\ buffer' = buffer \o dropped
           ELSE pc' = "once_loop" /\ UNCHANGED buffer
    /\ UNCHANGED <<programVars, asked, clocks, occurences, numb, data, once, taken, sent, result>>

(* The rest of that loop. *)
OnceData ==
    /\ pc = "once_data"
    /\ LET dropped == IF asked.drop THEN SubSeq(once, 1, Len(once) - Len(delims)) ELSE once
       IN  IF DelimFound
           THEN pc' = "occurrence" /\ buffer' = buffer \o dropped
           ELSE pc' = "once_loop" /\ UNCHANGED buffer
    /\ UNCHANGED <<programVars, asked, clocks, occurences, numb, data, once, taken, sent, result>>

(* Where _recv returns to. *)
RecvReturns(bytes) ==
    IF asked.kind = "recv"
    THEN Returning("ok", bytes) /\ UNCHANGED once
    ELSE pc' = "once_data" /\ once' = once \o bytes /\ UNCHANGED result

(* The head of the loop of _recv. *)
RecvLoop ==
    /\ pc = "recv_loop"
    /\ IF numb = 0 \/ recvLeft < 0 THEN RecvReturns(data)
       ELSE pc' = "select" /\ UNCHANGED <<once, result>>
    /\ UNCHANGED <<programVars, asked, clocks, occurences, numb, data, buffer, taken, sent>>

Ready == stdout # << >> \/ ~alive

(* select gives up. *)
SelectTimeout ==
    /\ pc \in {"select", "select_once"}
    /\ ~Ready /\ recvLeft <= 0
    /\ RecvReturns(data)
    /\ UNCHANGED <<programVars, asked, clocks, occurences, numb, data, buffer, taken, sent>>

Least(m, n) == IF m <= n THEN m ELSE n

(* How much os.read takes: all there is, up to what is asked for. *)
Readable == IF pc = "select_once" THEN Len(stdout) ELSE Least(numb, Len(stdout))

(* Mutant: what has been read so far is replaced. *)
ReadReplaces ==
    /\ pc \in {"select", "select_once"}
    /\ stdout # << >>
    /\ LET new == SubSeq(stdout, 1, Readable)
       IN  /\ stdout' = SubSeq(stdout, Readable + 1, Len(stdout))
           /\ taken' = taken \o new
           /\ data' = new
           /\ numb' = IF pc = "select_once" THEN numb ELSE numb - Len(new)
           /\ IF pc = "select_once" THEN RecvReturns(new)
              ELSE pc' = "recv_loop" /\ UNCHANGED <<once, result>>
    /\ UNCHANGED <<written, alive, asked, clocks, occurences, buffer, sent>>

Read ==
    /\ pc \in {"select", "select_once"}
    /\ stdout # << >>
    /\ LET new == SubSeq(stdout, 1, Readable)
       IN  /\ stdout' = SubSeq(stdout, Readable + 1, Len(stdout))
           /\ taken' = taken \o new
           /\ data' = data \o new
           /\ numb' = IF pc = "select_once" THEN numb ELSE numb - Len(new)
           /\ IF pc = "select_once" THEN RecvReturns(data \o new)
              ELSE pc' = "recv_loop" /\ UNCHANGED <<once, result>>
    /\ UNCHANGED <<written, alive, asked, clocks, occurences, buffer, sent>>

(* The program has gone and all is read: a read of the pseudoterminal      *)
(* fails, it does not return an empty string.                              *)
ReadFails ==
    /\ pc \in {"select", "select_once"}
    /\ stdout = << >> /\ ~alive
    /\ Returning(IF pc = "select" THEN "RuntimeError" ELSE "OSError", << >>)
    /\ UNCHANGED <<programVars, asked, clocks, occurences, numb, data, once, buffer, taken, sent>>

-------------------------------------------------------------------------------
PipesInit ==
    /\ stdout = << >> /\ written = 0 /\ alive = TRUE
    /\ pc = "idle"
    /\ asked = NoCall
    /\ untilLeft = -1 /\ onceLeft = -1 /\ recvLeft = -1
    /\ occurences = 0 /\ numb = 0
    /\ data = << >> /\ once = << >> /\ buffer = << >> /\ taken = << >>
    /\ sent = FALSE
    /\ result = NoResult

Calling ==
    \/ \E n \in Numbs, t \in Timeouts : CallRecv(n, t)
    \/ \E kind \in {"recvuntil", "sendafter"}, occ \in Occurences, drop \in BOOLEAN,
          t \in Timeouts : CallUntil(kind, occ, drop, t)

Library == Occurrence \/ OnceLoop \/ OnceData \/ RecvLoop \/ SelectTimeout \/ Read \/ ReadFails

PipesNext == Calling \/ Library \/ Tick \/ Exit \/ (\E b \in Bytes : Write(b))

PipesSpec == PipesInit /\ [][PipesNext]_pipeVars

-------------------------------------------------------------------------------
(* Properties. *)

Until == asked.kind \in {"recvuntil", "sendafter"}
Over == pc = "idle" /\ asked.kind # "none"

(* Where the delimiters end that are found one after the other in s. *)
EndsIn(s) ==
    LET from[i \in 0..Len(s)] ==   \* the ends of the delimiters in the first i bytes
            IF i = 0 THEN << >>
            ELSE LET before == from[i - 1]
                     start == IF before = << >> THEN 0 ELSE Last(before)
                 IN  IF /\ i - Len(delims) >= start
                        /\ SubSeq(s, i - Len(delims) + 1, i) = delims
                     THEN Append(before, i) ELSE before
    IN  from[Len(s)]

(* What is left of s without the delimiters that end at the given places. *)
Without(s, ends) ==
    LET gone == UNION {(e - Len(delims) + 1)..e : e \in ToSet(ends)}
        kept[i \in 0..Len(s)] ==
            IF i = 0 THEN << >> ELSE IF i \in gone THEN kept[i - 1] ELSE Append(kept[i - 1], s[i])
    IN  kept[Len(s)]

(* A recvuntil that returns has read up to the end of the last delimiter   *)
(* it was asked for, and not a byte more, however the bytes arrived; it    *)
(* returns them all, or all but the delimiters if these are dropped.  It   *)
(* never takes more delimiters, even if it fails in the end; a             *)
(* TimeoutError comes only after the time that the script has given, in    *)
(* spite of the three deadlines; and sendafter sends only after success.   *)
UntilExact ==
    LET ends == EndsIn(taken)
    IN  /\ Over /\ Until /\ result.status = "ok" =>
              /\ Len(ends) = asked.occ
              /\ Last(ends) = Len(taken)
              /\ result.data = IF asked.drop THEN Without(taken, ends) ELSE taken
        /\ Until => Len(ends) <= asked.occ
        /\ Over /\ Until /\ result.status = "TimeoutError" => untilLeft < 0
        /\ sent => Len(ends) = asked.occ /\ result.status = "ok"

(* recv(n) returns what it has read, in order, and at most n bytes; fewer  *)
(* only after the timeout.                                                 *)
RecvExact ==
    Over /\ asked.kind = "recv" /\ asked.numb > 0 /\ result.status = "ok" =>
        /\ result.data = taken
        /\ Len(taken) <= asked.numb
        /\ Len(taken) < asked.numb => recvLeft <= 0

(* Every call returns: no chain of deadlines keeps it waiting for ever,    *)
(* whatever the program does.                                              *)
CallsReturn == (pc # "idle") ~> (pc = "idle")

================================================================================
