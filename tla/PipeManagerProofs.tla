--------------------------- MODULE PipeManagerProofs ---------------------------
(***************************************************************************)
(* For every program, delimiter and timeout: recv returns what it has read *)
(* and no more than it was asked for, and recvuntil loses nothing on the   *)
(* way through its three loops and gives up no earlier than it was told.   *)
(***************************************************************************)
EXTENDS PipeManager, TLAPS

(* The parts of the state the argument computes with. *)
Shape ==
    /\ stdout \in Seq(Bytes)
    /\ pc \in {"idle", "select_once", "recv_loop", "select", "occurrence", "once_loop", "once_data"}
    /\ asked.kind \in {"none", "recv", "recvuntil", "sendafter"}
    /\ asked.kind = "none" => pc = "idle"
    /\ asked.numb \in Nat
    /\ untilLeft \in Int /\ onceLeft \in Int /\ recvLeft \in Int
    /\ occurences \in Nat /\ numb \in Nat
    /\ data \in Seq(Bytes) /\ once \in Seq(Bytes) /\ buffer \in Seq(Bytes) /\ taken \in Seq(Bytes)

(* A recv: what is received and what is left add up to what was asked for. *)
RecvInv ==
    asked.kind = "recv" =>
        /\ pc \in {"idle", "select_once", "recv_loop", "select"}
        /\ pc = "select_once" => asked.numb = 0
        /\ asked.numb > 0 /\ pc \in {"recv_loop", "select"} =>
              /\ data = taken /\ Len(taken) + numb = asked.numb
              /\ pc = "select" => numb > 0

(* A recvuntil: every byte that was read is in one of the three buffers,   *)
(* and the deadlines inside end no earlier than the one around them.       *)
UntilInv ==
    Until =>
        /\ pc # "select_once"
        /\ ~asked.drop =>
              /\ pc = "occurrence" => taken = buffer
              /\ pc \in {"once_loop", "once_data"} => taken = buffer \o once
              /\ pc \in {"recv_loop", "select"} => taken = buffer \o (once \o data)
        /\ pc \in {"once_loop", "once_data", "recv_loop", "select"} => untilLeft <= onceLeft

(* A recvuntil that does not drop its delimiters returns all that it has   *)
(* read; a TimeoutError comes only after the time that the script has      *)
(* given; and sendafter sends only after success.                          *)
UntilKeeps ==
    /\ Over /\ Until /\ ~asked.drop /\ result.status = "ok" => result.data = taken
    /\ Over /\ Until /\ result.status = "TimeoutError" => untilLeft < 0
    /\ sent => Over /\ asked.kind = "sendafter" /\ result.status = "ok"

IndInv == Shape /\ RecvInv /\ UntilInv /\ RecvExact /\ UntilKeeps

-------------------------------------------------------------------------------
LEMMA EmptyIs == << >> \in Seq(Bytes) /\ Len(<< >>) = 0
OBVIOUS

LEMMA ConcatType ==
    ASSUME NEW p \in Seq(Bytes), NEW q \in Seq(Bytes)
    PROVE  p \o q \in Seq(Bytes) /\ Len(p \o q) = Len(p) + Len(q)
OBVIOUS

LEMMA ConcatEmpty ==
    ASSUME NEW p \in Seq(Bytes)
    PROVE  p \o << >> = p
OBVIOUS

LEMMA SplitIs ==
    ASSUME NEW s \in Seq(Bytes), NEW n \in 0..Len(s)
    PROVE  /\ SubSeq(s, 1, n) \in Seq(Bytes) /\ Len(SubSeq(s, 1, n)) = n
           /\ SubSeq(s, n + 1, Len(s)) \in Seq(Bytes)
OBVIOUS

-------------------------------------------------------------------------------
LEMMA IndInit == PipesInit => IndInv
<1> SUFFICES ASSUME PipesInit PROVE IndInv
  OBVIOUS
<1>1. Shape
  BY EmptyIs DEF PipesInit, Shape, NoCall
<1>2. RecvInv /\ UntilInv /\ RecvExact /\ UntilKeeps
  BY DEF PipesInit, RecvInv, UntilInv, RecvExact, UntilKeeps, Until, Over, NoCall, NoResult
<1> QED BY <1>1, <1>2 DEF IndInv

(* The program and the clock leave what was read alone; time only passes   *)
(* while a call is under way, for all its deadlines alike.                 *)
LEMMA WorldStep ==
    ASSUME IndInv, Tick \/ Exit \/ (\E b \in Bytes : Write(b)) \/ UNCHANGED pipeVars
    PROVE  IndInv'
<1>1. CASE Tick
  <2>1. /\ UNCHANGED <<stdout, written, alive, pc, asked, occurences, numb, data, once, buffer, taken>>
        /\ UNCHANGED <<sent, result>> /\ pc # "idle"
        /\ untilLeft' = (IF untilLeft >= 0 THEN untilLeft - 1 ELSE -1)
        /\ onceLeft' = (IF onceLeft >= 0 THEN onceLeft - 1 ELSE -1)
        /\ recvLeft' = (IF recvLeft >= 0 THEN recvLeft - 1 ELSE -1)
    BY <1>1 DEF Tick, programVars
  <2>2. untilLeft \in Int /\ onceLeft \in Int /\ recvLeft \in Int
    BY DEF IndInv, Shape
  <2>3. /\ untilLeft' \in Int /\ onceLeft' \in Int /\ recvLeft' \in Int
        /\ untilLeft <= onceLeft => untilLeft' <= onceLeft'
    BY <2>1, <2>2
  <2>4. Shape'
    BY <2>1, <2>3 DEF IndInv, Shape
  <2>5. RecvInv' /\ UntilInv'
    BY <2>1, <2>3 DEF IndInv, RecvInv, UntilInv, Until
  <2>6. RecvExact' /\ UntilKeeps'
    BY <2>1 DEF IndInv, RecvExact, UntilKeeps, Over
  <2> QED BY <2>4, <2>5, <2>6 DEF IndInv
<1>2. CASE Exit \/ (\E b \in Bytes : Write(b)) \/ UNCHANGED pipeVars
  <2>1. /\ UNCHANGED <<pc, asked, occurences, numb, data, once, buffer, taken, sent, result>>
        /\ UNCHANGED <<untilLeft, onceLeft, recvLeft>>
    BY <1>2 DEF Exit, Write, pipeVars, clocks
  <2>2. stdout' \in Seq(Bytes)
    <3>1. stdout' = stdout \/ \E b \in Bytes : stdout' = Append(stdout, b)
      BY <1>2 DEF Exit, Write, pipeVars, programVars
    <3>2. \A b \in Bytes : Append(stdout, b) \in Seq(Bytes)
      BY DEF IndInv, Shape
    <3> QED BY <3>1, <3>2 DEF IndInv, Shape
  <2>3. Shape'
    BY <2>1, <2>2 DEF IndInv, Shape
  <2>4. RecvInv' /\ UntilInv' /\ RecvExact' /\ UntilKeeps'
    BY <2>1 DEF IndInv, RecvInv, UntilInv, RecvExact, UntilKeeps, Until, Over
  <2> QED BY <2>3, <2>4 DEF IndInv
<1> QED BY <1>1, <1>2

LEMMA CallStep == ASSUME IndInv, Calling PROVE IndInv'
<1>1. ASSUME NEW n \in Numbs, NEW t \in Timeouts, CallRecv(n, t) PROVE IndInv'
  <2>1. n \in Nat /\ t \in Nat
    BY PipeAssumption
  <2>2. /\ asked' = [kind |-> "recv", numb |-> n, occ |-> 0, drop |-> FALSE, timeout |-> t]
        /\ pc' = (IF n = 0 THEN "select_once" ELSE "recv_loop") /\ numb' = n
        /\ recvLeft' = t /\ onceLeft' = -1 /\ untilLeft' = -1
        /\ data' = << >> /\ once' = << >> /\ buffer' = << >> /\ taken' = << >>
        /\ occurences' = 0 /\ sent' = FALSE /\ result' = NoResult
        /\ UNCHANGED <<stdout, written, alive>>
    BY <1>1 DEF CallRecv, NoCall, programVars
  <2>3. Shape'
    BY <2>1, <2>2, EmptyIs DEF IndInv, Shape
  <2>4. RecvInv' /\ UntilInv' /\ RecvExact' /\ UntilKeeps'
    BY <2>1, <2>2, EmptyIs DEF RecvInv, UntilInv, RecvExact, UntilKeeps, Until, Over
  <2> QED BY <2>3, <2>4 DEF IndInv
<1>2. ASSUME NEW kind \in {"recvuntil", "sendafter"}, NEW occ \in Occurences, NEW drop \in BOOLEAN,
             NEW t \in Timeouts, CallUntil(kind, occ, drop, t)
      PROVE  IndInv'
  <2>1. occ \in Nat /\ t \in Nat
    BY PipeAssumption
  <2>2. /\ asked' = [kind |-> kind, numb |-> 0, occ |-> occ, drop |-> drop, timeout |-> t]
        /\ pc' = "occurrence" /\ occurences' = occ /\ numb' = 0
        /\ untilLeft' = t /\ onceLeft' = -1 /\ recvLeft' = -1
        /\ data' = << >> /\ once' = << >> /\ buffer' = << >> /\ taken' = << >>
        /\ sent' = FALSE /\ result' = NoResult
        /\ UNCHANGED <<stdout, written, alive>>
    BY <1>2 DEF CallUntil, programVars
  <2>3. Shape'
    BY <2>1, <2>2, EmptyIs DEF IndInv, Shape
  <2>4. RecvInv' /\ UntilInv' /\ RecvExact' /\ UntilKeeps'
    BY <2>1, <2>2 DEF RecvInv, UntilInv, RecvExact, UntilKeeps, Until, Over
  <2> QED BY <2>3, <2>4 DEF IndInv
<1> QED BY <1>1, <1>2 DEF Calling

-------------------------------------------------------------------------------
(* The loops of recvuntil. *)

LEMMA OccurrenceStep == ASSUME IndInv, Occurrence PROVE IndInv'
<1>1. /\ UNCHANGED <<stdout, written, alive, asked, untilLeft, recvLeft, numb, data, buffer, taken>>
      /\ pc = "occurrence"
      /\ \/ /\ occurences = 0 /\ sent' = (asked.kind = "sendafter") /\ pc' = "idle"
            /\ result' = [status |-> "ok", data |-> buffer]
            /\ UNCHANGED <<onceLeft, once, occurences>>
         \/ /\ occurences # 0 /\ onceLeft' = Later(untilLeft) /\ once' = << >>
            /\ occurences' = occurences - 1 /\ pc' = "once_loop" /\ UNCHANGED <<sent, result>>
  BY DEF Occurrence, Returning, programVars
<1>2. Until /\ asked.kind # "recv"
  BY <1>1 DEF IndInv, Shape, RecvInv, Until
<1>3. Later(untilLeft) \in Int /\ untilLeft <= Later(untilLeft)
  BY DEF IndInv, Shape, Later
<1>4. Shape'
  <2>1. onceLeft' \in Int /\ once' \in Seq(Bytes)
    BY <1>1, <1>3, EmptyIs DEF IndInv, Shape
  <2>2. occurences' \in Nat /\ pc' \in {"idle", "once_loop"}
    BY <1>1 DEF IndInv, Shape
  <2> QED BY <1>1, <1>2, <2>1, <2>2 DEF IndInv, Shape, Until
<1>5. UntilInv' /\ RecvInv' /\ RecvExact'
  <2>1. buffer \o << >> = buffer
    BY ConcatEmpty DEF IndInv, Shape
  <2> QED BY <1>1, <1>2, <1>3, <2>1 DEF IndInv, UntilInv, RecvInv, RecvExact, Until
<1>6. UntilKeeps'
  <2>1. ~sent
    BY <1>1 DEF IndInv, UntilKeeps, Over
  <2>2. sent' => pc' = "idle" /\ asked.kind = "sendafter" /\ result' = [status |-> "ok", data |-> buffer]
    BY <1>1, <2>1, Zenon
  <2>3. pc' = "idle" => result' = [status |-> "ok", data |-> buffer]
    BY <1>1
  <2> QED BY <1>1, <1>2, <2>2, <2>3 DEF IndInv, UntilKeeps, UntilInv, Until, Over
<1> QED BY <1>4, <1>5, <1>6 DEF IndInv

LEMMA OnceLoopStep == ASSUME IndInv, OnceLoop PROVE IndInv'
<1>1. /\ UNCHANGED <<stdout, written, alive, asked, untilLeft, onceLeft, occurences, once, buffer, taken, sent>>
      /\ pc = "once_loop"
      /\ \/ /\ onceLeft < 0 /\ pc' = "idle" /\ result' = [status |-> "TimeoutError", data |-> << >>]
            /\ UNCHANGED <<recvLeft, numb, data>>
         \/ /\ recvLeft' = Later(onceLeft) /\ numb' = 1 /\ data' = << >>
            /\ pc' = "recv_loop" /\ UNCHANGED result
  BY DEF OnceLoop, Returning, programVars
<1>2. Until /\ asked.kind # "recv"
  BY <1>1 DEF IndInv, Shape, RecvInv, Until
<1>3. Later(onceLeft) \in Int
  BY DEF IndInv, Shape, Later
<1>4. Shape'
  <2>1. recvLeft' \in Int /\ numb' \in Nat
    BY <1>1, <1>3 DEF IndInv, Shape
  <2>2. data' \in Seq(Bytes) /\ pc' \in {"idle", "recv_loop"}
    BY <1>1, EmptyIs DEF IndInv, Shape
  <2> QED BY <1>1, <1>2, <2>1, <2>2 DEF IndInv, Shape, Until
<1>5. UntilInv' /\ RecvInv' /\ RecvExact'
  <2>1. once \o << >> = once
    BY ConcatEmpty DEF IndInv, Shape
  <2> QED BY <1>1, <1>2, <2>1 DEF IndInv, UntilInv, RecvInv, RecvExact, Until
<1>6. UntilKeeps'
  <2>1. onceLeft < 0 => untilLeft < 0
    BY <1>1, <1>2 DEF IndInv, Shape, UntilInv
  <2> QED BY <1>1, <1>2, <2>1 DEF IndInv, UntilKeeps, Until, Over
<1> QED BY <1>4, <1>5, <1>6 DEF IndInv

LEMMA OnceDataStep == ASSUME IndInv, OnceData PROVE IndInv'
<1> DEFINE dropped == IF asked.drop THEN SubSeq(once, 1, Len(once) - Len(delims)) ELSE once
<1>1. /\ UNCHANGED <<stdout, written, alive, asked, untilLeft, onceLeft, recvLeft, occurences, numb, data>>
      /\ UNCHANGED <<once, taken, sent, result>> /\ pc = "once_data"
      /\ \/ DelimFound /\ pc' = "occurrence" /\ buffer' = buffer \o dropped
         \/ pc' = "once_loop" /\ UNCHANGED buffer
  BY DEF OnceData, programVars, clocks
<1>2. Until /\ asked.kind # "recv"
  BY <1>1 DEF IndInv, Shape, RecvInv, Until
<1>3. DelimFound => dropped \in Seq(Bytes)
  <2>1. once \in Seq(Bytes) /\ Len(once) \in Nat /\ Len(delims) \in Nat
    BY PipeAssumption DEF IndInv, Shape
  <2>2. DelimFound => Len(once) - Len(delims) \in 0..Len(once)
    BY <2>1 DEF DelimFound
  <2> QED BY <2>1, <2>2, SplitIs
<1>4. Shape'
  <2>1. buffer' \in Seq(Bytes)
    BY <1>1, <1>3, ConcatType DEF IndInv, Shape
  <2> QED BY <1>1, <2>1 DEF IndInv, Shape
<1>5. UntilInv' /\ RecvInv' /\ RecvExact' /\ UntilKeeps'
  BY <1>1, <1>2 DEF IndInv, UntilInv, RecvInv, RecvExact, UntilKeeps, Until, Over
<1> QED BY <1>4, <1>5 DEF IndInv

-------------------------------------------------------------------------------
(* recv *)

(* Where _recv returns, all that was read is in the hands of its caller.   *)
LEMMA ReturnStep ==
    ASSUME IndInv, NEW bytes \in Seq(Bytes), RecvReturns(bytes),
           pc \in {"select_once", "recv_loop", "select"},
           UNCHANGED <<asked, untilLeft, onceLeft, recvLeft, occurences, buffer, sent, written, alive>>,
           stdout' \in Seq(Bytes), data' \in Seq(Bytes), numb' \in Nat, taken' \in Seq(Bytes),
           Until /\ ~asked.drop => taken' = buffer \o (once \o bytes),
           (asked.kind = "recv" /\ asked.numb > 0) =>
               /\ bytes = taken' /\ Len(taken') <= asked.numb
               /\ Len(taken') < asked.numb => recvLeft <= 0
    PROVE  IndInv'
<1>1. CASE asked.kind = "recv"
  <2>1. /\ pc' = "idle" /\ result' = [status |-> "ok", data |-> bytes] /\ once' = once
        /\ ~Until /\ ~Until'
    BY <1>1 DEF RecvReturns, Returning, Until
  <2>2. Shape'
    BY <2>1 DEF IndInv, Shape
  <2>3. RecvInv' /\ UntilInv'
    BY <1>1, <2>1 DEF RecvInv, UntilInv
  <2>4. RecvExact'
    BY <1>1, <2>1 DEF RecvExact
  <2>5. ~sent /\ UntilKeeps'
    BY <1>1, <2>1 DEF IndInv, UntilKeeps, Over
  <2> QED BY <2>2, <2>3, <2>4, <2>5 DEF IndInv
<1>2. CASE asked.kind # "recv"
  <2>1. pc' = "once_data" /\ once' = once \o bytes /\ result' = result
    BY <1>2 DEF RecvReturns
  <2>2. once' \in Seq(Bytes)
    BY <2>1, ConcatType DEF IndInv, Shape
  <2>3. Shape'
    BY <2>1, <2>2 DEF IndInv, Shape
  <2>4. RecvInv' /\ RecvExact'
    BY <1>2, <2>1 DEF RecvInv, RecvExact
  <2>5. UntilInv'
    BY <1>2, <2>1 DEF IndInv, UntilInv, Until
  <2>6. UntilKeeps'
    BY <2>1 DEF IndInv, UntilKeeps, Over
  <2> QED BY <2>3, <2>4, <2>5, <2>6 DEF IndInv
<1> QED BY <1>1, <1>2

LEMMA RecvLoopStep == ASSUME IndInv, RecvLoop PROVE IndInv'
<1>1. /\ pc = "recv_loop"
      /\ UNCHANGED <<stdout, written, alive, asked, untilLeft, onceLeft, recvLeft, occurences>>
      /\ UNCHANGED <<numb, data, buffer, taken, sent>>
      /\ \/ (numb = 0 \/ recvLeft < 0) /\ RecvReturns(data)
         \/ numb # 0 /\ pc' = "select" /\ UNCHANGED <<once, result>>
  BY DEF RecvLoop, programVars, clocks
<1>2. data \in Seq(Bytes) /\ taken \in Seq(Bytes) /\ numb \in Nat /\ recvLeft \in Int /\ asked.numb \in Nat
  BY DEF IndInv, Shape
<1>3. CASE (numb = 0 \/ recvLeft < 0) /\ RecvReturns(data)
  <2>1. Until /\ ~asked.drop => taken' = buffer \o (once \o data)
    BY <1>1 DEF IndInv, UntilInv
  <2>2. (asked.kind = "recv" /\ asked.numb > 0) =>
            /\ data = taken' /\ Len(taken') <= asked.numb
            /\ Len(taken') < asked.numb => recvLeft <= 0
    BY <1>1, <1>2, <1>3 DEF IndInv, RecvInv
  <2> QED BY <1>1, <1>2, <1>3, <2>1, <2>2, ReturnStep DEF IndInv, Shape
<1>4. CASE numb # 0 /\ pc' = "select" /\ UNCHANGED <<once, result>>
  <2>1. Shape'
    BY <1>1, <1>4 DEF IndInv, Shape
  <2>2. RecvInv'
    BY <1>1, <1>2, <1>4 DEF IndInv, RecvInv
  <2>3. UntilInv'
    BY <1>1, <1>4 DEF IndInv, UntilInv, Until
  <2>4. RecvExact' /\ UntilKeeps'
    BY <1>1, <1>4 DEF IndInv, RecvExact, UntilKeeps, Over
  <2> QED BY <2>1, <2>2, <2>3, <2>4 DEF IndInv
<1> QED BY <1>1, <1>3, <1>4

LEMMA SelectTimeoutStep == ASSUME IndInv, SelectTimeout PROVE IndInv'
<1>1. /\ pc \in {"select", "select_once"} /\ recvLeft <= 0 /\ RecvReturns(data)
      /\ UNCHANGED <<stdout, written, alive, asked, untilLeft, onceLeft, recvLeft, occurences>>
      /\ UNCHANGED <<numb, data, buffer, taken, sent>>
  BY DEF SelectTimeout, programVars, clocks
<1>2. data \in Seq(Bytes) /\ taken \in Seq(Bytes) /\ numb \in Nat /\ recvLeft \in Int /\ asked.numb \in Nat
  BY DEF IndInv, Shape
<1>3. Until /\ ~asked.drop => taken' = buffer \o (once \o data)
  BY <1>1 DEF IndInv, UntilInv
<1>4. (asked.kind = "recv" /\ asked.numb > 0) =>
          /\ data = taken' /\ Len(taken') <= asked.numb
          /\ Len(taken') < asked.numb => recvLeft <= 0
  BY <1>1, <1>2 DEF IndInv, RecvInv
<1> QED BY <1>1, <1>2, <1>3, <1>4, ReturnStep DEF IndInv, Shape

(* What is read is moved from the pipe to the data, no more than asked for. *)
LEMMA ReadStep == ASSUME IndInv, Read PROVE IndInv'
<1> DEFINE new == SubSeq(stdout, 1, Readable)
<1>1. /\ pc \in {"select", "select_once"} /\ stdout # << >>
      /\ stdout' = SubSeq(stdout, Readable + 1, Len(stdout))
      /\ taken' = taken \o new /\ data' = data \o new
      /\ UNCHANGED <<written, alive, asked, untilLeft, onceLeft, recvLeft, occurences, buffer, sent>>
  BY DEF Read, clocks
<1>2. \/ pc = "select_once" /\ numb' = numb /\ RecvReturns(data \o new)
      \/ pc = "select" /\ numb' = numb - Len(new) /\ pc' = "recv_loop" /\ UNCHANGED <<once, result>>
  BY DEF Read
<1>3. /\ stdout \in Seq(Bytes) /\ data \in Seq(Bytes) /\ taken \in Seq(Bytes) /\ once \in Seq(Bytes)
      /\ buffer \in Seq(Bytes) /\ numb \in Nat /\ asked.numb \in Nat
  BY DEF IndInv, Shape
<1>4. Readable \in 0..Len(stdout) /\ (pc = "select" => Readable <= numb)
  BY <1>3 DEF Readable, Least
<1>5. /\ new \in Seq(Bytes) /\ Len(new) = Readable /\ stdout' \in Seq(Bytes)
      /\ taken' \in Seq(Bytes) /\ Len(taken') = Len(taken) + Len(new) /\ data' \in Seq(Bytes)
  BY <1>1, <1>3, <1>4, SplitIs, ConcatType
<1> HIDE DEF new
<1>6. CASE pc = "select_once" /\ numb' = numb /\ RecvReturns(data \o new)
  <2>1. ~Until /\ ~(asked.kind = "recv" /\ asked.numb > 0)
    BY <1>3, <1>6 DEF IndInv, RecvInv, UntilInv
  <2>2. numb' \in Nat
    BY <1>3, <1>6
  <2>3. data \o new \in Seq(Bytes)
    BY <1>1, <1>5
  <2> QED BY <1>1, <1>5, <1>6, <2>1, <2>2, <2>3, ReturnStep
<1>7. CASE pc = "select" /\ numb' = numb - Len(new) /\ pc' = "recv_loop" /\ UNCHANGED <<once, result>>
  <2>1. numb' \in Nat
    BY <1>3, <1>4, <1>5, <1>7
  <2>2. Shape'
    BY <1>1, <1>5, <1>7, <2>1 DEF IndInv, Shape
  <2>3. RecvInv'
    <3>1. (asked.kind = "recv" /\ asked.numb > 0) =>
              data' = taken' /\ Len(taken') + numb' = asked.numb
      BY <1>1, <1>3, <1>4, <1>5, <1>7, SMTT(30) DEF IndInv, RecvInv
    <3> QED BY <1>1, <1>7, <3>1 DEF RecvInv
  <2>4. UntilInv'
    <3>1. (Until /\ ~asked.drop) => taken' = buffer \o (once \o data')
      <4> SUFFICES ASSUME Until, ~asked.drop PROVE taken' = buffer \o (once \o data')
        OBVIOUS
      <4>1. taken' = (buffer \o (once \o data)) \o new
        BY <1>1, <1>7 DEF IndInv, UntilInv
      <4>2. (buffer \o (once \o data)) \o new = buffer \o (once \o (data \o new))
        <5>1. buffer \in Seq(Bytes) /\ once \in Seq(Bytes) /\ data \in Seq(Bytes) /\ new \in Seq(Bytes)
          BY <1>3, <1>5
        <5> QED BY <5>1, SMTT(30)
      <4> QED BY <1>1, <4>1, <4>2
    <3> QED BY <1>1, <1>7, <3>1 DEF IndInv, UntilInv, Until
  <2>5. RecvExact' /\ UntilKeeps'
    BY <1>1, <1>7 DEF IndInv, RecvExact, UntilKeeps, Over
  <2> QED BY <2>2, <2>3, <2>4, <2>5 DEF IndInv
<1> QED BY <1>2, <1>6, <1>7

LEMMA ReadFailsStep == ASSUME IndInv, ReadFails PROVE IndInv'
<1>1. /\ pc \in {"select", "select_once"} /\ pc' = "idle"
      /\ \E s \in {"RuntimeError", "OSError"} : result' = [status |-> s, data |-> << >>]
      /\ UNCHANGED <<stdout, written, alive, asked, untilLeft, onceLeft, recvLeft, occurences>>
      /\ UNCHANGED <<numb, data, once, buffer, taken, sent>>
  BY DEF ReadFails, Returning, programVars, clocks
<1>2. Shape'
  BY <1>1, EmptyIs DEF IndInv, Shape
<1>3. RecvInv' /\ UntilInv' /\ RecvExact'
  BY <1>1 DEF IndInv, RecvInv, UntilInv, RecvExact, Until
<1>4. UntilKeeps'
  BY <1>1 DEF IndInv, UntilKeeps, Over
<1> QED BY <1>2, <1>3, <1>4 DEF IndInv

-------------------------------------------------------------------------------
LEMMA IndNext == ASSUME IndInv, [PipesNext]_pipeVars PROVE IndInv'
<1>1. CASE Calling
  BY <1>1, CallStep
<1>2. CASE Library
  BY <1>2, OccurrenceStep, OnceLoopStep, OnceDataStep, RecvLoopStep, SelectTimeoutStep, ReadStep,
     ReadFailsStep DEF Library
<1>3. CASE Tick \/ Exit \/ (\E b \in Bytes : Write(b)) \/ UNCHANGED pipeVars
  BY <1>3, WorldStep
<1> QED BY <1>1, <1>2, <1>3 DEF PipesNext

LEMMA Invariant == PipesSpec => []IndInv
<1>1. PipesInit => IndInv
  BY IndInit
<1>2. IndInv /\ [PipesNext]_pipeVars => IndInv'
  BY IndNext
<1> QED BY <1>1, <1>2, PTL DEF PipesSpec

(* recv(n) returns what it has read, in order, and at most n bytes, and    *)
(* fewer only after its timeout, however many reads the program's writes   *)
(* were split into.                                                        *)
THEOREM RecvCorrect == PipesSpec => []RecvExact
<1>1. IndInv => RecvExact
  BY DEF IndInv
<1> QED BY <1>1, Invariant, PTL

(* A recvuntil that does not drop its delimiters returns, on success, all  *)
(* that it has read from the pipe; its TimeoutError comes only after the   *)
(* time that the script gave it, in spite of the deadline that each of the *)
(* inner loops computes for itself; and sendafter has sent only after      *)
(* success.                                                                *)
THEOREM UntilKeepsAll == PipesSpec => []UntilKeeps
<1>1. IndInv => UntilKeeps
  BY DEF IndInv
<1> QED BY <1>1, Invariant, PTL

===============================================================================
