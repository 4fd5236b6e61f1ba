-------------------------- MODULE ThreadRegistryProofs --------------------------
(***************************************************************************)
(* For any number of threads: the lists of threads in C and in Python      *)
(* agree, registers that are written to a thread are its own, all threads  *)
(* are stopped when the script has the process, no waitpid is left without *)
(* an answer, and no batch or step raises.                                 *)
(***************************************************************************)
EXTENDS ThreadRegistry, TLAPS

States == {"none", "new", "run", "clone", "stop", "zombie", "gone", "free"}
Statuses == {"nothing", "stop", "trap", "clone", "exitev", "exit"}
Somebody == Threads \cup {NoThread}
Waiting == {"stopone", "waitnew", "until", "killwait"}
Collecting == {"stopall", "stopone", "handle", "waitnew", "raised"}

TypeOK ==
    /\ uses \in Scenarios
    /\ st \in [Threads -> States] /\ stat \in [Threads -> Statuses]
    /\ child \in [Threads -> Somebody]
    /\ tList \in Seq(Threads) /\ threads \in Seq(Threads) /\ todo \in Seq(Threads)
    /\ results \in Seq(Somebody \X Statuses) /\ next \in Nat \ {0}
    /\ exiting \subseteq Threads /\ dead \subseteq Contexts /\ fresh \subseteq Threads
    /\ waitFor \in Somebody /\ (pc \in Waiting => waitFor \in Threads)

(* Where the statuses of a batch are, and the threads that are waited for. *)
BatchInv ==
    /\ pc \notin Collecting => results = <<>>
    /\ pc \in {"stopall", "stopone"} => 1 \in DOMAIN results
    /\ \A i \in DOMAIN results : results[i][2] = "clone" => results[i][1] \in Threads
    /\ pc \notin {"handle", "waitnew", "raised"} => next = 1
    /\ pc \in {"stopone", "killwait"} => todo # <<>> /\ waitFor = Head(todo)

(* The kernel.  When the whole process is to exit no thread is in a stop   *)
(* but that of its exit event; threads that libdebug has detached from are *)
(* gdb's, or free for good.                                                *)
KernelInv ==
    /\ \A t \in Threads : stat[t] # "nothing" => st[t] = IF stat[t] = "exit" THEN "zombie" ELSE "stop"
    /\ \A t \in Threads : doomed => /\ st[t] \notin {"new", "clone"} /\ stat[t] # "clone"
                                    /\ Stopped(t) => t \in exiting
    /\ \A t \in Contexts : st[t] # "none"
    /\ \A t \in Registered : doomed \/ pc \notin {"gdb", "back", "ended"} => st[t] # "free"

(* A thread whose clone has not been handled yet. *)
Unhandled(t) == \E i \in DOMAIN results : i >= next /\ results[i] = <<t, "clone">>
Pending(t) == st[t] = "clone" \/ stat[t] = "clone" \/ Unhandled(t)

(* Its child is not registered, is that of no other, and it is handled     *)
(* once; it stays in its stop, so that child is not overwritten.           *)
PendingInv ==
    /\ \A t \in Threads : Unhandled(t) /\ ~doomed => Stopped(t)
    /\ \A t \in Threads : Unhandled(t) => stat[t] # "clone"
    /\ \A i, j \in DOMAIN results :
          i >= next /\ j >= next /\ results[i] = results[j] /\ results[i][2] = "clone" => i = j
    /\ \A t \in Threads : Pending(t) => child[t] \in {n \in Threads \ Contexts : st[n] \notin {"none", "free"}}
    /\ \A t, u \in Threads : Pending(t) /\ Pending(u) /\ child[t] = child[u] => t = u
    /\ pc = "waitnew" => /\ next \in DOMAIN results /\ results[next][2] = "clone"
                         /\ results[next][1] \in Threads /\ waitFor = child[results[next][1]]

(* A thread that will not stop again, unless for its exit event. *)
Settled(t) == doomed \/ t \in exiting \/ st[t] \in {"stop", "zombie", "gone"}
(* SETREGS may be made on it. *)
Readable(t) == Stopped(t) => t \in exiting \/ t \in fresh

Todo == {todo[i] : i \in DOMAIN todo}
Answered == {results[i][1] : i \in DOMAIN results} \cap Threads

(* The batch has been collected, or the script has the process. *)
MayFlush == pc \in {"handle", "waitnew", "decide"} \/ (pc = "idle" /\ Main \notin dead)

FreshInv ==
    "gdb runs" \notin uses =>
        /\ ~clobbered
        /\ pc \in {"stopall", "stopone"} => \A t \in Registered \ Todo : Settled(t)
        /\ pc \in {"stopall", "stopone", "handle", "waitnew"} => \A t \in Answered : Settled(t)
        /\ MayFlush => \A t \in Registered : Settled(t) /\ Readable(t)
        /\ pc = "until" => \A t \in Registered \ {waitFor} : Settled(t) /\ Readable(t)
        /\ pc \in {"gdb", "back"} => \A t \in Registered : st[t] \in {"free", "gone"}

(* A breakpoint is changed by a script that has the process, and the       *)
(* process can come back without a thread only after a step.               *)
ChangeInv ==
    /\ Main \in Contexts
    /\ ~({"change", "step"} \subseteq uses) =>
         /\ ~crashed
         /\ changed => /\ "change" \in uses
                       /\ pc \notin {"top", "wait", "stopall", "stopone", "handle", "waitnew", "decide"}

Inv == TypeOK /\ BatchInv /\ KernelInv /\ ListsAgree /\ PendingInv /\ FreshInv /\ ChangeInv

-------------------------------------------------------------------------------
LEMMA ConcatType ==
    ASSUME NEW S, NEW p \in Seq(S), NEW q \in Seq(S)
    PROVE  p \o q \in Seq(S) /\ Len(p \o q) = Len(p) + Len(q)
OBVIOUS

(* RemoveFirst takes one element out and keeps the order of the others. *)
LEMMA RemoveFirstIs ==
    ASSUME NEW s \in Seq(Threads), NEW at \in 1..Len(s),
           \A i \in 1..Len(s) : s[i] = s[at] => i = at
    PROVE  /\ RemoveFirst(s, s[at]) \in Seq(Threads)
           /\ Len(RemoveFirst(s, s[at])) = Len(s) - 1
           /\ \A i \in 1..(Len(s) - 1) :
                 RemoveFirst(s, s[at])[i] = IF i < at THEN s[i] ELSE s[i + 1]
<1> DEFINE p == SubSeq(s, 1, at - 1)
           q == SubSeq(s, at + 1, Len(s))
<1>1. {i \in 1..Len(s) : s[i] = s[at]} = {at}
  OBVIOUS
<1>2. SelectInSeq(s, LAMBDA v : v = s[at]) = at
  BY <1>1 DEF SelectInSeq, Min
<1>3. RemoveFirst(s, s[at]) = p \o q
  BY <1>2 DEF RemoveFirst, RemoveAt
<1>4. /\ p \in Seq(Threads) /\ Len(p) = at - 1
      /\ q \in Seq(Threads) /\ Len(q) = Len(s) - at
      /\ \A i \in 1..(at - 1) : p[i] = s[i]
      /\ \A i \in 1..(Len(s) - at) : q[i] = s[at + i]
  OBVIOUS
<1> HIDE DEF p, q
<1>5. p \o q \in Seq(Threads) /\ Len(p \o q) = Len(s) - 1
  <2>1. Len(s) \in Nat /\ at \in Nat
    OBVIOUS
  <2>2. p \o q \in Seq(Threads) /\ Len(p \o q) = Len(p) + Len(q)
    BY <1>4, ConcatType
  <2> QED BY <1>4, <2>1, <2>2
<1>6. \A i \in 1..(Len(s) - 1) : (p \o q)[i] = IF i < at THEN s[i] ELSE s[i + 1]
  <2> SUFFICES ASSUME NEW i \in 1..(Len(s) - 1)
               PROVE  (p \o q)[i] = IF i < at THEN s[i] ELSE s[i + 1]
    OBVIOUS
  <2>1. CASE i < at
    BY <1>4, <2>1
  <2>2. CASE i >= at
    <3>1. (p \o q)[i] = q[i - Len(p)] /\ i - Len(p) \in 1..(Len(s) - at)
      BY <1>4, <2>2
    <3> QED BY <1>4, <2>2, <3>1
  <2>3. i < at \/ i >= at
    OBVIOUS
  <2> QED BY <2>1, <2>2, <2>3
<1> QED BY <1>3, <1>5, <1>6

(* A new thread, in front in C and last in Python. *)
LEMMA RegisterLists ==
    ASSUME TypeOK, ListsAgree, NEW n \in Threads, n \notin Contexts, Register(n), UNCHANGED dead
    PROVE  /\ ListsAgree'
           /\ tList' \in Seq(Threads) /\ threads' \in Seq(Threads)
           /\ Contexts' = Contexts \cup {n} /\ Registered' = Registered \cup {n}
<1>1. n \notin Registered
  BY DEF ListsAgree
<1>2. tList' = <<n>> \o tList /\ threads' = Append(threads, n)
  BY <1>1 DEF Register, RegisterThread, InsertNewThread
<1>3. /\ tList' \in Seq(Threads) /\ Len(tList') = Len(tList) + 1 /\ tList'[1] = n
      /\ \A i \in 1..Len(tList) : tList'[i + 1] = tList[i]
  BY <1>2 DEF TypeOK
<1>4. /\ threads' \in Seq(Threads) /\ Len(threads') = Len(threads) + 1
      /\ threads'[Len(threads) + 1] = n
      /\ \A i \in 1..Len(threads) : threads'[i] = threads[i]
  BY <1>2 DEF TypeOK
<1>5. /\ DOMAIN tList = 1..Len(tList) /\ DOMAIN threads = 1..Len(threads)
      /\ DOMAIN tList' = 1..(Len(tList) + 1) /\ DOMAIN threads' = 1..(Len(threads) + 1)
      /\ Len(tList) \in Nat /\ Len(threads) \in Nat
  BY <1>3, <1>4 DEF TypeOK
<1>51. \A i \in DOMAIN tList' : i = 1 \/ (i - 1 \in 1..Len(tList) /\ tList'[i] = tList[i - 1])
  <2> SUFFICES ASSUME NEW i \in 1..(Len(tList) + 1), i # 1
               PROVE  i - 1 \in 1..Len(tList) /\ tList'[i] = tList[i - 1]
    BY <1>5
  <2>1. i - 1 \in 1..Len(tList) /\ (i - 1) + 1 = i
    BY <1>5
  <2> QED BY <1>3, <2>1
<1>52. \A k \in DOMAIN threads' : \/ k = Len(threads) + 1
                                  \/ k \in DOMAIN threads /\ threads'[k] = threads[k]
  BY <1>4, <1>5
<1>6. Contexts' = Contexts \cup {n}
  BY <1>4, <1>5 DEF Contexts
<1>7. Registered' = Registered \cup {n}
  <2>1. Registered' \subseteq Registered \cup {n}
    BY <1>3, <1>5, <1>51 DEF Registered
  <2>2. n \in Registered'
    BY <1>3, <1>5 DEF Registered
  <2>3. Registered \subseteq Registered'
    BY <1>3, <1>5 DEF Registered
  <2> QED BY <2>1, <2>2, <2>3
<1>8. \A k, l \in DOMAIN threads' : threads'[k] = threads'[l] => k = l
  BY <1>4, <1>5 DEF ListsAgree, Contexts
<1>9. ASSUME NEW i \in DOMAIN tList', NEW j \in DOMAIN tList', NEW k \in DOMAIN threads',
             NEW l \in DOMAIN threads', i < j, tList'[i] = threads'[k], tList'[j] = threads'[l]
      PROVE  l < k
  <2>1. j - 1 \in DOMAIN tList /\ tList'[j] = tList[j - 1]
    BY <1>5, <1>51, <1>9
  <2>2. l \in DOMAIN threads /\ threads[l] = tList[j - 1]
    <3>1. tList[j - 1] # n
      BY <1>1, <2>1 DEF Registered
    <3> QED BY <1>4, <1>52, <1>9, <2>1, <3>1
  <2>3. CASE i = 1
    BY <1>3, <1>4, <1>5, <1>8, <1>9, <2>2, <2>3, SMTT(30)
  <2>4. CASE i # 1
    <3>1. i - 1 \in DOMAIN tList /\ tList'[i] = tList[i - 1]
      BY <1>5, <1>51, <2>4
    <3>2. k \in DOMAIN threads /\ threads[k] = tList[i - 1]
      <4>1. tList[i - 1] # n
        BY <1>1, <3>1 DEF Registered
      <4> QED BY <1>4, <1>52, <1>9, <3>1, <4>1
    <3> QED BY <1>5, <1>9, <2>1, <2>2, <3>1, <3>2 DEF ListsAgree
  <2> QED BY <2>3, <2>4
<1>10. Registered' = Contexts' \ dead'
  BY <1>6, <1>7 DEF ListsAgree, TypeOK
<1> QED BY <1>3, <1>4, <1>6, <1>7, <1>8, <1>9, <1>10 DEF ListsAgree

(* A thread that is no more leaves the list in C and is marked in Python. *)
LEMMA UnregisterLists ==
    ASSUME TypeOK, ListsAgree, NEW t \in Threads, Known(t), Unregister(t), UNCHANGED threads
    PROVE  /\ ListsAgree'
           /\ tList' \in Seq(Threads)
           /\ Contexts' = Contexts /\ Registered' = Registered \ {t}
<1>0. /\ DOMAIN tList = 1..Len(tList) /\ DOMAIN threads = 1..Len(threads)
      /\ Len(tList) \in Nat /\ Len(threads) \in Nat /\ tList \in Seq(Threads)
  BY DEF TypeOK
<1>1. PICK at \in 1..Len(tList) : tList[at] = t
  BY <1>0 DEF ListsAgree, Known, Registered
<1>2. \A i, j \in 1..Len(tList) : i < j => tList[i] # tList[j]
  <2> SUFFICES ASSUME NEW i \in 1..Len(tList), NEW j \in 1..Len(tList), i < j, tList[i] = tList[j]
               PROVE  FALSE
    OBVIOUS
  <2>1. tList[i] \in Contexts
    BY <1>0 DEF ListsAgree, Registered
  <2>2. PICK k \in DOMAIN threads : threads[k] = tList[i]
    BY <2>1 DEF Contexts
  <2>3. k < k
    BY <1>0, <2>2, SMTT(30) DEF ListsAgree
  <2> QED BY <1>0, <2>2, <2>3
<1>3. \A i \in 1..Len(tList) : tList[i] = tList[at] => i = at
  BY <1>0, <1>2
<1>4. /\ tList' \in Seq(Threads) /\ Len(tList') = Len(tList) - 1
      /\ \A i \in 1..(Len(tList) - 1) : tList'[i] = IF i < at THEN tList[i] ELSE tList[i + 1]
  <2>1. tList' = RemoveFirst(tList, tList[at])
    BY <1>1 DEF Unregister, UnregisterThread
  <2> QED BY <1>0, <1>3, <2>1, RemoveFirstIs
<1>5. DOMAIN tList' = 1..(Len(tList) - 1)
  BY <1>0, <1>4
<1> DEFINE from(i) == IF i < at THEN i ELSE i + 1
<1>6. \A i \in DOMAIN tList' : from(i) \in DOMAIN tList /\ from(i) # at /\ tList'[i] = tList[from(i)]
  BY <1>0, <1>4, <1>5
<1>7. \A i, j \in DOMAIN tList' : i < j => from(i) < from(j)
  BY <1>0, <1>5
<1>8. \A i \in DOMAIN tList : i # at => \E j \in DOMAIN tList' : tList'[j] = tList[i]
  <2> SUFFICES ASSUME NEW i \in DOMAIN tList, i # at
               PROVE  \E j \in DOMAIN tList' : tList'[j] = tList[i]
    OBVIOUS
  <2>1. CASE i < at
    BY <1>0, <1>4, <1>5, <2>1
  <2>2. CASE i > at
    <3>1. i - 1 \in DOMAIN tList' /\ tList'[i - 1] = tList[i]
      BY <1>0, <1>4, <1>5, <2>2
    <3> QED BY <3>1
  <2> QED BY <1>0, <2>1, <2>2
<1> HIDE DEF from
<1>9. Contexts' = Contexts
  BY DEF Contexts
<1>10. Registered' = Registered \ {t}
  BY <1>0, <1>1, <1>3, <1>6, <1>8 DEF Registered
<1>11. Registered' = (Contexts \ dead)'
  BY <1>9, <1>10 DEF ListsAgree, Unregister, SetThreadAsDead
<1>12. \A i, j \in DOMAIN tList' : \A k, l \in DOMAIN threads' :
          i < j /\ tList'[i] = threads'[k] /\ tList'[j] = threads'[l] => l < k
  BY <1>6, <1>7 DEF ListsAgree
<1> QED BY <1>4, <1>9, <1>10, <1>11, <1>12 DEF ListsAgree

-------------------------------------------------------------------------------
LEMMA EmptyIs ==
    ASSUME NEW S
    PROVE  <<>> \in Seq(S) /\ DOMAIN <<>> = {} /\ Len(<<>>) = 0
OBVIOUS

LEMMA SingletonIs ==
    ASSUME NEW S, NEW e \in S
    PROVE  <<e>> \in Seq(S) /\ Len(<<e>>) = 1 /\ DOMAIN <<e>> = {1} /\ <<e>>[1] = e
<1>1. <<e>> \in Seq(S) /\ Len(<<e>>) = 1 /\ DOMAIN <<e>> = 1..1 /\ <<e>>[1] = e
  OBVIOUS
<1>2. 1..1 = {1}
  OBVIOUS
<1> QED BY <1>1, <1>2

LEMMA InvInit == Init => Inv
<1> SUFFICES ASSUME Init PROVE Inv
  OBVIOUS
<1>0. Main \in Threads /\ NoThread \notin Threads
  BY ThreadsAssumption
<1>1. tList \in Seq(Threads) /\ DOMAIN tList = {1} /\ tList[1] = Main
  BY <1>0, SingletonIs DEF Init
<1>2. threads \in Seq(Threads) /\ DOMAIN threads = {1} /\ threads[1] = Main
  BY <1>0, SingletonIs DEF Init
<1>3. results \in Seq(Somebody \X Statuses) /\ todo \in Seq(Threads) /\ DOMAIN results = {}
  <2>1. results = <<>> /\ todo = <<>>
    BY DEF Init
  <2> QED BY <2>1, EmptyIs
<1>4. Contexts = {Main} /\ Registered = {Main}
  BY <1>1, <1>2 DEF Contexts, Registered
<1>5. TypeOK
  <2>1. /\ st \in [Threads -> States] /\ stat \in [Threads -> Statuses]
        /\ child \in [Threads -> Somebody]
    BY DEF Init, States, Statuses, Somebody
  <2>2. uses \in Scenarios /\ next \in Nat \ {0} /\ waitFor \in Somebody /\ pc \notin Waiting
    <3>1. uses \in Scenarios /\ next = 1 /\ waitFor = NoThread /\ pc = "idle"
      BY DEF Init
    <3> QED BY <3>1 DEF Somebody, Waiting
  <2>3. exiting = {} /\ dead = {} /\ fresh = {Main}
    BY DEF Init
  <2> QED BY <1>0, <1>1, <1>2, <1>3, <2>1, <2>2, <2>3 DEF TypeOK
<1>6. BatchInv
  BY <1>3 DEF Init, BatchInv
<1>7. KernelInv
  BY <1>0, <1>4 DEF Init, KernelInv, Stopped
<1>8. ListsAgree
  BY <1>1, <1>2, <1>4 DEF Init, ListsAgree
<1>9. PendingInv
  BY <1>3 DEF Init, PendingInv, Pending, Unhandled
<1>10. FreshInv
  BY <1>0, <1>4 DEF Init, FreshInv, MayFlush, Settled, Readable
<1>11. ChangeInv
  BY <1>4 DEF Init, ChangeInv
<1> QED BY <1>5, <1>6, <1>7, <1>8, <1>9, <1>10, <1>11 DEF Inv

-------------------------------------------------------------------------------
(* Steps of the kernel: they leave the lists and the batch alone. *)

LEMMA DebuggerUnchanged ==
    ASSUME Inv, UNCHANGED_Debugger
    PROVE  /\ BatchInv' /\ ListsAgree' /\ ChangeInv'
           /\ Contexts' = Contexts /\ Registered' = Registered /\ Todo' = Todo
           /\ Answered' = Answered /\ (MayFlush' <=> MayFlush)
           /\ \A t \in Threads : Unhandled(t)' <=> Unhandled(t)
<1> USE DEF UNCHANGED_Debugger, listVars, regVars, bpVars, loopVars, resumeVars
<1>1. Contexts' = Contexts /\ Registered' = Registered /\ Todo' = Todo
  BY DEF Contexts, Registered, Todo
<1>2. Answered' = Answered /\ (MayFlush' <=> MayFlush)
  BY DEF Answered, MayFlush
<1>3. \A t \in Threads : Unhandled(t)' <=> Unhandled(t)
  BY DEF Unhandled
<1>4. BatchInv' /\ ListsAgree' /\ ChangeInv'
  BY <1>1 DEF Inv, BatchInv, ListsAgree, ChangeInv
<1> QED BY <1>1, <1>2, <1>3, <1>4

KernelTyped ==
    /\ st \in [Threads -> States] /\ stat \in [Threads -> Statuses]
    /\ child \in [Threads -> Somebody] /\ exiting \subseteq Threads

(* What a clone, a step of one thread and the end of all are, thread by thread. *)
CloneMove(t, n) ==
    /\ ~doomed /\ t # n /\ UNCHANGED <<stat, exiting, doomed>>
    /\ st[t] = "run" /\ st[n] = "none"
    /\ st'[n] \in {"new", "free"} /\ st'[t] \in {"run", "clone"}
    /\ \A u \in Threads \ {t, n} : st'[u] = st[u]
    /\ \A u \in Threads \ {t} : child'[u] = child[u]
    /\ child'[t] = IF options THEN n ELSE child[t]
    /\ IF options THEN st'[n] = "new" ELSE st'[t] = "run"

ThreadMove(t) ==
    /\ UNCHANGED <<doomed, child>>
    /\ \A u \in Threads \ {t} : st'[u] = st[u] /\ stat'[u] = stat[u]
    /\ exiting' = IF stat'[t] = "exitev" THEN exiting \cup {t} ELSE exiting
    /\ \/ st[t] = "clone" /\ st'[t] = "stop" /\ stat'[t] = "clone"
       \/ st[t] = "new" /\ st'[t] = "stop" /\ stat'[t] = "stop"
       \/ /\ st[t] = "run" /\ ~doomed /\ t \notin exiting
          /\ st'[t] = "stop" /\ stat'[t] \in {"stop", "trap"}
       \/ st[t] = "run" /\ st'[t] = "stop" /\ stat'[t] = "exitev"
       \/ st[t] = "run" /\ st'[t] = "zombie" /\ stat'[t] = "exit"
       \/ st[t] = "free" /\ st'[t] = "gone" /\ stat'[t] = "nothing"

WokenTo(u) ==
    /\ st'[u] \notin {"new", "clone", "free"} /\ stat'[u] # "clone"
    /\ st'[u] = "stop" => u \in exiting'
    /\ stat'[u] # "nothing" => st'[u] = IF stat'[u] = "exit" THEN "zombie" ELSE "stop"
    /\ st[u] # "none" => st'[u] # "none"
    /\ st[u] = "free" => st'[u] = "gone"
    /\ st[u] \in {"zombie", "gone"} => st'[u] = st[u]

GroupMove ==
    /\ doomed' = TRUE /\ child' = child /\ exiting \subseteq exiting'
    /\ \A u \in Threads : WokenTo(u)

LEMMA CloneMoves ==
    ASSUME Inv, NEW t \in Threads, NEW n \in Threads, Clone(t, n)
    PROVE  KernelTyped' /\ CloneMove(t, n)
<1>1. KernelTyped'
  BY DEF Inv, TypeOK, Clone, KernelTyped, States, Somebody
<1>2. CloneMove(t, n)
  BY DEF Inv, TypeOK, Clone, CloneMove
<1> QED BY <1>1, <1>2

LEMMA ThreadMoves ==
    ASSUME Inv, NEW t \in Threads,
           \/ CloneEvent(t) \/ FirstStop(t) \/ TakesSigstop(t) \/ Traps(t)
           \/ ExitEvent(t) \/ Dies(t) \/ FreeEnds(t)
    PROVE  KernelTyped' /\ ThreadMove(t)
<1> USE DEF Inv, TypeOK, Stop, KernelTyped, ThreadMove, States, Statuses
<1>1. CASE CloneEvent(t)
  BY <1>1 DEF CloneEvent
<1>2. CASE FirstStop(t)
  BY <1>2 DEF FirstStop
<1>3. CASE TakesSigstop(t)
  BY <1>3 DEF TakesSigstop
<1>4. CASE Traps(t)
  BY <1>4 DEF Traps
<1>5. CASE ExitEvent(t)
  BY <1>5 DEF ExitEvent
<1>6. CASE Dies(t)
  BY <1>6 DEF Dies
<1>7. CASE FreeEnds(t)
  BY <1>7 DEF FreeEnds, KernelInv
<1> QED BY <1>1, <1>2, <1>3, <1>4, <1>5, <1>6, <1>7

LEMMA WokenIs ==
    ASSUME Inv, NEW u \in Threads
    PROVE  /\ Woken(u) \in States \ {"new", "clone", "stop", "free"}
           /\ WokenStatus(u) \in {"nothing", "exit"}
           /\ WokenStatus(u) = "exit" => Woken(u) = "zombie"
           /\ st[u] # "none" => Woken(u) # "none"
           /\ st[u] \in {"zombie", "gone"} => Woken(u) = st[u]
           /\ st[u] = "free" => Woken(u) = "gone"
<1>1. st[u] \in States /\ stat[u] \in Statuses
  BY DEF Inv, TypeOK
<1>2. stat[u] # "nothing" => st[u] = IF stat[u] = "exit" THEN "zombie" ELSE "stop"
  BY DEF Inv, KernelInv
<1>3. CASE st[u] \in {"new", "clone", "stop"}
  BY <1>1, <1>3 DEF Woken, WokenStatus, States
<1>4. CASE st[u] = "free"
  BY <1>1, <1>2, <1>4 DEF Woken, WokenStatus, States
<1>5. CASE st[u] \notin {"new", "clone", "stop", "free"}
  BY <1>1, <1>2, <1>5 DEF Woken, WokenStatus, States
<1> QED BY <1>3, <1>4, <1>5

LEMMA GroupMoves ==
    ASSUME Inv, Killed \/ \E t \in Threads : ExitGroup(t)
    PROVE  KernelTyped' /\ GroupMove
<1>1. CASE Killed
  <2>1. /\ st' = [u \in Threads |-> Woken(u)] /\ stat' = [u \in Threads |-> WokenStatus(u)]
        /\ UNCHANGED <<child, exiting>> /\ doomed' = TRUE
    BY <1>1 DEF Killed
  <2>2. KernelTyped'
    BY <2>1, WokenIs DEF Inv, TypeOK, KernelTyped, Statuses
  <2>3. \A u \in Threads : WokenTo(u)
    BY <2>1, WokenIs DEF WokenTo
  <2> QED BY <2>1, <2>2, <2>3 DEF GroupMove
<1>2. ASSUME NEW t \in Threads, ExitGroup(t) PROVE KernelTyped' /\ GroupMove
  <2>1. /\ st' = [u \in Threads |-> IF u = t THEN "stop" ELSE Woken(u)]
        /\ stat' = [u \in Threads |-> IF u = t THEN "exitev" ELSE WokenStatus(u)]
        /\ child' = child /\ exiting' = exiting \cup {t} /\ doomed' = TRUE /\ st[t] = "run"
    BY <1>2 DEF ExitGroup
  <2>2. KernelTyped'
    BY <2>1, WokenIs DEF Inv, TypeOK, KernelTyped, States, Statuses
  <2>3. WokenTo(t)
    BY <2>1 DEF WokenTo
  <2>4. ASSUME NEW u \in Threads \ {t} PROVE WokenTo(u)
    BY <2>1, WokenIs DEF WokenTo
  <2> QED BY <2>1, <2>2, <2>3, <2>4 DEF GroupMove
<1> QED BY <1>1, <1>2

LEMMA KernelMoves ==
    ASSUME Inv, Kernel
    PROVE  /\ UNCHANGED_Debugger /\ KernelTyped'
           /\ \/ \E t, n \in Threads : CloneMove(t, n)
              \/ \E t \in Threads : ThreadMove(t)
              \/ GroupMove
<1>1. UNCHANGED_Debugger
  BY DEF Kernel, Clone, CloneEvent, FirstStop, TakesSigstop, Traps, ExitEvent, Dies, FreeEnds,
         ExitGroup, Killed
<1>2. CASE \E t, n \in Threads : Clone(t, n)
  BY <1>1, <1>2, CloneMoves
<1>3. ASSUME NEW t \in Threads,
             \/ CloneEvent(t) \/ FirstStop(t) \/ TakesSigstop(t) \/ Traps(t)
             \/ ExitEvent(t) \/ Dies(t) \/ FreeEnds(t)
      PROVE  KernelTyped' /\ ThreadMove(t)
  BY <1>3, ThreadMoves
<1>4. CASE Killed \/ \E t \in Threads : ExitGroup(t)
  BY <1>1, <1>4, GroupMoves
<1> QED BY <1>1, <1>2, <1>3, <1>4 DEF Kernel

LEMMA KernelKeepsInv ==
    ASSUME Inv, Kernel
    PROVE  TypeOK' /\ KernelInv'
<1>0. UNCHANGED_Debugger /\ KernelTyped'
  BY KernelMoves
<1>1. /\ Contexts' = Contexts /\ Registered' = Registered
      /\ Contexts \subseteq Threads /\ Registered \subseteq Threads
  <2>1. Contexts \subseteq Threads /\ Registered \subseteq Threads
    BY DEF Inv, TypeOK, Contexts, Registered
  <2> QED BY <1>0, <2>1, DebuggerUnchanged
<1>2. TypeOK'
  BY <1>0, <1>1 DEF Inv, TypeOK, KernelTyped, UNCHANGED_Debugger, listVars, regVars, loopVars
<1>21. pc' = pc
  BY <1>0 DEF UNCHANGED_Debugger
<1> USE <1>1, <1>21 DEF Inv, KernelInv, Stopped
<1>3. ASSUME NEW t \in Threads, NEW n \in Threads, CloneMove(t, n) PROVE KernelInv'
  <2>1. n \notin Contexts /\ n \notin Registered
    BY <1>3 DEF CloneMove, ListsAgree
  <2> QED BY <1>3, <2>1 DEF CloneMove
<1>4. ASSUME NEW t \in Threads, ThreadMove(t) PROVE KernelInv'
  BY <1>4 DEF ThreadMove
<1>5. ASSUME GroupMove PROVE KernelInv'
  BY <1>5 DEF GroupMove, WokenTo
<1> QED BY <1>2, <1>3, <1>4, <1>5, KernelMoves

(* A new clone has a child of its own, and a thread whose clone is not     *)
(* handled yet keeps its own.                                              *)
LEMMA KernelPending ==
    ASSUME Inv, Kernel
    PROVE  PendingInv'
<1>0. UNCHANGED_Debugger
  BY KernelMoves
<1>1. Contexts' = Contexts /\ \A t \in Threads : Unhandled(t)' <=> Unhandled(t)
  BY <1>0, DebuggerUnchanged
<1>2. UNCHANGED <<results, next, pc, waitFor>>
  BY <1>0 DEF UNCHANGED_Debugger, loopVars
<1> DEFINE Kept == \A u \in Threads : /\ Unhandled(u) /\ ~doomed' => Stopped(u)'
                                      /\ Unhandled(u) => stat'[u] # "clone" /\ child'[u] = child[u]
           Own == /\ \A u \in Threads : Pending(u)' =>
                        child'[u] \in {k \in Threads \ Contexts : st'[k] \notin {"none", "free"}}
                  /\ \A u, v \in Threads : Pending(u)' /\ Pending(v)' /\ child'[u] = child'[v] => u = v
<1>3. ASSUME NEW t \in Threads, NEW n \in Threads, CloneMove(t, n) PROVE Kept /\ Own
  <2>1. Kept
    BY <1>3 DEF Inv, KernelInv, PendingInv, Stopped, CloneMove
  <2>2. n \notin Contexts /\ (options => st'[n] \notin {"none", "free"})
    BY <1>3 DEF Inv, KernelInv, CloneMove
  <2>3. \A u \in Threads : Pending(u) => child[u] # n
    BY <1>3 DEF Inv, PendingInv, CloneMove
  <2>4. \A k \in Threads : st[k] \notin {"none", "free"} => st'[k] \notin {"none", "free"}
    BY <1>3 DEF CloneMove
  <2>5. ~Pending(t)
    BY <1>3 DEF Inv, Pending, PendingInv, KernelInv, Stopped, CloneMove
  <2>6. CASE options
    <3>1. /\ \A u \in Threads : Pending(u)' => u = t \/ Pending(u)
          /\ child'[t] = n /\ \A u \in Threads \ {t} : child'[u] = child[u]
      BY <1>1, <1>3, <2>6 DEF CloneMove, Pending
    <3> QED BY <2>1, <2>2, <2>3, <2>4, <2>5, <2>6, <3>1 DEF Inv, PendingInv
  <2>7. CASE ~options
    <3>1. \A u \in Threads : child'[u] = child[u] /\ (Pending(u)' => Pending(u))
      BY <1>1, <1>3, <2>7 DEF CloneMove, Pending
    <3> QED BY <2>1, <2>4, <3>1 DEF Inv, PendingInv
  <2> QED BY <2>6, <2>7
<1>4. ASSUME NEW t \in Threads, ThreadMove(t) PROVE Kept /\ Own
  <2>1. Kept
    BY <1>4 DEF Inv, KernelInv, PendingInv, Stopped, ThreadMove
  <2>2. \A u \in Threads : /\ st[u] \notin {"none", "free"} => st'[u] \notin {"none", "free"}
                           /\ Pending(u)' => Pending(u)
    BY <1>1, <1>4 DEF ThreadMove, Pending
  <2>3. child' = child
    BY <1>4 DEF ThreadMove
  <2> QED BY <2>1, <2>2, <2>3 DEF Inv, PendingInv
<1>5. ASSUME GroupMove PROVE Kept /\ Own
  <2>1. Kept
    BY <1>5 DEF GroupMove, WokenTo
  <2>2. \A u \in Threads : /\ st[u] \notin {"none", "free"} => st'[u] \notin {"none", "free"}
                           /\ Pending(u)' => Pending(u)
    BY <1>1, <1>5 DEF GroupMove, WokenTo, Pending
  <2>3. child' = child
    BY <1>5 DEF GroupMove
  <2> QED BY <2>1, <2>2, <2>3 DEF Inv, PendingInv
<1>6. Kept /\ Own
  BY <1>3, <1>4, <1>5, KernelMoves
<1>7. pc = "waitnew" => Unhandled(results[next][1])
  <2> SUFFICES ASSUME pc = "waitnew" PROVE Unhandled(results[next][1])
    OBVIOUS
  <2>1. results[next] \in Somebody \X Statuses /\ next >= next
    BY DEF Inv, PendingInv, TypeOK
  <2>2. results[next] = <<results[next][1], "clone">> /\ next \in DOMAIN results
    BY <2>1 DEF Inv, PendingInv
  <2> QED BY <2>1, <2>2 DEF Unhandled
<1> QED BY <1>1, <1>2, <1>6, <1>7 DEF Inv, PendingInv

(* A thread that is settled does not stop where its registers would have   *)
(* to be read again.                                                       *)
LEMMA KernelFresh ==
    ASSUME Inv, Kernel
    PROVE  FreshInv'
<1>0. UNCHANGED_Debugger
  BY KernelMoves
<1>1. /\ Registered' = Registered /\ Todo' = Todo /\ Answered' = Answered
      /\ (MayFlush' <=> MayFlush)
      /\ UNCHANGED <<uses, pc, clobbered, waitFor, todo, fresh>>
  BY <1>0, DebuggerUnchanged DEF UNCHANGED_Debugger, regVars, loopVars
<1>2. Registered \subseteq Threads /\ Answered \subseteq Threads
  BY DEF Inv, TypeOK, Registered, Answered
<1> DEFINE Stays == \A u \in Threads : /\ Settled(u) => Settled(u)' /\ (Readable(u) => Readable(u)')
                                       /\ st[u] \in {"free", "gone"} => st'[u] \in {"free", "gone"}
<1>3. Stays
  <2> USE <1>1 DEF Inv, KernelInv, Settled, Readable, Stopped
  <2>1. ASSUME NEW t \in Threads, NEW n \in Threads, CloneMove(t, n) PROVE Stays
    BY <2>1 DEF CloneMove
  <2>2. ASSUME NEW t \in Threads, ThreadMove(t) PROVE Stays
    BY <2>2 DEF ThreadMove
  <2>3. ASSUME GroupMove PROVE Stays
    BY <2>3 DEF GroupMove, WokenTo
  <2> QED BY <2>1, <2>2, <2>3, KernelMoves
<1> QED BY <1>1, <1>2, <1>3 DEF Inv, FreshInv

LEMMA KernelStep == ASSUME Inv, Kernel PROVE Inv'
BY KernelMoves, KernelKeepsInv, DebuggerUnchanged, KernelPending, KernelFresh DEF Inv

-------------------------------------------------------------------------------
(* Facts about sequences and lists that the steps of the debugger share. *)

LEMMA PrependIs ==
    ASSUME NEW S, NEW e \in S, NEW s \in Seq(S)
    PROVE  /\ <<e>> \o s \in Seq(S) /\ DOMAIN (<<e>> \o s) = 1..(Len(s) + 1)
           /\ (<<e>> \o s)[1] = e
           /\ \A i \in DOMAIN s : i + 1 \in DOMAIN (<<e>> \o s) /\ (<<e>> \o s)[i + 1] = s[i]
           /\ \A i \in DOMAIN (<<e>> \o s) :
                 i = 1 \/ (i - 1 \in DOMAIN s /\ (<<e>> \o s)[i] = s[i - 1])
<1>1. <<e>> \in Seq(S) /\ Len(<<e>>) = 1 /\ <<e>>[1] = e
  BY SingletonIs
<1> DEFINE p == <<e>>
<1>2. p \in Seq(S) /\ Len(p) = 1 /\ p[1] = e
  BY <1>1
<1> HIDE DEF p
<1>3. p \o s \in Seq(S) /\ Len(p \o s) = Len(s) + 1
  <2>1. p \in Seq(S)
    BY <1>2
  <2>2. p \o s \in Seq(S) /\ Len(p \o s) = Len(p) + Len(s)
    BY <2>1, ConcatType
  <2>3. Len(s) \in Nat
    OBVIOUS
  <2> QED BY <1>2, <2>2, <2>3
<1>4. DOMAIN (p \o s) = 1..(Len(s) + 1) /\ DOMAIN s = 1..Len(s) /\ Len(s) \in Nat
  BY <1>3
<1>5. (p \o s)[1] = e
  BY <1>2, <1>4
<1>6. \A i \in 1..(Len(s) + 1) : i # 1 => i - 1 \in 1..Len(s) /\ (p \o s)[i] = s[i - 1]
  BY <1>2, <1>4
<1>7. \A i \in 1..Len(s) : i + 1 \in 1..(Len(s) + 1) /\ (i + 1) - 1 = i /\ i + 1 # 1
  BY <1>4
<1>8. \A i \in DOMAIN s : i + 1 \in DOMAIN (p \o s) /\ (p \o s)[i + 1] = s[i]
  BY <1>4, <1>6, <1>7
<1>9. \A i \in DOMAIN (p \o s) : i = 1 \/ (i - 1 \in DOMAIN s /\ (p \o s)[i] = s[i - 1])
  BY <1>4, <1>6
<1> QED BY <1>3, <1>4, <1>5, <1>8, <1>9 DEF p

LEMMA TailIs ==
    ASSUME NEW S, NEW s \in Seq(S), s # <<>>
    PROVE  /\ Head(s) \in S /\ Tail(s) \in Seq(S)
           /\ \A i \in DOMAIN s : s[i] = Head(s) \/ \E j \in DOMAIN Tail(s) : Tail(s)[j] = s[i]
<1>1. Head(s) \in S /\ Tail(s) \in Seq(S) /\ Len(s) \in Nat \ {0} /\ Len(Tail(s)) = Len(s) - 1
  OBVIOUS
<1>2. DOMAIN s = 1..Len(s) /\ DOMAIN Tail(s) = 1..(Len(s) - 1) /\ s[1] = Head(s)
  BY <1>1
<1>3. \A j \in 1..(Len(s) - 1) : Tail(s)[j] = s[j + 1]
  BY <1>1
<1>4. \A i \in 1..Len(s) : i = 1 \/ (i - 1 \in 1..(Len(s) - 1) /\ (i - 1) + 1 = i)
  BY <1>1
<1> QED BY <1>1, <1>2, <1>3, <1>4

LEMMA ListsUnchanged ==
    ASSUME UNCHANGED <<tList, threads, dead>>
    PROVE  /\ Contexts' = Contexts /\ Registered' = Registered
           /\ tList' = tList /\ threads' = threads /\ dead' = dead
           /\ ListsAgree => ListsAgree'
<1>1. tList' = tList /\ threads' = threads /\ dead' = dead
  OBVIOUS
<1>2. Contexts' = Contexts /\ Registered' = Registered
  BY <1>1 DEF Contexts, Registered
<1> QED BY <1>1, <1>2 DEF ListsAgree

LEMMA Subsets ==
    ASSUME Inv
    PROVE  /\ Contexts \subseteq Threads /\ Registered \subseteq Threads
           /\ Answered \subseteq Threads /\ Registered \subseteq Contexts
<1>1. Contexts \subseteq Threads
  BY DEF Inv, TypeOK, Contexts
<1>2. Registered \subseteq Threads
  BY DEF Inv, TypeOK, Registered
<1>3. Answered \subseteq Threads
  BY DEF Answered
<1>4. Registered \subseteq Contexts
  BY DEF Inv, ListsAgree
<1> QED BY <1>1, <1>2, <1>3, <1>4

(* No status is left of an earlier batch. *)
LEMMA NoBatch ==
    ASSUME Inv, pc \notin Collecting
    PROVE  results = <<>> /\ DOMAIN results = {} /\ Answered = {} /\ \A t : ~Unhandled(t)
<1>1. results = <<>>
  BY DEF Inv, BatchInv
<1>2. DOMAIN results = {}
  BY <1>1, EmptyIs
<1> QED BY <1>1, <1>2 DEF Answered, Unhandled

(* A status is collected. *)
ReapMove(t) ==
    /\ stat[t] # "nothing" /\ stat'[t] = "nothing"
    /\ st[t] = IF stat[t] = "exit" THEN "zombie" ELSE "stop"
    /\ st'[t] = IF stat[t] = "exit" THEN "gone" ELSE "stop"
    /\ \A u \in Threads \ {t} : st'[u] = st[u] /\ stat'[u] = stat[u]

LEMMA ReapMoves ==
    ASSUME Inv, NEW t \in Threads, Waitable(t), Reap(t)
    PROVE  /\ st' \in [Threads -> States] /\ stat' \in [Threads -> Statuses]
           /\ ReapMove(t)
<1>1. stat[t] # "nothing" /\ st[t] = IF stat[t] = "exit" THEN "zombie" ELSE "stop"
  BY DEF Inv, KernelInv, Waitable
<1>2. st' \in [Threads -> States] /\ stat' \in [Threads -> Statuses]
  BY DEF Inv, TypeOK, Reap, States, Statuses
<1>3. ReapMove(t)
  BY <1>1 DEF Inv, TypeOK, Reap, ReapMove
<1> QED BY <1>2, <1>3

LEMMA ReapKernel ==
    ASSUME Inv, NEW t \in Threads, ReapMove(t),
           UNCHANGED <<tList, threads, dead, exiting, doomed>>,
           pc' \in {"gdb", "back", "ended"} \/ pc \notin {"gdb", "back", "ended"}
    PROVE  /\ KernelInv' /\ Settled(t)'
           /\ \A u \in Threads : Settled(u) => Settled(u)'
           /\ \A u \in Threads \ {t} : fresh' = fresh /\ Readable(u) => Readable(u)'
<1>1. Contexts' = Contexts /\ Registered' = Registered
  BY ListsUnchanged
<1>2. Contexts \subseteq Threads /\ Registered \subseteq Threads
  BY Subsets
<1>3. exiting' = exiting /\ doomed' = doomed
  OBVIOUS
<1>4. KernelInv'
  <2>1. ASSUME NEW u \in Threads
        PROVE  /\ stat'[u] # "nothing" => st'[u] = IF stat'[u] = "exit" THEN "zombie" ELSE "stop"
               /\ doomed' => /\ st'[u] \notin {"new", "clone"} /\ stat'[u] # "clone"
                             /\ Stopped(u)' => u \in exiting'
               /\ st[u] # "none" => st'[u] # "none"
               /\ st[u] # "free" => st'[u] # "free"
    <3>1. CASE u = t
      BY <1>3, <3>1 DEF Inv, KernelInv, ReapMove, Stopped
    <3>2. CASE u # t
      BY <1>3, <3>2 DEF Inv, KernelInv, ReapMove, Stopped
    <3> QED BY <3>1, <3>2
  <2> QED BY <1>1, <1>2, <1>3, <2>1 DEF Inv, KernelInv
<1>5. Settled(t)' /\ \A u \in Threads : Settled(u) => Settled(u)'
  <2>1. Settled(t)'
    BY DEF ReapMove, Settled
  <2>2. ASSUME NEW u \in Threads, u # t, Settled(u) PROVE Settled(u)'
    BY <1>3, <2>2 DEF ReapMove, Settled
  <2> QED BY <2>1, <2>2
<1>6. \A u \in Threads \ {t} : fresh' = fresh /\ Readable(u) => Readable(u)'
  BY <1>3 DEF ReapMove, Readable, Stopped
<1> QED BY <1>4, <1>5, <1>6

(* A status of t, or that it is no more, has been added to the batch. *)
Collected(t) ==
    /\ st' \in [Threads -> States] /\ stat' \in [Threads -> Statuses]
    /\ results' \in Seq(Somebody \X Statuses)
    /\ KernelInv' /\ PendingInv' /\ BatchInv'
    /\ Answered' \subseteq Answered \cup {t} /\ Settled(t)'
    /\ \A u \in Threads : Settled(u) => Settled(u)'

LEMMA CollectStep ==
    ASSUME Inv, NEW t \in Threads, Waitable(t), Reap(t),
           pc \in {"wait", "stopall", "stopone"}, pc' = "stopall",
           results' = <<<<t, stat[t]>>>> \o results,
           UNCHANGED <<tList, threads, dead, child, doomed, exiting, next>>
    PROVE  Collected(t)
<1>0. UNCHANGED <<tList, threads, dead>> /\ child' = child /\ doomed' = doomed /\ exiting' = exiting /\ next' = next
  OBVIOUS
<1>1. ReapMove(t) /\ st' \in [Threads -> States] /\ stat' \in [Threads -> Statuses]
  BY ReapMoves
<1>2. KernelInv' /\ Settled(t)' /\ \A u \in Threads : Settled(u) => Settled(u)'
  BY <1>0, <1>1, ReapKernel
<1>3. next = 1
  BY DEF Inv, BatchInv
<1>4. <<t, stat[t]>> \in Somebody \X Statuses /\ results \in Seq(Somebody \X Statuses)
  BY DEF Inv, TypeOK, Somebody
<1>5. /\ results' \in Seq(Somebody \X Statuses)
      /\ results'[1] = <<t, stat[t]>> /\ 1 \in DOMAIN results'
      /\ \A i \in DOMAIN results : i + 1 \in DOMAIN results' /\ results'[i + 1] = results[i]
      /\ \A i \in DOMAIN results' :
            i = 1 \/ (i - 1 \in DOMAIN results /\ results'[i] = results[i - 1])
  <2>1. Len(results) \in Nat /\ 1 \in 1..(Len(results) + 1)
    BY <1>4
  <2> QED BY <1>4, <2>1, PrependIs
<1>6. /\ DOMAIN results \subseteq Nat \ {0} /\ DOMAIN results' \subseteq Nat \ {0}
      /\ \A i \in DOMAIN results : results[i] \in Somebody \X Statuses
  BY <1>4, <1>5
<1>7. Answered' \subseteq Answered \cup {t}
  BY <1>5 DEF Answered
<1>8. \A u \in Threads : Unhandled(u)' => Unhandled(u) \/ (u = t /\ stat[t] = "clone")
  <2> SUFFICES ASSUME NEW u \in Threads, NEW i \in DOMAIN results', results'[i] = <<u, "clone">>
               PROVE  Unhandled(u) \/ (u = t /\ stat[t] = "clone")
    BY DEF Unhandled
  <2>1. CASE i = 1
    BY <1>5, <2>1
  <2>2. CASE i # 1
    <3>1. i - 1 \in DOMAIN results /\ results[i - 1] = <<u, "clone">> /\ i - 1 >= next
      BY <1>3, <1>5, <1>6, <2>2
    <3> QED BY <3>1 DEF Unhandled
  <2> QED BY <2>1, <2>2
<1>9. Contexts' = Contexts
  BY <1>0, ListsUnchanged
<1>10. \A u \in Threads : /\ Pending(u)' => Pending(u)
                          /\ st[u] \notin {"none", "free"} => st'[u] \notin {"none", "free"}
  BY <1>1, <1>8 DEF ReapMove, Pending
<1>11. \A u \in Threads : /\ Unhandled(u)' /\ ~doomed' => Stopped(u)'
                          /\ Unhandled(u)' => stat'[u] # "clone"
  <2>1. ASSUME NEW u \in Threads, Unhandled(u)'
        PROVE  (~doomed' => Stopped(u)') /\ stat'[u] # "clone"
    <3>1. CASE u = t /\ stat[t] = "clone"
      BY <1>1, <3>1 DEF ReapMove, Stopped
    <3>2. CASE Unhandled(u) /\ u = t
      BY <1>0, <1>1, <3>2 DEF Inv, PendingInv, ReapMove, Stopped
    <3>3. CASE Unhandled(u) /\ u # t
      BY <1>0, <1>1, <3>3 DEF Inv, PendingInv, ReapMove, Stopped
    <3> QED BY <1>8, <2>1, <3>1, <3>2, <3>3
  <2> QED BY <2>1
<1>12. \A i, j \in DOMAIN results' :
          results'[i] = results'[j] /\ results'[i][2] = "clone" => i = j
  <2> SUFFICES ASSUME NEW i \in DOMAIN results', NEW j \in DOMAIN results',
                      results'[i] = results'[j], results'[i][2] = "clone"
               PROVE  i = j
    OBVIOUS
  <2>1. ASSUME NEW k \in DOMAIN results', k # 1, results'[k] = <<t, "clone">>, stat[t] = "clone"
        PROVE  FALSE
    <3>1. k - 1 \in DOMAIN results /\ results[k - 1] = <<t, "clone">> /\ k - 1 >= next
      BY <1>3, <1>5, <1>6, <2>1
    <3>2. Unhandled(t)
      BY <3>1 DEF Unhandled
    <3> QED BY <2>1, <3>2 DEF Inv, PendingInv
  <2>2. CASE i # 1 /\ j # 1
    <3>1. /\ i - 1 \in DOMAIN results /\ results'[i] = results[i - 1]
          /\ j - 1 \in DOMAIN results /\ results'[j] = results[j - 1]
      BY <1>5, <2>2
    <3>2. i - 1 = j - 1
      BY <1>3, <1>6, <3>1 DEF Inv, PendingInv
    <3> QED BY <1>6, <3>2
  <2>3. CASE i = 1 /\ j # 1
    <3>1. stat[t] = "clone" /\ results'[j] = <<t, "clone">>
      BY <1>5, <2>3
    <3> QED BY <2>1, <2>3, <3>1
  <2>4. CASE i # 1 /\ j = 1
    <3>1. stat[t] = "clone" /\ results'[i] = <<t, "clone">>
      BY <1>5, <2>4
    <3> QED BY <2>1, <2>4, <3>1
  <2> QED BY <2>2, <2>3, <2>4
<1>13. PendingInv'
  <2>1. ASSUME NEW u \in Threads, Pending(u)'
        PROVE  child'[u] \in {n \in Threads \ Contexts' : st'[n] \notin {"none", "free"}}
    <3>1. child[u] \in {n \in Threads \ Contexts : st[n] \notin {"none", "free"}}
      BY <1>10, <2>1 DEF Inv, PendingInv
    <3> QED BY <1>0, <1>9, <1>10, <3>1
  <2>2. \A u, v \in Threads : Pending(u)' /\ Pending(v)' /\ child'[u] = child'[v] => u = v
    BY <1>0, <1>10 DEF Inv, PendingInv
  <2> QED BY <1>11, <1>12, <2>1, <2>2 DEF PendingInv
<1>14. BatchInv'
  <2>1. ASSUME NEW i \in DOMAIN results', results'[i][2] = "clone" PROVE results'[i][1] \in Threads
    <3>1. CASE i = 1
      BY <1>5, <3>1
    <3>2. CASE i # 1
      BY <1>5, <2>1, <3>2 DEF Inv, BatchInv
    <3> QED BY <3>1, <3>2
  <2> QED BY <1>0, <1>3, <1>5, <2>1 DEF BatchInv, Collecting
<1> QED BY <1>1, <1>2, <1>5, <1>7, <1>13, <1>14 DEF Collected

-------------------------------------------------------------------------------
(* Steps of the debugger that leave the process and the batch alone. *)

LEMMA SameProcess ==
    ASSUME Inv, UNCHANGED <<uses, st, stat, exiting, doomed, child, tList, threads, dead, results, next>>,
           pc' \in {"gdb", "back", "ended"} \/ pc \notin {"gdb", "back", "ended"}
    PROVE  /\ Contexts' = Contexts /\ Registered' = Registered /\ Answered' = Answered
           /\ KernelInv' /\ ListsAgree' /\ (pc' # "waitnew" => PendingInv')
           /\ \A t : /\ Settled(t)' <=> Settled(t)
                     /\ fresh \subseteq fresh' /\ Readable(t) => Readable(t)'
<1>1. Contexts' = Contexts /\ Registered' = Registered /\ ListsAgree'
  BY ListsUnchanged DEF Inv
<1>2. Answered' = Answered
  BY DEF Answered
<1>3. KernelInv'
  BY <1>1 DEF Inv, KernelInv, Stopped
<1>4. \A t : (Settled(t)' <=> Settled(t)) /\ (fresh \subseteq fresh' /\ Readable(t) => Readable(t)')
  BY DEF Settled, Readable, Stopped
<1>5. \A t : (Unhandled(t)' <=> Unhandled(t)) /\ (Pending(t)' <=> Pending(t))
  BY DEF Unhandled, Pending
<1>6. pc' # "waitnew" => PendingInv'
  BY <1>1, <1>5 DEF Inv, PendingInv, Stopped
<1> QED BY <1>1, <1>2, <1>3, <1>4, <1>6

LEMMA WaitTopStep == ASSUME Inv, WaitTop PROVE Inv'
<1>1. /\ UNCHANGED <<uses, st, stat, exiting, doomed, child, tList, threads, dead, results, next>>
      /\ UNCHANGED <<fresh, clobbered, changed, crashed, todo, waitFor>>
      /\ pc = "top" /\ pc' = IF Main \in dead THEN "idle" ELSE "wait"
  BY DEF WaitTop, kernelVars, listVars, regVars, bpVars, loopVars
<1>2. /\ Contexts' = Contexts /\ Registered' = Registered
      /\ KernelInv' /\ ListsAgree' /\ PendingInv'
  BY <1>1, SameProcess
<1>3. TypeOK'
  BY <1>1, <1>2 DEF Inv, TypeOK, Waiting
<1>4. BatchInv'
  BY <1>1 DEF Inv, BatchInv, Collecting
<1>5. FreshInv'
  BY <1>1, <1>2 DEF Inv, FreshInv, MayFlush
<1>6. ChangeInv'
  BY <1>1, <1>2 DEF Inv, ChangeInv
<1> QED BY <1>2, <1>3, <1>4, <1>5, <1>6 DEF Inv

(* No thread is left that could be written to. *)
LEMMA WaitNoneStep == ASSUME Inv, WaitNone PROVE Inv'
<1>0. results = <<>>
  BY DEF Inv, BatchInv, WaitNone, Collecting
<1>1. /\ UNCHANGED <<uses, st, stat, exiting, doomed, child, tList, threads, dead, results, next>>
      /\ UNCHANGED <<fresh, clobbered, changed, crashed, todo, waitFor>>
      /\ pc = "wait" /\ pc' = "decide"
      /\ \A t \in Threads : st[t] \in {"none", "gone", "free"}
  BY <1>0 DEF WaitNone, kernelVars, listVars, regVars, bpVars
<1>2. /\ Contexts' = Contexts /\ Registered' = Registered
      /\ KernelInv' /\ ListsAgree' /\ PendingInv'
  BY <1>1, SameProcess
<1>3. TypeOK'
  BY <1>1, <1>2 DEF Inv, TypeOK, Waiting
<1>4. BatchInv'
  BY <1>0, <1>1 DEF Inv, BatchInv
<1>5. FreshInv'
  <2>1. \A t \in Registered : st[t] = "gone"
    BY <1>1, Subsets DEF Inv, KernelInv
  <2> QED BY <1>1, <1>2, <2>1 DEF Inv, FreshInv, MayFlush, Settled, Readable, Stopped
<1>6. ChangeInv'
  BY <1>1, <1>2 DEF Inv, ChangeInv
<1> QED BY <1>2, <1>3, <1>4, <1>5, <1>6 DEF Inv

-------------------------------------------------------------------------------
(* wait_all_and_update_regs. *)

(* The first status comes while any thread may run: all are left to stop. *)
LEMMA WaitFirstStep == ASSUME Inv, NEW t \in Threads, WaitFirst(t) PROVE Inv'
<1>0. results = <<>> /\ DOMAIN results = {} /\ Answered = {}
  BY NoBatch DEF WaitFirst, Collecting
<1>1. /\ UNCHANGED <<uses, child, doomed, exiting, tList, threads, dead, fresh, clobbered>>
      /\ UNCHANGED <<changed, crashed, waitFor, next>>
      /\ pc = "wait" /\ pc' = "stopall" /\ todo' = tList /\ Waitable(t) /\ Reap(t)
      /\ results' = <<<<t, stat[t]>>>>
  BY DEF WaitFirst, UNCHANGED_Thread, listVars, regVars, bpVars
<1>2. results' = <<<<t, stat[t]>>>> \o results
  <2>1. <<t, stat[t]>> \in Somebody \X Statuses
    BY DEF Inv, TypeOK, Somebody
  <2>2. <<<<t, stat[t]>>>> \in Seq(Somebody \X Statuses)
    BY <2>1, SingletonIs
  <2>3. \A s \in Seq(Somebody \X Statuses) : s \o <<>> = s
    OBVIOUS
  <2> QED BY <1>0, <1>1, <2>2, <2>3
<1>3. Collected(t)
  BY <1>1, <1>2, CollectStep
<1>4. Contexts' = Contexts /\ Registered' = Registered /\ ListsAgree'
  BY <1>1, ListsUnchanged DEF Inv
<1>5. TypeOK'
  BY <1>1, <1>3, <1>4 DEF Inv, TypeOK, Waiting, Collected
<1>6. FreshInv'
  <2>1. Registered' \subseteq Todo'
    BY <1>1 DEF Registered, Todo
  <2> QED BY <1>0, <1>1, <1>3, <2>1 DEF Inv, FreshInv, MayFlush, Collected
<1>7. ChangeInv'
  BY <1>1, <1>4 DEF Inv, ChangeInv
<1> QED BY <1>3, <1>4, <1>5, <1>6, <1>7 DEF Inv, Collected

(* The thread at the head of the loop is settled, or gets a SIGSTOP and is *)
(* waited for.                                                             *)
LEMMA StopNextStep == ASSUME Inv, StopNext PROVE Inv'
<1> DEFINE h == Head(todo)
<1>1. /\ UNCHANGED <<uses, st, stat, exiting, doomed, child, tList, threads, dead, results, next>>
      /\ UNCHANGED <<clobbered, changed, crashed>>
      /\ pc = "stopall" /\ todo # <<>>
      /\ \/ /\ h = results[1][1] \/ Stopped(h)
            /\ fresh' \in {fresh, fresh \cup {h}} /\ todo' = Tail(todo) /\ UNCHANGED <<waitFor, pc>>
         \/ waitFor' = h /\ pc' = "stopone" /\ UNCHANGED <<fresh, todo>>
  BY DEF StopNext, UNCHANGED_Thread, listVars, bpVars
<1>2. /\ h \in Threads /\ Tail(todo) \in Seq(Threads)
      /\ \A i \in DOMAIN todo : todo[i] = h \/ \E j \in DOMAIN Tail(todo) : Tail(todo)[j] = todo[i]
  BY <1>1, TailIs DEF Inv, TypeOK
<1> HIDE DEF h
<1>3. /\ Contexts' = Contexts /\ Registered' = Registered /\ Answered' = Answered
      /\ KernelInv' /\ ListsAgree' /\ PendingInv' /\ \A t : Settled(t)' <=> Settled(t)
  BY <1>1, SameProcess
<1>4. TypeOK'
  <2>1. todo' \in Seq(Threads) /\ fresh' \subseteq Threads /\ waitFor' \in Somebody
    BY <1>1, <1>2 DEF Inv, TypeOK, Somebody
  <2>2. pc' \in Waiting => waitFor' \in Threads
    BY <1>1, <1>2 DEF Waiting
  <2> QED BY <1>1, <1>3, <2>1, <2>2 DEF Inv, TypeOK
<1>5. BatchInv'
  BY <1>1 DEF Inv, BatchInv, Collecting, h
<1>6. FreshInv'
  <2>1. CASE waitFor' = h /\ pc' = "stopone" /\ UNCHANGED <<fresh, todo>>
    BY <1>1, <1>3, <2>1 DEF Inv, FreshInv, MayFlush, Todo, h
  <2>2. CASE (h = results[1][1] \/ Stopped(h)) /\ todo' = Tail(todo) /\ UNCHANGED <<waitFor, pc>>
    <3> SUFFICES ASSUME "gdb runs" \notin uses PROVE FreshInv'
      BY <1>1 DEF FreshInv
    <3>1. Settled(h)
      <4>1. CASE Stopped(h)
        BY <4>1 DEF Settled, Stopped
      <4>2. CASE h = results[1][1]
        <5>1. h \in Answered
          BY <1>1, <1>2, <4>2 DEF Inv, BatchInv, Answered
        <5> QED BY <1>1, <5>1 DEF Inv, FreshInv
      <4> QED BY <2>2, <4>1, <4>2
    <3>2. Todo \subseteq Todo' \cup {h}
      BY <1>2, <2>2 DEF Todo
    <3> QED BY <1>1, <1>3, <2>2, <3>1, <3>2 DEF Inv, FreshInv, MayFlush
  <2> QED BY <1>1, <2>1, <2>2
<1>7. ChangeInv'
  BY <1>1, <1>3 DEF Inv, ChangeInv
<1> QED BY <1>3, <1>4, <1>5, <1>6, <1>7 DEF Inv

LEMMA CollectNone ==
    ASSUME Inv, NEW t \in Threads, st[t] = "gone", pc = "stopone", pc' = "stopall",
           results' = <<<<NoThread, "nothing">>>> \o results,
           UNCHANGED <<st, stat, tList, threads, dead, child, doomed, exiting, next>>
    PROVE  Collected(t)
<1>0. Contexts' = Contexts /\ Registered' = Registered
  BY ListsUnchanged
<1>1. Settled(t)' /\ \A u \in Threads : Settled(u) => Settled(u)'
  BY DEF Settled
<1>2. KernelInv'
  BY <1>0 DEF Inv, KernelInv, Stopped
<1>3. <<NoThread, "nothing">> \in Somebody \X Statuses /\ results \in Seq(Somebody \X Statuses)
  BY DEF Inv, TypeOK, Somebody, Statuses
<1>4. /\ results' \in Seq(Somebody \X Statuses)
      /\ results'[1] = <<NoThread, "nothing">> /\ 1 \in DOMAIN results'
      /\ \A i \in DOMAIN results' :
            i = 1 \/ (i - 1 \in DOMAIN results /\ results'[i] = results[i - 1])
  <2>1. Len(results) \in Nat /\ 1 \in 1..(Len(results) + 1)
    BY <1>3
  <2> QED BY <1>3, <2>1, PrependIs
<1>5. Answered' \subseteq Answered
  <2>1. NoThread \notin Threads
    BY ThreadsAssumption
  <2> QED BY <1>4, <2>1 DEF Answered
<1>6. BatchInv' /\ next = 1
  <2>1. ASSUME NEW i \in DOMAIN results', results'[i][2] = "clone" PROVE results'[i][1] \in Threads
    BY <1>4, <2>1 DEF Inv, BatchInv
  <2> QED BY <1>4, <2>1 DEF Inv, BatchInv, Collecting
<1>7. DOMAIN results \subseteq Nat \ {0} /\ DOMAIN results' \subseteq Nat \ {0}
  BY <1>3, <1>4
<1>8. \A u \in Threads : (Unhandled(u)' => Unhandled(u)) /\ (Pending(u)' => Pending(u))
  <2>1. ASSUME NEW u \in Threads, NEW i \in DOMAIN results', results'[i] = <<u, "clone">>
        PROVE  Unhandled(u)
    <3>1. i - 1 \in DOMAIN results /\ results[i - 1] = <<u, "clone">> /\ i - 1 >= next
      BY <1>4, <1>6, <1>7, <2>1
    <3> QED BY <3>1 DEF Unhandled
  <2>2. \A u \in Threads : Unhandled(u)' => Unhandled(u)
    BY <2>1 DEF Unhandled
  <2> QED BY <2>2 DEF Pending
<1>9. \A i, j \in DOMAIN results' :
         results'[i] = results'[j] /\ results'[i][2] = "clone" => i = j
  <2> SUFFICES ASSUME NEW i \in DOMAIN results', NEW j \in DOMAIN results',
                      results'[i] = results'[j], results'[i][2] = "clone"
               PROVE  i = j
    OBVIOUS
  <2>1. i # 1 /\ j # 1
    BY <1>4
  <2>2. /\ i - 1 \in DOMAIN results /\ results'[i] = results[i - 1]
        /\ j - 1 \in DOMAIN results /\ results'[j] = results[j - 1]
    BY <1>4, <2>1
  <2>3. i - 1 = j - 1
    BY <1>6, <1>7, <2>2 DEF Inv, PendingInv
  <2> QED BY <1>7, <2>3
<1>10. PendingInv'
  <2>1. ASSUME NEW u \in Threads, Pending(u)'
        PROVE  child'[u] \in {n \in Threads \ Contexts' : st'[n] \notin {"none", "free"}}
    BY <1>0, <1>8, <2>1 DEF Inv, PendingInv
  <2>2. \A u, v \in Threads : Pending(u)' /\ Pending(v)' /\ child'[u] = child'[v] => u = v
    BY <1>8 DEF Inv, PendingInv
  <2>3. \A u \in Threads : /\ Unhandled(u)' /\ ~doomed' => Stopped(u)'
                           /\ Unhandled(u)' => stat'[u] # "clone"
    BY <1>8 DEF Inv, PendingInv, Stopped
  <2> QED BY <1>9, <2>1, <2>2, <2>3 DEF PendingInv
<1> QED BY <1>1, <1>2, <1>4, <1>5, <1>6, <1>10 DEF Inv, TypeOK, Collected

LEMMA StopWaitStep == ASSUME Inv, StopWait PROVE Inv'
<1>1. /\ UNCHANGED <<uses, child, doomed, exiting, tList, threads, dead, fresh, clobbered>>
      /\ UNCHANGED <<changed, crashed, next>>
      /\ pc = "stopone" /\ pc' = "stopall" /\ todo' = Tail(todo) /\ waitFor' = NoThread
  BY DEF StopWait, UNCHANGED_Thread, listVars, regVars, bpVars
<1>2. PICK t \in Threads : t = waitFor
  BY <1>1 DEF Inv, TypeOK, Waiting
<1>3. Contexts' = Contexts /\ Registered' = Registered /\ ListsAgree'
  BY <1>1, ListsUnchanged DEF Inv
<1>4. Collected(t)
  <2>1. CASE Waitable(t) /\ Reap(t) /\ results' = <<<<t, stat[t]>>>> \o results
    BY <1>1, <2>1, CollectStep
  <2>2. CASE /\ st[t] = "gone" /\ UNCHANGED <<st, stat>>
             /\ results' = <<<<NoThread, "nothing">>>> \o results
    BY <1>1, <2>2, CollectNone
  <2> QED BY <1>2, <2>1, <2>2 DEF StopWait
<1>5. /\ t = Head(todo) /\ Tail(todo) \in Seq(Threads)
      /\ \A i \in DOMAIN todo : todo[i] = t \/ \E j \in DOMAIN Tail(todo) : Tail(todo)[j] = todo[i]
  <2>1. todo # <<>> /\ t = Head(todo) /\ todo \in Seq(Threads)
    BY <1>1, <1>2 DEF Inv, BatchInv, TypeOK
  <2> QED BY <2>1, TailIs
<1>6. TypeOK'
  BY <1>1, <1>3, <1>4, <1>5 DEF Inv, TypeOK, Waiting, Somebody, Collected
<1>7. FreshInv'
  <2>1. Todo \subseteq Todo' \cup {t}
    BY <1>1, <1>5 DEF Todo
  <2> QED BY <1>1, <1>3, <1>4, <2>1, Subsets DEF Inv, FreshInv, MayFlush, Collected
<1>8. ChangeInv'
  BY <1>1, <1>3 DEF Inv, ChangeInv
<1> QED BY <1>3, <1>4, <1>6, <1>7, <1>8 DEF Inv, Collected

LEMMA PollOneStep == ASSUME Inv, NEW t \in Threads, PollOne(t) PROVE Inv'
<1>1. /\ UNCHANGED <<uses, child, doomed, exiting, tList, threads, dead, fresh, clobbered>>
      /\ UNCHANGED <<changed, crashed, next, todo, waitFor, pc>>
      /\ pc = "stopall" /\ Waitable(t) /\ Reap(t) /\ results' = <<<<t, stat[t]>>>> \o results
  BY DEF PollOne, UNCHANGED_Thread, listVars, regVars, bpVars
<1>2. Collected(t)
  BY <1>1, CollectStep
<1>3. Contexts' = Contexts /\ Registered' = Registered /\ ListsAgree'
  BY <1>1, ListsUnchanged DEF Inv
<1>4. TypeOK'
  BY <1>1, <1>2, <1>3 DEF Inv, TypeOK, Waiting, Collected
<1>5. FreshInv'
  <2>1. Todo' = Todo
    BY <1>1 DEF Todo
  <2> QED BY <1>1, <1>2, <1>3, <2>1, Subsets DEF Inv, FreshInv, MayFlush, Collected
<1>6. ChangeInv'
  BY <1>1, <1>3 DEF Inv, ChangeInv
<1> QED BY <1>2, <1>3, <1>4, <1>5, <1>6 DEF Inv, Collected

(* All registered threads are settled, and the registers of those that are *)
(* in a stop have been read: nothing can be written to the wrong state.    *)
LEMMA PollEndStep == ASSUME Inv, PollEnd PROVE Inv'
<1>1. /\ UNCHANGED <<uses, st, stat, exiting, doomed, child, tList, threads, dead, results>>
      /\ UNCHANGED <<clobbered, changed, crashed, todo, waitFor>>
      /\ pc = "stopall" /\ pc' = "handle" /\ todo = <<>> /\ next' = 1
      /\ fresh' = fresh \cup {t \in Registered : Stopped(t)}
  BY DEF PollEnd, UNCHANGED_Thread, listVars, bpVars
<1>2. next' = next
  BY <1>1 DEF Inv, BatchInv
<1>3. /\ Contexts' = Contexts /\ Registered' = Registered /\ Answered' = Answered
      /\ KernelInv' /\ ListsAgree' /\ PendingInv' /\ \A t : Settled(t)' <=> Settled(t)
  BY <1>1, <1>2, SameProcess
<1>4. TypeOK'
  BY <1>1, <1>2, <1>3, Subsets DEF Inv, TypeOK, Waiting
<1>5. BatchInv'
  BY <1>1 DEF Inv, BatchInv, Collecting
<1>6. FreshInv'
  <2>1. Todo = {}
    BY <1>1, EmptyIs DEF Todo
  <2>2. \A t \in Registered : Readable(t)'
    BY <1>1 DEF Readable, Stopped
  <2> QED BY <1>1, <1>3, <2>1, <2>2 DEF Inv, FreshInv, MayFlush
<1>7. ChangeInv'
  BY <1>1, <1>3 DEF Inv, ChangeInv
<1> QED BY <1>3, <1>4, <1>5, <1>6, <1>7 DEF Inv

-------------------------------------------------------------------------------
(* manage_change. *)

(* What is left to handle when a status has been handled. *)
LEMMA NextStatus ==
    ASSUME Inv, pc = "handle", UNCHANGED <<st, stat, doomed, child, results>>, next' = next + 1
    PROVE  /\ \A u : (Unhandled(u)' => Unhandled(u)) /\ (Pending(u)' => Pending(u))
           /\ \A u \in Threads : /\ Unhandled(u)' /\ ~doomed' => Stopped(u)'
                                 /\ Unhandled(u)' => stat'[u] # "clone"
           /\ \A i, j \in DOMAIN results' :
                 /\ i >= next' /\ j >= next'
                 /\ results'[i] = results'[j] /\ results'[i][2] = "clone"
                 => i = j
           /\ next' \in Nat \ {0}
<1>1. next \in Nat /\ next' \in Nat \ {0} /\ DOMAIN results \subseteq Nat
  BY DEF Inv, TypeOK
<1>2. \A i \in DOMAIN results : i >= next' => i >= next
  BY <1>1
<1>3. \A u : Unhandled(u)' => Unhandled(u)
  BY <1>2 DEF Unhandled
<1>4. \A u : Pending(u)' => Pending(u)
  BY <1>3 DEF Pending
<1>5. \A u \in Threads : /\ Unhandled(u)' /\ ~doomed' => Stopped(u)'
                         /\ Unhandled(u)' => stat'[u] # "clone"
  BY <1>3 DEF Inv, PendingInv, Stopped
<1>6. \A i, j \in DOMAIN results' :
         i >= next' /\ j >= next' /\ results'[i] = results'[j] /\ results'[i][2] = "clone" => i = j
  BY <1>2 DEF Inv, PendingInv
<1> QED BY <1>1, <1>3, <1>4, <1>5, <1>6

LEMMA HandledStep ==
    ASSUME Inv, pc = "handle", pc' = "handle", next' = next + 1,
           UNCHANGED <<uses, st, stat, exiting, doomed, child, threads, results, fresh, clobbered>>,
           UNCHANGED <<changed, crashed, todo, waitFor>>,
           ListsAgree', tList' \in Seq(Threads), dead' \subseteq Contexts, Registered' \subseteq Registered
    PROVE  Inv'
<1>0. Contexts' = Contexts
  BY DEF Contexts
<1>1. TypeOK'
  BY <1>0, NextStatus DEF Inv, TypeOK, Waiting
<1>2. BatchInv'
  BY DEF Inv, BatchInv, Collecting
<1>3. KernelInv'
  BY <1>0 DEF Inv, KernelInv, Stopped
<1>4. PendingInv'
  <2>1. ASSUME NEW u \in Threads, Pending(u)'
        PROVE  child'[u] \in {n \in Threads \ Contexts' : st'[n] \notin {"none", "free"}}
    <3>1. Pending(u)
      BY <2>1, NextStatus
    <3> QED BY <1>0, <3>1 DEF Inv, PendingInv
  <2>2. ASSUME NEW u \in Threads, NEW v \in Threads, Pending(u)', Pending(v)', child'[u] = child'[v]
        PROVE  u = v
    <3>1. Pending(u) /\ Pending(v)
      BY <2>2, NextStatus
    <3> QED BY <2>2, <3>1 DEF Inv, PendingInv
  <2> QED BY <2>1, <2>2, NextStatus DEF PendingInv
<1>5. FreshInv'
  <2>1. Answered' = Answered /\ \A t : (Settled(t)' <=> Settled(t)) /\ (Readable(t)' <=> Readable(t))
    BY DEF Answered, Settled, Readable, Stopped
  <2> QED BY <2>1 DEF Inv, FreshInv, MayFlush
<1>6. ChangeInv'
  BY <1>0 DEF Inv, ChangeInv
<1> QED BY <1>1, <1>2, <1>3, <1>4, <1>5, <1>6 DEF Inv

LEMMA HandleIgnoredStep == ASSUME Inv, HandleIgnored \/ HandleTrap PROVE Inv'
<1>1. /\ pc = "handle" /\ pc' = "handle" /\ next' = next + 1
      /\ UNCHANGED <<uses, st, stat, exiting, doomed, child, threads, results, fresh, clobbered>>
      /\ UNCHANGED <<changed, crashed, todo, waitFor, tList, dead>>
  BY DEF HandleIgnored, HandleTrap, kernelVars, listVars, regVars, bpVars
<1>2. ListsAgree' /\ Registered' = Registered
  BY <1>1, ListsUnchanged DEF Inv
<1>3. tList' \in Seq(Threads) /\ dead' \subseteq Contexts
  BY <1>1 DEF Inv, TypeOK
<1> QED BY <1>1, <1>2, <1>3, HandledStep

LEMMA HandleExitStep == ASSUME Inv, HandleExit PROVE Inv'
<1>1. /\ pc = "handle" /\ pc' = "handle" /\ next' = next + 1
      /\ UNCHANGED <<uses, st, stat, exiting, doomed, child, threads, results, fresh, clobbered>>
      /\ UNCHANGED <<changed, crashed, todo, waitFor>>
      /\ \/ Known(results[next][1]) /\ Unregister(results[next][1])
         \/ UNCHANGED <<tList, dead>>
  BY DEF HandleExit, kernelVars, regVars, bpVars
<1>2. CASE UNCHANGED <<tList, dead>>
  <2>1. ListsAgree' /\ Registered' = Registered
    BY <1>1, <1>2, ListsUnchanged DEF Inv
  <2>2. tList' \in Seq(Threads) /\ dead' \subseteq Contexts
    BY <1>2 DEF Inv, TypeOK
  <2> QED BY <1>1, <2>1, <2>2, HandledStep
<1>3. ASSUME NEW t, Known(t), Unregister(t) PROVE Inv'
  <2>1. t \in Threads /\ t \in Contexts
    BY <1>3, Subsets DEF Known
  <2>2. ListsAgree' /\ tList' \in Seq(Threads) /\ Registered' = Registered \ {t}
    BY <1>1, <1>3, <2>1, UnregisterLists DEF Inv
  <2>3. dead' \subseteq Contexts
    BY <1>3, <2>1 DEF Unregister, SetThreadAsDead, Inv, TypeOK
  <2> QED BY <1>1, <2>2, <2>3, HandledStep
<1> QED BY <1>1, <1>2, <1>3

(* The batch is empty again. *)
LEMMA HandleEndStep == ASSUME Inv, HandleEnd PROVE Inv'
<1>1. /\ UNCHANGED <<uses, st, stat, exiting, doomed, child, tList, threads, dead, fresh, clobbered>>
      /\ UNCHANGED <<changed, crashed, todo, waitFor>>
      /\ pc = "handle" /\ pc' = "decide" /\ results' = <<>> /\ next' = 1
  BY DEF HandleEnd, kernelVars, listVars, regVars, bpVars
<1>2. results' \in Seq(Somebody \X Statuses) /\ DOMAIN results' = {}
  BY <1>1, EmptyIs
<1>3. Contexts' = Contexts /\ Registered' = Registered /\ ListsAgree'
  BY <1>1, ListsUnchanged DEF Inv
<1>4. TypeOK'
  BY <1>1, <1>2, <1>3 DEF Inv, TypeOK, Waiting
<1>5. BatchInv'
  BY <1>1, <1>2 DEF BatchInv
<1>6. KernelInv'
  BY <1>1, <1>3 DEF Inv, KernelInv, Stopped
<1>7. PendingInv'
  <2>1. \A u : ~Unhandled(u)' /\ (Pending(u)' => Pending(u))
    BY <1>1, <1>2 DEF Unhandled, Pending
  <2>2. ASSUME NEW u \in Threads, Pending(u)'
        PROVE  child'[u] \in {n \in Threads \ Contexts' : st'[n] \notin {"none", "free"}}
    BY <1>1, <1>3, <2>1, <2>2 DEF Inv, PendingInv
  <2>3. \A u, v \in Threads : Pending(u)' /\ Pending(v)' /\ child'[u] = child'[v] => u = v
    BY <1>1, <2>1 DEF Inv, PendingInv
  <2> QED BY <1>1, <1>2, <2>1, <2>2, <2>3 DEF PendingInv
<1>8. FreshInv'
  <2>1. \A t : (Settled(t)' <=> Settled(t)) /\ (Readable(t)' <=> Readable(t))
    BY <1>1 DEF Settled, Readable, Stopped
  <2> QED BY <1>1, <1>3, <2>1 DEF Inv, FreshInv, MayFlush
<1>9. ChangeInv'
  BY <1>1, <1>3 DEF Inv, ChangeInv
<1> QED BY <1>3, <1>4, <1>5, <1>6, <1>7, <1>8, <1>9 DEF Inv

(* The child of a clone is registered: it is new to the lists, is settled  *)
(* (its first stop has been reported, or it has been waited for), and no   *)
(* other clone that is left to handle made it.                             *)
LEMMA RegisterChild ==
    ASSUME Inv, NEW t \in Threads, NEW n, n = child[t],
           pc \in {"handle", "waitnew"}, pc' = "handle",
           next \in DOMAIN results, results[next] = <<t, "clone">>, next' = next + 1,
           Register(n), waitFor' \in Somebody,
           UNCHANGED <<uses, exiting, doomed, child, dead, results, clobbered>>,
           UNCHANGED <<changed, crashed, todo>>,
           st' \in [Threads -> States], stat' \in [Threads -> Statuses],
           (UNCHANGED <<st, stat>> /\ n \in Answered) \/ ReapMove(n)
    PROVE  Inv'
<1>1. next \in Nat /\ next' \in Nat \ {0} /\ DOMAIN results \subseteq Nat
  BY DEF Inv, TypeOK
<1>2. Unhandled(t)
  BY <1>1 DEF Unhandled
<1>3. n \in Threads /\ n \notin Contexts /\ st[n] \notin {"none", "free"}
  BY <1>2 DEF Inv, PendingInv, Pending
<1>4. /\ ListsAgree' /\ tList' \in Seq(Threads) /\ threads' \in Seq(Threads)
      /\ Contexts' = Contexts \cup {n} /\ Registered' = Registered \cup {n}
  BY <1>3, RegisterLists DEF Inv
<1>5. Contexts \subseteq Threads /\ Registered \subseteq Threads /\ Answered \subseteq Threads
  BY Subsets
<1>6. fresh' = IF Stopped(n) THEN fresh \cup {n} ELSE fresh
  BY DEF Register
<1>7. TypeOK'
  <2>1. dead' \subseteq Contexts' /\ fresh' \subseteq Threads
    BY <1>3, <1>4, <1>6 DEF Inv, TypeOK
  <2> QED BY <1>1, <1>4, <2>1 DEF Inv, TypeOK, Waiting
<1>8. BatchInv'
  BY DEF Inv, BatchInv, Collecting
<1>9. /\ \A u \in Threads : u # n => st'[u] = st[u] /\ stat'[u] = stat[u]
      /\ st'[n] = st[n] \/ (st[n] = "zombie" /\ st'[n] = "gone")
      /\ stat'[n] = stat[n] \/ (stat'[n] = "nothing" /\ st'[n] \in {"stop", "gone"})
  BY <1>3 DEF ReapMove
<1>10. KernelInv'
  <2>1. ASSUME NEW u \in Threads
        PROVE  /\ stat'[u] # "nothing" => st'[u] = IF stat'[u] = "exit" THEN "zombie" ELSE "stop"
               /\ doomed' => /\ st'[u] \notin {"new", "clone"} /\ stat'[u] # "clone"
                             /\ Stopped(u)' => u \in exiting'
               /\ st[u] # "none" => st'[u] # "none"
               /\ st[u] # "free" => st'[u] # "free"
    <3>1. CASE UNCHANGED <<st, stat>>
      BY <3>1 DEF Inv, KernelInv, Stopped
    <3>2. CASE ReapMove(n) /\ u = n
      BY <3>2 DEF Inv, KernelInv, ReapMove, Stopped
    <3>3. CASE ReapMove(n) /\ u # n
      BY <3>3 DEF Inv, KernelInv, ReapMove, Stopped
    <3> QED BY <3>1, <3>2, <3>3
  <2> QED BY <1>3, <1>4, <1>5, <2>1 DEF Inv, KernelInv
<1>11. \A i \in DOMAIN results : i >= next' => i >= next /\ i # next
  BY <1>1
<1>12. \A u : Unhandled(u)' => Unhandled(u) /\ u # t
  <2> SUFFICES ASSUME NEW u, NEW i \in DOMAIN results, i >= next', results[i] = <<u, "clone">>
               PROVE  Unhandled(u) /\ u # t
    BY DEF Unhandled
  <2>1. i >= next /\ i # next
    BY <1>11
  <2>2. Unhandled(u)
    BY <2>1 DEF Unhandled
  <2>3. u # t
    BY <1>1, <2>1 DEF Inv, PendingInv
  <2> QED BY <2>2, <2>3
<1>13. \A u \in Threads : Pending(u)' => Pending(u) /\ u # t
  <2>1. st[t] # "clone" /\ stat[t] # "clone"
    BY <1>2 DEF Inv, PendingInv, KernelInv, Stopped
  <2>2. ASSUME NEW u \in Threads, st'[u] = "clone" \/ stat'[u] = "clone"
        PROVE  st[u] = "clone" \/ stat[u] = "clone"
    BY <1>9, <2>2
  <2> QED BY <1>12, <2>1, <2>2 DEF Pending
<1>14. PendingInv'
  <2>1. ASSUME NEW u \in Threads, Pending(u)'
        PROVE  child'[u] \in {k \in Threads \ Contexts' : st'[k] \notin {"none", "free"}}
    <3>1. Pending(u) /\ u # t /\ Pending(t)
      BY <1>2, <1>13, <2>1 DEF Pending
    <3>2. child[u] \in Threads \ Contexts /\ st[child[u]] \notin {"none", "free"} /\ child[u] # n
      BY <3>1 DEF Inv, PendingInv
    <3> QED BY <1>4, <1>9, <3>2
  <2>2. \A u, v \in Threads : Pending(u)' /\ Pending(v)' /\ child'[u] = child'[v] => u = v
    BY <1>13 DEF Inv, PendingInv
  <2>3. ASSUME NEW u \in Threads, Unhandled(u)'
        PROVE  (~doomed' => Stopped(u)') /\ stat'[u] # "clone"
    <3>1. (~doomed => Stopped(u)) /\ stat[u] # "clone"
      BY <1>12, <2>3 DEF Inv, PendingInv
    <3> QED BY <1>9, <3>1 DEF Stopped
  <2>4. \A i, j \in DOMAIN results' :
           i >= next' /\ j >= next' /\ results'[i] = results'[j] /\ results'[i][2] = "clone" => i = j
    BY <1>11 DEF Inv, PendingInv
  <2> QED BY <2>1, <2>2, <2>3, <2>4 DEF PendingInv
<1>15. FreshInv'
  <2> SUFFICES ASSUME "gdb runs" \notin uses PROVE FreshInv'
    BY DEF FreshInv
  <2>1. Settled(n)' /\ Readable(n)'
    <3>1. CASE UNCHANGED <<st, stat>> /\ n \in Answered
      BY <1>6, <3>1 DEF Inv, FreshInv, Settled, Readable, Stopped
    <3>2. CASE ReapMove(n)
      BY <1>6, <3>2 DEF ReapMove, Settled, Readable, Stopped
    <3> QED BY <3>1, <3>2
  <2>2. ASSUME NEW u \in Threads, u # n
        PROVE  (Settled(u) => Settled(u)') /\ (Readable(u) => Readable(u)')
    BY <1>6, <1>9, <2>2 DEF Settled, Readable, Stopped
  <2>3. Answered' = Answered
    BY DEF Answered
  <2> QED BY <1>4, <1>5, <2>1, <2>2, <2>3 DEF Inv, FreshInv, MayFlush
<1>16. ChangeInv'
  BY <1>4 DEF Inv, ChangeInv
<1> QED BY <1>4, <1>7, <1>8, <1>10, <1>14, <1>15, <1>16 DEF Inv

(* An exception leaves the batch where it is. *)
LEMMA RaisedStep ==
    ASSUME Inv, pc \in {"handle", "waitnew"}, pc' = "raised",
           UNCHANGED <<uses, st, stat, exiting, doomed, child, tList, threads, dead, results, next>>,
           UNCHANGED <<fresh, clobbered, changed, crashed, todo>>, waitFor' \in Somebody
    PROVE  Inv'
<1>1. /\ Contexts' = Contexts /\ Registered' = Registered
      /\ KernelInv' /\ ListsAgree' /\ PendingInv'
  BY SameProcess
<1>2. TypeOK'
  BY <1>1 DEF Inv, TypeOK, Waiting
<1>3. BatchInv'
  BY DEF Inv, BatchInv, Collecting
<1>4. FreshInv'
  BY <1>1 DEF Inv, FreshInv, MayFlush
<1>5. ChangeInv'
  BY <1>1 DEF Inv, ChangeInv
<1> QED BY <1>1, <1>2, <1>3, <1>4, <1>5 DEF Inv

LEMMA HandleCloneStep == ASSUME Inv, HandleClone PROVE Inv'
<1> DEFINE t == results[next][1]
           n == child[t]
<1>1. /\ UNCHANGED <<uses, st, stat, exiting, doomed, child, dead, results, clobbered>>
      /\ UNCHANGED <<changed, crashed, todo>>
      /\ pc = "handle" /\ next <= Len(results) /\ results[next][2] = "clone"
      /\ \/ pc' = "raised" /\ UNCHANGED <<next, waitFor, tList, threads, fresh>>
         \/ /\ <<n, "stop">> \in {results[i] : i \in DOMAIN results}
            /\ Register(n) /\ next' = next + 1 /\ UNCHANGED <<waitFor, pc>>
         \/ waitFor' = n /\ pc' = "waitnew" /\ UNCHANGED <<next, tList, threads, fresh>>
  BY DEF HandleClone, UNCHANGED_Thread, bpVars
<1>2. next \in DOMAIN results /\ next \in Nat
  BY <1>1 DEF Inv, TypeOK
<1>3. t \in Threads /\ results[next] = <<t, "clone">>
  BY <1>1, <1>2 DEF Inv, TypeOK, BatchInv
<1> HIDE DEF t
<1>4. n \in Threads
  <2>1. Unhandled(t)
    BY <1>2, <1>3 DEF Unhandled
  <2> QED BY <1>3, <2>1 DEF Inv, PendingInv, Pending
<1> HIDE DEF n
<1>5. CASE pc' = "raised" /\ UNCHANGED <<next, waitFor, tList, threads, fresh>>
  <2>1. waitFor' \in Somebody
    BY <1>5 DEF Inv, TypeOK
  <2> QED BY <1>1, <1>5, <2>1, RaisedStep
<1>6. CASE /\ <<n, "stop">> \in {results[i] : i \in DOMAIN results}
           /\ Register(n) /\ next' = next + 1 /\ UNCHANGED <<waitFor, pc>>
  <2>1. n \in Answered
    BY <1>4, <1>6 DEF Answered
  <2>2. st' \in [Threads -> States] /\ stat' \in [Threads -> Statuses] /\ waitFor' \in Somebody
    BY <1>1, <1>6 DEF Inv, TypeOK
  <2>3. n = child[t]
    BY DEF n
  <2> QED BY <1>1, <1>2, <1>3, <1>6, <2>1, <2>2, <2>3, RegisterChild
<1>7. CASE waitFor' = n /\ pc' = "waitnew" /\ UNCHANGED <<next, tList, threads, fresh>>
  <2>1. /\ Contexts' = Contexts /\ Registered' = Registered /\ Answered' = Answered
        /\ KernelInv' /\ ListsAgree'
        /\ \A u : (Settled(u)' <=> Settled(u)) /\ (Readable(u) => Readable(u)')
    BY <1>1, <1>7, SameProcess
  <2>2. TypeOK'
    BY <1>1, <1>4, <1>7, <2>1 DEF Inv, TypeOK, Somebody
  <2>3. BatchInv'
    BY <1>1, <1>7 DEF Inv, BatchInv, Collecting
  <2>4. PendingInv'
    <3>1. \A u : (Unhandled(u)' <=> Unhandled(u)) /\ (Pending(u)' <=> Pending(u))
      BY <1>1, <1>7 DEF Unhandled, Pending
    <3>2. next' \in DOMAIN results' /\ results'[next'] = <<t, "clone">> /\ waitFor' = child'[t]
      BY <1>1, <1>2, <1>3, <1>7 DEF n
    <3> QED BY <1>1, <1>3, <1>7, <2>1, <3>1, <3>2 DEF Inv, PendingInv, Stopped
  <2>5. FreshInv'
    BY <1>1, <1>7, <2>1 DEF Inv, FreshInv, MayFlush
  <2>6. ChangeInv'
    BY <1>1, <1>7, <2>1 DEF Inv, ChangeInv
  <2> QED BY <2>1, <2>2, <2>3, <2>4, <2>5, <2>6 DEF Inv
<1> QED BY <1>1, <1>5, <1>6, <1>7

LEMMA WaitNewStep == ASSUME Inv, WaitNew PROVE Inv'
<1>1. /\ UNCHANGED <<uses, exiting, doomed, child, dead, results, clobbered, changed, crashed, todo>>
      /\ pc = "waitnew" /\ waitFor' = NoThread /\ waitFor' \in Somebody
  BY DEF WaitNew, UNCHANGED_Thread, bpVars, Somebody
<1>2. PICK t \in Threads : /\ next \in DOMAIN results /\ results[next] = <<t, "clone">>
                           /\ waitFor = child[t]
  <2>1. next \in DOMAIN results /\ results[next][2] = "clone" /\ results[next][1] \in Threads
    BY <1>1 DEF Inv, PendingInv
  <2>2. results[next] = <<results[next][1], "clone">>
    BY <2>1 DEF Inv, TypeOK
  <2> QED BY <1>1, <2>1, <2>2 DEF Inv, PendingInv
<1>3. PICK n \in Threads : n = waitFor
  BY <1>1 DEF Inv, TypeOK, Waiting
<1>4. CASE Waitable(n) /\ Reap(n) /\ Register(n) /\ next' = next + 1 /\ pc' = "handle"
  <2>1. st' \in [Threads -> States] /\ stat' \in [Threads -> Statuses] /\ ReapMove(n)
    BY <1>4, ReapMoves
  <2> QED BY <1>1, <1>2, <1>3, <1>4, <2>1, RegisterChild
<1>5. CASE pc' = "raised" /\ UNCHANGED <<st, stat, next, tList, threads, fresh>>
  BY <1>1, <1>5, RaisedStep
<1> QED BY <1>3, <1>4, <1>5 DEF WaitNew

-------------------------------------------------------------------------------
(* Steps between two batches.  A step of this kind moves threads; it keeps *)
(* what is known of the kernel if it puts none back into a clone, a stop   *)
(* or the time before its creation.                                        *)

BetweenMove ==
    \A u \in Threads :
        /\ stat'[u] # "nothing" => st'[u] = IF stat'[u] = "exit" THEN "zombie" ELSE "stop"
        /\ doomed' => /\ st'[u] \notin {"new", "clone"} /\ stat'[u] # "clone"
                      /\ Stopped(u)' => u \in exiting'
        /\ st[u] # "none" => st'[u] # "none"
        /\ u \in Registered /\ (doomed' \/ pc' \notin {"gdb", "back", "ended"}) => st'[u] # "free"
        /\ u \notin Contexts /\ st[u] \notin {"none", "free"} => st'[u] # "free"
        /\ st'[u] = "clone" \/ stat'[u] = "clone" => st[u] = "clone" \/ stat[u] = "clone"

LEMMA BetweenStep ==
    ASSUME Inv, BetweenMove, pc \notin Collecting, pc' # "waitnew",
           UNCHANGED <<tList, threads, dead, child, results, next>>
    PROVE  /\ Contexts' = Contexts /\ Registered' = Registered /\ ListsAgree'
           /\ KernelInv' /\ PendingInv' /\ (pc' \notin {"stopone", "stopall", "killwait"} => BatchInv')
<1>1. Contexts' = Contexts /\ Registered' = Registered /\ ListsAgree'
  BY ListsUnchanged DEF Inv
<1>2. Contexts \subseteq Threads /\ Registered \subseteq Threads
  BY Subsets
<1>3. results = <<>> /\ DOMAIN results = {} /\ \A u : ~Unhandled(u)
  BY NoBatch
<1>4. DOMAIN results' = {} /\ \A u : ~Unhandled(u)'
  BY <1>3 DEF Unhandled
<1>5. \A u \in Threads : Pending(u)' => Pending(u)
  BY <1>4 DEF Pending, BetweenMove
<1>6. KernelInv'
  BY <1>1, <1>2 DEF Inv, KernelInv, BetweenMove
<1>7. PendingInv'
  <2>1. ASSUME NEW u \in Threads, Pending(u)'
        PROVE  child'[u] \in {n \in Threads \ Contexts' : st'[n] \notin {"none", "free"}}
    <3>1. child[u] \in Threads \ Contexts /\ st[child[u]] \notin {"none", "free"}
      BY <1>5, <2>1 DEF Inv, PendingInv
    <3> QED BY <1>1, <3>1 DEF BetweenMove
  <2>2. \A u, v \in Threads : Pending(u)' /\ Pending(v)' /\ child'[u] = child'[v] => u = v
    BY <1>5 DEF Inv, PendingInv
  <2> QED BY <1>4, <2>1, <2>2 DEF PendingInv
<1>8. pc' \notin {"stopone", "stopall", "killwait"} => BatchInv'
  <2>1. next' = 1
    BY DEF Inv, BatchInv, Collecting
  <2> QED BY <1>3, <1>4, <2>1 DEF BatchInv
<1> QED BY <1>1, <1>6, <1>7, <1>8

LEMMA ResumedMoves ==
    ASSUME Inv, NEW S, Resumed(S), pc \notin {"gdb", "back", "ended"}, UNCHANGED <<exiting, doomed>>
    PROVE  /\ st' \in [Threads -> States] /\ stat' \in [Threads -> Statuses]
           /\ fresh' \subseteq Threads /\ BetweenMove
           /\ \A u \in Threads \ S : (Settled(u) => Settled(u)') /\ (Readable(u) => Readable(u)')
<1>1. /\ st' = [t \in Threads |-> IF t \in S /\ Stopped(t) THEN "run" ELSE st[t]]
      /\ stat' = [t \in Threads |-> IF t \in S /\ Stopped(t) THEN "nothing" ELSE stat[t]]
      /\ fresh' = fresh \ {t \in S : Stopped(t)}
  BY DEF Resumed
<1>2. st' \in [Threads -> States] /\ stat' \in [Threads -> Statuses] /\ fresh' \subseteq Threads
  BY <1>1 DEF Inv, TypeOK, States, Statuses
<1>3. ASSUME NEW u \in Threads
      PROVE  \/ st[u] = "stop" /\ st'[u] = "run" /\ stat'[u] = "nothing"
             \/ st'[u] = st[u] /\ stat'[u] = stat[u]
  BY <1>1 DEF Stopped
<1>4. BetweenMove
  BY <1>3, Subsets DEF Inv, KernelInv, BetweenMove, Stopped
<1>5. ASSUME NEW u \in Threads \ S
      PROVE  (Settled(u) => Settled(u)') /\ (Readable(u) => Readable(u)')
  BY <1>1 DEF Settled, Readable, Stopped
<1> QED BY <1>2, <1>4, <1>5

(* Where registers are written all are known, unless gdb let threads run. *)
LEMMA FlushKeeps ==
    ASSUME Inv, FlushRegs, MayFlush
    PROVE  "gdb runs" \notin uses => ~clobbered'
BY DEF Inv, FreshInv, FlushRegs, Readable

(* The main thread is in the list as long as it is not dead. *)
LEMMA MainListed == ASSUME Inv, Main \notin dead PROVE tList # <<>>
<1>1. Main \in Registered
  BY DEF Inv, ChangeInv, ListsAgree
<1> QED BY <1>1, EmptyIs DEF Registered

LEMMA ContStep ==
    ASSUME Inv, Cont, pc = "decide" \/ (pc = "idle" /\ Main \notin dead)
    PROVE  Inv'
<1>1. /\ UNCHANGED <<uses, exiting, doomed, child, tList, threads, dead, results, next, todo, waitFor>>
      /\ Resumed(Registered) /\ FlushRegs /\ ~changed'
      /\ crashed' = (crashed \/ (changed /\ tList = <<>>))
      /\ pc' \in {"ended", "top"}
  BY DEF Cont, UNCHANGED_Thread, listVars, loopVars
<1>2. pc \notin Collecting /\ pc \notin {"gdb", "back", "ended"} /\ MayFlush
  BY DEF Collecting, MayFlush
<1>3. st' \in [Threads -> States] /\ stat' \in [Threads -> Statuses] /\ fresh' \subseteq Threads /\ BetweenMove
  BY <1>1, <1>2, ResumedMoves
<1>4. /\ Contexts' = Contexts /\ Registered' = Registered /\ ListsAgree'
      /\ KernelInv' /\ PendingInv' /\ BatchInv'
  BY <1>1, <1>2, <1>3, BetweenStep
<1>5. TypeOK'
  BY <1>1, <1>3, <1>4 DEF Inv, TypeOK, Waiting
<1>6. FreshInv'
  BY <1>1, <1>2, FlushKeeps DEF FreshInv, MayFlush
<1>7. ChangeInv'
  BY <1>1, <1>4, MainListed DEF Inv, ChangeInv
<1> QED BY <1>4, <1>5, <1>6, <1>7 DEF Inv

LEMMA DecideStep == ASSUME Inv, Decide PROVE Inv'
<1>1. CASE resume /\ Cont
  BY <1>1, ContStep DEF Decide
<1>2. CASE ~resume
  <2>1. /\ UNCHANGED <<uses, st, stat, exiting, doomed, child, tList, threads, dead, results, next>>
        /\ UNCHANGED <<fresh, clobbered, changed, crashed, todo, waitFor>>
        /\ pc = "decide" /\ pc' = "idle"
    BY <1>2 DEF Decide, kernelVars, listVars, regVars, bpVars, loopVars
  <2>2. /\ Contexts' = Contexts /\ Registered' = Registered
        /\ KernelInv' /\ ListsAgree' /\ PendingInv'
        /\ \A u : (Settled(u)' <=> Settled(u)) /\ (Readable(u) => Readable(u)')
    BY <2>1, SameProcess
  <2>3. TypeOK'
    BY <2>1, <2>2 DEF Inv, TypeOK, Waiting
  <2>4. BatchInv'
    BY <2>1 DEF Inv, BatchInv, Collecting
  <2>5. FreshInv'
    BY <2>1, <2>2 DEF Inv, FreshInv, MayFlush
  <2>6. ChangeInv'
    BY <2>1, <2>2 DEF Inv, ChangeInv
  <2> QED BY <2>2, <2>3, <2>4, <2>5, <2>6 DEF Inv
<1> QED BY <1>1, <1>2 DEF Decide

LEMMA ScriptChangeStep == ASSUME Inv, ScriptChange PROVE Inv'
<1>1. /\ UNCHANGED <<uses, st, stat, exiting, doomed, child, tList, threads, dead, results, next>>
      /\ UNCHANGED <<fresh, clobbered, crashed, todo, waitFor, pc>>
      /\ pc = "idle" /\ "change" \in uses
  BY DEF ScriptChange, kernelVars, listVars, regVars, loopVars
<1>2. /\ Contexts' = Contexts /\ Registered' = Registered
      /\ KernelInv' /\ ListsAgree' /\ PendingInv'
      /\ \A u : (Settled(u)' <=> Settled(u)) /\ (Readable(u) => Readable(u)')
  BY <1>1, SameProcess
<1>3. TypeOK'
  BY <1>1, <1>2 DEF Inv, TypeOK, Waiting
<1>4. BatchInv'
  BY <1>1 DEF Inv, BatchInv, Collecting
<1>5. FreshInv'
  BY <1>1, <1>2 DEF Inv, FreshInv, MayFlush
<1>6. ChangeInv'
  BY <1>1, <1>2 DEF Inv, ChangeInv
<1> QED BY <1>2, <1>3, <1>4, <1>5, <1>6 DEF Inv

LEMMA ScriptStepStep == ASSUME Inv, NEW t \in Threads, ScriptStep(t) PROVE Inv'
<1>1. /\ UNCHANGED <<uses, exiting, doomed, child, tList, threads, dead, results, next, todo, waitFor>>
      /\ UNCHANGED <<changed, crashed>>
      /\ Resumed({t} \cap Registered) /\ FlushRegs
      /\ pc = "idle" /\ pc' \in {"top", "raised"} /\ Main \notin dead /\ "step" \in uses
  BY DEF ScriptStep, UNCHANGED_Thread, listVars, loopVars, bpVars
<1>2. pc \notin Collecting /\ pc \notin {"gdb", "back", "ended"} /\ MayFlush
  BY <1>1 DEF Collecting, MayFlush
<1>3. st' \in [Threads -> States] /\ stat' \in [Threads -> Statuses] /\ fresh' \subseteq Threads /\ BetweenMove
  BY <1>1, <1>2, ResumedMoves
<1>4. /\ Contexts' = Contexts /\ Registered' = Registered /\ ListsAgree'
      /\ KernelInv' /\ PendingInv' /\ BatchInv'
  BY <1>1, <1>2, <1>3, BetweenStep
<1>5. TypeOK'
  BY <1>1, <1>3, <1>4 DEF Inv, TypeOK, Waiting
<1>6. FreshInv'
  BY <1>1, <1>2, FlushKeeps DEF FreshInv, MayFlush
<1>7. ChangeInv'
  BY <1>1, <1>4 DEF Inv, ChangeInv
<1> QED BY <1>4, <1>5, <1>6, <1>7 DEF Inv

LEMMA ScriptUntilStep == ASSUME Inv, NEW t \in Threads, ScriptUntil(t) PROVE Inv'
<1>1. /\ UNCHANGED <<uses, exiting, doomed, child, tList, threads, dead, results, next, todo>>
      /\ UNCHANGED <<changed, crashed>>
      /\ Resumed({t} \cap Registered) /\ FlushRegs
      /\ pc = "idle" /\ Main \notin dead
      /\ (pc' = "until" /\ waitFor' = t) \/ (pc' = "raised" /\ waitFor' = waitFor)
  BY DEF ScriptUntil, UNCHANGED_Thread, listVars, bpVars
<1>2. pc \notin Collecting /\ pc \notin {"gdb", "back", "ended"} /\ MayFlush
  BY <1>1 DEF Collecting, MayFlush
<1>3. /\ st' \in [Threads -> States] /\ stat' \in [Threads -> Statuses] /\ fresh' \subseteq Threads /\ BetweenMove
      /\ \A u \in Threads \ ({t} \cap Registered) :
            (Settled(u) => Settled(u)') /\ (Readable(u) => Readable(u)')
  BY <1>1, <1>2, ResumedMoves
<1>4. /\ Contexts' = Contexts /\ Registered' = Registered /\ ListsAgree'
      /\ KernelInv' /\ PendingInv' /\ BatchInv'
  BY <1>1, <1>2, <1>3, BetweenStep
<1>5. TypeOK'
  BY <1>1, <1>3, <1>4 DEF Inv, TypeOK, Waiting, Somebody
<1>6. FreshInv'
  BY <1>1, <1>2, <1>3, <1>4, FlushKeeps, Subsets DEF Inv, FreshInv, MayFlush
<1>7. ChangeInv'
  BY <1>1, <1>4 DEF Inv, ChangeInv
<1> QED BY <1>4, <1>5, <1>6, <1>7 DEF Inv

(* The thread that step_until moves runs on, or is back with its registers *)
(* read, or is no more; the others have not moved.                         *)
LEMMA UntilStepStep == ASSUME Inv, UntilStep PROVE Inv'
<1>1. /\ UNCHANGED <<uses, exiting, doomed, child, tList, threads, dead, results, next, todo>>
      /\ UNCHANGED <<changed, crashed, clobbered>>
      /\ pc = "until" /\ Waitable(waitFor)
      /\ stat' = [stat EXCEPT ![waitFor] = "nothing"]
      /\ \/ /\ st' = [st EXCEPT ![waitFor] = "gone"] /\ stat[waitFor] = "exit"
            /\ pc' = "idle" /\ fresh' = fresh
         \/ st' = st /\ pc' = "idle" /\ fresh' = fresh \cup {waitFor} /\ stat[waitFor] # "exit"
         \/ st' = [st EXCEPT ![waitFor] = "run"] /\ pc' = pc /\ fresh' = fresh /\ stat[waitFor] # "exit"
      /\ waitFor' = IF pc' = "idle" THEN NoThread ELSE waitFor
  BY DEF UntilStep, UNCHANGED_Thread, listVars, bpVars
<1>2. PICK t \in Threads : t = waitFor
  BY <1>1 DEF Inv, TypeOK, Waiting
<1>3. stat[t] # "nothing" /\ st[t] = IF stat[t] = "exit" THEN "zombie" ELSE "stop"
  BY <1>1, <1>2 DEF Waitable, Inv, KernelInv
<1>4. /\ \A u \in Threads \ {t} : st'[u] = st[u] /\ stat'[u] = stat[u]
      /\ stat'[t] = "nothing"
      /\ \/ st'[t] = "gone" /\ pc' = "idle" /\ fresh' = fresh
         \/ st'[t] = "stop" /\ st[t] = "stop" /\ pc' = "idle" /\ fresh' = fresh \cup {t}
         \/ st'[t] = "run" /\ pc' = "until" /\ fresh' = fresh
  BY <1>1, <1>2, <1>3 DEF Inv, TypeOK
<1>5. st' \in [Threads -> States] /\ stat' \in [Threads -> Statuses] /\ fresh' \subseteq Threads
  BY <1>1, <1>2 DEF Inv, TypeOK, States, Statuses
<1>6. BetweenMove
  <2>1. ASSUME NEW u \in Threads
        PROVE  /\ stat'[u] # "nothing" => st'[u] = IF stat'[u] = "exit" THEN "zombie" ELSE "stop"
               /\ doomed' => /\ st'[u] \notin {"new", "clone"} /\ stat'[u] # "clone"
                             /\ Stopped(u)' => u \in exiting'
               /\ st[u] # "none" => st'[u] # "none"
               /\ st'[u] = "free" => st[u] = "free"
               /\ st'[u] = "clone" \/ stat'[u] = "clone" => st[u] = "clone" \/ stat[u] = "clone"
    <3>1. CASE u = t
      BY <1>1, <1>3, <1>4, <3>1 DEF Inv, KernelInv, Stopped
    <3>2. CASE u # t
      BY <1>1, <1>4, <3>2 DEF Inv, KernelInv, Stopped
    <3> QED BY <3>1, <3>2
  <2>2. \A u \in Registered : st[u] # "free"
    BY <1>1 DEF Inv, KernelInv
  <2> QED BY <2>1, <2>2 DEF BetweenMove
<1>7. /\ Contexts' = Contexts /\ Registered' = Registered /\ ListsAgree'
      /\ KernelInv' /\ PendingInv' /\ BatchInv'
  BY <1>1, <1>6, BetweenStep DEF Collecting
<1>8. TypeOK'
  BY <1>1, <1>2, <1>5, <1>7 DEF Inv, TypeOK, Waiting, Somebody
<1>9. FreshInv'
  <2>1. \A u \in Threads \ {t} : (Settled(u) => Settled(u)') /\ (Readable(u) => Readable(u)')
    BY <1>1, <1>4 DEF Settled, Readable, Stopped
  <2>2. pc' = "idle" => Settled(t)' /\ Readable(t)'
    BY <1>4 DEF Settled, Readable, Stopped
  <2> QED BY <1>1, <1>2, <1>7, <2>1, <2>2, Subsets DEF Inv, FreshInv, MayFlush
<1>10. ChangeInv'
  BY <1>1, <1>7 DEF Inv, ChangeInv
<1> QED BY <1>7, <1>8, <1>9, <1>10 DEF Inv

-------------------------------------------------------------------------------
(* kill *)

LEMMA ScriptKillStep == ASSUME Inv, ScriptKill PROVE Inv'
<1>1. /\ UNCHANGED <<uses, st, stat, exiting, doomed, child, tList, threads, dead, results, next>>
      /\ UNCHANGED <<fresh, clobbered, changed, crashed, waitFor>>
      /\ pc = "idle" /\ pc' = "killing" /\ todo' = tList
  BY DEF ScriptKill, kernelVars, listVars, regVars, bpVars
<1>2. /\ Contexts' = Contexts /\ Registered' = Registered
      /\ KernelInv' /\ ListsAgree' /\ PendingInv'
  BY <1>1, SameProcess
<1>3. TypeOK'
  BY <1>1, <1>2 DEF Inv, TypeOK, Waiting
<1>4. BatchInv'
  BY <1>1 DEF Inv, BatchInv, Collecting
<1>5. FreshInv'
  BY <1>1, <1>2 DEF Inv, FreshInv, MayFlush
<1>6. ChangeInv'
  BY <1>1, <1>2 DEF Inv, ChangeInv
<1> QED BY <1>2, <1>3, <1>4, <1>5, <1>6 DEF Inv

(* Every thread is woken by the SIGKILL, and the one that was detached is  *)
(* no more.                                                                *)
LEMMA DetachKillMoves ==
    ASSUME Inv, NEW t \in Threads, DetachKill(t), child' = child, exiting' = exiting
    PROVE  /\ st' \in [Threads -> States] /\ stat' \in [Threads -> Statuses] /\ BetweenMove
<1> DEFINE ended(u) == u = t /\ st[u] \in {"stop", "run"}
<1>1. /\ st' = [u \in Threads |->
                   IF ended(u) THEN IF u = Main THEN "zombie" ELSE "gone" ELSE Woken(u)]
      /\ stat' = [u \in Threads |->
                   IF ended(u) THEN IF u = Main THEN "exit" ELSE "nothing" ELSE WokenStatus(u)]
      /\ doomed' = TRUE
  BY DEF DetachKill
<1>2. ASSUME NEW u \in Threads
      PROVE  /\ st'[u] \in States \ {"new", "clone", "stop", "free"} /\ stat'[u] \in {"nothing", "exit"}
             /\ stat'[u] = "exit" => st'[u] = "zombie"
             /\ st[u] # "none" => st'[u] # "none"
  <2>1. CASE ended(u)
    BY <1>1, <2>1 DEF States
  <2>2. CASE ~ended(u)
    BY <1>1, <2>2, WokenIs
  <2> QED BY <2>1, <2>2
<1> HIDE DEF ended
<1>3. st' \in [Threads -> States] /\ stat' \in [Threads -> Statuses]
  BY <1>1, <1>2 DEF Statuses
<1>4. BetweenMove
  BY <1>1, <1>2 DEF BetweenMove, Stopped
<1> QED BY <1>3, <1>4

LEMMA KillOneStep ==
    ASSUME Inv, pc \in {"killing", "killwait"}, pc' \in {"killing", "ended"}, BetweenMove,
           st' \in [Threads -> States], stat' \in [Threads -> Statuses],
           UNCHANGED <<uses, exiting, child, tList, threads, dead, results, next, fresh, clobbered>>,
           UNCHANGED <<changed, crashed>>, todo' \in Seq(Threads), waitFor' \in Somebody
    PROVE  Inv'
<1>1. /\ Contexts' = Contexts /\ Registered' = Registered /\ ListsAgree'
      /\ KernelInv' /\ PendingInv' /\ BatchInv'
  BY BetweenStep DEF Collecting
<1>2. TypeOK'
  BY <1>1 DEF Inv, TypeOK, Waiting
<1>3. FreshInv'
  BY DEF Inv, FreshInv, MayFlush
<1>4. ChangeInv'
  BY <1>1 DEF Inv, ChangeInv
<1> QED BY <1>1, <1>2, <1>3, <1>4 DEF Inv

LEMMA NothingMoves ==
    ASSUME Inv, UNCHANGED <<st, stat, exiting, doomed>>, pc \notin {"gdb", "back", "ended"}
    PROVE  /\ st' \in [Threads -> States] /\ stat' \in [Threads -> Statuses] /\ BetweenMove
<1>1. st' \in [Threads -> States] /\ stat' \in [Threads -> Statuses]
  BY DEF Inv, TypeOK
<1>2. BetweenMove
  BY DEF Inv, KernelInv, BetweenMove, Stopped
<1> QED BY <1>1, <1>2

LEMMA ReapBetween ==
    ASSUME Inv, NEW t \in Threads, Waitable(t), Reap(t), UNCHANGED <<exiting, doomed>>,
           pc \notin {"gdb", "back", "ended"}
    PROVE  /\ st' \in [Threads -> States] /\ stat' \in [Threads -> Statuses] /\ BetweenMove
<1>1. st' \in [Threads -> States] /\ stat' \in [Threads -> Statuses] /\ ReapMove(t)
  BY ReapMoves
<1>2. ASSUME NEW u \in Threads
      PROVE  /\ stat'[u] # "nothing" => st'[u] = IF stat'[u] = "exit" THEN "zombie" ELSE "stop"
             /\ doomed' => /\ st'[u] \notin {"new", "clone"} /\ stat'[u] # "clone"
                           /\ Stopped(u)' => u \in exiting'
             /\ st[u] # "none" => st'[u] # "none"
             /\ st'[u] = "free" => st[u] = "free"
             /\ st'[u] = "clone" \/ stat'[u] = "clone" => st[u] = "clone" \/ stat[u] = "clone"
  <2>1. CASE u = t
    BY <1>1, <2>1 DEF ReapMove, Inv, KernelInv, Stopped
  <2>2. CASE u # t
    BY <1>1, <2>2 DEF ReapMove, Inv, KernelInv, Stopped
  <2> QED BY <2>1, <2>2
<1>3. \A u \in Registered : st[u] # "free"
  BY DEF Inv, KernelInv
<1>4. BetweenMove
  BY <1>2, <1>3 DEF BetweenMove
<1> QED BY <1>1, <1>4

LEMMA KillSteps ==
    ASSUME Inv, KillStopped \/ KillRunning \/ KillWaited \/ KillEnd
    PROVE  Inv'
<1>0. waitFor \in Somebody /\ NoThread \in Somebody /\ todo \in Seq(Threads)
  BY DEF Inv, TypeOK, Somebody
<1>1. CASE KillStopped
  <2>1. /\ UNCHANGED <<uses, exiting, child, tList, threads, dead, results, next, fresh, clobbered>>
        /\ UNCHANGED <<changed, crashed, waitFor, pc>>
        /\ pc = "killing" /\ todo # <<>> /\ DetachKill(Head(todo)) /\ todo' = Tail(todo)
    BY <1>1 DEF KillStopped, DetachKill, listVars, regVars, bpVars
  <2>2. Head(todo) \in Threads /\ Tail(todo) \in Seq(Threads)
    BY <1>0, <2>1, TailIs
  <2>3. st' \in [Threads -> States] /\ stat' \in [Threads -> Statuses] /\ BetweenMove
    BY <2>1, <2>2, DetachKillMoves
  <2> QED BY <1>0, <2>1, <2>2, <2>3, KillOneStep
<1>2. CASE KillRunning
  <2>1. /\ UNCHANGED <<uses, st, stat, exiting, doomed, child, tList, threads, dead, results, next>>
        /\ UNCHANGED <<fresh, clobbered, changed, crashed, todo>>
        /\ pc = "killing" /\ pc' = "killwait" /\ todo # <<>> /\ waitFor' = Head(todo)
    BY <1>2 DEF KillRunning, listVars, regVars, bpVars
  <2>2. Head(todo) \in Threads
    BY <1>0, <2>1, TailIs
  <2>3. /\ Contexts' = Contexts /\ Registered' = Registered
        /\ KernelInv' /\ ListsAgree' /\ PendingInv'
    BY <2>1, SameProcess
  <2>4. TypeOK'
    BY <2>1, <2>2, <2>3 DEF Inv, TypeOK, Waiting, Somebody
  <2>5. BatchInv'
    BY <2>1 DEF Inv, BatchInv, Collecting
  <2>6. FreshInv'
    BY <2>1, <2>3 DEF Inv, FreshInv, MayFlush
  <2>7. ChangeInv'
    BY <2>1, <2>3 DEF Inv, ChangeInv
  <2> QED BY <2>3, <2>4, <2>5, <2>6, <2>7 DEF Inv
<1>3. CASE KillWaited
  <2>1. /\ UNCHANGED <<uses, exiting, child, tList, threads, dead, results, next, fresh, clobbered>>
        /\ UNCHANGED <<changed, crashed>>
        /\ pc = "killwait" /\ pc' = "killing" /\ waitFor' = NoThread /\ todo' = Tail(todo)
    BY <1>3 DEF KillWaited, DetachKill, listVars, regVars, bpVars
  <2>2. PICK t \in Threads : t = waitFor
    BY <2>1 DEF Inv, TypeOK, Waiting
  <2>3. Tail(todo) \in Seq(Threads)
    <3>1. todo # <<>>
      BY <2>1 DEF Inv, BatchInv
    <3> QED BY <1>0, <3>1, TailIs
  <2>4. pc \notin {"gdb", "back", "ended"}
    BY <2>1
  <2>5. CASE DetachKill(t)
    <3>1. st' \in [Threads -> States] /\ stat' \in [Threads -> Statuses] /\ BetweenMove
      BY <2>1, <2>5, DetachKillMoves
    <3> QED BY <1>0, <2>1, <2>3, <3>1, KillOneStep
  <2>6. CASE Waitable(t) /\ Reap(t) /\ UNCHANGED doomed
    <3>1. st' \in [Threads -> States] /\ stat' \in [Threads -> Statuses] /\ BetweenMove
      BY <2>1, <2>4, <2>6, ReapBetween
    <3> QED BY <1>0, <2>1, <2>3, <3>1, KillOneStep
  <2>7. CASE UNCHANGED <<st, stat, doomed>>
    <3>1. st' \in [Threads -> States] /\ stat' \in [Threads -> Statuses] /\ BetweenMove
      BY <2>1, <2>4, <2>7, NothingMoves
    <3> QED BY <1>0, <2>1, <2>3, <3>1, KillOneStep
  <2> QED BY <1>3, <2>2, <2>5, <2>6, <2>7 DEF KillWaited
<1>4. CASE KillEnd
  <2>1. /\ UNCHANGED <<uses, exiting, child, tList, threads, dead, results, next, fresh, clobbered>>
        /\ UNCHANGED <<changed, crashed, waitFor, todo, doomed>>
        /\ pc = "killing" /\ pc' = "ended"
    BY <1>4 DEF KillEnd, UNCHANGED_Thread, listVars, regVars, bpVars, loopVars
  <2>2. st' \in [Threads -> States] /\ stat' \in [Threads -> Statuses] /\ BetweenMove
    <3>1. CASE Waitable(Main) /\ Reap(Main)
      BY <2>1, <3>1, ThreadsAssumption, ReapBetween
    <3>2. CASE UNCHANGED <<st, stat>>
      BY <2>1, <3>2, NothingMoves
    <3> QED BY <1>4, <3>1, <3>2 DEF KillEnd
  <2> QED BY <1>0, <2>1, <2>2, KillOneStep
<1> QED BY <1>1, <1>2, <1>3, <1>4

-------------------------------------------------------------------------------
(* detach, and the way to gdb and back. *)

LEMMA DetachSteps == ASSUME Inv, ScriptDetach \/ ScriptGdb PROVE Inv'
<1>1. /\ UNCHANGED <<uses, exiting, doomed, child, tList, threads, dead, results, next, todo, waitFor>>
      /\ UNCHANGED <<changed, crashed>>
      /\ pc = "idle" /\ Main \notin dead /\ ~doomed /\ pc' \in {"ended", "gdb"}
      /\ \A t \in Registered : Stopped(t)
      /\ DetachAll
  BY DEF ScriptDetach, ScriptGdb, UNCHANGED_Thread, listVars, loopVars, bpVars
<1>2. /\ st' = [t \in Threads |-> IF t \in Registered /\ Stopped(t) THEN "free" ELSE st[t]]
      /\ stat' = [t \in Threads |-> IF t \in Registered /\ Stopped(t) THEN "nothing" ELSE stat[t]]
      /\ fresh' = {} /\ FlushRegs
  BY <1>1 DEF DetachAll
<1>3. Registered \subseteq Threads /\ Registered \subseteq Contexts
  BY Subsets
<1>4. st' \in [Threads -> States] /\ stat' \in [Threads -> Statuses]
  BY <1>2 DEF Inv, TypeOK, States, Statuses
<1>5. BetweenMove
  BY <1>1, <1>2, <1>3 DEF Inv, KernelInv, BetweenMove, Stopped
<1>6. /\ Contexts' = Contexts /\ Registered' = Registered /\ ListsAgree'
      /\ KernelInv' /\ PendingInv' /\ BatchInv'
  BY <1>1, <1>5, BetweenStep DEF Collecting
<1>7. TypeOK'
  BY <1>1, <1>2, <1>4, <1>6 DEF Inv, TypeOK, Waiting
<1>8. FreshInv'
  <2>1. MayFlush
    BY <1>1 DEF MayFlush
  <2>2. \A t \in Registered : st'[t] = "free"
    BY <1>1, <1>2, <1>3
  <2> QED BY <1>1, <1>2, <1>6, <2>1, <2>2, FlushKeeps DEF FreshInv, MayFlush
<1>9. ChangeInv'
  BY <1>1, <1>6 DEF Inv, ChangeInv
<1> QED BY <1>6, <1>7, <1>8, <1>9 DEF Inv

LEMMA GdbSessionStep == ASSUME Inv, GdbSession PROVE Inv'
<1>1. /\ UNCHANGED <<uses, stat, exiting, doomed, child, tList, threads, dead, results, next, todo>>
      /\ UNCHANGED <<waitFor, changed, crashed, fresh, clobbered>>
      /\ pc = "gdb" /\ pc' = "back"
      /\ \/ st' = st
         \/ \E t \in Threads : \/ st[t] = "free" /\ st' = [st EXCEPT ![t] = "gone"]
                               \/ st[t] = "none" /\ st' = [st EXCEPT ![t] = "free"]
  BY DEF GdbSession, UNCHANGED_Thread, listVars, loopVars, bpVars, regVars
<1>2. st' \in [Threads -> States]
  BY <1>1 DEF Inv, TypeOK, States
<1>3. ASSUME NEW u \in Threads
      PROVE  \/ st'[u] = st[u] \/ (st[u] = "free" /\ st'[u] = "gone")
             \/ (st[u] = "none" /\ st'[u] = "free")
  BY <1>1 DEF Inv, TypeOK
<1>4. Registered \subseteq Threads /\ Registered \subseteq Contexts
  BY Subsets
<1>5. BetweenMove
  BY <1>1, <1>3, <1>4 DEF Inv, KernelInv, BetweenMove, Stopped
<1>6. /\ Contexts' = Contexts /\ Registered' = Registered /\ ListsAgree'
      /\ KernelInv' /\ PendingInv' /\ BatchInv'
  BY <1>1, <1>5, BetweenStep DEF Collecting
<1>7. TypeOK'
  BY <1>1, <1>2, <1>6 DEF Inv, TypeOK, Waiting
<1>8. FreshInv'
  BY <1>1, <1>3, <1>4, <1>6 DEF Inv, FreshInv, MayFlush
<1>9. ChangeInv'
  BY <1>1, <1>6 DEF Inv, ChangeInv
<1> QED BY <1>6, <1>7, <1>8, <1>9 DEF Inv

(* GETREGS right after PTRACE_ATTACH reads the registers of a thread only  *)
(* if gdb left it stopped.                                                 *)
LEMMA GdbBackStep == ASSUME Inv, GdbBack PROVE Inv'
<1>1. PICK late \in SUBSET {t \in Registered : st[t] = "free" /\ "gdb runs" \in uses} : Reattach(late)
  BY DEF GdbBack
<1>2. /\ UNCHANGED <<uses, exiting, doomed, child, tList, threads, dead, results, next, todo>>
      /\ UNCHANGED <<waitFor, changed, crashed, clobbered>>
      /\ pc = "back" /\ pc' \in {"raised", "idle"}
  BY DEF GdbBack, listVars, loopVars, bpVars
<1>3. /\ st' = [t \in Threads |->
                   IF t \in late THEN "run"
                   ELSE IF t \in Registered /\ st[t] = "free" THEN "stop" ELSE st[t]]
      /\ stat' = [t \in Threads |->
                   IF t \in Registered \ late /\ st[t] = "free" THEN "stop" ELSE stat[t]]
      /\ fresh' = {t \in Registered \ late : st[t] = "free"}
  BY <1>1 DEF Reattach
<1>4. Registered \subseteq Threads /\ Registered \subseteq Contexts
  BY Subsets
<1>5. st' \in [Threads -> States] /\ stat' \in [Threads -> Statuses] /\ fresh' \subseteq Threads
  BY <1>3, <1>4 DEF Inv, TypeOK, States, Statuses
<1>6. ASSUME NEW u \in Threads
      PROVE  \/ /\ u \in Registered /\ st[u] = "free"
                /\ \/ st'[u] = "run" /\ stat'[u] = stat[u]
                   \/ st'[u] = "stop" /\ stat'[u] = "stop"
             \/ /\ u \notin Registered \/ st[u] # "free"
                /\ st'[u] = st[u] /\ stat'[u] = stat[u]
  BY <1>1, <1>3
<1>7. BetweenMove
  BY <1>2, <1>4, <1>6 DEF Inv, KernelInv, BetweenMove, Stopped
<1>8. /\ Contexts' = Contexts /\ Registered' = Registered /\ ListsAgree'
      /\ KernelInv' /\ PendingInv' /\ BatchInv'
  BY <1>2, <1>7, BetweenStep DEF Collecting
<1>9. TypeOK'
  BY <1>2, <1>5, <1>8 DEF Inv, TypeOK, Waiting
<1>10. FreshInv'
  <2> SUFFICES ASSUME "gdb runs" \notin uses PROVE FreshInv'
    BY <1>2 DEF FreshInv
  <2>1. \A t \in Registered : st[t] \in {"free", "gone"} /\ t \notin late
    BY <1>1, <1>2 DEF Inv, FreshInv
  <2>2. \A t \in Registered : Settled(t)' /\ Readable(t)'
    BY <1>3, <1>4, <2>1 DEF Settled, Readable, Stopped
  <2> QED BY <1>2, <1>8, <2>2 DEF Inv, FreshInv, MayFlush
<1>11. ChangeInv'
  BY <1>2, <1>8 DEF Inv, ChangeInv
<1> QED BY <1>8, <1>9, <1>10, <1>11 DEF Inv

-------------------------------------------------------------------------------
LEMMA StutterStep == ASSUME Inv, UNCHANGED vars PROVE Inv'
<1>1. /\ UNCHANGED <<uses, st, stat, exiting, doomed, child, tList, threads, dead, results, next>>
      /\ UNCHANGED <<fresh, clobbered, changed, crashed, todo, waitFor, pc>>
  BY DEF vars, kernelVars, listVars, regVars, bpVars, loopVars
<1>2. Contexts' = Contexts /\ Registered' = Registered /\ Answered' = Answered /\ Todo' = Todo
  BY <1>1 DEF Contexts, Registered, Answered, Todo
<1>3. \A t : /\ (Settled(t)' <=> Settled(t)) /\ (Readable(t)' <=> Readable(t))
             /\ (Unhandled(t)' <=> Unhandled(t)) /\ (Pending(t)' <=> Pending(t))
  BY <1>1 DEF Settled, Readable, Stopped, Unhandled, Pending
<1>4. TypeOK' /\ BatchInv' /\ ListsAgree' /\ ChangeInv'
  BY <1>1, <1>2 DEF Inv, TypeOK, BatchInv, ListsAgree, ChangeInv
<1>5. KernelInv'
  BY <1>1, <1>2 DEF Inv, KernelInv, Stopped
<1>6. PendingInv'
  BY <1>1, <1>2, <1>3 DEF Inv, PendingInv, Stopped
<1>7. FreshInv'
  BY <1>1, <1>2, <1>3 DEF Inv, FreshInv, MayFlush
<1> QED BY <1>4, <1>5, <1>6, <1>7 DEF Inv

LEMMA InvNext == Inv /\ [Next]_vars => Inv'
<1> SUFFICES ASSUME Inv, [Next]_vars PROVE Inv'
  OBVIOUS
<1>1. CASE Kernel
  BY <1>1, KernelStep
<1>2. CASE Wait
  BY <1>2, WaitTopStep, WaitNoneStep, WaitFirstStep, StopNextStep, StopWaitStep, PollOneStep,
     PollEndStep DEF Wait
<1>3. CASE Handle
  BY <1>3, HandleIgnoredStep, HandleExitStep, HandleCloneStep, WaitNewStep, HandleEndStep,
     DecideStep DEF Handle
<1>4. CASE Script
  <2>1. CASE ScriptCont
    BY <2>1, ContStep DEF ScriptCont
  <2>2. CASE \E t \in Threads : ScriptStep(t) \/ ScriptUntil(t)
    BY <2>2, ScriptStepStep, ScriptUntilStep
  <2> QED BY <1>4, <2>1, <2>2, ScriptChangeStep, ScriptKillStep, DetachSteps, UntilStepStep,
             KillSteps, GdbSessionStep, GdbBackStep DEF Script
<1>5. CASE Ended \/ UNCHANGED vars
  BY <1>5, StutterStep DEF Ended
<1> QED BY <1>1, <1>2, <1>3, <1>4, <1>5 DEF Next

-------------------------------------------------------------------------------
(* The inductive invariant holds in every reachable state. *)
LEMMA Invariant == Spec => []Inv
BY InvInit, InvNext, PTL DEF Spec

(* Every variable of the registry keeps its type; a waitpid that blocks on *)
(* one thread has a thread to wait for.                                    *)
THEOREM TypeCorrect == Spec => []TypeOK
<1>1. Inv => TypeOK
  BY DEF Inv
<1> QED BY <1>1, Invariant, PTL

(* For any number of threads, the list in C is that of the live            *)
(* ThreadContexts, newest first: every clone is registered once and every  *)
(* death unregisters its own thread, in whatever order they are reported.  *)
THEOREM ThreadListsAgree == Spec => []ListsAgree
<1>1. Inv => ListsAgree
  BY DEF Inv
<1> QED BY <1>1, Invariant, PTL

(* For any number of threads, no SETREGS gives a thread registers that     *)
(* were read before it last ran, unless gdb let the process run: the       *)
(* threads are all stopped and all read before the batch is handled.       *)
THEOREM RegistersOwn == Spec => []NoStaleWrite
<1>1. Inv => NoStaleWrite
  BY DEF Inv, FreshInv, NoStaleWrite
<1> QED BY <1>1, Invariant, PTL

(* The list in C is not empty when a pending change of a breakpoint is     *)
(* applied through its first thread, in a script that does not both step   *)
(* and change breakpoints: the part of NothingRaises about crashed.        *)
LEMMA ChangeApplies == Spec => [](~({"change", "step"} \subseteq uses) => ~crashed)
<1>1. Inv => (~({"change", "step"} \subseteq uses) => ~crashed)
  BY DEF Inv, ChangeInv
<1> QED BY <1>1, Invariant, PTL

-------------------------------------------------------------------------------
(* The second inductive invariant, for what the script finds and what the  *)
(* debugger waits for: where each thread is, at each place of the loop.    *)

(* Nobody has dropped a status, and no thread has been killed in a stop. *)
Calm == "until" \notin uses /\ ("sudden" \in uses => ~doomed)
(* The script has ended the session, or a batch was left. *)
Ending == {"killing", "killwait", "ended", "raised"}

FirstStopSeen(n) == \E i \in DOMAIN results : results[i] = <<n, "stop">>
ExitSeen(t) == \E i \in DOMAIN results : i >= next /\ results[i] = <<t, "exit">>

(* The child of a clone that is still to be handled: it has yet to stop,   *)
(* or its first stop is still to be reported or is in the batch.           *)
Offspring(t) ==
    /\ options /\ t \in Registered \ exiting /\ st[t] \in {"clone", "stop"}
    /\ child[t] \notin exiting /\ st[child[t]] \in {"new", "stop"}
    /\ Stopped(child[t]) => stat[child[t]] = "stop" \/ FirstStopSeen(child[t])

(* A thread that is not registered stops only as the child of a clone. *)
Adopted(t) ==
    st[t] \in {"new", "stop"} => t \in Registered \/ \E u \in Threads : Pending(u) /\ child[u] = t

(* Every traced thread is registered or about to be. *)
TracedInv ==
    /\ \A t \in Threads : st[t] \in {"run", "clone", "zombie"} => t \in Registered
    /\ \A t \in Threads : st[t] = "new" => t \notin Registered
    /\ \A t \in Threads : Adopted(t)
    /\ \A t \in Threads : Pending(t) => Offspring(t)
    /\ \A t \in Threads : st[t] = "free" => ~options \/ pc \in {"gdb", "back"}
    /\ \A t \in Threads : t \in exiting => st[t] # "none"
    /\ doomed => options /\ "exits" \in uses
    /\ "gdb" \notin uses => options /\ pc \notin {"gdb", "back"}

(* Places where all the registered threads have been stopped. *)
AtRest == \/ pc \in {"handle", "waitnew", "decide"}
          \/ pc = "idle" /\ (options \/ "gdb runs" \notin uses)

(* A thread that the loop is done with stays where it is. *)
QuietInv ==
    /\ pc \in {"stopall", "stopone"} => \A t \in Registered \ Todo : st[t] \in {"stop", "gone"}
    /\ pc \in {"stopall", "stopone", "handle", "waitnew"} => \A t \in Answered : st[t] \in {"stop", "gone"}
    /\ AtRest => \A t \in Registered : st[t] \in {"stop", "gone"} /\ stat[t] # "clone"
    /\ pc \in {"gdb", "back"} => /\ ~doomed /\ st[Main] = "free"
                                 /\ \A t \in Registered : st[t] \in {"free", "gone"}

(* A thread that is no more and still registered has its death in the     *)
(* batch; the main thread is the last to go.                               *)
DeathInv ==
    /\ \A i \in DOMAIN results :
          results[i][2] = "exit" => results[i][1] \in Threads /\ st[results[i][1]] = "gone"
    /\ \A t \in Registered :
          st[t] = "gone" /\ (t = Main \/ ~({"gdb", "gdb threads"} \subseteq uses)) => ExitSeen(t)
    /\ \A t \in Threads : st[t] = "zombie" => stat[t] = "exit"
    /\ Main \in dead => st[Main] = "gone"
    /\ st[Main] = "gone" => \A u \in Threads : st[u] \in {"none", "gone"}

(* What a waitpid waits for can still happen. *)
WaitInv ==
    /\ pc \in {"stopone", "waitnew"} /\ Stopped(waitFor) => stat[waitFor] # "nothing"
    /\ pc \in {"top", "wait"} /\ Main \notin dead =>
          \E t \in Threads : stat[t] # "nothing" \/ st[t] \in {"run", "new", "clone"}
    /\ pc = "wait" => Main \notin dead

(* The main thread has gone as far as it can on its own. *)
Trailing == st[Main] = "zombie" \/ (Main \in exiting /\ st[Main] = "run")

(* It ends with the whole process or after the others, so that none is    *)
(* left in a stop behind it.                                               *)
LeaderInv ==
    "leader" \notin uses =>
        /\ Main \in exiting \/ st[Main] = "zombie" =>
              doomed \/ \A u \in Alive \ {Main} : u \notin Registered /\ pc \in {"gdb", "back"}
        /\ ~({"exits", "step"} \subseteq uses) /\ doomed /\ Trailing =>
              \A u \in Threads : ~Stopped(u) /\ (st[u] = "run" => u \in exiting)

(* The loops over the list in C come to the main thread last. *)
OrderInv ==
    /\ pc \notin Waiting => waitFor = NoThread
    /\ "until" \notin uses => pc # "until"
    /\ 1 \in DOMAIN threads /\ threads[1] = Main
    /\ pc \in {"stopall", "stopone", "killing", "killwait"} =>
          \A i \in DOMAIN todo : todo[i] = Main => i = Len(todo)

(* kill leaves nothing but the main thread's death behind. *)
KillInv ==
    /\ \A t \in Threads : /\ st[t] \notin {"new", "clone"}
                          /\ st[t] \in {"run", "stop", "zombie"} => t \in Registered
    /\ \A t \in Registered \ Todo : st[t] = "gone" \/ (t = Main /\ st[t] = "zombie")
    /\ options /\ ~doomed => \A t \in Threads : st[t] # "run"
    /\ \A t \in Threads : st[t] = "zombie" => stat[t] = "exit"
    /\ Main \in dead => st[Main] = "gone"
    /\ pc = "killwait" /\ Stopped(waitFor) => stat[waitFor] # "nothing"

RaiseInv == uses \cap {"sudden", "until", "gdb"} = {} => pc # "raised"

Good == TracedInv /\ QuietInv /\ DeathInv /\ WaitInv /\ LeaderInv

StopsInv ==
    /\ OrderInv /\ RaiseInv
    /\ Calm /\ pc \notin Ending => Good
    /\ uses \cap {"until", "sudden"} = {} /\ pc \in {"killing", "killwait"} => KillInv

-------------------------------------------------------------------------------
(* Steps of the kernel. *)

KernelFrame ==
    /\ UNCHANGED <<uses, pc, tList, threads, dead, results, next, todo, waitFor>>
    /\ Registered' = Registered /\ Todo' = Todo /\ Answered' = Answered
    /\ \A t : (Unhandled(t)' <=> Unhandled(t)) /\ (ExitSeen(t)' <=> ExitSeen(t))
              /\ (FirstStopSeen(t)' <=> FirstStopSeen(t))

LEMMA KernelFrames ==
    ASSUME UNCHANGED_Debugger
    PROVE  KernelFrame
<1>1. UNCHANGED <<uses, pc, tList, threads, dead, results, next, todo, waitFor>>
  BY DEF UNCHANGED_Debugger, listVars, loopVars
<1>2. Registered' = Registered /\ Todo' = Todo /\ Answered' = Answered
  BY <1>1 DEF Registered, Todo, Answered
<1>3. \A t : (Unhandled(t)' <=> Unhandled(t)) /\ (ExitSeen(t)' <=> ExitSeen(t))
              /\ (FirstStopSeen(t)' <=> FirstStopSeen(t))
  BY <1>1 DEF Unhandled, ExitSeen, FirstStopSeen
<1> QED BY <1>1, <1>2, <1>3 DEF KernelFrame

LEMMA DeathFrame ==
    ASSUME Inv, DeathInv, KernelFrame,
           \A u \in Threads : st[u] = "gone" => st'[u] = "gone",
           \A u \in Registered \cup {Main} : st'[u] = "gone" => st[u] = "gone",
           \A u \in Threads : st'[u] = "zombie" => stat'[u] = "exit",
           st[Main] = "gone" => \A u \in Threads : st'[u] \in {"none", "gone"}
    PROVE  DeathInv'
<1>1. \A i \in DOMAIN results' :
          results'[i][2] = "exit" => results'[i][1] \in Threads /\ st'[results'[i][1]] = "gone"
  <2>1. results' = results
    BY DEF KernelFrame
  <2> QED BY <2>1 DEF DeathInv
<1>2. \A t \in Registered' : st'[t] = "gone" /\ (t = Main \/ ~({"gdb", "gdb threads"} \subseteq uses')) => ExitSeen(t)'
  BY DEF DeathInv, KernelFrame
<1>3. (Main \in dead => st[Main] = "gone")'
  BY ThreadsAssumption DEF DeathInv, KernelFrame
<1> QED BY <1>1, <1>2, <1>3 DEF DeathInv

LEMMA CloneGood ==
    ASSUME Inv, Good, NEW t \in Threads, NEW n \in Threads, Clone(t, n)
    PROVE  Good'
<1>1. KernelFrame
  BY KernelFrames DEF Clone
<1>2. /\ st[t] = "run" /\ t \notin exiting /\ ~doomed /\ st[n] = "none" /\ t # n
      /\ UNCHANGED <<stat, exiting, doomed, options>>
      /\ st'[n] = (IF options THEN "new" ELSE "free") /\ st'[t] = (IF options THEN "clone" ELSE "run")
      /\ \A u \in Threads \ {t, n} : st'[u] = st[u]
      /\ \A u \in Threads \ {t} : child'[u] = child[u]
      /\ child'[t] = (IF options THEN n ELSE child[t])
  BY DEF Clone, Inv, TypeOK
<1>3. t \in Registered /\ n \notin Registered /\ n \notin exiting /\ ~Pending(t) /\ ~Pending(n)
      /\ \A u \in Threads : Pending(u) => child[u] \in Threads \ {t, n}
  <2>1. t \in Registered /\ n \notin exiting
    BY <1>2 DEF Good, TracedInv
  <2>2. n \notin Registered
    BY <1>2, Subsets DEF Inv, KernelInv
  <2>3. \A u \in Threads : Pending(u) => u # t /\ u # n /\ child[u] \in Threads \ {t, n}
    BY <1>2 DEF Good, TracedInv, Offspring, Inv, PendingInv
  <2> QED BY <2>1, <2>2, <2>3
<1>4. \A u \in Threads : Pending(u)' <=> Pending(u) \/ (u = t /\ options)
  BY <1>1, <1>2, <1>3 DEF Pending, KernelFrame
<1>5. Registered \subseteq Threads /\ Answered \subseteq Threads
  BY Subsets
<1>6. TracedInv'
  <2>1. \A u \in Threads : (st[u] \in {"run", "clone", "zombie"})' => u \in Registered'
    BY <1>1, <1>2, <1>3 DEF Good, TracedInv, KernelFrame
  <2>2. \A u \in Threads : Adopted(u)'
    BY <1>1, <1>2, <1>3, <1>4 DEF Good, TracedInv, KernelFrame, Adopted
  <2>3. \A u \in Threads : Pending(u)' => Offspring(u)'
    BY <1>1, <1>2, <1>3, <1>4 DEF Good, TracedInv, KernelFrame, Offspring, Stopped
  <2> QED BY <1>1, <1>2, <1>3, <2>1, <2>2, <2>3 DEF Good, TracedInv, KernelFrame
<1>7. QuietInv'
  BY <1>1, <1>2, <1>3, <1>5, ThreadsAssumption DEF Good, QuietInv, AtRest, KernelFrame
<1>8. DeathInv'
  <2>1. /\ \A u \in Threads : st[u] = "gone" <=> st'[u] = "gone"
        /\ \A u \in Threads : st'[u] = "zombie" => stat'[u] = "exit"
        /\ st[Main] # "gone"
    BY <1>2 DEF Good, DeathInv
  <2> QED BY <1>1, <1>5, <2>1, ThreadsAssumption, DeathFrame DEF Good
<1>9. WaitInv'
  <2>1. pc \in {"stopone", "waitnew"} => waitFor \in Threads
    BY DEF Inv, TypeOK, Waiting
  <2> QED BY <1>1, <1>2, <1>3, <2>1 DEF Good, WaitInv, KernelFrame, Stopped
<1>10. LeaderInv'
  BY <1>1, <1>2, <1>3, <1>5, ThreadsAssumption DEF Good, LeaderInv, Trailing, KernelFrame, Alive, Stopped
<1> QED BY <1>6, <1>7, <1>8, <1>9, <1>10 DEF Good

(* A thread stops: its parent is still to be handled, if it is new. *)
StopMove(t) ==
    /\ UNCHANGED <<doomed, child, options>> /\ st'[t] = "stop" /\ stat'[t] # "nothing"
    /\ \A u \in Threads \ {t} : st'[u] = st[u] /\ stat'[u] = stat[u]
    /\ exiting' = IF stat'[t] = "exitev" THEN exiting \cup {t} ELSE exiting
    /\ \/ st[t] = "clone" /\ stat'[t] = "clone"
       \/ st[t] = "new" /\ stat'[t] = "stop"
       \/ st[t] = "run" /\ ~doomed /\ t \notin exiting /\ stat'[t] \in {"stop", "trap"}
       \/ st[t] = "run" /\ t \notin exiting /\ stat'[t] = "exitev" /\ MayEnd(t)

LEMMA StopMoves ==
    ASSUME Inv, NEW t \in Threads,
           CloneEvent(t) \/ FirstStop(t) \/ TakesSigstop(t) \/ Traps(t) \/ ExitEvent(t)
    PROVE  StopMove(t) /\ KernelFrame
<1>1. KernelFrame
  BY KernelFrames DEF CloneEvent, FirstStop, TakesSigstop, Traps, ExitEvent
<1> USE DEF Inv, TypeOK, Stop, StopMove
<1>2. CASE CloneEvent(t)
  BY <1>1, <1>2 DEF CloneEvent
<1>3. CASE FirstStop(t)
  BY <1>1, <1>3 DEF FirstStop
<1>4. CASE TakesSigstop(t)
  BY <1>1, <1>4 DEF TakesSigstop
<1>5. CASE Traps(t)
  BY <1>1, <1>5 DEF Traps
<1>6. CASE ExitEvent(t)
  BY <1>1, <1>6 DEF ExitEvent
<1> QED BY <1>2, <1>3, <1>4, <1>5, <1>6

LEMMA StopGood ==
    ASSUME Inv, Good, NEW t \in Threads, StopMove(t), KernelFrame
    PROVE  Good'
<1>0. Registered \subseteq Threads /\ Answered \subseteq Threads
  BY Subsets
<1>1. stat[t] = "nothing" /\ st[t] \in {"run", "clone", "new"}
  BY DEF StopMove, Inv, KernelInv
<1>2. \A u \in Threads : /\ Pending(u) => child[u] \in Threads /\ child[u] # u
                         /\ Pending(u) /\ child[u] = t => st[t] = "new"
                         /\ Pending(u) /\ u = t => st[t] = "clone"
  BY <1>1, Subsets DEF Good, TracedInv, Offspring, Inv, PendingInv
<1>3. \A u \in Threads : Pending(u)' <=> Pending(u)
  <2>1. CASE st[t] = "clone"
    BY <1>1, <2>1 DEF Pending, KernelFrame, StopMove
  <2>2. CASE st[t] # "clone"
    <3>1. ~Pending(t)
      BY <1>2, <2>2
    <3> QED BY <1>1, <2>2, <3>1 DEF Pending, KernelFrame, StopMove
  <2> QED BY <2>1, <2>2
<1>4. TracedInv'
  <2>1. \A u \in Threads : (st[u] \in {"run", "clone", "zombie"})' => u \in Registered'
    BY DEF Good, TracedInv, KernelFrame, StopMove
  <2>2. ASSUME NEW u \in Threads PROVE Adopted(u)'
    <3>1. Adopted(u) /\ (st[t] \in {"run", "clone"} => t \in Registered)
      BY DEF Good, TracedInv
    <3> QED BY <1>1, <1>3, <3>1 DEF KernelFrame, Adopted, StopMove
  <2>3. ASSUME NEW u \in Threads, Pending(u)' PROVE Offspring(u)'
    <3>1. Offspring(u) /\ Pending(u)
      BY <1>3, <2>3 DEF Good, TracedInv
    <3>2. CASE u = t
      BY <1>1, <1>2, <3>1, <3>2 DEF KernelFrame, Offspring, Stopped, StopMove
    <3>3. CASE u # t /\ child[u] = t
      BY <1>1, <1>2, <3>1, <3>3 DEF KernelFrame, Offspring, Stopped, StopMove
    <3>4. CASE u # t /\ child[u] # t
      BY <1>1, <1>2, <3>1, <3>4 DEF KernelFrame, Offspring, Stopped, StopMove
    <3> QED BY <3>2, <3>3, <3>4
  <2> QED BY <1>1, <2>1, <2>2, <2>3 DEF Good, TracedInv, KernelFrame, StopMove
<1>5. QuietInv'
  BY <1>0, <1>1, ThreadsAssumption DEF Good, QuietInv, AtRest, KernelFrame, StopMove
<1>6. DeathInv'
  <2>1. /\ \A u \in Threads : st[u] = "gone" <=> st'[u] = "gone"
        /\ \A u \in Threads : st'[u] = "zombie" => stat'[u] = "exit"
        /\ st[Main] # "gone"
    BY <1>1 DEF Good, DeathInv, StopMove
  <2> QED BY <1>0, <2>1, ThreadsAssumption, DeathFrame DEF Good
<1>7. WaitInv'
  <2>1. pc \in {"stopone", "waitnew"} => waitFor \in Threads
    BY DEF Inv, TypeOK, Waiting
  <2> QED BY <1>1, <2>1 DEF Good, WaitInv, KernelFrame, Stopped, StopMove
<1>8. LeaderInv'
  <2> SUFFICES ASSUME "leader" \notin uses PROVE LeaderInv'
    BY DEF LeaderInv, KernelFrame
  <2>1. Alive' = Alive
    BY <1>1 DEF Alive, StopMove
  <2>2. Main \in exiting' \/ st'[Main] = "zombie" => \/ Main \in exiting \/ st[Main] = "zombie"
                                                     \/ Main = t /\ MayEnd(t)
    BY ThreadsAssumption DEF StopMove
  <2>3. MayEnd(t) /\ Main = t => doomed \/ Alive = {Main}
    BY DEF MayEnd
  <2>4. doomed /\ Trailing' => Trailing /\ st[t] = "run" /\ t \notin exiting
    BY <1>1, ThreadsAssumption DEF Trailing, StopMove, Inv, KernelInv
  <2>5. UNCHANGED <<doomed, pc, uses>> /\ Registered' = Registered
    BY DEF StopMove, KernelFrame
  <2> QED BY <2>1, <2>2, <2>3, <2>4, <2>5 DEF Good, LeaderInv
<1> QED BY <1>4, <1>5, <1>6, <1>7, <1>8 DEF Good

(* A thread dies, or ends untraced. *)
LEMMA DeathGood ==
    ASSUME Inv, Good, Calm, pc \notin Ending, NEW t \in Threads, Dies(t) \/ FreeEnds(t)
    PROVE  Good'
<1>0. Registered \subseteq Threads /\ Answered \subseteq Threads
  BY Subsets
<1>1. KernelFrame /\ UNCHANGED <<exiting, doomed, child, options>>
  BY KernelFrames DEF Dies, FreeEnds
<1>2. /\ \A u \in Threads \ {t} : st'[u] = st[u] /\ stat'[u] = stat[u]
      /\ \/ /\ st[t] = "run" /\ st'[t] = "zombie" /\ stat'[t] = "exit" /\ t \in Registered
            /\ t \in exiting \/ (~options /\ MayEnd(t))
         \/ /\ st[t] = "free" /\ st'[t] = "gone" /\ stat'[t] = "nothing" /\ t # Main /\ t \notin Registered
            /\ pc \notin {"gdb", "back"}
  <2>1. CASE Dies(t)
    BY <2>1 DEF Dies, Inv, TypeOK, Good, TracedInv, Calm
  <2>2. CASE FreeEnds(t)
    BY <2>2 DEF FreeEnds, Inv, TypeOK, KernelInv, Ending
  <2> QED BY <2>1, <2>2
<1>3. \A u \in Threads : Pending(u) => child[u] \in Threads \ {t} /\ u # t
  BY <1>2 DEF Good, TracedInv, Offspring, Inv, PendingInv
<1>4. stat[t] = "nothing"
  BY <1>2 DEF Inv, KernelInv
<1>5. \A u \in Threads : Pending(u)' <=> Pending(u)
  <2>1. ~Pending(t)
    BY <1>3
  <2> QED BY <1>1, <1>2, <1>4, <2>1 DEF Pending, KernelFrame
<1>6. TracedInv'
  <2>1. \A u \in Threads : (st[u] \in {"run", "clone", "zombie"})' => u \in Registered'
    BY <1>1, <1>2 DEF Good, TracedInv, KernelFrame
  <2>2. \A u \in Threads : Adopted(u)'
    BY <1>1, <1>2, <1>5 DEF Good, TracedInv, KernelFrame, Adopted
  <2>3. \A u \in Threads : Pending(u)' => Offspring(u)'
    BY <1>1, <1>2, <1>3, <1>5 DEF Good, TracedInv, KernelFrame, Offspring, Stopped
  <2> QED BY <1>1, <1>2, <2>1, <2>2, <2>3 DEF Good, TracedInv, KernelFrame
<1>7. QuietInv'
  BY <1>0, <1>1, <1>2, ThreadsAssumption DEF Good, QuietInv, AtRest, KernelFrame
<1>8. DeathInv'
  <2>1. /\ \A u \in Threads : st[u] = "gone" => st'[u] = "gone"
        /\ \A u \in Registered \cup {Main} : st'[u] = "gone" => st[u] = "gone"
        /\ \A u \in Threads : st'[u] = "zombie" => stat'[u] = "exit"
        /\ st[Main] # "gone"
    BY <1>0, <1>2, ThreadsAssumption DEF Good, DeathInv
  <2> QED BY <1>1, <2>1, DeathFrame DEF Good
<1>9. WaitInv'
  <2>1. pc \in {"stopone", "waitnew"} => waitFor \in Threads
    BY DEF Inv, TypeOK, Waiting
  <2> QED BY <1>1, <1>2, <1>4, <2>1 DEF Good, WaitInv, KernelFrame, Stopped
<1>10. LeaderInv'
  <2> SUFFICES ASSUME "leader" \notin uses PROVE LeaderInv'
    BY <1>1 DEF LeaderInv, KernelFrame
  <2>1. Alive' \subseteq Alive
    BY <1>2 DEF Alive
  <2>2. st'[Main] = "zombie" => \/ Main \in exiting \/ st[Main] = "zombie"
                                \/ Main = t /\ ~options /\ MayEnd(t)
    BY <1>2, ThreadsAssumption
  <2>3. MayEnd(t) /\ Main = t => doomed \/ Alive = {Main}
    BY DEF MayEnd
  <2>4. doomed /\ Trailing' => Trailing
    BY <1>1, <1>2, ThreadsAssumption DEF Trailing, Good, TracedInv
  <2>5. UNCHANGED <<doomed, pc, uses, exiting>> /\ Registered' = Registered
    BY <1>1 DEF KernelFrame
  <2>6. \A u \in Threads : (Stopped(u)' => Stopped(u)) /\ (st'[u] = "run" => st[u] = "run")
    BY <1>2 DEF Stopped
  <2> QED BY <2>1, <2>2, <2>3, <2>4, <2>5, <2>6 DEF Good, LeaderInv
<1> QED BY <1>6, <1>7, <1>8, <1>9, <1>10 DEF Good

(* The whole process is to exit: all its threads run. *)
LEMMA GroupGood ==
    ASSUME Inv, Good, Calm, Calm', pc \notin Ending, Killed \/ \E t \in Threads : ExitGroup(t)
    PROVE  Good'
<1>0. Registered \subseteq Threads /\ Answered \subseteq Threads
  BY Subsets
<1>1. KernelFrame /\ UNCHANGED <<child, options>> /\ doomed' /\ ~doomed /\ GroupEnds
  BY KernelFrames DEF Killed, ExitGroup, GroupEnds
<1>2. \A u \in Threads : st[u] \in {"none", "run", "zombie", "gone"} /\ (st[u] = "run" => u \in Registered)
  BY <1>1 DEF GroupEnds, Calm, KernelFrame, Alive, Inv, TypeOK, States
<1>3. \A u \in Threads : Woken(u) = st[u] /\ WokenStatus(u) = stat[u]
  BY <1>2 DEF Woken, WokenStatus
<1>4. \A u \in Threads : ~Pending(u)
  BY <1>2 DEF Good, TracedInv, Offspring, Inv, PendingInv
<1>5. \/ exiting' = exiting /\ \A u \in Threads : st'[u] = st[u] /\ stat'[u] = stat[u]
      \/ \E t \in Threads : /\ st[t] = "run" /\ t \notin exiting /\ exiting' = exiting \cup {t}
                            /\ st'[t] = "stop" /\ stat'[t] = "exitev"
                            /\ \A u \in Threads \ {t} : st'[u] = st[u] /\ stat'[u] = stat[u]
  <2>1. CASE Killed
    BY <1>3, <2>1 DEF Killed
  <2>2. ASSUME NEW t \in Threads, ExitGroup(t)
        PROVE  /\ st[t] = "run" /\ t \notin exiting /\ exiting' = exiting \cup {t}
               /\ st'[t] = "stop" /\ stat'[t] = "exitev"
               /\ \A u \in Threads \ {t} : st'[u] = st[u] /\ stat'[u] = stat[u]
    BY <1>3, <2>2 DEF ExitGroup
  <2> QED BY <2>1, <2>2
<1>6. \A u \in Threads : ~Pending(u)'
  BY <1>1, <1>4, <1>5 DEF Pending, KernelFrame
<1>7. pc \notin {"gdb", "back"}
  BY <1>2, ThreadsAssumption DEF Good, QuietInv
<1>8. TracedInv'
  <2>1. \A u \in Threads : (st[u] \in {"run", "clone", "zombie"})' => u \in Registered'
    BY <1>1, <1>5 DEF Good, TracedInv, KernelFrame
  <2>2. \A u \in Threads : Adopted(u)'
    BY <1>1, <1>2, <1>5 DEF KernelFrame, Adopted
  <2>3. \A u \in Threads : st'[u] \notin {"free", "new"} /\ (u \in exiting' => st'[u] # "none")
    BY <1>2, <1>5 DEF Good, TracedInv
  <2>4. options' /\ "exits" \in uses'
    BY <1>1 DEF GroupEnds, KernelFrame
  <2> QED BY <1>1, <1>6, <1>7, <2>1, <2>2, <2>3, <2>4 DEF TracedInv, KernelFrame
<1>9. QuietInv'
  BY <1>0, <1>1, <1>2, <1>5, <1>7, ThreadsAssumption DEF Good, QuietInv, AtRest, KernelFrame
<1>10. DeathInv'
  <2>1. /\ \A u \in Threads : st[u] = "gone" <=> st'[u] = "gone"
        /\ \A u \in Threads : st'[u] = "zombie" => stat'[u] = "exit"
        /\ st[Main] = "gone" => \A u \in Threads : st'[u] \in {"none", "gone"}
    BY <1>5 DEF Good, DeathInv
  <2> QED BY <1>0, <1>1, <2>1, ThreadsAssumption, DeathFrame DEF Good
<1>11. WaitInv'
  <2>1. pc \in {"stopone", "waitnew"} => waitFor \in Threads
    BY DEF Inv, TypeOK, Waiting
  <2> QED BY <1>1, <1>2, <1>5, <2>1 DEF Good, WaitInv, KernelFrame, Stopped
<1>12. LeaderInv'
  <2> SUFFICES ASSUME "leader" \notin uses, Trailing'
               PROVE  \A u \in Threads : ~Stopped(u)' /\ (st'[u] = "run" => u \in exiting')
    BY <1>1 DEF LeaderInv, KernelFrame
  <2>1. Trailing
    BY <1>5, ThreadsAssumption DEF Trailing
  <2>2. \A u \in Threads \ {Main} : st[u] # "run"
    BY <1>1, <1>2, <1>7, <2>1 DEF Good, LeaderInv, Trailing, Alive
  <2>3. st[Main] = "run" => Main \in exiting
    BY <2>1 DEF Trailing
  <2> QED BY <1>2, <1>5, <2>2, <2>3 DEF Stopped
<1> QED BY <1>8, <1>9, <1>10, <1>11, <1>12 DEF Good

LEMMA KernelGood ==
    ASSUME Inv, Good, Calm, Calm', pc \notin Ending, Kernel
    PROVE  Good'
BY CloneGood, StopMoves, StopGood, DeathGood, GroupGood DEF Kernel

-------------------------------------------------------------------------------
(* wait_all_and_update_regs. *)

LEMMA SameGood ==
    ASSUME Inv, Good,
           UNCHANGED <<uses, st, stat, exiting, doomed, child, options>>,
           UNCHANGED <<tList, threads, dead, results, next>>,
           pc \in {"gdb", "back"} <=> pc' \in {"gdb", "back"}
    PROVE  /\ TracedInv' /\ DeathInv' /\ LeaderInv'
           /\ Registered' = Registered /\ Answered' = Answered
<1>1. Registered' = Registered /\ Answered' = Answered /\ Alive' = Alive /\ (Trailing' <=> Trailing)
  BY DEF Registered, Answered, Alive, Trailing
<1>2. \A t : /\ Unhandled(t)' <=> Unhandled(t) 
             /\ ExitSeen(t)' <=> ExitSeen(t)
             /\ FirstStopSeen(t)' <=> FirstStopSeen(t)
             /\ Pending(t)' <=> Pending(t)
  BY DEF Unhandled, ExitSeen, FirstStopSeen, Pending
<1>3. \A t : (Offspring(t)' <=> Offspring(t)) /\ (Adopted(t)' <=> Adopted(t))
  BY <1>1, <1>2 DEF Offspring, Adopted, Stopped
<1>4. TracedInv'
  BY <1>1, <1>2, <1>3 DEF Good, TracedInv
<1>5. DeathInv'
  BY <1>1, <1>2 DEF Good, DeathInv
<1>6. LeaderInv'
  BY <1>1 DEF Good, LeaderInv, Stopped
<1> QED BY <1>1, <1>4, <1>5, <1>6

LEMMA WaitTopGood == ASSUME Inv, Good, WaitTop PROVE Good'
<1>1. /\ UNCHANGED <<uses, st, stat, exiting, doomed, child, options>>
      /\ UNCHANGED <<tList, threads, dead, results, next, waitFor, todo>>
      /\ pc = "top" /\ pc' = IF Main \in dead THEN "idle" ELSE "wait"
  BY DEF WaitTop, kernelVars, listVars, loopVars
<1>2. TracedInv' /\ DeathInv' /\ LeaderInv' /\ Registered' = Registered
  BY <1>1, SameGood
<1>3. QuietInv'
  <2>1. Main \in dead => \A t \in Registered : st[t] = "gone" /\ stat[t] # "clone"
    BY Subsets DEF Good, DeathInv, Inv, KernelInv
  <2> QED BY <1>1, <1>2, <2>1 DEF QuietInv, AtRest
<1>4. WaitInv'
  BY <1>1 DEF Good, WaitInv
<1> QED BY <1>2, <1>3, <1>4 DEF Good

LEMMA WaitNoneGood == ASSUME Inv, Good, WaitNone PROVE Good'
<1>0. results = <<>>
  BY NoBatch DEF WaitNone, Collecting
<1>1. /\ UNCHANGED <<uses, st, stat, exiting, doomed, child, options>>
      /\ UNCHANGED <<tList, threads, dead, results, next, waitFor, todo>>
      /\ pc = "wait" /\ pc' = "decide"
      /\ \A t \in Threads : st[t] \in {"none", "gone", "free"}
  BY <1>0 DEF WaitNone, kernelVars, listVars
<1>2. TracedInv' /\ DeathInv' /\ LeaderInv' /\ Registered' = Registered
  BY <1>1, SameGood
<1>3. QuietInv'
  <2>1. \A t \in Registered : st[t] = "gone" /\ stat[t] # "clone"
    BY <1>1, Subsets DEF Inv, KernelInv
  <2> QED BY <1>1, <1>2, <2>1 DEF QuietInv, AtRest
<1>4. WaitInv'
  BY <1>1 DEF WaitInv
<1> QED BY <1>2, <1>3, <1>4 DEF Good

LEMMA StopNextGood == ASSUME Inv, Good, StopNext PROVE Good'
<1> DEFINE h == Head(todo)
<1>1. /\ UNCHANGED <<uses, st, stat, exiting, doomed, child, options>>
      /\ UNCHANGED <<tList, threads, dead, results, next>>
      /\ pc = "stopall" /\ todo # <<>>
      /\ \/ /\ h = results[1][1] \/ Stopped(h)
            /\ todo' = Tail(todo) /\ UNCHANGED <<waitFor, pc>>
         \/ waitFor' = h /\ pc' = "stopone" /\ todo' = todo /\ ~Stopped(h)
  BY DEF StopNext, UNCHANGED_Thread, listVars
<1>2. /\ h \in Threads
      /\ \A i \in DOMAIN todo : todo[i] = h \/ \E j \in DOMAIN Tail(todo) : Tail(todo)[j] = todo[i]
  BY <1>1, TailIs DEF Inv, TypeOK
<1> HIDE DEF h
<1>3. TracedInv' /\ DeathInv' /\ LeaderInv' /\ Registered' = Registered /\ Answered' = Answered
  BY <1>1, SameGood
<1>4. QuietInv'
  <2>1. CASE pc' = "stopone" /\ todo' = todo
    BY <1>1, <1>3, <2>1 DEF Good, QuietInv, AtRest, Todo
  <2>2. CASE (h = results[1][1] \/ Stopped(h)) /\ todo' = Tail(todo) /\ pc' = pc
    <3>1. st[h] \in {"stop", "gone"}
      <4>1. CASE h = results[1][1]
        <5>1. h \in Answered
          BY <1>1, <1>2, <4>1 DEF Inv, BatchInv, Answered
        <5> QED BY <1>1, <5>1 DEF Good, QuietInv
      <4> QED BY <2>2, <4>1 DEF Stopped
    <3>2. Todo \subseteq Todo' \cup {h}
      BY <1>2, <2>2 DEF Todo
    <3> QED BY <1>1, <1>3, <2>2, <3>1, <3>2 DEF Good, QuietInv, AtRest
  <2> QED BY <1>1, <2>1, <2>2
<1>5. WaitInv'
  BY <1>1 DEF WaitInv, Stopped
<1> QED BY <1>3, <1>4, <1>5 DEF Good

LEMMA PollEndGood == ASSUME Inv, Good, PollEnd PROVE Good'
<1>1. /\ UNCHANGED <<uses, st, stat, exiting, doomed, child, options>>
      /\ UNCHANGED <<tList, threads, dead, results, waitFor, todo>>
      /\ pc = "stopall" /\ pc' = "handle" /\ todo = <<>> /\ next' = 1
      /\ ~ \E t \in Threads : Waitable(t)
  BY DEF PollEnd, UNCHANGED_Thread, listVars
<1>2. next' = next
  BY <1>1 DEF Inv, BatchInv
<1>3. TracedInv' /\ DeathInv' /\ LeaderInv' /\ Registered' = Registered /\ Answered' = Answered
  BY <1>1, <1>2, SameGood
<1>4. Todo = {} /\ Registered \subseteq Threads
  BY <1>1, EmptyIs, Subsets DEF Todo
<1>5. \A t \in Registered : st[t] \in {"stop", "gone"} /\ stat[t] # "clone"
  BY <1>1, <1>4 DEF Good, QuietInv, Waitable
<1>6. QuietInv' /\ WaitInv'
  BY <1>1, <1>3, <1>5 DEF Good, QuietInv, AtRest, WaitInv
<1> QED BY <1>3, <1>6 DEF Good

(* What has been seen once a status is in front of the batch. *)
LEMMA Prepended ==
    ASSUME Inv, NEW t \in Somebody, NEW s \in Statuses, next = 1, next' = 1,
           results' = <<<<t, s>>>> \o results
    PROVE  /\ \A u : /\ Unhandled(u)' <=> Unhandled(u) \/ (u = t /\ s = "clone")
                     /\ ExitSeen(u)' <=> ExitSeen(u) \/ (u = t /\ s = "exit")
                     /\ FirstStopSeen(u)' <=> FirstStopSeen(u) \/ (u = t /\ s = "stop")
           /\ Answered' = Answered \cup ({t} \cap Threads)
           /\ \A i \in DOMAIN results' :
                 results'[i] = <<t, s>> \/ \E j \in DOMAIN results : results'[i] = results[j]
<1> DEFINE e == <<t, s>>
           Has(x) == \E i \in DOMAIN results : results[i] = x
           HasNow(x) == \E i \in DOMAIN results' : results'[i] = x
<1>1. e \in Somebody \X Statuses /\ results \in Seq(Somebody \X Statuses)
  BY DEF Inv, TypeOK
<1>2. e[1] = t /\ e[2] = s /\ \A u, r : (<<u, r>> = e <=> u = t /\ r = s)
  OBVIOUS
<1>3. results' = <<e>> \o results
  OBVIOUS
<1> HIDE DEF e
<1>4. /\ results'[1] = e /\ 1 \in DOMAIN results' /\ DOMAIN results' \subseteq Nat \ {0}
      /\ \A i \in DOMAIN results : i + 1 \in DOMAIN results' /\ results'[i + 1] = results[i]
      /\ \A i \in DOMAIN results' :
            i = 1 \/ (i - 1 \in DOMAIN results /\ results'[i] = results[i - 1])
  <2>1. Len(results) \in Nat /\ 1 \in 1..(Len(results) + 1) /\ 1..(Len(results) + 1) \subseteq Nat \ {0}
    BY <1>1
  <2> QED BY <1>1, <1>3, <2>1, PrependIs
<1>5. \A x : HasNow(x) <=> Has(x) \/ x = e
  BY <1>4, ZenonT(45)
<1>6. DOMAIN results \subseteq Nat \ {0}
  BY <1>1
<1>61. (\A i \in DOMAIN results : i >= next) /\ (\A i \in DOMAIN results' : i >= next')
  BY <1>4, <1>6
<1>7. \A u : /\ Unhandled(u) <=> Has(<<u, "clone">>)
             /\ Unhandled(u)' <=> HasNow(<<u, "clone">>)
             /\ ExitSeen(u) <=> Has(<<u, "exit">>)
             /\ ExitSeen(u)' <=> HasNow(<<u, "exit">>)
             /\ FirstStopSeen(u) <=> Has(<<u, "stop">>)
             /\ FirstStopSeen(u)' <=> HasNow(<<u, "stop">>)
  <2> TAKE u
  <2>1. (Unhandled(u) <=> Has(<<u, "clone">>)) /\ (Unhandled(u)' <=> HasNow(<<u, "clone">>))
    BY <1>61 DEF Unhandled
  <2>2. (ExitSeen(u) <=> Has(<<u, "exit">>)) /\ (ExitSeen(u)' <=> HasNow(<<u, "exit">>))
    BY <1>61 DEF ExitSeen
  <2>3. (FirstStopSeen(u) <=> Has(<<u, "stop">>)) /\ (FirstStopSeen(u)' <=> HasNow(<<u, "stop">>))
    BY DEF FirstStopSeen
  <2> QED BY <2>1, <2>2, <2>3
<1>8. Answered' = Answered \cup ({t} \cap Threads)
  <2>1. \A i \in DOMAIN results' : results'[i][1] = t \/ \E j \in DOMAIN results : results'[i][1] = results[j][1]
    BY <1>2, <1>4
  <2>2. \E i \in DOMAIN results' : results'[i][1] = t
    BY <1>2, <1>4
  <2>3. \A j \in DOMAIN results : \E i \in DOMAIN results' : results'[i][1] = results[j][1]
    BY <1>4
  <2>4. \A u : (\E i \in DOMAIN results' : u = results'[i][1]) <=> u = t \/ \E j \in DOMAIN results : u = results[j][1]
    BY ONLY <2>1, <2>2, <2>3
  <2>5. \A u : /\ u \in Answered <=> u \in Threads /\ \E i \in DOMAIN results : u = results[i][1]
               /\ u \in Answered' <=> u \in Threads /\ \E i \in DOMAIN results' : u = results'[i][1]
    BY DEF Answered
  <2>6. \A u : u \in Answered' <=> u \in Answered \/ u \in {t} \cap Threads
    BY ONLY <2>4, <2>5
  <2> QED BY ONLY <2>6
<1>9. \A i \in DOMAIN results' : results'[i] = e \/ \E j \in DOMAIN results : results'[i] = results[j]
  BY <1>4
<1> HIDE DEF Has, HasNow
<1>10. \A u : /\ Unhandled(u)' <=> Unhandled(u) \/ (u = t /\ s = "clone")
              /\ ExitSeen(u)' <=> ExitSeen(u) \/ (u = t /\ s = "exit")
              /\ FirstStopSeen(u)' <=> FirstStopSeen(u) \/ (u = t /\ s = "stop")
  <2> TAKE u
  <2>1. Unhandled(u)' <=> Unhandled(u) \/ <<u, "clone">> = e
    BY <1>5, <1>7
  <2>2. ExitSeen(u)' <=> ExitSeen(u) \/ <<u, "exit">> = e
    BY <1>5, <1>7
  <2>3. FirstStopSeen(u)' <=> FirstStopSeen(u) \/ <<u, "stop">> = e
    BY <1>5, <1>7
  <2> QED BY <1>2, <2>1, <2>2, <2>3
<1> QED BY <1>8, <1>9, <1>10 DEF e

(* A status is collected: a clone is to be handled, a first stop and a     *)
(* death have been seen.                                                   *)
LEMMA ReapGood ==
    ASSUME Inv, Good, NEW t \in Threads, Waitable(t), Reap(t),
           pc \in {"wait", "stopall", "stopone"}, pc' = "stopall",
           results' = <<<<t, stat[t]>>>> \o results,
           UNCHANGED <<uses, exiting, doomed, child, options, tList, threads, dead, next>>,
           \A u \in Registered : u \in Todo' \/ u = t \/ (pc # "wait" /\ u \notin Todo)
    PROVE  Good'
<1>0. Registered \subseteq Threads /\ Registered' = Registered
  BY Subsets DEF Registered
<1>1. ReapMove(t)
  BY ReapMoves
<1>2. next = 1 /\ next' = 1 /\ t \in Somebody /\ stat[t] \in Statuses
  BY DEF Inv, BatchInv, Somebody, TypeOK
<1>3. /\ \A u : /\ Unhandled(u)' <=> Unhandled(u) \/ (u = t /\ stat[t] = "clone")
                /\ ExitSeen(u)' <=> ExitSeen(u) \/ (u = t /\ stat[t] = "exit")
                /\ FirstStopSeen(u)' <=> FirstStopSeen(u) \/ (u = t /\ stat[t] = "stop")
      /\ Answered' = Answered \cup ({t} \cap Threads)
      /\ \A i \in DOMAIN results' :
            results'[i] = <<t, stat[t]>> \/ \E j \in DOMAIN results : results'[i] = results[j]
  BY <1>2, Prepended
<1>4. \A u \in Threads : Pending(u)' <=> Pending(u)
  BY <1>1, <1>3 DEF Pending, ReapMove
<1>5. \A u \in Threads : Pending(u) => child[u] \in Threads
  BY DEF Inv, PendingInv
<1>6. TracedInv'
  <2>1. \A u \in Threads : (st[u] \in {"run", "clone", "zombie"})' => u \in Registered'
    BY <1>0, <1>1 DEF Good, TracedInv, ReapMove
  <2>2. \A u \in Threads : Adopted(u)' /\ (st'[u] = "new" => u \notin Registered')
    BY <1>0, <1>1, <1>4 DEF Good, TracedInv, Adopted, ReapMove
  <2>3. ASSUME NEW u \in Threads, Pending(u)' PROVE Offspring(u)'
    <3>1. Offspring(u) /\ child[u] \in Threads
      BY <1>4, <1>5, <2>3 DEF Good, TracedInv
    <3>2. st'[u] = st[u] /\ st'[child[u]] = st[child[u]]
      BY <1>1, <3>1 DEF Offspring, ReapMove
    <3>3. stat[child[u]] = "stop" => stat'[child[u]] = "stop" \/ FirstStopSeen(child[u])'
      BY <1>1, <1>3, <3>1 DEF ReapMove
    <3> QED BY <1>0, <1>3, <3>1, <3>2, <3>3 DEF Offspring, Stopped
  <2>4. \A u \in Threads : (st'[u] = "free" => st[u] = "free") /\ (st'[u] = "none" => st[u] = "none")
    BY <1>1 DEF ReapMove
  <2> QED BY <1>0, <2>1, <2>2, <2>3, <2>4 DEF Good, TracedInv
<1>7. \A u \in Threads : st[u] \in {"stop", "gone"} => st'[u] \in {"stop", "gone"}
  BY <1>1 DEF ReapMove
<1>8. QuietInv'
  <2>1. pc = "wait" => Answered = {}
    BY NoBatch DEF Collecting
  <2>2. \A u \in (Registered \ Todo') \cup Answered' :
           u = t \/ (pc # "wait" /\ u \in (Registered \ Todo) \cup Answered)
    BY <1>3, <2>1
  <2>3. st'[t] \in {"stop", "gone"} /\ Answered \subseteq Threads
    BY <1>1 DEF ReapMove, Answered
  <2>4. \A u \in (Registered \ Todo') \cup Answered' : st'[u] \in {"stop", "gone"}
    BY <1>0, <1>7, <2>2, <2>3 DEF Good, QuietInv
  <2> QED BY <1>0, <2>4 DEF QuietInv, AtRest
<1>9. DeathInv'
  <2>1. \A i \in DOMAIN results' :
           results'[i][2] = "exit" => results'[i][1] \in Threads /\ st'[results'[i][1]] = "gone"
    <3> SUFFICES ASSUME NEW i \in DOMAIN results', results'[i][2] = "exit"
                 PROVE  results'[i][1] \in Threads /\ st'[results'[i][1]] = "gone"
      OBVIOUS
    <3>1. CASE results'[i] = <<t, stat[t]>>
      <4>1. results'[i][1] = t /\ stat[t] = "exit"
        BY <3>1
      <4> QED BY <1>1, <4>1 DEF ReapMove
    <3>2. CASE \E j \in DOMAIN results : results'[i] = results[j]
      <4>1. results'[i][1] \in Threads /\ st[results'[i][1]] = "gone"
        BY <3>2 DEF Good, DeathInv
      <4> QED BY <1>1, <4>1 DEF ReapMove
    <3> QED BY <1>3, <3>1, <3>2
  <2>2. \A u \in Registered : st'[u] = "gone" /\ (u = Main \/ ~({"gdb", "gdb threads"} \subseteq uses)) => ExitSeen(u)'
    BY <1>0, <1>1, <1>3 DEF Good, DeathInv, ReapMove
  <2>3. \A u \in Threads : st'[u] = "zombie" => stat'[u] = "exit"
    BY <1>1 DEF Good, DeathInv, ReapMove
  <2>4. Main \in dead => st'[Main] = "gone"
    BY <1>1, ThreadsAssumption DEF Good, DeathInv, ReapMove
  <2>5. st'[Main] = "gone" => \A u \in Threads : st'[u] \in {"none", "gone"}
    <3>1. CASE st[Main] = "gone"
      BY <1>1, <3>1 DEF Good, DeathInv, ReapMove
    <3>2. CASE st[Main] # "gone" /\ st'[Main] = "gone"
      BY <1>1, <3>2, ThreadsAssumption DEF Waitable, ReapMove
    <3> QED BY <3>1, <3>2
  <2> QED BY <1>0, <2>1, <2>2, <2>3, <2>4, <2>5 DEF DeathInv
<1>10. WaitInv'
  BY DEF WaitInv
<1>11. LeaderInv'
  <2>1. Alive' = Alive
    BY <1>1 DEF Alive, ReapMove
  <2>2. \A u \in Threads : /\ st'[u] = "zombie" => st[u] = "zombie"
                           /\ st'[u] = "run" <=> st[u] = "run"
                           /\ Stopped(u)' <=> Stopped(u)
    BY <1>1 DEF ReapMove, Stopped
  <2>3. Trailing' => Trailing
    BY <2>2, ThreadsAssumption DEF Trailing
  <2> QED BY <1>0, <2>1, <2>2, <2>3, ThreadsAssumption DEF Good, LeaderInv
<1> QED BY <1>6, <1>8, <1>9, <1>10, <1>11 DEF Good

LEMMA WaitFirstGood == ASSUME Inv, Good, NEW t \in Threads, WaitFirst(t) PROVE Good'
<1>0. results = <<>>
  BY NoBatch DEF WaitFirst, Collecting
<1>1. /\ UNCHANGED <<uses, exiting, doomed, child, options, tList, threads, dead, next>>
      /\ pc = "wait" /\ pc' = "stopall" /\ todo' = tList /\ Waitable(t) /\ Reap(t)
      /\ results' = <<<<t, stat[t]>>>>
  BY DEF WaitFirst, UNCHANGED_Thread, listVars
<1>2. results' = <<<<t, stat[t]>>>> \o results
  <2>1. <<t, stat[t]>> \in Somebody \X Statuses
    BY DEF Inv, TypeOK, Somebody
  <2>2. <<<<t, stat[t]>>>> \in Seq(Somebody \X Statuses)
    BY <2>1, SingletonIs
  <2>3. \A s \in Seq(Somebody \X Statuses) : s \o <<>> = s
    OBVIOUS
  <2> QED BY <1>0, <1>1, <2>2, <2>3
<1>3. Registered = Todo'
  BY <1>1 DEF Registered, Todo
<1> QED BY <1>1, <1>2, <1>3, ReapGood

LEMMA PollOneGood == ASSUME Inv, Good, NEW t \in Threads, PollOne(t) PROVE Good'
<1>1. /\ UNCHANGED <<uses, exiting, doomed, child, options, tList, threads, dead, next, todo>>
      /\ pc = "stopall" /\ pc' = "stopall" /\ todo = <<>> /\ Waitable(t) /\ Reap(t)
      /\ results' = <<<<t, stat[t]>>>> \o results
  BY DEF PollOne, UNCHANGED_Thread, listVars
<1>2. Todo = {}
  BY <1>1, EmptyIs DEF Todo
<1> QED BY <1>1, <1>2, ReapGood

LEMMA StopWaitGood == ASSUME Inv, Good, StopWait PROVE Good'
<1>1. /\ UNCHANGED <<uses, exiting, doomed, child, options, tList, threads, dead, next>>
      /\ pc = "stopone" /\ pc' = "stopall" /\ todo' = Tail(todo)
  BY DEF StopWait, UNCHANGED_Thread, listVars
<1>2. PICK t \in Threads : t = waitFor
  BY <1>1 DEF Inv, TypeOK, Waiting
<1>3. Todo \subseteq Todo' \cup {t}
  <2>1. todo # <<>> /\ t = Head(todo) /\ todo \in Seq(Threads)
    BY <1>1, <1>2 DEF Inv, BatchInv, TypeOK
  <2>2. \A i \in DOMAIN todo : todo[i] = t \/ \E j \in DOMAIN Tail(todo) : Tail(todo)[j] = todo[i]
    BY <2>1, TailIs
  <2> QED BY <1>1, <2>2 DEF Todo
<1>4. CASE Waitable(t) /\ Reap(t) /\ results' = <<<<t, stat[t]>>>> \o results
  BY <1>1, <1>3, <1>4, ReapGood
<1>5. CASE /\ st[t] = "gone" /\ UNCHANGED <<st, stat>>
           /\ results' = <<<<NoThread, "nothing">>>> \o results
  <2>0. Registered \subseteq Threads /\ Registered' = Registered /\ Alive' = Alive
    BY <1>1, <1>5, Subsets DEF Registered, Alive
  <2>1. next = 1 /\ next' = 1 /\ NoThread \in Somebody /\ "nothing" \in Statuses
    BY <1>1 DEF Inv, BatchInv, Somebody, Statuses
  <2>2. /\ \A u : /\ Unhandled(u)' <=> Unhandled(u)
                  /\ ExitSeen(u)' <=> ExitSeen(u)
                  /\ FirstStopSeen(u)' <=> FirstStopSeen(u)
        /\ Answered' = Answered \cup ({NoThread} \cap Threads)
        /\ \A i \in DOMAIN results' :
              results'[i] = <<NoThread, "nothing">> \/ \E j \in DOMAIN results : results'[i] = results[j]
    BY <1>5, <2>1, Prepended
  <2>3. Answered' = Answered
    BY <2>2, ThreadsAssumption
  <2>4. \A u \in Threads : (Pending(u)' <=> Pending(u))
    BY <1>5, <2>2 DEF Pending
  <2>5. \A u \in Threads : (Offspring(u)' <=> Offspring(u)) /\ (Adopted(u)' <=> Adopted(u))
    BY <1>1, <1>5, <2>0, <2>2, <2>4 DEF Offspring, Adopted, Stopped
  <2>6. TracedInv'
    BY <1>1, <1>5, <2>0, <2>4, <2>5 DEF Good, TracedInv
  <2>7. QuietInv'
    BY <1>1, <1>3, <1>5, <2>0, <2>3 DEF Good, QuietInv, AtRest
  <2>8. DeathInv'
    <3>1. \A i \in DOMAIN results' :
             results'[i][2] = "exit" => results'[i][1] \in Threads /\ st'[results'[i][1]] = "gone"
      <4> SUFFICES ASSUME NEW i \in DOMAIN results', results'[i][2] = "exit"
                   PROVE  results'[i][1] \in Threads /\ st'[results'[i][1]] = "gone"
        OBVIOUS
      <4>1. PICK j \in DOMAIN results : results'[i] = results[j]
        BY <2>2
      <4>2. results[j][1] \in Threads /\ st[results[j][1]] = "gone"
        BY <4>1 DEF Good, DeathInv
      <4> QED BY <1>5, <4>1, <4>2
    <3> QED BY <1>1, <1>5, <2>0, <2>2, <3>1 DEF Good, DeathInv
  <2>9. WaitInv'
    BY <1>1 DEF WaitInv
  <2>10. LeaderInv'
    BY <1>1, <1>5, <2>0 DEF Good, LeaderInv, Trailing, Stopped
  <2> QED BY <2>6, <2>7, <2>8, <2>9, <2>10 DEF Good
<1> QED BY <1>2, <1>4, <1>5 DEF StopWait

-------------------------------------------------------------------------------
(* manage_change. *)

(* What is left to see once a status has been handled. *)
LEMMA HandledSeen ==
    ASSUME Inv, next' = next + 1, results' = results, next \in DOMAIN results
    PROVE  \A u : /\ Unhandled(u) <=> Unhandled(u)' \/ results[next] = <<u, "clone">>
                  /\ ExitSeen(u) <=> ExitSeen(u)' \/ results[next] = <<u, "exit">>
                  /\ FirstStopSeen(u)' <=> FirstStopSeen(u)
                  /\ results[next] = <<u, "clone">> => ~Unhandled(u)'
<1>1. next \in Nat /\ DOMAIN results \subseteq Nat
  BY DEF Inv, TypeOK
<1>2. \A i \in DOMAIN results : i >= next <=> i >= next' \/ i = next
  BY <1>1
<1>21. \A i \in DOMAIN results : i >= next' => i # next
  BY <1>1
<1> SUFFICES ASSUME NEW u
             PROVE  /\ Unhandled(u) <=> Unhandled(u)' \/ results[next] = <<u, "clone">>
                    /\ ExitSeen(u) <=> ExitSeen(u)' \/ results[next] = <<u, "exit">>
                    /\ FirstStopSeen(u)' <=> FirstStopSeen(u)
                    /\ results[next] = <<u, "clone">> => ~Unhandled(u)'
  OBVIOUS
<1>3. Unhandled(u) <=> Unhandled(u)' \/ results[next] = <<u, "clone">>
  BY <1>2 DEF Unhandled
<1>4. ExitSeen(u) <=> ExitSeen(u)' \/ results[next] = <<u, "exit">>
  BY <1>2 DEF ExitSeen
<1>5. FirstStopSeen(u)' <=> FirstStopSeen(u)
  BY DEF FirstStopSeen
<1>6. ASSUME results[next] = <<u, "clone">>, Unhandled(u)' PROVE FALSE
  <2>1. PICK i \in DOMAIN results : i >= next' /\ results[i] = <<u, "clone">>
    BY <1>6 DEF Unhandled
  <2>2. i >= next /\ next >= next /\ i # next
    BY <1>1, <1>2, <1>21, <2>1
  <2>3. results[i] = results[next] /\ results[i][2] = "clone"
    BY <1>6, <2>1
  <2> QED BY <2>2, <2>3 DEF Inv, PendingInv
<1> QED BY <1>3, <1>4, <1>5, <1>6

LEMMA IgnoredGood == ASSUME Inv, Good, HandleIgnored \/ HandleTrap PROVE Good'
<1>1. /\ pc = "handle" /\ pc' = "handle" /\ next' = next + 1 /\ next <= Len(results)
      /\ UNCHANGED <<uses, st, stat, exiting, doomed, child, options, tList, threads, dead, results>>
      /\ results[next][1] = NoThread \/ results[next][2] \in {"stop", "trap", "exitev"}
  BY DEF HandleIgnored, HandleTrap, kernelVars, listVars
<1>2. next \in DOMAIN results
  BY <1>1 DEF Inv, TypeOK
<1>3. ASSUME NEW u \in Threads
      PROVE  results[next] # <<u, "clone">> /\ results[next] # <<u, "exit">>
  BY <1>1, ThreadsAssumption
<1>4. \A u \in Threads : /\ Unhandled(u)' <=> Unhandled(u)
                         /\ ExitSeen(u)' <=> ExitSeen(u)
                         /\ FirstStopSeen(u)' <=> FirstStopSeen(u)
  BY <1>1, <1>2, <1>3, HandledSeen
<1>5. /\ Registered' = Registered /\ Answered' = Answered /\ Alive' = Alive /\ (Trailing' <=> Trailing)
      /\ Registered \subseteq Threads
  BY <1>1, Subsets DEF Registered, Answered, Alive, Trailing
<1>6. \A u \in Threads : (Pending(u)' <=> Pending(u)) /\ (Pending(u) => child[u] \in Threads)
  BY <1>1, <1>4 DEF Pending, Inv, PendingInv
<1>7. \A u \in Threads : (Pending(u) /\ Offspring(u) => Offspring(u)') /\ (Adopted(u)' <=> Adopted(u))
  BY <1>1, <1>4, <1>5, <1>6 DEF Offspring, Adopted, Stopped
<1>8. TracedInv'
  BY <1>1, <1>5, <1>6, <1>7 DEF Good, TracedInv
<1>9. QuietInv' /\ WaitInv'
  BY <1>1, <1>5 DEF Good, QuietInv, AtRest, WaitInv
<1>10. DeathInv'
  BY <1>1, <1>4, <1>5 DEF Good, DeathInv
<1>11. LeaderInv'
  BY <1>1, <1>5 DEF Good, LeaderInv, Stopped
<1> QED BY <1>8, <1>9, <1>10, <1>11 DEF Good

(* A thread is unregistered when it is no more. *)
LEMMA ExitGood == ASSUME Inv, Good, HandleExit PROVE Good'
<1>1. /\ pc = "handle" /\ pc' = "handle" /\ next' = next + 1 /\ next <= Len(results)
      /\ UNCHANGED <<uses, st, stat, exiting, doomed, child, options, threads, results>>
      /\ results[next][2] = "exit"
      /\ IF Known(results[next][1]) THEN Unregister(results[next][1]) ELSE UNCHANGED <<tList, dead>>
  BY DEF HandleExit, kernelVars
<1>2. next \in DOMAIN results
  BY <1>1 DEF Inv, TypeOK
<1>3. PICK t \in Threads : t = results[next][1] /\ st[t] = "gone"
  BY <1>1, <1>2 DEF Good, DeathInv
<1>4. results[next] = <<t, "exit">>
  BY <1>1, <1>2, <1>3 DEF Inv, TypeOK
<1>5. Registered' = Registered \ {t} /\ dead' \subseteq dead \cup {t}
  <2>1. CASE Known(t)
    <3>1. Unregister(t)
      BY <1>1, <1>3, <2>1
    <3>2. Registered' = Registered \ {t}
      BY <1>1, <2>1, <3>1, UnregisterLists DEF Inv
    <3> QED BY <3>1, <3>2 DEF Unregister, SetThreadAsDead
  <2>2. CASE ~Known(t)
    <3>1. UNCHANGED <<tList, dead>>
      BY <1>1, <1>3, <2>2
    <3>2. t \notin Registered
      BY <2>2 DEF Known, Inv, ListsAgree
    <3> QED BY <3>1, <3>2 DEF Registered
  <2> QED BY <2>1, <2>2
<1>6. \A u \in Threads : /\ Unhandled(u)' <=> Unhandled(u)
                         /\ u # t => (ExitSeen(u)' <=> ExitSeen(u))
                         /\ FirstStopSeen(u)' <=> FirstStopSeen(u)
  BY <1>1, <1>2, <1>4, HandledSeen
<1>7. /\ Answered' = Answered /\ Alive' = Alive /\ (Trailing' <=> Trailing)
      /\ Registered \subseteq Threads
  BY <1>1, Subsets DEF Answered, Alive, Trailing
<1>8. \A u \in Threads : (Pending(u)' <=> Pending(u)) /\ (Pending(u) => child[u] \in Threads)
  BY <1>1, <1>6 DEF Pending, Inv, PendingInv
<1>9. \A u \in Threads : (Pending(u) /\ Offspring(u) => Offspring(u)') /\ (Adopted(u) => Adopted(u)')
  <2> SUFFICES ASSUME NEW u \in Threads
               PROVE  (Pending(u) /\ Offspring(u) => Offspring(u)') /\ (Adopted(u) => Adopted(u)')
    OBVIOUS
  <2>1. u # t => (u \in Registered' <=> u \in Registered)
    BY <1>5
  <2>2. Pending(u) /\ Offspring(u) => Offspring(u)'
    BY <1>1, <1>3, <1>6, <1>8, <2>1 DEF Offspring, Stopped
  <2>3. Adopted(u) => Adopted(u)'
    BY <1>1, <1>3, <1>8, <2>1 DEF Adopted
  <2> QED BY <2>2, <2>3
<1>10. TracedInv'
  BY <1>1, <1>3, <1>5, <1>8, <1>9 DEF Good, TracedInv
<1>11. QuietInv' /\ WaitInv'
  BY <1>1, <1>5, <1>7 DEF Good, QuietInv, AtRest, WaitInv
<1>12. DeathInv'
  <2>1. \A u \in Registered' :
           st'[u] = "gone" /\ (u = Main \/ ~({"gdb", "gdb threads"} \subseteq uses')) => ExitSeen(u)'
    BY <1>1, <1>5, <1>6, <1>7 DEF Good, DeathInv
  <2>2. Main \in dead' => st'[Main] = "gone"
    BY <1>1, <1>3, <1>5 DEF Good, DeathInv
  <2> QED BY <1>1, <2>1, <2>2 DEF Good, DeathInv
<1>13. LeaderInv'
  BY <1>1, <1>5, <1>7 DEF Good, LeaderInv, Stopped
<1> QED BY <1>10, <1>11, <1>12, <1>13 DEF Good

(* A clone that is to be handled: the process is not to exit, its thread   *)
(* is in its stop, and the child waits to be registered.                   *)
LEMMA CloneReady ==
    ASSUME Inv, Good, NEW t \in Threads, Unhandled(t)
    PROVE  /\ ~doomed /\ Stopped(t) /\ t \in Registered \ exiting /\ stat[t] # "clone"
           /\ child[t] \in Threads \ Contexts /\ child[t] \notin exiting
           /\ st[child[t]] \in {"new", "stop"} /\ stat[child[t]] # "clone"
           /\ Stopped(child[t]) => stat[child[t]] = "stop" \/ FirstStopSeen(child[t])
<1>1. Pending(t) /\ Offspring(t)
  BY DEF Pending, Good, TracedInv
<1>2. child[t] \in Threads \ Contexts
  BY <1>1 DEF Inv, PendingInv
<1>3. ~doomed
  BY <1>1, <1>2 DEF Offspring, Inv, KernelInv, Stopped
<1>4. Stopped(t) /\ stat[t] # "clone"
  BY <1>3 DEF Inv, PendingInv
<1>5. stat[child[t]] # "clone"
  <2>1. ~Pending(child[t])
    BY <1>2, Subsets DEF Good, TracedInv, Offspring
  <2> QED BY <2>1 DEF Pending
<1> QED BY <1>1, <1>2, <1>3, <1>4, <1>5 DEF Offspring

LEMMA RegisterGood ==
    ASSUME Inv, Good, NEW t \in Threads, NEW n, n = child[t], st[n] = "stop",
           pc \in {"handle", "waitnew"}, pc' = "handle",
           next \in DOMAIN results, results[next] = <<t, "clone">>, next' = next + 1,
           Registered' = Registered \cup {n},
           UNCHANGED <<uses, exiting, doomed, child, options, dead, results>>,
           \A u \in Threads : st'[u] = st[u], \A u \in Threads \ {n} : stat'[u] = stat[u],
           stat'[n] \in {stat[n], "nothing"}
    PROVE  Good'
<1>1. /\ \A u : /\ Unhandled(u) <=> Unhandled(u)' \/ results[next] = <<u, "clone">>
                /\ ExitSeen(u) <=> ExitSeen(u)' \/ results[next] = <<u, "exit">>
                /\ FirstStopSeen(u)' <=> FirstStopSeen(u)
                /\ results[next] = <<u, "clone">> => ~Unhandled(u)'
  BY HandledSeen
<1>2. \A u : /\ u # t => results[next] # <<u, "clone">>
             /\ results[next] # <<u, "exit">>
  OBVIOUS
<1>3. /\ \A u \in Threads \ {t} : Unhandled(u)' <=> Unhandled(u)
      /\ ~Unhandled(t)' /\ Unhandled(t)
      /\ \A u \in Threads : (ExitSeen(u)' <=> ExitSeen(u)) /\ (FirstStopSeen(u)' <=> FirstStopSeen(u))
  BY <1>1, <1>2
<1>4. /\ ~doomed /\ Stopped(t) /\ t \in Registered \ exiting /\ stat[t] # "clone"
      /\ n \in Threads \ Contexts /\ n \notin exiting /\ stat[n] # "clone"
  BY <1>3, CloneReady
<1>5. Pending(t) /\ ~Pending(t)' /\ t # n
  BY <1>3, <1>4, Subsets DEF Pending, Stopped
<1>6. ASSUME NEW u \in Threads, u # t
      PROVE  (Pending(u)' <=> Pending(u)) /\ (Pending(u) => child[u] \in Threads /\ child[u] # n)
  <2>1. Pending(u) => child[u] \in Threads /\ child[u] # n
    BY <1>5, <1>6 DEF Inv, PendingInv
  <2>2. st'[u] = st[u] /\ (stat'[u] = "clone" <=> stat[u] = "clone")
    BY <1>4
  <2> QED BY <1>3, <1>6, <2>1, <2>2 DEF Pending
<1>7. Answered' = Answered /\ Alive' = Alive /\ (Trailing' <=> Trailing) /\ Registered \subseteq Threads
  BY ThreadsAssumption, Subsets DEF Answered, Alive, Trailing
<1>8. TracedInv'
  <2>1. ASSUME NEW u \in Threads, Pending(u)' PROVE Offspring(u)'
    <3>1. u # t /\ Pending(u) /\ Offspring(u) /\ child[u] \in Threads /\ child[u] # n
      BY <1>5, <1>6, <2>1 DEF Good, TracedInv
    <3> QED BY <1>3, <3>1 DEF Offspring, Stopped
  <2>2. ASSUME NEW u \in Threads PROVE Adopted(u)'
    <3>1. CASE u = n
      BY <3>1 DEF Adopted
    <3>2. CASE u # n
      <4>1. Adopted(u)
        BY DEF Good, TracedInv
      <4> QED BY <1>6, <3>2, <4>1 DEF Adopted
    <3> QED BY <3>1, <3>2
  <2> QED BY <1>4, <2>1, <2>2 DEF Good, TracedInv
<1>9. QuietInv' /\ WaitInv'
  <2>1. \A u \in Registered' : st'[u] \in {"stop", "gone"} /\ stat'[u] # "clone"
    BY <1>4, <1>7, ZenonT(45) DEF Good, QuietInv, AtRest
  <2>2. \A u \in Answered' : st'[u] \in {"stop", "gone"}
    BY <1>7, Subsets DEF Good, QuietInv
  <2> QED BY <2>1, <2>2 DEF QuietInv, WaitInv
<1>10. DeathInv'
  <2>1. \A u \in Registered' :
           st'[u] = "gone" /\ (u = Main \/ ~({"gdb", "gdb threads"} \subseteq uses')) => ExitSeen(u)'
    BY <1>3, <1>4, <1>7, ZenonT(45) DEF Good, DeathInv
  <2>2. \A u \in Threads : st'[u] = "zombie" => stat'[u] = "exit"
    BY DEF Good, DeathInv
  <2>3. \A i \in DOMAIN results' :
           results'[i][2] = "exit" => results'[i][1] \in Threads /\ st'[results'[i][1]] = "gone"
    <3>1. \A i \in DOMAIN results :
             results[i][2] = "exit" => results[i][1] \in Threads /\ st[results[i][1]] = "gone"
      BY DEF Good, DeathInv
    <3>2. results' = results
      OBVIOUS
    <3> QED BY ONLY <3>1, <3>2, \A u \in Threads : st'[u] = st[u]
  <2>4. (Main \in dead' => st'[Main] = "gone")
        /\ (st'[Main] = "gone" => \A u \in Threads : st'[u] \in {"none", "gone"})
    BY ThreadsAssumption DEF Good, DeathInv
  <2> QED BY <2>1, <2>2, <2>3, <2>4 DEF DeathInv
<1>11. LeaderInv'
  <2>1. "leader" \notin uses => Main \notin exiting /\ st[Main] # "zombie"
    BY <1>4, <1>7 DEF Good, LeaderInv, Alive, Stopped
  <2> QED BY <1>4, <2>1, ThreadsAssumption DEF LeaderInv
<1> QED BY <1>8, <1>9, <1>10, <1>11 DEF Good

LEMMA CloneHandledGood ==
    ASSUME Inv, Good, HandleClone
    PROVE  pc' # "raised" /\ Good'
<1> DEFINE t == results[next][1]
           n == child[t]
<1>1. /\ UNCHANGED <<uses, st, stat, exiting, doomed, child, options, dead, results>>
      /\ pc = "handle" /\ next <= Len(results) /\ results[next][2] = "clone"
      /\ \/ (~Stopped(t) \/ t \in exiting) /\ pc' = "raised"
         \/ /\ <<n, "stop">> \in {results[i] : i \in DOMAIN results}
            /\ Register(n) /\ next' = next + 1 /\ UNCHANGED <<waitFor, pc>>
         \/ /\ <<n, "stop">> \notin {results[i] : i \in DOMAIN results}
            /\ waitFor' = n /\ pc' = "waitnew" /\ UNCHANGED <<next, tList, threads>>
  BY DEF HandleClone, UNCHANGED_Thread
<1>2. next \in DOMAIN results /\ next \in Nat
  BY <1>1 DEF Inv, TypeOK
<1>3. t \in Threads /\ results[next] = <<t, "clone">>
  BY <1>1, <1>2 DEF Inv, TypeOK, BatchInv
<1> HIDE DEF t
<1>4. Unhandled(t)
  BY <1>2, <1>3 DEF Unhandled
<1>5. /\ Stopped(t) /\ t \notin exiting /\ n \in Threads \ Contexts
      /\ st[n] \in {"new", "stop"} /\ (Stopped(n) => stat[n] = "stop" \/ FirstStopSeen(n))
  BY <1>3, <1>4, CloneReady
<1>6. n = child[t]
  OBVIOUS
<1> HIDE DEF n
<1>7. CASE /\ <<n, "stop">> \in {results[i] : i \in DOMAIN results}
           /\ Register(n) /\ next' = next + 1 /\ UNCHANGED <<waitFor, pc>>
  <2>1. n \in Answered
    BY <1>5, <1>7 DEF Answered
  <2>2. st[n] = "stop"
    BY <1>1, <1>5, <2>1 DEF Good, QuietInv
  <2>3. Registered' = Registered \cup {n}
    BY <1>1, <1>5, <1>7, RegisterLists DEF Inv
  <2> QED BY <1>1, <1>2, <1>3, <1>6, <1>7, <2>2, <2>3, RegisterGood
<1>8. CASE /\ <<n, "stop">> \notin {results[i] : i \in DOMAIN results}
           /\ waitFor' = n /\ pc' = "waitnew" /\ UNCHANGED <<next, tList, threads>>
  <2>1. TracedInv' /\ DeathInv' /\ LeaderInv' /\ Registered' = Registered /\ Answered' = Answered
    BY <1>1, <1>8, SameGood
  <2>2. ~FirstStopSeen(n)
    BY <1>8 DEF FirstStopSeen
  <2>3. WaitInv'
    BY <1>1, <1>5, <1>8, <2>2 DEF WaitInv, Stopped
  <2>4. QuietInv'
    BY <1>1, <1>8, <2>1 DEF Good, QuietInv, AtRest
  <2> QED BY <1>8, <2>1, <2>3, <2>4 DEF Good
<1>9. pc' # "raised"
  BY <1>1, <1>5
<1> QED BY <1>1, <1>5, <1>7, <1>8, <1>9

LEMMA WaitNewGood ==
    ASSUME Inv, Good, WaitNew
    PROVE  pc' # "raised" /\ Good'
<1>1. /\ UNCHANGED <<uses, exiting, doomed, child, options, dead, results>> /\ pc = "waitnew"
  BY DEF WaitNew, UNCHANGED_Thread
<1>2. PICK t \in Threads : /\ next \in DOMAIN results /\ results[next] = <<t, "clone">>
                           /\ waitFor = child[t]
  <2>1. next \in DOMAIN results /\ results[next][2] = "clone" /\ results[next][1] \in Threads
    BY <1>1 DEF Inv, PendingInv
  <2>2. results[next] = <<results[next][1], "clone">>
    BY <2>1 DEF Inv, TypeOK
  <2> QED BY <1>1, <2>1, <2>2 DEF Inv, PendingInv
<1>3. PICK n \in Threads : n = waitFor
  BY <1>1 DEF Inv, TypeOK, Waiting
<1>4. Unhandled(t)
  <2>1. next >= next
    BY DEF Inv, TypeOK
  <2> QED BY <1>2, <2>1 DEF Unhandled
<1>5. n \notin Contexts /\ st[n] \in {"new", "stop"}
  BY <1>2, <1>3, <1>4, CloneReady
<1>6. /\ Waitable(n) /\ Reap(n) /\ Register(n) /\ next' = next + 1 /\ pc' = "handle"
  BY <1>3, <1>5 DEF WaitNew
<1>7. ReapMove(n)
  BY <1>6, ReapMoves
<1>8. /\ st[n] = "stop" /\ (\A u \in Threads : st'[u] = st[u])
      /\ (\A u \in Threads \ {n} : stat'[u] = stat[u]) /\ stat'[n] = "nothing"
  BY <1>5, <1>7 DEF ReapMove
<1>9. Registered' = Registered \cup {n}
  BY <1>1, <1>5, <1>6, RegisterLists DEF Inv
<1>10. Good'
  BY <1>1, <1>2, <1>3, <1>6, <1>8, <1>9, RegisterGood
<1> QED BY <1>6, <1>10

(* The batch has been handled: no clone and no death is left. *)
LEMMA HandleEndGood == ASSUME Inv, Good, HandleEnd PROVE Good'
<1>1. /\ UNCHANGED <<uses, st, stat, exiting, doomed, child, options, tList, threads, dead>>
      /\ pc = "handle" /\ pc' = "decide" /\ results' = <<>> /\ next > Len(results)
  BY DEF HandleEnd, kernelVars, listVars
<1>2. DOMAIN results' = {} /\ \A u : ~Unhandled(u) /\ ~ExitSeen(u) /\ ~Unhandled(u)'
  <2>1. \A i \in DOMAIN results : ~(i >= next)
    BY <1>1 DEF Inv, TypeOK
  <2>2. DOMAIN results' = {}
    BY <1>1, EmptyIs
  <2> QED BY <2>1, <2>2 DEF Unhandled, ExitSeen
<1>3. /\ Registered' = Registered /\ Alive' = Alive /\ (Trailing' <=> Trailing)
      /\ Registered \subseteq Threads
  BY <1>1, Subsets DEF Registered, Alive, Trailing
<1>4. \A u \in Threads : ~Pending(u) /\ ~Pending(u)'
  BY <1>1, <1>2, <1>3 DEF Good, TracedInv, Offspring, QuietInv, AtRest, Pending
<1>5. TracedInv'
  BY <1>1, <1>3, <1>4 DEF Good, TracedInv, Adopted
<1>6. QuietInv' /\ WaitInv'
  BY <1>1, <1>3 DEF Good, QuietInv, AtRest, WaitInv
<1>7. DeathInv'
  BY <1>1, <1>2, <1>3 DEF Good, DeathInv
<1>8. LeaderInv'
  BY <1>1, <1>3 DEF Good, LeaderInv, Stopped
<1> QED BY <1>5, <1>6, <1>7, <1>8 DEF Good

-------------------------------------------------------------------------------
(* cont and what the script does. *)

(* Between two batches no clone is left to be handled. *)
LEMMA NothingPending ==
    ASSUME Inv, Good, pc \in {"decide", "idle"}
    PROVE  /\ results = <<>> /\ DOMAIN results = {}
           /\ \A t \in Threads : ~Pending(t)
           /\ \A t \in Threads : st[t] \notin {"new", "clone"} /\ (st[t] = "stop" => t \in Registered)
           /\ \A t \in Threads : options /\ t \in Registered => st[t] \in {"stop", "gone"}
           /\ \A t \in Registered : t = Main \/ ~({"gdb", "gdb threads"} \subseteq uses) => st[t] # "gone"
<1>1. results = <<>> /\ DOMAIN results = {} /\ \A t : ~Unhandled(t)
  BY NoBatch DEF Collecting
<1>2. \A t \in Threads : options /\ t \in Registered => st[t] \in {"stop", "gone"} /\ stat[t] # "clone"
  BY DEF Good, QuietInv, AtRest
<1>3. \A t \in Threads : ~Pending(t)
  BY <1>1, <1>2 DEF Good, TracedInv, Offspring, Pending
<1>4. \A t \in Threads : st[t] \notin {"new", "clone"} /\ (st[t] = "stop" => t \in Registered)
  BY <1>3 DEF Good, TracedInv, Adopted, Pending
<1>5. \A t \in Registered : t = Main \/ ~({"gdb", "gdb threads"} \subseteq uses) => st[t] # "gone"
  BY <1>1 DEF Good, DeathInv, ExitSeen
<1> QED BY <1>1, <1>2, <1>3, <1>4, <1>5

LEMMA ResumedGood ==
    ASSUME Inv, Good, pc \in {"decide", "idle"}, pc' = "top",
           NEW S, S \subseteq Registered, Resumed(S),
           UNCHANGED <<uses, exiting, doomed, child, options, tList, threads, dead, results, next>>,
           Main \notin dead => \E u \in Threads : stat'[u] # "nothing" \/ st'[u] = "run",
           doomed => S = Registered \/ {"exits", "step"} \subseteq uses
    PROVE  Good'
<1>1. \A u \in Threads : \/ u \in S /\ st[u] = "stop" /\ st'[u] = "run" /\ stat'[u] = "nothing"
                         \/ st'[u] = st[u] /\ stat'[u] = stat[u] /\ (u \in S => st[u] # "stop")
  BY DEF Resumed, Stopped
<1>2. /\ DOMAIN results = {} /\ \A t \in Threads : ~Pending(t)
      /\ \A t \in Threads : st[t] \notin {"new", "clone"} /\ (st[t] = "stop" => t \in Registered)
      /\ \A t \in Threads : options /\ t \in Registered => st[t] \in {"stop", "gone"}
  BY NothingPending
<1>3. Registered' = Registered /\ DOMAIN results' = {} /\ Registered \subseteq Threads
  BY <1>2, Subsets DEF Registered
<1>4. \A u \in Threads : ~Pending(u)'
  BY <1>1, <1>2, <1>3 DEF Pending, Unhandled
<1>5. Alive' = Alive
  BY <1>1 DEF Alive
<1>6. TracedInv'
  <2>1. \A u \in Threads : Adopted(u)'
    BY <1>1, <1>2, <1>3 DEF Adopted
  <2>2. \A u \in Threads : (st[u] \in {"run", "clone", "zombie"})' => u \in Registered'
    BY <1>1, <1>3 DEF Good, TracedInv
  <2>3. \A u \in Threads : /\ st'[u] # "new"
                           /\ st'[u] = "free" => ~options'
                           /\ u \in exiting' => st'[u] # "none"
    BY <1>1, <1>2 DEF Good, TracedInv
  <2> QED BY <1>4, <2>1, <2>2, <2>3 DEF Good, TracedInv
<1>7. QuietInv'
  BY DEF QuietInv, AtRest
<1>8. DeathInv'
  <2>1. \A u \in Registered' : st'[u] = "gone" => st[u] = "gone"
    BY <1>1, <1>3
  <2>2. \A u \in Registered' :
           st'[u] = "gone" /\ (u = Main \/ ~({"gdb", "gdb threads"} \subseteq uses')) => ExitSeen(u)'
    BY <1>3, <2>1, NothingPending
  <2>3. \A u \in Threads : (st'[u] = "gone" <=> st[u] = "gone") /\ (st'[u] = "none" <=> st[u] = "none")
                           /\ (st'[u] = "zombie" => stat'[u] = "exit")
    BY <1>1 DEF Good, DeathInv
  <2> QED BY <1>3, <2>2, <2>3, ThreadsAssumption DEF Good, DeathInv
<1>9. WaitInv'
  BY DEF WaitInv
<1>10. LeaderInv'
  <2>1. Main \in exiting \/ st'[Main] = "zombie" => Main \in exiting \/ st[Main] = "zombie"
    BY <1>1, ThreadsAssumption
  <2>2. \A u \in Threads : doomed /\ ~({"exits", "step"} \subseteq uses) =>
           st'[u] # "stop" /\ (st'[u] = "run" => u \in exiting)
    <3> SUFFICES ASSUME NEW u \in Threads, doomed, ~({"exits", "step"} \subseteq uses)
                 PROVE  st'[u] # "stop" /\ (st'[u] = "run" => u \in exiting)
      OBVIOUS
    <3>1. options /\ S = Registered
      BY DEF Good, TracedInv
    <3>2. st[u] = "stop" => u \in exiting /\ u \in S
      BY <1>2, <3>1 DEF Inv, KernelInv, Stopped
    <3>3. st[u] # "run"
      BY <1>2, <3>1 DEF Good, TracedInv
    <3> QED BY <1>1, <3>2, <3>3
  <2> QED BY <1>3, <1>5, <2>1, <2>2 DEF Good, LeaderInv, Stopped
<1> QED BY <1>6, <1>7, <1>8, <1>9, <1>10 DEF Good

LEMMA ContGood ==
    ASSUME Inv, Good, Cont, pc \in {"decide", "idle"}, pc' \notin Ending
    PROVE  Good'
<1>1. /\ UNCHANGED <<uses, exiting, doomed, child, options, tList, threads, dead, results, next>>
      /\ Resumed(Registered) /\ pc' = "top"
  BY DEF Cont, UNCHANGED_Thread, listVars, loopVars, Ending
<1>2. ASSUME Main \notin dead
      PROVE  \E u \in Threads : stat'[u] # "nothing" \/ st'[u] = "run"
  <2>1. Main \in Registered
    BY <1>2 DEF Inv, ChangeInv, ListsAgree
  <2>2. st[Main] \in {"run", "stop", "zombie"}
    <3>1. st[Main] \notin {"new", "clone", "gone"}
      BY <2>1, ThreadsAssumption, NothingPending
    <3>2. st[Main] \notin {"free", "none"}
      BY <2>1, Subsets DEF Inv, KernelInv
    <3> QED BY <3>1, <3>2, ThreadsAssumption DEF Inv, TypeOK, States
  <2>3. st[Main] = "zombie" => stat[Main] = "exit"
    BY ThreadsAssumption DEF Good, DeathInv
  <2> QED BY <1>1, <2>1, <2>2, <2>3, ThreadsAssumption DEF Resumed, Stopped
<1> QED BY <1>1, <1>2, ResumedGood

LEMMA IdleGood ==
    ASSUME Inv, Good, pc \in {"decide", "idle"}, pc' = "idle",
           UNCHANGED <<uses, st, stat, exiting, doomed, child, options>>,
           UNCHANGED <<tList, threads, dead, results, next>>
    PROVE  Good'
<1>1. TracedInv' /\ DeathInv' /\ LeaderInv' /\ Registered' = Registered
  BY SameGood
<1>2. QuietInv' /\ WaitInv'
  BY <1>1 DEF Good, QuietInv, AtRest, WaitInv
<1> QED BY <1>1, <1>2 DEF Good

LEMMA DecideGood == ASSUME Inv, Good, Decide, pc' \notin Ending PROVE Good'
<1>1. CASE resume /\ Cont
  BY <1>1, ContGood DEF Decide
<1>2. CASE ~resume
  <2>1. /\ pc = "decide" /\ pc' = "idle"
        /\ UNCHANGED <<uses, st, stat, exiting, doomed, child, options>>
        /\ UNCHANGED <<tList, threads, dead, results, next>>
    BY <1>2 DEF Decide, kernelVars, listVars, loopVars
  <2> QED BY <2>1, IdleGood
<1> QED BY <1>1, <1>2 DEF Decide

LEMMA ScriptChangeGood == ASSUME Inv, Good, ScriptChange PROVE Good'
<1>1. /\ pc = "idle" /\ pc' = "idle"
      /\ UNCHANGED <<uses, st, stat, exiting, doomed, child, options>>
      /\ UNCHANGED <<tList, threads, dead, results, next>>
  BY DEF ScriptChange, kernelVars, listVars, loopVars
<1> QED BY <1>1, IdleGood

(* A thread that the script can step is stopped, unless gdb had it. *)
LEMMA ScriptStepGood ==
    ASSUME Inv, Good, NEW t \in Threads, ScriptStep(t)
    PROVE  /\ "gdb" \notin uses => pc' # "raised"
           /\ pc' \notin Ending => Good'
<1>1. /\ UNCHANGED <<uses, exiting, doomed, child, options, tList, threads, dead, results, next>>
      /\ Resumed({t} \cap Registered) /\ pc = "idle" /\ "step" \in uses
      /\ Known(t) /\ (IF Stopped(t) THEN pc' = "top" ELSE pc' = "raised")
  BY DEF ScriptStep, UNCHANGED_Thread, listVars, loopVars
<1>2. t \in Registered
  BY <1>1 DEF Known, Inv, ListsAgree
<1>3. "gdb" \notin uses => pc' # "raised"
  BY <1>1, <1>2, NothingPending DEF Good, TracedInv, Stopped
<1>4. ASSUME pc' \notin Ending PROVE Good'
  <2>1. pc' = "top" /\ Stopped(t)
    BY <1>1, <1>4 DEF Ending
  <2>2. st'[t] = "run"
    BY <1>1, <1>2, <2>1 DEF Resumed
  <2>3. doomed => {"exits", "step"} \subseteq uses
    BY <1>1 DEF Good, TracedInv
  <2> DEFINE S == {t} \cap Registered
  <2>4. Resumed(S) /\ S \subseteq Registered
    BY <1>1
  <2> HIDE DEF S
  <2> QED BY <1>1, <2>1, <2>2, <2>3, <2>4, ResumedGood
<1> QED BY <1>3, <1>4

(* The session is gdb's: nothing is pending, all the threads are free. *)
LEMMA ScriptGdbGood == ASSUME Inv, Good, ScriptGdb PROVE Good'
<1>1. /\ UNCHANGED <<uses, exiting, doomed, child, options, tList, threads, dead, results, next>>
      /\ pc = "idle" /\ pc' = "gdb" /\ "gdb" \in uses /\ ~doomed /\ Main \notin dead
      /\ \A u \in Registered : st[u] = "stop"
      /\ st' = [t \in Threads |-> IF t \in Registered /\ Stopped(t) THEN "free" ELSE st[t]]
      /\ stat' = [t \in Threads |-> IF t \in Registered /\ Stopped(t) THEN "nothing" ELSE stat[t]]
  BY DEF ScriptGdb, DetachAll, UNCHANGED_Thread, listVars, loopVars, Stopped
<1>2. /\ DOMAIN results = {} /\ \A t \in Threads : ~Pending(t)
      /\ \A t \in Threads : st[t] \notin {"new", "clone"} /\ (st[t] = "stop" => t \in Registered)
  BY <1>1, NothingPending
<1>3. Registered' = Registered /\ DOMAIN results' = {} /\ Registered \subseteq Threads /\ Main \in Registered
  BY <1>1, <1>2, Subsets DEF Registered, Inv, ChangeInv, ListsAgree
<1>4. /\ \A u \in Registered : st'[u] = "free"
      /\ \A u \in Threads \ Registered : st'[u] = st[u] /\ stat'[u] = stat[u]
      /\ \A u \in Registered : stat'[u] = "nothing"
  BY <1>1, <1>3 DEF Stopped
<1>5. \A u \in Threads : ~Pending(u)'
  BY <1>2, <1>3, <1>4 DEF Pending, Unhandled
<1>6. \A u \in Threads \ Registered : st[u] \in {"none", "free", "gone"}
  BY <1>2 DEF Good, TracedInv, Inv, TypeOK, States
<1>7. TracedInv'
  <2>1. \A u \in Threads : st'[u] \in {"none", "free", "gone"} /\ Adopted(u)'
    BY <1>4, <1>6 DEF Adopted
  <2>2. \A u \in Threads : u \in exiting' => st'[u] # "none"
    BY <1>1, <1>4 DEF Good, TracedInv
  <2> QED BY <1>1, <1>5, <2>1, <2>2 DEF TracedInv
<1>8. QuietInv' /\ WaitInv'
  BY <1>1, <1>3, <1>4 DEF QuietInv, WaitInv, AtRest
<1>9. DeathInv'
  <2>1. \A u \in Threads : st'[u] # "zombie"
    BY <1>4, <1>6
  <2> QED BY <1>1, <1>3, <1>4, <2>1 DEF DeathInv
<1>10. LeaderInv'
  <2>1. Alive' = Alive /\ st'[Main] # "zombie"
    BY <1>1, <1>3, <1>4 DEF Alive
  <2> QED BY <1>1, <1>3, <2>1 DEF Good, LeaderInv
<1> QED BY <1>7, <1>8, <1>9, <1>10 DEF Good

(* Facts of a process that gdb has. *)
LEMMA WithGdb ==
    ASSUME Inv, Good, pc \in {"gdb", "back"}
    PROVE  /\ "gdb" \in uses /\ ~doomed /\ st[Main] = "free" /\ DOMAIN results = {}
           /\ \A u \in Registered : st[u] \in {"free", "gone"} /\ stat[u] = "nothing"
           /\ \A u \in Threads : st[u] \in {"none", "free", "gone"} /\ ~Pending(u)
<1>1. DOMAIN results = {} /\ \A t : ~Unhandled(t)
  BY NoBatch DEF Collecting
<1>2. "gdb" \in uses /\ ~doomed /\ st[Main] = "free" /\ \A u \in Registered : st[u] \in {"free", "gone"}
  BY DEF Good, TracedInv, QuietInv
<1>3. \A u \in Threads : ~Pending(u)
  BY <1>2 DEF Good, TracedInv, Offspring
<1>4. \A u \in Threads : st[u] \in {"none", "free", "gone"}
  BY <1>2, <1>3 DEF Good, TracedInv, Adopted, Inv, TypeOK, States
<1>5. \A u \in Registered : stat[u] = "nothing"
  BY <1>2, Subsets DEF Inv, KernelInv
<1> QED BY <1>1, <1>2, <1>3, <1>4, <1>5

LEMMA GdbSessionGood == ASSUME Inv, Good, GdbSession PROVE Good'
<1>1. /\ UNCHANGED <<uses, stat, exiting, doomed, child, options, tList, threads, dead, results, next>>
      /\ pc = "gdb" /\ pc' = "back"
      /\ \/ st' = st
         \/ /\ "gdb threads" \in uses
            /\ \E t \in Threads \ {Main} : \/ st[t] = "free" /\ st' = [st EXCEPT ![t] = "gone"]
                                           \/ st[t] = "none" /\ st' = [st EXCEPT ![t] = "free"]
  BY DEF GdbSession, UNCHANGED_Thread, listVars, loopVars
<1>2. /\ "gdb" \in uses /\ ~doomed /\ st[Main] = "free" /\ DOMAIN results = {}
      /\ \A u \in Registered : st[u] \in {"free", "gone"} /\ stat[u] = "nothing"
      /\ \A u \in Threads : st[u] \in {"none", "free", "gone"} /\ ~Pending(u)
  BY <1>1, WithGdb
<1>3. Registered' = Registered /\ DOMAIN results' = {} /\ Registered \subseteq Threads
  BY <1>1, <1>2, Subsets, ZenonT(45) DEF Registered
<1>4. \/ \A u \in Threads : st'[u] = st[u]
      \/ /\ "gdb threads" \in uses
         /\ \E t \in Threads \ {Main} : /\ \/ st[t] = "free" /\ st'[t] = "gone"
                                           \/ st[t] = "none" /\ st'[t] = "free"
                                        /\ \A u \in Threads \ {t} : st'[u] = st[u]
  BY <1>1 DEF Inv, TypeOK
<1>5. /\ \A u \in Threads : st'[u] \in {"none", "free", "gone"} /\ ~Pending(u)' /\ Adopted(u)'
      /\ \A u \in Threads : st'[u] = "none" => st[u] = "none"
      /\ st'[Main] = "free"
  BY <1>1, <1>2, <1>3, <1>4, ThreadsAssumption DEF Pending, Unhandled, Adopted
<1>6. TracedInv'
  <2>1. \A u \in Threads : u \in exiting' => st'[u] # "none"
    BY <1>1, <1>5 DEF Good, TracedInv
  <2> QED BY <1>1, <1>2, <1>5, <2>1 DEF TracedInv
<1>7. \A u \in Registered : st'[u] \in {"free", "gone"} /\ st[u] # "none"
  BY <1>2, <1>3, <1>4
<1>8. QuietInv' /\ WaitInv'
  BY <1>1, <1>2, <1>3, <1>5, <1>7 DEF QuietInv, WaitInv, AtRest
<1>9. DeathInv'
  <2>1. \A u \in Registered' :
           st'[u] = "gone" /\ (u = Main \/ ~({"gdb", "gdb threads"} \subseteq uses')) => ExitSeen(u)'
    <3> SUFFICES ASSUME NEW u \in Registered, st'[u] = "gone", u = Main \/ ~({"gdb", "gdb threads"} \subseteq uses)
                 PROVE  FALSE
      BY <1>1, <1>3
    <3>1. st[u] = "gone"
      BY <1>2, <1>3, <1>4, <1>5
    <3> QED BY <1>2, <3>1 DEF Good, DeathInv, ExitSeen
  <2>2. Main \notin dead
    BY <1>2 DEF Good, DeathInv
  <2> QED BY <1>1, <1>3, <1>5, <2>1, <2>2 DEF DeathInv
<1>10. LeaderInv'
  <2>1. \A u \in Registered : u \in Alive' => u \in Alive
    BY <1>3, <1>4, <1>7 DEF Alive
  <2> QED BY <1>1, <1>2, <1>3, <1>5, <2>1 DEF Good, LeaderInv
<1> QED BY <1>6, <1>8, <1>9, <1>10 DEF Good

LEMMA GdbBackGood ==
    ASSUME Inv, Good, GdbBack
    PROVE  /\ "gdb" \in uses
           /\ pc' \notin Ending => Good'
<1>1. /\ UNCHANGED <<uses, exiting, doomed, child, tList, threads, dead, results, next>>
      /\ pc = "back" /\ pc' = IF NewThreads # {} THEN "raised" ELSE "idle"
  BY DEF GdbBack, listVars, loopVars
<1>2. /\ "gdb" \in uses /\ ~doomed /\ st[Main] = "free" /\ DOMAIN results = {}
      /\ \A u \in Registered : st[u] \in {"free", "gone"} /\ stat[u] = "nothing"
      /\ \A u \in Threads : st[u] \in {"none", "free", "gone"} /\ ~Pending(u)
  BY <1>1, WithGdb
<1> SUFFICES ASSUME pc' \notin Ending PROVE Good'
  BY <1>2
<1>3. pc' = "idle" /\ Alive \subseteq Registered
  BY <1>1 DEF Ending, NewThreads, Known, Inv, ListsAgree
<1>4. PICK late \in SUBSET {t \in Registered : st[t] = "free" /\ "gdb runs" \in uses} : Reattach(late)
  BY DEF GdbBack
<1>5. Registered' = Registered /\ DOMAIN results' = {} /\ Registered \subseteq Threads
  <2>1. tList' = tList /\ results' = results
    BY <1>1
  <2> QED BY <1>2, <2>1, Subsets, ZenonT(45) DEF Registered
<1>6. /\ ~options'
      /\ \A u \in Threads : \/ u \in late /\ st[u] = "free" /\ st'[u] = "run" /\ stat'[u] = stat[u] /\ u \in Registered
                            \/ u \in Registered /\ st[u] = "free" /\ st'[u] = "stop" /\ stat'[u] = "stop"
                            \/ st'[u] = st[u] /\ stat'[u] = stat[u] /\ (u \in Registered => st[u] # "free")
  BY <1>4 DEF Reattach
<1>7. \A u \in Threads : st'[u] = "free" => FALSE
  BY <1>2, <1>3, <1>6 DEF Alive
<1>8. \A u \in Threads : ~Pending(u)'
  BY <1>2, <1>5, <1>6 DEF Pending, Unhandled
<1>9. TracedInv'
  <2>1. \A u \in Threads : /\ st'[u] \in {"run", "stop"} => u \in Registered
                           /\ st'[u] \notin {"clone", "zombie", "new"}
                           /\ u \in exiting => st'[u] # "none"
    BY <1>2, <1>6 DEF Good, TracedInv
  <2>2. \A u \in Threads : Adopted(u)'
    BY <1>5, <2>1 DEF Adopted
  <2> QED BY <1>1, <1>2, <1>5, <1>7, <1>8, <2>1, <2>2 DEF TracedInv
<1>10. QuietInv' /\ WaitInv'
  <2>1. AtRest' => \A u \in Registered : st'[u] \in {"stop", "gone"} /\ stat'[u] # "clone"
    <3>1. AtRest' => late = {}
      BY <1>1, <1>3, <1>4, <1>6 DEF AtRest
    <3> QED BY <1>2, <1>5, <1>6, <3>1
  <2> QED BY <1>3, <1>5, <2>1 DEF QuietInv, WaitInv
<1>11. DeathInv'
  <2>1. \A u \in Registered' :
           st'[u] = "gone" /\ (u = Main \/ ~({"gdb", "gdb threads"} \subseteq uses')) => ExitSeen(u)'
    <3> SUFFICES ASSUME NEW u \in Registered, st'[u] = "gone", u = Main \/ ~({"gdb", "gdb threads"} \subseteq uses)
                 PROVE  FALSE
      BY <1>1, <1>5
    <3>1. st[u] = "gone"
      BY <1>5, <1>6
    <3> QED BY <1>2, <3>1 DEF Good, DeathInv, ExitSeen
  <2>2. Main \notin dead /\ st'[Main] # "gone"
    BY <1>2, <1>6, ThreadsAssumption DEF Good, DeathInv
  <2>3. \A u \in Threads : st'[u] # "zombie"
    BY <1>2, <1>6
  <2> QED BY <1>1, <1>5, <2>1, <2>2, <2>3 DEF DeathInv
<1>12. LeaderInv'
  <2>1. Alive' = Alive /\ st'[Main] # "zombie"
    BY <1>2, <1>6, ThreadsAssumption DEF Alive
  <2> QED BY <1>1, <1>2, <1>3, <2>1 DEF Good, LeaderInv
<1> QED BY <1>9, <1>10, <1>11, <1>12 DEF Good

-------------------------------------------------------------------------------
(* No action changes the scenario, and the end of the process is for good. *)
LEMMA UsesKept == ASSUME Next PROVE uses' = uses /\ (doomed => doomed')
<1>1. CASE Kernel
  BY <1>1 DEF Kernel, Clone, CloneEvent, FirstStop, TakesSigstop, Traps, ExitEvent, Dies, FreeEnds,
     ExitGroup, Killed, UNCHANGED_Debugger
<1>2. CASE Wait
  <2>1. CASE WaitTop \/ WaitNone
    BY <2>1 DEF WaitTop, WaitNone, kernelVars
  <2>2. CASE StopNext \/ StopWait \/ PollEnd \/ \E t \in Threads : WaitFirst(t) \/ PollOne(t)
    <3>1. UNCHANGED_Thread
      BY <2>2 DEF StopNext, StopWait, PollEnd, WaitFirst, PollOne
    <3> QED BY <3>1 DEF UNCHANGED_Thread
  <2> QED BY <1>2, <2>1, <2>2 DEF Wait
<1>3. CASE Handle
  BY <1>3 DEF Handle, HandleIgnored, HandleTrap, HandleExit, HandleClone, WaitNew, HandleEnd, Decide, Cont,
     UNCHANGED_Thread, kernelVars
<1>4. CASE Script
  <2>1. CASE \/ ScriptCont \/ ScriptDetach \/ ScriptGdb \/ UntilStep \/ KillEnd \/ GdbSession
             \/ \E t \in Threads : ScriptStep(t) \/ ScriptUntil(t)
    <3>1. UNCHANGED_Thread
      BY <2>1 DEF ScriptCont, Cont, ScriptDetach, ScriptGdb, UntilStep, KillEnd, GdbSession, ScriptStep, ScriptUntil
    <3> QED BY <3>1 DEF UNCHANGED_Thread
  <2>2. CASE ScriptChange \/ ScriptKill
    BY <2>2 DEF ScriptChange, ScriptKill, kernelVars
  <2>3. CASE KillRunning \/ GdbBack
    <3>1. UNCHANGED <<uses, doomed>>
      BY <2>3, Zenon DEF KillRunning, GdbBack
    <3> QED BY <3>1
  <2>4. CASE KillStopped \/ KillWaited
    BY <2>4 DEF KillStopped, KillWaited, DetachKill
  <2> QED BY <1>4, <2>1, <2>2, <2>3, <2>4 DEF Script
<1>5. CASE Ended
  BY <1>5 DEF Ended, vars, kernelVars
<1> QED BY <1>1, <1>2, <1>3, <1>4, <1>5 DEF Next

LEMMA GoodNext ==
    ASSUME Inv, OrderInv, Calm, Calm', Calm /\ pc \notin Ending => Good, Next, pc' \notin Ending
    PROVE  Good'
<1>1. CASE Kernel
  <2>1. pc' = pc
    BY <1>1 DEF Kernel, Clone, CloneEvent, FirstStop, TakesSigstop, Traps, ExitEvent, Dies, FreeEnds,
       ExitGroup, Killed, UNCHANGED_Debugger
  <2> QED BY <1>1, <2>1, KernelGood
<1>2. CASE Wait
  <2>1. pc \notin Ending
    BY <1>2 DEF Wait, WaitTop, WaitNone, StopNext, StopWait, PollEnd, WaitFirst, PollOne, Ending
  <2> QED BY <1>2, <2>1, WaitTopGood, WaitNoneGood, StopNextGood, StopWaitGood, PollEndGood, WaitFirstGood, PollOneGood
          DEF Wait
<1>3. CASE Handle
  <2>1. pc \notin Ending
    BY <1>3 DEF Handle, HandleIgnored, HandleTrap, HandleExit, HandleClone, WaitNew, HandleEnd, Decide, Ending
  <2> QED BY <1>3, <2>1, IgnoredGood, ExitGood, CloneHandledGood, WaitNewGood, HandleEndGood, DecideGood DEF Handle
<1>4. CASE Script
  <2>1. CASE ScriptCont \/ ScriptChange \/ ScriptGdb \/ \E t \in Threads : ScriptStep(t)
    <3>1. pc = "idle" /\ pc \notin Ending
      BY <2>1 DEF ScriptCont, ScriptChange, ScriptGdb, ScriptStep, Ending
    <3> QED BY <2>1, <3>1, ContGood, ScriptChangeGood, ScriptGdbGood, ScriptStepGood DEF ScriptCont
  <2>2. CASE GdbSession \/ GdbBack
    <3>1. pc \notin Ending
      BY <2>2 DEF GdbSession, GdbBack, Ending
    <3> QED BY <2>2, <3>1, GdbSessionGood, GdbBackGood
  <2>3. CASE UntilStep \/ \E t \in Threads : ScriptUntil(t)
    BY <2>3 DEF OrderInv, Calm, UntilStep, ScriptUntil
  <2>4. CASE ScriptKill \/ ScriptDetach \/ KillStopped \/ KillRunning \/ KillWaited \/ KillEnd
    BY <2>4 DEF ScriptKill, ScriptDetach, KillStopped, KillRunning, KillWaited, KillEnd, Ending
  <2> QED BY <1>4, <2>1, <2>2, <2>3, <2>4 DEF Script
<1>5. CASE Ended
  BY <1>5 DEF Ended, vars, Ending
<1> QED BY <1>1, <1>2, <1>3, <1>4, <1>5 DEF Next

-------------------------------------------------------------------------------
(* kill. *)

LEMMA ScriptKillGood == ASSUME Inv, Good, ScriptKill PROVE KillInv'
<1>1. /\ UNCHANGED <<st, stat, options, doomed, dead, tList>>
      /\ pc = "idle" /\ pc' = "killing" /\ todo' = tList
  BY DEF ScriptKill, kernelVars, listVars
<1>2. Registered' = Registered /\ Todo' = Registered
  BY <1>1 DEF Registered, Todo
<1>3. \A t \in Threads : /\ st[t] \notin {"new", "clone"} /\ (st[t] = "stop" => t \in Registered)
                         /\ options /\ t \in Registered => st[t] \in {"stop", "gone"}
  BY <1>1, NothingPending
<1>4. \A t \in Threads : st[t] \in {"run", "zombie"} => t \in Registered
  BY DEF Good, TracedInv
<1>5. /\ \A t \in Threads : st[t] = "zombie" => stat[t] = "exit"
      /\ Main \in dead => st[Main] = "gone"
  BY DEF Good, DeathInv
<1> QED BY <1>1, <1>2, <1>3, <1>4, <1>5 DEF KillInv

LEMMA KernelKill ==
    ASSUME Inv, KillInv, Kernel, pc \in {"killing", "killwait"}, "sudden" \notin uses
    PROVE  KillInv'
<1>0. Registered \subseteq Threads /\ (pc = "killwait" => waitFor \in Threads)
  BY Subsets DEF Inv, TypeOK, Waiting
<1>1. UNCHANGED_Debugger
  BY DEF Kernel, Clone, CloneEvent, FirstStop, TakesSigstop, Traps, ExitEvent, Dies, FreeEnds, ExitGroup, Killed
<1>2. KernelFrame
  BY <1>1, KernelFrames
<1>3. ASSUME NEW t \in Threads, NEW n \in Threads, Clone(t, n) PROVE KillInv'
  <2>1. /\ ~doomed /\ st[t] = "run" /\ st[n] = "none" /\ t # n /\ UNCHANGED <<stat, options, doomed>>
        /\ options \/ st' = [st EXCEPT ![n] = "free"]
    BY <1>3 DEF Clone
  <2>2. ~options /\ st'[n] = "free" /\ \A u \in Threads \ {n} : st'[u] = st[u]
    BY <2>1 DEF KillInv, Inv, TypeOK
  <2>3. n \notin Registered
    BY <2>1, Subsets DEF Inv, KernelInv
  <2>4. Main \in dead => st'[Main] = "gone"
    BY <2>1, <2>2, ThreadsAssumption DEF KillInv
  <2> QED BY <1>0, <1>2, <2>1, <2>2, <2>3, <2>4 DEF KillInv, KernelFrame, Stopped
<1>4. ASSUME NEW t \in Threads,
             CloneEvent(t) \/ FirstStop(t) \/ TakesSigstop(t) \/ Traps(t) \/ ExitEvent(t)
      PROVE  KillInv'
  <2>1. StopMove(t)
    BY <1>4, StopMoves
  <2>2. st[t] = "run" /\ st'[t] = "stop" /\ stat'[t] # "nothing" /\ UNCHANGED <<options, doomed>>
        /\ \A u \in Threads \ {t} : st'[u] = st[u] /\ stat'[u] = stat[u]
    BY <2>1 DEF StopMove, KillInv
  <2> QED BY <1>0, <1>2, <2>2, ThreadsAssumption DEF KillInv, KernelFrame, Stopped
<1>5. ASSUME NEW t \in Threads, Dies(t) PROVE KillInv'
  <2>1. /\ st[t] = "run" /\ st'[t] = "zombie" /\ stat'[t] = "exit" /\ UNCHANGED <<options, doomed>>
        /\ \A u \in Threads \ {t} : st'[u] = st[u] /\ stat'[u] = stat[u]
    BY <1>5 DEF Dies, Inv, TypeOK
  <2> QED BY <1>0, <1>2, <2>1, ThreadsAssumption DEF KillInv, KernelFrame, Stopped
<1>6. ASSUME NEW t \in Threads, FreeEnds(t) PROVE KillInv'
  <2>1. /\ st[t] = "free" /\ st'[t] = "gone" /\ UNCHANGED <<stat, options, doomed>>
        /\ \A u \in Threads \ {t} : st'[u] = st[u]
    BY <1>6 DEF FreeEnds, Inv, TypeOK
  <2> QED BY <1>0, <1>2, <2>1, ThreadsAssumption DEF KillInv, KernelFrame, Stopped
<1>7. ASSUME GroupEnds PROVE \A u \in Threads : st[u] \in {"none", "zombie", "gone"}
  BY <1>7 DEF GroupEnds, Alive, KillInv
<1>8. ASSUME NEW t \in Threads, ExitGroup(t) PROVE FALSE
  BY <1>7, <1>8 DEF ExitGroup
<1>9. ASSUME Killed PROVE KillInv'
  <2>1. doomed' /\ \A u \in Threads : st'[u] = st[u] /\ stat'[u] = stat[u]
    BY <1>7, <1>9 DEF Killed, Woken, WokenStatus
  <2> QED BY <1>0, <1>2, <2>1, ThreadsAssumption DEF KillInv, KernelFrame, Stopped
<1> QED BY <1>3, <1>4, <1>5, <1>6, <1>8, <1>9 DEF Kernel

(* One thread of the list is dealt with. *)
LEMMA ListedKilled ==
    ASSUME Inv, KillInv, todo # <<>>, todo' = Tail(todo), UNCHANGED <<tList, dead, options>>, pc' = "killing",
           \A u \in Threads : /\ st'[u] \notin {"new", "clone"}
                              /\ st'[u] \in {"run", "stop", "zombie"} => st[u] \in {"run", "stop", "zombie"}
                              /\ st[u] = "gone" => st'[u] = "gone"
                              /\ st'[u] = "zombie" => stat'[u] = "exit"
                              /\ st'[u] = "run" => doomed' \/ (st[u] = "run" /\ ~doomed),
           \A u \in Threads \ {Head(todo)} : st[u] = "zombie" => st'[u] = "zombie",
           st'[Head(todo)] = "gone" \/ (Head(todo) = Main /\ st'[Main] = "zombie")
    PROVE  KillInv'
<1>1. /\ Head(todo) \in Threads
      /\ \A i \in DOMAIN todo : todo[i] = Head(todo) \/ \E j \in DOMAIN Tail(todo) : Tail(todo)[j] = todo[i]
  BY TailIs DEF Inv, TypeOK
<1>2. Registered' = Registered /\ Todo \subseteq Todo' \cup {Head(todo)} /\ Registered \subseteq Threads
  BY <1>1, Subsets DEF Registered, Todo
<1>3. \A u \in Registered' \ Todo' : st'[u] = "gone" \/ (u = Main /\ st'[u] = "zombie")
  BY <1>1, <1>2 DEF KillInv
<1>4. options' /\ ~doomed' => \A u \in Threads : st'[u] # "run"
  BY DEF KillInv
<1>5. \A u \in Threads : st'[u] \in {"run", "stop", "zombie"} => u \in Registered'
  BY <1>2 DEF KillInv
<1>6. Main \in dead' => st'[Main] = "gone"
  BY ThreadsAssumption DEF KillInv
<1> QED BY <1>3, <1>4, <1>5, <1>6 DEF KillInv

LEMMA KillSends ==
    ASSUME Inv, KillInv, todo # <<>>, Stopped(Head(todo)), DetachKill(Head(todo)),
           UNCHANGED <<tList, dead, options>>, pc' = "killing"
    PROVE  KillInv'
<1> DEFINE h == Head(todo)
<1>1. h \in Threads /\ st[h] = "stop"
  BY TailIs DEF Inv, TypeOK, Stopped
<1>2. /\ doomed' /\ todo' = Tail(todo)
      /\ st'[h] = (IF h = Main THEN "zombie" ELSE "gone")
      /\ stat'[h] = (IF h = Main THEN "exit" ELSE "nothing")
      /\ \A u \in Threads \ {h} : st'[u] = Woken(u) /\ stat'[u] = WokenStatus(u)
  BY <1>1 DEF DetachKill
<1> HIDE DEF h
<1>3. \A u \in Threads \ {h} : /\ st[u] \notin {"new", "clone"}
                               /\ st'[u] = (IF st[u] = "stop" THEN "run" ELSE IF st[u] = "free" THEN "gone" ELSE st[u])
                               /\ stat'[u] = (IF st[u] = "stop" THEN "nothing" ELSE stat[u])
  BY <1>2 DEF KillInv, Woken, WokenStatus
<1>4. \A u \in Threads : st[u] = "zombie" => stat[u] = "exit"
  BY DEF KillInv
<1>5. \A u \in Threads : /\ st'[u] \notin {"new", "clone"}
                         /\ st'[u] \in {"run", "stop", "zombie"} => st[u] \in {"run", "stop", "zombie"}
                         /\ st[u] = "gone" => st'[u] = "gone"
                         /\ st'[u] = "zombie" => stat'[u] = "exit"
  BY <1>1, <1>2, <1>3, <1>4
<1>6. \A u \in Threads \ {h} : st[u] = "zombie" => st'[u] = "zombie"
  BY <1>3
<1>7. st'[h] = "gone" \/ (h = Main /\ st'[Main] = "zombie")
  BY <1>2
<1> QED BY <1>2, <1>5, <1>6, <1>7, ListedKilled DEF h

LEMMA KillNext ==
    ASSUME Inv, KillInv, Next, pc \in {"killing", "killwait"}, pc' \in {"killing", "killwait"},
           "sudden" \notin uses
    PROVE  KillInv'
<1>1. CASE Kernel
  BY <1>1, KernelKill
<1>2. CASE KillStopped
  BY <1>2, KillSends DEF KillStopped, listVars
<1>3. CASE KillRunning
  <2>1. /\ UNCHANGED <<st, stat, options, doomed, dead, tList, todo>>
        /\ ~Stopped(Head(todo)) /\ waitFor' = Head(todo)
    BY <1>3 DEF KillRunning, listVars
  <2>2. Registered' = Registered /\ Todo' = Todo
    BY <2>1 DEF Registered, Todo
  <2> QED BY <2>1, <2>2 DEF KillInv, Stopped
<1>4. CASE KillWaited
  <2>1. /\ pc = "killwait" /\ pc' = "killing" /\ UNCHANGED <<tList, dead, options>>
        /\ \/ stat[waitFor] \notin {"exit", "nothing"} /\ DetachKill(waitFor)
           \/ stat[waitFor] = "exit" /\ Reap(waitFor) /\ todo' = Tail(todo) /\ UNCHANGED doomed
           \/ st[waitFor] = "gone" /\ todo' = Tail(todo) /\ UNCHANGED <<st, stat, doomed>>
    BY <1>4 DEF KillWaited, listVars, Waitable
  <2>2. todo # <<>> /\ waitFor = Head(todo) /\ waitFor \in Threads
    BY <2>1 DEF Inv, BatchInv, TypeOK, Waiting
  <2>3. CASE stat[waitFor] \notin {"exit", "nothing"} /\ DetachKill(waitFor)
    <3>1. Stopped(waitFor)
      BY <2>2, <2>3 DEF Inv, KernelInv, Stopped
    <3> QED BY <2>1, <2>2, <2>3, <3>1, KillSends
  <2>4. CASE stat[waitFor] = "exit" /\ Reap(waitFor) /\ todo' = Tail(todo) /\ UNCHANGED doomed
    <3>1. /\ st'[waitFor] = "gone" /\ stat'[waitFor] = "nothing"
          /\ \A u \in Threads \ {waitFor} : st'[u] = st[u] /\ stat'[u] = stat[u]
      BY <2>2, <2>4 DEF Reap, Inv, TypeOK
    <3>2. \A u \in Threads : /\ st'[u] \notin {"new", "clone"}
                             /\ st'[u] \in {"run", "stop", "zombie"} => st[u] \in {"run", "stop", "zombie"}
                             /\ st[u] = "gone" => st'[u] = "gone"
                             /\ st'[u] = "zombie" => stat'[u] = "exit"
                             /\ st'[u] = "run" => doomed' \/ (st[u] = "run" /\ ~doomed)
      BY <2>4, <3>1 DEF KillInv
    <3>3. \A u \in Threads \ {waitFor} : st[u] = "zombie" => st'[u] = "zombie"
      BY <3>1
    <3> QED BY <2>1, <2>2, <2>4, <3>1, <3>2, <3>3, ListedKilled
  <2>5. CASE st[waitFor] = "gone" /\ todo' = Tail(todo) /\ UNCHANGED <<st, stat, doomed>>
    <3>1. \A u \in Threads : /\ st'[u] \notin {"new", "clone"}
                             /\ st'[u] = "zombie" => stat'[u] = "exit"
                             /\ st'[u] = "run" => doomed' \/ (st[u] = "run" /\ ~doomed)
      BY <2>5 DEF KillInv
    <3> QED BY <2>1, <2>2, <2>5, <3>1, ListedKilled
  <2> QED BY <2>1, <2>3, <2>4, <2>5
<1>5. ASSUME \/ Wait \/ Handle \/ Ended
             \/ Script /\ ~(KillStopped \/ KillRunning \/ KillWaited)
      PROVE  FALSE
  <2>1. ~Wait
    BY DEF Wait, WaitTop, WaitNone, StopNext, StopWait, PollEnd, WaitFirst, PollOne
  <2>2. ~Handle
    BY DEF Handle, HandleIgnored, HandleTrap, HandleExit, HandleClone, WaitNew, HandleEnd, Decide
  <2>3. Script => KillStopped \/ KillRunning \/ KillWaited
    BY DEF Script, ScriptCont, ScriptChange, ScriptKill, ScriptDetach, ScriptGdb, ScriptStep, ScriptUntil,
       UntilStep, KillEnd, GdbSession, GdbBack
  <2> QED BY <1>5, <2>1, <2>2, <2>3 DEF Ended
<1> QED BY <1>1, <1>2, <1>3, <1>4, <1>5 DEF Next

-------------------------------------------------------------------------------
(* The main thread is the last of every loop over the list in C. *)
LEMMA MainLast ==
    ASSUME Inv, OrderInv, NEW i \in DOMAIN tList, tList[i] = Main
    PROVE  i = Len(tList)
<1>1. tList \in Seq(Threads) /\ DOMAIN tList = 1..Len(tList) /\ Len(tList) \in Nat
  BY DEF Inv, TypeOK
<1>2. SUFFICES ASSUME i < Len(tList) PROVE FALSE
  BY <1>1
<1> DEFINE j == Len(tList)
<1>3. j \in DOMAIN tList /\ i < j
  BY <1>1, <1>2
<1> HIDE DEF j
<1>4. tList[j] \in Contexts
  BY <1>3, Subsets DEF Registered
<1>5. PICK l \in DOMAIN threads : tList[j] = threads[l]
  BY <1>4 DEF Contexts
<1>6. l < 1
  BY <1>3, <1>5 DEF Inv, ListsAgree, OrderInv
<1>7. threads \in Seq(Threads) /\ DOMAIN threads = 1..Len(threads)
  BY DEF Inv, TypeOK
<1> QED BY <1>6, <1>7

LEMMA TailLast ==
    ASSUME NEW s \in Seq(Threads), s # <<>>, \A i \in DOMAIN s : s[i] = Main => i = Len(s)
    PROVE  \A i \in DOMAIN Tail(s) : Tail(s)[i] = Main => i = Len(Tail(s))
<1>1. /\ Len(s) \in Nat \ {0} /\ Len(Tail(s)) = Len(s) - 1
      /\ DOMAIN Tail(s) = 1..(Len(s) - 1) /\ DOMAIN s = 1..Len(s)
  OBVIOUS
<1>2. \A i \in 1..(Len(s) - 1) : Tail(s)[i] = s[i + 1] /\ i + 1 \in 1..Len(s)
  BY <1>1, SMTT(30)
<1> SUFFICES ASSUME NEW i \in 1..(Len(s) - 1), Tail(s)[i] = Main PROVE i = Len(s) - 1
  BY <1>1, ZenonT(45)
<1>3. i + 1 = Len(s)
  BY <1>1, <1>2
<1>4. i \in Int /\ Len(s) \in Int
  BY <1>1
<1> QED BY ONLY <1>3, <1>4

Looping == {"stopall", "stopone", "killing", "killwait"}

LEMMA OrderKept ==
    ASSUME Inv, OrderInv, UNCHANGED <<uses, threads>>,
           "until" \notin uses => pc' # "until",
           pc' \notin Waiting => waitFor' = NoThread,
           pc' \in Looping => \/ todo' = tList
                              \/ pc \in Looping /\ todo' = todo
                              \/ pc \in Looping /\ todo # <<>> /\ todo' = Tail(todo)
    PROVE  OrderInv'
<1>1. pc' \in Looping => \A i \in DOMAIN todo' : todo'[i] = Main => i = Len(todo')
  <2>1. CASE todo' = tList
    BY <2>1, MainLast
  <2>2. CASE pc \in Looping /\ todo' = todo
    BY <2>2 DEF OrderInv, Looping
  <2>3. CASE pc \in Looping /\ todo # <<>> /\ todo' = Tail(todo)
    <3>1. \A i \in DOMAIN todo : todo[i] = Main => i = Len(todo)
      BY <2>3 DEF OrderInv, Looping
    <3>2. todo \in Seq(Threads)
      BY DEF Inv, TypeOK
    <3>3. \A i \in DOMAIN Tail(todo) : Tail(todo)[i] = Main => i = Len(Tail(todo))
      BY <2>3, <3>1, <3>2, TailLast
    <3> QED BY <2>3, <3>3
  <2> QED BY <2>1, <2>2, <2>3
<1> QED BY <1>1 DEF OrderInv, Looping

(* A new thread is registered behind the main one. *)
LEMMA OrderRegistered ==
    ASSUME Inv, OrderInv, NEW n \in Threads, threads' = Append(threads, n),
           uses' = uses, pc' = "handle", waitFor' = NoThread
    PROVE  OrderInv'
<1>1. threads \in Seq(Threads) /\ 1 \in DOMAIN threads /\ threads[1] = Main
  BY DEF Inv, TypeOK, OrderInv
<1>2. 1 \in DOMAIN Append(threads, n) /\ Append(threads, n)[1] = threads[1]
  BY <1>1
<1> QED BY <1>1, <1>2 DEF OrderInv

LEMMA WaitOrder == ASSUME Inv, OrderInv, Wait PROVE OrderInv' /\ pc' # "raised"
<1>1. ASSUME WaitTop \/ WaitNone \/ PollEnd PROVE OrderInv' /\ pc' # "raised"
  <2>1. /\ UNCHANGED <<uses, threads, waitFor>> /\ pc \notin Waiting
        /\ pc' \in {"idle", "wait", "decide", "handle"}
    BY <1>1 DEF WaitTop, WaitNone, PollEnd, UNCHANGED_Thread, listVars, loopVars, Waiting
  <2> QED BY <2>1, OrderKept DEF OrderInv, Looping
<1>2. ASSUME NEW t \in Threads, WaitFirst(t) PROVE OrderInv' /\ pc' # "raised"
  <2>1. UNCHANGED <<uses, threads, waitFor>> /\ pc = "wait" /\ pc' = "stopall" /\ todo' = tList
    BY <1>2 DEF WaitFirst, UNCHANGED_Thread, listVars
  <2> QED BY <2>1, OrderKept DEF OrderInv, Waiting
<1>3. ASSUME NEW t \in Threads, PollOne(t) PROVE OrderInv' /\ pc' # "raised"
  <2>1. UNCHANGED <<uses, threads, waitFor, todo, pc>> /\ pc = "stopall"
    BY <1>3 DEF PollOne, UNCHANGED_Thread, listVars
  <2> QED BY <2>1, OrderKept DEF OrderInv, Waiting, Looping
<1>4. ASSUME StopNext PROVE OrderInv' /\ pc' # "raised"
  <2>1. /\ UNCHANGED <<uses, threads>> /\ pc = "stopall" /\ todo # <<>>
        /\ \/ todo' = Tail(todo) /\ waitFor' = waitFor /\ pc' = pc
           \/ pc' = "stopone" /\ todo' = todo
    BY <1>4 DEF StopNext, UNCHANGED_Thread, listVars
  <2> QED BY <2>1, OrderKept DEF OrderInv, Waiting, Looping
<1>5. ASSUME StopWait PROVE OrderInv' /\ pc' # "raised"
  <2>1. /\ UNCHANGED <<uses, threads>> /\ pc = "stopone" /\ pc' = "stopall"
        /\ todo' = Tail(todo) /\ waitFor' = NoThread
    BY <1>5 DEF StopWait, UNCHANGED_Thread, listVars
  <2>2. todo # <<>>
    BY <2>1 DEF Inv, BatchInv
  <2> QED BY <2>1, <2>2, OrderKept DEF Looping
<1> QED BY <1>1, <1>2, <1>3, <1>4, <1>5 DEF Wait

LEMMA HandleOrder ==
    ASSUME Inv, OrderInv, RaiseInv, Calm /\ pc \notin Ending => Good, Handle
    PROVE  OrderInv' /\ RaiseInv'
<1>1. ASSUME HandleIgnored \/ HandleTrap \/ HandleExit \/ HandleEnd PROVE OrderInv' /\ RaiseInv'
  <2>1. /\ UNCHANGED <<uses, threads, waitFor>> /\ pc = "handle" /\ pc' \in {"handle", "decide"}
    BY <1>1 DEF HandleIgnored, HandleTrap, HandleExit, HandleEnd, listVars
  <2> QED BY <2>1, OrderKept DEF OrderInv, RaiseInv, Looping, Waiting
<1>2. ASSUME Cont, pc \in {"decide", "idle"} PROVE OrderInv' /\ RaiseInv'
  <2>1. /\ UNCHANGED <<uses, threads, waitFor>> /\ pc' \in {"ended", "top"}
    BY <1>2 DEF Cont, UNCHANGED_Thread, listVars, loopVars
  <2> QED BY <1>2, <2>1, OrderKept DEF OrderInv, RaiseInv, Looping, Waiting
<1>3. ASSUME Decide PROVE OrderInv' /\ RaiseInv'
  <2>1. CASE resume /\ Cont
    BY <1>2, <1>3, <2>1 DEF Decide
  <2>2. CASE ~resume
    <3>1. /\ UNCHANGED <<uses, threads, waitFor>> /\ pc = "decide" /\ pc' = "idle"
      BY <1>3, <2>2 DEF Decide, listVars, loopVars
    <3> QED BY <3>1, OrderKept DEF OrderInv, RaiseInv, Looping, Waiting
  <2> QED BY <1>3, <2>1, <2>2 DEF Decide
<1>4. ASSUME HandleClone PROVE OrderInv' /\ RaiseInv'
  <2> DEFINE n == child[results[next][1]]
  <2>1. /\ pc = "handle" /\ uses' = uses /\ next <= Len(results) /\ results[next][2] = "clone"
        /\ \/ pc' = "raised" /\ UNCHANGED <<threads, waitFor>>
           \/ pc' = "waitnew" /\ UNCHANGED <<threads>>
           \/ pc' = "handle" /\ threads' = Append(threads, n) /\ UNCHANGED waitFor
    BY <1>4 DEF HandleClone, UNCHANGED_Thread, Register, InsertNewThread
  <2>2. n \in Threads
    <3>1. next \in DOMAIN results /\ next \in Nat
      BY <2>1 DEF Inv, TypeOK
    <3>2. results[next][1] \in Threads /\ results[next] = <<results[next][1], "clone">>
      BY <2>1, <3>1 DEF Inv, TypeOK, BatchInv
    <3>3. Unhandled(results[next][1])
      BY <3>1, <3>2 DEF Unhandled
    <3> QED BY <3>2, <3>3 DEF Pending, Inv, PendingInv
  <2> HIDE DEF n
  <2>3. OrderInv'
    BY <2>1, <2>2, OrderKept, OrderRegistered DEF OrderInv, Looping, Waiting
  <2>4. RaiseInv'
    <3>1. uses \cap {"sudden", "until", "gdb"} = {} => Calm /\ pc \notin Ending
      BY <2>1 DEF Calm, Ending
    <3> QED BY <1>4, <2>1, <3>1, CloneHandledGood DEF RaiseInv
  <2> QED BY <2>3, <2>4
<1>5. ASSUME WaitNew PROVE OrderInv' /\ RaiseInv'
  <2>1. /\ pc = "waitnew" /\ uses' = uses /\ waitFor' = NoThread
        /\ \/ pc' = "raised" /\ UNCHANGED threads
           \/ pc' = "handle" /\ threads' = Append(threads, waitFor)
    BY <1>5 DEF WaitNew, UNCHANGED_Thread, Register, InsertNewThread
  <2>2. waitFor \in Threads
    BY <2>1 DEF Inv, TypeOK, Waiting
  <2>3. OrderInv'
    BY <2>1, <2>2, OrderKept, OrderRegistered DEF Looping, Waiting
  <2>4. RaiseInv'
    <3>1. uses \cap {"sudden", "until", "gdb"} = {} => Calm /\ pc \notin Ending
      BY <2>1 DEF Calm, Ending
    <3> QED BY <1>5, <2>1, <3>1, WaitNewGood DEF RaiseInv
  <2> QED BY <2>3, <2>4
<1> QED BY <1>1, <1>3, <1>4, <1>5 DEF Handle

LEMMA ScriptOrder ==
    ASSUME Inv, OrderInv, RaiseInv, Calm /\ pc \notin Ending => Good, Script
    PROVE  OrderInv' /\ RaiseInv'
<1>1. ASSUME ScriptCont \/ ScriptChange \/ ScriptDetach \/ ScriptGdb \/ GdbSession PROVE OrderInv' /\ RaiseInv'
  <2>1. /\ UNCHANGED <<uses, threads, waitFor>> /\ pc \in {"idle", "gdb"}
        /\ pc' \in {"ended", "top", "idle", "gdb", "back"}
    BY <1>1 DEF ScriptCont, Cont, ScriptChange, ScriptDetach, ScriptGdb, GdbSession, UNCHANGED_Thread,
       listVars, loopVars
  <2> QED BY <2>1, OrderKept DEF OrderInv, RaiseInv, Looping, Waiting
<1>2. ASSUME ScriptKill PROVE OrderInv' /\ RaiseInv'
  <2>1. /\ UNCHANGED <<uses, threads, waitFor>> /\ pc = "idle" /\ pc' = "killing" /\ todo' = tList
    BY <1>2 DEF ScriptKill, listVars
  <2> QED BY <2>1, OrderKept DEF OrderInv, RaiseInv, Waiting
<1>3. ASSUME NEW t \in Threads, ScriptStep(t) PROVE OrderInv' /\ RaiseInv'
  <2>1. /\ UNCHANGED <<uses, threads, waitFor>> /\ pc = "idle" /\ pc' \in {"top", "raised"}
    BY <1>3 DEF ScriptStep, UNCHANGED_Thread, listVars, loopVars
  <2>2. OrderInv'
    BY <2>1, OrderKept DEF OrderInv, Looping, Waiting
  <2>3. uses \cap {"sudden", "until", "gdb"} = {} => Calm /\ pc \notin Ending /\ "gdb" \notin uses
    BY <2>1 DEF Calm, Ending
  <2> QED BY <1>3, <2>1, <2>2, <2>3, ScriptStepGood DEF RaiseInv
<1>4. ASSUME NEW t \in Threads, ScriptUntil(t) PROVE OrderInv' /\ RaiseInv'
  <2>1. /\ UNCHANGED <<uses, threads>> /\ pc = "idle" /\ "until" \in uses
        /\ pc' = "until" \/ (pc' = "raised" /\ waitFor' = waitFor)
    BY <1>4 DEF ScriptUntil, UNCHANGED_Thread, listVars
  <2> QED BY <2>1, OrderKept DEF OrderInv, RaiseInv, Looping, Waiting
<1>5. ASSUME UntilStep PROVE OrderInv' /\ RaiseInv'
  <2>1. /\ UNCHANGED <<uses, threads>> /\ pc = "until" /\ pc' \in {"until", "idle"}
        /\ pc' = "idle" => waitFor' = NoThread
    BY <1>5 DEF UntilStep, UNCHANGED_Thread, listVars
  <2> QED BY <2>1, OrderKept DEF OrderInv, RaiseInv, Looping, Waiting
<1>6. ASSUME KillStopped \/ KillWaited PROVE OrderInv' /\ RaiseInv'
  <2>1. /\ UNCHANGED <<uses, threads>> /\ pc \in {"killing", "killwait"} /\ pc' = "killing"
        /\ todo' = Tail(todo)
    BY <1>6 DEF KillStopped, KillWaited, DetachKill, listVars
  <2>2. todo # <<>>
    BY <1>6 DEF KillStopped, KillWaited, Inv, BatchInv
  <2>3. waitFor' = NoThread
    BY <1>6 DEF KillStopped, KillWaited, OrderInv, Waiting
  <2> QED BY <2>1, <2>2, <2>3, OrderKept DEF OrderInv, RaiseInv, Looping, Waiting
<1>7. ASSUME KillRunning PROVE OrderInv' /\ RaiseInv'
  <2>1. /\ UNCHANGED <<uses, threads, todo>> /\ pc = "killing" /\ pc' = "killwait"
    BY <1>7 DEF KillRunning, listVars
  <2> QED BY <2>1, OrderKept DEF OrderInv, RaiseInv, Looping, Waiting
<1>8. ASSUME KillEnd PROVE OrderInv' /\ RaiseInv'
  <2>1. /\ UNCHANGED <<uses, threads, waitFor>> /\ pc = "killing" /\ pc' = "ended"
    BY <1>8 DEF KillEnd, UNCHANGED_Thread, listVars, loopVars
  <2> QED BY <2>1, OrderKept DEF OrderInv, RaiseInv, Looping, Waiting
<1>9. ASSUME GdbBack PROVE OrderInv' /\ RaiseInv'
  <2>1. /\ UNCHANGED <<uses, threads, waitFor>> /\ pc = "back" /\ pc' \in {"raised", "idle"}
    BY <1>9 DEF GdbBack, listVars, loopVars
  <2>2. OrderInv'
    BY <2>1, OrderKept DEF OrderInv, Looping, Waiting
  <2>3. uses \cap {"sudden", "until", "gdb"} = {} => Calm /\ pc \notin Ending /\ "gdb" \notin uses
    BY <2>1 DEF Calm, Ending
  <2> QED BY <1>9, <2>1, <2>2, <2>3, GdbBackGood DEF RaiseInv
<1> QED BY <1>1, <1>2, <1>3, <1>4, <1>5, <1>6, <1>7, <1>8, <1>9 DEF Script

-------------------------------------------------------------------------------

LEMMA StopsInit == Init => StopsInv
<1> SUFFICES ASSUME Init PROVE StopsInv
  OBVIOUS
<1>1. Inv
  BY InvInit
<1>2. /\ results = <<>> /\ DOMAIN results = {} /\ tList = <<Main>> /\ threads = <<Main>>
      /\ todo = <<>> /\ dead = {} /\ exiting = {} /\ pc = "idle" /\ waitFor = NoThread
      /\ ~doomed /\ options
      /\ st[Main] = "stop" /\ \A t \in Threads \ {Main} : st[t] = "none"
      /\ \A t \in Threads : stat[t] = "nothing"
  BY EmptyIs, ThreadsAssumption DEF Init
<1>3. Registered = {Main} /\ 1 \in DOMAIN threads /\ threads[1] = Main
  BY <1>2, SingletonIs, ThreadsAssumption DEF Registered
<1>4. \A t \in Threads : ~Pending(t)
  BY <1>2, ThreadsAssumption DEF Pending, Unhandled
<1>5. OrderInv /\ RaiseInv /\ pc \notin {"killing", "killwait"}
  BY <1>2, <1>3 DEF OrderInv, RaiseInv
<1>6. TracedInv
  <2>1. \A t \in Threads : Adopted(t)
    BY <1>2, <1>3 DEF Adopted
  <2> QED BY <1>2, <1>3, <1>4, <2>1 DEF TracedInv
<1>7. QuietInv /\ WaitInv
  BY <1>2, <1>3, ThreadsAssumption DEF QuietInv, WaitInv, AtRest
<1>8. DeathInv
  BY <1>2, <1>3, ThreadsAssumption DEF DeathInv
<1>9. LeaderInv
  BY <1>2, ThreadsAssumption DEF LeaderInv
<1> QED BY <1>5, <1>6, <1>7, <1>8, <1>9 DEF StopsInv, Good

LEMMA StopsStutter == ASSUME Inv, StopsInv, UNCHANGED vars PROVE StopsInv'
<1>1. /\ UNCHANGED <<uses, st, stat, exiting, doomed, child, options>>
      /\ UNCHANGED <<tList, threads, dead, results, next>>
      /\ UNCHANGED <<pc, todo, waitFor>>
  BY DEF vars, kernelVars, listVars, loopVars
<1>2. OrderInv' /\ RaiseInv' /\ (Calm' <=> Calm)
  BY <1>1 DEF StopsInv, OrderInv, RaiseInv, Calm
<1>3. Registered' = Registered /\ Answered' = Answered /\ Todo' = Todo
  BY <1>1 DEF Registered, Answered, Todo
<1>4. ASSUME Good PROVE Good'
  <2>1. TracedInv' /\ DeathInv' /\ LeaderInv'
    BY <1>1, <1>4, SameGood
  <2>2. QuietInv' /\ WaitInv'
    BY <1>1, <1>3, <1>4 DEF Good, QuietInv, AtRest, WaitInv, Stopped
  <2> QED BY <2>1, <2>2 DEF Good
<1>5. ASSUME KillInv PROVE KillInv'
  BY <1>1, <1>3, <1>5 DEF KillInv, Stopped
<1> QED BY <1>1, <1>2, <1>4, <1>5 DEF StopsInv

LEMMA StopsNext == Inv /\ StopsInv /\ [Next]_vars => StopsInv'
<1> SUFFICES ASSUME Inv, StopsInv, Next PROVE StopsInv'
  BY StopsStutter
<1>1. uses' = uses /\ (doomed => doomed')
  BY UsesKept
<1>2. Calm' => Calm
  BY <1>1 DEF Calm
<1>3. OrderInv' /\ RaiseInv'
  <2>1. CASE Kernel
    <3>1. UNCHANGED_Debugger
      BY <2>1 DEF Kernel, Clone, CloneEvent, FirstStop, TakesSigstop, Traps, ExitEvent, Dies, FreeEnds,
         ExitGroup, Killed
    <3>2. UNCHANGED <<uses, pc, threads, todo, waitFor>>
      BY <3>1 DEF UNCHANGED_Debugger, listVars, loopVars
    <3> QED BY <3>2 DEF StopsInv, OrderInv, RaiseInv
  <2>2. CASE Ended
    <3>1. UNCHANGED <<uses, pc, threads, todo, waitFor>>
      BY <2>2 DEF Ended, vars, listVars, loopVars
    <3> QED BY <3>1 DEF StopsInv, OrderInv, RaiseInv
  <2> QED BY <2>1, <2>2, WaitOrder, HandleOrder, ScriptOrder DEF Next, StopsInv, RaiseInv
<1>4. Calm' /\ pc' \notin Ending => Good'
  BY <1>2, GoodNext DEF StopsInv
<1>5. ASSUME uses' \cap {"until", "sudden"} = {}, pc' \in {"killing", "killwait"} PROVE KillInv'
  <2>1. "sudden" \notin uses /\ Calm /\ uses \cap {"until", "sudden"} = {}
    BY <1>1, <1>5 DEF Calm
  <2>2. CASE pc \in {"killing", "killwait"}
    BY <1>5, <2>1, <2>2, KillNext DEF StopsInv
  <2>3. CASE pc \notin {"killing", "killwait"}
    <3>1. ScriptKill
      <4>1. ~Kernel
        <5>1. Kernel => UNCHANGED_Debugger
          BY DEF Kernel, Clone, CloneEvent, FirstStop, TakesSigstop, Traps, ExitEvent, Dies, FreeEnds, ExitGroup, Killed
        <5> QED BY <1>5, <2>3, <5>1 DEF UNCHANGED_Debugger
      <4>2. ~Wait
        BY <1>5, <2>3 DEF Wait, WaitTop, WaitNone, StopNext, StopWait, PollEnd, WaitFirst, PollOne
      <4>3. ~Handle
        BY <1>5, <2>3 DEF Handle, HandleIgnored, HandleTrap, HandleExit, HandleClone, WaitNew, HandleEnd, Decide, Cont
      <4>4. ~Ended
        BY <1>5, <2>3 DEF Ended, vars
      <4>5. Script => ScriptKill
        BY <1>5, <2>3 DEF Script, ScriptCont, Cont, ScriptChange, ScriptDetach, ScriptGdb, ScriptStep, ScriptUntil,
           UntilStep, KillStopped, KillRunning, KillWaited, KillEnd, GdbSession, GdbBack
      <4> QED BY <4>1, <4>2, <4>3, <4>4, <4>5 DEF Next
    <3>2. pc = "idle" /\ pc \notin Ending
      BY <3>1 DEF ScriptKill, Ending
    <3> QED BY <2>1, <3>1, <3>2, ScriptKillGood DEF StopsInv
  <2> QED BY <2>2, <2>3
<1> QED BY <1>3, <1>4, <1>5 DEF StopsInv

LEMMA StopsInvariant == Spec => []StopsInv
<1>1. Init => StopsInv
  BY StopsInit
<1>2. Inv /\ StopsInv /\ [Next]_vars => StopsInv'
  BY StopsNext
<1> QED BY <1>1, <1>2, Invariant, PTL DEF Spec

(* For any number of threads: when the script has the process every traced *)
(* thread is registered and stopped, in whatever order clones, first stops *)
(* and deaths were collected, and no thread is left when the main one is   *)
(* dead.                                                                   *)
THEOREM ThreadsStopped == Spec => []AllStopped
<1>1. Inv /\ StopsInv => AllStopped
  <2> SUFFICES ASSUME Inv, StopsInv, pc = "idle" PROVE AllStopped
    BY DEF AllStopped
  <2>1. ASSUME ~doomed, uses \cap {"until", "gdb"} = {}, NEW t \in Alive
        PROVE  Stopped(t) /\ t \in Registered
    <3>1. Good
      BY <2>1 DEF StopsInv, Calm, Ending
    <3>2. options /\ t \in Threads /\ st[t] \in {"new", "run", "clone", "stop", "free"}
      BY <2>1, <3>1 DEF Good, TracedInv, Alive, Inv, TypeOK, States
    <3>3. st[t] \notin {"new", "clone"} /\ (st[t] = "stop" => t \in Registered)
      BY <3>1, <3>2, NothingPending
    <3>4. st[t] \notin {"run", "free"}
      BY <3>1, <3>2, NothingPending DEF Good, TracedInv
    <3> QED BY <3>2, <3>3, <3>4 DEF Stopped
  <2>2. ASSUME Main \in dead, uses \cap {"until", "sudden", "gdb threads"} = {}
        PROVE  tList = <<>>
    <3>1. Good
      BY <2>2 DEF StopsInv, Calm, Ending
    <3>2. ASSUME NEW t \in Registered PROVE FALSE
      <4>1. t \in Threads /\ st[t] # "none"
        BY Subsets DEF Inv, KernelInv
      <4>2. st[t] = "gone"
        BY <2>2, <3>1, <4>1 DEF Good, DeathInv
      <4> QED BY <2>2, <3>1, <4>2, NothingPending
    <3>3. tList \in Seq(Threads) /\ (Len(tList) # 0 => tList[1] \in Registered)
      BY DEF Inv, TypeOK, Registered
    <3> QED BY <3>2, <3>3
  <2> QED BY <2>1, <2>2 DEF AllStopped
<1> QED BY <1>1, Invariant, StopsInvariant, PTL

(* Head(todo) is the main thread: it is all that is left. *)
LEMMA LastOne ==
    ASSUME Inv, OrderInv, pc \in {"stopone", "killwait"}, waitFor = Main
    PROVE  Todo = {Main}
<1>1. todo \in Seq(Threads) /\ todo # <<>> /\ Head(todo) = Main
  BY DEF Inv, TypeOK, BatchInv
<1>2. Len(todo) \in Nat \ {0} /\ DOMAIN todo = 1..Len(todo) /\ todo[1] = Main
  BY <1>1
<1>3. 1 \in DOMAIN todo
  BY <1>2
<1>4. 1 = Len(todo)
  BY <1>2, <1>3 DEF OrderInv
<1>5. DOMAIN todo = {1}
  <2>1. 1..1 = {1}
    OBVIOUS
  <2>2. DOMAIN todo = 1..1
    BY <1>2, <1>4
  <2> QED BY <2>1, <2>2
<1> QED BY <1>2, <1>5 DEF Todo

(* For any number of threads: no waitpid on one thread is left without an  *)
(* answer (a first stop already collected, a thread left in a stop, a      *)
(* leader that others keep from being reaped), and the one on the group    *)
(* always has a thread to hear of.                                         *)
THEOREM WaitsAreAnswered == Spec => []WaitsAnswered
<1>1. Inv /\ StopsInv => WaitsAnswered
  <2> SUFFICES ASSUME Inv, StopsInv, uses \cap {"leader", "sudden", "until"} = {},
                      ~({"exits", "step"} \subseteq uses)
               PROVE  /\ Blocked # NoThread => ~Stuck(Blocked)
                      /\ pc = "wait" => \E t \in Threads : Waitable(t) \/ st[t] \in {"run", "new", "clone"}
    BY DEF WaitsAnswered
  <2>1. Calm /\ "leader" \notin uses /\ uses \cap {"until", "sudden"} = {} /\ OrderInv
    BY DEF Calm, StopsInv
  <2>2. ASSUME pc \notin Ending, pc \notin {"gdb", "back"}, st[Main] = "zombie", NEW u \in Threads \ {Main},
               u \in Alive
        PROVE  st[u] \notin {"stop", "free"}
    <3>1. TracedInv /\ LeaderInv
      BY <2>1, <2>2 DEF StopsInv, Good
    <3>2. doomed /\ Trailing
      BY <2>1, <2>2, <3>1 DEF LeaderInv, Trailing
    <3> QED BY <2>1, <2>2, <3>1, <3>2 DEF LeaderInv, TracedInv, Stopped
  <2>3. ASSUME NEW t \in Threads, st[t] = "zombie", stat[t] = "exit", ~Waitable(t)
        PROVE  t = Main /\ \E u \in Threads \ {Main} : st[u] \notin {"none", "gone"}
    BY <2>3 DEF Waitable
  <2>4. ASSUME pc \in {"killing", "killwait"}, NEW t \in Threads, Stuck(t),
               Stopped(t) => stat[t] # "nothing", t = Main => Todo \subseteq {Main}
        PROVE  FALSE
    <3>1. KillInv
      BY <2>1, <2>4 DEF StopsInv
    <3>2. st[t] = "zombie" /\ stat[t] = "exit" /\ ~Waitable(t)
          /\ \A u \in Threads \ {t} : st[u] \in {"none", "gone", "zombie", "stop"}
      BY <2>4, <3>1 DEF Stuck, KillInv
    <3>3. PICK u \in Threads \ {Main} : t = Main /\ st[u] \notin {"none", "gone"}
      BY <2>3, <3>2
    <3>4. u \in Registered /\ u \notin Todo
      BY <2>4, <3>1, <3>2, <3>3 DEF KillInv
    <3> QED BY <3>1, <3>3, <3>4 DEF KillInv
  <2>5. ASSUME pc = "killing", todo = <<>>, Stuck(Main) PROVE FALSE
    <3>1. Todo = {}
      BY <2>5, EmptyIs DEF Todo
    <3>2. KillInv
      BY <2>1, <2>5 DEF StopsInv
    <3>3. ~Stopped(Main)
      BY <3>1, <3>2, ThreadsAssumption DEF KillInv, Stopped
    <3> QED BY <2>4, <2>5, <3>1, <3>3, ThreadsAssumption
  <2>6. ASSUME pc = "killwait", Stuck(waitFor) PROVE FALSE
    <3>1. waitFor \in Threads /\ (waitFor = Main => Todo = {Main})
      BY <2>1, <2>6, LastOne DEF Inv, TypeOK, Waiting
    <3>2. Stopped(waitFor) => stat[waitFor] # "nothing"
      BY <2>1, <2>6 DEF StopsInv, KillInv
    <3> QED BY <2>4, <2>6, <3>1, <3>2
  <2>7. ASSUME pc = "stopone", Stuck(waitFor) PROVE FALSE
    <3>1. Good /\ pc \notin Ending
      BY <2>1, <2>7 DEF StopsInv, Ending
    <3>2. waitFor \in Threads /\ (waitFor = Main => Todo = {Main})
      BY <2>1, <2>7, LastOne DEF Inv, TypeOK, Waiting
    <3>3. st[waitFor] = "zombie" /\ stat[waitFor] = "exit" /\ ~Waitable(waitFor)
          /\ \A u \in Threads \ {waitFor} : st[u] \in {"none", "gone", "zombie", "stop"}
      BY <2>7, <3>1, <3>2 DEF Stuck, Good, WaitInv, DeathInv
    <3>4. PICK u \in Threads \ {Main} : waitFor = Main /\ st[u] \notin {"none", "gone"}
      BY <2>3, <3>2, <3>3
    <3>5. st[u] = "zombie" => FALSE
      BY <2>7, <3>1, <3>2, <3>4 DEF Good, TracedInv, QuietInv
    <3>6. st[u] = "stop"
      BY <3>3, <3>4, <3>5
    <3>7. u \in Alive
      BY <3>6 DEF Alive
    <3> QED BY <2>2, <2>7, <3>1, <3>3, <3>4, <3>6, <3>7
  <2>8. ASSUME pc = "waitnew", Stuck(waitFor) PROVE FALSE
    <3>1. Good
      BY <2>1, <2>8 DEF StopsInv, Ending
    <3>2. PICK t \in Threads : next \in DOMAIN results /\ results[next] = <<t, "clone">> /\ waitFor = child[t]
      <4>1. next \in DOMAIN results /\ results[next][2] = "clone" /\ results[next][1] \in Threads
            /\ waitFor = child[results[next][1]]
        BY <2>8 DEF Inv, PendingInv
      <4>2. results[next] = <<results[next][1], "clone">>
        BY <4>1 DEF Inv, TypeOK
      <4> QED BY <4>1, <4>2
    <3>3. Unhandled(t)
      <4>1. next >= next
        BY DEF Inv, TypeOK
      <4> QED BY <3>2, <4>1 DEF Unhandled
    <3>4. st[waitFor] \in {"new", "stop"}
      BY <3>1, <3>2, <3>3, CloneReady
    <3> QED BY <2>8, <3>1, <3>4 DEF Stuck, Good, WaitInv
  <2>9. Blocked # NoThread => ~Stuck(Blocked)
    <3>1. CASE pc = "killing" /\ todo = <<>>
      BY <2>5, <3>1 DEF Blocked
    <3>2. CASE ~(pc = "killing" /\ todo = <<>>)
      <4>1. Blocked = waitFor
        BY <3>2 DEF Blocked
      <4>2. waitFor # NoThread => pc \in {"stopone", "waitnew", "killwait"}
        BY <2>1 DEF OrderInv, Waiting
      <4> QED BY <2>6, <2>7, <2>8, <4>1, <4>2
    <3> QED BY <3>1, <3>2
  <2>10. ASSUME pc = "wait" PROVE \E t \in Threads : Waitable(t) \/ st[t] \in {"run", "new", "clone"}
    <3>1. Good /\ pc \notin Ending
      BY <2>1, <2>10 DEF StopsInv, Ending
    <3>2. PICK t \in Threads : stat[t] # "nothing" \/ st[t] \in {"run", "new", "clone"}
      BY <2>10, <3>1 DEF Good, WaitInv
    <3> SUFFICES ASSUME stat[t] # "nothing", ~Waitable(t)
                 PROVE  \E u \in Threads : Waitable(u) \/ st[u] \in {"run", "new", "clone"}
      BY <3>2
    <3>3. t = Main /\ stat[t] = "exit" /\ \E u \in Threads \ {Main} : st[u] \notin {"none", "gone"}
      BY DEF Waitable
    <3>4. st[Main] = "zombie"
      BY <3>3 DEF Inv, KernelInv
    <3>5. PICK u \in Threads \ {Main} : st[u] \notin {"none", "gone"}
      BY <3>3
    <3>6. CASE st[u] = "zombie"
      BY <3>1, <3>5, <3>6 DEF Good, DeathInv, Waitable
    <3>7. CASE st[u] \in {"stop", "free"}
      BY <2>2, <2>10, <3>1, <3>4, <3>5, <3>7 DEF Alive
    <3> QED BY <3>5, <3>6, <3>7 DEF Inv, TypeOK, States
  <2> QED BY <2>9, <2>10
<1> QED BY <1>1, Invariant, StopsInvariant, PTL

(* For any number of threads: no clone of a batch finds its parent or its  *)
(* child gone, no step a thread that is not stopped, and no pending change *)
(* of a breakpoint an empty list.                                          *)
THEOREM NothingIsRaised == Spec => []NothingRaises
<1>1. StopsInv /\ (~({"change", "step"} \subseteq uses) => ~crashed) => NothingRaises
  BY DEF StopsInv, RaiseInv, NothingRaises
<1> QED BY <1>1, ChangeApplies, StopsInvariant, PTL

===============================================================================
