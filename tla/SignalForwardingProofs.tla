------------------------- MODULE SignalForwardingProofs -------------------------
(***************************************************************************)
(* For any number of threads and signals, and whatever the catchers make   *)
(* of a signal: a thread is handed the signal it is due and no other, a    *)
(* catcher without callback leaves the process to the script, and chains   *)
(* of hijacks that never end are found.                                    *)
(***************************************************************************)
EXTENDS SignalForwarding, Integers, TLAPS, FiniteSetTheorems, WellFoundedInduction, NaturalsInduction

Modes == {"stopped", "running", "reporting", "stepping", "resuming", "error"}

(* What a number is does not matter here, only which threads have one. *)
Shape ==
    /\ scenario \in Scenarios
    /\ mode \in Modes
    /\ DOMAIN signal_number = Threads
    /\ DOMAIN due = Threads
    /\ to_forward \subseteq Threads
    /\ resume \in BOOLEAN
    /\ is_a_step \in BOOLEAN

(* The thread that stopped first is not among those reported before it. *)
Batch ==
    /\ mode \in {"reporting", "stepping"} => head \notin pending
    /\ mode = "stepping" => pending = {}

(* A thread that is still to be reported is not in the list, or the number *)
(* of its stop would take the place of its signal.                         *)
ForwardInv ==
    Careful =>
        /\ ~is_a_step
        /\ mode # "stepping"
        /\ mode = "running" => to_forward = {}
        /\ mode = "reporting" => head \notin to_forward /\ to_forward \cap pending = {}
        /\ mode # "error" => /\ \A t \in to_forward : signal_number[t] = due[t]
                             /\ \A t \in Threads \ to_forward : due[t] = NoSig

(* A thread whose catcher was hit has been reported in this batch, so that *)
(* its number stays, and no one resumes the process any more.              *)
HitInv ==
    /\ \A h \in hits : h[1] \in Threads
    /\ mode \in {"running", "resuming"} => hits = {}
    /\ mode \in {"reporting", "stepping"} =>
           /\ hits # {} => ~resume
           /\ \A h \in hits : h[1] \notin pending /\ h[1] # head
    /\ mode \in {"reporting", "stepping", "stopped"} =>
           \A h \in hits : signal_number[h[1]] = h[2]

IndInv == Shape /\ Batch /\ ForwardInv /\ HitInv

-------------------------------------------------------------------------------
(* The threads of a scenario are threads. *)
LEMMA ScenarioThreads ==
    ASSUME Shape
    PROVE  scenario.threads \subseteq Threads
BY SignalsAssumption DEF Shape

LEMMA IndInvInit == Init => IndInv
<1> SUFFICES ASSUME Init PROVE IndInv
  OBVIOUS
<1> USE DEF Init, Silent
<1>1. Shape /\ Batch
  BY DEF Shape, Batch, Modes
<1>2. ForwardInv
  BY DEF ForwardInv
<1>3. HitInv
  BY DEF HitInv
<1> QED BY <1>1, <1>2, <1>3 DEF IndInv

(* What the script does to a stopped process, and what others send. *)
LEMMA CatcherInv ==
    ASSUME IndInv, UNCHANGED scenario,
           \/ \E n \in Signals, c \in scenario.catchers : CatchSignal(n, c)
           \/ \E n \in Signals, on \in BOOLEAN : Toggle(n, on)
           \/ \E B \in SUBSET Signals : SetSignalsToBlock(B)
    PROVE  IndInv'
<1>1. /\ UNCHANGED <<signal_number, to_forward, resume, is_a_step, mode, head, pending, due>>
      /\ hits' \in {{}, hits}
  BY DEF CatchSignal, Toggle, SetSignalsToBlock, scriptVars
<1>2. Shape' /\ Batch'
  BY <1>1 DEF IndInv, Shape, Batch
<1>3. ForwardInv'
  BY <1>1 DEF IndInv, ForwardInv, Careful
<1>4. HitInv'
  BY <1>1 DEF IndInv, HitInv
<1> QED BY <1>2, <1>3, <1>4 DEF IndInv

LEMMA ThreadInv ==
    ASSUME IndInv, UNCHANGED scenario, NEW t \in Threads,
           \/ \E n \in Signals \cup {NoSig} : SetSignal(t, n)
           \/ Step(t)
           \/ StepUntil(t)
           \/ \E n \in Genuine : Send(t, n)
    PROVE  IndInv'
<1> USE DEF IndInv, SetSignal, Step, StepUntil, Send
<1>1. Shape' /\ Batch'
  BY DEF Shape, Batch, Modes
<1>2. ForwardInv'
  <2> SUFFICES ASSUME Careful PROVE ForwardInv'
    BY DEF ForwardInv, Careful
  <2>1. ~Step(t) /\ ~StepUntil(t)
    BY DEF Careful
  <2>2. CASE \E n \in Signals \cup {NoSig} : SetSignal(t, n)
    <3>1. PICK n : SetSignal(t, n)
      BY <2>2
    <3>2. /\ \A k \in to_forward' : signal_number'[k] = due'[k]
          /\ \A k \in Threads \ to_forward' : due'[k] = NoSig
      BY <3>1, ZenonT(45) DEF ForwardInv, Shape
    <3> QED BY <3>1, <3>2 DEF ForwardInv, Careful
  <2>3. CASE \E n \in Genuine : Send(t, n)
    BY <2>3 DEF ForwardInv, Careful
  <2> QED BY <2>1, <2>2, <2>3
<1>3. HitInv'
  BY DEF HitInv, Shape
<1> QED BY <1>1, <1>2, <1>3

(* cont leaves nothing to forward. *)
LEMMA ContInv ==
    ASSUME IndInv, UNCHANGED scenario, NEW L \in SUBSET Threads, Cont(L)
    PROVE  IndInv'
<1> USE DEF IndInv, Cont, ForwardSignal
<1>1. Shape' /\ Batch'
  BY DEF Shape, Batch, Modes
<1>2. ForwardInv'
  BY DEF ForwardInv, Careful
<1>3. HitInv'
  BY DEF HitInv
<1> QED BY <1>1, <1>2, <1>3

LEMMA WaitInv ==
    ASSUME IndInv, UNCHANGED scenario, NEW h \in Threads, Wait(h)
    PROVE  IndInv'
<1> USE DEF IndInv, Wait
<1>1. Shape' /\ Batch'
  BY DEF Shape, Batch, Modes
<1>2. ForwardInv'
  BY DEF ForwardInv, Careful
<1>3. HitInv'
  BY DEF HitInv
<1> QED BY <1>1, <1>2, <1>3

(* A thread is reported once in a batch, the first to stop last. *)
LEMMA ReportedOnce ==
    ASSUME IndInv, NEW t \in Threads, MayReport(t)
    PROVE  /\ mode \in {"reporting", "stepping"}
           /\ \A h \in hits : h[1] # t
           /\ t = head => pending = {}
           /\ Careful => t \notin to_forward
BY DEF IndInv, MayReport, Batch, HitInv, ForwardInv

LEMMA SignalReportInv ==
    ASSUME IndInv, UNCHANGED scenario, NEW t \in Threads, SignalReport(t)
    PROVE  IndInv'
<1> DEFINE n == sent[t]
           r == HandleSignal(n)
           step == n = SIGTRAP /\ is_a_step
<1>0. MayReport(t)
  BY DEF SignalReport
<1>1. /\ mode \in {"reporting", "stepping"}
      /\ \A h \in hits : h[1] # t
      /\ t = head => pending = {}
      /\ Careful => t \notin to_forward
  BY <1>0, ReportedOnce
<1>2. /\ signal_number' = [signal_number EXCEPT ![t] = r.num]
      /\ is_a_step' = (is_a_step /\ ~step)
      /\ hits' = IF r.stop THEN hits \cup {<<t, r.num>>} ELSE hits
      /\ due' = [due EXCEPT ![t] = r.num]
      /\ \/ /\ mode' = "error" /\ to_forward' = to_forward
            /\ UNCHANGED <<resume, head, pending>>
         \/ /\ to_forward' = IF step THEN to_forward ELSE to_forward \cup {t}
            /\ resume' = (resume /\ ~r.stop /\ ~step)
            /\ pending' = pending \ {t}
            /\ mode' = IF t # head THEN mode
                       ELSE IF resume /\ ~r.stop /\ ~step THEN "resuming" ELSE "stopped"
            /\ head' = head
  BY DEF SignalReport, Reported
<1> HIDE DEF n, r
<1>3. Shape' /\ Batch'
  BY <1>1, <1>2 DEF IndInv, Shape, Batch, Modes
<1>4. ForwardInv'
  <2> SUFFICES ASSUME Careful PROVE ForwardInv'
    BY DEF ForwardInv, Careful
  <2>0. CASE mode' = "error"
    BY <1>2, <2>0 DEF IndInv, ForwardInv
  <2>1. mode' # "error" => to_forward' = to_forward \cup {t} /\ ~is_a_step'
    BY <1>2 DEF IndInv, ForwardInv
  <2> SUFFICES ASSUME mode' # "error" PROVE ForwardInv'
    BY <2>0
  <2>2. /\ \A k \in to_forward' : signal_number'[k] = due'[k]
        /\ \A k \in Threads \ to_forward' : due'[k] = NoSig
    BY <1>1, <1>2, <2>1 DEF IndInv, Shape, ForwardInv
  <2>3. /\ mode' \notin {"stepping", "running"}
        /\ mode' = "reporting" => head' \notin to_forward' /\ to_forward' \cap pending' = {}
    BY <1>1, <1>2, <2>1 DEF IndInv, ForwardInv
  <2> QED BY <2>1, <2>2, <2>3 DEF ForwardInv
<1>5. HitInv'
  <2>1. /\ \A h \in hits : h[1] \in Threads /\ h[1] # t /\ h[1] \notin pending /\ h[1] # head
        /\ \A h \in hits : signal_number[h[1]] = h[2]
        /\ hits # {} => ~resume
    BY <1>1 DEF IndInv, HitInv
  <2>2. \A h \in hits' : h \in hits \/ (r.stop /\ h[1] = t /\ h[2] = r.num)
    <3>1. <<t, r.num>>[1] = t /\ <<t, r.num>>[2] = r.num
      OBVIOUS
    <3> QED BY <1>2, <3>1
  <2>3. \A h \in hits' : h[1] \in Threads /\ h[1] \notin pending \ {t} /\ (h[1] = head => t = head)
    BY <2>1, <2>2
  <2>4. \A h \in hits' : signal_number'[h[1]] = h[2]
    BY <1>2, <2>1, <2>2 DEF IndInv, Shape
  <2>5. CASE mode' = "error"
    BY <2>3, <2>5 DEF HitInv
  <2>6. CASE mode' # "error"
    <3>1. hits' # {} => ~(resume /\ ~r.stop /\ ~step)
      BY <1>2, <2>1
    <3>2. /\ resume' = (resume /\ ~r.stop /\ ~step)
          /\ pending' = pending \ {t}
          /\ mode' = IF t # head THEN mode
                     ELSE IF resume /\ ~r.stop /\ ~step THEN "resuming" ELSE "stopped"
          /\ head' = head
      BY <1>2, <2>6
    <3> HIDE DEF step
    <3>3. mode' \in {"running", "resuming"} => hits' = {}
      BY <1>1, <3>1, <3>2
    <3>4. mode' \in {"reporting", "stepping"} => t # head /\ (hits' # {} => ~resume')
      BY <3>1, <3>2
    <3> QED BY <2>3, <2>4, <3>2, <3>3, <3>4 DEF HitInv
  <2> QED BY <2>5, <2>6
<1> QED BY <1>3, <1>4, <1>5 DEF IndInv

LEMMA InternalReportInv ==
    ASSUME IndInv, UNCHANGED scenario, NEW t \in Threads, NEW num, NEW cb \in BOOLEAN, NEW v,
           InternalReport(t, num, cb, v)
    PROVE  IndInv'
<1>0. MayReport(t)
  BY DEF InternalReport
<1>1. /\ mode \in {"reporting", "stepping"}
      /\ \A h \in hits : h[1] # t
      /\ t = head => pending = {}
      /\ Careful => t \notin to_forward
  BY <1>0, ReportedOnce
<1> USE DEF InternalReport, Reported
<1>3. Shape' /\ Batch'
  BY <1>1 DEF IndInv, Shape, Batch, Modes
<1>4. ForwardInv'
  <2> SUFFICES ASSUME Careful PROVE ForwardInv'
    BY DEF ForwardInv, Careful
  <2>1. v = NoCallback
    BY DEF Careful
  <2> QED BY <2>1, <1>0, <1>1 DEF IndInv, Shape, ForwardInv, Careful, MayReport
<1>5. HitInv'
  BY <1>0, <1>1 DEF IndInv, Shape, HitInv, MayReport
<1> QED BY <1>3, <1>4, <1>5 DEF IndInv

LEMMA StopReportInv ==
    ASSUME IndInv, UNCHANGED scenario, NEW t \in Threads, NEW interrupted \in BOOLEAN,
           StopReport(t, interrupted)
    PROVE  IndInv'
<1>0. MayReport(t)
  BY DEF StopReport
<1>1. /\ mode \in {"reporting", "stepping"}
      /\ \A h \in hits : h[1] # t
      /\ t = head => pending = {}
      /\ Careful => t \notin to_forward
  BY <1>0, ReportedOnce
<1> USE DEF StopReport, Reported
<1>3. Shape' /\ Batch'
  BY <1>1 DEF IndInv, Shape, Batch, Modes
<1>4. ForwardInv'
  BY <1>0, <1>1 DEF IndInv, Shape, ForwardInv, Careful, MayReport
<1>5. HitInv'
  BY <1>0, <1>1 DEF IndInv, Shape, HitInv, MayReport
<1> QED BY <1>3, <1>4, <1>5 DEF IndInv

LEMMA NextInv ==
    ASSUME IndInv, [Next]_vars
    PROVE  IndInv'
<1>1. CASE Next
  <2>1. scenario.threads \subseteq Threads
    BY ScenarioThreads DEF IndInv
  <2>2. UNCHANGED scenario
    BY <1>1 DEF Next
  <2>3. Actions
    BY <1>1 DEF Next
  <2>4. CASE \/ \E n \in Signals, c \in scenario.catchers : CatchSignal(n, c)
             \/ \E n \in Signals, on \in BOOLEAN : Toggle(n, on)
             \/ \E B \in SUBSET Signals : SetSignalsToBlock(B)
    BY <2>2, <2>4, CatcherInv
  <2>5. CASE \/ \E t \in scenario.threads, n \in Signals \cup {NoSig} : SetSignal(t, n)
             \/ \E t \in scenario.threads : Step(t) \/ StepUntil(t)
             \/ \E t \in scenario.threads, n \in Genuine : Send(t, n)
    BY <2>1, <2>2, <2>5, ThreadInv
  <2>6. CASE \E L \in SUBSET scenario.threads : Cont(L)
    BY <2>1, <2>2, <2>6, ContInv
  <2>7. CASE \E t \in scenario.threads : Wait(t)
    BY <2>1, <2>2, <2>7, WaitInv
  <2>8. CASE \E t \in scenario.threads : SignalReport(t)
    BY <2>1, <2>2, <2>8, SignalReportInv
  <2>9. CASE \E t \in scenario.threads, num \in {SIGTRAP, SYSCALL_SIGTRAP}, cb \in BOOLEAN,
                v \in Signals \cup {NoCallback} : InternalReport(t, num, cb, v)
    BY <2>1, <2>2, <2>9, InternalReportInv
  <2>10. CASE \E t \in scenario.threads, interrupted \in BOOLEAN : StopReport(t, interrupted)
    BY <2>1, <2>2, <2>10, StopReportInv
  <2> QED BY <2>3, <2>4, <2>5, <2>6, <2>7, <2>8, <2>9, <2>10 DEF Actions
<1>2. CASE UNCHANGED vars
  BY <1>2 DEF vars, IndInv, Shape, Batch, ForwardInv, Careful, HitInv
<1> QED BY <1>1, <1>2

LEMMA Invariant == Spec => []IndInv
BY IndInvInit, NextInv, PTL DEF Spec

-------------------------------------------------------------------------------
(* The recursion over hijacked signals comes to an end. *)

(* Every set of numbers that is not empty has a least one. *)
LEMMA Smallest ==
    ASSUME NEW S, S \subseteq Nat, S # {}
    PROVE  \E n \in S : \A k \in S : n <= k
<1> DEFINE R == OpToRel(<, Nat)
<1>1. IsWellFoundedOn(R, Nat)
  BY NatLessThanWellFounded
<1>2. \A k, n \in Nat : k < n => <<k, n>> \in R
  BY DEF OpToRel
<1> HIDE DEF R
<1>3. PICK n \in S : \A k \in S : ~(<<k, n>> \in R)
  BY <1>1, WFMin, Zenon
<1>4. \A k \in S : n <= k
  <2> SUFFICES ASSUME NEW k \in S PROVE n <= k
    OBVIOUS
  <2>1. k \in Nat /\ n \in Nat
    OBVIOUS
  <2>2. k < n => <<k, n>> \in R
    BY <1>2, <2>1
  <2> QED BY <1>3, <2>1, <2>2
<1> QED BY <1>4

(* How many signals are not hijacked yet. *)
Left(S) == Cardinality(Signals \ S)
Places == Signals \X SUBSET Signals

(* One more hijacked signal leaves one less to go to. *)
LEMMA LeftLess ==
    ASSUME NEW S \in SUBSET Signals
    PROVE  /\ Left(S) \in Nat
           /\ \A m \in Signals \ S : Left(S \cup {m}) < Left(S)
<1>1. \A T \in SUBSET Signals : Left(T) \in Nat /\ IsFiniteSet(Signals \ T)
  BY SignalsAssumption, FS_Difference, FS_CardinalityType DEF Left
<1>2. ASSUME NEW m \in Signals \ S
      PROVE  Left(S \cup {m}) < Left(S)
  <2>1. (Signals \ S) \ {m} = Signals \ (S \cup {m})
    OBVIOUS
  <2>2. IsFiniteSet(Signals \ S) /\ m \in Signals \ S
    BY <1>1
  <2>3. Cardinality((Signals \ S) \ {m}) = Cardinality(Signals \ S) - 1
    BY <2>2, FS_RemoveElement
  <2>4. Left(S \cup {m}) = Left(S) - 1
    BY <2>1, <2>3 DEF Left
  <2>5. Left(S) \in Nat
    BY <1>1
  <2> QED BY <2>4, <2>5
<1> QED BY <1>1, <1>2

(* What holds at a place when it holds at all the places that the          *)
(* recursion reaches from there holds everywhere.                          *)
LEMMA PlaceInduction ==
    ASSUME NEW P \in SUBSET Places,
           \A n \in Signals, S \in SUBSET Signals :
               (\A m \in Signals \ S : <<m, S \cup {m}>> \in P) => <<n, S>> \in P
    PROVE  P = Places
<1> DEFINE Bad == {Left(p[2]) : p \in Places \ P}
<1>1. \A p \in Places : p[1] \in Signals /\ p[2] \in SUBSET Signals /\ p = <<p[1], p[2]>>
  BY DEF Places
<1>2. Bad \subseteq Nat
  BY <1>1, LeftLess
<1>3. ASSUME Bad # {} PROVE FALSE
  <2>1. PICK k \in Bad : \A i \in Bad : k <= i
    BY <1>2, <1>3, Smallest
  <2>2. PICK p \in Places \ P : k = Left(p[2])
    BY <2>1
  <2>3. ASSUME NEW m \in Signals \ p[2]
        PROVE  <<m, p[2] \cup {m}>> \in P
    <3>1. <<m, p[2] \cup {m}>> \in Places
      BY <1>1, <2>2 DEF Places
    <3>2. Left(p[2] \cup {m}) < k /\ k \in Nat /\ Left(p[2] \cup {m}) \in Nat
      BY <1>1, <2>2, LeftLess
    <3>3. Left(p[2] \cup {m}) \notin Bad
      <4> HIDE DEF Bad
      <4> QED BY <2>1, <3>2
    <3>4. \A q \in Places \ P : Left(q[2]) \in Bad
      OBVIOUS
    <3>5. <<m, p[2] \cup {m}>>[2] = p[2] \cup {m}
      OBVIOUS
    <3> HIDE DEF Bad
    <3> QED BY <3>1, <3>3, <3>4, <3>5
  <2> QED BY <1>1, <2>2, <2>3
<1>4. \A p \in Places \ P : Left(p[2]) \in Bad
  OBVIOUS
<1> HIDE DEF Bad
<1>5. Places \ P = {}
  BY <1>3, <1>4
<1> QED BY <1>5

(* A step of the recursion looks only at the places behind it. *)
LEMMA OnCaughtLocal ==
    ASSUME NEW f, NEW g, NEW n, NEW S,
           DOMAIN caught_signals \subseteq Signals,
           \A m \in Signals \ S : f[<<m, S \cup {m}>>] = g[<<m, S \cup {m}>>]
    PROVE  OnCaught(f, n, S) = OnCaught(g, n, S)
<1> DEFINE m == caught_signals[n].callback
<1>1. CASE Caught(m) /\ m \notin S
  <2>1. m \in Signals \ S
    BY <1>1 DEF Caught
  <2>2. f[<<m, S \cup {m}>>] = g[<<m, S \cup {m}>>]
    BY <2>1
  <2> QED BY <2>2 DEF OnCaught, ConsultsNew
<1>2. CASE ~Caught(m) \/ m \in S
  BY <1>2, Zenon DEF OnCaught, ConsultsNew
<1> QED BY <1>1, <1>2

Below(k) == {p \in Places : Left(p[2]) <= k}
Solves(f, k) == \A p \in Below(k) : f[p] = OnCaught(f, p[1], p[2])

(* One more step of depth. *)
LEMMA Deeper ==
    ASSUME DOMAIN caught_signals \subseteq Signals,
           NEW k \in Nat, NEW f, k # 0 => Solves(f, k - 1)
    PROVE  \E g : g = [p \in Below(k) |-> OnCaught(g, p[1], p[2])]
<1> DEFINE g == [p \in Below(k) |-> OnCaught(f, p[1], p[2])]
<1>1. ASSUME NEW p \in Below(k)
      PROVE  OnCaught(f, p[1], p[2]) = OnCaught(g, p[1], p[2])
  <2>1. p[1] \in Signals /\ p[2] \in SUBSET Signals /\ Left(p[2]) <= k
    BY DEF Below, Places
  <2>2. ASSUME NEW m \in Signals \ p[2]
        PROVE  f[<<m, p[2] \cup {m}>>] = g[<<m, p[2] \cup {m}>>]
    <3> DEFINE q == <<m, p[2] \cup {m}>>
    <3>1. q \in Places /\ q[2] = p[2] \cup {m}
      BY <2>1 DEF Places
    <3>2. Left(q[2]) < Left(p[2]) /\ Left(q[2]) \in Nat /\ Left(p[2]) \in Nat
      BY <2>1, <3>1, LeftLess
    <3>3. k # 0 /\ Left(q[2]) <= k - 1 /\ Left(q[2]) <= k
      BY <2>1, <3>2
    <3>4. q \in Below(k - 1) /\ q \in Below(k)
      BY <3>1, <3>3 DEF Below
    <3> HIDE DEF q
    <3>5. f[q] = OnCaught(f, q[1], q[2])
      BY <3>3, <3>4 DEF Solves
    <3> QED BY <3>4, <3>5 DEF q
  <2> HIDE DEF g
  <2> QED BY <2>2, OnCaughtLocal
<1>2. g = [p \in Below(k) |-> OnCaught(g, p[1], p[2])]
  BY <1>1, Zenon
<1> QED BY <1>2

(* The recursion has a solution at every depth. *)
LEMMA Recursion ==
    ASSUME DOMAIN caught_signals \subseteq Signals, NEW k \in Nat
    PROVE  \E f : f = [p \in Below(k) |-> OnCaught(f, p[1], p[2])]
<1> DEFINE Bad == {i \in Nat : ~ \E f : f = [p \in Below(i) |-> OnCaught(f, p[1], p[2])]}
<1>1. ASSUME Bad # {} PROVE FALSE
  <2>1. PICK i \in Bad : \A j \in Bad : i <= j
    BY <1>1, Smallest
  <2>2. i = 0 \/ i - 1 \in Nat \ Bad
    <3> HIDE DEF Bad
    <3>1. i \in Nat
      BY DEF Bad
    <3> QED BY <2>1, <3>1
  <2>3. ASSUME NEW f, i # 0 => Solves(f, i - 1)
        PROVE  FALSE
    BY <2>1, <2>3, Deeper
  <2>4. i = 0
    <3>1. ASSUME i # 0 PROVE FALSE
      <4>1. PICK f : f = [p \in Below(i - 1) |-> OnCaught(f, p[1], p[2])]
        BY <2>2, <3>1
      <4>2. Solves(f, i - 1)
        BY <4>1, Zenon DEF Solves
      <4> QED BY <2>3, <4>2
    <3> QED BY <3>1
  <2> QED BY <2>3, <2>4
<1> QED BY <1>1

(* _manage_caught_signal returns: its recursion has a solution. *)
LEMMA ManageIs ==
    ASSUME DOMAIN caught_signals \subseteq Signals
    PROVE  \E f : /\ \A n \in Signals, S \in SUBSET Signals : f[<<n, S>>] = OnCaught(f, n, S)
                  /\ \A n \in Signals : ManageCaughtSignal(n) = f[<<n, {n}>>]
<1> DEFINE f == CHOOSE manage : manage = [p \in Signals \X SUBSET Signals |-> OnCaught(manage, p[1], p[2])]
<1>1. Below(Left({})) = Signals \X SUBSET Signals
  <2>1. ASSUME NEW S \in SUBSET Signals PROVE Left(S) <= Left({})
    <3>1. Signals \ S \in SUBSET (Signals \ {}) /\ IsFiniteSet(Signals \ {})
      BY SignalsAssumption, FS_Difference
    <3> QED BY <3>1, FS_Subset DEF Left
  <2> QED BY <2>1 DEF Below, Places
<1>2. Left({}) \in Nat
  BY LeftLess
<1>3. \E g : g = [p \in Signals \X SUBSET Signals |-> OnCaught(g, p[1], p[2])]
  BY <1>1, <1>2, Recursion
<1>4. f = [p \in Signals \X SUBSET Signals |-> OnCaught(f, p[1], p[2])]
  BY <1>3, Zenon
<1>5. \A n \in Signals : ManageCaughtSignal(n) = f[<<n, {n}>>]
  BY DEF ManageCaughtSignal
<1> HIDE DEF f
<1>6. ASSUME NEW n \in Signals, NEW S \in SUBSET Signals
      PROVE  f[<<n, S>>] = OnCaught(f, n, S)
  <2>1. <<n, S>> \in Signals \X SUBSET Signals /\ <<n, S>>[1] = n /\ <<n, S>>[2] = S
    OBVIOUS
  <2> DEFINE p == <<n, S>>
  <2>2. p \in Signals \X SUBSET Signals /\ p[1] = n /\ p[2] = S
    BY <2>1
  <2> HIDE DEF p
  <2>3. f[p] = OnCaught(f, p[1], p[2])
    BY <1>4, <2>2, Zenon
  <2> QED BY <2>2, <2>3 DEF p
<1> QED BY <1>5, <1>6

-------------------------------------------------------------------------------
(* The chain of hijacks is an error exactly when it never ends. *)

(* The catchers and the signals that are about to be delivered. *)
CatchersInv ==
    /\ DOMAIN caught_signals \subseteq Signals
    /\ \A n \in DOMAIN caught_signals : caught_signals[n] \in Catcher
SentInv == sent \in [Threads -> Genuine \cup {NoSig}]

Follows(k, C) == Hijacks(k) /\ caught_signals[k].callback \in C
Closed(C) == \A k \in C : Follows(k, C)

LoopIs(r, n, S) ==
    /\ r.loop \in BOOLEAN
    /\ r.loop /\ (\A k \in S \ {n} : Follows(k, S)) => \E C \in SUBSET Signals : S \subseteq C /\ Closed(C)
    /\ ~r.loop => \A C \in SUBSET Signals : Closed(C) => n \notin C

(* What the catcher of a signal decides, and what follows from it. *)
LEMMA OnCaughtIs ==
    ASSUME CatchersInv, NEW f, NEW n, Caught(n), NEW S \in SUBSET Signals, n \in S,
           \A m \in Signals \ S : Caught(m) => LoopIs(f[<<m, S \cup {m}>>], m, S \cup {m})
    PROVE  LoopIs(OnCaught(f, n, S), n, S)
<1> DEFINE c == caught_signals[n]
           m == c.callback
           r == OnCaught(f, n, S)
<1>0. /\ c \in Catcher /\ c.enabled \in BOOLEAN /\ c.recursive \in BOOLEAN
      /\ NoCallback \notin Signals /\ \A k : Caught(k) => k \in Signals
  BY SignalsAssumption DEF CatchersInv, Caught, Catcher
<1>1. CASE ~c.enabled \/ m = n \/ m = NoCallback \/ ~c.recursive \/ ~Caught(m)
  <2>1. r \in {Outcome(n, FALSE, FALSE), Outcome(n, TRUE, FALSE), Outcome(m, FALSE, FALSE)}
    <3>1. CASE ~c.enabled \/ m = n
      <4>1. r = Outcome(n, FALSE, FALSE)
        BY <3>1, Zenon DEF OnCaught
      <4> QED BY <4>1
    <3>2. CASE c.enabled /\ m # n /\ m = NoCallback
      <4>1. r = Outcome(n, TRUE, FALSE)
        BY <3>2, Zenon DEF OnCaught
      <4> QED BY <4>1
    <3>3. CASE c.enabled /\ m # n /\ m # NoCallback
      <4>1. r = Outcome(m, FALSE, FALSE)
        BY <1>1, <3>3, Zenon DEF OnCaught, ConsultsNew
      <4> QED BY <4>1
    <3> QED BY <3>1, <3>2, <3>3
  <2> HIDE DEF r
  <2>2. r.loop = FALSE
    BY <2>1 DEF Outcome
  <2>3. ~Hijacks(n)
    BY <1>0, <1>1 DEF Hijacks
  <2>4. LoopIs(r, n, S)
    BY <2>2, <2>3 DEF LoopIs, Closed, Follows
  <2> QED BY <2>4 DEF r
<1>2. CASE c.enabled /\ m # n /\ m # NoCallback /\ c.recursive /\ Caught(m)
  <2>1. Hijacks(n) /\ m \in Signals
    BY <1>0, <1>2 DEF Hijacks
  <2>2. CASE m \in S
    <3>1. r = Outcome(m, FALSE, TRUE)
      BY <1>2, <2>2, Zenon DEF OnCaught, ConsultsNew
    <3> HIDE DEF r
    <3>2. r.loop = TRUE
      BY <3>1 DEF Outcome
    <3>3. Follows(n, S)
      BY <2>1, <2>2 DEF Follows
    <3>4. LoopIs(r, n, S)
      BY <3>2, <3>3 DEF LoopIs, Closed
    <3> QED BY <3>4 DEF r
  <2>3. CASE m \notin S
    <3> DEFINE rest == f[<<m, S \cup {m}>>]
    <3>1. r = rest
      BY <1>2, <2>3, Zenon DEF OnCaught, ConsultsNew
    <3>2. LoopIs(rest, m, S \cup {m})
      BY <1>2, <2>1, <2>3
    <3> HIDE DEF r, rest
    <3>3. ASSUME rest.loop, \A k \in S \ {n} : Follows(k, S)
          PROVE  \E C \in SUBSET Signals : S \subseteq C /\ Closed(C)
      <4>1. \A k \in (S \cup {m}) \ {m} : Follows(k, S \cup {m})
        BY <2>1, <3>3 DEF Follows
      <4> QED BY <3>2, <3>3, <4>1 DEF LoopIs
    <3>4. ASSUME ~rest.loop, NEW C \in SUBSET Signals, Closed(C)
          PROVE  n \notin C
      BY <3>2, <3>4 DEF LoopIs, Closed, Follows
    <3>5. LoopIs(r, n, S)
      BY <3>1, <3>2, <3>3, <3>4 DEF LoopIs
    <3> QED BY <3>5 DEF r
  <2> QED BY <2>2, <2>3
<1> QED BY <1>0, <1>1, <1>2

(* What _handle_signal comes to, however long the chain. *)
LEMMA HandleSignalIs ==
    ASSUME CatchersInv, NEW n \in Genuine
    PROVE  HandleSignal(n).loop <=> Endless(n)
<1>1. PICK f : /\ \A k \in Signals, S \in SUBSET Signals : f[<<k, S>>] = OnCaught(f, k, S)
               /\ \A k \in Signals : ManageCaughtSignal(k) = f[<<k, {k}>>]
  BY ManageIs DEF CatchersInv
<1> DEFINE Good(p) == LoopIs(f[p], p[1], p[2])
           P == {p \in Places : p[1] \in p[2] /\ Caught(p[1]) => Good(p)}
<1>2. ASSUME NEW k \in Signals, NEW S \in SUBSET Signals,
             \A m \in Signals \ S : <<m, S \cup {m}>> \in P
      PROVE  <<k, S>> \in P
  <2>1. ASSUME k \in S, Caught(k)
        PROVE  LoopIs(OnCaught(f, k, S), k, S)
    <3>1. ASSUME NEW m \in Signals \ S, Caught(m)
          PROVE  LoopIs(f[<<m, S \cup {m}>>], m, S \cup {m})
      <4>1. <<m, S \cup {m}>> \in P /\ <<m, S \cup {m}>>[1] = m /\ <<m, S \cup {m}>>[2] = S \cup {m}
        BY <1>2
      <4> QED BY <3>1, <4>1
    <3> QED BY <2>1, <3>1, OnCaughtIs
  <2>2. f[<<k, S>>] = OnCaught(f, k, S)
    BY <1>1
  <2>3. <<k, S>> \in Places /\ <<k, S>>[1] = k /\ <<k, S>>[2] = S
    BY DEF Places
  <2> QED BY <2>1, <2>2, <2>3
<1>3. P = Places
  <2> HIDE DEF P
  <2>1. P \in SUBSET Places
    BY DEF P
  <2> QED BY <1>2, <2>1, PlaceInduction
<1>4. Endless(n) <=> \E C \in SUBSET Signals : n \in C /\ Closed(C)
  BY Zenon DEF Endless, Closed, Follows
<1>5. CASE ~Caught(n)
  <2>1. HandleSignal(n) = Outcome(n, FALSE, FALSE)
    BY <1>5, Zenon DEF HandleSignal
  <2>2. HandleSignal(n).loop = FALSE
    BY <2>1 DEF Outcome
  <2>3. ~Endless(n)
    BY <1>4, <1>5 DEF Closed, Follows, Hijacks
  <2> QED BY <2>2, <2>3
<1>6. CASE Caught(n)
  <2>1. n \in Signals
    BY <1>6 DEF CatchersInv, Caught
  <2>2. <<n, {n}>> \in P /\ <<n, {n}>>[1] = n /\ <<n, {n}>>[2] = {n}
    BY <1>3, <2>1 DEF Places
  <2>3. HandleSignal(n) = ManageCaughtSignal(n)
    BY <1>6, Zenon DEF HandleSignal
  <2>4. LoopIs(HandleSignal(n), n, {n})
    BY <1>1, <1>6, <2>1, <2>2, <2>3
  <2>5. HandleSignal(n).loop => Endless(n)
    BY <1>4, <2>4 DEF LoopIs
  <2>6. ~HandleSignal(n).loop => ~Endless(n)
    BY <1>4, <2>4 DEF LoopIs
  <2> QED BY <2>4, <2>5, <2>6 DEF LoopIs
<1> QED BY <1>5, <1>6

(* Catchers are installed as the script makes them, and what is sent is a  *)
(* signal.                                                                 *)
LEMMA ChainInv ==
    ASSUME Shape, CatchersInv, SentInv, [Next]_vars
    PROVE  CatchersInv' /\ SentInv'
<1>1. scenario.catchers \subseteq Catcher /\ scenario.threads \subseteq Threads
  BY SignalsAssumption DEF Shape
<1>2. CASE \E n \in Signals, c \in scenario.catchers : CatchSignal(n, c)
  BY <1>1, <1>2 DEF CatchSignal, scriptVars, CatchersInv, SentInv
<1>3. CASE \E n \in Signals, on \in BOOLEAN : Toggle(n, on)
  <2>1. PICK n \in Signals, on \in BOOLEAN : Toggle(n, on)
    BY <1>3
  <2>2. SentInv'
    BY <2>1 DEF Toggle, scriptVars, SentInv
  <2> DEFINE c == [caught_signals[n] EXCEPT !.enabled = on]
  <2>3. n \in DOMAIN caught_signals /\ caught_signals' = [caught_signals EXCEPT ![n] = c]
    BY <2>1 DEF Toggle, Caught
  <2>4. c \in Catcher
    BY <2>3 DEF CatchersInv, Catcher
  <2> HIDE DEF c
  <2> QED BY <2>2, <2>3, <2>4 DEF CatchersInv
<1>4. CASE \/ \E t \in scenario.threads : StepUntil(t) \/ SignalReport(t)
           \/ \E L \in SUBSET scenario.threads : Cont(L)
           \/ \E t \in scenario.threads, n \in Genuine : Send(t, n)
  <2>1. UNCHANGED caught_signals
    BY <1>4 DEF StepUntil, SignalReport, Reported, Cont, Send
  <2>2. SentInv'
    <3>1. CASE \E L \in SUBSET scenario.threads : Cont(L)
      BY <3>1 DEF Cont, SentInv
    <3>2. CASE \E t \in scenario.threads, n \in Genuine : Send(t, n)
      BY <1>1, <3>2 DEF Send, SentInv
    <3>3. CASE \E t \in scenario.threads : StepUntil(t) \/ SignalReport(t)
      <4>1. PICK t \in Threads : sent' = [sent EXCEPT ![t] = NoSig]
        BY <1>1, <3>3 DEF StepUntil, SignalReport
      <4> QED BY <4>1 DEF SentInv
    <3> QED BY <1>4, <3>1, <3>2, <3>3
  <2> QED BY <2>1, <2>2 DEF CatchersInv
<1>5. CASE \/ \E B \in SUBSET Signals : SetSignalsToBlock(B)
           \/ \E t \in scenario.threads, n \in Signals \cup {NoSig} : SetSignal(t, n)
           \/ \E t \in scenario.threads : Step(t) \/ Wait(t)
           \/ \E t \in scenario.threads, num \in {SIGTRAP, SYSCALL_SIGTRAP}, cb \in BOOLEAN,
                 v \in Signals \cup {NoCallback} : InternalReport(t, num, cb, v)
           \/ \E t \in scenario.threads, interrupted \in BOOLEAN : StopReport(t, interrupted)
           \/ UNCHANGED vars
  <2>1. UNCHANGED <<caught_signals, sent>>
    BY <1>5 DEF SetSignalsToBlock, scriptVars, SetSignal, Step, Wait, InternalReport, StopReport,
                Reported, vars
  <2> QED BY <2>1 DEF CatchersInv, SentInv
<1> QED BY <1>2, <1>3, <1>4, <1>5 DEF Next, Actions

LEMMA Chains == Spec => [](CatchersInv /\ SentInv)
<1>1. Init => CatchersInv /\ SentInv
  BY DEF Init, CatchersInv, SentInv, Silent
<1>2. IndInv => Shape
  BY DEF IndInv
<1> QED BY <1>1, <1>2, ChainInv, Invariant, PTL DEF Spec

-------------------------------------------------------------------------------
(* The number of a thread and the list threads_with_signals_to_forward     *)
(* agree at every moment on what there is to hand over, for every number   *)
(* of threads and signals and whatever the catchers do.                    *)
THEOREM SignalsListed == Spec => []ListAgrees
<1>1. IndInv => ListAgrees
  BY DEF IndInv, ForwardInv, ListAgrees
<1> QED BY <1>1, Invariant, PTL

(* When a catcher without callback is reached, on any thread of the batch, *)
(* _handle_change leaves the process to the script with that signal in     *)
(* _signal_number: no later report of the batch resumes it or writes over  *)
(* the number.                                                             *)
THEOREM CatcherLeavesStopped == Spec => []CaughtStops
<1>1. IndInv => CaughtStops
  BY DEF IndInv, Shape, Modes, HitInv, CaughtStops
<1> QED BY <1>1, Invariant, PTL

(* Each cont, the one of __threaded_wait too, hands to each thread the     *)
(* signal that it is due and no other.                                     *)
THEOREM HandedOver == Spec => ForwardedExactly
<1> DEFINE Handed == Careful /\ mode' = "running" /\ mode # "running" =>
                         delivered' = [t \in Threads |->
                                          IF due[t] \in signals_to_block THEN NoSig ELSE due[t]]
<1>1. ASSUME IndInv, Next, Careful, mode' = "running", mode # "running"
      PROVE  \E L \in SUBSET scenario.threads : Cont(L)
  BY <1>1 DEF Next, Actions, CatchSignal, Toggle, SetSignalsToBlock, scriptVars, SetSignal, Step,
              StepUntil, Send, Wait, SignalReport, InternalReport, StopReport, Reported
<1>2. ASSUME IndInv, Careful, NEW L, Cont(L)
      PROVE  delivered' = [t \in Threads |->
                              IF due[t] \in signals_to_block THEN NoSig ELSE due[t]]
  <2>1. /\ \A t \in to_forward : signal_number[t] = due[t]
        /\ \A t \in Threads \ to_forward : due[t] = NoSig
    BY <1>2 DEF IndInv, ForwardInv, Cont
  <2>2. delivered' = [t \in Threads |-> IF Forwardable(t) THEN signal_number[t] ELSE NoSig]
    BY <1>2 DEF Cont, ForwardSignal
  <2>3. \A t \in Threads : (IF Forwardable(t) THEN signal_number[t] ELSE NoSig)
                              = (IF due[t] \in signals_to_block THEN NoSig ELSE due[t])
    BY <2>1 DEF Forwardable
  <2> QED BY <2>2, <2>3
<1>3. IndInv /\ [Next]_vars => [Handed]_vars
  BY <1>1, <1>2
<1> QED BY <1>3, Invariant, PTL DEF Spec, ForwardedExactly

(* _manage_caught_signal raises its RuntimeError exactly when the          *)
(* recursive hijacks that a signal meets stay among signals hijacked to    *)
(* one another, for any signals and catchers and in every report.          *)
THEOREM LoopsDetected == Spec => LoopExact
<1> DEFINE Exact == \A t \in Threads : Arrives(t) => (mode' = "error" <=> Endless(sent[t]))
<1>1. ASSUME Shape, CatchersInv, SentInv, Next, NEW t \in Threads, Arrives(t)
      PROVE  mode' = "error" <=> Endless(sent[t])
  <2>1. SignalReport(t)
    <3>1. \E u \in scenario.threads : SignalReport(u)
      BY <1>1 DEF Next, Actions, Arrives, CatchSignal, Toggle, SetSignalsToBlock, scriptVars, SetSignal,
                  Step, StepUntil, Send, Wait, Cont, InternalReport, StopReport, Reported
    <3>2. PICK u \in scenario.threads : SignalReport(u)
      BY <3>1
    <3>3. sent' = [sent EXCEPT ![u] = NoSig]
      BY <3>2 DEF SignalReport
    <3>4. u = t
      BY <1>1, <3>3 DEF Arrives, SentInv
    <3> QED BY <3>2, <3>4
  <2>2. sent[t] \in Genuine
    BY <1>1 DEF Arrives, SentInv
  <2>3. HandleSignal(sent[t]).loop <=> Endless(sent[t])
    BY <1>1, <2>2, HandleSignalIs
  <2>4. /\ HandleSignal(sent[t]).loop => mode' = "error"
        /\ ~HandleSignal(sent[t]).loop => mode' \in {mode, "resuming", "stopped"}
    BY <2>1 DEF SignalReport, Reported
  <2>5. mode # "error"
    BY <1>1 DEF Arrives
  <2> QED BY <2>3, <2>4, <2>5
<1>2. IndInv => Shape
  BY DEF IndInv
<1>3. Shape /\ CatchersInv /\ SentInv /\ [Next]_vars => [Exact]_vars
  BY <1>1
<1> QED BY <1>2, <1>3, Invariant, Chains, PTL DEF Spec, LoopExact

================================================================================
