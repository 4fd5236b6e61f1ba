------------------------- MODULE SyscallHandlingProofs -------------------------
(***************************************************************************)
(* For any syscalls and any threads, and whatever handlers the script      *)
(* sets, hijacks, toggles and prints: at which phase of a syscall a        *)
(* callback runs, which callbacks run, when the chain of hijacks is an     *)
(* error, and when the process is left to the script.                      *)
(***************************************************************************)
EXTENDS SyscallHandling, Integers, TLAPS, FiniteSetTheorems, WellFoundedInduction, NaturalsInduction

-------------------------------------------------------------------------------
(* The recursion over hijacked syscalls comes to an end. *)

(* Every set of numbers that is not empty has a least one. *)
LEMMA Smallest ==
    ASSUME NEW S, S \subseteq Nat, S # {}
    PROVE  \E n \in S : \A k \in S : n <= k
<1> DEFINE R == OpToRel(<, Nat)
<1>1. IsWellFoundedOn(R, Nat)
  BY NatLessThanWellFounded
<1>2. \A k, n \in Nat : k < n => <<k, n>> \in R
  BY DEF OpToRel
<1> HIDE DEF R
<1>3. PICK n \in S : \A k \in S : ~(<<k, n>> \in R)
  BY <1>1, WFMin, Zenon
<1>4. \A k \in S : n <= k
  <2> SUFFICES ASSUME NEW k \in S PROVE n <= k
    OBVIOUS
  <2>1. k \in Nat /\ n \in Nat
    OBVIOUS
  <2>2. k < n => <<k, n>> \in R
    BY <1>2, <2>1
  <2> QED BY <1>3, <2>1, <2>2
<1> QED BY <1>4

(* How many syscalls are not hijacked yet. *)
Left(S) == Cardinality(Syscalls \ S)
Places == Syscalls \X SUBSET Syscalls

(* One more hijacked syscall leaves one less to go to. *)
LEMMA LeftLess ==
    ASSUME NEW S \in SUBSET Syscalls
    PROVE  /\ Left(S) \in Nat
           /\ \A m \in Syscalls \ S : Left(S \cup {m}) < Left(S)
<1>1. \A T \in SUBSET Syscalls : Left(T) \in Nat /\ IsFiniteSet(Syscalls \ T)
  BY SyscallsAssumption, FS_Difference, FS_CardinalityType DEF Left
<1>2. ASSUME NEW m \in Syscalls \ S
      PROVE  Left(S \cup {m}) < Left(S)
  <2>1. (Syscalls \ S) \ {m} = Syscalls \ (S \cup {m})
    OBVIOUS
  <2>2. IsFiniteSet(Syscalls \ S) /\ m \in Syscalls \ S
    BY <1>1
  <2>3. Cardinality((Syscalls \ S) \ {m}) = Cardinality(Syscalls \ S) - 1
    BY <2>2, FS_RemoveElement
  <2>4. Left(S \cup {m}) = Left(S) - 1
    BY <2>1, <2>3 DEF Left
  <2>5. Left(S) \in Nat
    BY <1>1
  <2> QED BY <2>4, <2>5
<1> QED BY <1>1, <1>2

(* What holds at a place when it holds at all the places that the          *)
(* recursion reaches from there holds everywhere.                          *)
LEMMA PlaceInduction ==
    ASSUME NEW P \in SUBSET Places,
           \A n \in Syscalls, S \in SUBSET Syscalls :
               (\A m \in Syscalls \ S : <<m, S \cup {m}>> \in P) => <<n, S>> \in P
    PROVE  P = Places
<1> DEFINE Bad == {Left(p[2]) : p \in Places \ P}
<1>1. \A p \in Places : p[1] \in Syscalls /\ p[2] \in SUBSET Syscalls /\ p = <<p[1], p[2]>>
  BY DEF Places
<1>2. Bad \subseteq Nat
  BY <1>1, LeftLess
<1>3. ASSUME Bad # {} PROVE FALSE
  <2>1. PICK k \in Bad : \A i \in Bad : k <= i
    BY <1>2, <1>3, Smallest
  <2>2. PICK p \in Places \ P : k = Left(p[2])
    BY <2>1
  <2>3. ASSUME NEW m \in Syscalls \ p[2]
        PROVE  <<m, p[2] \cup {m}>> \in P
    <3>1. <<m, p[2] \cup {m}>> \in Places
      BY <1>1, <2>2 DEF Places
    <3>2. Left(p[2] \cup {m}) < k /\ k \in Nat /\ Left(p[2] \cup {m}) \in Nat
      BY <1>1, <2>2, LeftLess
    <3>3. Left(p[2] \cup {m}) \notin Bad
      <4> HIDE DEF Bad
      <4> QED BY <2>1, <3>2
    <3>4. \A q \in Places \ P : Left(q[2]) \in Bad
      OBVIOUS
    <3>5. <<m, p[2] \cup {m}>>[2] = p[2] \cup {m}
      OBVIOUS
    <3> HIDE DEF Bad
    <3> QED BY <3>1, <3>3, <3>4, <3>5
  <2> QED BY <1>1, <2>2, <2>3
<1>4. \A p \in Places \ P : Left(p[2]) \in Bad
  OBVIOUS
<1> HIDE DEF Bad
<1>5. Places \ P = {}
  BY <1>3, <1>4
<1> QED BY <1>5

(* A step of the recursion looks only at the places behind it. *)
LEMMA OnEnterLocal ==
    ASSUME NEW f, NEW g, NEW n, NEW S,
           DOMAIN handled_syscalls \subseteq Syscalls,
           \A m \in Syscalls \ S : f[<<m, S \cup {m}>>] = g[<<m, S \cup {m}>>]
    PROVE  OnEnter(f, n, S) = OnEnter(g, n, S)
<1> DEFINE m == handled_syscalls[n].on_enter
<1>1. CASE Handled(m) /\ m \notin S
  <2>1. m \in Syscalls \ S
    BY <1>1 DEF Handled
  <2>2. f[<<m, S \cup {m}>>] = g[<<m, S \cup {m}>>]
    BY <2>1
  <2> QED BY <2>2 DEF OnEnter
<1>2. CASE ~Handled(m) \/ m \in S
  BY <1>2, Zenon DEF OnEnter
<1> QED BY <1>1, <1>2

Below(k) == {p \in Places : Left(p[2]) <= k}
Solves(f, k) == \A p \in Below(k) : f[p] = OnEnter(f, p[1], p[2])

(* One more step of depth. *)
LEMMA Deeper ==
    ASSUME DOMAIN handled_syscalls \subseteq Syscalls,
           NEW k \in Nat, NEW f, k # 0 => Solves(f, k - 1)
    PROVE  \E g : g = [p \in Below(k) |-> OnEnter(g, p[1], p[2])]
<1> DEFINE g == [p \in Below(k) |-> OnEnter(f, p[1], p[2])]
<1>1. ASSUME NEW p \in Below(k)
      PROVE  OnEnter(f, p[1], p[2]) = OnEnter(g, p[1], p[2])
  <2>1. p[1] \in Syscalls /\ p[2] \in SUBSET Syscalls /\ Left(p[2]) <= k
    BY DEF Below, Places
  <2>2. ASSUME NEW m \in Syscalls \ p[2]
        PROVE  f[<<m, p[2] \cup {m}>>] = g[<<m, p[2] \cup {m}>>]
    <3> DEFINE q == <<m, p[2] \cup {m}>>
    <3>1. q \in Places /\ q[2] = p[2] \cup {m}
      BY <2>1 DEF Places
    <3>2. Left(q[2]) < Left(p[2]) /\ Left(q[2]) \in Nat /\ Left(p[2]) \in Nat
      BY <2>1, <3>1, LeftLess
    <3>3. k # 0 /\ Left(q[2]) <= k - 1 /\ Left(q[2]) <= k
      BY <2>1, <3>2
    <3>4. q \in Below(k - 1) /\ q \in Below(k)
      BY <3>1, <3>3 DEF Below
    <3> HIDE DEF q
    <3>5. f[q] = OnEnter(f, q[1], q[2])
      BY <3>3, <3>4 DEF Solves
    <3> QED BY <3>4, <3>5 DEF q
  <2> HIDE DEF g
  <2> QED BY <2>2, OnEnterLocal
<1>2. g = [p \in Below(k) |-> OnEnter(g, p[1], p[2])]
  BY <1>1, Zenon
<1> QED BY <1>2

(* The recursion has a solution at every depth. *)
LEMMA Recursion ==
    ASSUME DOMAIN handled_syscalls \subseteq Syscalls, NEW k \in Nat
    PROVE  \E f : f = [p \in Below(k) |-> OnEnter(f, p[1], p[2])]
<1> DEFINE Bad == {i \in Nat : ~ \E f : f = [p \in Below(i) |-> OnEnter(f, p[1], p[2])]}
<1>1. ASSUME Bad # {} PROVE FALSE
  <2>1. PICK i \in Bad : \A j \in Bad : i <= j
    BY <1>1, Smallest
  <2>2. i = 0 \/ i - 1 \in Nat \ Bad
    <3> HIDE DEF Bad
    <3>1. i \in Nat
      BY DEF Bad
    <3> QED BY <2>1, <3>1
  <2>3. ASSUME NEW f, i # 0 => Solves(f, i - 1)
        PROVE  FALSE
    BY <2>1, <2>3, Deeper
  <2>4. i = 0
    <3>1. ASSUME i # 0 PROVE FALSE
      <4>1. PICK f : f = [p \in Below(i - 1) |-> OnEnter(f, p[1], p[2])]
        BY <2>2, <3>1
      <4>2. Solves(f, i - 1)
        BY <4>1, Zenon DEF Solves
      <4> QED BY <2>3, <4>2
    <3> QED BY <3>1
  <2> QED BY <2>3, <2>4
<1> QED BY <1>1

(* _manage_syscall_on_enter returns: its recursion has a solution. *)
LEMMA ManageIs ==
    ASSUME DOMAIN handled_syscalls \subseteq Syscalls
    PROVE  \E f : /\ \A n \in Syscalls, S \in SUBSET Syscalls : f[<<n, S>>] = OnEnter(f, n, S)
                  /\ \A n \in Syscalls : ManageOnEnter(n) = f[<<n, {n}>>]
<1> DEFINE f == CHOOSE manage : manage = [p \in Syscalls \X SUBSET Syscalls |-> OnEnter(manage, p[1], p[2])]
<1>1. Below(Left({})) = Syscalls \X SUBSET Syscalls
  <2>1. ASSUME NEW S \in SUBSET Syscalls PROVE Left(S) <= Left({})
    <3>1. Syscalls \ S \in SUBSET (Syscalls \ {}) /\ IsFiniteSet(Syscalls \ {})
      BY SyscallsAssumption, FS_Difference
    <3> QED BY <3>1, FS_Subset DEF Left
  <2> QED BY <2>1 DEF Below, Places
<1>2. Left({}) \in Nat
  BY LeftLess
<1>3. \E g : g = [p \in Syscalls \X SUBSET Syscalls |-> OnEnter(g, p[1], p[2])]
  BY <1>1, <1>2, Recursion
<1>4. f = [p \in Syscalls \X SUBSET Syscalls |-> OnEnter(f, p[1], p[2])]
  BY <1>3, Zenon
<1>5. \A n \in Syscalls : ManageOnEnter(n) = f[<<n, {n}>>]
  BY DEF ManageOnEnter, HijackedSet
<1> HIDE DEF f
<1>6. ASSUME NEW n \in Syscalls, NEW S \in SUBSET Syscalls
      PROVE  f[<<n, S>>] = OnEnter(f, n, S)
  <2>1. <<n, S>> \in Syscalls \X SUBSET Syscalls /\ <<n, S>>[1] = n /\ <<n, S>>[2] = S
    OBVIOUS
  <2> DEFINE p == <<n, S>>
  <2>2. p \in Syscalls \X SUBSET Syscalls /\ p[1] = n /\ p[2] = S
    BY <2>1
  <2> HIDE DEF p
  <2>3. f[p] = OnEnter(f, p[1], p[2])
    BY <1>4, <2>2, Zenon
  <2> QED BY <2>2, <2>3 DEF p
<1> QED BY <1>5, <1>6

-------------------------------------------------------------------------------
(* What an entry comes to. *)

Handler == [on_enter : Syscalls \cup {None}, on_exit : BOOLEAN, pprint : BOOLEAN,
            recursive : BOOLEAN, enabled : BOOLEAN, has_entered : BOOLEAN, skip_exit : BOOLEAN]
Handlers(H) == DOMAIN H \subseteq Syscalls /\ H \in [DOMAIN H -> Handler]
Entry == [num : Syscalls, called : Seq(Syscalls), entered : SUBSET Syscalls,
          skip : SUBSET Syscalls, stop : BOOLEAN, loop : BOOLEAN]

(* The handler of the syscall at the end notes the entry, and skips the    *)
(* exit if a hijack that is not recursive led there.                       *)
LastDiverts(called, num) ==
    /\ called # << >> /\ Handled(num)
    /\ called[Len(called)] # num /\ ~handled_syscalls[called[Len(called)]].recursive
Noted(r) ==
    /\ r.entered \subseteq {r.num} /\ r.skip \subseteq r.entered
    /\ ~r.loop => /\ Handled(r.num) /\ MarksEntered(handled_syscalls[r.num]) => r.num \in r.entered
                  /\ r.num \in r.skip <=> LastDiverts(r.called, r.num)

(* The first callback is that of n, and the others are of syscalls that    *)
(* have not been hijacked yet, each once.                                  *)
Once(called, n, S) ==
    /\ called # << >> => called[1] = n
    /\ \A i \in DOMAIN called : i # 1 => called[i] \notin S
    /\ \A i, j \in DOMAIN called : called[i] = called[j] => i = j

(* What the handler of n alone decides. *)
Decided(r, n) ==
    LET h == handled_syscalls[n]
    IN  /\ h.enabled /\ h.on_enter # None => r.called # << >>
        /\ h.enabled /\ WithoutCallback(h) => r.stop /\ ~r.loop
        /\ ~h.enabled => /\ r.num = n /\ r.called = << >> /\ ~r.loop /\ ~r.stop /\ r.skip = {}
                         /\ ~MarksEntered(h) => r.entered = {}

EntryIs(r, n, S) == r \in Entry /\ Noted(r) /\ Once(r.called, n, S) /\ Decided(r, n)

(* The ways to go on from n. *)
LEMMA HandlerIs ==
    ASSUME Handlers(handled_syscalls), NEW n, Handled(n)
    PROVE  /\ n \in Syscalls /\ handled_syscalls[n] \in Handler
           /\ handled_syscalls[n].on_enter \in Syscalls \cup {None}
BY DEF Handlers, Handled, Handler

(* Calls of at most one callback repeat nothing. *)
LEMMA ShortCalls ==
    ASSUME NEW n \in Syscalls, NEW S, n \in S
    PROVE  /\ << >> \in Seq(Syscalls) /\ <<n>> \in Seq(Syscalls) /\ <<n>> # << >>
           /\ Once(<< >>, n, S) /\ Once(<<n>>, n, S)
           /\ Len(<<n>>) = 1 /\ <<n>>[1] = n
BY DEF Once

(* No callback runs. *)
LEMMA StayIs ==
    ASSUME Handlers(handled_syscalls), NEW f, NEW n, NEW S, n \in S, Handled(n),
           ~handled_syscalls[n].enabled \/ handled_syscalls[n].on_enter = None
    PROVE  EntryIs(OnEnter(f, n, S), n, S)
<1> DEFINE h == handled_syscalls[n]
           E == IF MarksEntered(h) THEN {n} ELSE {}
           stop == WithoutCallback(h) /\ h.enabled
           r == OnEnter(f, n, S)
<1>1. r = Outcome(n, << >>, E, {}, stop, FALSE)
  BY Zenon DEF OnEnter
<1>2. n \in Syscalls /\ h.enabled \in BOOLEAN
  BY HandlerIs DEF Handler
<1>3. stop \in BOOLEAN /\ E \in SUBSET Syscalls /\ E \subseteq {n}
  BY <1>2
<1> HIDE DEF E, stop
<1>4. /\ r.num = n /\ r.called = << >> /\ r.entered = E /\ r.skip = {} /\ r.stop = stop
      /\ r.loop = FALSE
      /\ r \in [num : {n}, called : {<< >>}, entered : {E}, skip : {{}}, stop : {stop}, loop : {FALSE}]
  BY <1>1 DEF Outcome
<1> HIDE DEF r
<1>5. r \in Entry
  BY <1>2, <1>3, <1>4, ShortCalls DEF Entry
<1>6. Noted(r)
  BY <1>3, <1>4 DEF Noted, LastDiverts, E
<1>7. Once(r.called, n, S)
  BY <1>2, <1>4, ShortCalls
<1>8. Decided(r, n)
  BY <1>4 DEF Decided, stop, E, WithoutCallback
<1> QED BY <1>5, <1>6, <1>7, <1>8 DEF EntryIs, r

(* A callback runs, and the chain ends with it. *)
LEMMA HijackIs ==
    ASSUME Handlers(handled_syscalls), NEW f, NEW n, NEW S, n \in S, Handled(n),
           handled_syscalls[n].enabled, handled_syscalls[n].on_enter # None,
           LET m == handled_syscalls[n].on_enter
           IN  m = n \/ ~Handled(m) \/ ~handled_syscalls[n].recursive \/ m \in S
    PROVE  EntryIs(OnEnter(f, n, S), n, S)
<1> DEFINE h == handled_syscalls[n]
           m == h.on_enter
           r == OnEnter(f, n, S)
<1>1. n \in Syscalls /\ m \in Syscalls /\ h.recursive \in BOOLEAN
  BY HandlerIs DEF Handler
<1>2. \/ m = n /\ r = Outcome(n, <<n>>, {n}, {}, FALSE, FALSE)
      \/ m # n /\ ~Handled(m) /\ r = Outcome(m, <<n>>, {}, {}, FALSE, FALSE)
      \/ m # n /\ Handled(m) /\ ~h.recursive /\ r = Outcome(m, <<n>>, {m}, {m}, FALSE, FALSE)
      \/ m # n /\ Handled(m) /\ h.recursive /\ r = Outcome(m, <<n>>, {}, {}, FALSE, TRUE)
  BY Zenon DEF OnEnter, RunsHandlerOfNew
<1> DEFINE Is(E, K, loop) ==
        /\ r.num = m /\ r.called = <<n>> /\ r.entered = E /\ r.skip = K /\ r.stop = FALSE
        /\ r.loop = loop
        /\ r \in [num : {m}, called : {<<n>>}, entered : {E}, skip : {K}, stop : {FALSE}, loop : {loop}]
<1>3. \/ m = n /\ Is({n}, {}, FALSE)
      \/ m # n /\ ~Handled(m) /\ Is({}, {}, FALSE)
      \/ m # n /\ Handled(m) /\ ~h.recursive /\ Is({m}, {m}, FALSE)
      \/ m # n /\ Handled(m) /\ h.recursive /\ Is({}, {}, TRUE)
  <2>1. ASSUME NEW k, NEW E, NEW K, NEW loop, k = m, r = Outcome(k, <<n>>, E, K, FALSE, loop)
        PROVE  Is(E, K, loop)
    <3> HIDE DEF r, m
    <3> QED BY <2>1 DEF Outcome
  <2> HIDE DEF r, m, h, Is
  <2> QED BY <1>2, <2>1
<1>4. ~WithoutCallback(h) /\ h.enabled
  BY DEF WithoutCallback
<1> HIDE DEF r, h, m
<1>5. r \in Entry
  BY <1>1, <1>3, ShortCalls DEF Entry
<1>6. r.called = <<n>> /\ <<n>> # << >>
  BY <1>3
<1>7. LastDiverts(<<n>>, m) <=> Handled(m) /\ n # m /\ ~h.recursive
  BY <1>1, ShortCalls DEF LastDiverts, h
<1>8. Noted(r)
  BY <1>3, <1>7 DEF Noted
<1>9. Once(r.called, n, S)
  BY <1>1, <1>6, ShortCalls
<1>10. Decided(r, n)
  BY <1>4, <1>6 DEF Decided, h
<1> QED BY <1>5, <1>8, <1>9, <1>10 DEF EntryIs, r

(* A recursive hijack to m puts the callback of n before those of the rest. *)
LEMMA ConsOnce ==
    ASSUME NEW n \in Syscalls, NEW m, NEW S, n \in S, m \notin S,
           NEW c \in Seq(Syscalls), Once(c, m, S \cup {m})
    PROVE  LET d == <<n>> \o c
           IN  /\ d \in Seq(Syscalls) /\ d # << >> /\ Once(d, n, S)
               /\ Len(d) = Len(c) + 1
               /\ d[Len(d)] = IF c = << >> THEN n ELSE c[Len(c)]
<1> DEFINE d == <<n>> \o c
<1>1. d \in Seq(Syscalls) /\ Len(d) = Len(c) + 1 /\ Len(c) \in Nat
  OBVIOUS
<1>2. d[1] = n /\ \A i \in 1..Len(c) : d[i + 1] = c[i]
  OBVIOUS
<1>3. d # << >>
  BY <1>1
<1>4. c = << >> <=> Len(c) = 0
  OBVIOUS
<1>5. DOMAIN d = 1..(Len(c) + 1) /\ DOMAIN c = 1..Len(c)
  BY <1>1
<1> HIDE DEF d
<1>6. \A i \in DOMAIN d : i # 1 => i - 1 \in DOMAIN c /\ d[i] = c[i - 1]
  BY <1>1, <1>2, <1>5
<1>7. \A i \in DOMAIN c : c[i] \notin S
  <2> SUFFICES ASSUME NEW i \in DOMAIN c PROVE c[i] \notin S
    OBVIOUS
  <2>1. c # << >>
    BY <1>4, <1>5, <1>1
  <2>2. CASE i = 1
    BY <2>1, <2>2 DEF Once
  <2>3. CASE i # 1
    BY <2>3 DEF Once
  <2> QED BY <2>2, <2>3
<1>8. \A i \in DOMAIN d : i # 1 => d[i] \notin S
  BY <1>6, <1>7
<1>9. \A i, j \in DOMAIN d : d[i] = d[j] => i = j
  <2> SUFFICES ASSUME NEW i \in DOMAIN d, NEW j \in DOMAIN d, d[i] = d[j] PROVE i = j
    OBVIOUS
  <2>1. i = 1 <=> j = 1
    BY <1>2, <1>8
  <2>2. CASE i # 1
    <3>1. i - 1 = j - 1
      BY <1>6, <2>1, <2>2 DEF Once
    <3> QED BY <3>1, <1>5, <1>1
  <2> QED BY <2>1, <2>2
<1>10. d[Len(d)] = IF c = << >> THEN n ELSE c[Len(c)]
  BY <1>1, <1>2, <1>4
<1> QED BY <1>1, <1>2, <1>3, <1>8, <1>9, <1>10 DEF Once, d

(* The handler of the new syscall runs as well. *)
LEMMA RecursionIs ==
    ASSUME Handlers(handled_syscalls), NEW f, NEW n, NEW S, n \in S, Handled(n),
           NEW m, m = handled_syscalls[n].on_enter, m # n, m \notin S, Handled(m),
           handled_syscalls[n].enabled, handled_syscalls[n].recursive,
           EntryIs(f[<<m, S \cup {m}>>], m, S \cup {m})
    PROVE  EntryIs(OnEnter(f, n, S), n, S)
<1> DEFINE h == handled_syscalls[n]
           rest == f[<<m, S \cup {m}>>]
           r == OnEnter(f, n, S)
           d == <<n>> \o rest.called
<1>1. n \in Syscalls /\ m \in Syscalls /\ m # None
  BY HandlerIs, SyscallsAssumption
<1>2. r = [rest EXCEPT !.called = d]
  BY <1>1, Zenon DEF OnEnter, RunsHandlerOfNew
<1>3. rest \in Entry /\ Noted(rest) /\ Once(rest.called, m, S \cup {m})
  BY DEF EntryIs
<1>4. rest.called \in Seq(Syscalls)
  BY <1>3 DEF Entry
<1>5. /\ d \in Seq(Syscalls) /\ d # << >> /\ Once(d, n, S)
      /\ d[Len(d)] = IF rest.called = << >> THEN n ELSE rest.called[Len(rest.called)]
  BY <1>1, <1>3, <1>4, ConsOnce
<1> HIDE DEF d, rest
<1>6. /\ r \in Entry /\ r.called = d /\ r.num = rest.num /\ r.entered = rest.entered
      /\ r.skip = rest.skip /\ r.loop = rest.loop /\ r.stop = rest.stop
  BY <1>2, <1>3, <1>5 DEF Entry
<1> HIDE DEF r
<1>7. LastDiverts(r.called, r.num) <=> LastDiverts(rest.called, rest.num)
  BY <1>5, <1>6 DEF LastDiverts
<1>8. Noted(r)
  BY <1>3, <1>6, <1>7 DEF Noted
<1>9. Once(r.called, n, S)
  BY <1>5, <1>6
<1>10. h.enabled /\ ~WithoutCallback(h)
  BY <1>1 DEF WithoutCallback
<1>11. Decided(r, n)
  BY <1>5, <1>6, <1>10 DEF Decided
<1> QED BY <1>6, <1>8, <1>9, <1>11 DEF EntryIs, r

-------------------------------------------------------------------------------
(* The chain of hijacks is an error exactly when it never ends. *)

Follows(k, C) == Hijacks(k) /\ handled_syscalls[k].on_enter \in C
Closed(C) == \A k \in C : Follows(k, C)

LoopIs(loop, n, S) ==
    /\ loop /\ (\A k \in S \ {n} : Follows(k, S)) => \E C \in SUBSET Syscalls : S \subseteq C /\ Closed(C)
    /\ ~loop => \A C \in SUBSET Syscalls : Closed(C) => n \notin C

(* A chain that ends is no loop. *)
LEMMA EndsLoop ==
    ASSUME NEW f, NEW n, NEW S \in SUBSET Syscalls, n \in S, Handled(n),
           LET m == handled_syscalls[n].on_enter
           IN  ~handled_syscalls[n].enabled \/ m = None \/ m = n \/ ~Handled(m) \/ ~handled_syscalls[n].recursive
    PROVE  LoopIs(OnEnter(f, n, S).loop, n, S)
<1> DEFINE m == handled_syscalls[n].on_enter
           r == OnEnter(f, n, S)
<1>1. \E k, c, E, K, stop : r = Outcome(k, c, E, K, stop, FALSE)
  BY Zenon DEF OnEnter, RunsHandlerOfNew
<1>2. r.loop = FALSE
  <2> HIDE DEF r
  <2> QED BY <1>1 DEF Outcome
<1>3. ~Hijacks(n)
  BY DEF Hijacks
<1> HIDE DEF r
<1>4. LoopIs(r.loop, n, S)
  BY <1>2, <1>3 DEF LoopIs, Closed, Follows
<1> QED BY <1>4 DEF r

(* A chain that meets a syscall again closes a loop. *)
LEMMA MeetsLoop ==
    ASSUME Handlers(handled_syscalls), NEW f, NEW n, NEW S \in SUBSET Syscalls, n \in S, Handled(n), Hijacks(n),
           handled_syscalls[n].on_enter \in S
    PROVE  LoopIs(OnEnter(f, n, S).loop, n, S)
<1> DEFINE m == handled_syscalls[n].on_enter
           r == OnEnter(f, n, S)
<1>1. r = Outcome(m, <<n>>, {}, {}, FALSE, TRUE)
  BY Zenon DEF OnEnter, RunsHandlerOfNew, Hijacks
<1>2. r.loop = TRUE
  <2> HIDE DEF r
  <2> QED BY <1>1 DEF Outcome
<1>3. Follows(n, S)
  BY DEF Follows
<1> HIDE DEF r
<1>4. ASSUME \A k \in S \ {n} : Follows(k, S)
      PROVE  \E C \in SUBSET Syscalls : S \subseteq C /\ Closed(C)
  BY <1>3, <1>4 DEF Closed
<1>5. LoopIs(r.loop, n, S)
  BY <1>2, <1>4 DEF LoopIs
<1> QED BY <1>5 DEF r

(* A chain that goes on is a loop if the rest of it is. *)
LEMMA GoesOnLoop ==
    ASSUME Handlers(handled_syscalls), NEW f, NEW n, NEW S \in SUBSET Syscalls, n \in S, Handled(n), Hijacks(n),
           NEW m, m = handled_syscalls[n].on_enter, m \notin S,
           f[<<m, S \cup {m}>>] \in Entry, LoopIs(f[<<m, S \cup {m}>>].loop, m, S \cup {m})
    PROVE  LoopIs(OnEnter(f, n, S).loop, n, S)
<1> DEFINE rest == f[<<m, S \cup {m}>>]
           d == <<n>> \o rest.called
           r == OnEnter(f, n, S)
<1>1. r = [rest EXCEPT !.called = d]
  BY Zenon DEF OnEnter, RunsHandlerOfNew, Hijacks
<1> HIDE DEF d, r, rest
<1>2. r.loop = rest.loop /\ rest.loop \in BOOLEAN
  BY <1>1 DEF Entry, rest
<1>3. LoopIs(rest.loop, m, S \cup {m})
  BY DEF rest
<1>4. ASSUME rest.loop, \A k \in S \ {n} : Follows(k, S)
      PROVE  \E C \in SUBSET Syscalls : S \subseteq C /\ Closed(C)
  <2>1. \A k \in (S \cup {m}) \ {m} : Follows(k, S \cup {m})
    BY <1>4 DEF Follows
  <2> QED BY <1>3, <1>4, <2>1 DEF LoopIs
<1>5. ASSUME ~rest.loop, NEW C \in SUBSET Syscalls, Closed(C)
      PROVE  n \notin C
  BY <1>3, <1>5 DEF LoopIs, Closed, Follows
<1>6. LoopIs(r.loop, n, S)
  BY <1>2, <1>4, <1>5 DEF LoopIs
<1> QED BY <1>6 DEF r

(* What _manage_syscall_on_enter comes to, however long the chain. *)
LEMMA ManageOnEnterIs ==
    ASSUME Handlers(handled_syscalls), NEW n, Handled(n)
    PROVE  EntryIs(ManageOnEnter(n), n, {n}) /\ (ManageOnEnter(n).loop <=> Endless(n))
<1>1. PICK f : /\ \A k \in Syscalls, S \in SUBSET Syscalls : f[<<k, S>>] = OnEnter(f, k, S)
               /\ \A k \in Syscalls : ManageOnEnter(k) = f[<<k, {k}>>]
  BY ManageIs DEF Handlers
<1> DEFINE Good(p) == EntryIs(f[p], p[1], p[2]) /\ LoopIs(f[p].loop, p[1], p[2])
           P == {p \in Places : p[1] \in p[2] /\ Handled(p[1]) => Good(p)}
<1>2. ASSUME NEW k \in Syscalls, NEW S \in SUBSET Syscalls,
             \A m \in Syscalls \ S : <<m, S \cup {m}>> \in P
      PROVE  <<k, S>> \in P
  <2>1. ASSUME k \in S, Handled(k)
        PROVE  EntryIs(OnEnter(f, k, S), k, S) /\ LoopIs(OnEnter(f, k, S).loop, k, S)
    <3> DEFINE h == handled_syscalls[k]
               m == h.on_enter
    <3>1. CASE ~h.enabled \/ m = None
      BY <2>1, <3>1, StayIs, EndsLoop
    <3>2. CASE h.enabled /\ m # None /\ (m = k \/ ~Handled(m) \/ ~h.recursive)
      BY <2>1, <3>2, HijackIs, EndsLoop
    <3>3. CASE h.enabled /\ m # None /\ m # k /\ Handled(m) /\ h.recursive /\ m \in S
      <4>1. Hijacks(k)
        BY <2>1, <3>3 DEF Hijacks
      <4> QED BY <2>1, <3>3, <4>1, HijackIs, MeetsLoop
    <3>4. CASE h.enabled /\ m # None /\ m # k /\ Handled(m) /\ h.recursive /\ m \notin S
      <4>1. m \in Syscalls \ S
        BY <3>4, HandlerIs
      <4>2. <<m, S \cup {m}>> \in P /\ <<m, S \cup {m}>>[1] = m /\ <<m, S \cup {m}>>[2] = S \cup {m}
        BY <1>2, <4>1
      <4>3. EntryIs(f[<<m, S \cup {m}>>], m, S \cup {m}) /\ LoopIs(f[<<m, S \cup {m}>>].loop, m, S \cup {m})
        BY <3>4, <4>2
      <4>4. Hijacks(k) /\ f[<<m, S \cup {m}>>] \in Entry
        BY <2>1, <3>4, <4>3 DEF Hijacks, EntryIs
      <4>5. EntryIs(OnEnter(f, k, S), k, S)
        BY <2>1, <3>4, <4>3, RecursionIs
      <4>6. LoopIs(OnEnter(f, k, S).loop, k, S)
        BY <2>1, <3>4, <4>3, <4>4, GoesOnLoop
      <4> QED BY <4>5, <4>6
    <3> QED BY <3>1, <3>2, <3>3, <3>4
  <2>2. f[<<k, S>>] = OnEnter(f, k, S)
    BY <1>1
  <2>3. <<k, S>> \in Places /\ <<k, S>>[1] = k /\ <<k, S>>[2] = S
    BY DEF Places
  <2> QED BY <2>1, <2>2, <2>3
<1>3. P = Places
  <2> HIDE DEF P
  <2>1. P \in SUBSET Places
    BY DEF P
  <2> QED BY <1>2, <2>1, PlaceInduction
<1>4. n \in Syscalls
  BY HandlerIs
<1>5. <<n, {n}>> \in P /\ <<n, {n}>>[1] = n /\ <<n, {n}>>[2] = {n}
  BY <1>3, <1>4 DEF Places
<1>6. EntryIs(ManageOnEnter(n), n, {n}) /\ LoopIs(ManageOnEnter(n).loop, n, {n})
  BY <1>1, <1>4, <1>5
<1>7. ManageOnEnter(n).loop \in BOOLEAN
  BY <1>6 DEF EntryIs, Entry
<1>8. Endless(n) <=> \E C \in SUBSET Syscalls : n \in C /\ Closed(C)
  BY Zenon DEF Endless, Closed, Follows
<1>9. ManageOnEnter(n).loop => Endless(n)
  BY <1>6, <1>8 DEF LoopIs
<1>10. ~ManageOnEnter(n).loop => ~Endless(n)
  BY <1>6, <1>8 DEF LoopIs
<1> QED BY <1>6, <1>7, <1>9, <1>10

-------------------------------------------------------------------------------
(* The inductive invariant. *)

Modes == {"stopped", "running", "reporting", "error"}

(* The variables keep their types. *)
TypeOK ==
    /\ uses \subseteq AllUses
    /\ Handlers(handled_syscalls)
    /\ inside \in [Threads -> Syscalls \cup {None}]
    /\ diverted \subseteq Threads /\ alive \subseteq Threads
    /\ mode \in Modes
    /\ head \in Threads /\ pending \subseteq Threads
    /\ resume \in BOOLEAN /\ handle_syscall_enabled \in BOOLEAN

(* The handlers H know which syscalls the threads are in. *)
Busy(in, n) == \E t \in Threads : in[t] = n
Tracked(H, in) ==
    \A n \in DOMAIN H :
        /\ H[n].has_entered => Busy(in, n)
        /\ H[n].skip_exit => H[n].has_entered
        /\ Busy(in, n) /\ MarksEntered(H[n]) => H[n].has_entered

(* An exit is skipped exactly where a thread was diverted to. *)
Skipped(H, in, div) ==
    \A t \in Threads : in[t] \in DOMAIN H => (H[in[t]].skip_exit <=> t \in div)

(* No two threads are in one syscall. *)
Alone(in) == \A t, u \in Threads : in[t] = in[u] /\ in[t] # None => t = u

(* Syscall stops are asked for as long as a thread is in a syscall. *)
Asked(H, in) == (\E t \in Threads : in[t] # None) => Wanted(H)

CarefulInv ==
    Careful =>
        /\ Alone(inside)
        /\ Asked(handled_syscalls, inside)
        /\ mode \in {"running", "reporting"} => (handle_syscall_enabled <=> Wanted(handled_syscalls))
        /\ mode # "error" => /\ Tracked(handled_syscalls, inside)
                             /\ Skipped(handled_syscalls, inside, diverted)

Inv == TypeOK /\ CarefulInv

(* No handlers, and no thread in a syscall. *)
LEMMA InvInit == Init => Inv
<1> SUFFICES ASSUME Init PROVE Inv
  OBVIOUS
<1>1. DOMAIN handled_syscalls = {} /\ Handlers(handled_syscalls)
  BY DEF Init, Handlers
<1>2. inside \in [Threads -> Syscalls \cup {None}] /\ \A t \in Threads : inside[t] = None
  BY DEF Init
<1>3. TypeOK
  BY <1>1, <1>2, SyscallsAssumption DEF Init, TypeOK, Modes
<1>4. CarefulInv
  BY <1>1, <1>2 DEF Init, CarefulInv, Alone, Asked, Tracked, Skipped
<1> QED BY <1>3, <1>4 DEF Inv

-------------------------------------------------------------------------------
(* Steps of the script: they leave alone the handlers of syscalls that a   *)
(* thread is in, and the other handlers have no phase.                     *)

(* What a step of the script has to leave alone. *)
LEMMA CarefulScript ==
    ASSUME Careful, Inv, mode = "stopped", UNCHANGED <<inside, diverted, mode, uses>>,
           \A n \in DOMAIN handled_syscalls : Occupied(n) => n \in DOMAIN handled_syscalls',
           \A n \in DOMAIN handled_syscalls' :
               \/ n \in DOMAIN handled_syscalls /\ handled_syscalls'[n] = handled_syscalls[n]
               \/ ~Occupied(n) /\ ~handled_syscalls'[n].has_entered /\ ~handled_syscalls'[n].skip_exit,
           (\E t \in Threads : inside[t] # None) => Wanted(handled_syscalls')
    PROVE  CarefulInv'
<1> DEFINE H == handled_syscalls
           G == handled_syscalls'
<1>1. Tracked(H, inside) /\ Skipped(H, inside, diverted) /\ Alone(inside)
  BY DEF Inv, CarefulInv
<1>2. \A n : Busy(inside, n) <=> Occupied(n)
  BY DEF Busy, Occupied
<1>3. Tracked(G, inside)
  BY <1>1, <1>2 DEF Tracked
<1>4. Skipped(G, inside, diverted)
  BY <1>1 DEF Skipped, Occupied
<1>5. Asked(G, inside)
  BY DEF Asked
<1> QED BY <1>1, <1>3, <1>4, <1>5 DEF CarefulInv, Careful

(* What a handler that is not busy has noted: nothing. *)
LEMMA NotBusy ==
    ASSUME Careful, Inv, mode = "stopped", NEW n \in DOMAIN handled_syscalls, ~Occupied(n)
    PROVE  ~handled_syscalls[n].has_entered /\ ~handled_syscalls[n].skip_exit
BY DEF Inv, CarefulInv, Tracked, Busy, Occupied

(* A new handler has no phase. *)
LEMMA NewHandlerIs ==
    ASSUME NEW enter \in Syscalls \cup {None}, NEW exit \in BOOLEAN, NEW pp \in BOOLEAN,
           NEW rec \in BOOLEAN, NEW on \in BOOLEAN
    PROVE  LET h == NewHandler(enter, exit, pp, rec, on)
           IN  h \in Handler /\ ~h.has_entered /\ ~h.skip_exit /\ h.enabled = on
BY DEF NewHandler, Handler

(* handle_syscall and hijack_syscall. *)
LEMMA SetCallbacksInv ==
    ASSUME Inv, UNCHANGED uses, NEW n \in Syscalls, ScriptMay(n), ScriptKeeps,
           NEW enter \in Syscalls \cup {None}, NEW exit \in BOOLEAN, NEW rec \in BOOLEAN,
           handled_syscalls' = SetUserCallbacks(n, enter, exit, rec)
    PROVE  Inv'
<1> DEFINE H == handled_syscalls
           old == [H[n] EXCEPT !.on_enter = enter, !.on_exit = exit, !.recursive = rec, !.enabled = TRUE]
           h == IF Handled(n) THEN old ELSE NewHandler(enter, exit, FALSE, rec, TRUE)
<1>1. /\ Handlers(H) /\ TypeOK /\ mode = "stopped"
      /\ UNCHANGED <<inside, diverted, alive, mode, head, pending, resume, handle_syscall_enabled>>
  BY DEF Inv, TypeOK, ScriptMay, ScriptKeeps
<1>2. ASSUME Handled(n)
      PROVE  /\ old \in Handler /\ old.enabled = TRUE /\ old.has_entered = H[n].has_entered
             /\ old.skip_exit = H[n].skip_exit
  <2>1. H[n] \in Handler
    BY <1>1, <1>2, HandlerIs
  <2> QED BY <2>1 DEF Handler
<1>3. ~Handled(n) => h \in Handler /\ h.enabled = TRUE /\ ~h.has_entered /\ ~h.skip_exit
  BY NewHandlerIs
<1>4. h \in Handler /\ h.enabled = TRUE
  BY <1>2, <1>3
<1>5. handled_syscalls' = [m \in DOMAIN H \cup {n} |-> IF m = n THEN h ELSE H[m]]
  BY Zenon DEF SetUserCallbacks, Put
<1> DEFINE G == handled_syscalls'
<1> HIDE DEF old, h
<1>6. /\ DOMAIN G = DOMAIN H \cup {n} /\ G[n] = h
      /\ \A m \in DOMAIN H : m # n => G[m] = H[m]
  BY <1>5
<1>7. Handlers(G)
  BY <1>1, <1>4, <1>5 DEF Handlers
<1>8. TypeOK'
  BY <1>1, <1>7 DEF TypeOK
<1>9. ASSUME Careful PROVE CarefulInv'
  <2>1. ~Occupied(n)
    BY <1>9 DEF ScriptMay, Careful
  <2>2. ~h.has_entered /\ ~h.skip_exit
    <3>1. Handled(n) => ~H[n].has_entered /\ ~H[n].skip_exit
      BY <1>1, <1>9, <2>1, NotBusy DEF Handled
    <3> QED BY <1>2, <1>3, <3>1 DEF h
  <2>3. Wanted(G)
    BY <1>4, <1>6 DEF Wanted
  <2>4. \A m \in DOMAIN H : Occupied(m) => m \in DOMAIN G
    BY <1>6
  <2>5. \A m \in DOMAIN G :
            \/ m \in DOMAIN H /\ G[m] = H[m]
            \/ ~Occupied(m) /\ ~G[m].has_entered /\ ~G[m].skip_exit
    BY <1>6, <2>1, <2>2
  <2> QED BY <1>1, <1>9, <2>3, <2>4, <2>5, CarefulScript
<1>10. CarefulInv'
  BY <1>9 DEF CarefulInv, Careful
<1> QED BY <1>8, <1>10 DEF Inv

(* enable and disable. *)
LEMMA ToggleInv ==
    ASSUME Inv, UNCHANGED uses, NEW n \in Syscalls, NEW on \in BOOLEAN, Toggle(n, on)
    PROVE  Inv'
<1> DEFINE H == handled_syscalls
           h == [H[n] EXCEPT !.enabled = on, !.has_entered = FALSE]
           G == handled_syscalls'
<1>1. /\ Handlers(H) /\ TypeOK /\ mode = "stopped" /\ Handled(n)
      /\ UNCHANGED <<inside, diverted, alive, mode, head, pending, resume, handle_syscall_enabled>>
  BY DEF Inv, TypeOK, Toggle, ScriptKeeps, ScriptMay
<1>2. H[n] \in Handler
  BY <1>1, HandlerIs
<1>3. h \in Handler /\ h.has_entered = FALSE /\ h.skip_exit = H[n].skip_exit
  BY <1>2 DEF Handler
<1>4. G = [H EXCEPT ![n] = h]
  BY Zenon DEF Toggle
<1> HIDE DEF h
<1>5. DOMAIN G = DOMAIN H /\ G[n] = h /\ \A m \in DOMAIN H : m # n => G[m] = H[m]
  BY <1>1, <1>4 DEF Handlers, Handled
<1>6. Handlers(G)
  BY <1>1, <1>3, <1>4 DEF Handlers
<1>7. TypeOK'
  BY <1>1, <1>6 DEF TypeOK
<1>8. ASSUME Careful PROVE CarefulInv'
  <2>1. \A m \in Syscalls : ~Occupied(m)
    BY <1>8 DEF Toggle, ScriptMay, Careful
  <2>2. \A t \in Threads : inside[t] = None
    BY <1>1, <2>1 DEF Occupied, TypeOK
  <2>3. ~H[n].skip_exit
    BY <1>1, <1>8, <2>1, NotBusy DEF Handled
  <2>4. \A m \in DOMAIN G :
            \/ m \in DOMAIN H /\ G[m] = H[m]
            \/ ~Occupied(m) /\ ~G[m].has_entered /\ ~G[m].skip_exit
    BY <1>3, <1>5, <2>1, <2>3
  <2>5. \A m \in DOMAIN H : Occupied(m) => m \in DOMAIN G
    BY <1>5
  <2> QED BY <1>1, <1>8, <2>2, <2>4, <2>5, CarefulScript
<1>9. CarefulInv'
  BY <1>8 DEF CarefulInv, Careful
<1> QED BY <1>7, <1>9 DEF Inv

(* enable_pretty_print and disable_pretty_print. *)
LEMMA PrettyPrintInv ==
    ASSUME Inv, UNCHANGED uses, NEW P \in SUBSET Syscalls, EnablePrettyPrint(P) \/ DisablePrettyPrint
    PROVE  Inv'
<1> DEFINE H == handled_syscalls
           G == handled_syscalls'
<1>1. /\ Handlers(H) /\ TypeOK
      /\ UNCHANGED <<inside, diverted, alive, mode, head, pending, resume, handle_syscall_enabled>>
  BY DEF Inv, TypeOK, EnablePrettyPrint, DisablePrettyPrint, ScriptKeeps, ScriptMay
<1>2. DOMAIN H \subseteq Syscalls /\ \A n \in DOMAIN H : H[n] \in Handler
  BY <1>1 DEF Handlers
<1>3. \A n \in DOMAIN H, on \in BOOLEAN :
          LET h == [H[n] EXCEPT !.pprint = on]
          IN  h \in Handler /\ h.has_entered = H[n].has_entered /\ h.skip_exit = H[n].skip_exit
  BY <1>2 DEF Handler
<1> DEFINE new == NewHandler(None, FALSE, TRUE, FALSE, FALSE)
<1>4. new \in Handler /\ ~new.has_entered /\ ~new.skip_exit
  BY NewHandlerIs
<1> HIDE DEF new
<1>5. /\ DOMAIN G \subseteq Syscalls /\ G = [n \in DOMAIN G |-> G[n]]
      /\ \A n \in DOMAIN G :
            /\ G[n] \in Handler
            /\ \/ n \in DOMAIN H /\ G[n].has_entered = H[n].has_entered /\ G[n].skip_exit = H[n].skip_exit
               \/ ~G[n].has_entered /\ ~G[n].skip_exit
  <2>1. CASE EnablePrettyPrint(P)
    <3> DEFINE printing(n) == [H[n] EXCEPT !.pprint = n \in P]
    <3>1. G = [n \in DOMAIN H \cup P |-> IF Handled(n) THEN printing(n) ELSE new]
      BY <2>1, Zenon DEF EnablePrettyPrint, new
    <3>2. \A n \in DOMAIN H : /\ printing(n) \in Handler /\ printing(n).has_entered = H[n].has_entered
                              /\ printing(n).skip_exit = H[n].skip_exit
      <4> SUFFICES ASSUME NEW n \in DOMAIN H
                   PROVE  /\ printing(n) \in Handler /\ printing(n).has_entered = H[n].has_entered
                          /\ printing(n).skip_exit = H[n].skip_exit
        OBVIOUS
      <4>1. (n \in P) \in BOOLEAN
        OBVIOUS
      <4> QED BY <1>3, <4>1, Zenon
    <3> HIDE DEF printing
    <3> QED BY <1>2, <1>4, <3>1, <3>2 DEF Handled
  <2>2. CASE DisablePrettyPrint
    <3> DEFINE kept == {n \in DOMAIN H : ~(H[n].pprint /\ WithoutCallback(H[n]))}
    <3>1. G = [n \in kept |-> [H[n] EXCEPT !.pprint = FALSE]]
      BY <2>2, Zenon DEF DisablePrettyPrint
    <3>2. kept \subseteq DOMAIN H
      OBVIOUS
    <3> HIDE DEF kept
    <3> QED BY <1>2, <1>3, <3>1, <3>2
  <2> QED BY <2>1, <2>2
<1>6. Handlers(G)
  BY <1>5 DEF Handlers
<1>7. TypeOK'
  BY <1>1, <1>6 DEF TypeOK
<1>8. ASSUME Careful PROVE CarefulInv'
  <2>1. mode = "stopped" \/ Syscalls = {}
    BY DEF EnablePrettyPrint, DisablePrettyPrint, ScriptMay
  <2>2. \A m \in Syscalls : ~Occupied(m)
    BY <1>8 DEF EnablePrettyPrint, DisablePrettyPrint, ScriptMay, Careful
  <2>3. \A t \in Threads : inside[t] = None
    BY <1>1, <2>2 DEF Occupied, TypeOK
  <2>4. CASE mode = "stopped"
    <3>1. \A m \in DOMAIN H : ~H[m].has_entered /\ ~H[m].skip_exit
      BY <1>2, <1>8, <2>2, <2>4, NotBusy
    <3>2. \A m \in DOMAIN G : ~Occupied(m) /\ ~G[m].has_entered /\ ~G[m].skip_exit
      BY <1>5, <2>2, <3>1
    <3>3. \A m \in DOMAIN H : Occupied(m) => m \in DOMAIN G
      BY <1>2, <2>2
    <3> QED BY <1>1, <1>8, <2>3, <2>4, <3>2, <3>3, CarefulScript
  <2>5. CASE Syscalls = {}
    <3>1. DOMAIN G = {} /\ DOMAIN H = {}
      BY <1>2, <1>5, <2>5
    <3>2. Wanted(G) <=> Wanted(H)
      BY <3>1 DEF Wanted
    <3> QED BY <1>1, <1>8, <2>3, <3>1, <3>2 DEF Inv, CarefulInv, Careful, Alone, Asked, Tracked, Skipped
  <2> QED BY <2>1, <2>4, <2>5
<1>9. CarefulInv'
  BY <1>8 DEF CarefulInv, Careful
<1> QED BY <1>7, <1>9 DEF Inv

-------------------------------------------------------------------------------
(* What a syscall stop does to the handlers. *)

(* The handlers G differ from H in their phases only. *)
SameScript(G, H) ==
    /\ DOMAIN G = DOMAIN H
    /\ \A k \in DOMAIN H : /\ G[k].on_enter = H[k].on_enter /\ G[k].on_exit = H[k].on_exit
                           /\ G[k].pprint = H[k].pprint /\ G[k].recursive = H[k].recursive
                           /\ G[k].enabled = H[k].enabled

(* What does not depend on the phase. *)
LEMMA SameScriptIs ==
    ASSUME NEW G, NEW H, SameScript(G, H)
    PROVE  /\ Wanted(G) <=> Wanted(H)
           /\ \A k \in DOMAIN H : /\ WithoutCallback(G[k]) <=> WithoutCallback(H[k])
                                  /\ MarksEntered(G[k]) <=> MarksEntered(H[k])
<1>1. \A k \in DOMAIN H : /\ WithoutCallback(G[k]) <=> WithoutCallback(H[k])
                          /\ MarksEntered(G[k]) <=> MarksEntered(H[k])
  BY DEF SameScript, WithoutCallback, MarksEntered
<1>2. Wanted(G) <=> Wanted(H)
  BY DEF SameScript, Wanted
<1> QED BY <1>1, <1>2

(* The entry: the handlers that noted it, and those that will skip the exit. *)
EnteredAs(G, entered, skip) ==
    /\ Handlers(G) /\ SameScript(G, handled_syscalls)
    /\ \A k \in DOMAIN handled_syscalls :
          /\ G[k].has_entered <=> handled_syscalls[k].has_entered \/ k \in entered
          /\ G[k].skip_exit <=> handled_syscalls[k].skip_exit \/ k \in skip

Mark(h, x, y) == [h EXCEPT !.has_entered = x, !.skip_exit = y]

(* A handler with another phase. *)
LEMMA MarkIs ==
    ASSUME NEW h \in Handler, NEW x \in BOOLEAN, NEW y \in BOOLEAN
    PROVE  LET m == Mark(h, x, y)
           IN  /\ m \in Handler /\ (m.has_entered <=> x) /\ (m.skip_exit <=> y)
               /\ m.on_enter = h.on_enter /\ m.on_exit = h.on_exit /\ m.pprint = h.pprint
               /\ m.recursive = h.recursive /\ m.enabled = h.enabled
BY DEF Handler, Mark

(* What is taken for an entry. *)
LEMMA AsEnterIs ==
    ASSUME Handlers(handled_syscalls), NEW n, Handled(n)
    PROVE  LET r == AsEnter(n)
               e == ManageOnEnter(n)
           IN  /\ r.num = e.num /\ r.stop = e.stop /\ r.loop = e.loop
               /\ r.called = [i \in DOMAIN e.called |-> <<"on_enter", e.called[i]>>]
               /\ EnteredAs(r.after, e.entered, e.skip)
<1> DEFINE H == handled_syscalls
           e == ManageOnEnter(n)
           called == [i \in DOMAIN e.called |-> <<"on_enter", e.called[i]>>]
           mark(k) == [H[k] EXCEPT !.has_entered = @ \/ k \in e.entered, !.skip_exit = @ \/ k \in e.skip]
           after == [k \in DOMAIN H |-> mark(k)]
           r == AsEnter(n)
<1>1. r = [num |-> e.num, stop |-> e.stop, loop |-> e.loop, called |-> called, after |-> after]
  BY Zenon DEF AsEnter
<1>3. ASSUME NEW k \in DOMAIN H
      PROVE  /\ mark(k) \in Handler
             /\ mark(k).has_entered <=> H[k].has_entered \/ k \in e.entered
             /\ mark(k).skip_exit <=> H[k].skip_exit \/ k \in e.skip
             /\ mark(k).on_enter = H[k].on_enter /\ mark(k).on_exit = H[k].on_exit
             /\ mark(k).pprint = H[k].pprint /\ mark(k).recursive = H[k].recursive
             /\ mark(k).enabled = H[k].enabled
  <2> DEFINE x == H[k].has_entered \/ k \in e.entered
             y == H[k].skip_exit \/ k \in e.skip
  <2>1. x \in BOOLEAN /\ y \in BOOLEAN
    OBVIOUS
  <2>2. mark(k) = Mark(H[k], x, y)
    BY DEF Mark
  <2> HIDE DEF x, y, mark
  <2>3. H[k] \in Handler
    BY DEF Handlers
  <2>4. /\ mark(k) \in Handler /\ (mark(k).has_entered <=> x) /\ (mark(k).skip_exit <=> y)
        /\ mark(k).on_enter = H[k].on_enter /\ mark(k).on_exit = H[k].on_exit
        /\ mark(k).pprint = H[k].pprint /\ mark(k).recursive = H[k].recursive
        /\ mark(k).enabled = H[k].enabled
    BY <2>1, <2>2, <2>3, MarkIs
  <2>5. (mark(k).has_entered <=> H[k].has_entered \/ k \in e.entered)
        /\ (mark(k).skip_exit <=> H[k].skip_exit \/ k \in e.skip)
    BY <2>4, Zenon DEF x, y
  <2> QED BY <2>4, <2>5
<1> HIDE DEF mark, e
<1>4. DOMAIN after = DOMAIN H /\ \A k \in DOMAIN H : after[k] = mark(k)
  OBVIOUS
<1>5. Handlers(after)
  BY <1>3 DEF Handlers
<1> HIDE DEF after
<1>6. EnteredAs(after, e.entered, e.skip)
  BY <1>3, <1>4, <1>5 DEF EnteredAs, SameScript
<1> HIDE DEF called, r
<1>7. r.num = e.num /\ r.stop = e.stop /\ r.loop = e.loop /\ r.called = called /\ r.after = after
  BY <1>1
<1> QED BY <1>6, <1>7 DEF e, r, called

(* The exit. *)
LeftAs(G, n) ==
    /\ Handlers(G) /\ SameScript(G, handled_syscalls)
    /\ ~G[n].has_entered /\ ~G[n].skip_exit
    /\ \A k \in DOMAIN handled_syscalls : k # n => G[k] = handled_syscalls[k]

(* What is taken for an exit. *)
LEMMA AsExitIs ==
    ASSUME Handlers(handled_syscalls), NEW n, Handled(n)
    PROVE  LET h == handled_syscalls[n]
               r == AsExit(n)
           IN  /\ r.num = n /\ r.loop = FALSE /\ (r.stop <=> WithoutCallback(h) /\ h.enabled)
               /\ r.called = IF h.on_exit /\ h.enabled /\ ~h.skip_exit THEN <<<<"on_exit", n>>>> ELSE << >>
               /\ LeftAs(r.after, n)
<1> DEFINE H == handled_syscalls
           h == H[n]
           r == AsExit(n)
           stop == WithoutCallback(h) /\ h.enabled
           called == IF h.on_exit /\ h.enabled /\ ~h.skip_exit THEN <<<<"on_exit", n>>>> ELSE << >>
           g == [h EXCEPT !.has_entered = FALSE, !.skip_exit = FALSE]
           after == [H EXCEPT ![n] = g]
<1>1. r = [num |-> n, stop |-> stop, loop |-> FALSE, called |-> called, after |-> after]
  BY Zenon DEF AsExit
<1>2. h \in Handler
  BY HandlerIs
<1>3. /\ g \in Handler /\ ~g.has_entered /\ ~g.skip_exit
      /\ g.on_enter = h.on_enter /\ g.on_exit = h.on_exit /\ g.pprint = h.pprint
      /\ g.recursive = h.recursive /\ g.enabled = h.enabled
  BY <1>2 DEF Handler
<1> HIDE DEF g
<1>4. DOMAIN after = DOMAIN H /\ after[n] = g /\ \A k \in DOMAIN H : k # n => after[k] = H[k]
  BY DEF Handlers, Handled
<1>5. Handlers(after)
  BY <1>3 DEF Handlers
<1> HIDE DEF after
<1>6. LeftAs(after, n)
  BY <1>3, <1>4, <1>5 DEF LeftAs, SameScript
<1> HIDE DEF called, r, stop
<1>7. r.num = n /\ r.stop = stop /\ r.loop = FALSE /\ r.called = called /\ r.after = after
  BY <1>1
<1> QED BY <1>6, <1>7 DEF r, called, stop

(* Both, and a syscall without a handler. *)
LEMMA StopIs ==
    ASSUME Handlers(handled_syscalls), NEW n \in Syscalls
    PROVE  LET r == HandleSyscallStop(n)
           IN  /\ r.num \in Syscalls /\ r.stop \in BOOLEAN /\ r.loop \in BOOLEAN
               /\ Handlers(r.after) /\ SameScript(r.after, handled_syscalls)
               /\ ~Handled(n) => r.num = n /\ r.called = << >> /\ ~r.loop /\ ~r.stop /\ r.after = handled_syscalls
<1> DEFINE r == HandleSyscallStop(n)
<1>1. CASE ~Handled(n)
  <2>1. r = [num |-> n, stop |-> FALSE, loop |-> FALSE, called |-> << >>, after |-> handled_syscalls]
    BY <1>1, Zenon DEF HandleSyscallStop
  <2>2. SameScript(handled_syscalls, handled_syscalls)
    BY DEF SameScript
  <2> HIDE DEF r
  <2>3. /\ r.num = n /\ r.stop = FALSE /\ r.loop = FALSE /\ r.called = << >> /\ r.after = handled_syscalls
    BY <2>1
  <2> QED BY <1>1, <2>2, <2>3 DEF r
<1>2. CASE Handled(n) /\ handled_syscalls[n].has_entered
  <2>1. r = AsExit(n)
    BY <1>2 DEF HandleSyscallStop
  <2>2. /\ r.num = n /\ r.loop = FALSE /\ LeftAs(r.after, n)
        /\ r.stop <=> WithoutCallback(handled_syscalls[n]) /\ handled_syscalls[n].enabled
    BY <1>2, <2>1, AsExitIs
  <2>3. r.stop \in BOOLEAN
    <3>1. r.stop = (WithoutCallback(handled_syscalls[n]) /\ handled_syscalls[n].enabled)
      <4> DEFINE s == WithoutCallback(handled_syscalls[n]) /\ handled_syscalls[n].enabled
      <4>1. \E c, a : r = [num |-> n, stop |-> s, loop |-> FALSE, called |-> c, after |-> a]
        BY <2>1, Zenon DEF AsExit
      <4> HIDE DEF r, s
      <4>2. r.stop = s
        BY <4>1
      <4> QED BY <4>2 DEF s
    <3> QED BY <3>1
  <2> QED BY <1>2, <2>2, <2>3 DEF LeftAs
<1>3. CASE Handled(n) /\ ~handled_syscalls[n].has_entered
  <2>1. r = AsEnter(n)
    BY <1>3 DEF HandleSyscallStop
  <2> DEFINE e == ManageOnEnter(n)
  <2>2. r.num = e.num /\ r.stop = e.stop /\ r.loop = e.loop /\ EnteredAs(r.after, e.entered, e.skip)
    BY <1>3, <2>1, AsEnterIs
  <2>3. e \in Entry
    BY <1>3, ManageOnEnterIs DEF EntryIs
  <2>4. e.num \in Syscalls /\ e.stop \in BOOLEAN /\ e.loop \in BOOLEAN
    BY <2>3 DEF Entry
  <2> QED BY <1>3, <2>2, <2>4 DEF EnteredAs
<1> QED BY <1>1, <1>2, <1>3

-------------------------------------------------------------------------------
(* The report of one thread. *)

(* A reported thread keeps the invariant if its handlers do. *)
LEMMA ReportedInv ==
    ASSUME Inv, mode = "reporting", UNCHANGED <<uses, alive>>, NEW t \in Threads,
           NEW G, Handlers(G), NEW in \in [Threads -> Syscalls \cup {None}], NEW res \in BOOLEAN,
           Reported(t, G, in, res), diverted' \subseteq Threads,
           Careful => /\ Wanted(G) <=> Wanted(handled_syscalls)
                      /\ Alone(in) /\ Asked(G, in)
                      /\ Tracked(G, in) /\ Skipped(G, in, diverted')
    PROVE  Inv'
<1>1. /\ handled_syscalls' = G /\ resume' = res /\ pending' = pending \ {t} /\ head' = head
      /\ \/ inside' = in /\ mode' = mode /\ handle_syscall_enabled' = handle_syscall_enabled
         \/ Resuming(G, in)
         \/ inside' = in /\ mode' = "stopped" /\ handle_syscall_enabled' = handle_syscall_enabled
  BY DEF Reported
<1>2. CASE Resuming(G, in)
  <2>1. mode' = "running" /\ handle_syscall_enabled' = Wanted(G)
    BY <1>2 DEF Resuming
  <2>2. handle_syscall_enabled' \in BOOLEAN
    BY <2>1 DEF Wanted
  <2>3. inside' = IF Wanted(G) THEN in ELSE [u \in Threads |-> None]
    BY <1>2 DEF Resuming
  <2>4. inside' \in [Threads -> Syscalls \cup {None}]
    BY <2>3
  <2>5. TypeOK'
    BY <1>1, <2>1, <2>2, <2>4 DEF Inv, TypeOK, Modes
  <2>6. ASSUME Careful PROVE CarefulInv'
    <3>1. inside' = in
      BY <2>3, <2>6 DEF Asked
    <3>2. handle_syscall_enabled' <=> Wanted(G)
      BY <2>1
    <3> QED BY <1>1, <2>1, <2>6, <3>1, <3>2 DEF CarefulInv
  <2> QED BY <2>5, <2>6 DEF Inv, CarefulInv, Careful
<1>3. CASE inside' = in /\ mode' \in {"reporting", "stopped"} /\ handle_syscall_enabled' = handle_syscall_enabled
  <2>1. TypeOK'
    BY <1>1, <1>3 DEF Inv, TypeOK, Modes
  <2>2. ASSUME Careful PROVE CarefulInv'
    <3>1. handle_syscall_enabled <=> Wanted(G)
      BY <2>2 DEF Inv, CarefulInv
    <3>2. handle_syscall_enabled' <=> Wanted(G)
      BY <1>3, <3>1
    <3> QED BY <1>1, <1>3, <2>2, <3>2 DEF CarefulInv
  <2> QED BY <2>1, <2>2 DEF Inv, CarefulInv, Careful
<1> QED BY <1>1, <1>2, <1>3

(* A syscall that ends with an exception. *)
LEMMA FailedInv ==
    ASSUME Inv, UNCHANGED <<uses, alive>>,
           NEW G, Handlers(G), NEW in \in [Threads -> Syscalls \cup {None}],
           Failed(G, in), diverted' \subseteq Threads,
           Careful => Alone(in) /\ Asked(G, in)
    PROVE  Inv'
<1>1. TypeOK'
  BY DEF Failed, Inv, TypeOK, Modes
<1>2. CarefulInv'
  BY DEF Failed, CarefulInv, Careful
<1> QED BY <1>1, <1>2 DEF Inv

-------------------------------------------------------------------------------
(* The entry of a syscall. *)

(* The callbacks that ran are those of ManageOnEnter. *)
LEMMA CalledIs ==
    ASSUME NEW c \in Seq(Syscalls), NEW d, d = [i \in DOMAIN c |-> <<"on_enter", c[i]>>]
    PROVE  /\ DOMAIN d = DOMAIN c
           /\ \A i \in DOMAIN c : d[i] = <<"on_enter", c[i]>>
           /\ d # << >> <=> c # << >>
           /\ c # << >> => d[1] = <<"on_enter", c[1]>> /\ d[Len(d)][2] = c[Len(c)]
<1>1. DOMAIN d = 1..Len(c) /\ Len(c) \in Nat /\ DOMAIN c = 1..Len(c)
  OBVIOUS
<1>2. d \in Seq({"on_enter"} \X Syscalls) /\ Len(d) = Len(c)
  OBVIOUS
<1>3. \A i \in DOMAIN c : d[i] = <<"on_enter", c[i]>>
  OBVIOUS
<1>4. (d # << >> <=> Len(d) # 0) /\ (c # << >> <=> Len(c) # 0)
  BY <1>2
<1>5. c # << >> => 1 \in DOMAIN c /\ Len(c) \in DOMAIN c
  BY <1>1, <1>4
<1> QED BY <1>1, <1>2, <1>3, <1>4, <1>5

(* Which handlers an entry marks, and where the thread is then. *)
LEMMA EnterCases ==
    ASSUME Handlers(handled_syscalls), NEW n \in Syscalls, Handled(n),
           ~handled_syscalls[n].has_entered
    PROVE  LET r == HandleSyscallStop(n)
               e == ManageOnEnter(n)
           IN  /\ EntryIs(e, n, {n}) /\ (r.loop <=> Endless(n))
               /\ r.num = e.num /\ r.stop = e.stop /\ r.loop = e.loop
               /\ EnteredAs(r.after, e.entered, e.skip)
               /\ Diverts(r) <=> LastDiverts(e.called, e.num)
               /\ DOMAIN r.called = DOMAIN e.called
               /\ \A i \in DOMAIN e.called : r.called[i] = <<"on_enter", e.called[i]>>
               /\ r.called # << >> <=> e.called # << >>
               /\ r.called # << >> => r.called[1] = <<"on_enter", n>>
<1> DEFINE r == HandleSyscallStop(n)
           e == ManageOnEnter(n)
<1>1. r = AsEnter(n)
  BY DEF HandleSyscallStop
<1>2. EntryIs(e, n, {n}) /\ (e.loop <=> Endless(n))
  BY ManageOnEnterIs
<1>3. /\ r.num = e.num /\ r.stop = e.stop /\ r.loop = e.loop
      /\ r.called = [i \in DOMAIN e.called |-> <<"on_enter", e.called[i]>>]
      /\ EnteredAs(r.after, e.entered, e.skip)
  BY <1>1, AsEnterIs
<1> HIDE DEF r, e
<1>4. e.called \in Seq(Syscalls) /\ Once(e.called, n, {n})
  BY <1>2 DEF EntryIs, Entry
<1>5. /\ DOMAIN r.called = DOMAIN e.called
      /\ \A i \in DOMAIN e.called : r.called[i] = <<"on_enter", e.called[i]>>
      /\ r.called # << >> <=> e.called # << >>
      /\ e.called # << >> => /\ r.called[1] = <<"on_enter", e.called[1]>>
                             /\ r.called[Len(r.called)][2] = e.called[Len(e.called)]
  BY <1>3, <1>4, CalledIs
<1>6. r.called # << >> => r.called[1] = <<"on_enter", n>>
  BY <1>4, <1>5 DEF Once
<1>7. Diverts(r) <=> LastDiverts(e.called, e.num)
  BY <1>3, <1>5 DEF Diverts, LastDiverts
<1> QED BY <1>2, <1>3, <1>5, <1>6, <1>7 DEF r, e

(* The thread is in the syscall at the end of the chain, whose handler     *)
(* knows it.                                                               *)
LEMMA EnterTracked ==
    ASSUME Inv, Careful, mode = "reporting", NEW t \in Threads, NEW n \in Syscalls,
           inside[t] = None, ~HandleSyscallStop(n).loop,
           \A u \in Threads \ {t} : inside[u] \notin {n, HandleSyscallStop(n).num},
           NEW in, in = [inside EXCEPT ![t] = HandleSyscallStop(n).num],
           NEW div, div = IF Diverts(HandleSyscallStop(n)) THEN diverted \cup {t} ELSE diverted \ {t}
    PROVE  Tracked(HandleSyscallStop(n).after, in) /\ Skipped(HandleSyscallStop(n).after, in, div)
<1> DEFINE H == handled_syscalls
           r == HandleSyscallStop(n)
           G == r.after
           num == r.num
<1>1. TypeOK /\ Handlers(H) /\ Tracked(H, inside) /\ Skipped(H, inside, diverted)
  BY DEF Inv, TypeOK, CarefulInv
<1>2. num \in Syscalls /\ n # None /\ num # None
  BY <1>1, StopIs, SyscallsAssumption
<1>3. ~Busy(inside, n) /\ ~Busy(inside, num)
  BY <1>2 DEF Busy
<1>4. in[t] = num /\ \A u \in Threads \ {t} : in[u] = inside[u] /\ inside[u] # num
  BY <1>1 DEF TypeOK
<1>5. \A k \in Syscalls : Busy(in, k) <=> Busy(inside, k) \/ k = num
  <2> HIDE DEF num
  <2> QED BY <1>2, <1>4, SyscallsAssumption DEF Busy
<1>6. \A u \in Threads \ {t} : u \in div <=> u \in diverted
  OBVIOUS
<1>7. t \in div <=> Diverts(r)
  OBVIOUS
<1>8. DOMAIN H \subseteq Syscalls
  BY <1>1 DEF Handlers
<1>9. CASE ~Handled(n)
  <2>1. num = n /\ G = H
    BY <1>1, <1>9, StopIs
  <2> HIDE DEF G, num, r
  <2>2. Tracked(G, in)
    BY <1>1, <1>5, <1>8, <1>9, <2>1 DEF Tracked, Handled
  <2>3. Skipped(G, in, div)
    BY <1>1, <1>4, <1>6, <1>9, <2>1 DEF Skipped, Handled
  <2> QED BY <2>2, <2>3 DEF G, r
<1>10. CASE Handled(n)
  <2> DEFINE e == ManageOnEnter(n)
  <2>1. ~H[n].has_entered
    BY <1>1, <1>3, <1>10 DEF Tracked, Handled
  <2>2. /\ EnteredAs(G, e.entered, e.skip) /\ num = e.num
        /\ Diverts(r) <=> LastDiverts(e.called, e.num)
        /\ EntryIs(e, n, {n}) /\ ~e.loop
    BY <1>1, <1>10, <2>1, EnterCases
  <2> HIDE DEF e, G, r, num
  <2>3. /\ e.entered \subseteq {num} /\ e.skip \subseteq e.entered
        /\ Handled(num) /\ MarksEntered(H[num]) => num \in e.entered
        /\ num \in e.skip <=> t \in div
    BY <1>7, <2>2 DEF EntryIs, Noted
  <2>4. DOMAIN G = DOMAIN H /\ \A k \in DOMAIN H : MarksEntered(G[k]) <=> MarksEntered(H[k])
    <3>1. SameScript(G, H)
      BY <2>2 DEF EnteredAs
    <3> QED BY <3>1, SameScriptIs DEF SameScript
  <2>5. \A k \in DOMAIN H : /\ G[k].has_entered <=> H[k].has_entered \/ k \in e.entered
                            /\ G[k].skip_exit <=> H[k].skip_exit \/ k \in e.skip
    BY <2>2 DEF EnteredAs
  <2>6. Tracked(G, in)
    <3> SUFFICES ASSUME NEW k \in DOMAIN H
                 PROVE  /\ G[k].has_entered => Busy(in, k)
                        /\ G[k].skip_exit => G[k].has_entered
                        /\ Busy(in, k) /\ MarksEntered(G[k]) => G[k].has_entered
      BY <2>4 DEF Tracked
    <3>1. /\ H[k].has_entered => Busy(inside, k)
          /\ H[k].skip_exit => H[k].has_entered
          /\ Busy(inside, k) /\ MarksEntered(H[k]) => H[k].has_entered
      BY <1>1 DEF Tracked
    <3> QED BY <3>1, <1>5, <1>8, <2>3, <2>4, <2>5 DEF Handled
  <2>7. Skipped(G, in, div)
    <3> SUFFICES ASSUME NEW u \in Threads, in[u] \in DOMAIN H
                 PROVE  G[in[u]].skip_exit <=> u \in div
      BY <2>4 DEF Skipped
    <3>1. CASE u = t
      <4>1. ~H[num].skip_exit
        BY <1>1, <1>3, <1>4, <3>1 DEF Tracked
      <4> QED BY <1>4, <2>3, <2>5, <3>1, <4>1
    <3>2. CASE u # t
      BY <1>1, <1>4, <1>6, <2>3, <2>5, <3>2 DEF Skipped
    <3> QED BY <3>1, <3>2
  <2> QED BY <2>6, <2>7 DEF G, r
<1> QED BY <1>9, <1>10

(* The entry of a syscall keeps the invariant. *)
LEMMA EnterInv ==
    ASSUME Inv, UNCHANGED uses, NEW t \in Threads, NEW n \in Syscalls, EnterStop(t, n)
    PROVE  Inv'
<1> DEFINE H == handled_syscalls
           r == HandleSyscallStop(n)
           G == r.after
           in == [inside EXCEPT ![t] = r.num]
           div == IF Diverts(r) THEN diverted \cup {t} ELSE diverted \ {t}
<1>1. /\ mode = "reporting" /\ inside[t] = None /\ handle_syscall_enabled
      /\ IF r.loop THEN Failed(G, in) ELSE Reported(t, G, in, resume /\ ~r.stop)
      /\ diverted' = div /\ UNCHANGED alive
      /\ "same" \in uses \/ \A u \in Threads \ {t} : inside[u] \notin {n, r.num}
  BY Zenon DEF EnterStop, MayReport
<1>2. /\ TypeOK /\ Handlers(H) /\ inside \in [Threads -> Syscalls \cup {None}]
      /\ diverted \subseteq Threads
  BY DEF Inv, TypeOK
<1>3. /\ r.num \in Syscalls /\ r.stop \in BOOLEAN /\ r.loop \in BOOLEAN
      /\ Handlers(G) /\ SameScript(G, H)
  BY <1>2, StopIs
<1>4. in \in [Threads -> Syscalls \cup {None}] /\ div \subseteq Threads
  BY <1>2, <1>3
<1>5. Wanted(G) <=> Wanted(H)
  BY <1>3, SameScriptIs
<1>6. ASSUME Careful
      PROVE  Alone(in) /\ Asked(G, in) /\ (~r.loop => Tracked(G, in) /\ Skipped(G, in, div))
  <2>1. \A u \in Threads \ {t} : inside[u] \notin {n, r.num}
    BY <1>1, <1>6 DEF Careful
  <2>2. Wanted(H) /\ Alone(inside)
    BY <1>1, <1>6 DEF Inv, CarefulInv
  <2>3. Asked(G, in)
    BY <1>5, <2>2 DEF Asked
  <2>4. Alone(in)
    <3> HIDE DEF r
    <3> QED BY <1>2, <2>1, <2>2 DEF Alone
  <2>5. ~r.loop => Tracked(G, in) /\ Skipped(G, in, div)
    BY <1>1, <1>6, <2>1, EnterTracked
  <2> QED BY <2>3, <2>4, <2>5
<1> HIDE DEF r, in, div
<1>7. (resume /\ ~r.stop) \in BOOLEAN
  OBVIOUS
<1>8. CASE r.loop
  <2>1. Failed(G, in)
    BY <1>1, <1>8
  <2> QED BY <1>1, <1>3, <1>4, <1>6, <2>1, FailedInv
<1>9. CASE ~r.loop
  <2> DEFINE res == resume /\ ~r.stop
  <2>1. Reported(t, G, in, res)
    BY <1>1, <1>9
  <2>2. res \in BOOLEAN
    BY <1>7
  <2> HIDE DEF res, G
  <2>3. Careful => /\ Wanted(G) <=> Wanted(handled_syscalls)
                   /\ Alone(in) /\ Asked(G, in)
                   /\ Tracked(G, in) /\ Skipped(G, in, diverted')
    BY <1>1, <1>5, <1>6, <1>9
  <2>4. diverted' \subseteq Threads
    BY <1>1, <1>4
  <2>5. Handlers(G)
    BY <1>3
  <2> QED BY <1>1, <1>4, <2>1, <2>2, <2>3, <2>4, <2>5, ReportedInv
<1> QED BY <1>8, <1>9

-------------------------------------------------------------------------------
(* The exit of a syscall. *)

(* A stop of a careful script at which the thread is inside the syscall is *)
(* not taken for an entry, unless the handler has nothing to do.           *)
LEMMA ExitCases ==
    ASSUME Inv, Careful, mode = "reporting", NEW t \in Threads, inside[t] # None,
           Handled(inside[t])
    PROVE  LET n == inside[t]
               h == handled_syscalls[n]
               r == HandleSyscallStop(n)
               G == r.after
           IN  /\ ~r.loop /\ Handlers(G) /\ SameScript(G, handled_syscalls)
               /\ ~G[n].has_entered /\ ~G[n].skip_exit
               /\ \A k \in DOMAIN handled_syscalls : k # n =>
                     /\ G[k].has_entered <=> handled_syscalls[k].has_entered
                     /\ G[k].skip_exit <=> handled_syscalls[k].skip_exit
               /\ r.called = IF h.on_exit /\ h.enabled /\ t \notin diverted THEN <<<<"on_exit", n>>>> ELSE << >>
<1> DEFINE n == inside[t]
           H == handled_syscalls
           h == H[n]
           r == HandleSyscallStop(n)
           G == r.after
<1>1. TypeOK /\ Handlers(H) /\ Tracked(H, inside) /\ Skipped(H, inside, diverted)
  BY DEF Inv, TypeOK, CarefulInv
<1>2. n \in Syscalls
  BY <1>1 DEF TypeOK
<1>3. Busy(inside, n) /\ n \in DOMAIN H
  BY DEF Busy, Handled
<1>4. h.skip_exit <=> t \in diverted
  BY <1>1, <1>3 DEF Skipped
<1>5. (h.skip_exit => h.has_entered) /\ (MarksEntered(h) => h.has_entered)
  BY <1>1, <1>3 DEF Tracked
<1>6. CASE h.has_entered
  <2>1. r = AsExit(n)
    BY <1>6 DEF HandleSyscallStop
  <2>2. /\ r.loop = FALSE /\ LeftAs(G, n)
        /\ r.called = IF h.on_exit /\ h.enabled /\ ~h.skip_exit THEN <<<<"on_exit", n>>>> ELSE << >>
    <3> DEFINE x == AsExit(n)
    <3>1. /\ x.loop = FALSE /\ LeftAs(x.after, n)
          /\ x.called = IF h.on_exit /\ h.enabled /\ ~h.skip_exit THEN <<<<"on_exit", n>>>> ELSE << >>
      BY <1>1, AsExitIs, Zenon
    <3> HIDE DEF x
    <3> QED BY <2>1, <3>1, Zenon DEF x
  <2> HIDE DEF r, G, h, n
  <2> QED BY <1>4, <2>2 DEF LeftAs, h, n, r, G
<1>7. CASE ~h.has_entered
  <2> DEFINE e == ManageOnEnter(n)
  <2>1. /\ EntryIs(e, n, {n}) /\ r.loop = e.loop /\ EnteredAs(G, e.entered, e.skip)
        /\ r.called # << >> <=> e.called # << >>
    BY <1>1, <1>2, <1>7, EnterCases
  <2>2. ~MarksEntered(h) /\ ~h.enabled
    BY <1>5, <1>7 DEF MarksEntered
  <2> HIDE DEF e
  <2>3. e.called = << >> /\ ~e.loop /\ e.skip = {} /\ e.entered = {}
    BY <2>1, <2>2 DEF EntryIs, Decided
  <2>4. ~r.loop /\ r.called = << >>
    BY <2>1, <2>3
  <2>5. Handlers(G) /\ SameScript(G, H) /\ ~G[n].has_entered /\ ~G[n].skip_exit
    BY <1>3, <1>5, <1>7, <2>1, <2>3 DEF EnteredAs
  <2>6. \A k \in DOMAIN H : /\ G[k].has_entered <=> H[k].has_entered
                            /\ G[k].skip_exit <=> H[k].skip_exit
    BY <2>1, <2>3 DEF EnteredAs
  <2> HIDE DEF r, G, h, n
  <2> QED BY <2>2, <2>4, <2>5, <2>6 DEF h, n, r, G
<1> QED BY <1>6, <1>7

(* The handler of the syscall that is left is free again. *)
LEMMA ExitTracked ==
    ASSUME Inv, Careful, mode = "reporting", NEW t \in Threads, inside[t] # None,
           NEW in, in = [inside EXCEPT ![t] = None]
    PROVE  LET r == HandleSyscallStop(inside[t])
           IN  ~r.loop /\ Tracked(r.after, in) /\ Skipped(r.after, in, diverted)
<1> DEFINE n == inside[t]
           H == handled_syscalls
           r == HandleSyscallStop(n)
           G == r.after
<1>1. /\ TypeOK /\ Handlers(H) /\ Tracked(H, inside) /\ Skipped(H, inside, diverted) /\ Alone(inside)
      /\ DOMAIN H \subseteq Syscalls
  BY DEF Inv, TypeOK, CarefulInv, Handlers
<1>2. n \in Syscalls
  BY <1>1 DEF TypeOK
<1>3. in[t] = None /\ \A u \in Threads \ {t} : in[u] = inside[u] /\ in[u] # n
  BY <1>1 DEF TypeOK, Alone
<1>4. \A k \in Syscalls : Busy(in, k) <=> Busy(inside, k) /\ k # n
  BY <1>3, SyscallsAssumption DEF Busy
<1>5. CASE ~Handled(n)
  <2>1. ~r.loop /\ G = H
    BY <1>1, <1>2, <1>5, StopIs
  <2> HIDE DEF G, r
  <2>2. Tracked(G, in)
    <3> HIDE DEF n
    <3> QED BY <1>1, <1>4, <1>5, <2>1 DEF Tracked, Handled
  <2>3. Skipped(G, in, diverted)
    BY <1>1, <1>3, <2>1, SyscallsAssumption DEF Skipped
  <2> QED BY <2>1, <2>2, <2>3 DEF G, r
<1>6. CASE Handled(n)
  <2>1. /\ ~r.loop /\ SameScript(G, H) /\ ~G[n].has_entered /\ ~G[n].skip_exit
        /\ \A k \in DOMAIN H : k # n =>
              /\ G[k].has_entered <=> H[k].has_entered
              /\ G[k].skip_exit <=> H[k].skip_exit
    BY <1>6, ExitCases
  <2>2. DOMAIN G = DOMAIN H /\ \A k \in DOMAIN H : MarksEntered(G[k]) <=> MarksEntered(H[k])
    BY <2>1, SameScriptIs DEF SameScript
  <2> HIDE DEF G, r
  <2>3. Tracked(G, in)
    <3> HIDE DEF n
    <3> SUFFICES ASSUME NEW k \in DOMAIN H
                 PROVE  /\ G[k].has_entered => Busy(in, k)
                        /\ G[k].skip_exit => G[k].has_entered
                        /\ Busy(in, k) /\ MarksEntered(G[k]) => G[k].has_entered
      BY <2>2 DEF Tracked
    <3>1. /\ H[k].has_entered => Busy(inside, k)
          /\ H[k].skip_exit => H[k].has_entered
          /\ Busy(inside, k) /\ MarksEntered(H[k]) => H[k].has_entered
      BY <1>1 DEF Tracked
    <3> QED BY <1>1, <1>4, <2>1, <2>2, <3>1
  <2>4. Skipped(G, in, diverted)
    BY <1>1, <1>3, <2>1, <2>2, SyscallsAssumption DEF Skipped
  <2> QED BY <2>1, <2>3, <2>4 DEF G, r
<1> QED BY <1>5, <1>6

(* The exit of a syscall keeps the invariant. *)
LEMMA ExitInv ==
    ASSUME Inv, UNCHANGED uses, NEW t \in Threads, ExitStop(t)
    PROVE  Inv'
<1> DEFINE n == inside[t]
           H == handled_syscalls
           r == HandleSyscallStop(n)
           G == r.after
           in == [inside EXCEPT ![t] = None]
           res == resume /\ ~r.stop
<1>1. /\ mode = "reporting" /\ n # None
      /\ IF r.loop THEN Failed(G, in) ELSE Reported(t, G, in, res)
      /\ UNCHANGED <<alive, diverted>>
  BY Zenon DEF ExitStop, MayReport
<1>2. /\ TypeOK /\ Handlers(H) /\ inside \in [Threads -> Syscalls \cup {None}]
      /\ diverted \subseteq Threads
  BY DEF Inv, TypeOK
<1>3. n \in Syscalls
  BY <1>1, <1>2
<1>4. /\ r.loop \in BOOLEAN /\ Handlers(G) /\ SameScript(G, H)
  BY <1>2, <1>3, StopIs
<1>5. in \in [Threads -> Syscalls \cup {None}]
  BY <1>2
<1>6. Wanted(G) <=> Wanted(H)
  BY <1>4, SameScriptIs
<1>7. ASSUME Careful
      PROVE  /\ Alone(in) /\ Asked(G, in) /\ ~r.loop /\ Tracked(G, in) /\ Skipped(G, in, diverted)
  <2>1. Wanted(H) /\ Alone(inside)
    BY <1>1, <1>7 DEF Inv, CarefulInv, Asked
  <2>2. Asked(G, in)
    BY <1>6, <2>1 DEF Asked
  <2>3. Alone(in)
    BY <1>2, <2>1 DEF Alone
  <2>4. ~r.loop /\ Tracked(G, in) /\ Skipped(G, in, diverted)
    BY <1>1, <1>7, ExitTracked
  <2> QED BY <2>2, <2>3, <2>4
<1>8. res \in BOOLEAN
  OBVIOUS
<1> HIDE DEF r, in, res, G, n
<1>9. diverted' \subseteq Threads
  BY <1>1, <1>2
<1>10. CASE r.loop
  <2>1. Failed(G, in)
    BY <1>1, <1>10
  <2> QED BY <1>1, <1>4, <1>5, <1>7, <1>9, <2>1, FailedInv
<1>11. CASE ~r.loop
  <2>1. Reported(t, G, in, res)
    BY <1>1, <1>11
  <2>2. Careful => /\ Wanted(G) <=> Wanted(handled_syscalls)
                   /\ Alone(in) /\ Asked(G, in)
                   /\ Tracked(G, in) /\ Skipped(G, in, diverted')
    BY <1>1, <1>6, <1>7
  <2> QED BY <1>1, <1>4, <1>5, <1>8, <1>9, <2>1, <2>2, ReportedInv
<1> QED BY <1>10, <1>11

-------------------------------------------------------------------------------
(* The other steps. *)

(* A stop outside any syscall keeps the invariant. *)
LEMMA OtherInv ==
    ASSUME Inv, UNCHANGED uses, NEW t \in Threads, OtherStop(t)
    PROVE  Inv'
<1>1. mode = "reporting" /\ UNCHANGED <<alive, diverted>>
  BY DEF OtherStop, MayReport
<1>2. PICK res \in {resume, FALSE} : Reported(t, handled_syscalls, inside, res)
  BY DEF OtherStop
<1>3. /\ res \in BOOLEAN /\ Handlers(handled_syscalls) /\ inside \in [Threads -> Syscalls \cup {None}]
      /\ diverted' \subseteq Threads
  BY <1>1 DEF Inv, TypeOK
<1>4. Careful => /\ Wanted(handled_syscalls) <=> Wanted(handled_syscalls)
                 /\ Alone(inside) /\ Asked(handled_syscalls, inside)
                 /\ Tracked(handled_syscalls, inside) /\ Skipped(handled_syscalls, inside, diverted')
  BY <1>1 DEF Inv, CarefulInv
<1> QED BY <1>1, <1>2, <1>3, <1>4, ReportedInv

(* A report keeps the types. *)
LEMMA ReportedType ==
    ASSUME TypeOK, UNCHANGED uses, NEW t \in Threads, NEW in \in [Threads -> Syscalls \cup {None}],
           Reported(t, handled_syscalls, in, resume), diverted' \subseteq Threads, alive' \subseteq Threads,
           mode = "reporting"
    PROVE  TypeOK'
<1>1. Wanted(handled_syscalls) \in BOOLEAN
  BY DEF Wanted
<1>2. CASE Resuming(handled_syscalls, in)
  <2>1. /\ handle_syscall_enabled' = Wanted(handled_syscalls) /\ mode' = "running"
        /\ inside' = IF Wanted(handled_syscalls) THEN in ELSE [u \in Threads |-> None]
    BY <1>2 DEF Resuming
  <2>2. handle_syscall_enabled' \in BOOLEAN /\ inside' \in [Threads -> Syscalls \cup {None}]
    BY <1>1, <2>1
  <2> QED BY <2>1, <2>2 DEF TypeOK, Reported, Modes
<1>3. CASE ~Resuming(handled_syscalls, in)
  BY <1>3 DEF TypeOK, Reported, Modes
<1> QED BY <1>2, <1>3

(* A careful script does neither. *)
LEMMA CarelessInv ==
    ASSUME Inv, UNCHANGED uses, NEW t \in Threads, Step(t) \/ NoReturn(t)
    PROVE  Inv'
<1> DEFINE in == [inside EXCEPT ![t] = None]
<1>1. in \in [Threads -> Syscalls \cup {None}]
  BY DEF Inv, TypeOK
<1>2. CASE Step(t)
  <2>1. TypeOK'
    BY <1>1, <1>2 DEF Step, Inv, TypeOK
  <2>2. CarefulInv'
    BY <1>2 DEF Step, CarefulInv, Careful
  <2> QED BY <2>1, <2>2 DEF Inv
<1>3. CASE NoReturn(t)
  <2>1. /\ mode = "reporting" /\ Reported(t, handled_syscalls, in, resume)
        /\ diverted' = diverted \ {t} /\ alive' = alive \ {t} /\ "no return" \in uses
    BY <1>3 DEF NoReturn, MayReport
  <2> HIDE DEF in
  <2>2. TypeOK /\ diverted' \subseteq Threads /\ alive' \subseteq Threads
    BY <2>1 DEF Inv, TypeOK
  <2>3. TypeOK'
    BY <1>1, <2>1, <2>2, ReportedType
  <2>4. CarefulInv'
    BY <2>1 DEF CarefulInv, Careful
  <2> QED BY <2>3, <2>4 DEF Inv
<1> QED BY <1>2, <1>3

(* cont: all threads are out of syscalls, or stops are asked for. *)
LEMMA ContInv ==
    ASSUME Inv, UNCHANGED uses, Cont
    PROVE  Inv'
<1> DEFINE H == handled_syscalls
<1>1. /\ mode = "stopped" /\ UNCHANGED <<handled_syscalls, diverted, alive, head, pending, resume>>
      /\ mode' = "running" /\ handle_syscall_enabled' = Wanted(H)
      /\ inside' = IF Wanted(H) THEN inside ELSE [t \in Threads |-> None]
  BY DEF Cont, Resuming
<1>2. handle_syscall_enabled' \in BOOLEAN /\ (handle_syscall_enabled' <=> Wanted(H))
  BY <1>1 DEF Wanted
<1>3. inside \in [Threads -> Syscalls \cup {None}]
  BY DEF Inv, TypeOK
<1>4. TypeOK'
  BY <1>1, <1>2, <1>3 DEF Inv, TypeOK, Modes
<1>5. ASSUME Careful PROVE CarefulInv'
  <2>1. inside' = inside
    BY <1>1, <1>3, <1>5 DEF Inv, CarefulInv, Asked
  <2> QED BY <1>1, <1>2, <1>5, <2>1 DEF Inv, CarefulInv
<1> QED BY <1>4, <1>5 DEF Inv, CarefulInv, Careful

(* wait_all_and_update_regs. *)
LEMMA WaitInv ==
    ASSUME Inv, UNCHANGED uses, NEW h \in Threads, Wait(h)
    PROVE  Inv'
<1>1. TypeOK'
  BY DEF Wait, Inv, TypeOK, Modes
<1>2. CarefulInv'
  BY DEF Wait, Inv, CarefulInv, Careful
<1> QED BY <1>1, <1>2 DEF Inv

(* Every step. *)
LEMMA InvNext == Inv /\ [Next]_vars => Inv'
<1> SUFFICES ASSUME Inv, [Next]_vars PROVE Inv'
  OBVIOUS
<1>1. CASE UNCHANGED vars
  <2>1. TypeOK'
    BY <1>1 DEF vars, Inv, TypeOK
  <2>2. CarefulInv'
    BY <1>1 DEF vars, Inv, CarefulInv, Careful
  <2> QED BY <2>1, <2>2 DEF Inv
<1>2. CASE Next
  <2>1. UNCHANGED uses
    BY <1>2 DEF Next
  <2>2. ASSUME NEW n \in Syscalls, NEW exit \in BOOLEAN, NEW rec \in BOOLEAN, HandleSyscall(n, exit, rec)
        PROVE  Inv'
    <3>1. PICK enter \in {None, n} : handled_syscalls' = SetUserCallbacks(n, enter, exit, rec)
      BY <2>2 DEF HandleSyscall
    <3>2. ScriptMay(n) /\ ScriptKeeps
      BY <2>2 DEF HandleSyscall
    <3> QED BY <2>1, <3>1, <3>2, SetCallbacksInv
  <2>3. ASSUME NEW n \in Syscalls, NEW m \in Syscalls, NEW rec \in BOOLEAN, HijackSyscall(n, m, rec)
        PROVE  Inv'
    <3>1. ScriptMay(n) /\ ScriptKeeps /\ handled_syscalls' = SetUserCallbacks(n, m, FALSE, rec)
      BY <2>3 DEF HijackSyscall
    <3> QED BY <2>1, <3>1, SetCallbacksInv
  <2>4. ASSUME NEW n \in Syscalls, NEW on \in BOOLEAN, Toggle(n, on)
        PROVE  Inv'
    BY <2>1, <2>4, ToggleInv
  <2>5. ASSUME NEW P \in SUBSET Syscalls, EnablePrettyPrint(P)
        PROVE  Inv'
    BY <2>1, <2>5, PrettyPrintInv
  <2>6. CASE DisablePrettyPrint
    BY <2>1, <2>6, PrettyPrintInv
  <2>7. CASE Cont
    BY <2>1, <2>7, ContInv
  <2>8. ASSUME NEW t \in Threads, Step(t) \/ Wait(t) \/ ExitStop(t) \/ OtherStop(t) \/ NoReturn(t)
        PROVE  Inv'
    BY <2>1, <2>8, CarelessInv, WaitInv, ExitInv, OtherInv
  <2>9. ASSUME NEW t \in Threads, NEW n \in Syscalls, EnterStop(t, n)
        PROVE  Inv'
    BY <2>1, <2>9, EnterInv
  <2> QED BY <1>2, <2>2, <2>3, <2>4, <2>5, <2>6, <2>7, <2>8, <2>9 DEF Next, Actions
<1> QED BY <1>1, <1>2

-------------------------------------------------------------------------------
(* What the last stop ran. *)

RanRight == CallbacksRun /\ NoRepeat /\ LoopExact

(* A step that is no syscall stop runs nothing. *)
LEMMA NothingRan ==
    ASSUME ran = Nothing
    PROVE  RanRight
<1>1. ran.stop = "none" /\ ran.called = << >>
  BY DEF Nothing
<1>2. CallbacksRun
  BY <1>1 DEF CallbacksRun, InPhase
<1>3. NoRepeat
  BY <1>1 DEF NoRepeat
<1>4. LoopExact
  BY <1>1 DEF LoopExact
<1> QED BY <1>2, <1>3, <1>4 DEF RanRight

(* Hijacks are the script's, whatever the phases. *)
LEMMA EndlessSame ==
    ASSUME SameScript(handled_syscalls', handled_syscalls), NEW n
    PROVE  Endless(n)' <=> Endless(n)
<1>1. \A k : Handled(k)' <=> Handled(k)
  BY DEF SameScript, Handled
<1>2. \A k : Hijacks(k)' <=> Hijacks(k)
  BY <1>1 DEF SameScript, Hijacks, Handled
<1>3. \A k : Hijacks(k) => handled_syscalls'[k].on_enter = handled_syscalls[k].on_enter
  BY DEF SameScript, Hijacks, Handled
<1> HIDE DEF Hijacks
<1>4. \A C : (\A k \in C : Hijacks(k)' /\ handled_syscalls'[k].on_enter \in C)
               <=> (\A k \in C : Hijacks(k) /\ handled_syscalls[k].on_enter \in C)
  BY <1>2, <1>3
<1> QED BY <1>4 DEF Endless

(* What a stop that is to stop the script does to the process. *)
LEMMA StopChanges ==
    ASSUME TypeOK, NEW t \in Threads, NEW n \in Syscalls, NEW in,
           LET r == HandleSyscallStop(n)
           IN  IF r.loop THEN Failed(r.after, in) ELSE Reported(t, r.after, in, resume /\ ~r.stop)
    PROVE  LET r == HandleSyscallStop(n)
           IN  /\ handled_syscalls' = r.after /\ SameScript(r.after, handled_syscalls)
               /\ r.loop \in BOOLEAN /\ (mode' = "error" <=> r.loop \/ (mode = "error" /\ mode' = mode))
               /\ ~r.loop /\ r.stop => ~resume' /\ (mode' # "running" \/ mode' = mode)
               /\ ~resume => mode' # "running" \/ mode' = mode
<1> DEFINE r == HandleSyscallStop(n)
           res == resume /\ ~r.stop
<1>1. /\ r.loop \in BOOLEAN /\ r.stop \in BOOLEAN /\ SameScript(r.after, handled_syscalls)
  BY StopIs DEF TypeOK
<1>2. CASE r.loop
  <2>1. handled_syscalls' = r.after /\ mode' = "error"
    BY <1>2 DEF Failed
  <2> HIDE DEF r
  <2> QED BY <1>1, <1>2, <2>1 DEF r
<1>3. CASE ~r.loop
  <2>1. Reported(t, r.after, in, res)
    BY <1>3
  <2>2. res \in BOOLEAN /\ resume \in BOOLEAN /\ (res <=> resume /\ ~r.stop)
    BY <1>1 DEF TypeOK
  <2> HIDE DEF r, res
  <2>3. /\ handled_syscalls' = r.after /\ resume' = res
        /\ mode' = mode \/ (res /\ mode' = "running") \/ mode' = "stopped"
    BY <2>1 DEF Reported, Resuming
  <2> QED BY <1>1, <1>3, <2>2, <2>3 DEF r
<1> QED BY <1>1, <1>2, <1>3

(* No callback runs twice at a stop, whatever the script is. *)
LEMMA CalledOnce ==
    ASSUME TypeOK, NEW n \in Syscalls
    PROVE  LET c == HandleSyscallStop(n).called
           IN  \A i, j \in DOMAIN c : c[i] = c[j] => i = j
<1> DEFINE r == HandleSyscallStop(n)
<1>1. Handlers(handled_syscalls)
  BY DEF TypeOK
<1>2. CASE ~Handled(n)
  <2>1. r.called = << >>
    BY <1>1, <1>2, StopIs
  <2> QED BY <2>1
<1>3. CASE Handled(n) /\ handled_syscalls[n].has_entered
  <2>1. r = AsExit(n)
    BY <1>3 DEF HandleSyscallStop
  <2> DEFINE x == AsExit(n)
  <2>2. x.called = << >> \/ x.called = <<<<"on_exit", n>>>>
    BY <1>1, <1>3, AsExitIs, Zenon
  <2> HIDE DEF r, x
  <2>3. \A i, j \in DOMAIN x.called : x.called[i] = x.called[j] => i = j
    BY <2>2
  <2> QED BY <2>1, <2>3 DEF r, x
<1>4. CASE Handled(n) /\ ~handled_syscalls[n].has_entered
  <2> DEFINE e == ManageOnEnter(n)
  <2>1. /\ EntryIs(e, n, {n}) /\ DOMAIN r.called = DOMAIN e.called
        /\ \A i \in DOMAIN e.called : r.called[i] = <<"on_enter", e.called[i]>>
    BY <1>1, <1>4, EnterCases
  <2> HIDE DEF r, e
  <2>2. \A i, j \in DOMAIN e.called : e.called[i] = e.called[j] => i = j
    BY <2>1 DEF EntryIs, Once
  <2>3. ASSUME NEW i \in DOMAIN r.called, NEW j \in DOMAIN r.called, r.called[i] = r.called[j]
        PROVE  i = j
    <3>1. e.called[i] = e.called[j]
      BY <2>1, <2>3
    <3> QED BY <2>1, <2>2, <3>1
  <2> QED BY <2>3 DEF r
<1> QED BY <1>2, <1>3, <1>4

(* An enabled handler without callbacks stops the process. *)
LEMMA EmptyStops ==
    ASSUME TypeOK, NEW n \in Syscalls, Handled(n), WithoutCallback(handled_syscalls[n]),
           handled_syscalls[n].enabled
    PROVE  HandleSyscallStop(n).stop /\ ~HandleSyscallStop(n).loop
<1> DEFINE r == HandleSyscallStop(n)
<1>1. Handlers(handled_syscalls)
  BY DEF TypeOK
<1>2. CASE handled_syscalls[n].has_entered
  <2>1. r = AsExit(n)
    BY <1>2 DEF HandleSyscallStop
  <2> QED BY <1>1, <2>1, AsExitIs
<1>3. CASE ~handled_syscalls[n].has_entered
  BY <1>1, <1>3, EnterCases DEF EntryIs, Decided
<1> QED BY <1>2, <1>3

(* At an entry the right callbacks run. *)
LEMMA EnterRan ==
    ASSUME Inv, UNCHANGED uses, NEW t \in Threads, NEW n \in Syscalls, EnterStop(t, n)
    PROVE  RanRight'
<1> DEFINE H == handled_syscalls
           r == HandleSyscallStop(n)
           in == [inside EXCEPT ![t] = r.num]
<1>1. /\ mode = "reporting" /\ inside[t] = None
      /\ IF r.loop THEN Failed(r.after, in) ELSE Reported(t, r.after, in, resume /\ ~r.stop)
      /\ "same" \in uses \/ \A u \in Threads \ {t} : inside[u] \notin {n, r.num}
      /\ ran' = [stop |-> "enter", thread |-> t, asked |-> n, called |-> r.called]
  BY Zenon DEF EnterStop, MayReport
<1>2. TypeOK /\ Handlers(H)
  BY DEF Inv, TypeOK
<1>3. handled_syscalls' = r.after /\ SameScript(r.after, H) /\ (mode' = "error" <=> r.loop)
  BY <1>1, <1>2, StopChanges
<1>4. \A i, j \in DOMAIN r.called : r.called[i] = r.called[j] => i = j
  BY <1>2, CalledOnce
<1>5. ASSUME Careful
      PROVE  /\ \A i \in DOMAIN r.called : r.called[i][1] # "on_exit"
             /\ Handled(n) /\ H[n].enabled /\ H[n].on_enter # None =>
                    r.called # << >> /\ r.called[1] = <<"on_enter", n>>
             /\ r.loop <=> Endless(n)
  <2>1. CASE ~Handled(n)
    <3>1. r.called = << >> /\ ~r.loop
      BY <1>2, <2>1, StopIs
    <3>2. ~Endless(n)
      BY <2>1 DEF Endless, Hijacks
    <3> HIDE DEF r
    <3> QED BY <2>1, <3>1, <3>2
  <2>2. CASE Handled(n)
    <3> DEFINE e == ManageOnEnter(n)
    <3>1. ~H[n].has_entered
      <4>1. ~Busy(inside, n)
        BY <1>1, <1>5, SyscallsAssumption DEF Busy, Careful
      <4> QED BY <1>1, <1>5, <2>2, <4>1 DEF Inv, CarefulInv, Tracked, Handled
    <3>2. /\ EntryIs(e, n, {n}) /\ (r.loop <=> Endless(n))
          /\ DOMAIN r.called = DOMAIN e.called
          /\ \A i \in DOMAIN e.called : r.called[i] = <<"on_enter", e.called[i]>>
          /\ r.called # << >> <=> e.called # << >>
          /\ r.called # << >> => r.called[1] = <<"on_enter", n>>
      BY <1>2, <2>2, <3>1, EnterCases
    <3> HIDE DEF e, r
    <3>3. \A i \in DOMAIN r.called : r.called[i][1] # "on_exit"
      BY <3>2
    <3>4. H[n].enabled /\ H[n].on_enter # None => e.called # << >>
      BY <3>2 DEF EntryIs, Decided
    <3> QED BY <3>2, <3>3, <3>4
  <2> QED BY <2>1, <2>2
<1>6. Endless(n)' <=> Endless(n)
  BY <1>3, EndlessSame
<1> HIDE DEF r, in
<1>7. ran'.stop = "enter" /\ ran'.thread = t /\ ran'.asked = n /\ ran'.called = r.called
  BY <1>1
<1>8. CallbacksRun'
  <2> SUFFICES ASSUME Careful' PROVE CallbacksRun'
    BY DEF CallbacksRun
  <2>1. Careful
    BY DEF Careful
  <2>2. InPhase'
    BY <1>5, <1>7, <2>1 DEF InPhase, Calls
  <2>3. Handled(n)' => /\ Handled(n)
                       /\ handled_syscalls'[n].enabled = H[n].enabled
                       /\ handled_syscalls'[n].on_enter = H[n].on_enter
    BY <1>3 DEF SameScript, Handled
  <2> QED BY <1>5, <1>7, <2>1, <2>2, <2>3 DEF CallbacksRun
<1>9. NoRepeat'
  BY <1>4, <1>7 DEF NoRepeat
<1>10. LoopExact'
  <2>1. Careful' => Careful
    BY DEF Careful
  <2>2. Careful => (mode' = "error" <=> Endless(n)')
    BY <1>3, <1>5, <1>6
  <2> QED BY <1>7, <2>1, <2>2 DEF LoopExact
<1> QED BY <1>8, <1>9, <1>10 DEF RanRight

(* At an exit the right callbacks run. *)
LEMMA ExitRan ==
    ASSUME Inv, UNCHANGED uses, NEW t \in Threads, ExitStop(t)
    PROVE  RanRight'
<1> DEFINE H == handled_syscalls
           n == inside[t]
           h == H[n]
           r == HandleSyscallStop(n)
           in == [inside EXCEPT ![t] = None]
<1>1. /\ mode = "reporting" /\ n # None /\ diverted' = diverted
      /\ IF r.loop THEN Failed(r.after, in) ELSE Reported(t, r.after, in, resume /\ ~r.stop)
      /\ ran' = [stop |-> "exit", thread |-> t, asked |-> n, called |-> r.called]
  BY Zenon DEF ExitStop, MayReport
<1>2. TypeOK /\ Handlers(H)
  BY DEF Inv, TypeOK
<1>3. n \in Syscalls
  BY <1>1, <1>2 DEF TypeOK
<1>4. handled_syscalls' = r.after /\ SameScript(r.after, H)
  BY <1>1, <1>2, <1>3, StopChanges
<1>5. \A i, j \in DOMAIN r.called : r.called[i] = r.called[j] => i = j
  BY <1>2, <1>3, CalledOnce
<1> DEFINE runs == h.on_exit /\ h.enabled /\ t \notin diverted
<1>6. ASSUME Careful
      PROVE  /\ ~Handled(n) => r.called = << >>
             /\ Handled(n) => r.called = IF runs THEN <<<<"on_exit", n>>>> ELSE << >>
  <2>1. ~Handled(n) => r.called = << >>
    BY <1>2, <1>3, StopIs
  <2>2. Handled(n) => r.called = IF runs THEN <<<<"on_exit", n>>>> ELSE << >>
    BY <1>1, <1>6, ExitCases, Zenon
  <2> QED BY <2>1, <2>2
<1> HIDE DEF r, in, n
<1>7. ran'.stop = "exit" /\ ran'.thread = t /\ ran'.asked = n /\ ran'.called = r.called
  BY <1>1
<1>8. CallbacksRun'
  <2> SUFFICES ASSUME Careful' PROVE CallbacksRun'
    BY DEF CallbacksRun
  <2>1. Careful
    BY DEF Careful
  <2>2. <<<<"on_exit", n>>>> # << >> /\ <<<<"on_exit", n>>>>[1] = <<"on_exit", n>>
        /\ DOMAIN <<<<"on_exit", n>>>> = {1}
    OBVIOUS
  <2> HIDE DEF runs, h
  <2>3. r.called = << >> \/ r.called = <<<<"on_exit", n>>>>
    BY <1>6, <2>1
  <2>4. InPhase'
    <3>1. \A i \in DOMAIN r.called : r.called[i][1] # "on_enter"
      BY <2>3
    <3> QED BY <1>7, <3>1 DEF InPhase, Calls
  <2>5. Handled(n) => (r.called = <<<<"on_exit", n>>>> <=> runs)
    BY <1>6, <2>1, <2>2
  <2>6. n \in DOMAIN handled_syscalls' =>
                       /\ Handled(n)
                       /\ handled_syscalls'[n].enabled = H[n].enabled
                       /\ handled_syscalls'[n].on_exit = H[n].on_exit
    BY <1>4 DEF SameScript, Handled
  <2>7. n \in DOMAIN handled_syscalls' => (r.called = <<<<"on_exit", n>>>>
                          <=> (handled_syscalls'[n].enabled /\ handled_syscalls'[n].on_exit /\ t \notin diverted'))
    BY <1>1, <2>5, <2>6 DEF runs, h
  <2> QED BY <1>7, <2>4, <2>7 DEF CallbacksRun, Handled
<1>9. NoRepeat'
  BY <1>5, <1>7 DEF NoRepeat
<1>10. LoopExact'
  BY <1>7 DEF LoopExact
<1> QED BY <1>8, <1>9, <1>10 DEF RanRight

(* Every step runs the right callbacks. *)
LEMMA RanNext == Inv /\ RanRight /\ [Next]_vars => RanRight'
<1> SUFFICES ASSUME Inv, RanRight, [Next]_vars PROVE RanRight'
  OBVIOUS
<1>1. CASE UNCHANGED vars
  BY <1>1 DEF vars, RanRight, CallbacksRun, InPhase, Calls, NoRepeat, LoopExact, Endless, Hijacks,
              Handled, Careful
<1>2. CASE Next
  <2>1. UNCHANGED uses
    BY <1>2 DEF Next
  <2>2. ASSUME NEW t \in Threads, NEW n \in Syscalls, EnterStop(t, n)
        PROVE  RanRight'
    BY <2>1, <2>2, EnterRan
  <2>3. ASSUME NEW t \in Threads, ExitStop(t)
        PROVE  RanRight'
    BY <2>1, <2>3, ExitRan
  <2>4. CASE \/ \E n \in Syscalls, exit, rec \in BOOLEAN : HandleSyscall(n, exit, rec)
             \/ \E n, m \in Syscalls, rec \in BOOLEAN : HijackSyscall(n, m, rec)
             \/ \E n \in Syscalls, on \in BOOLEAN : Toggle(n, on)
             \/ \E P \in SUBSET Syscalls : EnablePrettyPrint(P)
             \/ DisablePrettyPrint
             \/ Cont
             \/ \E t \in Threads : Step(t) \/ Wait(t) \/ OtherStop(t) \/ NoReturn(t)
    <3>1. ran' = Nothing
      BY <2>4 DEF HandleSyscall, HijackSyscall, Toggle, EnablePrettyPrint, DisablePrettyPrint, Cont, Step,
                  Wait, OtherStop, NoReturn, ScriptKeeps
    <3>2. (ran = Nothing)' => RanRight'
      BY NothingRan, PTL
    <3> QED BY <3>1, <3>2 DEF Nothing
  <2> QED BY <1>2, <2>2, <2>3, <2>4 DEF Next, Actions
<1> QED BY <1>1, <1>2

-------------------------------------------------------------------------------
(* The process is left to the script. *)

LeftToScript ==
    /\ ran'.stop # "none" /\ Handled(ran'.asked) =>
          LET h == handled_syscalls[ran'.asked]
          IN  WithoutCallback(h) /\ h.enabled => ~resume' /\ mode' # "running"
    /\ mode = "reporting" /\ ~resume => mode' # "running"

(* A syscall stop, entry or exit. *)
LEMMA SyscallStopLeaves ==
    ASSUME TypeOK, mode = "reporting", NEW t \in Threads, NEW n \in Syscalls, NEW in, ran'.asked = n,
           LET r == HandleSyscallStop(n)
           IN  IF r.loop THEN Failed(r.after, in) ELSE Reported(t, r.after, in, resume /\ ~r.stop)
    PROVE  LeftToScript
<1> DEFINE r == HandleSyscallStop(n)
<1>1. /\ ~r.loop /\ r.stop => ~resume' /\ (mode' # "running" \/ mode' = mode)
      /\ ~resume => mode' # "running" \/ mode' = mode
  BY StopChanges
<1>2. Handled(n) /\ WithoutCallback(handled_syscalls[n]) /\ handled_syscalls[n].enabled => r.stop /\ ~r.loop
  BY EmptyStops
<1> HIDE DEF r
<1> QED BY <1>1, <1>2 DEF LeftToScript

(* A stop for another reason, and a thread that ends. *)
LEMMA OthersLeave ==
    ASSUME TypeOK, NEW t \in Threads, OtherStop(t) \/ NoReturn(t)
    PROVE  LeftToScript
<1>1. ran' = Nothing /\ mode = "reporting"
  BY DEF OtherStop, NoReturn, MayReport
<1>2. ran'.stop = "none"
  BY <1>1 DEF Nothing
<1>3. \E in : \E res \in {resume, FALSE} : Reported(t, handled_syscalls, in, res)
  <2>1. CASE OtherStop(t)
    <3>1. \E res \in {resume, FALSE} : Reported(t, handled_syscalls, inside, res)
      BY <2>1, Zenon DEF OtherStop
    <3> QED BY <3>1, Zenon
  <2>2. CASE NoReturn(t)
    <3>1. Reported(t, handled_syscalls, [inside EXCEPT ![t] = None], resume)
      BY <2>2, Zenon DEF NoReturn
    <3>2. resume \in {resume, FALSE}
      OBVIOUS
    <3> QED BY <3>1, <3>2, Zenon
  <2> QED BY <2>1, <2>2
<1>4. ~resume => mode' # "running"
  <2>1. PICK in : \E res \in {resume, FALSE} : Reported(t, handled_syscalls, in, res)
    BY <1>3, Zenon
  <2>4. PICK res \in {resume, FALSE} : Reported(t, handled_syscalls, in, res)
    BY <2>1, Zenon
  <2>2. ASSUME ~resume PROVE ~res
    BY <2>2, Zenon
  <2>3. ASSUME ~res PROVE mode' = mode \/ mode' = "stopped"
    BY <2>4, <2>3, Zenon DEF Reported
  <2> QED BY <2>2, <2>3, <1>1
<1> QED BY <1>2, <1>4 DEF LeftToScript

(* Every step. *)
LEMMA NextLeaves == TypeOK /\ [Next]_vars => [LeftToScript]_vars
<1> SUFFICES ASSUME TypeOK, Next PROVE LeftToScript
  OBVIOUS
<1>1. ASSUME NEW t \in Threads, NEW n \in Syscalls, EnterStop(t, n)
      PROVE  LeftToScript
  <2> DEFINE r == HandleSyscallStop(n)
             in == [inside EXCEPT ![t] = r.num]
  <2>1. /\ mode = "reporting"
        /\ IF r.loop THEN Failed(r.after, in) ELSE Reported(t, r.after, in, resume /\ ~r.stop)
        /\ ran' = [stop |-> "enter", thread |-> t, asked |-> n, called |-> r.called]
    BY <1>1, Zenon DEF EnterStop, MayReport
  <2> HIDE DEF in
  <2>2. ran'.asked = n
    <3> HIDE DEF r
    <3> QED BY <2>1
  <2> QED BY <2>1, <2>2, SyscallStopLeaves
<1>2. ASSUME NEW t \in Threads, ExitStop(t)
      PROVE  LeftToScript
  <2> DEFINE n == inside[t]
             r == HandleSyscallStop(n)
             in == [inside EXCEPT ![t] = None]
  <2>1. /\ mode = "reporting" /\ n # None
        /\ IF r.loop THEN Failed(r.after, in) ELSE Reported(t, r.after, in, resume /\ ~r.stop)
        /\ ran' = [stop |-> "exit", thread |-> t, asked |-> n, called |-> r.called]
    BY <1>2, Zenon DEF ExitStop, MayReport
  <2>2. n \in Syscalls
    BY <2>1 DEF TypeOK
  <2> HIDE DEF in
  <2>3. ran'.asked = n
    <3> HIDE DEF r, n
    <3> QED BY <2>1
  <2> HIDE DEF n
  <2> QED BY <2>1, <2>2, <2>3, SyscallStopLeaves
<1>3. ASSUME NEW t \in Threads, OtherStop(t) \/ NoReturn(t)
      PROVE  LeftToScript
  BY <1>3, OthersLeave
<1>4. CASE \/ \E n \in Syscalls, exit, rec \in BOOLEAN : HandleSyscall(n, exit, rec)
           \/ \E n, m \in Syscalls, rec \in BOOLEAN : HijackSyscall(n, m, rec)
           \/ \E n \in Syscalls, on \in BOOLEAN : Toggle(n, on)
           \/ \E P \in SUBSET Syscalls : EnablePrettyPrint(P)
           \/ DisablePrettyPrint
           \/ Cont
           \/ \E t \in Threads : Step(t) \/ Wait(t)
  <2>1. ran' = Nothing /\ (mode # "reporting" \/ mode' = mode)
    BY <1>4 DEF HandleSyscall, HijackSyscall, Toggle, EnablePrettyPrint, DisablePrettyPrint, Cont, Step,
                Wait, ScriptKeeps
  <2>2. ran'.stop = "none"
    BY <2>1 DEF Nothing
  <2> QED BY <2>1, <2>2 DEF LeftToScript
<1> QED BY <1>1, <1>2, <1>3, <1>4 DEF Next, Actions

-------------------------------------------------------------------------------
(* The theorems. *)

(* The invariant holds. *)
LEMMA AlwaysInv == Spec => []Inv
BY InvInit, InvNext, PTL DEF Spec

(* The right callbacks run at every stop. *)
LEMMA AlwaysRight == Spec => []RanRight
<1>1. Init => RanRight
  BY NothingRan DEF Init
<1> QED BY <1>1, AlwaysInv, RanNext, PTL DEF Spec

(* Whatever the script does, the variables keep their types. *)
THEOREM TypeCorrect == Spec => []TypeOK
BY AlwaysInv, PTL DEF Inv

(* For a careful script, on any threads and syscalls, _has_entered says    *)
(* that a thread is inside the syscall, for every handler that has         *)
(* something to do at the exit.                                            *)
THEOREM PhasesTracked == Spec => []PhaseTracked
<1>1. Inv => PhaseTracked
  <2>1. \A n : Busy(inside, n) <=> Occupied(n)
    BY DEF Busy, Occupied
  <2>2. \A h : MarksEntered(h) <=> (h.on_exit \/ h.pprint \/ h.enabled)
    BY DEF MarksEntered
  <2> QED BY <2>1, <2>2 DEF Inv, CarefulInv, Tracked, PhaseTracked
<1> QED BY <1>1, AlwaysInv, PTL

(* For a careful script callbacks run in their phase and none is left out, *)
(* unless a hijack that is not recursive led there.                        *)
THEOREM CallbacksRunRight == Spec => []CallbacksRun
BY AlwaysRight, PTL DEF RanRight

(* No chain of hijacks runs a callback twice at one stop.                  *)
THEOREM NoCallbackTwice == Spec => []NoRepeat
BY AlwaysRight, PTL DEF RanRight

(* _manage_syscall_on_enter raises exactly when the recursive hijacks stay *)
(* among syscalls that are hijacked to one another.                        *)
THEOREM LoopsDetected == Spec => []LoopExact
BY AlwaysRight, PTL DEF RanRight

(* A handler without callbacks leaves the process to the script, at the    *)
(* entry and the exit, and no later report of the batch resumes it.        *)
THEOREM LeavesToScript == Spec => StopsForScript
<1>1. TypeOK /\ [Next]_vars =>
         [/\ ran'.stop # "none" /\ Handled(ran'.asked) =>
                LET h == handled_syscalls[ran'.asked]
                IN  WithoutCallback(h) /\ h.enabled => ~resume' /\ mode' # "running"
          /\ mode = "reporting" /\ ~resume => mode' # "running"]_vars
  BY NextLeaves DEF LeftToScript
<1> QED BY <1>1, TypeCorrect, PTL DEF Spec, StopsForScript

===============================================================================
