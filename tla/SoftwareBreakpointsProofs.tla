----------------------- MODULE SoftwareBreakpointsProofs -----------------------
(***************************************************************************)
(* Proofs about SoftwareBreakpoints, for any code, word size, threads,     *)
(* addresses of breakpoints and kinds of scripts.                          *)
(*                                                                         *)
(* The predicates below are about a memory m, the set E of the entries of  *)
(* a list, a set B of Breakpoint objects and the program's bytes p, since  *)
(* a resumption passes through several of these before the tracee runs.    *)
(***************************************************************************)
EXTENDS SoftwareBreakpoints, TLAPS, FiniteSetTheorems

Cells == 0..(MaxAddr + WordSize)
Offsets == 0..(WordSize - 1)
Word == [Offsets -> Bytes]
Entry == [addr : Addrs, instruction : Word, patched_instruction : Word, enabled : BOOLEAN]
Bp == [addr : Addrs, enabled : BOOLEAN, changed : BOOLEAN, disabled_for_step : BOOLEAN]

(* The variables keep their types. *)
TypeOK ==
    /\ uses \subseteq AllUses
    /\ mem \in Memory
    /\ program \in Memory
    /\ bList \in Seq(Entry)
    /\ bps \in Seq(Bp)
    /\ pc \in [Threads -> 0..(MaxAddr + 1)]
    /\ state \in {"stopped", "running", "free"}
    /\ trapped \subseteq Threads
    /\ hit \in [Threads -> Nat]
    /\ temporary \in Addrs \cup {NoAddr}
    /\ skipped \in BOOLEAN

-------------------------------------------------------------------------------
(* What holds whatever the script does. *)

Has(E, x) == \E e \in E : e.addr = x
OnAt(E, x) == \E e \in E : e.addr = x /\ e.enabled

Ordered(l) == \A i, j \in DOMAIN l : i < j => l[i].addr < l[j].addr
Distinct(bs) == \A i, j \in DOMAIN bs : bs[i].addr = bs[j].addr => i = j
Unique(E) == \A e, f \in E : e.addr = f.addr => e = f

Genuine(E) ==
    \A e \in E : e.patched_instruction = INSTALL_BREAKPOINT(e.instruction) /\ e.instruction[0] # "cc"
WordsListed(E) == \A e \in E, k \in Offsets : e.instruction[k] = "cc" => Has(E, e.addr + k)
MemListed(m, E) == \A x \in Cells : m[x] = "cc" => Has(E, x)
SameAddrs(E, B) == \A a \in Addrs : Has(E, a) <=> Has(B, a)

(* Every int3 in memory or in a saved word is that of an entry. *)
Basic(m, E, B) ==
    /\ m \in Memory /\ E \subseteq Entry /\ B \subseteq Bp
    /\ Unique(E) /\ Unique(B) /\ Genuine(E) /\ WordsListed(E) /\ MemListed(m, E) /\ SameAddrs(E, B)

NoSaved(E, a) == \A e \in E, k \in Offsets : e.instruction[k] = "cc" => e.addr + k # a
Settled(B) == \A b \in B : ~b.changed /\ ~b.disabled_for_step

(* The breakpoint that finish() is to remove is there, enabled, and its    *)
(* int3 is in no word saved by another.                                    *)
TempInv ==
    /\ state # "running" => temporary = NoAddr
    /\ temporary # NoAddr => OnAt(Range(bList), temporary) /\ NoSaved(Range(bList), temporary)

-------------------------------------------------------------------------------
(* What holds for scripts that refrain from something. *)

NoOverlap == "overlap" \notin uses
NoDisable == "disable" \notin uses
Plain == Unaltered /\ uses \cap {"at ip", "step_until", "finish stepping"} = {}

Apart(E) == \A e, f \in E : Covers(e.addr, f.addr) => e = f
AllOn(E, B) == (\A e \in E : e.enabled) /\ (\A b \in B : b.enabled /\ ~b.changed)
Neat(E, B) == Apart(E) \/ AllOn(E, B)

Clean(E, p) == \A e \in E, k \in Offsets : e.instruction[k] \in {p[e.addr + k], "cc"}
Synced(E, B) ==
    \A e \in E, b \in B : e.addr = b.addr /\ ~b.changed => b.enabled = e.enabled
MemStopped(m, E, p) == \A x \in Cells : m[x] = p[x] \/ (m[x] = "cc" /\ OnAt(E, x))
MemRunning(m, E, p) == \A x \in Cells : m[x] = IF OnAt(E, x) THEN "cc" ELSE p[x]

(* An instruction at x is the program's own, now and after the changes of  *)
(* the breakpoints B are applied.                                          *)
Quiet(m, B, x) == m[x] # "cc" /\ \A b \in B : ~(b.addr = x /\ b.changed /\ b.enabled)

LiveInv ==
    state # "free" =>
        /\ Ordered(bList) /\ Distinct(bps)
        /\ Basic(mem, Range(bList), Range(bps))
        /\ state = "running" => Settled(Range(bps))
        /\ NoOverlap => Apart(Range(bList))
        /\ NoDisable => AllOn(Range(bList), Range(bps))
UnalteredInv ==
    Unaltered /\ state # "free" =>
        /\ Clean(Range(bList), program)
        /\ Synced(Range(bList), Range(bps))
        /\ state = "stopped" => MemStopped(mem, Range(bList), program)
        /\ state = "running" => MemRunning(mem, Range(bList), program)
PlainInv ==
    Plain => ~skipped /\ (state = "stopped" => \A t \in Threads : Quiet(mem, Range(bps), pc[t]))
TrapInv ==
    Careful /\ state = "running" => \A t \in trapped : pc[t] > 0 /\ OnAt(Range(bList), pc[t] - 1)

(* The inductive invariant. *)
Inv ==
    /\ TypeOK
    /\ ListConsistent
    /\ \A x \in Cells : program[x] # "cc"
    /\ TempInv
    /\ LiveInv
    /\ UnalteredInv
    /\ PlainInv
    /\ TrapInv

-------------------------------------------------------------------------------
(* Sequences and sets of numbers. *)

(* The elements of two sequences put together. *)
LEMMA ConcatIs ==
    ASSUME NEW S, NEW p \in Seq(S), NEW q \in Seq(S)
    PROVE  /\ p \o q \in Seq(S) /\ Len(p \o q) = Len(p) + Len(q)
           /\ \A i \in 1..(Len(p) + Len(q)) : (p \o q)[i] = IF i <= Len(p) THEN p[i] ELSE q[i - Len(p)]
  OBVIOUS

(* A set of numbers that is not empty has a smallest one. *)
LEMMA Smallest ==
    ASSUME NEW S, S \subseteq Nat, S # {}
    PROVE  \E n \in S : \A k \in S : n <= k
<1> DEFINE R == OpToRel(<, Nat)
<1>1. IsWellFoundedOn(R, Nat)
  BY NatLessThanWellFounded
<1>2. \A k, n \in Nat : k < n => <<k, n>> \in R
  BY DEF OpToRel
<1> HIDE DEF R
<1>3. PICK n \in S : \A k \in S : ~(<<k, n>> \in R)
  BY <1>1, WFMin, Zenon
<1>4. \A k \in S : n <= k
  <2> SUFFICES ASSUME NEW k \in S PROVE n <= k
    OBVIOUS
  <2>1. k \in Nat /\ n \in Nat
    OBVIOUS
  <2>2. k < n => <<k, n>> \in R
    BY <1>2, <2>1
  <2> QED BY <1>3, <2>1, <2>2
<1> QED BY <1>4

(* Max is the largest of a bounded set of numbers. *)
LEMMA Largest ==
    ASSUME NEW S, NEW n \in Nat, S \subseteq 0..n, S # {}
    PROVE  Max(S) \in S /\ \A k \in S : k <= Max(S)
<1> DEFINE D == {k \in 0..n : n - k \in S}
<1>1. D \subseteq Nat
  OBVIOUS
<1>2. D # {}
  <2>1. PICK s \in S : TRUE
    OBVIOUS
  <2>2. s \in 0..n
    OBVIOUS
  <2>3. n - s \in 0..n /\ n - (n - s) = s
    BY <2>2
  <2> QED BY <2>3
<1>3. PICK d \in D : \A k \in D : d <= k
  BY <1>1, <1>2, Smallest
<1>4. n - d \in S
  OBVIOUS
<1>5. \A k \in S : n - d >= k
  <2> SUFFICES ASSUME NEW k \in S PROVE n - d >= k
    OBVIOUS
  <2>1. k \in 0..n /\ d \in 0..n
    OBVIOUS
  <2>2. n - k \in 0..n /\ n - (n - k) = k
    BY <2>1
  <2>3. d <= n - k
    BY <1>3, <2>2
  <2> QED BY <2>1, <2>3
<1> HIDE DEF D
<1>6. Max(S) \in S /\ \A k \in S : Max(S) >= k
  BY <1>4, <1>5 DEF Max
<1> QED BY <1>6

(* What an insertion after n elements makes of a sequence. *)
LEMMA InsertAtIs ==
    ASSUME NEW S, NEW s \in Seq(S), NEW e \in S, NEW n \in 0..Len(s)
    PROVE  /\ InsertAt(s, n + 1, e) \in Seq(S)
           /\ Len(InsertAt(s, n + 1, e)) = Len(s) + 1
           /\ \A i \in 1..(Len(s) + 1) :
                 InsertAt(s, n + 1, e)[i] = IF i <= n THEN s[i] ELSE IF i = n + 1 THEN e ELSE s[i - 1]
<1> DEFINE p == SubSeq(s, 1, n)
           q == SubSeq(s, n + 1, Len(s))
<1>1. /\ p \in Seq(S) /\ Len(p) = n
      /\ q \in Seq(S) /\ Len(q) = Len(s) - n
      /\ \A i \in 1..n : p[i] = s[i]
      /\ \A i \in 1..(Len(s) - n) : q[i] = s[n + i]
  OBVIOUS
<1>2. <<e>> \in Seq(S) /\ Len(<<e>>) = 1 /\ <<e>>[1] = e
  OBVIOUS
<1>3. InsertAt(s, n + 1, e) = (p \o <<e>>) \o q
  <2>1. (n + 1) - 1 = n
    OBVIOUS
  <2> QED BY <2>1, Zenon DEF InsertAt
<1> HIDE DEF p, q
<1> DEFINE w == <<e>>
<1> HIDE DEF w
<1>4. w \in Seq(S) /\ Len(w) = 1 /\ w[1] = e
  BY <1>2 DEF w
<1>5. /\ p \o w \in Seq(S) /\ Len(p \o w) = Len(p) + Len(w)
      /\ \A i \in 1..(Len(p) + Len(w)) : (p \o w)[i] = IF i <= Len(p) THEN p[i] ELSE w[i - Len(p)]
  BY <1>1, <1>4, ConcatIs
<1> DEFINE r == p \o w
<1> HIDE DEF r
<1>6. r \in Seq(S) /\ Len(r) = n + 1 /\ \A i \in 1..(n + 1) : r[i] = IF i <= n THEN s[i] ELSE e
  <2> DEFINE g == p \o w
  <2>1. g \in Seq(S) /\ Len(g) = n + 1 /\ \A i \in 1..(n + 1) : g[i] = IF i <= n THEN p[i] ELSE w[i - n]
    BY <1>1, <1>4, <1>5
  <2> HIDE DEF g
  <2>2. \A i \in 1..(n + 1) : i <= n \/ i - n = 1
    OBVIOUS
  <2>3. \A i \in 1..(n + 1) : g[i] = IF i <= n THEN s[i] ELSE e
    BY <1>1, <1>4, <2>1, <2>2
  <2> QED BY <2>1, <2>3 DEF r, g
<1>7. /\ r \o q \in Seq(S) /\ Len(r \o q) = (n + 1) + (Len(s) - n)
      /\ \A i \in 1..((n + 1) + (Len(s) - n)) : (r \o q)[i] = IF i <= n + 1 THEN r[i] ELSE q[i - (n + 1)]
  <2>1. /\ r \o q \in Seq(S) /\ Len(r \o q) = Len(r) + Len(q)
        /\ \A i \in 1..(Len(r) + Len(q)) : (r \o q)[i] = IF i <= Len(r) THEN r[i] ELSE q[i - Len(r)]
    BY <1>1, <1>6, ConcatIs, ZenonT(45)
  <2>2. Len(r) = n + 1 /\ Len(q) = Len(s) - n
    BY <1>1, <1>6
  <2> QED BY <2>1, <2>2
<1>8. InsertAt(s, n + 1, e) = r \o q
  BY <1>3 DEF r, w
<1>9. Len(s) \in Nat /\ (n + 1) + (Len(s) - n) = Len(s) + 1
  OBVIOUS
<1>10. ASSUME NEW i \in 1..(Len(s) + 1)
       PROVE  (r \o q)[i] = IF i <= n THEN s[i] ELSE IF i = n + 1 THEN e ELSE s[i - 1]
  <2>1. i \in 1..((n + 1) + (Len(s) - n))
    BY <1>9
  <2>2. CASE i <= n + 1
    BY <1>6, <1>7, <2>1, <2>2
  <2>3. CASE i > n + 1
    <3>1. i - (n + 1) \in 1..(Len(s) - n) /\ n + (i - (n + 1)) = i - 1
      BY <1>9, <2>3
    <3>2. q[i - (n + 1)] = s[i - 1]
      BY <1>1, <3>1
    <3>3. ~(i <= n + 1) /\ ~(i <= n) /\ ~(i = n + 1)
      BY <2>3
    <3> QED BY <1>7, <2>1, <3>2, <3>3
  <2>4. i \in Int /\ n \in Int
    BY <1>9
  <2>5. i <= n + 1 \/ i > n + 1
    BY ONLY <2>4
  <2> QED BY ONLY <2>2, <2>3, <2>5
<1> QED BY <1>7, <1>8, <1>9, <1>10

(* What the removal of one element makes of a sequence. *)
LEMMA RemoveAtIs ==
    ASSUME NEW S, NEW s \in Seq(S), NEW n \in 1..Len(s)
    PROVE  /\ RemoveAt(s, n) \in Seq(S)
           /\ Len(RemoveAt(s, n)) = Len(s) - 1
           /\ \A i \in 1..(Len(s) - 1) : RemoveAt(s, n)[i] = IF i < n THEN s[i] ELSE s[i + 1]
<1> DEFINE p == SubSeq(s, 1, n - 1)
           q == SubSeq(s, n + 1, Len(s))
<1>1. /\ p \in Seq(S) /\ Len(p) = n - 1
      /\ q \in Seq(S) /\ Len(q) = Len(s) - n
      /\ \A i \in 1..(n - 1) : p[i] = s[i]
      /\ \A i \in 1..(Len(s) - n) : q[i] = s[n + i]
  OBVIOUS
<1>2. RemoveAt(s, n) = p \o q
  BY DEF RemoveAt
<1> HIDE DEF p, q
<1>3. /\ p \o q \in Seq(S) /\ Len(p \o q) = (n - 1) + (Len(s) - n)
      /\ \A i \in 1..((n - 1) + (Len(s) - n)) : (p \o q)[i] = IF i <= n - 1 THEN p[i] ELSE q[i - (n - 1)]
  <2>1. /\ p \o q \in Seq(S) /\ Len(p \o q) = Len(p) + Len(q)
        /\ \A i \in 1..(Len(p) + Len(q)) : (p \o q)[i] = IF i <= Len(p) THEN p[i] ELSE q[i - Len(p)]
    BY <1>1, ConcatIs
  <2>2. Len(p) = n - 1 /\ Len(q) = Len(s) - n
    BY <1>1
  <2> QED BY <2>1, <2>2
<1>4. Len(s) \in Nat /\ (n - 1) + (Len(s) - n) = Len(s) - 1
  OBVIOUS
<1>5. ASSUME NEW i \in 1..(Len(s) - 1)
      PROVE  (p \o q)[i] = IF i < n THEN s[i] ELSE s[i + 1]
  <2>1. i \in 1..((n - 1) + (Len(s) - n))
    BY <1>4
  <2>2. CASE i < n
    BY <1>1, <1>3, <2>1, <2>2
  <2>3. CASE ~(i < n)
    <3>1. i - (n - 1) \in 1..(Len(s) - n) /\ n + (i - (n - 1)) = i + 1
      BY <1>4, <2>3
    <3>2. q[i - (n - 1)] = s[i + 1]
      BY <1>1, <3>1
    <3> QED BY <1>3, <2>1, <2>3, <3>2
  <2> QED BY <2>2, <2>3
<1> QED BY <1>2, <1>3, <1>4, <1>5

(* The number of the elements of S up to j. *)
Rank(S, j) == Cardinality({k \in S : k <= j})

(* The elements of a set of indices are counted from 1 upwards, in order. *)
LEMMA RankIs ==
    ASSUME NEW n \in Nat, NEW S, S \subseteq 1..n
    PROVE  /\ Cardinality(S) \in Nat
           /\ \A j \in S : Rank(S, j) \in 1..Cardinality(S)
           /\ \A j, k \in S : j < k => Rank(S, j) < Rank(S, k)
           /\ \A i \in 1..Cardinality(S) : \E j \in S : Rank(S, j) = i
<1> DEFINE R(j) == {k \in S : k <= j}
           f == [j \in S |-> Cardinality(R(j))]
           N == Cardinality(S)
<1>1. IsFiniteSet(S) /\ N \in Nat
  <2>1. IsFiniteSet(1..n)
    BY FS_Interval
  <2>2. IsFiniteSet(S)
    BY <2>1, FS_Subset
  <2> QED BY <2>2, FS_CardinalityType
<1>2. \A j \in S : IsFiniteSet(R(j)) /\ Cardinality(R(j)) \in Nat /\ Cardinality(R(j)) <= N /\ Cardinality(R(j)) > 0
  <2> SUFFICES ASSUME NEW j \in S
               PROVE  IsFiniteSet(R(j)) /\ Cardinality(R(j)) \in Nat /\ Cardinality(R(j)) <= N /\ Cardinality(R(j)) > 0
    OBVIOUS
  <2>1. R(j) \in SUBSET S
    OBVIOUS
  <2>2. j \in R(j)
    OBVIOUS
  <2> HIDE DEF R, N
  <2>3. IsFiniteSet(R(j)) /\ Cardinality(R(j)) <= Cardinality(S)
    BY <1>1, <2>1, FS_Subset
  <2>4. Cardinality(R(j)) \in Nat /\ Cardinality(R(j)) # 0
    BY <2>2, <2>3, FS_CardinalityType, FS_EmptySet
  <2> QED BY <2>3, <2>4 DEF N
<1>3. \A j, k \in S : Cardinality(R(j)) = Cardinality(R(k)) => j = k
  <2>1. \A j, k \in S : j <= k /\ Cardinality(R(j)) = Cardinality(R(k)) => j = k
    <3> SUFFICES ASSUME NEW j \in S, NEW k \in S, j <= k, Cardinality(R(j)) = Cardinality(R(k))
                 PROVE  j = k
      OBVIOUS
    <3>1. j \in Int /\ k \in Int
      OBVIOUS
    <3>2. \A x \in S : x \in Int
      OBVIOUS
    <3>3. R(j) \in SUBSET R(k)
      <4>1. \A x \in S : x <= j => x <= k
        BY <3>1, <3>2
      <4> QED BY <4>1
    <3>4. k \in R(k)
      BY <3>1
    <3>5. R(j) = R(k)
      <4> HIDE DEF R
      <4> QED BY <1>2, <3>3, FS_Subset
    <3> QED BY <3>1, <3>4, <3>5
  <2>2. \A j, k \in S : j <= k \/ k <= j
    OBVIOUS
  <2> HIDE DEF R
  <2> QED BY <2>1, <2>2
<1> HIDE DEF R, N
<1>4. f \in Injection(S, 1..N)
  <2>1. f \in [S -> 1..N]
    BY <1>1, <1>2
  <2>2. \A j, k \in S : f[j] = f[k] => j = k
    BY <1>3
  <2> HIDE DEF f
  <2> QED BY <2>1, <2>2 DEF Injection, IsInjective
<1>5. IsFiniteSet(1..N) /\ Cardinality(1..N) = N
  BY <1>1, FS_Interval
<1> HIDE DEF f
<1>6. f \in Surjection(S, 1..N)
  BY <1>4, <1>5, FS_Injection DEF N
<1>7. \A i \in 1..N : \E j \in S : f[j] = i
  BY <1>6 DEF Surjection
<1>8. \A j \in S : f[j] = Cardinality(R(j)) /\ Rank(S, j) = f[j]
  BY DEF f, R, Rank
<1>9. \A j, k \in S : j < k => f[j] < f[k]
  <2> SUFFICES ASSUME NEW j \in S, NEW k \in S, j < k PROVE f[j] < f[k]
    OBVIOUS
  <2>1. j \in Int /\ k \in Int
    OBVIOUS
  <2>2. \A x \in S : x \in Int
    OBVIOUS
  <2>3. \A x \in S : x <= j => x <= k
    BY <2>1, <2>2
  <2>4. R(j) \in SUBSET R(k)
    BY <2>3 DEF R
  <2>5. Cardinality(R(j)) <= Cardinality(R(k))
    BY <1>2, <2>4, FS_Subset
  <2>6. Cardinality(R(j)) # Cardinality(R(k))
    BY <1>3, <2>1
  <2>7. Cardinality(R(j)) \in Nat /\ Cardinality(R(k)) \in Nat
    BY <1>2
  <2>8. Cardinality(R(j)) < Cardinality(R(k))
    BY ONLY <2>5, <2>6, <2>7
  <2> QED BY <1>8, <2>8
<1>10. \A j \in S : f[j] \in 1..N
  BY <1>1, <1>2, <1>8
<1> QED BY <1>1, <1>7, <1>8, <1>9, <1>10 DEF N

-------------------------------------------------------------------------------
(* The list of the C library and the Breakpoint objects. *)

(* The elements of a sequence and the set of them. *)
LEMMA RangeIs ==
    ASSUME NEW S, NEW s \in Seq(S)
    PROVE  /\ DOMAIN s = 1..Len(s) /\ Len(s) \in Nat
           /\ Range(s) \subseteq S
           /\ \A i \in DOMAIN s : s[i] \in Range(s) /\ s[i] \in S
           /\ \A e \in Range(s) : \E i \in DOMAIN s : e = s[i]
  BY DEF Range

(* detach keeps the elements with an index in S, in their order. *)
LEMMA KeptIs ==
    ASSUME NEW T, NEW s \in Seq(T), NEW S, S \subseteq DOMAIN s
    PROVE  /\ Kept(s, S) \in Seq(T)
           /\ Range(Kept(s, S)) = {s[j] : j \in S}
           /\ \A i, k \in DOMAIN Kept(s, S) :
                 i < k => \E a, b \in S : a < b /\ Kept(s, S)[i] = s[a] /\ Kept(s, S)[k] = s[b]
<1> DEFINE N == Cardinality(S)
           J(i) == CHOOSE j \in S : Rank(S, j) = i
           K == [i \in 1..N |-> s[J(i)]]
<1>1. Kept(s, S) = K
  BY DEF Kept, Rank
<1>2. DOMAIN s = 1..Len(s) /\ Len(s) \in Nat
  OBVIOUS
<1>3. /\ N \in Nat
      /\ \A j \in S : Rank(S, j) \in 1..N
      /\ \A j, k \in S : j < k => Rank(S, j) < Rank(S, k)
      /\ \A i \in 1..N : \E j \in S : Rank(S, j) = i
  BY <1>2, RankIs
<1>4. \A i \in 1..N : J(i) \in S /\ Rank(S, J(i)) = i
  BY <1>3
<1>5. \A j \in S : j \in Int /\ s[j] \in T
  BY <1>2
<1> HIDE DEF N, J
<1>6. \A j \in S : J(Rank(S, j)) = j
  <2> SUFFICES ASSUME NEW j \in S PROVE J(Rank(S, j)) = j
    OBVIOUS
  <2> DEFINE k == J(Rank(S, j))
  <2>1. k \in S /\ Rank(S, k) = Rank(S, j) /\ Rank(S, j) \in Int
    BY <1>3, <1>4
  <2> HIDE DEF k
  <2>2. ~(j < k) /\ ~(k < j)
    BY <1>3, <2>1
  <2> QED BY <1>5, <2>1, <2>2 DEF k
<1>7. K \in Seq(T)
  BY <1>3, <1>4, <1>5
<1>8. Range(K) = {s[j] : j \in S}
  <2>1. \A i \in 1..N : K[i] = s[J(i)]
    OBVIOUS
  <2>2. DOMAIN K = 1..N
    OBVIOUS
  <2> HIDE DEF K
  <2>3. ASSUME NEW x \in Range(K) PROVE x \in {s[j] : j \in S}
    BY <1>4, <2>1, <2>2 DEF Range
  <2>4. ASSUME NEW j \in S PROVE s[j] \in Range(K)
    BY <1>3, <1>6, <2>1, <2>2 DEF Range
  <2> QED BY <2>3, <2>4
<1>9. ASSUME NEW i \in 1..N, NEW k \in 1..N, i < k
      PROVE  \E a, b \in S : a < b /\ K[i] = s[a] /\ K[k] = s[b]
  <2>1. J(i) \in S /\ J(k) \in S /\ Rank(S, J(i)) = i /\ Rank(S, J(k)) = k
    BY <1>4
  <2>2. ~(J(k) < J(i)) /\ J(k) # J(i)
    <3>1. i \in Int /\ k \in Int
      BY <1>3
    <3>2. J(k) < J(i) => k < i
      BY <1>3, <2>1
    <3> QED BY <1>9, <2>1, <3>1, <3>2
  <2>3. J(i) < J(k)
    <3>1. J(i) \in Int /\ J(k) \in Int
      BY <1>5, <2>1
    <3> QED BY <2>2, <3>1
  <2>4. K[i] = s[J(i)] /\ K[k] = s[J(k)]
    OBVIOUS
  <2> HIDE DEF K
  <2> QED BY <2>1, <2>3, <2>4
<1>10. DOMAIN K = 1..N
  OBVIOUS
<1> HIDE DEF K
<1> QED BY <1>1, <1>7, <1>8, <1>9, <1>10

(* What the search of a list by address finds. *)
LEMMA ListedIs ==
    ASSUME NEW l, NEW a
    PROVE  /\ Listed(l, a) <=> Has(Range(l), a)
           /\ Listed(l, a) => /\ IndexOf(l, a) \in DOMAIN l /\ l[IndexOf(l, a)].addr = a
                              /\ EntryAt(l, a) = l[IndexOf(l, a)]
                              /\ EntryAt(l, a) \in Range(l) /\ EntryAt(l, a).addr = a
<1>1. Listed(l, a) <=> Has(Range(l), a)
  BY DEF Listed, Has, Range
<1>2. Listed(l, a) => IndexOf(l, a) \in DOMAIN l /\ l[IndexOf(l, a)].addr = a
  BY DEF Listed, IndexOf
<1> QED BY <1>1, <1>2 DEF EntryAt, Range

(* In an ordered list an address identifies the entry and its place. *)
LEMMA OrderedUnique ==
    ASSUME NEW l \in Seq(Entry), Ordered(l)
    PROVE  /\ Unique(Range(l))
           /\ \A i, j \in DOMAIN l : l[i].addr <= l[j].addr <=> i <= j
<1>1. \A i \in DOMAIN l : i \in Int /\ l[i].addr \in Int
  <2>1. \A i \in DOMAIN l : i \in Int /\ l[i] \in Entry
    BY RangeIs
  <2> QED BY <2>1 DEF Entry, Addrs
<1>2. \A i, j \in DOMAIN l : l[i].addr <= l[j].addr <=> i <= j
  BY <1>1 DEF Ordered
<1>3. \A i, j \in DOMAIN l : l[i].addr = l[j].addr => i = j
  BY <1>1, <1>2
<1> QED BY <1>2, <1>3 DEF Unique, Range

(* An address identifies one of the breakpoints. *)
LEMMA DistinctUnique ==
    ASSUME NEW bs, Distinct(bs)
    PROVE  Unique(Range(bs))
  BY DEF Distinct, Unique, Range

(* register_breakpoint's insertion keeps the list ordered and adds one     *)
(* entry.                                                                  *)
LEMMA InsertIs ==
    ASSUME NEW l \in Seq(Entry), Ordered(l), NEW b \in Entry, ~Listed(l, b.addr)
    PROVE  /\ Insert(l, b) \in Seq(Entry)
           /\ Ordered(Insert(l, b))
           /\ Range(Insert(l, b)) = Range(l) \cup {b}
<1> DEFINE P(n) == /\ \A i \in 1..n : l[i].addr < b.addr
                   /\ n < Len(l) => l[n + 1].addr >= b.addr
           N == CHOOSE n \in 0..Len(l) : P(n)
           q == Insert(l, b)
<1>1. DOMAIN l = 1..Len(l) /\ Len(l) \in Nat /\ \A i \in 1..Len(l) : l[i] \in Entry
  BY RangeIs
<1>2. b.addr \in Int /\ \A i \in 1..Len(l) : l[i].addr \in Int
  BY <1>1 DEF Entry, Addrs
<1>3. \E n \in 0..Len(l) : P(n)
  <2> DEFINE S == {i \in 0..Len(l) : i < Len(l) => l[i + 1].addr >= b.addr}
  <2>1. Len(l) \in S /\ S \subseteq Nat
    BY <1>1
  <2>2. PICK n \in S : \A k \in S : n <= k
    BY <2>1, Smallest
  <2>3. \A i \in 1..n : l[i].addr < b.addr
    <3> SUFFICES ASSUME NEW i \in 1..n PROVE l[i].addr < b.addr
      OBVIOUS
    <3>1. n \in 0..Len(l)
      OBVIOUS
    <3>2. i - 1 \in 0..Len(l) /\ i - 1 < n /\ i - 1 < Len(l) /\ (i - 1) + 1 = i /\ i \in 1..Len(l)
      BY <1>1, <3>1
    <3>3. i - 1 \notin S
      BY <2>2, <3>1, <3>2
    <3>4. ~(l[i].addr >= b.addr)
      BY <3>2, <3>3
    <3> QED BY <1>2, <3>2, <3>4
  <2> QED BY <2>3
<1>4. N \in 0..Len(l) /\ P(N)
  BY <1>3
<1>5. q = InsertAt(l, N + 1, b)
  BY DEF Insert
<1> HIDE DEF N, q
<1>6. /\ q \in Seq(Entry) /\ Len(q) = Len(l) + 1
      /\ \A i \in 1..(Len(l) + 1) : q[i] = IF i <= N THEN l[i] ELSE IF i = N + 1 THEN b ELSE l[i - 1]
  <2>1. N \in 0..Len(l)
    BY <1>4
  <2>2. /\ InsertAt(l, N + 1, b) \in Seq(Entry)
        /\ Len(InsertAt(l, N + 1, b)) = Len(l) + 1
        /\ \A i \in 1..(Len(l) + 1) :
              InsertAt(l, N + 1, b)[i] = IF i <= N THEN l[i] ELSE IF i = N + 1 THEN b ELSE l[i - 1]
    BY <2>1, InsertAtIs
  <2> QED BY <1>5, <2>2
<1>7. DOMAIN q = 1..(Len(l) + 1)
  BY <1>6, RangeIs
<1>8. N \in Nat /\ N <= Len(l)
  BY <1>1, <1>4
<1>9. /\ \A i \in 1..Len(l) : i <= N => l[i].addr < b.addr
      /\ \A i \in 1..Len(l) : i > N => l[i].addr > b.addr
  <2>1. ASSUME NEW i \in 1..Len(l), i <= N PROVE l[i].addr < b.addr
    BY <1>4, <1>8, <2>1
  <2>2. ASSUME NEW i \in 1..Len(l), i > N PROVE l[i].addr > b.addr
    <3>1. N < Len(l) /\ N + 1 \in 1..Len(l)
      BY <1>1, <1>8, <2>2
    <3>2. l[N + 1].addr >= b.addr
      BY <1>4, <3>1
    <3>3. l[N + 1].addr # b.addr
      BY <1>1, <3>1 DEF Listed
    <3>4. i = N + 1 \/ l[N + 1].addr < l[i].addr
      BY <1>1, <1>8, <2>2, <3>1 DEF Ordered
    <3> QED BY <1>2, <3>1, <3>2, <3>3, <3>4
  <2> QED BY <2>1, <2>2
<1>10. ASSUME NEW i \in 1..(Len(l) + 1), NEW j \in 1..(Len(l) + 1), i < j
       PROVE  q[i].addr < q[j].addr
  <2>1. CASE i <= N /\ j <= N
    <3>1. q[i] = l[i] /\ q[j] = l[j] /\ i \in 1..Len(l) /\ j \in 1..Len(l)
      BY <1>6, <1>8, <2>1
    <3> QED BY <1>1, <1>10, <3>1 DEF Ordered
  <2>2. CASE i <= N /\ j = N + 1
    <3>1. q[i] = l[i] /\ q[j] = b /\ i \in 1..Len(l)
      BY <1>6, <1>8, <2>2
    <3> QED BY <1>9, <2>2, <3>1
  <2>3. CASE i <= N /\ j > N + 1
    <3>1. q[i] = l[i] /\ q[j] = l[j - 1] /\ i \in 1..Len(l) /\ j - 1 \in 1..Len(l) /\ j - 1 > N
      BY <1>6, <1>8, <2>3
    <3>2. l[i].addr < b.addr /\ l[j - 1].addr > b.addr
      BY <1>9, <2>3, <3>1
    <3> QED BY <1>2, <3>1, <3>2
  <2>4. CASE i = N + 1
    <3>1. q[i] = b /\ q[j] = l[j - 1] /\ j - 1 \in 1..Len(l) /\ j - 1 > N
      BY <1>6, <1>8, <1>10, <2>4
    <3>2. l[j - 1].addr > b.addr
      BY <1>9, <3>1
    <3> QED BY <1>2, <3>1, <3>2
  <2>5. CASE i > N + 1
    <3>1. /\ q[i] = l[i - 1] /\ q[j] = l[j - 1]
          /\ i - 1 \in 1..Len(l) /\ j - 1 \in 1..Len(l) /\ i - 1 < j - 1
      BY <1>6, <1>8, <1>10, <2>5
    <3> QED BY <1>1, <3>1 DEF Ordered
  <2>6. i \in Int /\ j \in Int /\ N \in Int
    BY <1>8
  <2>7. (i <= N \/ i = N + 1 \/ i > N + 1) /\ (j <= N \/ j = N + 1 \/ j > N + 1)
    BY ONLY <2>6
  <2> QED BY ONLY <2>1, <2>2, <2>3, <2>4, <2>5, <2>7
<1>11. ASSUME NEW i \in 1..(Len(l) + 1)
       PROVE  q[i] = b \/ \E j \in 1..Len(l) : q[i] = l[j]
  <2>1. i <= N => q[i] = l[i] /\ i \in 1..Len(l)
    BY <1>6, <1>8
  <2>2. i > N + 1 => q[i] = l[i - 1] /\ i - 1 \in 1..Len(l)
    BY <1>6, <1>8
  <2>3. i = N + 1 => q[i] = b
    BY <1>6, <1>8
  <2>4. i <= N \/ i = N + 1 \/ i > N + 1
    BY <1>8
  <2> QED BY <2>1, <2>2, <2>3, <2>4
<1>12. /\ N + 1 \in 1..(Len(l) + 1) /\ q[N + 1] = b
       /\ \A j \in 1..Len(l) : \E i \in 1..(Len(l) + 1) : q[i] = l[j]
  <2>1. N + 1 \in 1..(Len(l) + 1) /\ q[N + 1] = b
    BY <1>6, <1>8
  <2>2. ASSUME NEW j \in 1..Len(l) PROVE \E i \in 1..(Len(l) + 1) : q[i] = l[j]
    <3>1. j <= N => j \in 1..(Len(l) + 1) /\ q[j] = l[j]
      BY <1>6, <1>8
    <3>2. j > N => j + 1 \in 1..(Len(l) + 1) /\ q[j + 1] = l[j]
      BY <1>6, <1>8
    <3>3. j <= N \/ j > N
      BY <1>8
    <3> QED BY <3>1, <3>2, <3>3
  <2> QED BY <2>1, <2>2
<1>13. Range(q) = Range(l) \cup {b}
  <2>1. ASSUME NEW x \in Range(q) PROVE x \in Range(l) \cup {b}
    BY <1>1, <1>7, <1>11 DEF Range
  <2>2. ASSUME NEW x \in Range(l) PROVE x \in Range(q)
    BY <1>1, <1>7, <1>12 DEF Range
  <2>3. b \in Range(q)
    BY <1>7, <1>12 DEF Range
  <2> QED BY <2>1, <2>2, <2>3
<1>14. Ordered(q)
  BY <1>7, <1>10 DEF Ordered
<1> QED BY <1>6, <1>13, <1>14 DEF q

(* A change of the elements that leaves their addresses alone keeps a list *)
(* ordered.                                                                *)
LEMMA MapIs ==
    ASSUME NEW S, NEW l \in Seq(S), NEW g \in [S -> S], \A e \in S : g[e].addr = e.addr,
           NEW q, q = [i \in DOMAIN l |-> g[l[i]]]
    PROVE  /\ q \in Seq(S) /\ Range(q) = {g[e] : e \in Range(l)}
           /\ Ordered(l) => Ordered(q)
           /\ Distinct(l) => Distinct(q)
<1>1. DOMAIN l = 1..Len(l) /\ Len(l) \in Nat /\ \A i \in DOMAIN l : l[i] \in S
  BY RangeIs
<1>2. DOMAIN q = DOMAIN l /\ \A i \in DOMAIN l : q[i] = g[l[i]] /\ q[i].addr = l[i].addr /\ q[i] \in S
  BY <1>1
<1>3. q \in Seq(S)
  BY <1>1, <1>2
<1>4. Range(q) = {g[e] : e \in Range(l)}
  BY <1>2 DEF Range
<1> QED BY <1>2, <1>3, <1>4 DEF Ordered, Distinct

Flagged(e, a, f) == IF e.addr = a THEN [e EXCEPT !.enabled = f] ELSE e
AppliedEntry(e, B) ==
    IF \E b \in B : b.addr = e.addr /\ b.changed
    THEN [e EXCEPT !.enabled = \E b \in B : b.addr = e.addr /\ b.enabled] ELSE e
AppliedBp(b) == [b EXCEPT !.changed = FALSE, !.disabled_for_step = FALSE]

(* What the enabling of one entry makes of the list. *)
LEMMA SetFlagIs ==
    ASSUME NEW l \in Seq(Entry), Ordered(l), NEW a, NEW f \in BOOLEAN
    PROVE  /\ SetFlag(l, a, f) \in Seq(Entry) /\ Ordered(SetFlag(l, a, f))
           /\ Range(SetFlag(l, a, f)) = {Flagged(e, a, f) : e \in Range(l)}
<1> DEFINE g == [e \in Entry |-> Flagged(e, a, f)]
           q == SetFlag(l, a, f)
<1>1. \A e \in Entry : Flagged(e, a, f) \in Entry /\ Flagged(e, a, f).addr = e.addr
  BY DEF Flagged, Entry
<1>2. g \in [Entry -> Entry] /\ \A e \in Entry : g[e] = Flagged(e, a, f) /\ g[e].addr = e.addr
  BY <1>1
<1>3. Range(l) \subseteq Entry /\ \A i \in DOMAIN l : l[i] \in Entry
  BY RangeIs
<1>4. q = [i \in DOMAIN l |-> g[l[i]]]
  BY <1>3 DEF SetFlag, Flagged
<1> HIDE DEF g, q
<1>5. g \in [Entry -> Entry] /\ \A e \in Entry : g[e].addr = e.addr
  BY <1>2
<1>6. /\ q \in Seq(Entry) /\ Range(q) = {g[e] : e \in Range(l)}
      /\ Ordered(l) => Ordered(q)
      /\ Distinct(l) => Distinct(q)
  BY <1>5, <1>4, MapIs
<1>7. {g[e] : e \in Range(l)} = {Flagged(e, a, f) : e \in Range(l)}
  BY <1>2, <1>3
<1> QED BY <1>6, <1>7 DEF q

(* What prepare_for_run's changes make of the list. *)
LEMMA AppliedListIs ==
    ASSUME NEW l \in Seq(Entry), Ordered(l), NEW bs
    PROVE  /\ AppliedList(l, bs) \in Seq(Entry) /\ Ordered(AppliedList(l, bs))
           /\ Range(AppliedList(l, bs)) = {AppliedEntry(e, Range(bs)) : e \in Range(l)}
<1> DEFINE g == [e \in Entry |-> AppliedEntry(e, Range(bs))]
           q == AppliedList(l, bs)
<1>1. \A e \in Entry : AppliedEntry(e, Range(bs)) \in Entry /\ AppliedEntry(e, Range(bs)).addr = e.addr
  <2> DEFINE P(e) == \E b \in Range(bs) : b.addr = e.addr /\ b.enabled
  <2>1. \A e \in Entry : P(e) \in BOOLEAN
    OBVIOUS
  <2>2. \A e \in Entry, v \in BOOLEAN : [e EXCEPT !.enabled = v] \in Entry /\ [e EXCEPT !.enabled = v].addr = e.addr
    BY DEF Entry
  <2> HIDE DEF P
  <2>3. \A e \in Entry : [e EXCEPT !.enabled = P(e)] \in Entry /\ [e EXCEPT !.enabled = P(e)].addr = e.addr
    BY <2>1, <2>2
  <2> QED BY <2>3 DEF AppliedEntry, P
<1>2. g \in [Entry -> Entry] /\ \A e \in Entry : g[e] = AppliedEntry(e, Range(bs)) /\ g[e].addr = e.addr
  BY <1>1
<1>3. Range(l) \subseteq Entry /\ \A i \in DOMAIN l : l[i] \in Entry
  BY RangeIs
<1>4. q = [i \in DOMAIN l |-> g[l[i]]]
  <2>1. \A i \in DOMAIN l : g[l[i]] = AppliedEntry(l[i], Range(bs))
    BY <1>2, <1>3
  <2>2. ASSUME NEW x
        PROVE  /\ (\E b \in Range(bs) : b.addr = x /\ b.changed) <=> (\E j \in DOMAIN bs : bs[j].addr = x /\ bs[j].changed)
               /\ (\E b \in Range(bs) : b.addr = x /\ b.enabled) = (\E j \in DOMAIN bs : bs[j].addr = x /\ bs[j].enabled)
    BY DEF Range
  <2> HIDE DEF g
  <2>3. \A i \in DOMAIN l : AppliedEntry(l[i], Range(bs)) = q[i]
    <3> SUFFICES ASSUME NEW i \in DOMAIN l PROVE AppliedEntry(l[i], Range(bs)) = q[i]
      OBVIOUS
    <3> DEFINE C == \E b \in Range(bs) : b.addr = l[i].addr /\ b.changed
               D == \E j \in DOMAIN bs : bs[j].addr = l[i].addr /\ bs[j].changed
               P == \E b \in Range(bs) : b.addr = l[i].addr /\ b.enabled
               Q == \E j \in DOMAIN bs : bs[j].addr = l[i].addr /\ bs[j].enabled
    <3>1. AppliedEntry(l[i], Range(bs)) = IF C THEN [l[i] EXCEPT !.enabled = P] ELSE l[i]
      BY DEF AppliedEntry
    <3>2. q[i] = IF D THEN [l[i] EXCEPT !.enabled = Q] ELSE l[i]
      BY DEF AppliedList
    <3>3. (C <=> D) /\ P = Q
      BY <2>2, ZenonT(45)
    <3> HIDE DEF C, D, P, Q, q
    <3> QED BY <3>1, <3>2, <3>3
  <2>4. q = [i \in DOMAIN l |-> q[i]]
    BY DEF AppliedList
  <2> HIDE DEF q
  <2> QED BY <2>1, <2>3, <2>4
<1> HIDE DEF g, q
<1>5. /\ q \in Seq(Entry) /\ Range(q) = {g[e] : e \in Range(l)}
      /\ Ordered(l) => Ordered(q)
      /\ Distinct(l) => Distinct(q)
  BY <1>2, <1>4, MapIs
<1>6. {g[e] : e \in Range(l)} = {AppliedEntry(e, Range(bs)) : e \in Range(l)}
  BY <1>2, <1>3
<1> QED BY <1>5, <1>6 DEF q

(* What prepare_for_run makes of the Breakpoint objects. *)
LEMMA AppliedBpsIs ==
    ASSUME NEW bs \in Seq(Bp), Distinct(bs)
    PROVE  /\ AppliedBps(bs) \in Seq(Bp) /\ Distinct(AppliedBps(bs))
           /\ Range(AppliedBps(bs)) = {AppliedBp(b) : b \in Range(bs)}
<1> DEFINE g == [b \in Bp |-> AppliedBp(b)]
           q == AppliedBps(bs)
<1>1. \A b \in Bp : AppliedBp(b) \in Bp /\ AppliedBp(b).addr = b.addr
  BY DEF AppliedBp, Bp
<1>2. g \in [Bp -> Bp] /\ \A b \in Bp : g[b] = AppliedBp(b) /\ g[b].addr = b.addr
  BY <1>1
<1>3. Range(bs) \subseteq Bp /\ \A i \in DOMAIN bs : bs[i] \in Bp
  BY RangeIs
<1>4. q = [i \in DOMAIN bs |-> g[bs[i]]]
  BY <1>3 DEF AppliedBps, AppliedBp
<1> HIDE DEF g, q
<1>5. /\ q \in Seq(Bp) /\ Range(q) = {g[b] : b \in Range(bs)}
      /\ Distinct(bs) => Distinct(q)
  BY <1>2, <1>4, MapIs, SMTT(30)
<1>6. {g[b] : b \in Range(bs)} = {AppliedBp(b) : b \in Range(bs)}
  BY <1>2, <1>3
<1> QED BY <1>5, <1>6 DEF q

(* The removal of an element removes its address and keeps the order. *)
LEMMA RemoveIs ==
    ASSUME NEW S, NEW l \in Seq(S), Distinct(l), NEW at \in DOMAIN l
    PROVE  /\ RemoveAt(l, at) \in Seq(S) /\ Distinct(RemoveAt(l, at))
           /\ Range(RemoveAt(l, at)) = {e \in Range(l) : e.addr # l[at].addr}
           /\ Ordered(l) => Ordered(RemoveAt(l, at))
<1> DEFINE q == RemoveAt(l, at)
           N == Len(l)
           J(i) == IF i < at THEN i ELSE i + 1
<1>1. DOMAIN l = 1..N /\ N \in Nat
  BY RangeIs
<1>2. q \in Seq(S) /\ Len(q) = N - 1 /\ \A i \in 1..(N - 1) : q[i] = IF i < at THEN l[i] ELSE l[i + 1]
  BY <1>1, RemoveAtIs
<1> HIDE DEF q, N
<1>3. DOMAIN q = 1..(N - 1)
  BY <1>2, RangeIs
<1>4. at \in 1..N
  BY <1>1
<1>5. /\ \A i \in 1..(N - 1) : q[i] = l[J(i)] /\ J(i) \in 1..N /\ J(i) # at
      /\ \A i, k \in 1..(N - 1) : (i < k => J(i) < J(k)) /\ (J(i) = J(k) => i = k)
      /\ \A j \in 1..N : j # at => \E i \in 1..(N - 1) : J(i) = j
  <2>1. \A i \in 1..(N - 1) : q[i] = l[J(i)]
    BY <1>2
  <2>2. \A i \in 1..(N - 1) : J(i) \in 1..N /\ J(i) # at
    BY <1>1, <1>4
  <2>3. \A i, k \in 1..(N - 1) : (i < k => J(i) < J(k)) /\ (J(i) = J(k) => i = k)
    BY <1>1, <1>4
  <2>4. ASSUME NEW j \in 1..N, j # at PROVE \E i \in 1..(N - 1) : J(i) = j
    <3>1. CASE j < at
      <4>1. j \in 1..(N - 1) /\ J(j) = j
        BY <1>1, <1>4, <3>1
      <4> QED BY <4>1
    <3>2. CASE j > at
      <4>1. j - 1 \in 1..(N - 1) /\ J(j - 1) = j
        BY <1>1, <1>4, <3>2
      <4> QED BY <4>1
    <3> QED BY <1>1, <1>4, <2>4, <3>1, <3>2
  <2> QED BY <2>1, <2>2, <2>3, <2>4
<1> HIDE DEF J
<1>6. Range(q) = {e \in Range(l) : e.addr # l[at].addr}
  <2>1. ASSUME NEW x \in Range(q) PROVE x \in Range(l) /\ x.addr # l[at].addr
    <3>1. PICK i \in 1..(N - 1) : x = q[i]
      BY <1>3 DEF Range
    <3>2. x = l[J(i)] /\ J(i) \in DOMAIN l /\ J(i) # at
      BY <1>1, <1>5, <3>1
    <3> QED BY <3>2 DEF Distinct, Range
  <2>2. ASSUME NEW x \in Range(l), x.addr # l[at].addr PROVE x \in Range(q)
    <3>1. PICK j \in DOMAIN l : x = l[j]
      BY DEF Range
    <3>2. j \in 1..N /\ j # at
      BY <1>1, <2>2, <3>1
    <3>3. PICK i \in 1..(N - 1) : J(i) = j
      BY <1>5, <3>2
    <3> QED BY <1>3, <1>5, <3>1, <3>3 DEF Range
  <2> QED BY <2>1, <2>2
<1>7. Distinct(q)
  <2> SUFFICES ASSUME NEW i \in 1..(N - 1), NEW k \in 1..(N - 1), q[i].addr = q[k].addr PROVE i = k
    BY <1>3 DEF Distinct
  <2>1. l[J(i)].addr = l[J(k)].addr /\ J(i) \in DOMAIN l /\ J(k) \in DOMAIN l
    BY <1>1, <1>5
  <2>2. J(i) = J(k)
    BY <2>1 DEF Distinct
  <2> QED BY <1>5, <2>2
<1>8. Ordered(l) => Ordered(q)
  <2> SUFFICES ASSUME Ordered(l), NEW i \in 1..(N - 1), NEW k \in 1..(N - 1), i < k
               PROVE  q[i].addr < q[k].addr
    BY <1>3 DEF Ordered
  <2>1. J(i) < J(k) /\ J(i) \in DOMAIN l /\ J(k) \in DOMAIN l
    BY <1>1, <1>5
  <2> QED BY <1>5, <2>1 DEF Ordered
<1> QED BY <1>2, <1>6, <1>7, <1>8 DEF q

(* An ordered list has no address twice. *)
LEMMA OrderedDistinct ==
    ASSUME NEW l \in Seq(Entry), Ordered(l)
    PROVE  Distinct(l)
<1>1. \A i, j \in DOMAIN l : i \in Int /\ j \in Int /\ (l[i].addr <= l[j].addr <=> i <= j)
  BY OrderedUnique, RangeIs
<1>2. \A i \in DOMAIN l : l[i].addr \in Int
  <2>1. \A i \in DOMAIN l : l[i] \in Entry
    BY RangeIs
  <2> QED BY <2>1 DEF Entry, Addrs
<1> QED BY <1>1, <1>2 DEF Distinct

(* What unregister_breakpoint makes of the list. *)
LEMMA UnregisterIs ==
    ASSUME NEW l \in Seq(Entry), Ordered(l), NEW a, Listed(l, a)
    PROVE  /\ Unregister(l, a) \in Seq(Entry) /\ Ordered(Unregister(l, a))
           /\ Range(Unregister(l, a)) = {e \in Range(l) : e.addr # a}
<1>1. IndexOf(l, a) \in DOMAIN l /\ l[IndexOf(l, a)].addr = a
  BY ListedIs
<1>2. Unregister(l, a) = RemoveAt(l, IndexOf(l, a))
  BY DEF Unregister
<1>3. /\ RemoveAt(l, IndexOf(l, a)) \in Seq(Entry)
      /\ Range(RemoveAt(l, IndexOf(l, a))) = {e \in Range(l) : e.addr # l[IndexOf(l, a)].addr}
      /\ Ordered(l) => Ordered(RemoveAt(l, IndexOf(l, a)))
  BY <1>1, OrderedDistinct, RemoveIs
<1> QED BY <1>1, <1>2, <1>3

(* What the deletion of a Breakpoint makes of the objects. *)
LEMMA DelBpIs ==
    ASSUME bps \in Seq(Bp), Distinct(bps), NEW a, Known(a)
    PROVE  /\ DelBp(a) \in Seq(Bp) /\ Distinct(DelBp(a))
           /\ Range(DelBp(a)) = {b \in Range(bps) : b.addr # a}
<1>1. IndexOf(bps, a) \in DOMAIN bps /\ bps[IndexOf(bps, a)].addr = a
  BY ListedIs DEF Known
<1>2. DelBp(a) = RemoveAt(bps, IndexOf(bps, a))
  BY DEF DelBp
<1>3. /\ RemoveAt(bps, IndexOf(bps, a)) \in Seq(Bp) /\ Distinct(RemoveAt(bps, IndexOf(bps, a)))
      /\ Range(RemoveAt(bps, IndexOf(bps, a))) = {e \in Range(bps) : e.addr # bps[IndexOf(bps, a)].addr}
  BY <1>1, RemoveIs
<1> QED BY <1>1, <1>2, <1>3

(* What a new Breakpoint, or one in the place of another, makes of the     *)
(* objects.                                                                *)
LEMMA PutBpIs ==
    ASSUME bps \in Seq(Bp), Distinct(bps), NEW a \in Addrs
    PROVE  /\ PutBp(a) \in Seq(Bp) /\ Distinct(PutBp(a))
           /\ Range(PutBp(a)) = {b \in Range(bps) : b.addr # a} \cup {NewBp(a)}
<1>1. NewBp(a) \in Bp /\ NewBp(a).addr = a
  BY DEF NewBp, Bp
<1>2. /\ DOMAIN bps = 1..Len(bps) /\ Len(bps) \in Nat
      /\ \A i \in DOMAIN bps : bps[i] \in Bp /\ bps[i] \in Range(bps)
  BY RangeIs
<1> DEFINE n == NewBp(a)
<1> HIDE DEF n
<1>3. n \in Bp /\ n.addr = a /\ n = NewBp(a)
  BY <1>1 DEF n
<1>4. CASE Known(a)
  <2> DEFINE q == [i \in DOMAIN bps |-> IF bps[i].addr = a THEN n ELSE bps[i]]
  <2>1. PutBp(a) = q
    BY <1>3, <1>4 DEF PutBp
  <2>2. /\ DOMAIN q = DOMAIN bps
        /\ \A i \in DOMAIN bps : q[i] = (IF bps[i].addr = a THEN n ELSE bps[i]) /\ q[i].addr = bps[i].addr /\ q[i] \in Bp
    BY <1>2, <1>3
  <2>3. q \in Seq(Bp)
    BY <1>2, <2>2
  <2> HIDE DEF q
  <2>4. Distinct(q)
    BY <2>2 DEF Distinct
  <2>5. Range(q) = {b \in Range(bps) : b.addr # a} \cup {n}
    <3>1. PICK j \in DOMAIN bps : bps[j].addr = a
      BY <1>4 DEF Known, Listed
    <3>2. n \in Range(q)
      BY <2>2, <3>1 DEF Range
    <3>3. ASSUME NEW x \in Range(q) PROVE x \in {b \in Range(bps) : b.addr # a} \cup {n}
      BY <1>2, <2>2 DEF Range
    <3>4. ASSUME NEW b \in Range(bps), b.addr # a PROVE b \in Range(q)
      BY <2>2, <3>4 DEF Range
    <3> QED BY <3>2, <3>3, <3>4
  <2> QED BY <1>3, <2>1, <2>3, <2>4, <2>5
<1>5. CASE ~Known(a)
  <2> DEFINE q == Append(bps, n)
  <2>1. PutBp(a) = q
    BY <1>3, <1>5 DEF PutBp
  <2>2. /\ q \in Seq(Bp) /\ DOMAIN q = 1..(Len(bps) + 1) /\ q[Len(bps) + 1] = n
        /\ \A i \in 1..Len(bps) : q[i] = bps[i]
    BY <1>3
  <2> HIDE DEF q
  <2>3. \A i \in DOMAIN bps : bps[i].addr # a
    BY <1>5 DEF Known, Listed
  <2>4. \A i \in DOMAIN q : i \in DOMAIN bps \/ i = Len(bps) + 1
    BY <1>2, <2>2
  <2>5. Distinct(q)
    BY <1>2, <1>3, <2>2, <2>3, <2>4 DEF Distinct
  <2>6. Range(q) = {b \in Range(bps) : b.addr # a} \cup {n}
    <3>1. n \in Range(q)
      <4>1. Len(bps) + 1 \in DOMAIN q
        BY <1>2, <2>2
      <4> QED BY <2>2, <4>1 DEF Range
    <3>2. ASSUME NEW x \in Range(q) PROVE x \in {b \in Range(bps) : b.addr # a} \cup {n}
      BY <1>2, <2>2, <2>3, <2>4 DEF Range
    <3>3. ASSUME NEW b \in Range(bps), b.addr # a PROVE b \in Range(q)
      <4>1. PICK i \in DOMAIN bps : b = bps[i]
        BY DEF Range
      <4>2. i \in DOMAIN q /\ q[i] = bps[i]
        BY <1>2, <2>2
      <4> QED BY <4>1, <4>2 DEF Range
    <3> QED BY <3>1, <3>2, <3>3
  <2> QED BY <1>3, <2>1, <2>2, <2>5, <2>6
<1> QED BY <1>4, <1>5

-------------------------------------------------------------------------------
(* Memory, byte by byte. *)

(* What is assumed of the sizes, for use as a fact. *)
LEMMA Sizes ==
    /\ MaxAddr \in Nat /\ WordSize \in Nat /\ WordSize > 1
    /\ Addrs \subseteq Cells /\ Addrs \subseteq Nat /\ Cells \subseteq Nat
    /\ 0 \in Offsets /\ NoAddr \notin Addrs
  BY BreakpointsAssumption DEF Addrs, Cells, Offsets, NoAddr

(* An instruction pointer is the address of a byte that memory has. *)
LEMMA PointerInCode ==
    \A x \in 0..(MaxAddr + 1) : x \in Cells
<1>1. MaxAddr \in Nat /\ WordSize \in Nat /\ WordSize > 1
  BY Sizes
<1> QED BY <1>1 DEF Cells

(* The bytes of the word at a, by address and by offset. *)
LEMMA Covering ==
    ASSUME NEW a \in Addrs
    PROVE  /\ Covers(a, a)
           /\ \A x \in Cells : Covers(a, x) => a <= x /\ x - a \in Offsets /\ a + (x - a) = x /\ (x - a = 0 <=> x = a)
           /\ \A k \in Offsets : a + k \in Cells /\ Covers(a, a + k) /\ (a + k) - a = k
<1>1. MaxAddr \in Nat /\ WordSize \in Nat /\ WordSize > 1
  BY Sizes
<1>2. a \in Nat /\ a <= MaxAddr
  BY <1>1 DEF Addrs
<1>3. Covers(a, a)
  BY <1>1, <1>2 DEF Covers
<1>4. \A x \in Cells : Covers(a, x) => a <= x /\ x - a \in Offsets /\ a + (x - a) = x /\ (x - a = 0 <=> x = a)
  BY <1>1, <1>2 DEF Covers, Cells, Offsets
<1>5. \A k \in Offsets : a + k \in Cells /\ Covers(a, a + k) /\ (a + k) - a = k
  BY <1>1, <1>2 DEF Covers, Cells, Offsets
<1> QED BY <1>3, <1>4, <1>5

(* q is m after the pokes w[i], i \in S. *)
Poked(q, m, w, S) ==
    /\ DOMAIN q = Cells
    /\ q = [x \in Cells |-> q[x]]
    /\ \A x \in Cells :
          \/ /\ \A i \in S : ~Covers(w[i].addr, x)
             /\ q[x] = m[x]
          \/ \E i \in S : /\ Covers(w[i].addr, x)
                          /\ \A k \in S : Covers(w[k].addr, x) => k <= i
                          /\ q[x] = w[i].word[x - w[i].addr]

(* Every byte after a series of pokes: that of the last poke that covers   *)
(* it, or the old one.                                                     *)
LEMMA PokeSeqIs ==
    ASSUME NEW m \in Memory, NEW w, NEW n \in Nat, NEW S, S \subseteq 1..n
    PROVE  Poked(PokeSeq(m, w, S), m, w, S)
<1>1. DOMAIN m = Cells
  BY DEF Memory, Cells
<1>2. PokeSeq(m, w, S) = [x \in Cells |-> PokeSeq(m, w, S)[x]] /\ DOMAIN PokeSeq(m, w, S) = Cells
  BY <1>1 DEF PokeSeq
<1>3. ASSUME NEW x \in Cells
      PROVE  \/ /\ \A i \in S : ~Covers(w[i].addr, x)
                /\ PokeSeq(m, w, S)[x] = m[x]
             \/ \E i \in S : /\ Covers(w[i].addr, x)
                             /\ \A k \in S : Covers(w[k].addr, x) => k <= i
                             /\ PokeSeq(m, w, S)[x] = w[i].word[x - w[i].addr]
  <2> DEFINE over == {i \in S : Covers(w[i].addr, x)}
  <2>1. PokeSeq(m, w, S)[x] = IF over = {} THEN m[x] ELSE w[Max(over)].word[x - w[Max(over)].addr]
    BY <1>1 DEF PokeSeq
  <2>2. over \subseteq 0..n
    <3>1. 1..n \subseteq 0..n
      OBVIOUS
    <3> QED BY <3>1
  <2>3. CASE over = {}
    BY <2>1, <2>3
  <2>4. CASE over # {}
    <3> DEFINE M == Max(over)
    <3>1. M \in over /\ \A k \in over : k <= M
      <4> HIDE DEF over
      <4> QED BY <2>2, <2>4, Largest
    <3>2. PokeSeq(m, w, S)[x] = w[M].word[x - w[M].addr]
      BY <2>1, <2>4
    <3> HIDE DEF M
    <3>3. M \in S /\ Covers(w[M].addr, x) /\ \A k \in S : Covers(w[k].addr, x) => k <= M
      BY <3>1
    <3> QED BY <3>2, <3>3
  <2> QED BY <2>3, <2>4
<1> QED BY <1>2, <1>3 DEF Poked

(* q is m after the loop of prepare_for_run, of wait_all_and_update_regs, *)
(* or of PtraceInterface.cont over the changed breakpoints.                *)
Installed(q, m, E) ==
    /\ q \in Memory
    /\ \A x \in Cells :
          \/ /\ \A e \in E : e.enabled => ~Covers(e.addr, x)
             /\ q[x] = m[x]
          \/ \E e \in E : /\ e.enabled /\ Covers(e.addr, x)
                          /\ \A f \in E : f.enabled /\ Covers(f.addr, x) => f.addr <= e.addr
                          /\ q[x] = e.patched_instruction[x - e.addr]
Restored(q, m, E) ==
    /\ q \in Memory
    /\ \A x \in Cells :
          \/ /\ \A e \in E : e.enabled => ~Covers(e.addr, x)
             /\ q[x] = m[x]
          \/ \E e \in E : /\ e.enabled /\ Covers(e.addr, x)
                          /\ \A f \in E : f.enabled /\ Covers(f.addr, x) => f.addr <= e.addr
                          /\ q[x] = e.instruction[x - e.addr]
Applied(q, m, E, B) ==
    /\ q \in Memory
    /\ \A x \in Cells :
          \/ /\ \A b \in B : b.changed => ~Covers(b.addr, x)
             /\ q[x] = m[x]
          \/ \E b \in B, e \in E :
                /\ b.changed /\ e.addr = b.addr /\ Covers(e.addr, x)
                /\ q[x] = IF b.enabled THEN e.patched_instruction[x - e.addr] ELSE e.instruction[x - e.addr]

(* What the loop of prepare_for_run leaves in memory, byte by byte: in an  *)
(* ordered list the last word that covers a byte is that of the highest    *)
(* address.                                                                *)
LEMMA InstallIs ==
    ASSUME NEW m \in Memory, NEW l \in Seq(Entry), Ordered(l)
    PROVE  Installed(InstallAll(m, l), m, Range(l))
<1> DEFINE w == Patches(l)
           S == EnabledIn(l)
           q == PokeSeq(m, w, S)
<1>1. DOMAIN l = 1..Len(l) /\ Len(l) \in Nat /\ \A i \in DOMAIN l : l[i] \in Entry /\ l[i] \in Range(l)
  BY RangeIs
<1>2. S \subseteq 1..Len(l) /\ \A i \in DOMAIN l : i \in S <=> l[i].enabled
  BY <1>1 DEF EnabledIn
<1>3. \A i \in DOMAIN l : w[i].addr = l[i].addr /\ w[i].word = l[i].patched_instruction
  BY DEF Patches
<1>4. InstallAll(m, l) = q
  BY DEF InstallAll
<1>5. \A i, j \in DOMAIN l : l[i].addr <= l[j].addr <=> i <= j
  BY OrderedUnique
<1> HIDE DEF w, S
<1>6. /\ DOMAIN q = Cells
      /\ q = [x \in Cells |-> q[x]]
      /\ \A x \in Cells :
            \/ /\ \A i \in S : ~Covers(w[i].addr, x)
               /\ q[x] = m[x]
            \/ \E i \in S : /\ Covers(w[i].addr, x)
                            /\ \A k \in S : Covers(w[k].addr, x) => k <= i
                            /\ q[x] = w[i].word[x - w[i].addr]
  <2>1. Len(l) \in Nat
    BY <1>1
  <2>2. S \subseteq 1..Len(l)
    BY <1>2
  <2>3. Poked(q, m, w, S)
    BY <2>1, <2>2, PokeSeqIs
  <2> QED BY <2>3 DEF Poked
<1> HIDE DEF q
<1>7. ASSUME NEW x \in Cells
      PROVE  \/ /\ \A e \in Range(l) : e.enabled => ~Covers(e.addr, x)
                /\ q[x] = m[x]
             \/ \E e \in Range(l) :
                   /\ e.enabled /\ Covers(e.addr, x)
                   /\ \A f \in Range(l) : f.enabled /\ Covers(f.addr, x) => f.addr <= e.addr
                   /\ q[x] = e.patched_instruction[x - e.addr]
  <2>1. CASE (\A i \in S : ~Covers(w[i].addr, x)) /\ q[x] = m[x]
    <3>1. \A e \in Range(l) : e.enabled => ~Covers(e.addr, x)
      BY <1>2, <1>3, <2>1 DEF Range
    <3> QED BY <2>1, <3>1
  <2>2. ASSUME NEW i \in S, Covers(w[i].addr, x), \A k \in S : Covers(w[k].addr, x) => k <= i,
               q[x] = w[i].word[x - w[i].addr]
        PROVE  \E e \in Range(l) :
                   /\ e.enabled /\ Covers(e.addr, x)
                   /\ \A f \in Range(l) : f.enabled /\ Covers(f.addr, x) => f.addr <= e.addr
                   /\ q[x] = e.patched_instruction[x - e.addr]
    <3>1. i \in DOMAIN l /\ l[i] \in Range(l) /\ l[i].enabled
      BY <1>1, <1>2
    <3>2. Covers(l[i].addr, x) /\ q[x] = l[i].patched_instruction[x - l[i].addr]
      BY <1>3, <2>2, <3>1
    <3>3. ASSUME NEW f \in Range(l), f.enabled, Covers(f.addr, x) PROVE f.addr <= l[i].addr
      <4>1. PICK k \in DOMAIN l : f = l[k]
        BY DEF Range
      <4>2. k \in S /\ Covers(w[k].addr, x)
        BY <1>2, <1>3, <3>3, <4>1
      <4>3. k <= i
        BY <2>2, <4>2
      <4> QED BY <1>5, <3>1, <4>1, <4>3
    <3> QED BY <3>1, <3>2, <3>3
  <2> QED BY <1>6, <2>1, <2>2
<1>8. \A x \in Cells : q[x] \in Bytes
  <2> SUFFICES ASSUME NEW x \in Cells PROVE q[x] \in Bytes
    OBVIOUS
  <2>1. m[x] \in Bytes
    BY DEF Memory, Cells
  <2>2. ASSUME NEW e \in Range(l), Covers(e.addr, x) PROVE e.patched_instruction[x - e.addr] \in Bytes
    <3>1. e \in Entry
      BY RangeIs
    <3>2. e.addr \in Addrs /\ e.patched_instruction \in [Offsets -> Bytes]
      BY <3>1 DEF Entry, Word
    <3>3. x - e.addr \in Offsets
      BY <2>2, <3>2, Covering
    <3> QED BY <3>2, <3>3
  <2> QED BY <1>7, <2>1, <2>2
<1>9. q \in Memory
  BY <1>6, <1>8 DEF Memory, Cells
<1> QED BY <1>4, <1>7, <1>9 DEF Installed

(* The same of the loop that restores the words after a wait. *)
LEMMA RestoreIs ==
    ASSUME NEW m \in Memory, NEW l \in Seq(Entry), Ordered(l)
    PROVE  Restored(RestoreAll(m, l), m, Range(l))
<1> DEFINE w == Restores(l)
           S == EnabledIn(l)
           q == PokeSeq(m, w, S)
<1>1. DOMAIN l = 1..Len(l) /\ Len(l) \in Nat /\ \A i \in DOMAIN l : l[i] \in Entry /\ l[i] \in Range(l)
  BY RangeIs
<1>2. S \subseteq 1..Len(l) /\ \A i \in DOMAIN l : i \in S <=> l[i].enabled
  BY <1>1 DEF EnabledIn
<1>3. \A i \in DOMAIN l : w[i].addr = l[i].addr /\ w[i].word = l[i].instruction
  BY DEF Restores
<1>4. RestoreAll(m, l) = q
  BY DEF RestoreAll
<1>5. \A i, j \in DOMAIN l : l[i].addr <= l[j].addr <=> i <= j
  BY OrderedUnique
<1> HIDE DEF w, S
<1>6. /\ DOMAIN q = Cells
      /\ q = [x \in Cells |-> q[x]]
      /\ \A x \in Cells :
            \/ /\ \A i \in S : ~Covers(w[i].addr, x)
               /\ q[x] = m[x]
            \/ \E i \in S : /\ Covers(w[i].addr, x)
                            /\ \A k \in S : Covers(w[k].addr, x) => k <= i
                            /\ q[x] = w[i].word[x - w[i].addr]
  <2>1. Len(l) \in Nat
    BY <1>1
  <2>2. S \subseteq 1..Len(l)
    BY <1>2
  <2>3. Poked(q, m, w, S)
    BY <2>1, <2>2, PokeSeqIs
  <2> QED BY <2>3 DEF Poked
<1> HIDE DEF q
<1>7. ASSUME NEW x \in Cells
      PROVE  \/ /\ \A e \in Range(l) : e.enabled => ~Covers(e.addr, x)
                /\ q[x] = m[x]
             \/ \E e \in Range(l) :
                   /\ e.enabled /\ Covers(e.addr, x)
                   /\ \A f \in Range(l) : f.enabled /\ Covers(f.addr, x) => f.addr <= e.addr
                   /\ q[x] = e.instruction[x - e.addr]
  <2>1. CASE (\A i \in S : ~Covers(w[i].addr, x)) /\ q[x] = m[x]
    <3>1. \A e \in Range(l) : e.enabled => ~Covers(e.addr, x)
      BY <1>2, <1>3, <2>1 DEF Range
    <3> QED BY <2>1, <3>1
  <2>2. ASSUME NEW i \in S, Covers(w[i].addr, x), \A k \in S : Covers(w[k].addr, x) => k <= i,
               q[x] = w[i].word[x - w[i].addr]
        PROVE  \E e \in Range(l) :
                   /\ e.enabled /\ Covers(e.addr, x)
                   /\ \A f \in Range(l) : f.enabled /\ Covers(f.addr, x) => f.addr <= e.addr
                   /\ q[x] = e.instruction[x - e.addr]
    <3>1. i \in DOMAIN l /\ l[i] \in Range(l) /\ l[i].enabled
      BY <1>1, <1>2
    <3>2. Covers(l[i].addr, x) /\ q[x] = l[i].instruction[x - l[i].addr]
      BY <1>3, <2>2, <3>1
    <3>3. ASSUME NEW f \in Range(l), f.enabled, Covers(f.addr, x) PROVE f.addr <= l[i].addr
      <4>1. PICK k \in DOMAIN l : f = l[k]
        BY DEF Range
      <4>2. k \in S /\ Covers(w[k].addr, x)
        BY <1>2, <1>3, <3>3, <4>1
      <4>3. k <= i
        BY <2>2, <4>2
      <4> QED BY <1>5, <3>1, <4>1, <4>3
    <3> QED BY <3>1, <3>2, <3>3
  <2> QED BY <1>6, <2>1, <2>2
<1>8. \A x \in Cells : q[x] \in Bytes
  <2> SUFFICES ASSUME NEW x \in Cells PROVE q[x] \in Bytes
    OBVIOUS
  <2>1. m[x] \in Bytes
    BY DEF Memory, Cells
  <2>2. ASSUME NEW e \in Range(l), Covers(e.addr, x) PROVE e.instruction[x - e.addr] \in Bytes
    <3>1. e \in Entry
      BY RangeIs
    <3>2. e.addr \in Addrs /\ e.instruction \in [Offsets -> Bytes]
      BY <3>1 DEF Entry, Word
    <3>3. x - e.addr \in Offsets
      BY <2>2, <3>2, Covering
    <3> QED BY <3>2, <3>3
  <2> QED BY <1>7, <2>1, <2>2
<1>9. q \in Memory
  BY <1>6, <1>8 DEF Memory, Cells
<1> QED BY <1>4, <1>7, <1>9 DEF Restored

(* What the changed breakpoints leave in memory, byte by byte. *)
LEMMA AppliedIs ==
    ASSUME NEW m \in Memory, NEW l \in Seq(Entry), Ordered(l), NEW bs \in Seq(Bp),
           \A b \in Range(bs) : Has(Range(l), b.addr)
    PROVE  Applied(AppliedMem(m, l, bs), m, Range(l), Range(bs))
<1> DEFINE w == [i \in DOMAIN bs |-> WriteThrough(l, bs[i])]
           S == ChangedBps(bs)
           q == PokeSeq(m, w, S)
           En(i) == EntryAt(l, bs[i].addr)
<1>1. DOMAIN bs = 1..Len(bs) /\ Len(bs) \in Nat /\ \A i \in DOMAIN bs : bs[i] \in Bp /\ bs[i] \in Range(bs)
  BY RangeIs
<1>2. S \subseteq 1..Len(bs) /\ \A i \in DOMAIN bs : i \in S <=> bs[i].changed
  BY <1>1 DEF ChangedBps
<1>3. \A i \in DOMAIN bs : w[i].addr = bs[i].addr
                           /\ w[i].word = IF bs[i].enabled THEN En(i).patched_instruction ELSE En(i).instruction
  BY DEF WriteThrough
<1>4. AppliedMem(m, l, bs) = q
  BY DEF AppliedMem
<1>5. \A i \in DOMAIN bs : En(i) \in Range(l) /\ En(i).addr = bs[i].addr
  BY <1>1, ListedIs
<1> HIDE DEF w, S, En
<1>6. Poked(q, m, w, S)
  <2>1. Len(bs) \in Nat
    BY <1>1
  <2>2. S \subseteq 1..Len(bs)
    BY <1>2
  <2> QED BY <2>1, <2>2, PokeSeqIs
<1> HIDE DEF q
<1>7. ASSUME NEW x \in Cells
      PROVE  \/ /\ \A b \in Range(bs) : b.changed => ~Covers(b.addr, x)
                /\ q[x] = m[x]
             \/ \E b \in Range(bs), e \in Range(l) :
                   /\ b.changed /\ e.addr = b.addr /\ Covers(e.addr, x)
                   /\ q[x] = IF b.enabled THEN e.patched_instruction[x - e.addr] ELSE e.instruction[x - e.addr]
  <2>1. CASE (\A i \in S : ~Covers(w[i].addr, x)) /\ q[x] = m[x]
    <3>1. \A b \in Range(bs) : b.changed => ~Covers(b.addr, x)
      BY <1>2, <1>3, <2>1 DEF Range
    <3> QED BY <2>1, <3>1
  <2>2. ASSUME NEW i \in S, Covers(w[i].addr, x), q[x] = w[i].word[x - w[i].addr]
        PROVE  \E b \in Range(bs), e \in Range(l) :
                   /\ b.changed /\ e.addr = b.addr /\ Covers(e.addr, x)
                   /\ q[x] = IF b.enabled THEN e.patched_instruction[x - e.addr] ELSE e.instruction[x - e.addr]
    <3>1. i \in DOMAIN bs /\ bs[i] \in Range(bs) /\ bs[i].changed
      BY <1>1, <1>2
    <3>2. En(i) \in Range(l) /\ En(i).addr = bs[i].addr /\ w[i].addr = bs[i].addr
      BY <1>3, <1>5, <3>1
    <3>3. Covers(En(i).addr, x)
      BY <2>2, <3>2
    <3>4. q[x] = IF bs[i].enabled THEN En(i).patched_instruction[x - En(i).addr]
                                  ELSE En(i).instruction[x - En(i).addr]
      <4>1. w[i].word = IF bs[i].enabled THEN En(i).patched_instruction ELSE En(i).instruction
        BY <1>3, <3>1
      <4> QED BY <2>2, <3>2, <4>1
    <3> QED BY <3>1, <3>2, <3>3, <3>4
  <2> QED BY <1>6, <2>1, <2>2 DEF Poked
<1>8. \A x \in Cells : q[x] \in Bytes
  <2> SUFFICES ASSUME NEW x \in Cells PROVE q[x] \in Bytes
    OBVIOUS
  <2>1. m[x] \in Bytes
    BY DEF Memory, Cells
  <2>2. ASSUME NEW e \in Range(l), Covers(e.addr, x)
        PROVE  e.patched_instruction[x - e.addr] \in Bytes /\ e.instruction[x - e.addr] \in Bytes
    <3>1. e \in Entry
      BY RangeIs
    <3>2. e.addr \in Addrs /\ e.patched_instruction \in [Offsets -> Bytes] /\ e.instruction \in [Offsets -> Bytes]
      BY <3>1 DEF Entry, Word
    <3>3. x - e.addr \in Offsets
      BY <2>2, <3>2, Covering
    <3> QED BY <3>2, <3>3
  <2> QED BY <1>7, <2>1, <2>2
<1>9. q \in Memory
  BY <1>6, <1>8 DEF Memory, Cells, Poked
<1> QED BY <1>4, <1>7, <1>9 DEF Applied

(* What one poke leaves in memory. *)
LEMMA PokeIs ==
    ASSUME NEW m \in Memory, NEW a \in Addrs, NEW v \in Word
    PROVE  /\ Poke(m, a, v) \in Memory
           /\ \A x \in Cells : Poke(m, a, v)[x] = IF Covers(a, x) THEN v[x - a] ELSE m[x]
<1> DEFINE w == <<[addr |-> a, word |-> v]>>
           q == PokeSeq(m, w, {1})
<1>1. w[1].addr = a /\ w[1].word = v
  OBVIOUS
<1>2. Poke(m, a, v) = q
  BY DEF Poke
<1> HIDE DEF w
<1>3. Poked(q, m, w, {1})
  <2>1. 1 \in Nat /\ {1} \subseteq 1..1
    OBVIOUS
  <2> QED BY <2>1, PokeSeqIs
<1> HIDE DEF q
<1>4. \A x \in Cells : q[x] = IF Covers(a, x) THEN v[x - a] ELSE m[x]
  BY <1>1, <1>3 DEF Poked
<1>5. \A x \in Cells : q[x] \in Bytes
  <2> SUFFICES ASSUME NEW x \in Cells PROVE q[x] \in Bytes
    OBVIOUS
  <2>1. m[x] \in Bytes
    BY DEF Memory, Cells
  <2>2. Covers(a, x) => v[x - a] \in Bytes
    BY Covering DEF Word
  <2> QED BY <1>4, <2>1, <2>2
<1>6. q \in Memory
  BY <1>3, <1>5 DEF Poked, Memory, Cells
<1> QED BY <1>2, <1>4, <1>6

(* What a peek reads. *)
LEMMA PeekIs ==
    ASSUME NEW m \in Memory, NEW a \in Addrs
    PROVE  /\ Peek(m, a) \in Word /\ INSTALL_BREAKPOINT(Peek(m, a)) \in Word
           /\ \A k \in Offsets : Peek(m, a)[k] = m[a + k]
<1>1. \A k \in Offsets : m[a + k] \in Bytes
  BY Covering DEF Memory, Cells
<1>2. Peek(m, a) \in Word /\ \A k \in Offsets : Peek(m, a)[k] = m[a + k]
  BY <1>1 DEF Peek, Offsets, Word
<1> QED BY <1>2 DEF Word, INSTALL_BREAKPOINT, Bytes

(* INSTALL_BREAKPOINT changes the first byte of a word only. *)
LEMMA PatchByte ==
    ASSUME NEW v \in Word, NEW k \in Offsets
    PROVE  INSTALL_BREAKPOINT(v)[k] = IF k = 0 THEN "cc" ELSE v[k]
  BY DEF INSTALL_BREAKPOINT, Word

(* register_breakpoint changes one byte of memory. *)
LEMMA RegisterPokeIs ==
    ASSUME NEW m \in Memory, NEW a \in Addrs
    PROVE  /\ RegisterPoke(m, a) \in Memory
           /\ \A x \in Cells : RegisterPoke(m, a)[x] = IF x = a THEN "cc" ELSE m[x]
<1> DEFINE v == INSTALL_BREAKPOINT(Peek(m, a))
           q == RegisterPoke(m, a)
<1>1. v \in Word /\ Peek(m, a) \in Word /\ \A k \in Offsets : Peek(m, a)[k] = m[a + k]
  BY PeekIs
<1>2. \A k \in Offsets : v[k] = IF k = 0 THEN "cc" ELSE m[a + k]
  BY <1>1, PatchByte
<1>3. q = Poke(m, a, v)
  BY DEF RegisterPoke
<1> HIDE DEF v, q
<1>4. q \in Memory /\ \A x \in Cells : q[x] = IF Covers(a, x) THEN v[x - a] ELSE m[x]
  BY <1>1, <1>3, PokeIs
<1>5. ASSUME NEW x \in Cells PROVE q[x] = IF x = a THEN "cc" ELSE m[x]
  <2>1. CASE Covers(a, x)
    <3>1. x - a \in Offsets /\ a + (x - a) = x /\ (x - a = 0 <=> x = a)
      BY <2>1, Covering
    <3>2. q[x] = v[x - a]
      BY <1>4, <2>1
    <3> QED BY <1>2, <3>1, <3>2
  <2>2. CASE ~Covers(a, x)
    BY <1>4, <2>2, Covering
  <2> QED BY <2>1, <2>2
<1> QED BY <1>4, <1>5 DEF q

(* A byte of a saved word, and of a patched one. *)
LEMMA EntryByte ==
    ASSUME NEW e \in Entry, e.patched_instruction = INSTALL_BREAKPOINT(e.instruction),
           NEW x \in Cells, Covers(e.addr, x)
    PROVE  /\ e.addr \in Addrs /\ e.addr <= x /\ x - e.addr \in Offsets /\ e.addr + (x - e.addr) = x
           /\ (x - e.addr = 0 <=> x = e.addr)
           /\ e.patched_instruction[x - e.addr] = IF x = e.addr THEN "cc" ELSE e.instruction[x - e.addr]
<1>1. e.addr \in Addrs /\ e.instruction \in Word
  BY DEF Entry
<1>2. e.addr <= x /\ x - e.addr \in Offsets /\ e.addr + (x - e.addr) = x /\ (x - e.addr = 0 <=> x = e.addr)
  BY <1>1, Covering
<1> QED BY <1>1, <1>2, PatchByte

(* No byte comes from nowhere. *)
LEMMA BytesListed ==
    ASSUME NEW m, NEW E, NEW B, Basic(m, E, B), NEW e \in E, NEW x \in Cells, Covers(e.addr, x)
    PROVE  /\ e.instruction[x - e.addr] = "cc" => Has(E, x) /\ x # e.addr
           /\ e.patched_instruction[x - e.addr] = "cc" => Has(E, x)
<1>1. e \in Entry /\ e.patched_instruction = INSTALL_BREAKPOINT(e.instruction) /\ e.instruction[0] # "cc"
  BY DEF Basic, Genuine
<1>2. /\ x - e.addr \in Offsets /\ e.addr + (x - e.addr) = x /\ (x - e.addr = 0 <=> x = e.addr)
      /\ e.patched_instruction[x - e.addr] = IF x = e.addr THEN "cc" ELSE e.instruction[x - e.addr]
  BY <1>1, EntryByte
<1>3. e.instruction[x - e.addr] = "cc" => Has(E, x) /\ x # e.addr
  BY <1>1, <1>2 DEF Basic, WordsListed
<1>4. x = e.addr => Has(E, x)
  BY DEF Has
<1> QED BY <1>2, <1>3, <1>4

(* After the int3s are written, those in memory are still those of         *)
(* entries.                                                                *)
LEMMA InstallBasic ==
    ASSUME NEW m, NEW q, NEW E, NEW B, Basic(m, E, B), Installed(q, m, E)
    PROVE  Basic(q, E, B)
<1>1. MemListed(q, E)
  <2> SUFFICES ASSUME NEW x \in Cells, q[x] = "cc" PROVE Has(E, x)
    BY DEF MemListed
  <2>1. m[x] = "cc" => Has(E, x)
    BY DEF Basic, MemListed
  <2>2. q[x] = m[x] \/ \E e \in E : Covers(e.addr, x) /\ q[x] = e.patched_instruction[x - e.addr]
    BY DEF Installed
  <2> QED BY <2>1, <2>2, BytesListed
<1> QED BY <1>1 DEF Basic, Installed

(* The same after the words are restored. *)
LEMMA RestoreBasic ==
    ASSUME NEW m, NEW q, NEW E, NEW B, Basic(m, E, B), Restored(q, m, E)
    PROVE  Basic(q, E, B)
<1>1. MemListed(q, E)
  <2> SUFFICES ASSUME NEW x \in Cells, q[x] = "cc" PROVE Has(E, x)
    BY DEF MemListed
  <2>1. m[x] = "cc" => Has(E, x)
    BY DEF Basic, MemListed
  <2>2. q[x] = m[x] \/ \E e \in E : Covers(e.addr, x) /\ q[x] = e.instruction[x - e.addr]
    BY DEF Restored
  <2> QED BY <2>1, <2>2, BytesListed
<1> QED BY <1>1 DEF Basic, Restored

(* The entry at x, if enabled, is the last that covers x. *)
LEMMA TopEntry ==
    ASSUME NEW m, NEW E, NEW B, Basic(m, E, B), NEW x \in Cells, NEW e \in E, e.addr = x,
           NEW f \in E, Covers(f.addr, x), e.addr <= f.addr
    PROVE  f = e
<1>1. f \in Entry /\ e \in Entry /\ f.patched_instruction = INSTALL_BREAKPOINT(f.instruction)
  BY DEF Basic, Genuine
<1>2. f.addr \in Addrs /\ f.addr <= x
  BY <1>1, EntryByte
<1>3. f.addr = e.addr
  <2>1. f.addr \in Int /\ x \in Int
    BY <1>2 DEF Addrs, Cells
  <2> QED BY <1>2, <2>1
<1> QED BY <1>3 DEF Basic, Unique

(* Where there is no enabled entry, the words of the others hold the       *)
(* program's byte.                                                         *)
LEMMA ProgramByte ==
    ASSUME NEW m, NEW E, NEW B, NEW p, Basic(m, E, B), Clean(E, p), Neat(E, B),
           NEW x \in Cells, ~OnAt(E, x), NEW f \in E, f.enabled, Covers(f.addr, x)
    PROVE  f.instruction[x - f.addr] = p[x] /\ f.patched_instruction[x - f.addr] = p[x]
<1>1. f \in Entry /\ f.patched_instruction = INSTALL_BREAKPOINT(f.instruction)
  BY DEF Basic, Genuine
<1>2. f.addr # x
  BY DEF OnAt
<1>3. /\ x - f.addr \in Offsets /\ f.addr + (x - f.addr) = x
      /\ f.patched_instruction[x - f.addr] = f.instruction[x - f.addr]
  BY <1>1, <1>2, EntryByte
<1>4. f.instruction[x - f.addr] \in {p[x], "cc"}
  BY <1>3 DEF Clean
<1>5. f.instruction[x - f.addr] # "cc"
  <2> SUFFICES ASSUME f.instruction[x - f.addr] = "cc" PROVE FALSE
    OBVIOUS
  <2>1. Has(E, x)
    BY BytesListed
  <2>2. PICK g \in E : g.addr = x
    BY <2>1 DEF Has
  <2>3. ~Apart(E)
    BY <1>2, <2>2 DEF Apart
  <2>4. ~AllOn(E, B)
    BY <2>2 DEF AllOn, OnAt
  <2> QED BY <2>3, <2>4 DEF Neat
<1> QED BY <1>3, <1>4, <1>5

(* Written over the memory of a stopped tracee, the int3s are exactly      *)
(* those of the enabled entries.                                           *)
LEMMA InstallRunning ==
    ASSUME NEW m, NEW q, NEW E, NEW B, NEW p, Basic(m, E, B), Installed(q, m, E),
           Clean(E, p), Neat(E, B), MemStopped(m, E, p)
    PROVE  MemRunning(q, E, p)
<1> SUFFICES ASSUME NEW x \in Cells PROVE q[x] = IF OnAt(E, x) THEN "cc" ELSE p[x]
  BY DEF MemRunning
<1>1. CASE OnAt(E, x)
  <2>1. PICK e \in E : e.addr = x /\ e.enabled
    BY <1>1 DEF OnAt
  <2>2. e \in Entry /\ e.patched_instruction = INSTALL_BREAKPOINT(e.instruction)
    BY DEF Basic, Genuine
  <2>3. Covers(e.addr, x)
    BY <2>1, <2>2, Covering DEF Entry
  <2>4. PICK f \in E : /\ f.enabled /\ Covers(f.addr, x) /\ e.addr <= f.addr
                       /\ q[x] = f.patched_instruction[x - f.addr]
    BY <2>1, <2>3 DEF Installed
  <2>5. f = e
    BY <2>1, <2>4, TopEntry
  <2>6. e.patched_instruction[x - e.addr] = "cc"
    BY <2>1, <2>2, <2>3, EntryByte
  <2> QED BY <1>1, <2>4, <2>5, <2>6
<1>2. CASE ~OnAt(E, x)
  <2>1. m[x] = p[x]
    BY <1>2 DEF MemStopped
  <2>2. q[x] = m[x] \/ \E f \in E : f.enabled /\ Covers(f.addr, x) /\ q[x] = f.patched_instruction[x - f.addr]
    BY DEF Installed
  <2>3. ASSUME NEW f \in E, f.enabled, Covers(f.addr, x) PROVE f.patched_instruction[x - f.addr] = p[x]
    BY <1>2, <2>3, ProgramByte
  <2> QED BY <1>2, <2>1, <2>2, <2>3
<1> QED BY <1>1, <1>2

(* The restores leave no int3 at an enabled entry. *)
LEMMA RestoreAt ==
    ASSUME NEW m, NEW q, NEW E, NEW B, Basic(m, E, B), Restored(q, m, E),
           NEW x \in Cells, NEW e \in E, e.addr = x, e.enabled
    PROVE  q[x] = e.instruction[0] /\ q[x] # "cc"
<1>1. e \in Entry /\ e.patched_instruction = INSTALL_BREAKPOINT(e.instruction) /\ e.instruction[0] # "cc"
  BY DEF Basic, Genuine
<1>2. Covers(e.addr, x)
  BY <1>1, Covering DEF Entry
<1>3. PICK f \in E : /\ f.enabled /\ Covers(f.addr, x) /\ e.addr <= f.addr
                     /\ q[x] = f.instruction[x - f.addr]
  BY <1>2 DEF Restored
<1>4. f = e
  BY <1>3, TopEntry
<1>5. x - e.addr = 0
  BY <1>1, <1>2, EntryByte
<1> QED BY <1>1, <1>3, <1>4, <1>5

(* Restored after a run, memory is the program's own. *)
LEMMA RestoreProgram ==
    ASSUME NEW m, NEW q, NEW E, NEW B, NEW p, Basic(m, E, B), Restored(q, m, E),
           Clean(E, p), Neat(E, B), \A x \in Cells : m[x] = p[x] \/ OnAt(E, x)
    PROVE  \A x \in Cells : q[x] = p[x]
<1> SUFFICES ASSUME NEW x \in Cells PROVE q[x] = p[x]
  OBVIOUS
<1>1. CASE OnAt(E, x)
  <2>1. PICK e \in E : e.addr = x /\ e.enabled
    BY <1>1 DEF OnAt
  <2>2. q[x] = e.instruction[0] /\ q[x] # "cc"
    BY <2>1, RestoreAt
  <2>3. e.addr \in Addrs /\ 0 \in Offsets /\ e.addr + 0 = x
    <3>1. e \in Entry
      BY DEF Basic
    <3>2. e.addr \in Addrs
      BY <3>1 DEF Entry
    <3> QED BY <2>1, <3>2, Sizes
  <2>4. e.instruction[0] \in {p[x], "cc"}
    BY <2>3 DEF Clean
  <2> QED BY <2>2, <2>4
<1>2. CASE ~OnAt(E, x)
  <2>1. m[x] = p[x]
    BY <1>2
  <2>2. q[x] = m[x] \/ \E f \in E : f.enabled /\ Covers(f.addr, x) /\ q[x] = f.instruction[x - f.addr]
    BY DEF Restored
  <2>3. ASSUME NEW f \in E, f.enabled, Covers(f.addr, x) PROVE f.instruction[x - f.addr] = p[x]
    BY <1>2, <2>3, ProgramByte
  <2> QED BY <2>1, <2>2, <2>3
<1> QED BY <1>1, <1>2

(* F has the entries of E up to their flag. *)
Like(e, f) ==
    /\ e.addr = f.addr
    /\ e.instruction = f.instruction
    /\ e.patched_instruction = f.patched_instruction
SameWords(E, F) == (\A f \in F : \E e \in E : Like(e, f)) /\ (\A e \in E : \E f \in F : Like(e, f))

(* What holds of the entries holds of them with other flags. *)
LEMMA SameWordsKeep ==
    ASSUME NEW m, NEW E, NEW F, NEW B, Basic(m, E, B), F \subseteq Entry, Unique(F), SameWords(E, F)
    PROVE  /\ Basic(m, F, B)
           /\ \A x : Has(E, x) <=> Has(F, x)
           /\ Apart(E) => Apart(F)
           /\ \A p : Clean(E, p) => Clean(F, p)
           /\ \A a : NoSaved(E, a) => NoSaved(F, a)
<1>1. \A x : Has(E, x) <=> Has(F, x)
  BY DEF Has, SameWords, Like
<1>2. Genuine(F)
  BY DEF Basic, Genuine, SameWords, Like
<1>3. WordsListed(F)
  <2> SUFFICES ASSUME NEW f \in F, NEW k \in Offsets, f.instruction[k] = "cc" PROVE Has(F, f.addr + k)
    BY DEF WordsListed
  <2>1. PICK e \in E : Like(e, f)
    BY DEF SameWords
  <2>2. Has(E, e.addr + k)
    BY <2>1 DEF Basic, WordsListed, Like
  <2> QED BY <1>1, <2>1, <2>2 DEF Like
<1>4. MemListed(m, F) /\ SameAddrs(F, B)
  BY <1>1 DEF Basic, MemListed, SameAddrs
<1>5. Apart(E) => Apart(F)
  <2> SUFFICES ASSUME Apart(E), NEW f \in F, NEW g \in F, Covers(f.addr, g.addr) PROVE f = g
    BY DEF Apart
  <2>1. PICK d \in E : Like(d, f)
    BY DEF SameWords
  <2>2. PICK e \in E : Like(e, g)
    BY DEF SameWords
  <2>3. f.addr = g.addr
    BY <2>1, <2>2 DEF Apart, Like
  <2> QED BY <2>3 DEF Unique
<1>6. \A p : Clean(E, p) => Clean(F, p)
  <2> SUFFICES ASSUME NEW p, Clean(E, p), NEW f \in F, NEW k \in Offsets
               PROVE  f.instruction[k] \in {p[f.addr + k], "cc"}
    BY DEF Clean
  <2>1. PICK e \in E : Like(e, f)
    BY DEF SameWords
  <2> QED BY <2>1 DEF Clean, Like
<1>7. \A a : NoSaved(E, a) => NoSaved(F, a)
  <2> SUFFICES ASSUME NEW a, NoSaved(E, a), NEW f \in F, NEW k \in Offsets, f.instruction[k] = "cc"
               PROVE  f.addr + k # a
    BY DEF NoSaved
  <2>1. PICK e \in E : Like(e, f)
    BY DEF SameWords
  <2> QED BY <2>1 DEF NoSaved, Like
<1>8. Basic(m, F, B)
  BY <1>2, <1>3, <1>4 DEF Basic
<1> QED BY <1>1, <1>5, <1>6, <1>7, <1>8

(* The changes of the breakpoints set the flag of an entry, and only that. *)
LEMMA AppliedEntryIs ==
    ASSUME NEW e \in Entry, NEW B, B \subseteq Bp, Unique(B)
    PROVE  /\ AppliedEntry(e, B) \in Entry /\ Like(e, AppliedEntry(e, B))
           /\ \A b \in B : b.addr = e.addr /\ b.changed => AppliedEntry(e, B).enabled = b.enabled
           /\ \A b \in B : b.addr = e.addr /\ ~b.changed => AppliedEntry(e, B) = e
           /\ (\A b \in B : ~b.changed) => AppliedEntry(e, B) = e
<1> DEFINE P == \E b \in B : b.addr = e.addr /\ b.enabled
           C == \E b \in B : b.addr = e.addr /\ b.changed
           r == [e EXCEPT !.enabled = P]
<1>1. \A v \in BOOLEAN : /\ [e EXCEPT !.enabled = v] \in Entry /\ Like(e, [e EXCEPT !.enabled = v])
                         /\ [e EXCEPT !.enabled = v].enabled = v
  BY DEF Entry, Like
<1>2. P \in BOOLEAN
  OBVIOUS
<1>3. AppliedEntry(e, B) = IF C THEN r ELSE e
  BY DEF AppliedEntry
<1>4. \A b \in B : b.addr = e.addr => P = b.enabled
  <2> SUFFICES ASSUME NEW b \in B, b.addr = e.addr PROVE P = b.enabled
    OBVIOUS
  <2>1. b.enabled \in BOOLEAN
    BY DEF Bp
  <2>2. P <=> b.enabled
    BY DEF Unique
  <2> HIDE DEF P
  <2> QED BY <1>2, <2>1, <2>2
<1>5. \A b \in B : b.addr = e.addr => (C <=> b.changed)
  BY DEF Unique
<1>6. (\A b \in B : ~b.changed) => ~C
  OBVIOUS
<1> HIDE DEF P
<1>7. r \in Entry /\ Like(e, r) /\ r.enabled = P
  BY <1>1, <1>2
<1> HIDE DEF C, r
<1>8. AppliedEntry(e, B) \in Entry /\ Like(e, AppliedEntry(e, B))
  BY <1>3, <1>7 DEF Like
<1>9. \A b \in B : b.addr = e.addr /\ b.changed => AppliedEntry(e, B).enabled = b.enabled
  BY <1>3, <1>4, <1>5, <1>7
<1>10. \A b \in B : b.addr = e.addr /\ ~b.changed => AppliedEntry(e, B) = e
  BY <1>3, <1>5
<1> QED BY <1>3, <1>6, <1>8, <1>9, <1>10

(* A resumption leaves a breakpoint unchanged and effective. *)
LEMMA AppliedBpIs ==
    ASSUME NEW b \in Bp
    PROVE  /\ AppliedBp(b) \in Bp /\ AppliedBp(b).addr = b.addr /\ AppliedBp(b).enabled = b.enabled
           /\ ~AppliedBp(b).changed /\ ~AppliedBp(b).disabled_for_step
  BY DEF AppliedBp, Bp

(* What the application of the changes leaves of what was known of E, B.   *)
AppliedTo(E, B, q, F, D) ==
    /\ Basic(q, F, D) /\ Settled(D)
    /\ \A x : Has(E, x) <=> Has(F, x)
    /\ Apart(E) => Apart(F)
    /\ AllOn(E, B) => F = E /\ AllOn(F, D)
    /\ \A p : Clean(E, p) => Clean(F, p)
    /\ \A a : NoSaved(E, a) => NoSaved(F, a)
    /\ Synced(E, B) => Synced(F, D)

(* The changes of the breakpoints B applied to the entries E. *)
LEMMA AppliedBasic ==
    ASSUME NEW m, NEW q, NEW E, NEW B, Basic(m, E, B), Applied(q, m, E, B),
           NEW F, F = {AppliedEntry(e, B) : e \in E}, Unique(F),
           NEW D, D = {AppliedBp(b) : b \in B}, Unique(D)
    PROVE  AppliedTo(E, B, q, F, D)
<1>1. E \subseteq Entry /\ B \subseteq Bp /\ Unique(B)
  BY DEF Basic
<1>2. \A e \in E : /\ AppliedEntry(e, B) \in Entry /\ Like(e, AppliedEntry(e, B))
                   /\ \A b \in B : b.addr = e.addr /\ b.changed => AppliedEntry(e, B).enabled = b.enabled
                   /\ \A b \in B : b.addr = e.addr /\ ~b.changed => AppliedEntry(e, B) = e
                   /\ (\A b \in B : ~b.changed) => AppliedEntry(e, B) = e
  BY <1>1, AppliedEntryIs
<1>3. \A b \in B : /\ AppliedBp(b) \in Bp /\ AppliedBp(b).addr = b.addr /\ AppliedBp(b).enabled = b.enabled
                   /\ ~AppliedBp(b).changed /\ ~AppliedBp(b).disabled_for_step
  BY <1>1, AppliedBpIs
<1>4. F \subseteq Entry /\ SameWords(E, F)
  BY <1>2 DEF SameWords
<1>5. /\ Basic(m, F, B)
      /\ \A x : Has(E, x) <=> Has(F, x)
      /\ Apart(E) => Apart(F)
      /\ \A p : Clean(E, p) => Clean(F, p)
      /\ \A a : NoSaved(E, a) => NoSaved(F, a)
  BY <1>4, SameWordsKeep
<1>6. MemListed(q, F)
  <2> SUFFICES ASSUME NEW x \in Cells, q[x] = "cc" PROVE Has(F, x)
    BY DEF MemListed
  <2>1. m[x] = "cc" => Has(E, x)
    BY DEF Basic, MemListed
  <2>2. \/ q[x] = m[x]
        \/ \E e \in E : Covers(e.addr, x) /\ (q[x] = e.patched_instruction[x - e.addr] \/ q[x] = e.instruction[x - e.addr])
    BY DEF Applied
  <2>3. Has(E, x)
    BY <2>1, <2>2, BytesListed
  <2> QED BY <1>5, <2>3
<1>7. D \subseteq Bp /\ \A x : Has(B, x) <=> Has(D, x)
  BY <1>3 DEF Has
<1>8. SameAddrs(F, D)
  BY <1>5, <1>7 DEF Basic, SameAddrs
<1>9. Basic(q, F, D)
  BY <1>5, <1>6, <1>7, <1>8 DEF Basic, Applied
<1>10. Settled(D)
  BY <1>3 DEF Settled
<1>11. AllOn(E, B) => F = E /\ AllOn(F, D)
  <2> SUFFICES ASSUME AllOn(E, B) PROVE F = E /\ AllOn(F, D)
    OBVIOUS
  <2>1. \A e \in E : AppliedEntry(e, B) = e
    BY <1>2 DEF AllOn
  <2>2. F = E
    BY <2>1
  <2> QED BY <1>3, <2>2 DEF AllOn
<1>12. ASSUME Synced(E, B) PROVE Synced(F, D)
  <2> SUFFICES ASSUME NEW f \in F, NEW d \in D, f.addr = d.addr PROVE d.enabled = f.enabled
    BY DEF Synced
  <2>1. PICK e \in E : f = AppliedEntry(e, B)
    OBVIOUS
  <2>2. PICK b \in B : d = AppliedBp(b)
    OBVIOUS
  <2>3. b.addr = e.addr /\ d.enabled = b.enabled
    BY <1>2, <1>3, <2>1, <2>2 DEF Like
  <2>4. CASE b.changed
    BY <1>2, <2>1, <2>3, <2>4
  <2>5. CASE ~b.changed
    <3>1. f = e
      BY <1>2, <2>1, <2>3, <2>5
    <3>2. b.enabled = e.enabled
      BY <1>12, <2>3, <2>5 DEF Synced
    <3> QED BY <2>3, <3>1, <3>2
  <2> QED BY <2>4, <2>5
<1> QED BY <1>5, <1>9, <1>10, <1>11, <1>12 DEF AppliedTo

(* Where the changes are written through, memory is as in a stopped        *)
(* tracee, and an int3 that was not there is that of a breakpoint just     *)
(* enabled.                                                                *)
LEMMA AppliedStopped ==
    ASSUME NEW m, NEW q, NEW E, NEW B, NEW p, Basic(m, E, B), Applied(q, m, E, B),
           Clean(E, p), Neat(E, B), MemStopped(m, E, p),
           NEW F, F = {AppliedEntry(e, B) : e \in E}
    PROVE  /\ MemStopped(q, F, p)
           /\ \A x \in Cells : q[x] = "cc" /\ p[x] # "cc" =>
                 m[x] = "cc" \/ \E b \in B : b.addr = x /\ b.changed /\ b.enabled
<1>1. E \subseteq Entry /\ B \subseteq Bp /\ Unique(B)
  BY DEF Basic
<1>2. \A e \in E : /\ AppliedEntry(e, B) \in Entry /\ Like(e, AppliedEntry(e, B))
                   /\ \A b \in B : b.addr = e.addr /\ b.changed => AppliedEntry(e, B).enabled = b.enabled
                   /\ \A b \in B : b.addr = e.addr /\ ~b.changed => AppliedEntry(e, B) = e
                   /\ (\A b \in B : ~b.changed) => AppliedEntry(e, B) = e
  BY <1>1, AppliedEntryIs
<1> SUFFICES ASSUME NEW x \in Cells
             PROVE  /\ q[x] = p[x] \/ (q[x] = "cc" /\ OnAt(F, x))
                    /\ q[x] = "cc" /\ p[x] # "cc" =>
                           m[x] = "cc" \/ \E b \in B : b.addr = x /\ b.changed /\ b.enabled
  BY DEF MemStopped
<1>3. CASE (\A b \in B : b.changed => ~Covers(b.addr, x)) /\ q[x] = m[x]
  <2>1. m[x] = p[x] \/ (m[x] = "cc" /\ OnAt(E, x))
    BY DEF MemStopped
  <2>2. OnAt(E, x) => OnAt(F, x)
    <3> SUFFICES ASSUME NEW e \in E, e.addr = x, e.enabled PROVE OnAt(F, x)
      BY DEF OnAt
    <3>1. e \in Entry /\ x \in Addrs
      BY <1>1 DEF Entry
    <3>2. PICK b \in B : b.addr = x
      BY <3>1 DEF Basic, SameAddrs, Has
    <3>3. ~b.changed
      BY <1>3, <3>1, <3>2, Covering
    <3>4. AppliedEntry(e, B) = e
      BY <1>2, <3>2, <3>3
    <3> QED BY <3>4 DEF OnAt
  <2> QED BY <1>3, <2>1, <2>2
<1>4. ASSUME NEW b \in B, NEW e \in E, b.changed, e.addr = b.addr, Covers(e.addr, x),
             q[x] = IF b.enabled THEN e.patched_instruction[x - e.addr] ELSE e.instruction[x - e.addr]
      PROVE  /\ q[x] = p[x] \/ (q[x] = "cc" /\ OnAt(F, x))
             /\ q[x] = "cc" /\ p[x] # "cc" =>
                    m[x] = "cc" \/ \E c \in B : c.addr = x /\ c.changed /\ c.enabled
  <2>1. e \in Entry /\ e.patched_instruction = INSTALL_BREAKPOINT(e.instruction) /\ e.instruction[0] # "cc"
    BY DEF Basic, Genuine
  <2>2. /\ x - e.addr \in Offsets /\ e.addr + (x - e.addr) = x /\ (x - e.addr = 0 <=> x = e.addr)
        /\ e.patched_instruction[x - e.addr] = IF x = e.addr THEN "cc" ELSE e.instruction[x - e.addr]
    BY <1>4, <2>1, EntryByte
  <2>3. e.instruction[x - e.addr] \in {p[x], "cc"}
    BY <2>2 DEF Clean
  <2>4. Apart(E)
    BY <1>4 DEF Neat, AllOn
  <2>5. CASE x = e.addr
    <3>1. e.instruction[x - e.addr] = p[x]
      BY <2>1, <2>2, <2>3, <2>5
    <3>2. b.enabled => AppliedEntry(e, B) \in F /\ AppliedEntry(e, B).addr = x /\ AppliedEntry(e, B).enabled
      BY <1>2, <1>4, <2>5 DEF Like
    <3>3. b.enabled => q[x] = "cc" /\ OnAt(F, x)
      BY <1>4, <2>2, <2>5, <3>2 DEF OnAt
    <3>4. ~b.enabled => q[x] = p[x]
      BY <1>4, <3>1
    <3>5. b.enabled => b.addr = x /\ b.changed
      BY <1>4, <2>5
    <3> QED BY <3>3, <3>4, <3>5
  <2>6. CASE x # e.addr
    <3>1. q[x] = e.instruction[x - e.addr]
      BY <1>4, <2>2, <2>6
    <3>2. e.instruction[x - e.addr] # "cc"
      <4> SUFFICES ASSUME e.instruction[x - e.addr] = "cc" PROVE FALSE
        OBVIOUS
      <4>1. Has(E, x)
        BY <1>4, BytesListed
      <4> QED BY <1>4, <2>4, <2>6, <4>1 DEF Has, Apart
    <3> QED BY <2>3, <3>1, <3>2
  <2> QED BY <2>5, <2>6
<1> QED BY <1>3, <1>4 DEF Applied

(* An entry with another flag. *)
LEMMA FlaggedIs ==
    ASSUME NEW e \in Entry, NEW a, NEW f \in BOOLEAN
    PROVE  /\ Flagged(e, a, f) \in Entry /\ Like(e, Flagged(e, a, f))
           /\ Flagged(e, a, f).enabled = IF e.addr = a THEN f ELSE e.enabled
  BY DEF Flagged, Entry, Like

NewEntry(m, a) ==
    [addr |-> a, instruction |-> Peek(m, a),
     patched_instruction |-> INSTALL_BREAKPOINT(Peek(m, a)), enabled |-> TRUE]

(* What register_breakpoint makes of the entries E. *)
Registration(F, E, m, a) ==
    \/ ~Has(E, a) /\ F = E \cup {NewEntry(m, a)}
    \/ Has(E, a) /\ F = {Flagged(e, a, TRUE) : e \in E}

(* register_breakpoint adds an entry, or enables the one that there is. *)
LEMMA RegisterIs ==
    ASSUME NEW m \in Memory, NEW l \in Seq(Entry), Ordered(l), NEW a \in Addrs
    PROVE  /\ Register(l, m, a) \in Seq(Entry) /\ Ordered(Register(l, m, a))
           /\ Registration(Range(Register(l, m, a)), Range(l), m, a)
<1>1. Listed(l, a) <=> Has(Range(l), a)
  BY ListedIs
<1>2. NewEntry(m, a) \in Entry /\ NewEntry(m, a).addr = a
  BY PeekIs DEF NewEntry, Entry
<1>3. CASE Listed(l, a)
  <2>1. Register(l, m, a) = SetFlag(l, a, TRUE)
    BY <1>3 DEF Register
  <2>2. /\ SetFlag(l, a, TRUE) \in Seq(Entry) /\ Ordered(SetFlag(l, a, TRUE))
        /\ Range(SetFlag(l, a, TRUE)) = {Flagged(e, a, TRUE) : e \in Range(l)}
    BY SetFlagIs
  <2> QED BY <1>1, <1>3, <2>1, <2>2 DEF Registration
<1>4. CASE ~Listed(l, a)
  <2>1. Register(l, m, a) = Insert(l, NewEntry(m, a))
    BY <1>4 DEF Register, NewEntry
  <2>2. /\ Insert(l, NewEntry(m, a)) \in Seq(Entry) /\ Ordered(Insert(l, NewEntry(m, a)))
        /\ Range(Insert(l, NewEntry(m, a))) = Range(l) \cup {NewEntry(m, a)}
    BY <1>2, <1>4, InsertIs
  <2> QED BY <1>1, <1>4, <2>1, <2>2 DEF Registration
<1> QED BY <1>3, <1>4

(* The words of a new entry: its first byte is no int3, and an int3        *)
(* further on is that of an entry.                                         *)
LEMMA NewEntryIs ==
    ASSUME NEW m, NEW E, NEW B, Basic(m, E, B), NEW a \in Addrs, ~Has(E, a),
           NEW n, n = NewEntry(m, a)
    PROVE  /\ n \in Entry /\ n.addr = a /\ n.enabled
           /\ n.patched_instruction = INSTALL_BREAKPOINT(n.instruction)
           /\ \A k \in Offsets : n.instruction[k] = m[a + k]
           /\ n.instruction[0] # "cc" /\ m[a] # "cc"
           /\ \A k \in Offsets : n.instruction[k] = "cc" => Has(E, a + k) /\ a + k # a
<1>1. m \in Memory /\ MemListed(m, E)
  BY DEF Basic
<1>2. Peek(m, a) \in Word /\ INSTALL_BREAKPOINT(Peek(m, a)) \in Word /\ \A k \in Offsets : Peek(m, a)[k] = m[a + k]
  BY <1>1, PeekIs
<1>3. /\ n \in Entry /\ n.addr = a /\ n.enabled /\ n.instruction = Peek(m, a)
      /\ n.patched_instruction = INSTALL_BREAKPOINT(n.instruction)
  BY <1>2 DEF NewEntry, Entry
<1>4. 0 \in Offsets /\ a + 0 = a /\ a \in Cells
  BY Sizes
<1>5. m[a] # "cc"
  BY <1>1, <1>4 DEF MemListed
<1>6. n.instruction[0] # "cc"
  BY <1>2, <1>3, <1>4, <1>5
<1>7. \A k \in Offsets : n.instruction[k] = "cc" => Has(E, a + k) /\ a + k # a
  <2> SUFFICES ASSUME NEW k \in Offsets, n.instruction[k] = "cc" PROVE Has(E, a + k) /\ a + k # a
    OBVIOUS
  <2>1. a + k \in Cells /\ m[a + k] = "cc"
    BY <1>2, <1>3, Covering
  <2>2. Has(E, a + k)
    BY <1>1, <2>1 DEF MemListed
  <2> QED BY <1>5, <2>1, <2>2
<1> QED BY <1>2, <1>3, <1>5, <1>6, <1>7

(* What setting a breakpoint at a leaves of what was known of m, E and B. *)
SetAt(a, m, E, B, q, F, D) ==
    /\ Basic(q, F, D)
    /\ OnAt(F, a)
    /\ ~Has(E, a) => NoSaved(F, a)
    /\ Apart(E) /\ (\A b \in B : b.addr # a => ~Covers(a, b.addr) /\ ~Covers(b.addr, a)) => Apart(F)
    /\ AllOn(E, B) => AllOn(F, D)
    /\ Synced(E, B) => Synced(F, D)
    /\ \A p : Clean(E, p) /\ MemStopped(m, E, p) => Clean(F, p) /\ MemStopped(q, F, p)

(* A breakpoint set at a, with the int3 written at once. *)
LEMMA RegisterBasic ==
    ASSUME NEW m, NEW E, NEW B, Basic(m, E, B), NEW a \in Addrs,
           NEW F, Registration(F, E, m, a), Unique(F),
           NEW D, D = {b \in B : b.addr # a} \cup {NewBp(a)}
    PROVE  SetAt(a, m, E, B, RegisterPoke(m, a), F, D)
<1> DEFINE q == RegisterPoke(m, a)
           n == NewEntry(m, a)
<1>1. m \in Memory /\ E \subseteq Entry /\ B \subseteq Bp /\ Unique(E) /\ Unique(B)
  BY DEF Basic
<1>2. q \in Memory /\ \A x \in Cells : q[x] = IF x = a THEN "cc" ELSE m[x]
  BY <1>1, RegisterPokeIs
<1> HIDE DEF q
<1>3. NewBp(a) \in Bp /\ NewBp(a).addr = a /\ NewBp(a).enabled /\ ~NewBp(a).changed
  BY DEF NewBp, Bp
<1>4. /\ D \subseteq Bp /\ Unique(D)
      /\ \A d \in D : d = NewBp(a) \/ (d \in B /\ d.addr # a)
      /\ \A x : Has(D, x) <=> Has(B, x) \/ x = a
  BY <1>1, <1>3 DEF Unique, Has
<1>5. AllOn(E, B) => \A d \in D : d.enabled /\ ~d.changed
  BY <1>3, <1>4 DEF AllOn
<1>6. CASE ~Has(E, a) /\ F = E \cup {n}
  <2>1. /\ n \in Entry /\ n.addr = a /\ n.enabled
        /\ n.patched_instruction = INSTALL_BREAKPOINT(n.instruction)
        /\ \A k \in Offsets : n.instruction[k] = m[a + k]
        /\ n.instruction[0] # "cc" /\ m[a] # "cc"
        /\ \A k \in Offsets : n.instruction[k] = "cc" => Has(E, a + k) /\ a + k # a
    BY <1>6, NewEntryIs
  <2> HIDE DEF n
  <2>2. \A x : Has(F, x) <=> Has(E, x) \/ x = a
    BY <1>6, <2>1 DEF Has
  <2>3. Genuine(F) /\ F \subseteq Entry
    BY <1>1, <1>6, <2>1 DEF Basic, Genuine
  <2>4. WordsListed(F)
    BY <1>6, <2>1, <2>2 DEF Basic, WordsListed
  <2>5. MemListed(q, F)
    BY <1>2, <2>2 DEF Basic, MemListed
  <2>6. SameAddrs(F, D)
    BY <1>4, <2>2 DEF Basic, SameAddrs
  <2>7. Basic(q, F, D)
    BY <1>2, <1>4, <2>3, <2>4, <2>5, <2>6 DEF Basic
  <2>8. OnAt(F, a)
    BY <1>6, <2>1 DEF OnAt
  <2>9. NoSaved(F, a)
    BY <1>6, <2>1 DEF NoSaved, Basic, WordsListed
  <2>10. ASSUME Apart(E), \A b \in B : b.addr # a => ~Covers(a, b.addr) /\ ~Covers(b.addr, a) PROVE Apart(F)
    <3>1. \A e \in E : ~Covers(a, e.addr) /\ ~Covers(e.addr, a)
      <4> SUFFICES ASSUME NEW e \in E PROVE ~Covers(a, e.addr) /\ ~Covers(e.addr, a)
        OBVIOUS
      <4>1. e.addr \in Addrs /\ e.addr # a
        BY <1>1, <1>6 DEF Entry, Has
      <4>2. PICK b \in B : b.addr = e.addr
        BY <4>1 DEF Basic, SameAddrs, Has
      <4> QED BY <2>10, <4>1, <4>2
    <3> QED BY <1>6, <2>1, <2>10, <3>1 DEF Apart
  <2>11. AllOn(E, B) => AllOn(F, D)
    BY <1>5, <1>6, <2>1 DEF AllOn
  <2>12. ASSUME Synced(E, B) PROVE Synced(F, D)
    <3> SUFFICES ASSUME NEW f \in F, NEW d \in D, f.addr = d.addr, ~d.changed PROVE d.enabled = f.enabled
      BY DEF Synced
    <3>1. CASE f.addr = a
      <4>1. f = n
        BY <1>6, <3>1 DEF Has
      <4>2. d = NewBp(a)
        BY <1>4, <3>1
      <4> QED BY <1>3, <2>1, <4>1, <4>2 DEF Entry, Bp
    <3>2. CASE f.addr # a
      <4>1. f \in E /\ d \in B
        BY <1>3, <1>4, <1>6, <2>1, <3>2
      <4> QED BY <2>12, <4>1 DEF Synced
    <3> QED BY <3>1, <3>2
  <2>13. ASSUME NEW p, Clean(E, p), MemStopped(m, E, p) PROVE Clean(F, p) /\ MemStopped(q, F, p)
    <3>1. \A x : OnAt(E, x) => OnAt(F, x)
      BY <1>6 DEF OnAt
    <3>2. MemStopped(q, F, p)
      BY <1>2, <2>8, <2>13, <3>1 DEF MemStopped
    <3>3. \A k \in Offsets : n.instruction[k] \in {p[a + k], "cc"}
      BY <2>1, <2>13, Covering DEF MemStopped
    <3>4. Clean(F, p)
      BY <1>6, <2>1, <2>13, <3>3 DEF Clean
    <3> QED BY <3>2, <3>4
  <2> QED BY <2>7, <2>8, <2>9, <2>10, <2>11, <2>12, <2>13 DEF q, SetAt
<1>7. CASE Has(E, a) /\ F = {Flagged(e, a, TRUE) : e \in E}
  <2>1. \A e \in E : /\ Flagged(e, a, TRUE) \in Entry /\ Like(e, Flagged(e, a, TRUE))
                     /\ Flagged(e, a, TRUE).enabled = IF e.addr = a THEN TRUE ELSE e.enabled
    BY <1>1, FlaggedIs
  <2>2. F \subseteq Entry /\ SameWords(E, F)
    BY <1>7, <2>1 DEF SameWords
  <2>3. /\ Basic(m, F, B)
        /\ \A x : Has(E, x) <=> Has(F, x)
        /\ Apart(E) => Apart(F)
        /\ \A p : Clean(E, p) => Clean(F, p)
    BY <2>2, SameWordsKeep
  <2>4. MemListed(q, F) /\ SameAddrs(F, D)
    BY <1>2, <1>4, <1>7, <2>3 DEF Basic, MemListed, SameAddrs
  <2>5. Basic(q, F, D)
    BY <1>2, <1>4, <2>3, <2>4 DEF Basic
  <2>6. OnAt(F, a) /\ \A x : OnAt(E, x) => OnAt(F, x)
    <3>1. ASSUME NEW e \in E, e.addr = a \/ e.enabled PROVE OnAt(F, e.addr)
      <4>1. /\ Flagged(e, a, TRUE) \in F /\ Flagged(e, a, TRUE).addr = e.addr /\ Flagged(e, a, TRUE).enabled
        BY <1>7, <2>1, <3>1 DEF Like
      <4> QED BY <4>1 DEF OnAt
    <3> QED BY <1>7, <3>1 DEF Has, OnAt
  <2>7. AllOn(E, B) => AllOn(F, D)
    <3> SUFFICES ASSUME AllOn(E, B), NEW f \in F PROVE f.enabled
      BY <1>5 DEF AllOn
    <3>1. PICK e \in E : f = Flagged(e, a, TRUE)
      BY <1>7
    <3> QED BY <2>1, <3>1 DEF AllOn
  <2>8. ASSUME Synced(E, B) PROVE Synced(F, D)
    <3> SUFFICES ASSUME NEW f \in F, NEW d \in D, f.addr = d.addr, ~d.changed PROVE d.enabled = f.enabled
      BY DEF Synced
    <3>1. PICK e \in E : f = Flagged(e, a, TRUE)
      BY <1>7
    <3>2. f.addr = e.addr /\ f.enabled = IF e.addr = a THEN TRUE ELSE e.enabled
      BY <2>1, <3>1 DEF Like
    <3>3. CASE f.addr = a
      <4>1. d = NewBp(a)
        BY <1>4, <3>3
      <4>2. d.enabled = TRUE
        BY <4>1 DEF NewBp
      <4> QED BY <3>2, <3>3, <4>2
    <3>4. CASE f.addr # a
      <4>1. d \in B
        BY <1>3, <1>4, <3>4
      <4> QED BY <2>8, <3>2, <3>4, <4>1 DEF Synced
    <3> QED BY <3>3, <3>4
  <2>9. ASSUME NEW p, Clean(E, p), MemStopped(m, E, p) PROVE Clean(F, p) /\ MemStopped(q, F, p)
    BY <1>2, <2>3, <2>6, <2>9 DEF MemStopped
  <2> QED BY <1>7, <2>3, <2>5, <2>6, <2>7, <2>8, <2>9 DEF q, SetAt
<1> QED BY <1>6, <1>7 DEF Registration

-------------------------------------------------------------------------------
(* The state of a stopped tracee, between any two calls of the script. *)

(* What the kinds of scripts have to do with one another. *)
LEMMA Scripts ==
    /\ Unaltered => NoOverlap \/ NoDisable
    /\ Unaltered => "write" \notin uses /\ "finish disabled" \notin uses
    /\ Plain => Unaltered /\ "at ip" \notin uses /\ "step_until" \notin uses /\ "finish stepping" \notin uses
    /\ Careful => Plain /\ NoOverlap
  BY Zenon DEF Unaltered, NoOverlap, NoDisable, Plain, Careful

(* A script does not change its ways. *)
LEMMA SameScript ==
    ASSUME uses' = uses
    PROVE  /\ Unaltered' <=> Unaltered
           /\ Plain' <=> Plain
           /\ Careful' <=> Careful
           /\ NoOverlap' <=> NoOverlap
           /\ NoDisable' <=> NoDisable
  BY Zenon DEF Unaltered, NoOverlap, NoDisable, Plain, Careful

(* The tracee may be resumed with the memory m, the list l and the         *)
(* breakpoints bs.                                                         *)
Ready(m, l, bs) ==
    /\ l \in Seq(Entry) /\ Ordered(l)
    /\ bs \in Seq(Bp) /\ Distinct(bs)
    /\ Basic(m, Range(l), Range(bs))
    /\ NoOverlap => Apart(Range(l))
    /\ NoDisable => AllOn(Range(l), Range(bs))
    /\ Unaltered => /\ Clean(Range(l), program)
                    /\ Synced(Range(l), Range(bs))
                    /\ MemStopped(m, Range(l), program)
    /\ Plain => ~skipped /\ \A t \in Threads : Quiet(m, Range(bs), pc[t])

(* Whenever the tracee is stopped it may be resumed. *)
LEMMA StoppedReady ==
    ASSUME Inv, state = "stopped"
    PROVE  Ready(mem, bList, bps) /\ temporary = NoAddr
  BY DEF Inv, TypeOK, TempInv, LiveInv, UnalteredInv, PlainInv, Ready

(* The last two parts of ListConsistent. *)
LEMMA ListConsistentIs ==
    ASSUME NEW m, NEW l \in Seq(Entry), NEW bs \in Seq(Bp), Basic(m, Range(l), Range(bs))
    PROVE  /\ \A i \in DOMAIN bs : Listed(l, bs[i].addr)
           /\ \A i \in DOMAIN l : l[i].instruction[0] # "cc"
<1>1. ASSUME NEW i \in DOMAIN bs PROVE Listed(l, bs[i].addr)
  <2>1. bs[i] \in Range(bs) /\ bs[i] \in Bp
    BY RangeIs
  <2>2. bs[i].addr \in Addrs /\ Has(Range(bs), bs[i].addr)
    BY <2>1 DEF Bp, Has
  <2> QED BY <2>2, ListedIs DEF Basic, SameAddrs
<1>2. \A i \in DOMAIN l : l[i].instruction[0] # "cc"
  BY RangeIs DEF Basic, Genuine
<1> QED BY <1>1, <1>2

(* A step that leaves the tracee stopped and ready keeps the invariant. *)
LEMMA ReadyInv ==
    ASSUME TypeOK', state' = "stopped", temporary' = NoAddr, \A x \in Cells : program'[x] # "cc",
           Ready(mem, bList, bps)'
    PROVE  Inv'
<1>1. ListConsistent'
  <2>1. /\ bList' \in Seq(Entry) /\ bps' \in Seq(Bp) /\ Basic(mem', Range(bList'), Range(bps'))
        /\ Ordered(bList')
    BY DEF Ready
  <2>2. /\ \A i \in DOMAIN bps' : Listed(bList', bps'[i].addr)
        /\ \A i \in DOMAIN bList' : bList'[i].instruction[0] # "cc"
    BY <2>1, ListConsistentIs
  <2> QED BY <2>1, <2>2 DEF ListConsistent, Ordered
<1>2. TempInv'
  BY DEF TempInv
<1>3. LiveInv' /\ UnalteredInv' /\ PlainInv'
  BY DEF Ready, LiveInv, UnalteredInv, PlainInv
<1>4. TrapInv'
  BY DEF TrapInv
<1> QED BY <1>1, <1>2, <1>3, <1>4 DEF Inv

(* A resumption. *)
LEMMA ResumeIs ==
    ASSUME NEW m, NEW l, NEW bs, Ready(m, l, bs), Resume(m, l, bs), skipped \in BOOLEAN,
           pc \in [Threads -> 0..(MaxAddr + 1)], uses' = uses, program' = program,
           \A x \in Cells : program[x] # "cc"
    PROVE  /\ bList' \in Seq(Entry) /\ Ordered(bList')
           /\ bps' \in Seq(Bp) /\ Distinct(bps')
           /\ Basic(mem', Range(bList'), Range(bps')) /\ Settled(Range(bps'))
           /\ NoOverlap => Apart(Range(bList'))
           /\ NoDisable => AllOn(Range(bList'), Range(bps'))
           /\ Unaltered => /\ Clean(Range(bList'), program)
                           /\ Synced(Range(bList'), Range(bps'))
                           /\ MemRunning(mem', Range(bList'), program)
           /\ Plain => ~skipped'
           /\ skipped' \in BOOLEAN
           /\ \A a : OnAt(Range(l), a) /\ (\A b \in Range(bs) : b.addr = a => ~b.changed) /\ a \in Addrs
                         => OnAt(Range(bList'), a)
           /\ \A a : NoSaved(Range(l), a) => NoSaved(Range(bList'), a)
<1> DEFINE E == Range(l)
           B == Range(bs)
           m1 == AppliedMem(m, l, bs)
           l1 == AppliedList(l, bs)
           F == Range(l1)
           D == Range(bps')
<1>1. /\ l \in Seq(Entry) /\ Ordered(l) /\ bs \in Seq(Bp) /\ Distinct(bs) /\ Basic(m, E, B)
  BY DEF Ready
<1>2. bList' = l1 /\ bps' = AppliedBps(bs) /\ mem' = InstallAll(m1, l1)
  BY DEF Resume
<1>3. l1 \in Seq(Entry) /\ Ordered(l1) /\ F = {AppliedEntry(e, B) : e \in E}
  BY <1>1, AppliedListIs
<1>4. bps' \in Seq(Bp) /\ Distinct(bps') /\ D = {AppliedBp(b) : b \in B}
  BY <1>1, <1>2, AppliedBpsIs
<1>5. m \in Memory /\ E \subseteq Entry /\ B \subseteq Bp /\ Unique(B) /\ \A b \in B : Has(E, b.addr)
  <2>1. \A b \in B : b.addr \in Addrs /\ Has(B, b.addr)
    BY <1>1 DEF Basic, Bp, Has
  <2> QED BY <1>1, <2>1 DEF Basic, SameAddrs
<1>6. Applied(m1, m, E, B)
  BY <1>1, <1>5, AppliedIs
<1>7. Unique(F) /\ Unique(D)
  BY <1>3, <1>4, OrderedUnique, DistinctUnique
<1>8. skipped' = (skipped \/ StepsOnInt3(m1, l1))
  BY DEF Resume
<1>9. Installed(mem', m1, F)
  <2>1. m1 \in Memory
    BY <1>6 DEF Applied
  <2> HIDE DEF m1, l1
  <2> QED BY <1>2, <1>3, <2>1, InstallIs
<1>10. \A t \in Threads : Listed(l1, pc[t]) => pc[t] \in Addrs
  <2>1. \A e \in F : e.addr \in Addrs
    <3>1. F \subseteq Entry
      BY <1>3, RangeIs
    <3> QED BY <3>1 DEF Entry
  <2>2. \A t \in Threads : Listed(l1, pc[t]) => Has(F, pc[t])
    BY ListedIs
  <2> QED BY <2>1, <2>2 DEF Has
<1> HIDE DEF E, B, m1, l1, F, D
<1>11. /\ Basic(m1, F, D) /\ Settled(D)
       /\ \A x : Has(E, x) <=> Has(F, x)
       /\ Apart(E) => Apart(F)
       /\ AllOn(E, B) => F = E /\ AllOn(F, D)
       /\ \A p : Clean(E, p) => Clean(F, p)
       /\ \A a : NoSaved(E, a) => NoSaved(F, a)
       /\ Synced(E, B) => Synced(F, D)
  <2>1. Basic(m, E, B) /\ Applied(m1, m, E, B)
    BY <1>1, <1>6
  <2>2. F = {AppliedEntry(e, B) : e \in E} /\ D = {AppliedBp(b) : b \in B}
    BY <1>3, <1>4
  <2>3. AppliedTo(E, B, m1, F, D)
    BY <1>7, <2>1, <2>2, AppliedBasic
  <2> QED BY <2>3 DEF AppliedTo
<1>12. Basic(mem', F, D)
  BY <1>9, <1>11, InstallBasic
<1>13. (NoOverlap => Apart(E)) /\ (NoDisable => AllOn(E, B))
  BY DEF Ready, E, B
<1>14. ASSUME Unaltered
       PROVE  /\ Clean(F, program) /\ Synced(F, D) /\ MemRunning(mem', F, program)
              /\ \A x \in Cells : m1[x] = "cc" => m[x] = "cc" \/ \E b \in B : b.addr = x /\ b.changed /\ b.enabled
  <2>1. Clean(E, program) /\ Synced(E, B) /\ MemStopped(m, E, program)
    BY <1>14 DEF Ready, E, B
  <2>2. Neat(E, B) /\ Neat(F, D)
    BY <1>11, <1>13, <1>14, Scripts DEF Neat
  <2>3. /\ MemStopped(m1, F, program)
        /\ \A x \in Cells : m1[x] = "cc" /\ program[x] # "cc" =>
              m[x] = "cc" \/ \E b \in B : b.addr = x /\ b.changed /\ b.enabled
    BY <1>1, <1>3, <1>6, <2>1, <2>2, AppliedStopped, SMTT(30)
  <2>4. Clean(F, program) /\ Synced(F, D)
    BY <1>11, <2>1
  <2>5. MemRunning(mem', F, program)
    BY <1>9, <1>11, <2>2, <2>3, <2>4, InstallRunning
  <2> QED BY <2>3, <2>4, <2>5
<1>15. ASSUME Plain PROVE ~skipped'
  <2>1. ~skipped /\ \A t \in Threads : Quiet(m, B, pc[t])
    BY <1>15 DEF Ready, B
  <2>2. ASSUME NEW t \in Threads, Listed(l1, pc[t]), m1[pc[t]] = "cc" PROVE FALSE
    <3>1. pc[t] \in Cells
      BY <1>10, <2>2, Sizes
    <3>2. m[pc[t]] = "cc" \/ \E b \in B : b.addr = pc[t] /\ b.changed /\ b.enabled
      BY <1>14, <1>15, <2>2, <3>1, Scripts
    <3> QED BY <2>1, <3>2 DEF Quiet
  <2>3. ~StepsOnInt3(m1, l1)
    BY <2>2 DEF StepsOnInt3
  <2> QED BY <1>8, <2>1, <2>3
<1>16. ASSUME NEW a \in Addrs, OnAt(E, a), \A b \in B : b.addr = a => ~b.changed
       PROVE  OnAt(F, a)
  <2>1. PICK e \in E : e.addr = a /\ e.enabled
    BY <1>16 DEF OnAt
  <2>2. Has(B, a)
    BY <1>1, <2>1 DEF Basic, SameAddrs, Has
  <2>3. PICK b \in B : b.addr = a
    BY <2>2 DEF Has
  <2>4. AppliedEntry(e, B) = e
    BY <1>5, <1>16, <2>1, <2>3, AppliedEntryIs
  <2> QED BY <1>3, <2>1, <2>4 DEF OnAt
<1>17. skipped' \in BOOLEAN
  BY <1>8 DEF StepsOnInt3
<1>18. /\ bList' \in Seq(Entry) /\ Ordered(bList')
  BY <1>2, <1>3
<1>19. Range(bList') = F /\ Range(bps') = D
  BY <1>2 DEF F, D
<1> QED BY <1>4, <1>11, <1>12, <1>13, <1>14, <1>15, <1>16, <1>17, <1>18, <1>19 DEF E, B

-------------------------------------------------------------------------------
(* Every action. *)

(* A resumption from what is ready keeps the invariant. *)
LEMMA ResumeInv ==
    ASSUME NEW m, NEW l, NEW bs, Ready(m, l, bs), Resume(m, l, bs), TypeOK, uses' = uses, program' = program,
           \A x \in Cells : program[x] # "cc", temporary' \in Addrs \cup {NoAddr},
           temporary' # NoAddr => /\ OnAt(Range(l), temporary') /\ NoSaved(Range(l), temporary')
                                  /\ \A b \in Range(bs) : b.addr = temporary' => ~b.changed
    PROVE  Inv'
<1>1. skipped \in BOOLEAN /\ pc \in [Threads -> 0..(MaxAddr + 1)] /\ program \in Memory /\ uses \subseteq AllUses
  BY DEF TypeOK
<1>2. /\ bList' \in Seq(Entry) /\ Ordered(bList')
      /\ bps' \in Seq(Bp) /\ Distinct(bps')
      /\ Basic(mem', Range(bList'), Range(bps')) /\ Settled(Range(bps'))
      /\ NoOverlap => Apart(Range(bList'))
      /\ NoDisable => AllOn(Range(bList'), Range(bps'))
      /\ Unaltered => /\ Clean(Range(bList'), program)
                      /\ Synced(Range(bList'), Range(bps'))
                      /\ MemRunning(mem', Range(bList'), program)
      /\ Plain => ~skipped'
      /\ skipped' \in BOOLEAN
      /\ \A a : OnAt(Range(l), a) /\ (\A b \in Range(bs) : b.addr = a => ~b.changed) /\ a \in Addrs
                    => OnAt(Range(bList'), a)
      /\ \A a : NoSaved(Range(l), a) => NoSaved(Range(bList'), a)
  BY <1>1, ResumeIs
<1>3. pc' \in [Threads -> 0..(MaxAddr + 1)] /\ state' = "running" /\ trapped' = {} /\ hit' = NoHits
  BY DEF Resume
<1>4. NoHits \in [Threads -> Nat]
  BY Sizes DEF NoHits, NoAddr
<1>5. mem' \in Memory
  BY <1>2 DEF Basic
<1>6. TypeOK'
  BY <1>1, <1>2, <1>3, <1>4, <1>5 DEF TypeOK
<1>7. ListConsistent'
  <2>1. /\ \A i \in DOMAIN bps' : Listed(bList', bps'[i].addr)
        /\ \A i \in DOMAIN bList' : bList'[i].instruction[0] # "cc"
    BY <1>2, ListConsistentIs
  <2> QED BY <1>2, <2>1 DEF ListConsistent, Ordered
<1>8. TempInv'
  BY <1>2, <1>3 DEF TempInv
<1>9. LiveInv' /\ UnalteredInv' /\ PlainInv' /\ TrapInv'
  BY <1>2, <1>3, SameScript DEF LiveInv, UnalteredInv, PlainInv, TrapInv
<1> QED BY <1>6, <1>7, <1>8, <1>9 DEF Inv

(* A breakpoint set where the script may set one leaves the tracee ready. *)
LEMMA SetReady ==
    ASSUME TypeOK, Ready(mem, bList, bps), NEW a \in Addrs,
           "at ip" \in uses \/ ~Standing(a), "overlap" \in uses \/ ~Overlaps(a)
    PROVE  /\ Ready(RegisterPoke(mem, a), Register(bList, mem, a), PutBp(a))
           /\ OnAt(Range(Register(bList, mem, a)), a)
           /\ ~Known(a) => NoSaved(Range(Register(bList, mem, a)), a)
           /\ \A b \in Range(PutBp(a)) : b.addr = a => ~b.changed
<1> DEFINE l == Register(bList, mem, a)
           E == Range(bList)
           B == Range(bps)
           F == Range(l)
           D == Range(PutBp(a))
           q == RegisterPoke(mem, a)
<1>1. /\ bList \in Seq(Entry) /\ Ordered(bList) /\ bps \in Seq(Bp) /\ Distinct(bps) /\ Basic(mem, E, B)
  BY DEF Ready
<1>2. mem \in Memory /\ pc \in [Threads -> 0..(MaxAddr + 1)]
  BY DEF TypeOK
<1>3. l \in Seq(Entry) /\ Ordered(l) /\ Registration(F, E, mem, a)
  BY <1>1, <1>2, RegisterIs
<1>4. PutBp(a) \in Seq(Bp) /\ Distinct(PutBp(a)) /\ D = {b \in B : b.addr # a} \cup {NewBp(a)}
  BY <1>1, PutBpIs
<1>5. Unique(F)
  BY <1>3, OrderedUnique
<1>6. NoOverlap => \A b \in B : b.addr # a => ~Covers(a, b.addr) /\ ~Covers(b.addr, a)
  BY DEF NoOverlap, Overlaps, Range
<1>7. Known(a) <=> Has(E, a)
  <2>1. Known(a) <=> Has(B, a)
    BY ListedIs DEF Known
  <2> QED BY <1>1, <2>1 DEF Basic, SameAddrs
<1>8. \A x \in Cells : q[x] = IF x = a THEN "cc" ELSE mem[x]
  BY <1>2, RegisterPokeIs
<1>9. \A t \in Threads : pc[t] \in Cells
  BY <1>2, PointerInCode
<1>10. Plain => \A t \in Threads : pc[t] # a
  BY Scripts DEF Standing
<1>11. /\ NoOverlap => Apart(E)
       /\ NoDisable => AllOn(E, B)
       /\ Unaltered => Clean(E, program) /\ Synced(E, B) /\ MemStopped(mem, E, program)
       /\ Plain => ~skipped /\ \A t \in Threads : Quiet(mem, B, pc[t])
  BY DEF Ready
<1> HIDE DEF l, E, B, F, D, q
<1>12. /\ Basic(q, F, D)
       /\ OnAt(F, a)
       /\ ~Has(E, a) => NoSaved(F, a)
       /\ Apart(E) /\ (\A b \in B : b.addr # a => ~Covers(a, b.addr) /\ ~Covers(b.addr, a)) => Apart(F)
       /\ AllOn(E, B) => AllOn(F, D)
       /\ Synced(E, B) => Synced(F, D)
       /\ \A p : Clean(E, p) /\ MemStopped(mem, E, p) => Clean(F, p) /\ MemStopped(q, F, p)
  <2>1. Basic(mem, E, B) /\ Registration(F, E, mem, a) /\ Unique(F)
    BY <1>1, <1>3, <1>5
  <2>2. D = {b \in B : b.addr # a} \cup {NewBp(a)}
    BY <1>4
  <2>3. SetAt(a, mem, E, B, q, F, D)
    BY <2>1, <2>2, RegisterBasic DEF q
  <2> QED BY <2>3 DEF SetAt
<1>13. NewBp(a).addr = a /\ ~NewBp(a).changed
  BY DEF NewBp
<1>14. \A d \in D : d.addr = a => ~d.changed
  BY <1>4, <1>13
<1>15. Plain => ~skipped /\ \A t \in Threads : Quiet(q, D, pc[t])
  <2> SUFFICES ASSUME Plain, NEW t \in Threads PROVE Quiet(q, D, pc[t])
    BY <1>11
  <2>1. Quiet(mem, B, pc[t]) /\ pc[t] # a
    BY <1>10, <1>11
  <2>2. q[pc[t]] # "cc"
    BY <1>8, <1>9, <2>1 DEF Quiet
  <2>3. \A d \in D : ~(d.addr = pc[t] /\ d.changed /\ d.enabled)
    BY <1>4, <1>13, <2>1 DEF Quiet
  <2> QED BY <2>2, <2>3 DEF Quiet
<1>16. NoOverlap => Apart(F)
  BY <1>6, <1>12, <1>11
<1>17. NoDisable => AllOn(F, D)
  BY <1>12, <1>11
<1>18. Unaltered => Clean(F, program) /\ Synced(F, D) /\ MemStopped(q, F, program)
  BY <1>12, <1>11
<1>19. Ready(q, l, PutBp(a))
  BY <1>3, <1>4, <1>12, <1>15, <1>16, <1>17, <1>18 DEF Ready, F, D
<1> QED BY <1>7, <1>12, <1>14, <1>19 DEF q, l, F, D

(* set_breakpoint keeps the invariant. *)
LEMMA SetBreakpointInv ==
    ASSUME Inv, NEW a \in BreakAddrs, SetBreakpoint(a), uses' = uses
    PROVE  Inv'
<1>1. TypeOK /\ state = "stopped" /\ \A x \in Cells : program[x] # "cc"
  BY DEF Inv, SetBreakpoint
<1>2. Ready(mem, bList, bps) /\ temporary = NoAddr
  BY <1>1, StoppedReady
<1>3. a \in Addrs
  BY BreakpointsAssumption
<1>4. Ready(mem', bList', bps')
  BY <1>1, <1>2, <1>3, SetReady DEF SetBreakpoint
<1>5. UNCHANGED <<program, pc, state, trapped, hit, temporary, skipped>>
  BY DEF SetBreakpoint
<1>6. mem' \in Memory /\ bList' \in Seq(Entry) /\ bps' \in Seq(Bp)
  BY <1>4 DEF Ready, Basic
<1>7. TypeOK'
  BY <1>1, <1>5, <1>6 DEF TypeOK
<1>8. Ready(mem, bList, bps)'
  BY <1>4, <1>5, SameScript DEF Ready
<1> QED BY <1>1, <1>2, <1>5, <1>7, <1>8, ReadyInv

(* cont keeps the invariant. *)
LEMMA ContInv ==
    ASSUME Inv, Cont, uses' = uses
    PROVE  Inv'
<1>1. TypeOK /\ state = "stopped" /\ \A x \in Cells : program[x] # "cc"
  BY DEF Inv, Cont
<1>2. Ready(mem, bList, bps) /\ temporary = NoAddr
  BY <1>1, StoppedReady
<1>3. Resume(mem, bList, bps) /\ program' = program /\ temporary' = NoAddr
  BY <1>2 DEF Cont
<1> QED BY <1>1, <1>2, <1>3, ResumeInv

(* finish keeps the invariant, with a breakpoint of its own, with an       *)
(* enabled one of the script's and with a disabled one.                    *)
LEMMA FinishBacktraceInv ==
    ASSUME Inv, NEW r \in BreakAddrs, FinishBacktrace(r), uses' = uses
    PROVE  Inv'
<1>1. TypeOK /\ state = "stopped" /\ (\A x \in Cells : program[x] # "cc") /\ program' = program
  BY DEF Inv, FinishBacktrace
<1>2. Ready(mem, bList, bps) /\ temporary = NoAddr
  BY <1>1, StoppedReady
<1>3. r \in Addrs
  BY BreakpointsAssumption
<1>4. CASE ~Known(r) /\ Resume(RegisterPoke(mem, r), Register(bList, mem, r), PutBp(r)) /\ temporary' = r
  <2>1. ("at ip" \in uses \/ ~Standing(r)) /\ ("overlap" \in uses \/ ~Overlaps(r))
    BY DEF FinishBacktrace
  <2>2. /\ Ready(RegisterPoke(mem, r), Register(bList, mem, r), PutBp(r))
        /\ OnAt(Range(Register(bList, mem, r)), r)
        /\ ~Known(r) => NoSaved(Range(Register(bList, mem, r)), r)
        /\ \A b \in Range(PutBp(r)) : b.addr = r => ~b.changed
    BY <1>1, <1>2, <1>3, <2>1, SetReady
  <2> DEFINE m == RegisterPoke(mem, r)
             l == Register(bList, mem, r)
             bs == PutBp(r)
  <2>3. Ready(m, l, bs) /\ Resume(m, l, bs)
    BY <1>4, <2>2
  <2>4. OnAt(Range(l), temporary') /\ NoSaved(Range(l), temporary') /\ \A b \in Range(bs) : b.addr = temporary' => ~b.changed
    BY <1>4, <2>2
  <2>5. temporary' \in Addrs \cup {NoAddr}
    BY <1>3, <1>4
  <2> HIDE DEF m, l, bs
  <2> QED BY <1>1, <2>3, <2>4, <2>5, ResumeInv
<1>5. CASE Resume(mem, bList, bps) /\ temporary' = NoAddr
  BY <1>1, <1>2, <1>5, ResumeInv
<1>6. CASE /\ "finish disabled" \in uses
           /\ Known(r) /\ ~BpAt(r).enabled
           /\ Resume(Poke(mem, r, EntryAt(bList, r).patched_instruction), SetFlag(bList, r, TRUE), bps)
           /\ temporary' = NoAddr
  <2> DEFINE e == EntryAt(bList, r)
             m == Poke(mem, r, e.patched_instruction)
             l == SetFlag(bList, r, TRUE)
             E == Range(bList)
             B == Range(bps)
             F == Range(l)
  <2>1. /\ bList \in Seq(Entry) /\ Ordered(bList) /\ bps \in Seq(Bp) /\ Distinct(bps) /\ Basic(mem, E, B)
    BY <1>2 DEF Ready
  <2>2. Has(E, r) /\ Listed(bList, r)
    <3>1. Has(B, r)
      BY <1>6, ListedIs DEF Known
    <3>2. Has(E, r)
      BY <1>3, <2>1, <3>1 DEF Basic, SameAddrs
    <3> QED BY <3>2, ListedIs
  <2>3. e \in E /\ e.addr = r
    BY <2>2, ListedIs
  <2>4. l \in Seq(Entry) /\ Ordered(l) /\ F = {Flagged(d, r, TRUE) : d \in E}
    BY <2>1, SetFlagIs
  <2>5. Unique(F)
    BY <2>4, OrderedUnique
  <2>6. /\ NoOverlap => Apart(E)
        /\ NoDisable => AllOn(E, B)
    BY <1>2 DEF Ready
  <2>7. NoDisable => FALSE
    <3>1. BpAt(r) \in B
      BY <1>6, ListedIs DEF Known, BpAt
    <3> QED BY <1>6, <2>6, <3>1 DEF AllOn
  <2>8. ~Unaltered /\ ~Plain
    BY <1>6, Scripts
  <2>9. Resume(m, l, bps)
    BY <1>6
  <2> HIDE DEF e, l, E, B, F
  <2>10. mem \in Memory /\ e \in Entry /\ e.patched_instruction \in Word
    BY <2>1, <2>3 DEF Basic, Entry
  <2>11. m \in Memory /\ \A x \in Cells : m[x] = IF Covers(r, x) THEN e.patched_instruction[x - r] ELSE mem[x]
    BY <1>3, <2>10, PokeIs
  <2> HIDE DEF m
  <2>12. F \subseteq Entry /\ SameWords(E, F)
    <3>1. \A d \in E : Flagged(d, r, TRUE) \in Entry /\ Like(d, Flagged(d, r, TRUE))
      BY <2>1, FlaggedIs DEF Basic
    <3> QED BY <2>4, <3>1 DEF SameWords
  <2>13. Basic(mem, F, B) /\ (\A x : Has(E, x) <=> Has(F, x)) /\ (Apart(E) => Apart(F))
    BY <2>1, <2>5, <2>12, SameWordsKeep
  <2>14. MemListed(m, F)
    <3> SUFFICES ASSUME NEW x \in Cells, m[x] = "cc" PROVE Has(F, x)
      BY DEF MemListed
    <3>1. CASE Covers(r, x)
      <4>1. e.patched_instruction[x - e.addr] = "cc" /\ Covers(e.addr, x)
        BY <2>3, <2>11, <3>1
      <4>2. Has(E, x)
        BY <2>1, <2>3, <4>1, BytesListed
      <4> QED BY <2>13, <4>2
    <3>2. CASE ~Covers(r, x)
      BY <2>11, <2>13, <3>2 DEF Basic, MemListed
    <3> QED BY <3>1, <3>2
  <2>15. Basic(m, F, B)
    BY <2>11, <2>13, <2>14 DEF Basic
  <2>16. Ready(m, l, bps)
    BY <2>1, <2>4, <2>13, <2>15, <2>6, <2>7, <2>8 DEF Ready, F, B
  <2> QED BY <1>1, <1>6, <2>16, <2>9, ResumeInv
<1> QED BY <1>4, <1>5, <1>6 DEF FinishBacktrace

(* Breakpoint objects that differ only in what does not matter for memory. *)
SameBps(B, D) ==
    /\ \A d \in D : \E b \in B : d.addr = b.addr /\ d.enabled = b.enabled /\ d.changed = b.changed
    /\ \A b \in B : \E d \in D : d.addr = b.addr

(* Other Breakpoint objects at the same addresses. *)
LEMMA OtherBps ==
    ASSUME NEW m, NEW E, NEW B, NEW D, Basic(m, E, B), D \subseteq Bp, Unique(D),
           \A x : Has(B, x) <=> Has(D, x)
    PROVE  Basic(m, E, D)
  BY DEF Basic, SameAddrs

SteppedBps(bs) == [i \in DOMAIN bs |-> [bs[i] EXCEPT !.disabled_for_step = TRUE]]

(* The breakpoints are disabled for a step, and nothing else changes in    *)
(* them.                                                                   *)
LEMMA SteppedBpsIs ==
    ASSUME NEW bs \in Seq(Bp), Distinct(bs)
    PROVE  /\ SteppedBps(bs) \in Seq(Bp) /\ Distinct(SteppedBps(bs))
           /\ SameBps(Range(bs), Range(SteppedBps(bs)))
<1> DEFINE g == [b \in Bp |-> [b EXCEPT !.disabled_for_step = TRUE]]
           q == SteppedBps(bs)
<1>1. \A b \in Bp : g[b] \in Bp /\ g[b].addr = b.addr /\ g[b].enabled = b.enabled /\ g[b].changed = b.changed
  BY DEF Bp
<1>2. g \in [Bp -> Bp] /\ \A b \in Bp : g[b].addr = b.addr
  BY <1>1
<1>3. Range(bs) \subseteq Bp /\ \A i \in DOMAIN bs : bs[i] \in Bp
  BY RangeIs
<1>4. q = [i \in DOMAIN bs |-> g[bs[i]]]
  BY <1>3 DEF SteppedBps
<1> HIDE DEF g, q
<1>5. /\ q \in Seq(Bp) /\ Range(q) = {g[b] : b \in Range(bs)}
      /\ Distinct(bs) => Distinct(q)
  BY <1>2, <1>4, MapIs
<1>6. SameBps(Range(bs), Range(q))
  <2>1. \A b \in Range(bs) : g[b].addr = b.addr /\ g[b].enabled = b.enabled /\ g[b].changed = b.changed
    BY <1>1, <1>3
  <2>2. \A d \in Range(q) : \E b \in Range(bs) : d = g[b]
    BY <1>5
  <2>3. \A b \in Range(bs) : g[b] \in Range(q)
    BY <1>5
  <2> QED BY <2>1, <2>2, <2>3 DEF SameBps
<1> QED BY <1>5, <1>6 DEF q

(* What holds of the breakpoints holds of them when they are disabled for  *)
(* a step.                                                                 *)
LEMMA SameBpsKeep ==
    ASSUME NEW m, NEW E, NEW B, NEW D, Basic(m, E, B), D \subseteq Bp, Unique(D), SameBps(B, D)
    PROVE  /\ Basic(m, E, D)
           /\ AllOn(E, B) => AllOn(E, D)
           /\ Synced(E, B) => Synced(E, D)
           /\ \A x : Quiet(m, B, x) => Quiet(m, D, x)
<1>1. \A x : Has(B, x) <=> Has(D, x)
  BY DEF SameBps, Has
<1>2. Basic(m, E, D)
  BY <1>1, OtherBps
<1>3. AllOn(E, B) => AllOn(E, D)
  BY DEF AllOn, SameBps
<1>4. Synced(E, B) => Synced(E, D)
  BY DEF Synced, SameBps
<1>5. \A x : Quiet(m, B, x) => Quiet(m, D, x)
  BY DEF Quiet, SameBps
<1> QED BY <1>2, <1>3, <1>4, <1>5

(* What enable and disable make of a breakpoint and of the list of them.   *)
ChangedBp(b, a, f) == IF b.addr = a THEN [b EXCEPT !.enabled = f, !.changed = TRUE] ELSE b
Changed(bs, a, f) == [i \in DOMAIN bs |-> ChangedBp(bs[i], a, f)]

(* What enable and disable change, and what they do not. *)
LEMMA ChangedIs ==
    ASSUME NEW bs \in Seq(Bp), Distinct(bs), NEW a, NEW f \in BOOLEAN
    PROVE  /\ Changed(bs, a, f) \in Seq(Bp) /\ Distinct(Changed(bs, a, f))
           /\ Range(Changed(bs, a, f)) = {ChangedBp(b, a, f) : b \in Range(bs)}
           /\ \A b \in Bp : /\ ChangedBp(b, a, f) \in Bp /\ ChangedBp(b, a, f).addr = b.addr
                            /\ b.addr = a => ChangedBp(b, a, f).changed /\ ChangedBp(b, a, f).enabled = f
                            /\ b.addr # a => ChangedBp(b, a, f) = b
<1> DEFINE g == [b \in Bp |-> ChangedBp(b, a, f)]
           q == Changed(bs, a, f)
<1>1. \A b \in Bp : /\ ChangedBp(b, a, f) \in Bp /\ ChangedBp(b, a, f).addr = b.addr
                    /\ b.addr = a => ChangedBp(b, a, f).changed /\ ChangedBp(b, a, f).enabled = f
                    /\ b.addr # a => ChangedBp(b, a, f) = b
  BY DEF Bp, ChangedBp
<1>2. g \in [Bp -> Bp] /\ \A b \in Bp : g[b].addr = b.addr
  BY <1>1
<1>3. Range(bs) \subseteq Bp /\ \A i \in DOMAIN bs : bs[i] \in Bp
  BY RangeIs
<1>4. q = [i \in DOMAIN bs |-> g[bs[i]]]
  BY <1>3 DEF Changed
<1>5. \A b \in Range(bs) : g[b] = ChangedBp(b, a, f)
  BY <1>3
<1> HIDE DEF g, q
<1>6. /\ q \in Seq(Bp) /\ Range(q) = {g[b] : b \in Range(bs)}
      /\ Distinct(bs) => Distinct(q)
  BY <1>2, <1>4, MapIs
<1>7. Range(q) = {ChangedBp(b, a, f) : b \in Range(bs)}
  BY <1>5, <1>6
<1> QED BY <1>1, <1>6, <1>7 DEF q

(* Breakpoint.enable and Breakpoint.disable keep the invariant. *)
LEMMA ChangeInv ==
    ASSUME Inv, NEW a \in BreakAddrs, NEW f \in BOOLEAN, Change(a, f), uses' = uses
    PROVE  Inv'
<1> DEFINE E == Range(bList)
           B == Range(bps)
           q == Changed(bps, a, f)
           D == Range(q)
<1>1. TypeOK /\ state = "stopped" /\ \A x \in Cells : program[x] # "cc"
  BY DEF Inv, Change
<1>2. Ready(mem, bList, bps) /\ temporary = NoAddr
  BY <1>1, StoppedReady
<1>3. /\ bList \in Seq(Entry) /\ Ordered(bList) /\ bps \in Seq(Bp) /\ Distinct(bps) /\ Basic(mem, E, B)
      /\ NoOverlap => Apart(E)
      /\ NoDisable => AllOn(E, B)
      /\ Unaltered => Clean(E, program) /\ Synced(E, B) /\ MemStopped(mem, E, program)
      /\ Plain => ~skipped /\ \A t \in Threads : Quiet(mem, B, pc[t])
  BY <1>2 DEF Ready
<1>4. ~NoDisable
  BY Zenon DEF Change, NoDisable
<1>5. Plain /\ f => \A t \in Threads : pc[t] # a
  BY Scripts, Zenon DEF Change, Standing
<1>6. /\ q \in Seq(Bp) /\ Distinct(q)
      /\ D = {ChangedBp(b, a, f) : b \in B}
      /\ \A b \in Bp : /\ ChangedBp(b, a, f) \in Bp /\ ChangedBp(b, a, f).addr = b.addr
                       /\ b.addr = a => ChangedBp(b, a, f).changed /\ ChangedBp(b, a, f).enabled = f
                       /\ b.addr # a => ChangedBp(b, a, f) = b
  BY <1>3, ChangedIs
<1>7. B \subseteq Bp
  BY <1>3, RangeIs
<1>8. bps' = q
  BY DEF Change, Changed, ChangedBp
<1>9. UNCHANGED <<mem, program, bList, pc, state, trapped, hit, temporary, skipped>>
  BY DEF Change
<1> HIDE DEF E, B, q
<1>10. Unique(D)
  BY <1>6, DistinctUnique
<1> HIDE DEF D
<1>11. D \subseteq Bp /\ \A x : Has(B, x) <=> Has(D, x)
  BY <1>6, <1>7 DEF Has
<1>12. Basic(mem, E, D)
  BY <1>3, <1>10, <1>11, OtherBps
<1>13. ASSUME Synced(E, B) PROVE Synced(E, D)
  <2> SUFFICES ASSUME NEW e \in E, NEW d \in D, e.addr = d.addr, ~d.changed PROVE d.enabled = e.enabled
    BY DEF Synced
  <2>1. PICK b \in B : d = ChangedBp(b, a, f)
    BY <1>6
  <2>2. d = b
    BY <1>6, <1>7, <2>1
  <2> QED BY <1>13, <2>1, <2>2 DEF Synced
<1>14. ASSUME Plain, NEW t \in Threads PROVE Quiet(mem, D, pc[t])
  <2>1. Quiet(mem, B, pc[t])
    BY <1>3, <1>14
  <2>2. ASSUME NEW d \in D, d.addr = pc[t], d.changed, d.enabled PROVE FALSE
    <3>1. PICK b \in B : d = ChangedBp(b, a, f)
      BY <1>6
    <3>2. b \in Bp
      BY <1>7
    <3>3. CASE b.addr = a
      BY <1>5, <1>6, <1>14, <2>2, <3>1, <3>2, <3>3
    <3>4. CASE b.addr # a
      BY <1>6, <2>1, <2>2, <3>1, <3>2, <3>4 DEF Quiet
    <3> QED BY <3>3, <3>4
  <2> QED BY <2>1, <2>2 DEF Quiet
<1>15. Ready(mem, bList, q)
  BY <1>3, <1>4, <1>6, <1>12, <1>13, <1>14 DEF Ready, E, D
<1>16. TypeOK'
  BY <1>1, <1>6, <1>8, <1>9 DEF TypeOK
<1>17. Ready(mem, bList, bps)'
  BY <1>8, <1>9, <1>15, SameScript DEF Ready
<1> QED BY <1>1, <1>2, <1>9, <1>16, <1>17, ReadyInv

(* A write of the script to memory keeps the invariant. *)
LEMMA WriteMemoryInv ==
    ASSUME Inv, NEW a \in Addrs, WriteMemory(a), uses' = uses
    PROVE  Inv'
<1>1. TypeOK /\ state = "stopped" /\ \A x \in Cells : program[x] # "cc"
  BY DEF Inv, WriteMemory
<1>2. Ready(mem, bList, bps) /\ temporary = NoAddr
  BY <1>1, StoppedReady
<1>3. UNCHANGED <<bList, bps, pc, state, trapped, hit, temporary, skipped>>
  BY DEF WriteMemory
<1>4. /\ mem' = [mem EXCEPT ![a] = "new"]
      /\ program' = [program EXCEPT ![a] = "new"]
  BY DEF WriteMemory
<1>5. mem \in [Cells -> Bytes] /\ program \in [Cells -> Bytes] /\ "new" \in Bytes
  BY <1>1 DEF TypeOK, Memory, Cells, Bytes
<1>6. /\ mem' \in [Cells -> Bytes] /\ \A x \in Cells : mem'[x] = IF x = a THEN "new" ELSE mem[x]
      /\ program' \in [Cells -> Bytes] /\ \A x \in Cells : program'[x] = IF x = a THEN "new" ELSE program[x]
  BY <1>4, <1>5
<1>7. \A x \in Cells : program'[x] # "cc"
  BY <1>1, <1>6
<1>8. mem' \in Memory /\ program' \in Memory
  BY <1>6 DEF Memory, Cells
<1>9. ~Unaltered /\ ~Plain
  BY Scripts, Zenon DEF WriteMemory
<1>10. MemListed(mem', Range(bList))
  BY <1>2, <1>6 DEF Ready, Basic, MemListed
<1>11. Ready(mem', bList, bps)
  BY <1>2, <1>8, <1>9, <1>10 DEF Ready, Basic
<1>12. TypeOK'
  BY <1>1, <1>3, <1>8 DEF TypeOK
<1>13. Ready(mem, bList, bps)'
  BY <1>3, <1>9, <1>11, SameScript DEF Ready
<1> QED BY <1>1, <1>2, <1>3, <1>7, <1>12, <1>13, ReadyInv

(* The memory after a step or a stop: nothing but the program's bytes.     *)
LEMMA RestoredReady ==
    ASSUME NEW m, NEW q, NEW E, NEW B, Basic(m, E, B), Restored(q, m, E),
           NoOverlap => Apart(E), NoDisable => AllOn(E, B),
           Unaltered => Clean(E, program) /\ \A x \in Cells : m[x] = program[x] \/ OnAt(E, x)
    PROVE  /\ Basic(q, E, B)
           /\ Unaltered => (\A x \in Cells : q[x] = program[x]) /\ MemStopped(q, E, program)
<1>1. Basic(q, E, B)
  BY RestoreBasic
<1>2. ASSUME Unaltered PROVE \A x \in Cells : q[x] = program[x]
  <2>1. Neat(E, B)
    BY <1>2, Scripts DEF Neat
  <2>2. Clean(E, program) /\ \A x \in Cells : m[x] = program[x] \/ OnAt(E, x)
    BY <1>2
  <2> QED BY <2>1, <2>2, RestoreProgram
<1> QED BY <1>1, <1>2 DEF MemStopped

(* step keeps the invariant: the restore that follows it leaves the        *)
(* program's bytes.                                                        *)
LEMMA StepInv ==
    ASSUME Inv, NEW t \in Threads, Step(t), uses' = uses
    PROVE  Inv'
<1> DEFINE E == Range(bList)
           B == Range(bps)
           q == SteppedBps(bps)
           D == Range(q)
<1>1. TypeOK /\ state = "stopped" /\ \A x \in Cells : program[x] # "cc"
  BY DEF Inv, Step
<1>2. Ready(mem, bList, bps) /\ temporary = NoAddr
  BY <1>1, StoppedReady
<1>3. /\ bList \in Seq(Entry) /\ Ordered(bList) /\ bps \in Seq(Bp) /\ Distinct(bps) /\ Basic(mem, E, B)
      /\ NoOverlap => Apart(E)
      /\ NoDisable => AllOn(E, B)
      /\ Unaltered => Clean(E, program) /\ Synced(E, B) /\ MemStopped(mem, E, program)
      /\ Plain => ~skipped /\ \A u \in Threads : Quiet(mem, B, pc[u])
  BY <1>2 DEF Ready
<1>4. bps' = q
  BY DEF Step, SteppedBps
<1>5. q \in Seq(Bp) /\ Distinct(q) /\ SameBps(B, D)
  BY <1>3, SteppedBpsIs
<1>6. PICK next \in 0..(MaxAddr + 1) :
          /\ "at ip" \in uses \/ ~(Known(next) /\ BpAt(next).changed /\ BpAt(next).enabled)
          /\ pc' = [pc EXCEPT ![t] = next]
  BY DEF Step
<1>7. mem' = RestoreAll(mem, bList) /\ hit' = NoHits /\ skipped' = (skipped \/ mem[pc[t]] = "cc")
  BY DEF Step
<1>8. UNCHANGED <<program, bList, state, trapped, temporary>>
  BY DEF Step
<1>9. Restored(mem', mem, E)
  BY <1>1, <1>3, <1>7, RestoreIs DEF TypeOK
<1>10. D \subseteq Bp /\ Unique(D) /\ B \subseteq Bp /\ Unique(B)
  BY <1>3, <1>5, RangeIs, DistinctUnique
<1>11. Known(next) => BpAt(next) \in B /\ BpAt(next).addr = next
  BY ListedIs DEF Known, BpAt
<1>12. Known(next) <=> Has(B, next)
  BY ListedIs DEF Known
<1> HIDE DEF E, B, q, D
<1>13. /\ Basic(mem', E, B)
       /\ Unaltered => (\A x \in Cells : mem'[x] = program[x]) /\ MemStopped(mem', E, program)
  BY <1>3, <1>9, RestoredReady DEF MemStopped
<1>14. /\ Basic(mem', E, D)
       /\ AllOn(E, B) => AllOn(E, D)
       /\ Synced(E, B) => Synced(E, D)
  BY <1>5, <1>10, <1>13, SameBpsKeep
<1>15. pc \in [Threads -> 0..(MaxAddr + 1)] /\ skipped \in BOOLEAN
  BY <1>1 DEF TypeOK
<1>16. /\ pc' \in [Threads -> 0..(MaxAddr + 1)] /\ pc'[t] = next
       /\ \A u \in Threads : u # t => pc'[u] = pc[u]
  BY <1>6, <1>15
<1>17. ASSUME Plain PROVE ~skipped' /\ \A u \in Threads : Quiet(mem', D, pc'[u])
  <2>1. ~skipped'
    BY <1>3, <1>7, <1>17 DEF Quiet
  <2>2. ASSUME NEW u \in Threads PROVE Quiet(mem', D, pc'[u])
    <3>1. pc'[u] \in Cells
      BY <1>16, PointerInCode
    <3>2. mem'[pc'[u]] # "cc"
      BY <1>1, <1>13, <1>17, <3>1, Scripts
    <3>3. \A b \in B : ~(b.addr = pc'[u] /\ b.changed /\ b.enabled)
      <4>1. CASE u = t
        <5>1. ~(Known(next) /\ BpAt(next).changed /\ BpAt(next).enabled)
          BY <1>6, <1>17, Scripts, Zenon
        <5> SUFFICES ASSUME NEW b \in B, b.addr = next PROVE ~(b.changed /\ b.enabled)
          BY <1>16, <4>1
        <5>2. Known(next) /\ b = BpAt(next)
          BY <1>10, <1>11, <1>12 DEF Has, Unique
        <5> QED BY <5>1, <5>2
      <4>2. CASE u # t
        BY <1>3, <1>16, <1>17, <4>2 DEF Quiet
      <4> QED BY <4>1, <4>2
    <3>4. \A d \in D : ~(d.addr = pc'[u] /\ d.changed /\ d.enabled)
      BY <1>5, <3>3 DEF SameBps
    <3> QED BY <3>2, <3>4 DEF Quiet
  <2> QED BY <2>1, <2>2
<1>18. skipped' \in BOOLEAN
  BY <1>7, <1>15
<1>19. NoHits \in [Threads -> Nat]
  BY Sizes DEF NoHits, NoAddr
<1>20. mem' \in Memory
  BY <1>14 DEF Basic
<1>21. TypeOK'
  BY <1>1, <1>4, <1>5, <1>7, <1>8, <1>16, <1>18, <1>19, <1>20 DEF TypeOK
<1>22. /\ bList \in Seq(Entry) /\ Ordered(bList) /\ q \in Seq(Bp) /\ Distinct(q) /\ Basic(mem', E, D)
       /\ NoOverlap => Apart(E)
       /\ NoDisable => AllOn(E, D)
       /\ Unaltered => Clean(E, program) /\ Synced(E, D) /\ MemStopped(mem', E, program)
  BY <1>3, <1>5, <1>13, <1>14
<1>23. Ready(mem, bList, bps)'
  BY <1>4, <1>8, <1>17, <1>22, SameScript DEF Ready, E, D
<1> QED BY <1>1, <1>2, <1>8, <1>21, <1>23, ReadyInv

(* step_until keeps the invariant. *)
LEMMA StepUntilInv ==
    ASSUME Inv, NEW t \in Threads, StepUntil(t), uses' = uses
    PROVE  Inv'
<1> DEFINE E == Range(bList)
           B == Range(bps)
           q == SteppedBps(bps)
           D == Range(q)
<1>1. TypeOK /\ state = "stopped" /\ \A x \in Cells : program[x] # "cc"
  BY DEF Inv, StepUntil
<1>2. Ready(mem, bList, bps) /\ temporary = NoAddr
  BY <1>1, StoppedReady
<1>3. /\ bList \in Seq(Entry) /\ Ordered(bList) /\ bps \in Seq(Bp) /\ Distinct(bps) /\ Basic(mem, E, B)
      /\ NoOverlap => Apart(E)
      /\ NoDisable => AllOn(E, B)
      /\ Unaltered => Clean(E, program) /\ Synced(E, B) /\ MemStopped(mem, E, program)
  BY <1>2 DEF Ready
<1>4. bps' = q
  BY DEF StepUntil, SteppedBps
<1>5. q \in Seq(Bp) /\ Distinct(q) /\ SameBps(B, D)
  BY <1>3, SteppedBpsIs
<1>6. UNCHANGED <<mem, program, bList, state, trapped, hit, temporary>>
  BY DEF StepUntil
<1>7. pc \in [Threads -> 0..(MaxAddr + 1)] /\ skipped \in BOOLEAN
  BY <1>1 DEF TypeOK
<1>8. pc' \in [Threads -> 0..(MaxAddr + 1)]
  <2>1. PICK next \in Addrs : pc' = [pc EXCEPT ![t] = next]
    BY DEF StepUntil
  <2>2. next \in 0..(MaxAddr + 1)
    BY Sizes DEF Addrs
  <2> QED BY <1>7, <2>1, <2>2
<1>9. skipped' \in BOOLEAN
  <2>1. skipped' \in {TRUE} \cup (IF mem[pc[t]] = "cc" THEN {} ELSE {skipped})
    BY DEF StepUntil
  <2> QED BY <1>7, <2>1
<1>10. ~Plain
  BY Scripts, Zenon DEF StepUntil
<1>11. D \subseteq Bp /\ Unique(D)
  BY <1>5, RangeIs, DistinctUnique
<1> HIDE DEF E, B, q, D
<1>12. /\ Basic(mem, E, D)
       /\ AllOn(E, B) => AllOn(E, D)
       /\ Synced(E, B) => Synced(E, D)
  BY <1>3, <1>5, <1>11, SameBpsKeep
<1>13. TypeOK'
  BY <1>1, <1>4, <1>5, <1>6, <1>8, <1>9 DEF TypeOK
<1>14. /\ bList \in Seq(Entry) /\ Ordered(bList) /\ q \in Seq(Bp) /\ Distinct(q) /\ Basic(mem, E, D)
       /\ NoOverlap => Apart(E)
       /\ NoDisable => AllOn(E, D)
       /\ Unaltered => Clean(E, program) /\ Synced(E, D) /\ MemStopped(mem, E, program)
  BY <1>3, <1>5, <1>12
<1>15. Ready(mem, bList, bps)'
  BY <1>4, <1>6, <1>10, <1>14, SameScript DEF Ready, E, D
<1> QED BY <1>1, <1>2, <1>6, <1>13, <1>15, ReadyInv

(* finish in step mode keeps the invariant: the int3s are written and      *)
(* taken out again.                                                        *)
LEMMA FinishSteppingInv ==
    ASSUME Inv, NEW t \in Threads, FinishStepping(t), uses' = uses
    PROVE  Inv'
<1> DEFINE E == Range(bList)
           B == Range(bps)
           m1 == InstallAll(mem, bList)
<1>1. TypeOK /\ state = "stopped" /\ \A x \in Cells : program[x] # "cc"
  BY DEF Inv, FinishStepping
<1>2. Ready(mem, bList, bps) /\ temporary = NoAddr
  BY <1>1, StoppedReady
<1>3. /\ bList \in Seq(Entry) /\ Ordered(bList) /\ bps \in Seq(Bp) /\ Distinct(bps) /\ Basic(mem, E, B)
      /\ NoOverlap => Apart(E)
      /\ NoDisable => AllOn(E, B)
      /\ Unaltered => Clean(E, program) /\ Synced(E, B) /\ MemStopped(mem, E, program)
  BY <1>2 DEF Ready
<1>4. UNCHANGED <<program, bList, bps, state, trapped, hit, temporary>>
  BY DEF FinishStepping
<1>5. PICK mid \in [Threads -> 0..(MaxAddr + 1)], next \in 0..(MaxAddr + 1) :
          /\ StepOver(mem, bList, mid)
          /\ pc' = [mid EXCEPT ![t] = next]
          /\ skipped' = (skipped \/ StepsOnInt3(mem, bList) \/ m1[mid[t]] = "cc")
          /\ mem' = RestoreAll(m1, bList)
  BY DEF FinishStepping
<1>6. Installed(m1, mem, E)
  BY <1>1, <1>3, InstallIs DEF TypeOK
<1>7. m1 \in Memory
  BY <1>6 DEF Installed
<1> HIDE DEF m1
<1>8. Restored(mem', m1, E)
  BY <1>3, <1>5, <1>7, RestoreIs
<1>9. ~Plain
  BY Scripts, Zenon DEF FinishStepping
<1> HIDE DEF E, B
<1>10. Basic(m1, E, B)
  BY <1>3, <1>6, InstallBasic
<1>11. ASSUME Unaltered PROVE \A x \in Cells : m1[x] = program[x] \/ OnAt(E, x)
  <2>1. Neat(E, B)
    BY <1>3, <1>11, Scripts DEF Neat
  <2>2. Clean(E, program) /\ MemStopped(mem, E, program)
    BY <1>3, <1>11
  <2>3. MemRunning(m1, E, program)
    BY <1>3, <1>6, <2>1, <2>2, InstallRunning
  <2> QED BY <2>3 DEF MemRunning
<1>12. /\ Basic(mem', E, B)
       /\ Unaltered => MemStopped(mem', E, program)
  BY <1>3, <1>8, <1>10, <1>11, RestoredReady
<1>13. pc' \in [Threads -> 0..(MaxAddr + 1)]
  BY <1>5
<1>14. skipped \in BOOLEAN /\ skipped' \in BOOLEAN
  BY <1>1, <1>5 DEF TypeOK, StepsOnInt3
<1>15. mem' \in Memory
  BY <1>12 DEF Basic
<1>16. TypeOK'
  BY <1>1, <1>4, <1>13, <1>14, <1>15 DEF TypeOK
<1>17. /\ bList \in Seq(Entry) /\ Ordered(bList) /\ bps \in Seq(Bp) /\ Distinct(bps) /\ Basic(mem', E, B)
       /\ NoOverlap => Apart(E)
       /\ NoDisable => AllOn(E, B)
       /\ Unaltered => Clean(E, program) /\ Synced(E, B) /\ MemStopped(mem', E, program)
  BY <1>3, <1>12
<1>18. Ready(mem, bList, bps)'
  BY <1>4, <1>9, <1>17, SameScript DEF Ready, E, B
<1> QED BY <1>1, <1>2, <1>4, <1>16, <1>18, ReadyInv

(* detach keeps the invariant: the entries of the breakpoints that stay    *)
(* known are kept.                                                         *)
LEMMA DetachInv ==
    ASSUME Inv, Detach, uses' = uses
    PROVE  Inv'
<1> DEFINE S == {i \in DOMAIN bList : ~(Known(bList[i].addr) /\ BpAt(bList[i].addr).enabled)}
           R == {i \in DOMAIN bps : ~bps[i].enabled}
<1>1. TypeOK /\ state = "stopped" /\ (\A x \in Cells : program[x] # "cc") /\ ListConsistent
  BY DEF Inv, Detach
<1>2. Ready(mem, bList, bps) /\ temporary = NoAddr
  BY <1>1, StoppedReady
<1>3. bList \in Seq(Entry) /\ Ordered(bList) /\ bps \in Seq(Bp) /\ Distinct(bps)
  BY <1>2 DEF Ready
<1>4. bList' = Kept(bList, S) /\ bps' = Kept(bps, R) /\ state' = "free" /\ hit' = NoHits
  BY DEF Detach
<1>5. UNCHANGED <<mem, program, pc, trapped, temporary, skipped>>
  BY DEF Detach
<1>6. S \subseteq DOMAIN bList /\ R \subseteq DOMAIN bps
  OBVIOUS
<1>7. \A n \in DOMAIN bList, j \in R : bList[n].addr = bps[j].addr => n \in S
  <2> SUFFICES ASSUME NEW n \in DOMAIN bList, NEW j \in R, bList[n].addr = bps[j].addr PROVE n \in S
    OBVIOUS
  <2> DEFINE a == bList[n].addr
  <2>1. Known(a)
    BY DEF Known, Listed
  <2>2. IndexOf(bps, a) \in DOMAIN bps /\ bps[IndexOf(bps, a)].addr = a /\ BpAt(a) = bps[IndexOf(bps, a)]
    BY <2>1, ListedIs DEF Known, BpAt
  <2>3. IndexOf(bps, a) = j
    BY <1>3, <2>2 DEF Distinct
  <2> QED BY <2>2, <2>3
<1> HIDE DEF S
<1>8. /\ Kept(bList, S) \in Seq(Entry)
      /\ Range(Kept(bList, S)) = {bList[j] : j \in S}
      /\ \A i, k \in DOMAIN Kept(bList, S) :
            i < k => \E a, b \in S : a < b /\ Kept(bList, S)[i] = bList[a] /\ Kept(bList, S)[k] = bList[b]
  BY <1>3, <1>6, KeptIs
<1>9. /\ Kept(bps, R) \in Seq(Bp)
      /\ Range(Kept(bps, R)) = {bps[j] : j \in R}
  <2> HIDE DEF R
  <2> QED BY <1>3, <1>6, KeptIs
<1>10. \A i, j \in DOMAIN bList' : i < j => bList'[i].addr < bList'[j].addr
  <2> SUFFICES ASSUME NEW i \in DOMAIN bList', NEW j \in DOMAIN bList', i < j
               PROVE  bList'[i].addr < bList'[j].addr
    OBVIOUS
  <2>1. PICK a \in S, b \in S : a < b /\ bList'[i] = bList[a] /\ bList'[j] = bList[b]
    BY <1>4, <1>8
  <2> QED BY <1>3, <1>6, <2>1 DEF Ordered
<1>11. ASSUME NEW i \in DOMAIN bps' PROVE Listed(bList', bps'[i].addr)
  <2>1. bps'[i] \in Range(bps')
    BY <1>4, <1>9, RangeIs
  <2>2. PICK j \in R : bps'[i] = bps[j]
    BY <1>4, <1>9, <2>1
  <2>3. PICK n \in DOMAIN bList : bList[n].addr = bps[j].addr
    BY <1>1, <1>6 DEF ListConsistent, Listed
  <2>4. n \in S
    BY <1>7, <2>3
  <2>5. Has(Range(bList'), bps'[i].addr)
    BY <1>4, <1>8, <2>2, <2>3, <2>4 DEF Has
  <2> QED BY <2>5, ListedIs
<1>12. ASSUME NEW i \in DOMAIN bList' PROVE bList'[i].instruction[0] # "cc"
  <2>1. PICK j \in S : bList'[i] = bList[j]
    <3>1. bList'[i] \in Range(bList')
      BY <1>4, <1>8, RangeIs
    <3> QED BY <1>4, <1>8, <3>1
  <2> QED BY <1>1, <1>6, <2>1 DEF ListConsistent
<1>13. ListConsistent'
  BY <1>10, <1>11, <1>12 DEF ListConsistent
<1>14. NoHits \in [Threads -> Nat]
  BY Sizes DEF NoHits, NoAddr
<1> HIDE DEF R
<1>15. TypeOK'
  BY <1>1, <1>4, <1>5, <1>8, <1>9, <1>14 DEF TypeOK
<1>16. Plain => ~skipped
  BY <1>2 DEF Ready
<1>17. TempInv' /\ LiveInv' /\ UnalteredInv' /\ PlainInv' /\ TrapInv'
  BY <1>2, <1>4, <1>5, <1>16, SameScript DEF TempInv, LiveInv, UnalteredInv, PlainInv, TrapInv
<1> QED BY <1>1, <1>5, <1>13, <1>15, <1>17 DEF Inv

(* An instruction of a running thread keeps the invariant: an int3 that it *)
(* meets is that of an enabled entry.                                      *)
LEMMA RunInv ==
    ASSUME Inv, NEW t \in Threads, Run(t), uses' = uses
    PROVE  Inv'
<1>1. /\ TypeOK /\ state = "running" /\ (\A x \in Cells : program[x] # "cc") /\ ListConsistent
      /\ TempInv /\ LiveInv /\ UnalteredInv /\ PlainInv /\ TrapInv
  BY DEF Inv, Run
<1>2. UNCHANGED <<mem, program, bList, bps, state, hit, temporary, skipped>>
  BY DEF Run
<1>3. PICK next \in 0..(MaxAddr + 1) : Executes(mem, t, next) /\ pc' = [pc EXCEPT ![t] = next]
  BY DEF Run
<1>4. t \notin trapped /\ trapped' = IF mem[pc[t]] = "cc" THEN trapped \cup {t} ELSE trapped
  BY DEF Run
<1>5. pc \in [Threads -> 0..(MaxAddr + 1)]
  BY <1>1 DEF TypeOK
<1>6. /\ pc' \in [Threads -> 0..(MaxAddr + 1)] /\ pc'[t] = next
      /\ \A u \in Threads : u # t => pc'[u] = pc[u]
  BY <1>3, <1>5
<1>7. TypeOK'
  BY <1>1, <1>2, <1>4, <1>6 DEF TypeOK
<1>8. ListConsistent'
  BY <1>1, <1>2 DEF ListConsistent
<1>9. TempInv'
  BY <1>1, <1>2 DEF TempInv
<1>10. LiveInv'
  BY <1>1, <1>2, SameScript DEF LiveInv
<1>11. UnalteredInv'
  BY <1>1, <1>2, SameScript DEF UnalteredInv
<1>12. PlainInv'
  BY <1>1, <1>2, SameScript DEF PlainInv
<1>13. ASSUME Careful, NEW u \in trapped' PROVE pc'[u] > 0 /\ OnAt(Range(bList), pc'[u] - 1)
  <2>1. CASE u \in trapped
    BY <1>1, <1>4, <1>6, <1>13, <2>1 DEF TrapInv, TypeOK
  <2>2. CASE u \notin trapped
    <3>1. u = t /\ mem[pc[t]] = "cc"
      BY <1>4, <1>13, <2>2
    <3>2. pc'[u] = pc[t] + 1
      BY <1>3, <1>6, <3>1 DEF Executes
    <3>3. pc[t] \in Nat /\ pc[t] \in Cells
      BY <1>5, PointerInCode, Sizes
    <3>4. MemRunning(mem, Range(bList), program)
      BY <1>1, <1>13, Scripts DEF UnalteredInv
    <3>5. OnAt(Range(bList), pc[t])
      BY <1>1, <3>1, <3>3, <3>4 DEF MemRunning
    <3>6. pc'[u] > 0 /\ pc'[u] - 1 = pc[t]
      BY ONLY <3>2, <3>3
    <3> QED BY <3>5, <3>6
  <2> QED BY <2>1, <2>2
<1>14. TrapInv'
  BY <1>2, <1>13, SameScript DEF TrapInv
<1> QED BY <1>1, <1>2, <1>7, <1>8, <1>9, <1>10, <1>11, <1>12, <1>14 DEF Inv

(* Without the entry and the breakpoint at a, if no saved word and no byte *)
(* of memory has its int3.                                                 *)
LEMMA Removed ==
    ASSUME NEW m, NEW E, NEW B, Basic(m, E, B), NEW a, NoSaved(E, a), m[a] # "cc",
           NEW F, F = {e \in E : e.addr # a}, NEW D, D = {b \in B : b.addr # a}
    PROVE  /\ Basic(m, F, D)
           /\ Apart(E) => Apart(F)
           /\ AllOn(E, B) => AllOn(F, D)
           /\ \A p : Clean(E, p) => Clean(F, p)
           /\ Synced(E, B) => Synced(F, D)
<1>1. \A x : Has(F, x) <=> Has(E, x) /\ x # a
  BY DEF Has
<1>2. \A x : Has(D, x) <=> Has(B, x) /\ x # a
  BY DEF Has
<1>3. WordsListed(F)
  BY <1>1 DEF Basic, WordsListed, NoSaved
<1>4. MemListed(m, F)
  BY <1>1 DEF Basic, MemListed
<1>5. SameAddrs(F, D)
  BY <1>1, <1>2 DEF Basic, SameAddrs
<1>6. Unique(F) /\ Unique(D) /\ Genuine(F)
  BY DEF Basic, Unique, Genuine
<1>7. Basic(m, F, D)
  BY <1>3, <1>4, <1>5, <1>6 DEF Basic
<1>8. Apart(E) => Apart(F)
  BY DEF Apart
<1>9. AllOn(E, B) => AllOn(F, D)
  BY DEF AllOn
<1>10. \A p : Clean(E, p) => Clean(F, p)
  BY DEF Clean
<1>11. Synced(E, B) => Synced(F, D)
  BY DEF Synced
<1> QED BY <1>7, <1>8, <1>9, <1>10, <1>11

(* What _handle_breakpoints reports has the types of hit and pc. *)
LEMMA ReportIs ==
    ASSUME TypeOK, NEW t \in Threads
    PROVE  Report(t).bp \in Nat /\ Report(t).ip \in 0..(MaxAddr + 1)
<1>1. pc[t] \in 0..(MaxAddr + 1) /\ pc[t] \in Nat
  BY DEF TypeOK
<1>2. NoAddr \in Nat /\ MaxAddr \in Nat
  BY Sizes DEF NoAddr
<1>3. pc[t] > 0 => pc[t] - 1 \in Nat /\ pc[t] - 1 \in 0..(MaxAddr + 1)
  BY <1>1, <1>2
<1>4. \/ Report(t) = [bp |-> NoAddr, ip |-> pc[t]]
      \/ Report(t) = [bp |-> pc[t], ip |-> pc[t]]
      \/ pc[t] > 0 /\ Report(t) = [bp |-> pc[t] - 1, ip |-> pc[t] - 1]
  BY DEF Report
<1> QED BY <1>1, <1>2, <1>3, <1>4

(* The memory as wait leaves it. *)
LEMMA StopIs ==
    ASSUME Inv, Stop
    PROVE  /\ Restored(mem', mem, Range(bList)) /\ Basic(mem', Range(bList), Range(bps))
           /\ Unaltered => \A x \in Cells : mem'[x] = program[x]
<1> DEFINE E == Range(bList)
           B == Range(bps)
<1>1. TypeOK /\ state = "running" /\ LiveInv /\ UnalteredInv
  BY DEF Inv, Stop
<1>2. /\ bList \in Seq(Entry) /\ Ordered(bList) /\ mem \in Memory /\ Basic(mem, E, B)
      /\ NoOverlap => Apart(E)
      /\ NoDisable => AllOn(E, B)
      /\ Unaltered => Clean(E, program) /\ MemRunning(mem, E, program)
  BY <1>1 DEF TypeOK, LiveInv, UnalteredInv
<1>3. mem' = RestoreAll(mem, bList)
  BY DEF Stop
<1>4. Restored(mem', mem, E)
  BY <1>2, <1>3, RestoreIs
<1> HIDE DEF E, B
<1>5. Unaltered => \A x \in Cells : mem[x] = program[x] \/ OnAt(E, x)
  BY <1>2 DEF MemRunning
<1>6. Basic(mem', E, B) /\ (Unaltered => \A x \in Cells : mem'[x] = program[x])
  BY <1>2, <1>4, <1>5, RestoredReady
<1> QED BY <1>4, <1>6 DEF E, B

(* wait keeps the invariant, and with it the removal of the breakpoint     *)
(* that finish() had set.                                                  *)
LEMMA StopInv ==
    ASSUME Inv, Stop, uses' = uses
    PROVE  Inv'
<1> DEFINE E == Range(bList)
           B == Range(bps)
           F == Range(bList')
           D == Range(bps')
<1>1. /\ TypeOK /\ state = "running" /\ (\A x \in Cells : program[x] # "cc")
      /\ TempInv /\ LiveInv /\ UnalteredInv /\ PlainInv
  BY DEF Inv, Stop
<1>2. /\ bList \in Seq(Entry) /\ Ordered(bList) /\ bps \in Seq(Bp) /\ Distinct(bps)
      /\ NoOverlap => Apart(E)
      /\ NoDisable => AllOn(E, B)
      /\ Unaltered => Clean(E, program) /\ Synced(E, B)
      /\ Settled(B)
      /\ Plain => ~skipped
  BY <1>1 DEF TypeOK, LiveInv, UnalteredInv, PlainInv
<1>3. /\ Restored(mem', mem, E) /\ Basic(mem', E, B)
      /\ Unaltered => \A x \in Cells : mem'[x] = program[x]
  BY StopIs
<1>4. /\ UNCHANGED <<program, skipped>> /\ state' = "stopped" /\ trapped' = {} /\ temporary' = NoAddr
      /\ hit' = [t \in Threads |-> Report(t).bp]
      /\ pc' = [t \in Threads |-> Report(t).ip]
  BY DEF Stop
<1>5. hit' \in [Threads -> Nat] /\ pc' \in [Threads -> 0..(MaxAddr + 1)]
  BY <1>1, <1>4, ReportIs
<1>6. /\ bList' \in Seq(Entry) /\ Ordered(bList') /\ bps' \in Seq(Bp) /\ Distinct(bps')
      /\ Basic(mem', F, D)
      /\ NoOverlap => Apart(F)
      /\ NoDisable => AllOn(F, D)
      /\ Unaltered => Clean(F, program) /\ Synced(F, D)
      /\ D \subseteq B
  <2>1. CASE temporary = NoAddr
    <3>1. bList' = bList /\ bps' = bps
      BY <2>1 DEF Stop
    <3> QED BY <1>2, <1>3, <3>1
  <2>2. CASE temporary # NoAddr
    <3> DEFINE a == temporary
    <3>1. bList' = Unregister(bList, a) /\ bps' = DelBp(a)
      BY <2>2 DEF Stop
    <3>2. a \in Addrs /\ a \in Cells /\ OnAt(E, a) /\ NoSaved(E, a)
      BY <1>1, <2>2, Sizes DEF TypeOK, TempInv
    <3>3. Has(E, a) /\ Has(B, a)
      BY <1>3, <3>2 DEF OnAt, Has, Basic, SameAddrs
    <3>4. Listed(bList, a) /\ Known(a)
      BY <3>3, ListedIs DEF Known
    <3>5. bList' \in Seq(Entry) /\ Ordered(bList') /\ F = {e \in E : e.addr # a}
      BY <1>2, <3>1, <3>4, UnregisterIs
    <3>6. bps' \in Seq(Bp) /\ Distinct(bps') /\ D = {b \in B : b.addr # a}
      BY <1>2, <3>1, <3>4, DelBpIs
    <3> HIDE DEF E, B, F, D
    <3>7. Basic(mem, E, B)
      BY <1>1 DEF LiveInv, E, B
    <3>8. mem'[a] # "cc"
      <4>1. PICK e \in E : e.addr = a /\ e.enabled
        BY <3>2 DEF OnAt
      <4> QED BY <1>3, <3>2, <3>7, <4>1, RestoreAt
    <3> HIDE DEF a
    <3>9. /\ Basic(mem', F, D)
          /\ Apart(E) => Apart(F)
          /\ AllOn(E, B) => AllOn(F, D)
          /\ \A p : Clean(E, p) => Clean(F, p)
          /\ Synced(E, B) => Synced(F, D)
      <4>1. Basic(mem', E, B)
        BY <1>3
      <4>2. NoSaved(E, a)
        BY <3>2
      <4>3. F = {e \in E : e.addr # a}
        BY <3>5
      <4>4. D = {b \in B : b.addr # a}
        BY <3>6
      <4> QED BY <3>8, <4>1, <4>2, <4>3, <4>4, Removed, SMTT(30)
    <3> QED BY <1>2, <3>5, <3>6, <3>9
  <2> QED BY <2>1, <2>2
<1> HIDE DEF E, B, F, D
<1>7. Unaltered => MemStopped(mem', F, program)
  BY <1>3 DEF MemStopped
<1>8. ASSUME Plain, NEW t \in Threads PROVE Quiet(mem', D, pc'[t])
  <2>1. pc'[t] \in Cells
    BY <1>5, PointerInCode
  <2>2. mem'[pc'[t]] # "cc"
    BY <1>1, <1>3, <1>8, <2>1, Scripts
  <2> QED BY <1>2, <1>6, <2>2 DEF Quiet, Settled
<1>9. mem' \in Memory
  BY <1>3 DEF Basic
<1>10. TypeOK'
  BY <1>1, <1>4, <1>5, <1>6, <1>9 DEF TypeOK
<1>11. Ready(mem, bList, bps)'
  BY <1>2, <1>4, <1>6, <1>7, <1>8, SameScript DEF Ready, F, D
<1> QED BY <1>1, <1>4, <1>10, <1>11, ReadyInv

-------------------------------------------------------------------------------
(* The specification. *)

(* The invariant holds when the tracee has started. *)
LEMMA InitInv ==
    ASSUME Init
    PROVE  Inv
<1>1. /\ uses \subseteq AllUses
      /\ bList = << >> /\ bps = << >> /\ state = "stopped" /\ trapped = {}
      /\ hit = NoHits /\ temporary = NoAddr /\ skipped = FALSE
      /\ mem = program /\ pc \in [Threads -> Addrs \ BreakAddrs]
  BY BreakpointsAssumption DEF Init
<1>2. program \in Memory /\ \A x \in Cells : program[x] = "old"
  BY DEF Init, Memory, Bytes, Cells
<1>3. NoHits \in [Threads -> Nat]
  BY Sizes DEF NoHits, NoAddr
<1>4. pc \in [Threads -> 0..(MaxAddr + 1)]
  <2>1. \A x \in Addrs : x \in 0..(MaxAddr + 1)
    BY Sizes DEF Addrs
  <2> QED BY <1>1, <2>1
<1>5. \A x \in Cells : mem[x] # "cc" /\ mem[x] = program[x]
  BY <1>1, <1>2
<1>6. TypeOK
  <2>1. bList \in Seq(Entry) /\ bps \in Seq(Bp)
    <3>1. \A T : << >> \in Seq(T)
      OBVIOUS
    <3> QED BY <1>1, <3>1
  <2>2. trapped \subseteq Threads /\ skipped \in BOOLEAN
    BY <1>1
  <2>3. mem \in Memory /\ hit \in [Threads -> Nat]
    BY <1>1, <1>2, <1>3
  <2> QED BY <1>1, <1>2, <1>4, <2>1, <2>3, <2>2 DEF TypeOK
<1>7. Range(bList) = {} /\ Range(bps) = {}
  BY <1>1 DEF Range
<1>8. ListConsistent /\ Ordered(bList) /\ Distinct(bps)
  BY <1>1 DEF ListConsistent, Ordered, Distinct
<1>9. Basic(mem, {}, {})
  BY <1>1, <1>2, <1>5 DEF Basic, Unique, Genuine, WordsListed, MemListed, SameAddrs, Has
<1>10. Apart({}) /\ AllOn({}, {}) /\ Clean({}, program) /\ Synced({}, {})
  BY DEF Apart, AllOn, Clean, Synced
<1>11. MemStopped(mem, {}, program)
  BY <1>5 DEF MemStopped
<1>12. \A t \in Threads : Quiet(mem, {}, pc[t])
  <2>1. \A t \in Threads : pc[t] \in Cells
    BY <1>4, PointerInCode
  <2> QED BY <1>5, <2>1 DEF Quiet
<1>13. TempInv
  BY <1>1 DEF TempInv
<1>14. LiveInv
  BY <1>1, <1>7, <1>8, <1>9, <1>10 DEF LiveInv
<1>15. UnalteredInv
  BY <1>1, <1>7, <1>10, <1>11 DEF UnalteredInv
<1>16. PlainInv
  BY <1>1, <1>7, <1>12 DEF PlainInv
<1>17. TrapInv
  BY <1>1 DEF TrapInv
<1> QED BY <1>1, <1>5, <1>6, <1>8, <1>13, <1>14, <1>15, <1>16, <1>17 DEF Inv

(* A step that changes nothing keeps the invariant. *)
LEMMA StutterInv ==
    ASSUME Inv, UNCHANGED vars
    PROVE  Inv'
<1>1. UNCHANGED <<uses, mem, program, bList, bps, pc, state, trapped, hit, temporary, skipped>>
  BY DEF vars
<1>2. TypeOK'
  BY <1>1 DEF Inv, TypeOK
<1>3. ListConsistent' /\ TempInv'
  BY <1>1 DEF Inv, ListConsistent, TempInv
<1>4. LiveInv'
  BY <1>1, SameScript DEF Inv, LiveInv
<1>5. UnalteredInv'
  BY <1>1, SameScript DEF Inv, UnalteredInv
<1>6. PlainInv' /\ TrapInv'
  BY <1>1, SameScript DEF Inv, PlainInv, TrapInv
<1> QED BY <1>1, <1>2, <1>3, <1>4, <1>5, <1>6 DEF Inv

(* Every step keeps the invariant. *)
LEMMA NextInv ==
    ASSUME Inv, [Next]_vars
    PROVE  Inv'
<1>1. CASE UNCHANGED vars
  BY <1>1, StutterInv
<1>2. CASE Next
  <2>1. uses' = uses /\ Actions
    BY <1>2 DEF Next
  <2>2. CASE \E a \in BreakAddrs : SetBreakpoint(a)
    BY <2>1, <2>2, SetBreakpointInv
  <2>3. CASE \E a \in BreakAddrs, e \in BOOLEAN : Change(a, e)
    BY <2>1, <2>3, ChangeInv
  <2>4. CASE \E a \in Addrs : WriteMemory(a)
    BY <2>1, <2>4, WriteMemoryInv
  <2>5. CASE Cont
    BY <2>1, <2>5, ContInv
  <2>6. CASE Detach
    BY <2>1, <2>6, DetachInv
  <2>7. CASE Stop
    BY <2>1, <2>7, StopInv
  <2>8. CASE \E a \in BreakAddrs : FinishBacktrace(a)
    BY <2>1, <2>8, FinishBacktraceInv
  <2>9. CASE \E t \in Threads : Run(t) \/ Step(t) \/ StepUntil(t) \/ FinishStepping(t)
    BY <2>1, <2>9, RunInv, StepInv, StepUntilInv, FinishSteppingInv
  <2> QED BY <2>1, <2>2, <2>3, <2>4, <2>5, <2>6, <2>7, <2>8, <2>9 DEF Actions
<1> QED BY <1>1, <1>2

(* The inductive invariant holds in every reachable state. *)
LEMMA InvHolds == Spec => []Inv
<1>1. Init => Inv
  BY InitInv
<1>2. Inv /\ [Next]_vars => Inv'
  BY NextInv
<1> QED BY <1>1, <1>2, PTL DEF Spec

(* While the tracee runs, the enabled entries are the enabled breakpoints. *)
LEMMA EnabledIs ==
    ASSUME NEW m, NEW E, Basic(m, E, Range(bps)), Synced(E, Range(bps)), Settled(Range(bps)), NEW a
    PROVE  /\ OnAt(E, a) <=> a \in Addrs /\ Known(a) /\ BpAt(a).enabled
           /\ OnAt(E, a) => Active(a)
<1> DEFINE B == Range(bps)
<1>1. Known(a) <=> Has(B, a)
  BY ListedIs DEF Known
<1>2. Known(a) => BpAt(a) \in B /\ BpAt(a).addr = a
  BY ListedIs DEF Known, BpAt
<1> HIDE DEF B
<1>3. E \subseteq Entry /\ B \subseteq Bp /\ Unique(E) /\ Unique(B)
  BY DEF Basic, B
<1>4. a \in Addrs => (Has(E, a) <=> Has(B, a))
  BY DEF Basic, SameAddrs, B
<1>5. \A e \in E : e.addr \in Addrs
  BY <1>3 DEF Entry
<1>6. \A e \in E : e.addr = a /\ Known(a) => BpAt(a).enabled = e.enabled
  BY <1>2 DEF Synced, Settled, B
<1>7. Known(a) => ~BpAt(a).disabled_for_step
  BY <1>2 DEF Settled, B
<1>8. ASSUME OnAt(E, a) PROVE a \in Addrs /\ Known(a) /\ BpAt(a).enabled
  <2>1. PICK e \in E : e.addr = a /\ e.enabled
    BY <1>8 DEF OnAt
  <2>2. a \in Addrs /\ Known(a)
    BY <1>1, <1>4, <1>5, <2>1 DEF Has
  <2> QED BY <1>6, <2>1, <2>2
<1>9. ASSUME a \in Addrs, Known(a), BpAt(a).enabled PROVE OnAt(E, a)
  <2>1. PICK e \in E : e.addr = a
    BY <1>1, <1>4, <1>9 DEF Has
  <2> QED BY <1>6, <1>9, <2>1 DEF OnAt
<1> QED BY <1>7, <1>8, <1>9 DEF Active

(* Only a wait makes a running tracee a stopped one. *)
LEMMA StopsOnly ==
    ASSUME Next, state = "running", state' = "stopped"
    PROVE  Stop
<1>1. ASSUME NEW a PROVE ~SetBreakpoint(a) /\ ~WriteMemory(a) /\ ~FinishBacktrace(a)
  BY DEF SetBreakpoint, WriteMemory, FinishBacktrace
<1>2. ASSUME NEW a, NEW e PROVE ~Change(a, e)
  BY DEF Change
<1>3. ASSUME NEW t PROVE ~Run(t) /\ ~Step(t) /\ ~StepUntil(t) /\ ~FinishStepping(t)
  BY DEF Run, Step, StepUntil, FinishStepping
<1>4. ~Cont /\ ~Detach
  BY DEF Cont, Detach
<1> QED BY <1>1, <1>2, <1>3, <1>4 DEF Next, Actions

(* Whatever the script does, the list of the C library stays ordered by    *)
(* address, holds every breakpoint that the script knows of, and has no    *)
(* saved instruction that begins with an int3 (register_breakpoint,        *)
(* unregister_breakpoint, prepare_for_run, detach).                        *)
THEOREM ListStaysConsistent == Spec => []ListConsistent
<1>1. Inv => ListConsistent
  BY DEF Inv
<1> QED BY <1>1, InvHolds, PTL

(* While the tracee runs there is an int3 exactly at the enabled           *)
(* breakpoints, and every other byte is the program's: whatever the script *)
(* has set, enabled, disabled, re-armed and stepped over before, unless it *)
(* writes to memory, calls finish on a disabled breakpoint, or both        *)
(* disables breakpoints and sets some closer than a word.                  *)
THEOREM ArmedWhileRunning == Spec => []Armed
<1>1. Inv => Armed
  <2> SUFFICES ASSUME Inv, Unaltered, state = "running", NEW a \in DOMAIN mem
               PROVE  mem[a] = (IF a \in Addrs /\ Known(a) /\ BpAt(a).enabled THEN "cc" ELSE program[a])
    BY DEF Armed
  <2>1. a \in Cells
    BY DEF Inv, TypeOK, Memory, Cells
  <2>2. /\ Basic(mem, Range(bList), Range(bps)) /\ Synced(Range(bList), Range(bps))
        /\ Settled(Range(bps)) /\ MemRunning(mem, Range(bList), program)
    BY DEF Inv, LiveInv, UnalteredInv
  <2>3. OnAt(Range(bList), a) <=> a \in Addrs /\ Known(a) /\ BpAt(a).enabled
    BY <2>2, EnabledIs
  <2> QED BY <2>1, <2>2, <2>3 DEF MemRunning
<1> QED BY <1>1, InvHolds, PTL

(* The step that prepare_for_run makes over a breakpoint, and any step of  *)
(* the script, executes the instruction of the program and not the int3.   *)
THEOREM StepsExecuteOriginal == Spec => []OriginalExecuted
<1>1. Inv => OriginalExecuted
  BY Zenon DEF Inv, PlainInv, Plain, OriginalExecuted
<1> QED BY <1>1, InvHolds, PTL

(* Two memories with the same bytes are the same. *)
LEMMA SameMemory ==
    ASSUME NEW m \in Memory, NEW q \in Memory, \A x \in Cells : m[x] = q[x]
    PROVE  m = q
<1>1. m \in [Cells -> Bytes] /\ q \in [Cells -> Bytes]
  BY DEF Memory, Cells
<1> QED BY <1>1

(* When a wait returns, the script reads the program's own bytes. *)
THEOREM MemoryIsRestored == Spec => RestoredAtStop
<1>1. ASSUME Inv, [Next]_vars, Unaltered, state = "running", state' = "stopped" PROVE mem' = program'
  <2>1. Next
    BY <1>1 DEF vars
  <2>2. Stop
    BY <1>1, <2>1, StopsOnly
  <2>3. Basic(mem', Range(bList), Range(bps)) /\ \A x \in Cells : mem'[x] = program[x]
    BY <1>1, <2>2, StopIs
  <2>4. mem' \in Memory /\ program \in Memory /\ program' = program
    BY <1>1, <2>2, <2>3 DEF Inv, TypeOK, Basic, Stop
  <2> QED BY <2>3, <2>4, SameMemory
<1>2. Inv /\ [Next]_vars => [Unaltered /\ state = "running" /\ state' = "stopped" => mem' = program']_vars
  BY <1>1
<1> QED BY <1>2, InvHolds, PTL DEF Spec, RestoredAtStop

(* A thread that ran into an int3 is reported to have hit the breakpoint   *)
(* one byte back, and stands on it again.                                  *)
THEOREM HitsAreAttributed == Spec => HitAttributed
<1>1. ASSUME Inv, [Next]_vars, Careful, state = "running", state' = "stopped", NEW t \in trapped
      PROVE  hit'[t] = pc[t] - 1 /\ pc'[t] = pc[t] - 1
  <2> DEFINE E == Range(bList)
             B == Range(bps)
  <2>1. Next
    BY <1>1 DEF vars
  <2>2. Stop
    BY <1>1, <2>1, StopsOnly
  <2>3. /\ Basic(mem, E, B) /\ Settled(B) /\ Apart(E) /\ Synced(E, B)
        /\ pc[t] > 0 /\ OnAt(E, pc[t] - 1)
    BY <1>1, Scripts DEF Inv, LiveInv, UnalteredInv, TrapInv
  <2>4. t \in Threads /\ pc[t] \in Nat
    BY <1>1 DEF Inv, TypeOK
  <2>5. Active(pc[t] - 1)
    BY <2>3, EnabledIs
  <2>6. ~Active(pc[t])
    <3> SUFFICES ASSUME Active(pc[t]) PROVE FALSE
      OBVIOUS
    <3>1. Has(B, pc[t])
      BY ListedIs DEF Active, Known
    <3> HIDE DEF E, B
    <3>2. PICK b \in B : b.addr = pc[t]
      BY <3>1 DEF Has
    <3>3. pc[t] \in Addrs
      BY <2>3, <3>2 DEF Basic, Bp
    <3>4. PICK f \in E : f.addr = pc[t]
      BY <2>3, <3>1, <3>3 DEF Basic, SameAddrs, Has
    <3>5. PICK e \in E : e.addr = pc[t] - 1
      BY <2>3 DEF OnAt
    <3>6. WordSize \in Nat /\ WordSize > 1
      BY Sizes
    <3>7. Covers(e.addr, f.addr)
      BY <2>3, <2>4, <3>4, <3>5, <3>6 DEF Covers
    <3>8. e = f
      BY <2>3, <3>7 DEF Apart
    <3> QED BY <2>4, <3>4, <3>5, <3>8
  <2>7. Report(t) = [bp |-> pc[t] - 1, ip |-> pc[t] - 1]
    BY <1>1, <2>3, <2>5, <2>6 DEF Report
  <2>8. hit'[t] = Report(t).bp /\ pc'[t] = Report(t).ip
    BY <2>2, <2>4 DEF Stop
  <2> QED BY <2>7, <2>8
<1>2. Inv /\ [Next]_vars =>
          [Careful /\ state = "running" /\ state' = "stopped" =>
              \A t \in trapped : hit'[t] = pc[t] - 1 /\ pc'[t] = pc[t] - 1]_vars
  BY <1>1
<1> QED BY <1>2, InvHolds, PTL DEF Spec, HitAttributed

===============================================================================
