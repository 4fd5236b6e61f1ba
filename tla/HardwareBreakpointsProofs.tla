----------------------- MODULE HardwareBreakpointsProofs -----------------------
(***************************************************************************)
(* For every number of debug registers, threads and breakpoints, and every *)
(* script: the managers count right and blame the right breakpoint; and if *)
(* the script counts the registers, what is in them is what the flags of   *)
(* the breakpoints say, and no call fails but for want of a register.      *)
(***************************************************************************)
EXTENDS HardwareBreakpoints, Integers, TLAPS, FiniteSetTheorems, WellFoundedInduction, NaturalsInduction

(* The registers that hold a breakpoint. *)
Used(reg) == {i \in Regs : reg[i] # None}
Rows == [reg : [Regs -> Bps \cup {None}], count : Nat, cpu : [Regs -> Bps \cup {None}]]

(* A manager that counts right, and a thread whose registers hold no more  *)
(* than its manager thinks.                                                *)
RowOK(m) ==
    /\ m \in Rows
    /\ m.count = Cardinality(Used(m.reg))
    /\ \A i \in Regs : m.cpu[i] \in {m.reg[i], None}

(* Its table holds each breakpoint of A once, and nothing else. *)
Holds(m, A) ==
    /\ A \subseteq Bps
    /\ m.count = Cardinality(A)
    /\ \A i \in Regs : m.reg[i] \in A \cup {None}
    /\ \A b \in A : \E i \in Regs : m.reg[i] = b
    /\ \A i, j \in Regs : m.reg[i] = m.reg[j] /\ m.reg[i] # None => i = j

TypeOK ==
    /\ uses \in Scenarios
    /\ registers \in [Threads -> [Regs -> Bps \cup {None}]]
    /\ cpu \in [Threads -> [Regs -> Bps \cup {None}]]
    /\ breakpoint_count \in [Threads -> Nat]
    /\ enabled \in [Bps -> BOOLEAN] /\ changed \in [Bps -> BOOLEAN]
    /\ helpers \in Seq(Threads) /\ Main \in Alive
    /\ \A i, j \in DOMAIN helpers : helpers[i] = helpers[j] => i = j
    /\ mode \in {"stopped", "running", "detached"}

(* The dictionary has one breakpoint for an address. *)
Dictionary ==
    mode # "detached" =>
        /\ breakpoints \in Seq(Bps)
        /\ \A i, j \in DOMAIN breakpoints :
              Address[breakpoints[i]] = Address[breakpoints[j]] => i = j

(* A thread that has ended, or not begun, has nothing in its registers. *)
ManagersRight ==
    /\ \A t \in Threads : RowOK(Managers[t])
    /\ \A t \in Threads \ Alive : Managers[t] = Row(Empty, 0, Empty)

Nice == Careful \/ uses = {"refused"}
Wanted == {b \in Listed : enabled[b] \/ changed[b]}

(* What the last cont left in the registers, and what was set since. *)
Acted == {b \in Listed : (enabled[b] /\ ~changed[b]) \/ (~enabled[b] /\ changed[b])}
Settled == \A b \in Listed : ~changed[b]

(* If a script counts the registers, they hold what the flags say. *)
NiceInv ==
    Nice /\ mode # "detached" =>
        /\ \A t \in Alive : Holds(Managers[t], Acted)
        /\ Cardinality(Wanted) <= AMD64_DBREGS_COUNT
        /\ mode = "running" => Settled

CarefulInv ==
    Careful =>
        /\ \A t \in Threads : cpu[t] = registers[t]
        /\ mode # "detached" => Listed \cap Refused = {}
        /\ mode = "detached" => \A t \in Alive : cpu[t] = Empty

Inv == TypeOK /\ Dictionary /\ ManagersRight /\ NiceInv /\ CarefulInv

-------------------------------------------------------------------------------
(* Numbers and recursion. *)

LEMMA Smallest ==
    ASSUME NEW S, S \subseteq Nat, S # {}
    PROVE  \E n \in S : \A k \in S : n <= k
<1> DEFINE R == OpToRel(<, Nat)
<1>1. IsWellFoundedOn(R, Nat)
  BY NatLessThanWellFounded
<1>2. \A k, n \in Nat : k < n => <<k, n>> \in R
  BY DEF OpToRel
<1> HIDE DEF R
<1>3. PICK n \in S : \A k \in S : ~(<<k, n>> \in R)
  BY <1>1, WFMin, Zenon
<1>4. \A k \in S : n <= k
  <2> SUFFICES ASSUME NEW k \in S PROVE n <= k
    OBVIOUS
  <2>1. k \in Nat /\ n \in Nat
    OBVIOUS
  <2>2. k < n => <<k, n>> \in R
    BY <1>2, <2>1
  <2> QED BY <1>3, <2>1, <2>2
<1> QED BY <1>4

-------------------------------------------------------------------------------
(* Registers. *)

LEMMA LowestIs ==
    ASSUME NEW S, S \subseteq Nat, S # {}
    PROVE  Lowest(S) \in S /\ \A k \in S : Lowest(S) <= k
<1>1. \E i \in S : \A k \in S : i <= k
  BY Smallest
<1> QED BY <1>1 DEF Lowest

LEMMA RegsFinite ==
    /\ Regs \subseteq Nat \ {0} /\ IsFiniteSet(Regs)
    /\ Cardinality(Regs) = AMD64_DBREGS_COUNT
<1>1. AMD64_DBREGS_COUNT \in Nat \ {0}
  BY HardwareAssumption
<1>2. 1 \in Int /\ AMD64_DBREGS_COUNT \in Int /\ ~(1 > AMD64_DBREGS_COUNT)
  BY <1>1
<1>3. IsFiniteSet(1..AMD64_DBREGS_COUNT)
      /\ Cardinality(1..AMD64_DBREGS_COUNT)
            = IF 1 > AMD64_DBREGS_COUNT THEN 0 ELSE AMD64_DBREGS_COUNT - 1 + 1
  BY <1>2, FS_Interval
<1> QED BY <1>1, <1>2, <1>3 DEF Regs

LEMMA UsedFinite ==
    ASSUME NEW reg
    PROVE  /\ IsFiniteSet(Used(reg)) /\ Cardinality(Used(reg)) \in Nat
           /\ Cardinality(Used(reg)) <= AMD64_DBREGS_COUNT
           /\ Used(reg) = Regs => Cardinality(Used(reg)) = AMD64_DBREGS_COUNT
<1>1. Used(reg) \in SUBSET Regs
  BY DEF Used
<1> QED BY <1>1, RegsFinite, FS_Subset, FS_CardinalityType

(* If install_breakpoint may begin, there is a free register. *)
LEMMA FreeRegister ==
    ASSUME NEW m, RowOK(m)
    PROVE  /\ m.count < AMD64_DBREGS_COUNT => Holding(m.reg, None) # {}
           /\ InstallRaises(m) = IF m.count >= AMD64_DBREGS_COUNT THEN "limit" ELSE "nothing"
<1>1. ASSUME Holding(m.reg, None) = {} PROVE m.count = AMD64_DBREGS_COUNT
  <2>1. Used(m.reg) = Regs
    BY <1>1 DEF Used, Holding
  <2> QED BY <2>1, UsedFinite DEF RowOK
<1>2. m.count \in Nat /\ AMD64_DBREGS_COUNT \in Nat
  BY HardwareAssumption DEF RowOK, Rows
<1> QED BY <1>1, <1>2 DEF InstallRaises

LEMMA InstallRow ==
    ASSUME NEW m, RowOK(m), NEW b \in Bps, InstallRaises(m) = "nothing"
    PROVE  /\ RowOK(InstallBreakpoint(m, b))
           /\ m.cpu = m.reg /\ b \notin Refused =>
                 InstallBreakpoint(m, b).cpu = InstallBreakpoint(m, b).reg
           /\ \A A : Holds(m, A) /\ IsFiniteSet(A) /\ b \notin A =>
                        Holds(InstallBreakpoint(m, b), A \cup {b})
<1> DEFINE i == Lowest(Holding(m.reg, None))
           reg == [m.reg EXCEPT ![i] = b]
           dbregs == IF b \in Refused THEN m.cpu ELSE [m.cpu EXCEPT ![i] = b]
<1>1. Holding(m.reg, None) # {} /\ Holding(m.reg, None) \subseteq Nat
  BY RegsFinite DEF InstallRaises, Holding
<1>2. i \in Regs /\ m.reg[i] = None
  <2>1. i \in Holding(m.reg, None)
    BY <1>1, LowestIs
  <2> QED BY <2>1 DEF Holding
<1>3. InstallBreakpoint(m, b) = Row(reg, m.count + 1, dbregs)
  BY DEF InstallBreakpoint
<1> HIDE DEF i
<1>4. m.reg \in [Regs -> Bps \cup {None}] /\ m.cpu \in [Regs -> Bps \cup {None}] /\ m.count \in Nat
  BY DEF RowOK, Rows
<1>5. b # None
  BY HardwareAssumption
<1>6. reg \in [Regs -> Bps \cup {None}] /\ dbregs \in [Regs -> Bps \cup {None}]
  BY <1>4
<1>7. \A j \in Regs : reg[j] = IF j = i THEN b ELSE m.reg[j]
  BY <1>4
<1>8. Cardinality(Used(reg)) = m.count + 1
  <2>1. Used(reg) = Used(m.reg) \cup {i} /\ i \notin Used(m.reg)
    BY <1>2, <1>5, <1>7 DEF Used
  <2> QED BY <2>1, UsedFinite, FS_AddElement DEF RowOK
<1>9. \A j \in Regs : dbregs[j] \in {reg[j], None}
  BY <1>2, <1>4, <1>7 DEF RowOK
<1>10. m.cpu = m.reg /\ b \notin Refused => dbregs = reg
  OBVIOUS
<1>11. ASSUME NEW A, Holds(m, A), IsFiniteSet(A), b \notin A
       PROVE  /\ A \cup {b} \subseteq Bps
              /\ m.count + 1 = Cardinality(A \cup {b})
              /\ \A j \in Regs : reg[j] \in A \cup {b} \cup {None}
              /\ \A c \in A \cup {b} : \E j \in Regs : reg[j] = c
              /\ \A j, k \in Regs : reg[j] = reg[k] /\ reg[j] # None => j = k
  <2>1. A \cup {b} \subseteq Bps
    BY <1>11 DEF Holds
  <2>2. m.count + 1 = Cardinality(A \cup {b})
    BY <1>11, FS_AddElement DEF Holds
  <2>3. \A j \in Regs : reg[j] \in A \cup {b} \cup {None}
    BY <1>7, <1>11 DEF Holds
  <2>4. ASSUME NEW c \in A \cup {b} PROVE \E j \in Regs : reg[j] = c
    <3>1. CASE c = b
      BY <1>2, <1>7, <3>1
    <3>2. CASE c \in A
      <4>1. PICK j \in Regs : m.reg[j] = c
        BY <1>11, <3>2 DEF Holds
      <4>2. c # None
        BY <1>11, <3>2, HardwareAssumption DEF Holds
      <4>3. j # i
        BY <1>2, <4>1, <4>2
      <4> QED BY <1>7, <4>1, <4>3
    <3> QED BY <3>1, <3>2
  <2>5. ASSUME NEW j \in Regs, NEW k \in Regs, reg[j] = reg[k], reg[j] # None
        PROVE  j = k
    <3>1. \A l \in Regs : m.reg[l] # b
      BY <1>5, <1>11 DEF Holds
    <3>2. j = i <=> k = i
      BY <1>7, <2>5, <3>1
    <3>3. j # i /\ k # i => m.reg[j] = m.reg[k] /\ m.reg[j] # None
      BY <1>7, <2>5
    <3> QED BY <1>11, <3>2, <3>3 DEF Holds
  <2> QED BY <2>1, <2>2, <2>3, <2>4, <2>5
<1> HIDE DEF reg, dbregs
<1>12. /\ Row(reg, m.count + 1, dbregs).reg = reg
       /\ Row(reg, m.count + 1, dbregs).count = m.count + 1
       /\ Row(reg, m.count + 1, dbregs).cpu = dbregs
       /\ Row(reg, m.count + 1, dbregs) \in Rows
  BY <1>4, <1>6 DEF Row, Rows
<1>13. RowOK(Row(reg, m.count + 1, dbregs))
  BY <1>8, <1>9, <1>12 DEF RowOK
<1>14. \A A : Holds(m, A) /\ IsFiniteSet(A) /\ b \notin A => Holds(Row(reg, m.count + 1, dbregs), A \cup {b})
  BY <1>11, <1>12 DEF Holds
<1> QED BY <1>3, <1>10, <1>12, <1>13, <1>14

LEMMA RemoveRow ==
    ASSUME NEW m, RowOK(m), NEW b \in Bps
    PROVE  /\ RemoveRaises(m, b) = "nothing" =>
                 /\ RowOK(RemoveBreakpoint(m, b))
                 /\ m.cpu = m.reg => RemoveBreakpoint(m, b).cpu = RemoveBreakpoint(m, b).reg
           /\ \A A : Holds(m, A) /\ IsFiniteSet(A) /\ b \in A =>
                 /\ RemoveRaises(m, b) = "nothing"
                 /\ Holds(RemoveBreakpoint(m, b), A \ {b})
<1> DEFINE i == Lowest(Holding(m.reg, b))
           reg == [m.reg EXCEPT ![i] = None]
           dbregs == [m.cpu EXCEPT ![i] = None]
           n == Row(reg, m.count - 1, dbregs)
<1>1. RemoveBreakpoint(m, b) = n
  BY DEF RemoveBreakpoint
<1>2. m.reg \in [Regs -> Bps \cup {None}] /\ m.cpu \in [Regs -> Bps \cup {None}] /\ m.count \in Nat
  BY DEF RowOK, Rows
<1>3. b # None
  BY HardwareAssumption
<1>4. reg \in [Regs -> Bps \cup {None}] /\ dbregs \in [Regs -> Bps \cup {None}]
  BY <1>2
<1>5. \A j \in Regs : reg[j] = IF j = i THEN None ELSE m.reg[j]
  BY <1>2
<1>6. \A j \in Regs : dbregs[j] \in {reg[j], None}
  BY <1>2 DEF RowOK
<1>7. m.cpu = m.reg => dbregs = reg
  OBVIOUS
<1>8. n.reg = reg /\ n.count = m.count - 1 /\ n.cpu = dbregs
  BY DEF Row
<1>9. Holding(m.reg, b) \subseteq Nat
  BY RegsFinite DEF Holding
<1>10. ASSUME RemoveRaises(m, b) = "nothing" PROVE m.count > 0 /\ i \in Regs /\ m.reg[i] = b
  <2>1. m.count > 0 /\ Holding(m.reg, b) # {}
    BY <1>2, <1>10 DEF RemoveRaises
  <2>2. i \in Holding(m.reg, b)
    BY <1>9, <2>1, LowestIs
  <2> QED BY <2>1, <2>2 DEF Holding
<1> HIDE DEF i
<1>11. ASSUME RemoveRaises(m, b) = "nothing"
       PROVE  RowOK(n) /\ (m.cpu = m.reg => n.cpu = n.reg)
  <2>1. Used(reg) = Used(m.reg) \ {i} /\ i \in Used(m.reg)
    BY <1>3, <1>5, <1>10, <1>11 DEF Used
  <2>2. Cardinality(Used(reg)) = m.count - 1
    BY <2>1, UsedFinite, FS_RemoveElement DEF RowOK
  <2>3. n \in Rows
    BY <1>2, <1>4, <1>10, <1>11 DEF Row, Rows
  <2>4. RowOK(n)
    <3> HIDE DEF reg, dbregs, n
    <3> QED BY <1>6, <1>8, <2>2, <2>3 DEF RowOK
  <2> QED BY <1>7, <1>8, <2>4
<1>12. ASSUME NEW A, Holds(m, A), IsFiniteSet(A), b \in A
       PROVE  RemoveRaises(m, b) = "nothing" /\ Holds(n, A \ {b})
  <2>1. Cardinality(A) > 0
    BY <1>12, FS_EmptySet, FS_CardinalityType
  <2>2. Holding(m.reg, b) # {}
    BY <1>12 DEF Holds, Holding
  <2>3. RemoveRaises(m, b) = "nothing"
    BY <1>2, <1>12, <2>1, <2>2 DEF RemoveRaises, Holds
  <2>4. i \in Regs /\ m.reg[i] = b
    BY <1>10, <2>3
  <2>5. m.count - 1 = Cardinality(A \ {b})
    BY <1>12, FS_RemoveElement DEF Holds
  <2>6. \A j \in Regs : j # i => m.reg[j] # b
    BY <1>3, <1>12, <2>4 DEF Holds
  <2>7. \A j \in Regs : reg[j] \in (A \ {b}) \cup {None}
    BY <1>5, <1>12, <2>6 DEF Holds
  <2>8. ASSUME NEW c \in A \ {b} PROVE \E j \in Regs : reg[j] = c
    <3>1. PICK j \in Regs : m.reg[j] = c
      BY <1>12 DEF Holds
    <3> QED BY <1>5, <2>4, <3>1
  <2>9. \A j, k \in Regs : reg[j] = reg[k] /\ reg[j] # None => j = k
    BY <1>5, <1>12 DEF Holds
  <2>10. A \ {b} \subseteq Bps
    BY <1>12 DEF Holds
  <2>11. Holds(n, A \ {b})
    <3> HIDE DEF reg, n
    <3> QED BY <1>8, <2>5, <2>7, <2>8, <2>9, <2>10 DEF Holds
  <2> QED BY <2>3, <2>11
<1> HIDE DEF n
<1> QED BY <1>1, <1>11, <1>12

-------------------------------------------------------------------------------
(* One method of the interface, over the managers of several threads. *)

(* Whoever is done did not fail.  If none fails all are done; if all fail  *)
(* alike, none is.                                                         *)
LEMMA OutcomeIs ==
    ASSUME NEW line \in Seq(Threads), NEW error, NEW b
    PROVE  /\ \A t \in Done(line, error) : t \in ToSet(line) /\ error[t] = "nothing"
           /\ (\A t \in ToSet(line) : error[t] = "nothing") =>
                 Done(line, error) = ToSet(line) /\ Outcome(line, error, b) = Fine
           /\ \A why : why # "nothing" /\ line # << >> /\ (\A t \in ToSet(line) : error[t] = why) =>
                 Done(line, error) = {} /\ Outcome(line, error, b) = Raise(why, b)
<1> DEFINE whole == {k \in DOMAIN line : \A j \in 1..k : error[line[j]] = "nothing"}
           failing == {i \in DOMAIN line : error[line[i]] # "nothing"}
<1>1. DOMAIN line = 1..Len(line) /\ Len(line) \in Nat /\ DOMAIN line \subseteq Nat \ {0}
  OBVIOUS
<1>2. Done(line, error) = {line[i] : i \in whole}
  BY DEF Done
<1>3. Outcome(line, error, b)
        = IF failing = {} THEN Fine ELSE Raise(error[line[Lowest(failing)]], b)
  BY DEF Outcome
<1>4. \A k \in whole : k \in DOMAIN line /\ error[line[k]] = "nothing"
  BY <1>1
<1>5. \A t \in Done(line, error) : t \in ToSet(line) /\ error[t] = "nothing"
  BY <1>2, <1>4 DEF ToSet
<1>6. ASSUME \A t \in ToSet(line) : error[t] = "nothing"
      PROVE  Done(line, error) = ToSet(line) /\ Outcome(line, error, b) = Fine
  <2>1. \A i \in DOMAIN line : error[line[i]] = "nothing"
    BY <1>6 DEF ToSet
  <2>2. whole = DOMAIN line
    BY <1>1, <2>1
  <2>3. failing = {}
    BY <2>1
  <2> QED BY <1>2, <1>3, <2>2, <2>3 DEF ToSet
<1>7. ASSUME NEW why, why # "nothing", line # << >>, \A t \in ToSet(line) : error[t] = why
      PROVE  Done(line, error) = {} /\ Outcome(line, error, b) = Raise(why, b)
  <2>1. \A i \in DOMAIN line : error[line[i]] = why
    BY <1>7 DEF ToSet
  <2>2. whole = {}
    BY <1>4, <1>7, <2>1
  <2>3. failing = DOMAIN line /\ failing # {}
    BY <1>1, <1>7, <2>1
  <2>4. Lowest(failing) \in DOMAIN line
    BY <1>1, <2>3, LowestIs
  <2> QED BY <1>2, <1>3, <2>1, <2>2, <2>3, <2>4
<1> QED BY <1>5, <1>6, <1>7

(* What is known of H while a call goes on: every manager is right, and    *)
(* those that are not in line are as they were.                            *)
Going(H, line) ==
    /\ \A t \in Threads : RowOK(H.of[t])
    /\ \A t \in Threads \ ToSet(line) : H.of[t] = Managers[t]
Exact(H) == \A t \in Threads : H.of[t].cpu = H.of[t].reg
AllHold(H, line, A) == \A t \in ToSet(line) : Holds(H.of[t], A)

LEMMA InstallIs ==
    ASSUME NEW H, NEW b \in Bps, NEW line \in Seq(Threads), Going(H, line)
    PROVE  /\ Going(Install(H, b, line), line)
           /\ Exact(H) /\ b \notin Refused => Exact(Install(H, b, line))
           /\ \A A : AllHold(H, line, A) /\ IsFiniteSet(A) /\ b \notin A /\ line # << >> =>
                 /\ Cardinality(A) < AMD64_DBREGS_COUNT =>
                       /\ AllHold(Install(H, b, line), line, A \cup {b})
                       /\ Install(H, b, line).raised = Fine
                 /\ Cardinality(A) >= AMD64_DBREGS_COUNT =>
                       /\ \A t \in Threads : Install(H, b, line).of[t] = H.of[t]
                       /\ Install(H, b, line).raised = Raise("limit", b)
<1> DEFINE error == [t \in Threads |-> InstallRaises(H.of[t])]
           G == Install(H, b, line)
<1>1. /\ \A t \in Threads : G.of[t] = IF t \in Done(line, error) THEN InstallBreakpoint(H.of[t], b)
                                      ELSE H.of[t]
      /\ G.raised = Outcome(line, error, b)
  BY DEF Install
<1>2. \A t \in Threads : error[t] = InstallRaises(H.of[t])
  OBVIOUS
<1>3. ToSet(line) \subseteq Threads
  BY DEF ToSet
<1> HIDE DEF error, G
<1>4. \A t \in Done(line, error) : t \in ToSet(line) /\ error[t] = "nothing"
  BY OutcomeIs
<1>5. Going(G, line)
  <2>1. ASSUME NEW t \in Threads PROVE RowOK(G.of[t])
    BY <1>1, <1>2, <1>4, InstallRow DEF Going
  <2>2. \A t \in Threads \ ToSet(line) : G.of[t] = Managers[t]
    BY <1>1, <1>4 DEF Going
  <2> QED BY <2>1, <2>2 DEF Going
<1>6. Exact(H) /\ b \notin Refused => Exact(G)
  BY <1>1, <1>2, <1>4, InstallRow DEF Going, Exact
<1>7. ASSUME NEW A, AllHold(H, line, A), IsFiniteSet(A), b \notin A, line # << >>
      PROVE  /\ Cardinality(A) < AMD64_DBREGS_COUNT =>
                   AllHold(G, line, A \cup {b}) /\ G.raised = Fine
             /\ Cardinality(A) >= AMD64_DBREGS_COUNT =>
                   (\A t \in Threads : G.of[t] = H.of[t]) /\ G.raised = Raise("limit", b)
  <2>1. \A t \in ToSet(line) :
           error[t] = IF Cardinality(A) >= AMD64_DBREGS_COUNT THEN "limit" ELSE "nothing"
    BY <1>2, <1>3, <1>7, FreeRegister DEF Going, AllHold, Holds
  <2>2. CASE Cardinality(A) >= AMD64_DBREGS_COUNT
    <3>1. Done(line, error) = {} /\ Outcome(line, error, b) = Raise("limit", b)
      <4>1. \A t \in ToSet(line) : error[t] = "limit"
        BY <2>1, <2>2
      <4>2. "limit" # "nothing"
        OBVIOUS
      <4> QED BY <1>7, <4>1, <4>2, OutcomeIs
    <3>2. ~(Cardinality(A) < AMD64_DBREGS_COUNT)
      BY <1>7, <2>2, HardwareAssumption, FS_CardinalityType
    <3> QED BY <1>1, <3>1, <3>2
  <2>3. CASE ~(Cardinality(A) >= AMD64_DBREGS_COUNT)
    <3>1. Done(line, error) = ToSet(line) /\ Outcome(line, error, b) = Fine
      BY <2>1, <2>3, OutcomeIs
    <3>2. ASSUME NEW t \in ToSet(line) PROVE Holds(G.of[t], A \cup {b})
      <4>1. RowOK(H.of[t]) /\ InstallRaises(H.of[t]) = "nothing" /\ Holds(H.of[t], A)
        BY <1>2, <1>3, <1>7, <2>1, <2>3 DEF Going, AllHold
      <4>2. G.of[t] = InstallBreakpoint(H.of[t], b)
        BY <1>1, <1>3, <3>1
      <4> QED BY <1>7, <4>1, <4>2, InstallRow
    <3> QED BY <1>1, <2>3, <3>1, <3>2 DEF AllHold
  <2> QED BY <2>2, <2>3
<1> QED BY <1>5, <1>6, <1>7 DEF G

LEMMA RemoveIs ==
    ASSUME NEW H, NEW b \in Bps, NEW line \in Seq(Threads), Going(H, line)
    PROVE  /\ Going(Remove(H, b, line), line)
           /\ Exact(H) => Exact(Remove(H, b, line))
           /\ \A A : AllHold(H, line, A) /\ IsFiniteSet(A) /\ b \in A =>
                 /\ AllHold(Remove(H, b, line), line, A \ {b})
                 /\ Remove(H, b, line).raised = Fine
<1> DEFINE error == [t \in Threads |-> RemoveRaises(H.of[t], b)]
           G == Remove(H, b, line)
<1>1. /\ \A t \in Threads : G.of[t] = IF t \in Done(line, error) THEN RemoveBreakpoint(H.of[t], b)
                                      ELSE H.of[t]
      /\ G.raised = Outcome(line, error, b)
  BY DEF Remove
<1>2. \A t \in Threads : error[t] = RemoveRaises(H.of[t], b)
  OBVIOUS
<1>3. ToSet(line) \subseteq Threads
  BY DEF ToSet
<1> HIDE DEF error, G
<1>4. \A t \in Done(line, error) : t \in ToSet(line) /\ error[t] = "nothing"
  BY OutcomeIs
<1>5. Going(G, line)
  <2>1. ASSUME NEW t \in Threads PROVE RowOK(G.of[t])
    BY <1>1, <1>2, <1>4, RemoveRow DEF Going
  <2>2. \A t \in Threads \ ToSet(line) : G.of[t] = Managers[t]
    BY <1>1, <1>4 DEF Going
  <2> QED BY <2>1, <2>2 DEF Going
<1>6. Exact(H) => Exact(G)
  BY <1>1, <1>2, <1>4, RemoveRow DEF Going, Exact
<1>7. ASSUME NEW A, AllHold(H, line, A), IsFiniteSet(A), b \in A
      PROVE  AllHold(G, line, A \ {b}) /\ G.raised = Fine
  <2>1. \A t \in ToSet(line) : /\ error[t] = "nothing"
                               /\ Holds(RemoveBreakpoint(H.of[t], b), A \ {b})
    BY <1>2, <1>3, <1>7, RemoveRow DEF Going, AllHold
  <2>2. Done(line, error) = ToSet(line) /\ Outcome(line, error, b) = Fine
    BY <2>1, OutcomeIs
  <2> QED BY <1>1, <1>3, <2>1, <2>2 DEF AllHold
<1> QED BY <1>5, <1>6, <1>7 DEF G

-------------------------------------------------------------------------------
(* All breakpoints of the dictionary, one after the other. *)

LEMMA Upwards ==
    ASSUME NEW P, NEW n \in Nat, 0 \in P, \A i \in 1..n : i - 1 \in P => i \in P
    PROVE  \A i \in 0..n : i \in P
<1> DEFINE Bad == (0..n) \ P
<1>1. ASSUME Bad # {} PROVE FALSE
  <2>0. Bad \subseteq Nat
    OBVIOUS
  <2>1. \E k \in Bad : \A i \in Bad : k <= i
    <3> HIDE DEF Bad
    <3> QED BY <1>1, <2>0, Smallest
  <2> QED
    <3>1. PICK k \in Bad : \A i \in Bad : k <= i
      BY <2>1
    <3>2. k \in 1..n /\ k - 1 \in 0..n /\ ~(k <= k - 1)
      BY <3>1
    <3>3. k - 1 \in P
      BY <3>1, <3>2
    <3> QED BY <3>2, <3>3
<1> QED BY <1>1

Solves(f, n, set, unset, line) ==
    f = [i \in 0..n |-> IF i = 0 THEN Begin
                        ELSE Handle(f[i - 1], breakpoints[i], set, unset, line)]

LEMMA OneMore ==
    ASSUME NEW set, NEW unset, NEW line, NEW n \in Nat \ {0}, NEW f, Solves(f, n - 1, set, unset, line)
    PROVE  \E g : Solves(g, n, set, unset, line)
<1> DEFINE g == [i \in 0..n |-> IF i = n THEN Handle(f[n - 1], breakpoints[n], set, unset, line)
                                ELSE f[i]]
           Value(h, i) == IF i = 0 THEN Begin ELSE Handle(h[i - 1], breakpoints[i], set, unset, line)
<1>1. f = [i \in 0..(n - 1) |-> Value(f, i)]
  BY DEF Solves
<1>2. \A i \in 0..(n - 1) : f[i] = Value(f, i)
  <2> HIDE DEF Value
  <2> QED BY <1>1
<1>3. \A i \in 0..(n - 1) : g[i] = f[i]
  OBVIOUS
<1>4. g[n] = Value(f, n)
  OBVIOUS
<1>5. \A i \in 0..n : Value(g, i) = Value(f, i)
  <2> SUFFICES ASSUME NEW i \in 0..n PROVE Value(g, i) = Value(f, i)
    OBVIOUS
  <2>1. CASE i = 0
    BY <2>1
  <2>2. CASE i # 0
    <3>1. i - 1 \in 0..(n - 1)
      BY <2>2
    <3>2. g[i - 1] = f[i - 1]
      BY <1>3, <3>1
    <3> HIDE DEF g
    <3> QED BY <2>2, <3>2
  <2> QED BY <2>1, <2>2
<1>6. \A i \in 0..n : i = n \/ i \in 0..(n - 1)
  OBVIOUS
<1>7. DOMAIN g = 0..n /\ g = [i \in 0..n |-> g[i]]
  OBVIOUS
<1> HIDE DEF g, Value
<1>8. \A i \in 0..n : g[i] = Value(g, i)
  BY <1>2, <1>3, <1>4, <1>5, <1>6
<1>9. g = [i \in 0..n |-> Value(g, i)]
  BY <1>7, <1>8
<1>10. Solves(g, n, set, unset, line)
  BY <1>9 DEF Solves, Value
<1> QED BY <1>10

LEMMA Unwinds ==
    ASSUME NEW set, NEW unset, NEW line, NEW n \in Nat
    PROVE  \E f : Solves(f, n, set, unset, line)
<1> DEFINE Good == {i \in Nat : \E f : Solves(f, i, set, unset, line)}
<1>1. 0 \in Good
  <2> DEFINE f == [i \in 0..0 |-> Begin]
  <2>1. f = [i \in 0..0 |-> IF i = 0 THEN Begin
                            ELSE Handle(f[i - 1], breakpoints[i], set, unset, line)]
    OBVIOUS
  <2> HIDE DEF f
  <2>2. Solves(f, 0, set, unset, line)
    BY <2>1 DEF Solves
  <2> QED BY <2>2
<1>2. ASSUME NEW i \in 1..n, i - 1 \in Good PROVE i \in Good
  <2>1. PICK f : Solves(f, i - 1, set, unset, line)
    BY <1>2
  <2>2. i \in Nat \ {0}
    OBVIOUS
  <2>3. \E g : Solves(g, i, set, unset, line)
    BY <2>1, <2>2, OneMore
  <2> QED BY <2>2, <2>3
<1>3. n \in Good
  <2> HIDE DEF Good
  <2>1. \A i \in 0..n : i \in Good
    BY <1>1, <1>2, Upwards
  <2> QED BY <2>1
<1> QED BY <1>3

LEMMA HandleAllIs ==
    ASSUME NEW set, NEW unset, NEW line, breakpoints \in Seq(Bps)
    PROVE  \E f : /\ f[0] = Begin
                  /\ \A i \in 1..Len(breakpoints) :
                        f[i] = Handle(f[i - 1], breakpoints[i], set, unset, line)
                  /\ HandleAll(set, unset, line) = f[Len(breakpoints)]
<1> DEFINE n == Len(breakpoints)
           f == CHOOSE after : after = [i \in 0..n |->
                   IF i = 0 THEN Begin ELSE Handle(after[i - 1], breakpoints[i], set, unset, line)]
<1>1. n \in Nat
  OBVIOUS
<1>2. \E g : g = [i \in 0..n |->
                   IF i = 0 THEN Begin ELSE Handle(g[i - 1], breakpoints[i], set, unset, line)]
  <2>1. \E g : Solves(g, n, set, unset, line)
    BY <1>1, Unwinds
  <2> QED BY <2>1 DEF Solves
<1>3. f = [i \in 0..n |->
                   IF i = 0 THEN Begin ELSE Handle(f[i - 1], breakpoints[i], set, unset, line)]
  BY <1>2, Zenon
<1>4. HandleAll(set, unset, line) = f[n]
  BY DEF HandleAll
<1> HIDE DEF f
<1>5. f[0] = Begin
  BY <1>1, <1>3
<1>6. \A i \in 1..n : f[i] = Handle(f[i - 1], breakpoints[i], set, unset, line)
  <2> SUFFICES ASSUME NEW i \in 1..n
               PROVE  f[i] = Handle(f[i - 1], breakpoints[i], set, unset, line)
    OBVIOUS
  <2>1. i \in 0..n /\ i # 0
    BY <1>1
  <2> QED BY <1>3, <2>1
<1> QED BY <1>4, <1>5, <1>6

(* Whatever fails on the way. *)
LEMMA HandledIs ==
    ASSUME NEW set, NEW unset, NEW line \in Seq(Threads), breakpoints \in Seq(Bps), ManagersRight
    PROVE  /\ Going(HandleAll(set, unset, line), line)
           /\ Exact(Begin) /\ set \cap Refused = {} => Exact(HandleAll(set, unset, line))
<1> DEFINE n == Len(breakpoints)
<1>1. PICK f : /\ f[0] = Begin
               /\ \A i \in 1..n : f[i] = Handle(f[i - 1], breakpoints[i], set, unset, line)
               /\ HandleAll(set, unset, line) = f[n]
  BY HandleAllIs
<1> DEFINE Good == {i \in 0..n : /\ Going(f[i], line)
                                 /\ Exact(Begin) /\ set \cap Refused = {} => Exact(f[i])}
<1>2. n \in Nat
  OBVIOUS
<1>3. 0 \in Good
  <2>1. \A t \in Threads : Begin.of[t] = Managers[t]
    BY DEF Begin
  <2>2. Going(Begin, line)
    BY <2>1 DEF Going, ManagersRight
  <2> QED BY <1>1, <1>2, <2>2
<1>4. ASSUME NEW i \in 1..n, i - 1 \in Good PROVE i \in Good
  <2> DEFINE b == breakpoints[i]
  <2>1. b \in Bps /\ i \in 0..n
    OBVIOUS
  <2>2. Going(f[i - 1], line) /\ (Exact(Begin) /\ set \cap Refused = {} => Exact(f[i - 1]))
    BY <1>4
  <2>3. f[i] = Handle(f[i - 1], b, set, unset, line)
    BY <1>1
  <2>4. \/ f[i] = f[i - 1]
        \/ b \in set /\ f[i] = Install(f[i - 1], b, line)
        \/ f[i] = Remove(f[i - 1], b, line)
    BY <2>3 DEF Handle
  <2>5. b \in set /\ set \cap Refused = {} => b \notin Refused
    OBVIOUS
  <2> DEFINE H == f[i - 1]
  <2> HIDE DEF b, H
  <2>6. /\ Going(Install(H, b, line), line)
        /\ Exact(H) /\ b \notin Refused => Exact(Install(H, b, line))
    BY <2>1, <2>2, InstallIs DEF H
  <2>7. /\ Going(Remove(H, b, line), line)
        /\ Exact(H) => Exact(Remove(H, b, line))
    BY <2>1, <2>2, RemoveIs DEF H
  <2>8. Going(f[i], line) /\ (Exact(Begin) /\ set \cap Refused = {} => Exact(f[i]))
    BY <2>2, <2>4, <2>5, <2>6, <2>7 DEF H
  <2> QED BY <2>1, <2>8
<1>5. n \in Good
  <2> HIDE DEF Good, n
  <2>1. \A i \in 0..n : i \in Good
    BY <1>2, <1>3, <1>4, Upwards
  <2> QED BY <1>2, <2>1
<1> QED BY <1>1, <1>5

(* If there is room for all that is installed, and all that is removed is  *)
(* there, nothing fails.                                                   *)
LEMMA HandledRight ==
    ASSUME NEW A, NEW set, NEW unset, NEW line \in Seq(Threads), line # << >>,
           breakpoints \in Seq(Bps), ManagersRight,
           \A i, j \in DOMAIN breakpoints : breakpoints[i] = breakpoints[j] => i = j,
           \A t \in ToSet(line) : Holds(Managers[t], A),
           set \subseteq Listed, unset \subseteq Listed,
           \A b \in set : b \notin unset /\ b \notin A, \A b \in unset : b \in A,
           IsFiniteSet(A \cup set), Cardinality(A \cup set) <= AMD64_DBREGS_COUNT
    PROVE  /\ AllHold(HandleAll(set, unset, line), line, (A \cup set) \ unset)
           /\ HandleAll(set, unset, line).raised = Fine
<1> DEFINE n == Len(breakpoints)
           Handled(i) == {breakpoints[k] : k \in 1..i}
           Now(i) == (A \cup (set \cap Handled(i))) \ (unset \cap Handled(i))
<1>1. PICK f : /\ f[0] = Begin
               /\ \A i \in 1..n : f[i] = Handle(f[i - 1], breakpoints[i], set, unset, line)
               /\ HandleAll(set, unset, line) = f[n]
  BY HandleAllIs
<1> DEFINE Good == {i \in 0..n : /\ Going(f[i], line)
                                 /\ AllHold(f[i], line, Now(i))
                                 /\ f[i].raised = Fine}
<1>2. n \in Nat /\ DOMAIN breakpoints = 1..n /\ ToSet(line) \subseteq Threads
  BY DEF ToSet
<1>3. 0 \in Good
  <2>1. \A t \in Threads : Begin.of[t] = Managers[t]
    BY DEF Begin
  <2>2. Going(Begin, line)
    BY <2>1 DEF Going, ManagersRight
  <2>3. Now(0) = A
    OBVIOUS
  <2>4. AllHold(Begin, line, A)
    BY <1>2, <2>1 DEF AllHold
  <2>5. Begin.raised = Fine
    BY DEF Begin
  <2> HIDE DEF Now
  <2> QED BY <1>1, <1>2, <2>2, <2>3, <2>4, <2>5
<1>4. ASSUME NEW i \in 1..n, i - 1 \in Good PROVE i \in Good
  <2> DEFINE b == breakpoints[i]
             B == Now(i - 1)
  <2>1. b \in Bps /\ i \in 0..n
    OBVIOUS
  <2>2. Going(f[i - 1], line) /\ AllHold(f[i - 1], line, B) /\ f[i - 1].raised = Fine
    BY <1>4
  <2>3. f[i] = Handle(f[i - 1], b, set, unset, line)
    BY <1>1
  <2>4. Handled(i) = Handled(i - 1) \cup {b} /\ b \notin Handled(i - 1)
    <3>1. 1..i = 1..(i - 1) \cup {i} /\ i \notin 1..(i - 1) /\ 1..i \subseteq 1..n
      BY <1>2
    <3>2. Handled(i) = Handled(i - 1) \cup {b}
      BY <3>1
    <3>3. \A k \in 1..(i - 1) : breakpoints[k] # b
      BY <1>2, <3>1
    <3> QED BY <3>2, <3>3
  <2>5. IsFiniteSet(B) /\ B \subseteq A \cup set
    <3>1. B \in SUBSET (A \cup set)
      OBVIOUS
    <3> HIDE DEF B
    <3> QED BY <3>1, FS_Subset
  <2> HIDE DEF b, Handled
  <2>6. CASE b \in set
    <3>1. b \notin B /\ Now(i) = B \cup {b}
      BY <2>4, <2>6
    <3>2. Cardinality(B) < AMD64_DBREGS_COUNT
      <4>1. B \cup {b} \in SUBSET (A \cup set)
        BY <2>5, <2>6
      <4>2. Cardinality(B \cup {b}) = Cardinality(B) + 1 /\ Cardinality(B) \in Nat
        BY <2>5, <3>1, FS_AddElement, FS_CardinalityType
      <4>3. Cardinality(B \cup {b}) <= Cardinality(A \cup set) /\ Cardinality(A \cup set) \in Nat
        BY <4>1, FS_Subset, FS_CardinalityType
      <4> HIDE DEF B
      <4> QED BY <4>2, <4>3, HardwareAssumption
    <3>3. f[i] = Install(f[i - 1], b, line)
      BY <2>2, <2>3, <2>6 DEF Handle
    <3> DEFINE H == f[i - 1]
    <3> HIDE DEF B, Now, H
    <3>4. Going(H, line) /\ AllHold(H, line, B)
      BY <2>2 DEF H
    <3>5. /\ Going(Install(H, b, line), line)
          /\ AllHold(Install(H, b, line), line, B \cup {b})
          /\ Install(H, b, line).raised = Fine
      BY <2>1, <2>5, <3>1, <3>2, <3>4, InstallIs
    <3>6. Going(f[i], line) /\ AllHold(f[i], line, B \cup {b}) /\ f[i].raised = Fine
      BY <3>3, <3>5 DEF H
    <3> QED BY <2>1, <3>1, <3>6
  <2>7. CASE b \in unset
    <3>1. b \in B /\ Now(i) = B \ {b}
      BY <2>4, <2>7
    <3>2. f[i] = Remove(f[i - 1], b, line)
      BY <2>2, <2>3, <2>7 DEF Handle
    <3> DEFINE H == f[i - 1]
    <3> HIDE DEF B, Now, H
    <3>3. Going(H, line) /\ AllHold(H, line, B)
      BY <2>2 DEF H
    <3>4. /\ Going(Remove(H, b, line), line)
          /\ AllHold(Remove(H, b, line), line, B \ {b})
          /\ Remove(H, b, line).raised = Fine
      BY <2>1, <2>5, <3>1, <3>3, RemoveIs
    <3>5. Going(f[i], line) /\ AllHold(f[i], line, B \ {b}) /\ f[i].raised = Fine
      BY <3>2, <3>4 DEF H
    <3> QED BY <2>1, <3>1, <3>5
  <2>8. CASE b \notin set \cup unset
    <3>1. Now(i) = B
      BY <2>4, <2>8
    <3>2. f[i] = f[i - 1]
      BY <2>2, <2>3, <2>8 DEF Handle
    <3> HIDE DEF B, Now
    <3> QED BY <2>1, <2>2, <3>1, <3>2
  <2> QED BY <2>6, <2>7, <2>8
<1>5. n \in Good
  <2> HIDE DEF Good, n
  <2>1. \A i \in 0..n : i \in Good
    BY <1>2, <1>3, <1>4, Upwards
  <2> QED BY <1>2, <2>1
<1>6. Now(n) = (A \cup set) \ unset
  <2>1. Handled(n) = Listed
    BY <1>2 DEF Listed, ToSet
  <2> HIDE DEF Handled
  <2> QED BY <2>1
<1> HIDE DEF Now
<1> QED BY <1>1, <1>5, <1>6

-------------------------------------------------------------------------------
(* Facts of every state. *)

LEMMA NiceScript ==
    /\ Nice => {"limit", "swap", "again", "same", "clone disabled", "pending"} \cap uses = {}
    /\ Careful => Nice /\ "refused" \notin uses
<1>1. ASSUME NEW u, uses \subseteq u, NEW x, x \notin u PROVE x \notin uses
  BY <1>1
<1>2. Careful => "refused" \notin uses
  BY DEF Careful
<1>3. Nice => uses \subseteq {"detach", "together", "other trap", "refused"}
  BY DEF Nice, Careful
<1>4. Nice => {"limit", "swap", "again", "same", "clone disabled", "pending"} \cap uses = {}
  BY <1>3
<1> QED BY <1>2, <1>4 DEF Nice

LEMMA Sets ==
    ASSUME TypeOK, Dictionary, mode # "detached"
    PROVE  /\ breakpoints \in Seq(Bps) /\ Listed \subseteq Bps
           /\ \A S \in SUBSET Listed : IsFiniteSet(S)
           /\ \A i, j \in DOMAIN breakpoints : breakpoints[i] = breakpoints[j] => i = j
           /\ \A b, c \in Listed : Address[b] = Address[c] => b = c
<1>1. breakpoints \in Seq(Bps)
  BY DEF Dictionary
<1>2. Listed \in SUBSET Bps
  BY <1>1 DEF Listed, ToSet
<1>3. IsFiniteSet(Listed)
  BY <1>2, HardwareAssumption, FS_Subset
<1>4. \A i, j \in DOMAIN breakpoints : Address[breakpoints[i]] = Address[breakpoints[j]] => i = j
  BY DEF Dictionary
<1>5. \A b, c \in Listed : Address[b] = Address[c] => b = c
  BY <1>4 DEF Listed, ToSet
<1> QED BY <1>1, <1>2, <1>3, <1>4, <1>5, FS_Subset

LEMMA SomeThread ==
    ASSUME TypeOK
    PROVE  helpers \in Seq(Threads) /\ helpers # << >> /\ Alive \subseteq Threads
<1>1. helpers \in Seq(Threads) /\ Main \in Alive
  BY DEF TypeOK
<1> QED BY <1>1 DEF Alive, ToSet

LEMMA BeginIs ==
    ASSUME ManagersRight, NEW line
    PROVE  /\ Going(Begin, line)
           /\ \A t \in Threads : Begin.of[t] = Managers[t]
           /\ (\A t \in Threads : cpu[t] = registers[t]) => Exact(Begin)
<1>1. \A t \in Threads : Begin.of[t] = Managers[t]
  BY DEF Begin
<1>2. \A t \in Threads : Managers[t].reg = registers[t] /\ Managers[t].cpu = cpu[t]
  BY DEF Managers, Row
<1> QED BY <1>1, <1>2 DEF Going, ManagersRight, Exact

LEMMA EmptyRow ==
    /\ RowOK(Row(Empty, 0, Empty))
    /\ Holds(Row(Empty, 0, Empty), {})
    /\ Empty \in [Regs -> Bps \cup {None}]
<1>1. Empty \in [Regs -> Bps \cup {None}]
  BY DEF Empty
<1>2. \A i \in Regs : Empty[i] = None
  BY DEF Empty
<1>3. Used(Empty) = {}
  BY <1>2 DEF Used
<1>4. /\ Row(Empty, 0, Empty) \in Rows /\ Row(Empty, 0, Empty).reg = Empty
      /\ Row(Empty, 0, Empty).count = 0 /\ Row(Empty, 0, Empty).cpu = Empty
  BY <1>1 DEF Row, Rows
<1>5. Cardinality({}) = 0
  BY FS_EmptySet
<1> QED BY <1>1, <1>2, <1>3, <1>4, <1>5 DEF RowOK, Holds

(* Update writes down what has become of the managers. *)
LEMMA UpdateIs ==
    ASSUME NEW H, NEW line, Going(H, line), Update(H)
    PROVE  /\ \A t \in Threads : Managers'[t] = H.of[t]
           /\ registers' \in [Threads -> [Regs -> Bps \cup {None}]]
           /\ cpu' \in [Threads -> [Regs -> Bps \cup {None}]]
           /\ breakpoint_count' \in [Threads -> Nat]
           /\ raised' = H.raised
           /\ Exact(H) => \A t \in Threads : cpu'[t] = registers'[t]
           /\ \A t \in Threads : RowOK(Managers'[t])
           /\ \A t \in Threads \ ToSet(line) : Managers'[t] = Managers[t]
<1>1. ASSUME NEW t \in Threads
      PROVE  /\ H.of[t] = Row(H.of[t].reg, H.of[t].count, H.of[t].cpu)
             /\ H.of[t].reg \in [Regs -> Bps \cup {None}] /\ H.of[t].cpu \in [Regs -> Bps \cup {None}]
             /\ H.of[t].count \in Nat
  <2>1. H.of[t] \in Rows
    BY DEF Going, RowOK
  <2> QED BY <2>1 DEF Rows, Row
<1>2. \A t \in Threads : /\ registers'[t] = H.of[t].reg /\ breakpoint_count'[t] = H.of[t].count
                         /\ cpu'[t] = H.of[t].cpu
  BY DEF Update
<1>3. \A t \in Threads : Managers'[t] = H.of[t]
  BY <1>1, <1>2 DEF Managers
<1>4. /\ registers' \in [Threads -> [Regs -> Bps \cup {None}]]
      /\ cpu' \in [Threads -> [Regs -> Bps \cup {None}]]
      /\ breakpoint_count' \in [Threads -> Nat]
  BY <1>1 DEF Update
<1>5. raised' = H.raised
  BY DEF Update
<1> QED BY <1>2, <1>3, <1>4, <1>5 DEF Going, Exact

LEMMA SameManagers ==
    ASSUME UNCHANGED tables
    PROVE  Managers' = Managers
BY DEF tables, Managers

LEMMA InvInit == Init => Inv
<1> SUFFICES ASSUME Init PROVE Inv
  OBVIOUS
<1>1. TypeOK
  <2>1. Alive = {Main} /\ helpers \in Seq(Threads) /\ Len(helpers) = 1
    BY HardwareAssumption DEF Init, Alive, ToSet
  <2> QED BY <2>1, EmptyRow DEF Init, TypeOK
<1>2. Dictionary
  BY DEF Init, Dictionary
<1>3. \A t \in Threads : Managers[t] = Row(Empty, 0, Empty)
  BY DEF Init, Managers
<1>4. ManagersRight
  BY <1>3, EmptyRow DEF ManagersRight
<1>5. Listed = {} /\ Acted = {} /\ Wanted = {}
  BY DEF Init, Listed, ToSet, Acted, Wanted
<1>6. NiceInv
  <2>1. \A t \in Alive : Holds(Managers[t], Acted)
    BY <1>1, <1>3, <1>5, EmptyRow, SomeThread
  <2>2. Cardinality(Wanted) <= AMD64_DBREGS_COUNT
    BY <1>5, FS_EmptySet, HardwareAssumption
  <2> QED BY <2>1, <2>2, <1>5 DEF NiceInv, Settled
<1>7. CarefulInv
  BY <1>5 DEF Init, CarefulInv
<1> QED BY <1>1, <1>2, <1>4, <1>6, <1>7 DEF Inv

-------------------------------------------------------------------------------
(* The script. *)

(* A breakpoint is added to the dictionary. *)
LEMMA InsertedIs ==
    ASSUME TypeOK, Dictionary, mode # "detached", NEW b \in Bps
    PROVE  /\ Inserted(b) \in Seq(Bps)
           /\ \A i, j \in DOMAIN Inserted(b) :
                 Address[Inserted(b)[i]] = Address[Inserted(b)[j]] => i = j
           /\ At(Address[b]) = {} => ToSet(Inserted(b)) = Listed \cup {b}
<1>1. breakpoints \in Seq(Bps)
  BY Sets
<1>2. \A i, j \in DOMAIN breakpoints : Address[breakpoints[i]] = Address[breakpoints[j]] => i = j
  BY DEF Dictionary
<1> DEFINE n == Len(breakpoints)
<1>3. n \in Nat /\ DOMAIN breakpoints = 1..n
  BY <1>1
<1>4. CASE At(Address[b]) = {}
  <2>1. Inserted(b) = Append(breakpoints, b)
    BY <1>4 DEF Inserted
  <2>2. /\ Inserted(b) \in Seq(Bps) /\ DOMAIN Inserted(b) = 1..(n + 1)
        /\ Inserted(b)[n + 1] = b
        /\ \A i \in 1..n : Inserted(b)[i] = breakpoints[i]
    BY <1>1, <2>1
  <2>3. \A i \in 1..n : Address[breakpoints[i]] # Address[b]
    BY <1>3, <1>4 DEF At, Listed, ToSet
  <2>4. \A i, j \in DOMAIN Inserted(b) :
           Address[Inserted(b)[i]] = Address[Inserted(b)[j]] => i = j
    <3>1. \A i \in 1..(n + 1) : i = n + 1 \/ i \in 1..n
      BY <1>3
    <3> QED BY <1>2, <1>3, <2>2, <2>3, <3>1
  <2>5. ToSet(Inserted(b)) = Listed \cup {b}
    <3>1. 1..(n + 1) = 1..n \cup {n + 1}
      BY <1>3
    <3>2. ToSet(Inserted(b)) = {Inserted(b)[i] : i \in 1..n \cup {n + 1}}
      BY <2>2, <3>1 DEF ToSet
    <3>3. Listed = {breakpoints[i] : i \in 1..n}
      BY <1>3 DEF Listed, ToSet
    <3> QED BY <2>2, <3>2, <3>3
  <2> QED BY <2>2, <2>4, <2>5
<1>5. CASE At(Address[b]) # {}
  <2>1. Inserted(b) = [i \in 1..n |-> IF Address[breakpoints[i]] = Address[b] THEN b
                                      ELSE breakpoints[i]]
    BY <1>3, <1>5 DEF Inserted
  <2>2. \A i \in 1..n : Address[Inserted(b)[i]] = Address[breakpoints[i]]
    BY <2>1
  <2>3. Inserted(b) \in Seq(Bps) /\ DOMAIN Inserted(b) = 1..n
    <3>1. \A i \in 1..n : (IF Address[breakpoints[i]] = Address[b] THEN b ELSE breakpoints[i]) \in Bps
      BY <1>1
    <3> QED BY <1>3, <2>1, <3>1
  <2> QED BY <1>2, <1>3, <1>5, <2>2, <2>3, SMTT(30)
<1> QED BY <1>4, <1>5

LEMMA SetBreakpointInv ==
    ASSUME Inv, uses' = uses, NEW b \in Bps, SetBreakpoint(b)
    PROVE  Inv' /\ RaisedRightly'
<1> DEFINE H == SetOnAll(b)
<1>1. /\ mode = "stopped" /\ b \notin Listed
      /\ "refused" \in uses \/ b \notin Refused
      /\ "same" \in uses \/ At(Address[b]) = {}
      /\ Room(b) \/ Settled
      /\ Update(H)
      /\ UNCHANGED <<helpers, dr6, mode>>
  BY DEF SetBreakpoint, Settled
<1>2. IF H.raised # Fine THEN UNCHANGED <<breakpoints, enabled, changed>>
      ELSE /\ breakpoints' = Inserted(b)
           /\ enabled' = [enabled EXCEPT ![b] = TRUE]
           /\ changed' = [changed EXCEPT ![b] = FALSE]
  BY DEF SetBreakpoint
<1>3. TypeOK /\ Dictionary /\ ManagersRight /\ NiceInv /\ CarefulInv /\ mode # "detached"
  BY <1>1 DEF Inv
<1>4. helpers \in Seq(Threads) /\ helpers # << >> /\ Alive \subseteq Threads
  BY <1>3, SomeThread
<1>5. Going(Begin, helpers) /\ \A t \in Threads : Begin.of[t] = Managers[t]
  BY <1>3, BeginIs
<1>6. H = Install(Begin, b, helpers)
  BY DEF SetOnAll
<1> HIDE DEF H
<1>7. Going(H, helpers) /\ (Exact(Begin) /\ b \notin Refused => Exact(H))
  BY <1>4, <1>5, <1>6, InstallIs
<1>8. /\ \A t \in Threads : Managers'[t] = H.of[t]
      /\ registers' \in [Threads -> [Regs -> Bps \cup {None}]]
      /\ cpu' \in [Threads -> [Regs -> Bps \cup {None}]]
      /\ breakpoint_count' \in [Threads -> Nat]
      /\ raised' = H.raised
      /\ Exact(H) => \A t \in Threads : cpu'[t] = registers'[t]
      /\ \A t \in Threads : RowOK(Managers'[t])
      /\ \A t \in Threads \ ToSet(helpers) : Managers'[t] = Managers[t]
  BY <1>1, <1>7, UpdateIs
<1>9. Alive' = Alive /\ helpers' = helpers /\ mode' = mode
  BY <1>1 DEF Alive
<1>10. TypeOK'
  <2>1. enabled' \in [Bps -> BOOLEAN] /\ changed' \in [Bps -> BOOLEAN]
    BY <1>2, <1>3 DEF TypeOK
  <2> QED BY <1>3, <1>8, <1>9, <2>1 DEF TypeOK
<1>11. Dictionary'
  BY <1>1, <1>2, <1>3, <1>9, InsertedIs DEF Dictionary
<1>12. ManagersRight'
  BY <1>3, <1>8, <1>9 DEF ManagersRight, Alive
<1>13. \A S \in SUBSET Listed : IsFiniteSet(S) /\ Cardinality(S) \in Nat
  BY <1>3, Sets, FS_CardinalityType
<1>14. Acted \in SUBSET Listed /\ Wanted \in SUBSET Listed /\ Acted \subseteq Wanted /\ b \notin Wanted
  BY <1>1 DEF Acted, Wanted
<1>15. AMD64_DBREGS_COUNT \in Nat
  BY HardwareAssumption
<1>16. Nice' = Nice /\ Careful' = Careful
  BY DEF Nice, Careful
<1>17. ASSUME Nice
       PROVE  /\ At(Address[b]) = {}
              /\ \A t \in Alive : Holds(Managers[t], Acted)
              /\ Cardinality(Wanted) <= AMD64_DBREGS_COUNT
              /\ Cardinality(Wanted \cup {b}) <= AMD64_DBREGS_COUNT \/ Settled
  <2>1. "limit" \notin uses /\ "swap" \notin uses /\ "same" \notin uses
    BY <1>17, NiceScript
  <2> QED BY <1>1, <1>3, <1>17, <2>1 DEF NiceInv, Room, Wanted
<1>18. ASSUME Nice
       PROVE  /\ Cardinality(Acted) < AMD64_DBREGS_COUNT =>
                    H.raised = Fine /\ \A t \in Alive : Holds(Managers'[t], Acted \cup {b})
              /\ Cardinality(Acted) >= AMD64_DBREGS_COUNT =>
                    H.raised = Raise("limit", b) /\ \A t \in Threads : Managers'[t] = Managers[t]
  <2>1. AllHold(Begin, helpers, Acted)
    BY <1>4, <1>5, <1>17, <1>18 DEF AllHold, Alive
  <2>2. IsFiniteSet(Acted) /\ b \notin Acted
    BY <1>13, <1>14
  <2>3. /\ Cardinality(Acted) < AMD64_DBREGS_COUNT =>
              AllHold(H, helpers, Acted \cup {b}) /\ H.raised = Fine
        /\ Cardinality(Acted) >= AMD64_DBREGS_COUNT =>
              (\A t \in Threads : H.of[t] = Begin.of[t]) /\ H.raised = Raise("limit", b)
    BY <1>4, <1>5, <1>6, <2>1, <2>2, InstallIs
  <2> QED BY <1>4, <1>5, <1>8, <2>3 DEF AllHold, Alive
<1>19. Raise("limit", b) # Fine /\ Raise("limit", b).why = "limit" /\ Raise("limit", b).bp = b
  <2>1. Raise("limit", b).why = "limit" /\ Raise("limit", b).bp = b /\ Fine.why = "nothing"
    BY DEF Raise, Fine
  <2> QED BY <2>1
<1>20. ASSUME Nice, Cardinality(Acted) < AMD64_DBREGS_COUNT
       PROVE  NiceInv' /\ raised' = Fine
  <2>1. /\ H.raised = Fine /\ raised' = Fine
        /\ \A t \in Alive : Holds(Managers'[t], Acted \cup {b})
    BY <1>8, <1>18, <1>20
  <2>2. /\ breakpoints' = Inserted(b)
        /\ enabled' = [enabled EXCEPT ![b] = TRUE] /\ changed' = [changed EXCEPT ![b] = FALSE]
    BY <1>2, <2>1
  <2>3. Listed' = Listed \cup {b}
    BY <1>3, <1>17, <1>20, <2>2, InsertedIs DEF Listed
  <2>4. /\ enabled'[b] /\ ~changed'[b]
        /\ \A c \in Listed : (enabled'[c] <=> enabled[c]) /\ (changed'[c] <=> changed[c])
    BY <1>1, <1>3, <2>2, Sets, Zenon DEF TypeOK
  <2>5. Acted' = Acted \cup {b} /\ Wanted' = Wanted \cup {b}
    BY <2>3, <2>4 DEF Acted, Wanted
  <2>6. Cardinality(Wanted \cup {b}) <= AMD64_DBREGS_COUNT
    <3>1. CASE Settled
      <4>1. Wanted = Acted
        BY <3>1 DEF Wanted, Acted, Settled
      <4>2. Cardinality(Wanted \cup {b}) = Cardinality(Acted) + 1
        BY <1>13, <1>14, <4>1, FS_AddElement
      <4> QED BY <1>13, <1>14, <1>15, <1>20, <4>2
    <3> QED BY <1>17, <1>20, <3>1
  <2> QED BY <1>1, <1>9, <1>16, <2>1, <2>5, <2>6 DEF NiceInv
<1>21. ASSUME Nice, Cardinality(Acted) >= AMD64_DBREGS_COUNT
       PROVE  NiceInv' /\ RaisedRightly'
  <2>1. /\ H.raised = Raise("limit", b) /\ raised' = Raise("limit", b)
        /\ \A t \in Threads : Managers'[t] = Managers[t]
    BY <1>8, <1>18, <1>21
  <2>2. UNCHANGED <<breakpoints, enabled, changed>>
    BY <1>2, <1>19, <2>1
  <2>3. Listed' = Listed /\ Acted' = Acted /\ Wanted' = Wanted /\ Enabled' = Enabled
    BY <2>2 DEF Listed, Acted, Wanted, Enabled
  <2>4. NiceInv'
    BY <1>1, <1>4, <1>9, <1>16, <1>17, <1>21, <2>1, <2>3 DEF NiceInv
  <2>5. Settled
    <3>1. ASSUME Cardinality(Wanted \cup {b}) <= AMD64_DBREGS_COUNT PROVE FALSE
      <4>1. Cardinality(Wanted \cup {b}) = Cardinality(Wanted) + 1
        BY <1>13, <1>14, FS_AddElement
      <4>2. Cardinality(Acted) <= Cardinality(Wanted)
        BY <1>13, <1>14, FS_Subset
      <4> QED BY <1>13, <1>14, <1>15, <1>21, <3>1, <4>1, <4>2
    <3> QED BY <1>17, <1>21, <3>1
  <2>6. Enabled = Acted
    BY <2>5 DEF Settled, Enabled, Acted
  <2>7. Cardinality(Enabled \cup {b}) > AMD64_DBREGS_COUNT
    <3>1. Cardinality(Acted \cup {b}) = Cardinality(Acted) + 1
      BY <1>13, <1>14, FS_AddElement
    <3> QED BY <1>13, <1>14, <1>15, <1>21, <2>6, <3>1
  <2> QED BY <1>19, <2>1, <2>3, <2>4, <2>7 DEF RaisedRightly
<1>22. ~Nice => NiceInv' /\ RaisedRightly'
  BY <1>16 DEF NiceInv, RaisedRightly, Nice
<1>23. raised' = Fine => RaisedRightly'
  BY DEF RaisedRightly, Fine, Raise
<1>24. NiceInv' /\ RaisedRightly'
  <2>1. Cardinality(Acted) < AMD64_DBREGS_COUNT \/ Cardinality(Acted) >= AMD64_DBREGS_COUNT
    BY <1>13, <1>14, <1>15
  <2> QED BY <1>20, <1>21, <1>22, <1>23, <2>1
<1>25. CarefulInv'
  <2> SUFFICES ASSUME Careful PROVE CarefulInv'
    BY <1>16 DEF CarefulInv
  <2>1. b \notin Refused /\ At(Address[b]) = {}
    BY <1>1, <1>17, NiceScript
  <2>2. Exact(H)
    BY <1>3, <1>7, <2>1, BeginIs DEF CarefulInv
  <2>3. Listed \cap Refused = {}
    BY <1>3 DEF CarefulInv
  <2>4. Listed' \subseteq Listed \cup {b}
    BY <1>2, <1>3, <2>1, InsertedIs DEF Listed
  <2> QED BY <1>1, <1>8, <1>9, <2>1, <2>2, <2>3, <2>4 DEF CarefulInv
<1> QED BY <1>10, <1>11, <1>12, <1>24, <1>25 DEF Inv

LEMMA ToggleInv ==
    ASSUME Inv, uses' = uses, NEW b \in Bps, NEW on \in BOOLEAN, Toggle(b, on)
    PROVE  Inv' /\ RaisedRightly'
<1>1. /\ mode = "stopped" /\ b \in Listed
      /\ "again" \in uses \/ (enabled[b] # on /\ ~changed[b])
      /\ on => Room(b)
      /\ enabled' = [enabled EXCEPT ![b] = on]
      /\ changed' = [changed EXCEPT ![b] = TRUE]
      /\ raised' = Fine
      /\ UNCHANGED <<breakpoints, helpers, tables, dr6, mode>>
  BY DEF Toggle
<1>2. TypeOK /\ Dictionary /\ ManagersRight /\ NiceInv /\ CarefulInv /\ mode # "detached"
  BY <1>1 DEF Inv
<1>3. /\ Managers' = Managers /\ Alive' = Alive /\ Listed' = Listed
      /\ Nice' = Nice /\ Careful' = Careful
  BY <1>1, SameManagers DEF Alive, Listed, Nice, Careful
<1>4. TypeOK'
  BY <1>1, <1>2, <1>3 DEF TypeOK, tables
<1>5. Dictionary' /\ ManagersRight' /\ CarefulInv'
  BY <1>1, <1>2, <1>3 DEF Dictionary, ManagersRight, CarefulInv, tables
<1>6. NiceInv'
  <2> SUFFICES ASSUME Nice PROVE NiceInv'
    BY <1>3 DEF NiceInv
  <2>1. "limit" \notin uses /\ "swap" \notin uses /\ "again" \notin uses
    BY NiceScript
  <2>2. enabled[b] # on /\ ~changed[b]
    BY <1>1, <2>1
  <2>3. (enabled'[b] <=> on) /\ changed'[b]
    BY <1>1, <1>2, Zenon DEF TypeOK
  <2>4. \A c \in Bps : c # b => (enabled'[c] <=> enabled[c]) /\ (changed'[c] <=> changed[c])
    BY <1>1, <1>2, Zenon DEF TypeOK
  <2>5. Listed \subseteq Bps
    BY <1>2, Sets
  <2>6. (enabled[b] /\ ~on) \/ (~enabled[b] /\ on)
    <3>1. enabled[b] \in BOOLEAN
      BY <1>2, Zenon DEF TypeOK
    <3> QED BY <2>2, <3>1, Zenon
  <2>7. Acted' = Acted
    <3>1. \A c \in Listed :
             ((enabled'[c] /\ ~changed'[c]) \/ (~enabled'[c] /\ changed'[c]))
                <=> ((enabled[c] /\ ~changed[c]) \/ (~enabled[c] /\ changed[c]))
      BY <2>2, <2>3, <2>4, <2>5, <2>6, Zenon
    <3> QED BY <1>3, <3>1 DEF Acted
  <2>8. Wanted' = Wanted \cup {b}
    <3>1. \A c \in Listed : (enabled'[c] \/ changed'[c]) <=> (enabled[c] \/ changed[c] \/ c = b)
      BY <2>3, <2>4, <2>5, Zenon
    <3> QED BY <1>1, <1>3, <3>1 DEF Wanted
  <2>9. Cardinality(Wanted') <= AMD64_DBREGS_COUNT
    <3>1. CASE on
      <4>1. Room(b)
        BY <1>1, <3>1
      <4>2. Cardinality(Wanted \cup {b}) <= AMD64_DBREGS_COUNT
        BY <2>1, <4>1 DEF Room, Wanted
      <4> QED BY <2>8, <4>2
    <3>2. CASE ~on
      <4>1. b \in Wanted
        BY <1>1, <2>6, <3>2 DEF Wanted
      <4>2. Wanted \cup {b} = Wanted
        BY <4>1
      <4> QED BY <1>2, <2>8, <4>2 DEF NiceInv
    <3> QED BY <3>1, <3>2
  <2> QED BY <1>1, <1>2, <1>3, <2>7, <2>9 DEF NiceInv
<1> QED BY <1>1, <1>2, <1>4, <1>5, <1>6 DEF Inv, RaisedRightly, Fine, Raise

LEMMA FineRaised == raised = Fine => RaisedRightly
BY DEF RaisedRightly, Fine, Raise

LEMMA NotFine == ~Nice => RaisedRightly
BY DEF RaisedRightly, Nice

LEMMA ContInv ==
    ASSUME Inv, uses' = uses, Cont
    PROVE  Inv' /\ RaisedRightly'
<1> DEFINE On == {b \in Listed : changed[b] /\ enabled[b]}
           Off == {b \in Listed : changed[b] /\ ~enabled[b]}
           H == HandleAll(On, Off, helpers)
<1>1. /\ mode = "stopped"
      /\ changed' = [b \in Bps |-> IF b \in Listed THEN FALSE ELSE changed[b]]
      /\ Update(H)
      /\ mode' = IF raised' = Fine THEN "running" ELSE mode
      /\ UNCHANGED <<breakpoints, enabled, helpers, dr6>>
  BY DEF Cont, Apply
<1>2. TypeOK /\ Dictionary /\ ManagersRight /\ NiceInv /\ CarefulInv /\ mode # "detached"
  BY <1>1 DEF Inv
<1>3. helpers \in Seq(Threads) /\ helpers # << >> /\ Alive \subseteq Threads
  BY <1>2, SomeThread
<1>4. /\ breakpoints \in Seq(Bps) /\ Listed \subseteq Bps
      /\ \A S \in SUBSET Listed : IsFiniteSet(S)
      /\ \A i, j \in DOMAIN breakpoints : breakpoints[i] = breakpoints[j] => i = j
  BY <1>2, Sets
<1>5. On \subseteq Listed /\ Off \subseteq Listed /\ On \cap Off = {} /\ On \cap Acted = {}
      /\ Off \subseteq Acted /\ Acted \cup On = Wanted /\ (Acted \cup On) \ Off = Enabled
  <2>1. On \cap Acted = {} /\ Off \subseteq Acted
    BY DEF Acted
  <2>2. Acted \cup On = Wanted
    BY DEF Acted, Wanted
  <2>3. (Acted \cup On) \ Off = Enabled
    BY DEF Acted, Enabled
  <2> QED BY <2>1, <2>2, <2>3
<1> HIDE DEF On, Off
<1>6. Going(H, helpers) /\ (Exact(Begin) /\ On \cap Refused = {} => Exact(H))
  BY <1>2, <1>3, <1>4, HandledIs
<1> HIDE DEF H
<1>7. /\ \A t \in Threads : Managers'[t] = H.of[t]
      /\ registers' \in [Threads -> [Regs -> Bps \cup {None}]]
      /\ cpu' \in [Threads -> [Regs -> Bps \cup {None}]]
      /\ breakpoint_count' \in [Threads -> Nat]
      /\ raised' = H.raised
      /\ Exact(H) => \A t \in Threads : cpu'[t] = registers'[t]
      /\ \A t \in Threads : RowOK(Managers'[t])
      /\ \A t \in Threads \ ToSet(helpers) : Managers'[t] = Managers[t]
  BY <1>1, <1>6, UpdateIs
<1>8. /\ Alive' = Alive /\ Listed' = Listed /\ Enabled' = Enabled
      /\ mode' \in {"stopped", "running"}
      /\ Nice' = Nice /\ Careful' = Careful
  BY <1>1 DEF Alive, Listed, Enabled, Nice, Careful
<1>9. \A b \in Listed : ~changed'[b]
  BY <1>1, <1>4
<1>10. TypeOK'
  <2>1. changed' \in [Bps -> BOOLEAN]
    <3>1. \A b \in Bps : (IF b \in Listed THEN FALSE ELSE changed[b]) \in BOOLEAN
      BY <1>2, Zenon DEF TypeOK
    <3> QED BY <1>1, <3>1, Zenon
  <2> QED BY <1>1, <1>2, <1>7, <1>8, <2>1 DEF TypeOK
<1>11. Dictionary'
  BY <1>1, <1>2, <1>8 DEF Dictionary
<1>12. ManagersRight'
  BY <1>2, <1>7, <1>8 DEF ManagersRight, Alive
<1>13. ASSUME Nice PROVE NiceInv' /\ raised' = Fine
  <2>1. (\A t \in ToSet(helpers) : Holds(Managers[t], Acted)) /\ Cardinality(Wanted) <= AMD64_DBREGS_COUNT
    BY <1>2, <1>13 DEF NiceInv, Alive
  <2>2. IsFiniteSet(Wanted)
    BY <1>4 DEF Wanted
  <2>3. AllHold(H, helpers, Enabled) /\ H.raised = Fine
    <3>1. IsFiniteSet(Acted \cup On) /\ Cardinality(Acted \cup On) <= AMD64_DBREGS_COUNT
      BY <1>5, <2>1, <2>2
    <3>2. /\ On \subseteq Listed /\ Off \subseteq Listed
          /\ \A b \in On : b \notin Off /\ b \notin Acted
          /\ \A b \in Off : b \in Acted
      BY <1>5
    <3>3. /\ AllHold(HandleAll(On, Off, helpers), helpers, (Acted \cup On) \ Off)
          /\ HandleAll(On, Off, helpers).raised = Fine
      <4>1. \A t \in ToSet(helpers) : Holds(Managers[t], Acted)
        BY <2>1
      <4>2. \A i, j \in DOMAIN breakpoints : breakpoints[i] = breakpoints[j] => i = j
        BY <1>4
      <4>3. breakpoints \in Seq(Bps) /\ ManagersRight
        BY <1>2, <1>4
      <4> QED BY <1>3, <3>1, <3>2, <4>1, <4>2, <4>3, HandledRight, ZenonT(45)
    <3> QED BY <1>5, <3>3 DEF H
  <2>4. \A t \in Alive : Holds(Managers'[t], Enabled)
    BY <1>3, <1>7, <2>3 DEF AllHold, Alive
  <2>5. Acted' = Enabled
    BY <1>1, <1>8, <1>9 DEF Acted, Enabled
  <2>6. Cardinality(Wanted') <= AMD64_DBREGS_COUNT
    <3>1. Wanted' \subseteq Wanted
      BY <1>1, <1>8, <1>9 DEF Wanted
    <3>2. Cardinality(Wanted') <= Cardinality(Wanted) /\ Cardinality(Wanted') \in Nat /\ Cardinality(Wanted) \in Nat
      BY <2>2, <3>1, FS_Subset, FS_CardinalityType
    <3> QED BY <2>1, <3>2, HardwareAssumption
  <2>7. Settled'
    BY <1>8, <1>9 DEF Settled
  <2> QED BY <1>7, <1>8, <2>3, <2>4, <2>5, <2>6, <2>7 DEF NiceInv
<1>14. NiceInv' /\ RaisedRightly'
  <2>1. CASE Nice
    <3>1. (raised = Fine => RaisedRightly)'
      BY FineRaised, PTL
    <3>2. Fine' = Fine
      BY DEF Fine, Raise
    <3> QED BY <1>13, <2>1, <3>1, <3>2
  <2>2. CASE ~Nice
    <3>1. (~Nice => RaisedRightly)'
      BY NotFine, PTL
    <3> QED BY <1>8, <2>2, <3>1 DEF NiceInv
  <2> QED BY <2>1, <2>2
<1>15. CarefulInv'
  <2> SUFFICES ASSUME Careful PROVE CarefulInv'
    BY <1>8 DEF CarefulInv
  <2>1. Listed \cap Refused = {} /\ Exact(Begin)
    BY <1>2, BeginIs DEF CarefulInv
  <2>2. Exact(H)
    BY <1>5, <1>6, <2>1
  <2> QED BY <1>7, <1>8, <2>1, <2>2 DEF CarefulInv
<1> QED BY <1>10, <1>11, <1>12, <1>14, <1>15 DEF Inv

LEMMA DetachInv ==
    ASSUME Inv, uses' = uses, Detach
    PROVE  Inv' /\ RaisedRightly'
<1> DEFINE H == HandleAll({}, Enabled, helpers)
<1>1. /\ mode = "stopped"
      /\ "pending" \in uses \/ Settled
      /\ Update(H)
      /\ raised' # Fine => UNCHANGED <<breakpoints, mode>>
      /\ raised' = Fine => mode' = "detached"
      /\ UNCHANGED <<enabled, changed, helpers, dr6>>
  BY DEF Detach, Settled
<1>2. TypeOK /\ Dictionary /\ ManagersRight /\ NiceInv /\ CarefulInv /\ mode # "detached"
  BY <1>1 DEF Inv
<1>3. helpers \in Seq(Threads) /\ helpers # << >> /\ Alive \subseteq Threads
  BY <1>2, SomeThread
<1>4. /\ breakpoints \in Seq(Bps) /\ Listed \subseteq Bps
      /\ \A S \in SUBSET Listed : IsFiniteSet(S)
      /\ \A i, j \in DOMAIN breakpoints : breakpoints[i] = breakpoints[j] => i = j
  BY <1>2, Sets
<1>5. Going(H, helpers) /\ (Exact(Begin) => Exact(H))
  <2>1. {} \cap Refused = {}
    OBVIOUS
  <2> QED BY <1>2, <1>3, <1>4, <2>1, HandledIs
<1> HIDE DEF H
<1>6. /\ \A t \in Threads : Managers'[t] = H.of[t]
      /\ registers' \in [Threads -> [Regs -> Bps \cup {None}]]
      /\ cpu' \in [Threads -> [Regs -> Bps \cup {None}]]
      /\ breakpoint_count' \in [Threads -> Nat]
      /\ raised' = H.raised
      /\ Exact(H) => \A t \in Threads : cpu'[t] = registers'[t]
      /\ \A t \in Threads : RowOK(Managers'[t])
      /\ \A t \in Threads \ ToSet(helpers) : Managers'[t] = Managers[t]
  BY <1>1, <1>5, UpdateIs
<1>7. Alive' = Alive /\ mode' \in {"stopped", "detached"} /\ Nice' = Nice /\ Careful' = Careful
  BY <1>1 DEF Alive, Nice, Careful
<1>8. TypeOK' /\ Dictionary' /\ ManagersRight'
  <2>1. TypeOK'
    BY <1>1, <1>2, <1>6, <1>7 DEF TypeOK
  <2>2. Dictionary'
    BY <1>1, <1>2 DEF Dictionary
  <2>3. ManagersRight'
    BY <1>2, <1>6, <1>7 DEF ManagersRight, Alive
  <2> QED BY <2>1, <2>2, <2>3
<1>9. ASSUME Nice
      PROVE  raised' = Fine /\ mode' = "detached" /\ \A t \in Alive : Holds(Managers'[t], {})
  <2>1. Acted = Enabled
    <3>1. Settled
      BY <1>1, <1>9, NiceScript
    <3> QED BY <3>1 DEF Settled, Acted, Enabled
  <2>2. /\ \A t \in ToSet(helpers) : Holds(Managers[t], Enabled)
        /\ Cardinality(Wanted) <= AMD64_DBREGS_COUNT
    BY <1>2, <1>9, <2>1 DEF NiceInv, Alive
  <2>3. IsFiniteSet(Enabled \cup {}) /\ Cardinality(Enabled \cup {}) <= AMD64_DBREGS_COUNT
    <3>1. Enabled \cup {} = Enabled /\ Enabled \subseteq Wanted /\ IsFiniteSet(Wanted)
      BY <1>4 DEF Enabled, Wanted
    <3>2. IsFiniteSet(Enabled) /\ Cardinality(Enabled) <= Cardinality(Wanted)
          /\ Cardinality(Wanted) \in Nat /\ Cardinality(Enabled) \in Nat
      BY <3>1, FS_Subset, FS_CardinalityType
    <3> QED BY <2>2, <3>1, <3>2, HardwareAssumption
  <2>4. /\ {} \subseteq Listed /\ Enabled \subseteq Listed /\ {} \cap Enabled = {}
        /\ Enabled \subseteq Enabled
    BY DEF Enabled
  <2>5. AllHold(H, helpers, (Enabled \cup {}) \ Enabled) /\ H.raised = Fine
    BY <1>2, <1>3, <1>4, <2>2, <2>3, <2>4, HandledRight, ZenonT(45) DEF H
  <2>6. (Enabled \cup {}) \ Enabled = {}
    OBVIOUS
  <2>7. AllHold(H, helpers, {})
    BY <2>5, <2>6
  <2> QED BY <1>1, <1>3, <1>6, <2>5, <2>7 DEF AllHold, Alive
<1>10. NiceInv' /\ RaisedRightly'
  <2>1. CASE Nice
    <3>1. (raised = Fine => RaisedRightly)'
      BY FineRaised, PTL
    <3>2. Fine' = Fine
      BY DEF Fine, Raise
    <3> QED BY <1>9, <2>1, <3>1, <3>2 DEF NiceInv
  <2>2. CASE ~Nice
    <3>1. (~Nice => RaisedRightly)'
      BY NotFine, PTL
    <3> QED BY <1>7, <2>2, <3>1 DEF NiceInv
  <2> QED BY <2>1, <2>2
<1>11. CarefulInv'
  <2> SUFFICES ASSUME Careful PROVE CarefulInv'
    BY <1>7 DEF CarefulInv
  <2>1. mode' = "detached" /\ \A t \in Alive : Holds(Managers'[t], {})
    BY <1>9, NiceScript
  <2>2. \A t \in Threads : cpu'[t] = registers'[t]
    BY <1>2, <1>5, <1>6, BeginIs DEF CarefulInv
  <2>3. ASSUME NEW t \in Alive PROVE cpu'[t] = Empty
    <3>1. Managers'[t].reg = registers'[t] /\ t \in Threads
      BY <1>3 DEF Managers, Row
    <3>2. \A i \in Regs : registers'[t][i] = None
      BY <2>1, <3>1 DEF Holds
    <3>3. registers'[t] \in [Regs -> Bps \cup {None}]
      BY <1>6, <3>1
    <3>4. registers'[t] = [i \in Regs |-> None]
      BY <3>2, <3>3
    <3> QED BY <2>2, <3>1, <3>4 DEF Empty
  <2>4. Empty' = Empty
    BY DEF Empty
  <2> QED BY <1>7, <2>1, <2>2, <2>3, <2>4 DEF CarefulInv
<1> QED BY <1>8, <1>10, <1>11 DEF Inv

-------------------------------------------------------------------------------
(* Threads and traps. *)

LEMMA CloneInv ==
    ASSUME Inv, uses' = uses, NEW t \in Threads, Clone(t)
    PROVE  Inv' /\ RaisedRightly'
<1> DEFINE line == <<t>>
           H == HandleAll(Listed, {}, line)
<1>1. /\ mode = "running" /\ t \notin Alive
      /\ "clone disabled" \in uses \/ Enabled = Listed
      /\ Update(H)
      /\ mode' = IF raised' = Fine THEN mode ELSE "stopped"
      /\ helpers' = Append(helpers, t)
      /\ UNCHANGED <<breakpoints, enabled, changed, dr6>>
  BY DEF Clone
<1>2. TypeOK /\ Dictionary /\ ManagersRight /\ NiceInv /\ CarefulInv /\ mode # "detached"
  BY <1>1 DEF Inv
<1>3. helpers \in Seq(Threads) /\ Alive \subseteq Threads
  BY <1>2, SomeThread
<1>4. /\ breakpoints \in Seq(Bps) /\ Listed \subseteq Bps
      /\ \A S \in SUBSET Listed : IsFiniteSet(S)
      /\ \A i, j \in DOMAIN breakpoints : breakpoints[i] = breakpoints[j] => i = j
  BY <1>2, Sets
<1>5. line \in Seq(Threads) /\ line # << >> /\ ToSet(line) = {t}
  BY DEF ToSet
<1> HIDE DEF line
<1>6. Going(H, line) /\ (Exact(Begin) /\ Listed \cap Refused = {} => Exact(H))
  BY <1>2, <1>4, <1>5, HandledIs
<1> HIDE DEF H
<1>7. /\ \A u \in Threads : Managers'[u] = H.of[u]
      /\ registers' \in [Threads -> [Regs -> Bps \cup {None}]]
      /\ cpu' \in [Threads -> [Regs -> Bps \cup {None}]]
      /\ breakpoint_count' \in [Threads -> Nat]
      /\ raised' = H.raised
      /\ Exact(H) => \A u \in Threads : cpu'[u] = registers'[u]
      /\ \A u \in Threads : RowOK(Managers'[u])
      /\ \A u \in Threads \ ToSet(line) : Managers'[u] = Managers[u]
  BY <1>1, <1>6, UpdateIs
<1> DEFINE n == Len(helpers)
<1>8. /\ n \in Nat /\ DOMAIN helpers = 1..n
      /\ helpers' \in Seq(Threads) /\ DOMAIN helpers' = 1..(n + 1)
      /\ helpers'[n + 1] = t /\ \A i \in 1..n : helpers'[i] = helpers[i]
  <2>1. helpers' = Append(helpers, t)
    BY <1>1
  <2> QED BY <1>3, <2>1
<1>9. Alive' = Alive \cup {t}
  <2>1. 1..(n + 1) = 1..n \cup {n + 1}
    BY <1>8
  <2>2. Alive' = {helpers'[i] : i \in 1..n \cup {n + 1}}
    BY <1>8, <2>1 DEF Alive, ToSet
  <2>3. Alive = {helpers[i] : i \in 1..n}
    BY <1>8 DEF Alive, ToSet
  <2> QED BY <1>8, <2>2, <2>3
<1>10. /\ Listed' = Listed /\ Acted' = Acted /\ Wanted' = Wanted /\ Settled' = Settled
       /\ Nice' = Nice /\ Careful' = Careful /\ mode' \in {"stopped", "running"}
  BY <1>1 DEF Listed, Acted, Wanted, Settled, Nice, Careful
<1>11. TypeOK'
  <2>1. \A i, j \in DOMAIN helpers' : helpers'[i] = helpers'[j] => i = j
    <3>1. \A i \in 1..(n + 1) : i = n + 1 \/ i \in 1..n
      BY <1>8
    <3>2. \A i \in 1..n : helpers[i] # t
      BY <1>1, <1>8 DEF Alive, ToSet
    <3>3. \A i, j \in 1..n : helpers[i] = helpers[j] => i = j
      BY <1>2, <1>8 DEF TypeOK
    <3> QED BY <1>8, <3>1, <3>2, <3>3
  <2> QED BY <1>1, <1>2, <1>7, <1>8, <1>9, <1>10, <2>1 DEF TypeOK
<1>12. Dictionary'
  BY <1>1, <1>2, <1>10 DEF Dictionary
<1>13. ManagersRight'
  BY <1>2, <1>5, <1>7, <1>9 DEF ManagersRight
<1>14. ASSUME Nice PROVE NiceInv' /\ raised' = Fine
  <2>1. /\ \A u \in Alive : Holds(Managers[u], Acted)
        /\ Cardinality(Wanted) <= AMD64_DBREGS_COUNT
        /\ Settled
    BY <1>1, <1>2, <1>14 DEF NiceInv
  <2>2. Enabled = Listed
    BY <1>1, <1>14, NiceScript
  <2>3. Acted = Listed /\ Wanted = Listed
    BY <2>1, <2>2 DEF Acted, Wanted, Settled, Enabled
  <2>4. \A u \in ToSet(line) : Holds(Managers[u], {})
    BY <1>1, <1>2, <1>5, EmptyRow DEF ManagersRight
  <2>5. /\ {} \cup Listed = Listed /\ IsFiniteSet(Listed) /\ Listed \cap {} = {}
        /\ {} \subseteq Listed /\ {} \subseteq {} /\ Listed \subseteq Listed
    BY <1>4
  <2>6. AllHold(H, line, ({} \cup Listed) \ {}) /\ H.raised = Fine
    <3>1. IsFiniteSet({} \cup Listed) /\ Cardinality({} \cup Listed) <= AMD64_DBREGS_COUNT
      BY <2>1, <2>3, <2>5
    <3>2. {} \subseteq Listed /\ Listed \cap {} = {} /\ {} \subseteq {} /\ Listed \subseteq Listed
      OBVIOUS
    <3>3. /\ AllHold(HandleAll(Listed, {}, line), line, ({} \cup Listed) \ {})
          /\ HandleAll(Listed, {}, line).raised = Fine
      BY <1>2, <1>4, <1>5, <2>4, <3>1, <3>2, HandledRight
    <3> QED BY <3>3 DEF H
  <2>7. ({} \cup Listed) \ {} = Acted
    BY <2>3
  <2>8. AllHold(H, line, Acted)
    BY <2>6, <2>7
  <2>9. \A u \in Alive' : Holds(Managers'[u], Acted')
    BY <1>1, <1>3, <1>5, <1>7, <1>9, <1>10, <2>1, <2>8 DEF AllHold
  <2> QED BY <1>7, <1>10, <2>1, <2>6, <2>9 DEF NiceInv
<1>15. NiceInv' /\ RaisedRightly'
  <2>1. CASE Nice
    <3>1. (raised = Fine => RaisedRightly)'
      BY FineRaised, PTL
    <3>2. Fine' = Fine
      BY DEF Fine, Raise
    <3> QED BY <1>14, <2>1, <3>1, <3>2
  <2>2. CASE ~Nice
    <3>1. (~Nice => RaisedRightly)'
      BY NotFine, PTL
    <3> QED BY <1>10, <2>2, <3>1 DEF NiceInv
  <2> QED BY <2>1, <2>2
<1>16. CarefulInv'
  <2> SUFFICES ASSUME Careful PROVE CarefulInv'
    BY <1>10 DEF CarefulInv
  <2>1. Listed \cap Refused = {} /\ Exact(Begin)
    BY <1>2, BeginIs DEF CarefulInv
  <2> QED BY <1>6, <1>7, <1>10, <2>1 DEF CarefulInv
<1> QED BY <1>11, <1>12, <1>13, <1>15, <1>16 DEF Inv

LEMMA FrontIs ==
    ASSUME NEW S, NEW s \in Seq(S), NEW i \in 1..Len(s)
    PROVE  /\ SubSeq(s, 1, i - 1) \in Seq(S) /\ Len(SubSeq(s, 1, i - 1)) = i - 1
           /\ \A j \in 1..(i - 1) : SubSeq(s, 1, i - 1)[j] = s[j]
  OBVIOUS

LEMMA BackIs ==
    ASSUME NEW S, NEW s \in Seq(S), NEW i \in 1..Len(s)
    PROVE  /\ SubSeq(s, i + 1, Len(s)) \in Seq(S) /\ Len(SubSeq(s, i + 1, Len(s))) = Len(s) - i
           /\ \A j \in 1..(Len(s) - i) : SubSeq(s, i + 1, Len(s))[j] = s[i + j]
<1>1. Len(s) \in Nat /\ i \in Nat /\ i + 1 \in 1..(Len(s) + 1)
  OBVIOUS
<1>2. SubSeq(s, i + 1, Len(s)) \in Seq(S)
  BY <1>1
<1>3. Len(SubSeq(s, i + 1, Len(s))) = Len(s) - i
  BY <1>1
<1>4. ASSUME NEW j \in 1..(Len(s) - i) PROVE SubSeq(s, i + 1, Len(s))[j] = s[i + j]
  BY <1>1
<1> QED BY <1>2, <1>3, <1>4

(* A thread leaves the list. *)
LEMMA WithoutIs ==
    ASSUME TypeOK, NEW i \in DOMAIN helpers,
           NEW shorter, shorter = SubSeq(helpers, 1, i - 1) \o SubSeq(helpers, i + 1, Len(helpers))
    PROVE  /\ shorter \in Seq(Threads)
           /\ ToSet(shorter) = Alive \ {helpers[i]}
           /\ \A j, k \in DOMAIN shorter : shorter[j] = shorter[k] => j = k
<1> DEFINE n == Len(helpers)
<1>1. helpers \in Seq(Threads) /\ n \in Nat /\ DOMAIN helpers = 1..n /\ i \in 1..n
  BY DEF TypeOK
<1>2. /\ SubSeq(helpers, 1, i - 1) \in Seq(Threads) /\ Len(SubSeq(helpers, 1, i - 1)) = i - 1
      /\ \A j \in 1..(i - 1) : SubSeq(helpers, 1, i - 1)[j] = helpers[j]
  BY <1>1, FrontIs
<1>3. /\ SubSeq(helpers, i + 1, n) \in Seq(Threads) /\ Len(SubSeq(helpers, i + 1, n)) = n - i
      /\ \A j \in 1..(n - i) : SubSeq(helpers, i + 1, n)[j] = helpers[i + j]
  BY <1>1, BackIs
<1>4. shorter \in Seq(Threads) /\ DOMAIN shorter = 1..(n - 1)
  BY <1>1, <1>2, <1>3
<1>5. \A j \in 1..(n - 1) : shorter[j] = IF j < i THEN helpers[j] ELSE helpers[j + 1]
  <2> SUFFICES ASSUME NEW j \in 1..(n - 1)
               PROVE  shorter[j] = IF j < i THEN helpers[j] ELSE helpers[j + 1]
    OBVIOUS
  <2>1. CASE j < i
    BY <1>1, <1>2, <1>3, <2>1
  <2>2. CASE ~(j < i)
    <3>0. n \in Nat /\ i \in 1..n /\ j \in 1..(n - 1)
      BY <1>1
    <3> DEFINE front == SubSeq(helpers, 1, i - 1)
               back == SubSeq(helpers, i + 1, n)
    <3>1. front \in Seq(Threads) /\ Len(front) = i - 1 /\ back \in Seq(Threads) /\ Len(back) = n - i
          /\ \A k \in 1..(n - i) : back[k] = helpers[i + k]
      BY <1>2, <1>3
    <3>2. shorter = front \o back
      OBVIOUS
    <3> HIDE DEF front, back, n
    <3>3. j - (i - 1) \in 1..(n - i) /\ i + (j - (i - 1)) = j + 1
      <4>1. \A p, q, r \in Nat : q \in 1..p /\ r \in 1..(p - 1) /\ ~(r < q) =>
               r - (q - 1) \in 1..(p - q) /\ q + (r - (q - 1)) = r + 1
        OBVIOUS
      <4>2. n \in Nat /\ i \in Nat /\ j \in Nat
        BY <3>0
      <4> QED BY <2>2, <3>0, <4>1, <4>2
    <3>4. shorter[j] = back[j - (i - 1)]
      <4>1. \A f, g \in Seq(Threads) : \A k \in (Len(f) + 1)..(Len(f) + Len(g)) : (f \o g)[k] = g[k - Len(f)]
        OBVIOUS
      <4>2. j \in (Len(front) + 1)..(Len(front) + Len(back))
        <5>1. \A p, q, r \in Nat : q \in 1..p /\ r \in 1..(p - 1) /\ ~(r < q) =>
               r \in (q - 1 + 1)..(q - 1 + (p - q))
          OBVIOUS
        <5>2. n \in Nat /\ i \in Nat /\ j \in Nat
          BY <3>0
        <5>3. j \in (i - 1 + 1)..(i - 1 + (n - i))
          BY <2>2, <3>0, <5>1, <5>2
        <5> QED BY <3>1, <5>3
      <4>3. (front \o back)[j] = back[j - Len(front)]
        BY <3>1, <4>1, <4>2
      <4> QED BY <3>1, <3>2, <4>3
    <3> QED BY <2>2, <3>1, <3>3, <3>4
  <2> QED BY <2>1, <2>2
<1>6. \A j, k \in 1..n : helpers[j] = helpers[k] => j = k
  BY <1>1 DEF TypeOK
<1>7. \A j, k \in DOMAIN shorter : shorter[j] = shorter[k] => j = k
  <2> SUFFICES ASSUME NEW j \in 1..(n - 1), NEW k \in 1..(n - 1), shorter[j] = shorter[k]
               PROVE  j = k
    BY <1>4
  <2> DEFINE J == IF j < i THEN j ELSE j + 1
             K == IF k < i THEN k ELSE k + 1
  <2>1. J \in 1..n /\ K \in 1..n /\ (J = K => j = k)
    BY <1>1
  <2>2. shorter[j] = helpers[J] /\ shorter[k] = helpers[K]
    BY <1>5
  <2> HIDE DEF J, K
  <2> QED BY <1>6, <2>1, <2>2
<1>8. ToSet(shorter) = Alive \ {helpers[i]}
  <2>1. ToSet(shorter) = {shorter[j] : j \in 1..(n - 1)} /\ Alive = {helpers[j] : j \in 1..n}
    BY <1>1, <1>4 DEF ToSet, Alive
  <2>2. ASSUME NEW j \in 1..(n - 1) PROVE shorter[j] \in Alive \ {helpers[i]}
    <3> DEFINE J == IF j < i THEN j ELSE j + 1
    <3>1. J \in 1..n /\ J # i
      BY <1>1
    <3>2. shorter[j] = helpers[J]
      BY <1>5
    <3> HIDE DEF J
    <3> QED BY <1>1, <1>6, <2>1, <3>1, <3>2
  <2>3. ASSUME NEW j \in 1..n, helpers[j] # helpers[i]
        PROVE  \E k \in 1..(n - 1) : shorter[k] = helpers[j]
    <3>1. CASE j < i
      <4>1. j \in 1..(n - 1)
        BY <1>1, <3>1
      <4> QED BY <1>5, <3>1, <4>1
    <3>2. CASE ~(j < i)
      <4>1. j # i
        BY <2>3
      <4>2. j - 1 \in 1..(n - 1) /\ ~(j - 1 < i) /\ j - 1 + 1 = j
        BY <1>1, <3>2, <4>1
      <4>3. shorter[j - 1] = helpers[j - 1 + 1]
        BY <1>5, <4>2
      <4> QED BY <4>2, <4>3
    <3> QED BY <3>1, <3>2
  <2>4. helpers[i] \in Alive
    BY <1>1, <2>1
  <2> HIDE DEF n
  <2>5. ToSet(shorter) \subseteq Alive \ {helpers[i]}
    BY <2>1, <2>2
  <2>6. Alive \ {helpers[i]} \subseteq ToSet(shorter)
    <3> SUFFICES ASSUME NEW u \in Alive \ {helpers[i]} PROVE u \in ToSet(shorter)
      OBVIOUS
    <3>1. PICK j \in 1..n : u = helpers[j]
      BY <2>1
    <3> QED BY <2>1, <2>3, <3>1
  <2> QED BY <2>5, <2>6
<1> QED BY <1>4, <1>7, <1>8

LEMMA ExitInv ==
    ASSUME Inv, uses' = uses, NEW t \in Threads, Exit(t)
    PROVE  Inv' /\ raised' = Fine
<1>1. /\ mode = "running" /\ t \in Alive \ {Main}
      /\ registers' = [registers EXCEPT ![t] = Empty]
      /\ breakpoint_count' = [breakpoint_count EXCEPT ![t] = 0]
      /\ cpu' = [cpu EXCEPT ![t] = Empty]
      /\ raised' = Fine
      /\ UNCHANGED <<breakpoints, enabled, changed, mode>>
  BY DEF Exit
<1>2. PICK i \in DOMAIN helpers :
         /\ helpers[i] = t
         /\ helpers' = SubSeq(helpers, 1, i - 1) \o SubSeq(helpers, i + 1, Len(helpers))
  BY DEF Exit
<1>3. TypeOK /\ Dictionary /\ ManagersRight /\ NiceInv /\ CarefulInv
  BY DEF Inv
<1>4. /\ helpers' \in Seq(Threads) /\ ToSet(helpers') = Alive \ {t}
      /\ \A j, k \in DOMAIN helpers' : helpers'[j] = helpers'[k] => j = k
  BY <1>2, <1>3, WithoutIs
<1>5. Alive' = Alive \ {t}
  BY <1>4 DEF Alive
<1>6. \A u \in Threads : /\ registers'[u] = IF u = t THEN Empty ELSE registers[u]
                         /\ breakpoint_count'[u] = IF u = t THEN 0 ELSE breakpoint_count[u]
                         /\ cpu'[u] = IF u = t THEN Empty ELSE cpu[u]
  BY <1>1, <1>3 DEF TypeOK
<1>7. \A u \in Threads : Managers'[u] = IF u = t THEN Row(Empty, 0, Empty) ELSE Managers[u]
  BY <1>6 DEF Managers
<1>8. Empty' = Empty /\ Row(Empty, 0, Empty)' = Row(Empty, 0, Empty)
  BY DEF Empty, Row
<1>9. TypeOK'
  <2>1. /\ registers' \in [Threads -> [Regs -> Bps \cup {None}]]
        /\ cpu' \in [Threads -> [Regs -> Bps \cup {None}]]
        /\ breakpoint_count' \in [Threads -> Nat]
    BY <1>1, <1>3, EmptyRow DEF TypeOK
  <2> QED BY <1>1, <1>3, <1>4, <1>5, <2>1 DEF TypeOK
<1>10. Dictionary'
  BY <1>1, <1>3 DEF Dictionary
<1>11. ManagersRight'
  BY <1>3, <1>5, <1>7, <1>8, EmptyRow DEF ManagersRight
<1>12. /\ Listed' = Listed /\ Acted' = Acted /\ Wanted' = Wanted /\ Settled' = Settled
       /\ Nice' = Nice /\ Careful' = Careful
  BY <1>1 DEF Listed, Acted, Wanted, Settled, Nice, Careful
<1>13. NiceInv'
  <2>1. Alive \subseteq Threads
    BY <1>3, SomeThread
  <2>2. \A u \in Alive' : Managers'[u] = Managers[u] /\ u \in Alive
    BY <1>5, <1>7, <2>1
  <2> QED BY <1>1, <1>3, <1>12, <2>2 DEF NiceInv
<1>14. CarefulInv'
  BY <1>1, <1>3, <1>6, <1>12 DEF CarefulInv
<1> QED BY <1>1, <1>9, <1>10, <1>11, <1>13, <1>14 DEF Inv

(* Traps change nothing but the mode and what is reported. *)
LEMMA TrapInv ==
    ASSUME Inv, uses' = uses, mode = "running", mode' \in {"running", "stopped"},
           UNCHANGED <<breakpoints, enabled, changed, helpers, tables>>
    PROVE  Inv'
<1>1. TypeOK /\ Dictionary /\ ManagersRight /\ NiceInv /\ CarefulInv
  BY DEF Inv
<1>2. Managers' = Managers
  BY SameManagers
<1>3. /\ Alive' = Alive /\ Listed' = Listed /\ Acted' = Acted /\ Wanted' = Wanted
      /\ Settled' = Settled /\ Nice' = Nice /\ Careful' = Careful
  BY DEF Alive, Listed, Acted, Wanted, Settled, Nice, Careful
<1>4. TypeOK'
  BY <1>1, <1>3 DEF TypeOK, tables
<1>5. Dictionary' /\ ManagersRight'
  BY <1>1, <1>2, <1>3 DEF Dictionary, ManagersRight
<1>6. NiceInv'
  BY <1>1, <1>2, <1>3 DEF NiceInv
<1>7. CarefulInv'
  BY <1>1, <1>3 DEF CarefulInv, tables
<1> QED BY <1>4, <1>5, <1>6, <1>7 DEF Inv

LEMMA TrapMode ==
    ASSUME NEW t, NEW hit, NEW status, NEW ip, HandleTrap(t, hit, status, ip)
    PROVE  mode' \in {"running", "stopped"}
BY DEF HandleTrap

LEMMA InvNext == Inv /\ RaisedRightly /\ [Next]_vars => Inv' /\ RaisedRightly'
<1> SUFFICES ASSUME Inv, RaisedRightly, [Next]_vars PROVE Inv' /\ RaisedRightly'
  OBVIOUS
<1>0. raised' = Fine => RaisedRightly'
  <2>1. (raised = Fine => RaisedRightly)'
    BY FineRaised, PTL
  <2>2. Fine' = Fine
    BY DEF Fine, Raise
  <2> QED BY <2>1, <2>2
<1>1. ASSUME NEW b \in Bps, SetBreakpoint(b), uses' = uses PROVE Inv' /\ RaisedRightly'
  BY <1>1, SetBreakpointInv
<1>2. ASSUME NEW b \in Bps, NEW on \in BOOLEAN, Toggle(b, on), uses' = uses PROVE Inv' /\ RaisedRightly'
  BY <1>2, ToggleInv
<1>3. ASSUME Cont, uses' = uses PROVE Inv' /\ RaisedRightly'
  BY <1>3, ContInv
<1>4. ASSUME Detach, uses' = uses PROVE Inv' /\ RaisedRightly'
  BY <1>4, DetachInv
<1>5. ASSUME NEW t \in Threads, Clone(t), uses' = uses PROVE Inv' /\ RaisedRightly'
  BY <1>5, CloneInv
<1>6. ASSUME NEW t \in Threads, Exit(t), uses' = uses PROVE Inv' /\ RaisedRightly'
  BY <1>0, <1>6, ExitInv
<1>7. ASSUME Interrupt, uses' = uses PROVE Inv' /\ RaisedRightly'
  <2>1. /\ mode = "running" /\ mode' \in {"running", "stopped"} /\ raised' = Fine
        /\ UNCHANGED <<breakpoints, enabled, changed, helpers, tables>>
    BY <1>7 DEF Interrupt
  <2> QED BY <1>0, <1>7, <2>1, TrapInv
<1>8. ASSUME NEW t \in Threads, NEW ip, OtherTrap(t, ip), uses' = uses PROVE Inv' /\ RaisedRightly'
  <2>1. /\ mode = "running" /\ mode' \in {"running", "stopped"} /\ raised' = Fine
        /\ UNCHANGED <<breakpoints, enabled, changed, helpers, tables>>
    BY <1>8, TrapMode DEF OtherTrap
  <2> QED BY <1>0, <1>8, <2>1, TrapInv
<1>9. ASSUME NEW t \in Threads, NEW S \in SUBSET Regs, NEW ip, Trigger(t, S, ip), uses' = uses
      PROVE  Inv' /\ RaisedRightly'
  <2>1. /\ mode = "running" /\ mode' \in {"running", "stopped"} /\ raised' = Fine
        /\ UNCHANGED <<breakpoints, enabled, changed, helpers, tables>>
    BY <1>9, TrapMode DEF Trigger
  <2> QED BY <1>0, <1>9, <2>1, TrapInv
<1>10. CASE UNCHANGED vars
  <2>1. /\ uses' = uses /\ UNCHANGED tables
        /\ UNCHANGED <<breakpoints, enabled, changed, helpers, mode, raised>>
    BY <1>10 DEF vars
  <2>2. Managers' = Managers
    BY <2>1, SameManagers
  <2>3. /\ Alive' = Alive /\ Listed' = Listed /\ Acted' = Acted /\ Wanted' = Wanted
        /\ Enabled' = Enabled /\ Settled' = Settled /\ Nice' = Nice /\ Careful' = Careful
    BY <2>1 DEF Alive, Listed, Acted, Wanted, Enabled, Settled, Nice, Careful
  <2>4. TypeOK'
    BY <2>1, <2>3 DEF Inv, TypeOK, tables
  <2>5. Dictionary' /\ ManagersRight' /\ NiceInv'
    BY <2>1, <2>2, <2>3 DEF Inv, Dictionary, ManagersRight, NiceInv
  <2>6. CarefulInv'
    BY <2>1, <2>3 DEF Inv, CarefulInv, tables
  <2>7. RaisedRightly'
    BY <2>1, <2>3 DEF RaisedRightly
  <2> QED BY <2>4, <2>5, <2>6, <2>7 DEF Inv
<1> QED BY <1>1, <1>2, <1>3, <1>4, <1>5, <1>6, <1>7, <1>8, <1>9, <1>10 DEF Next, Actions

-------------------------------------------------------------------------------
(* Whom a trap is attributed to. *)

(* An enabled breakpoint of the dictionary that is where the thread is, or *)
(* a byte before, or else what the manager has in the lowest register that *)
(* triggered.                                                              *)
LEMMA HandleBreakpointsIs ==
    ASSUME NEW t, NEW S, S \subseteq Regs, S # {}, NEW ip
    PROVE  \/ HandleBreakpoints(t, S, ip) \in Here(ip)
           \/ Here(ip) = {} /\ HandleBreakpoints(t, S, ip) \in Before(ip)
           \/ /\ Here(ip) = {} /\ Before(ip) = {}
              /\ \E i \in S : HandleBreakpoints(t, S, ip)
                                 = IF registers[t][i] \in Execute THEN None ELSE registers[t][i]
<1>1. CASE Here(ip) # {}
  BY <1>1 DEF HandleBreakpoints
<1>2. CASE Here(ip) = {} /\ Before(ip) # {}
  BY <1>2 DEF HandleBreakpoints
<1>3. CASE Here(ip) = {} /\ Before(ip) = {}
  <2> DEFINE i == CHOOSE j \in S : \A k \in S : j <= k
  <2>1. \E j \in S : \A k \in S : j <= k
    BY RegsFinite, Smallest
  <2>2. i \in S
    BY <2>1
  <2>3. WatchpointHit(t, S) = IF registers[t][i] \in Execute THEN None ELSE registers[t][i]
    BY DEF WatchpointHit
  <2>4. HandleBreakpoints(t, S, ip) = WatchpointHit(t, S)
    BY <1>3 DEF HandleBreakpoints
  <2> HIDE DEF i
  <2> QED BY <1>3, <2>2, <2>3, <2>4
<1> QED BY <1>1, <1>2, <1>3

(* What is reported of a trap. *)
LEMMA TrapReport ==
    ASSUME NEW t, NEW hit, NEW status, NEW ip, HandleTrap(t, hit, status, ip)
    PROVE  /\ report'.triggered = hit /\ report'.bp = HandleBreakpoints(t, status, ip)
           /\ report'.rewound = Rewound(ip)
           /\ "beside" \in uses \/ ~Beside(hit, ip)
<1> DEFINE bp == HandleBreakpoints(t, status, ip)
<1>1. PICK forwarded : report' = [triggered |-> hit, bp |-> bp, forwarded |-> forwarded, rewound |-> Rewound(ip)]
  BY DEF HandleTrap
<1> HIDE DEF bp
<1>2. report'.triggered = hit /\ report'.bp = bp /\ report'.rewound = Rewound(ip)
  BY <1>1
<1> QED BY <1>2 DEF HandleTrap, bp

LEMMA TriggerAttributed ==
    ASSUME Inv, uses' = uses, NEW t \in Threads, NEW S \in SUBSET Regs, NEW ip, Trigger(t, S, ip)
    PROVE  Attributed'
<1> DEFINE hit == {cpu[t][i] : i \in S}
           bp == HandleBreakpoints(t, S, ip)
<1>1. /\ mode = "running" /\ t \in Alive
      /\ S # {} /\ S \subseteq {i \in Regs : cpu[t][i] # None}
      /\ "together" \in uses \/ Cardinality(hit) = 1
      /\ \A i \in S : cpu[t][i] \in Execute => Address[cpu[t][i]] = ip
      /\ HandleTrap(t, hit, S, ip)
      /\ UNCHANGED <<breakpoints, enabled, changed, helpers, tables>>
  BY DEF Trigger
<1>2. TypeOK /\ Dictionary /\ ManagersRight /\ NiceInv /\ CarefulInv /\ mode # "detached"
  BY <1>1 DEF Inv
<1>3. report'.triggered = hit /\ report'.bp = bp /\ report'.rewound = Rewound(ip)
      /\ ("beside" \in uses \/ ~Beside(hit, ip))
  <2> HIDE DEF hit
  <2> QED BY <1>1, TrapReport
<1>4. Listed \subseteq Bps
  BY <1>2, Sets
<1>5. S \subseteq Regs /\ \A i \in S : cpu[t][i] # None /\ cpu[t][i] = registers[t][i] /\ cpu[t][i] \in hit
  <2>1. RowOK(Managers[t]) /\ Managers[t].reg = registers[t] /\ Managers[t].cpu = cpu[t]
    BY <1>2 DEF ManagersRight, Managers, Row
  <2>2. \A i \in Regs : cpu[t][i] \in {registers[t][i], None}
    BY <2>1 DEF RowOK
  <2> QED BY <1>1, <2>2
<1>6. \/ bp \in Here(ip)
      \/ Here(ip) = {} /\ bp \in Before(ip)
      \/ /\ Here(ip) = {}
         /\ \E i \in S : bp = IF registers[t][i] \in Execute THEN None ELSE registers[t][i]
  BY <1>1, <1>5, HandleBreakpointsIs
<1>7. Listed' = Listed /\ Careful' = Careful
  BY <1>1 DEF Listed, Careful
<1> HIDE DEF bp
<1>8. ASSUME "beside" \notin uses, bp # None PROVE bp \in hit /\ Rewound(ip) = 0
  <2>1. (\A b \in Here(ip) : b \in hit) /\ ~(Here(ip) = {} /\ Before(ip) # {})
    BY <1>3, <1>8 DEF Beside
  <2>2. CASE bp \in Here(ip)
    BY <2>1, <2>2 DEF Rewound
  <2>3. CASE Here(ip) = {} /\ bp \in Before(ip)
    BY <2>1, <2>3
  <2>4. CASE \E i \in S : bp = IF registers[t][i] \in Execute THEN None ELSE registers[t][i]
    <3>1. bp \in hit
      BY <1>5, <1>8, <2>4
    <3> QED BY <2>1, <3>1 DEF Rewound
  <2> QED BY <1>6, <2>2, <2>3, <2>4
<1>9. ASSUME Careful, "together" \notin uses PROVE hit = {bp}
  <2>1. PICK x : hit = {x}
    <3>1. IsFiniteSet(S)
      BY <1>5, RegsFinite, FS_Subset
    <3>2. Cardinality(hit) = 1
      BY <1>1, <1>9
    <3>3. IsFiniteSet(hit)
      <4> DEFINE f == [i \in S |-> cpu[t][i]]
      <4>1. f \in Surjection(S, hit)
        BY DEF Surjection
      <4> HIDE DEF f, hit
      <4> QED BY <3>1, <4>1, FS_Surjection
    <3> HIDE DEF hit
    <3> QED BY <3>2, <3>3, FS_Singleton
  <2>2. PICK i \in S : cpu[t][i] = x
    BY <1>1, <2>1
  <2>3. x \in Enabled
    <3>1. Holds(Managers[t], Acted) /\ Settled
      BY <1>1, <1>2, <1>9, NiceScript DEF NiceInv
    <3>2. registers[t][i] \in Acted \cup {None}
      BY <1>5, <3>1 DEF Holds, Managers, Row
    <3>3. Acted = Enabled
      BY <3>1 DEF Acted, Enabled, Settled
    <3> QED BY <1>5, <2>2, <3>2, <3>3
  <2>4. hit \subseteq Listed /\ x \in Bps /\ x # None
    BY <1>4, <1>5, <2>1, <2>2, <2>3 DEF Enabled
  <2>5. "beside" \notin uses
    BY <1>9 DEF Careful
  <2>6. bp # None
    <3>1. CASE bp \in Here(ip)
      BY <1>4, <3>1, HardwareAssumption DEF Here, Enabled
    <3>2. CASE Here(ip) = {} /\ bp \in Before(ip)
      BY <1>4, <3>2, HardwareAssumption DEF Before, Enabled
    <3>3. CASE Here(ip) = {} /\ \E k \in S : bp = IF registers[t][k] \in Execute THEN None ELSE registers[t][k]
      <4>1. PICK k \in S : bp = IF registers[t][k] \in Execute THEN None ELSE registers[t][k]
        BY <3>3
      <4>2. registers[t][k] = x
        BY <1>5, <2>1
      <4>3. x \notin Execute
        BY <1>1, <2>2, <2>3, <3>3 DEF Here
      <4> QED BY <2>4, <4>1, <4>2, <4>3
    <3> QED BY <1>6, <3>1, <3>2, <3>3
  <2> QED BY <1>8, <2>1, <2>5, <2>6
<1> HIDE DEF hit
<1> QED BY <1>3, <1>7, <1>8, <1>9 DEF Attributed

(* No breakpoint triggered, and none is blamed. *)
Nothing ==
    /\ report.triggered = {}
    /\ report.bp = None \/ "beside" \in uses \/ (report.rewound = 0 /\ "other trap" \in uses)

LEMMA NothingReported == Nothing => Attributed
BY DEF Nothing, Attributed

LEMMA AttributedNext == Inv /\ Attributed /\ [Next]_vars => Attributed'
<1> SUFFICES ASSUME Inv, Attributed, [Next]_vars PROVE Attributed'
  OBVIOUS
<1>1. ASSUME report'.triggered = {},
             report'.bp = None \/ "beside" \in uses' \/ (report'.rewound = 0 /\ "other trap" \in uses')
      PROVE  Attributed'
  <2>1. Nothing'
    BY <1>1 DEF Nothing
  <2>2. (Nothing => Attributed)'
    BY NothingReported, PTL
  <2> QED BY <2>1, <2>2
<1>2. NoReport.triggered = {} /\ NoReport.bp = None
  BY DEF NoReport
<1>3. report' = NoReport => Attributed'
  BY <1>1, <1>2
<1>4. ASSUME NEW b \in Bps, SetBreakpoint(b) PROVE Attributed'
  BY <1>3, <1>4 DEF SetBreakpoint
<1>5. ASSUME NEW b \in Bps, NEW on \in BOOLEAN, Toggle(b, on) PROVE Attributed'
  BY <1>3, <1>5 DEF Toggle
<1>6. Cont => Attributed'
  BY <1>3 DEF Cont
<1>7. Detach => Attributed'
  BY <1>3 DEF Detach
<1>8. Interrupt => Attributed'
  BY <1>3 DEF Interrupt
<1>9. ASSUME NEW t \in Threads, Clone(t) PROVE Attributed'
  BY <1>3, <1>9 DEF Clone
<1>10. ASSUME NEW t \in Threads, Exit(t) PROVE Attributed'
  BY <1>3, <1>10 DEF Exit
<1>11. ASSUME NEW t \in Threads, NEW ip, OtherTrap(t, ip), uses' = uses PROVE Attributed'
  <2>1. /\ report'.triggered = {} /\ report'.rewound = Rewound(ip) /\ "other trap" \in uses'
        /\ "beside" \in uses \/ ~Beside({}, ip)
    BY <1>11, TrapReport DEF OtherTrap
  <2>2. ~Beside({}, ip) => Rewound(ip) = 0
    BY DEF Beside, Rewound
  <2> QED BY <1>1, <1>11, <2>1, <2>2
<1>12. ASSUME NEW t \in Threads, NEW S \in SUBSET Regs, NEW ip, Trigger(t, S, ip), uses' = uses
       PROVE  Attributed'
  BY <1>12, TriggerAttributed
<1>13. CASE UNCHANGED vars
  <2>1. uses' = uses /\ report' = report /\ breakpoints' = breakpoints
    BY <1>13 DEF vars
  <2> QED BY <2>1 DEF Attributed, Listed, Careful
<1> QED BY <1>4, <1>5, <1>6, <1>7, <1>8, <1>9, <1>10, <1>11, <1>12, <1>13 DEF Next, Actions

-------------------------------------------------------------------------------
(* Theorems. *)

LEMMA AlwaysInv == Spec => [](Inv /\ RaisedRightly)
<1>1. Init => Inv /\ RaisedRightly
  BY InvInit DEF Init, RaisedRightly, Fine, Raise
<1> QED BY <1>1, InvNext, PTL DEF Spec

LEMMA Matches == Inv => RegistersMatch
<1> SUFFICES ASSUME Inv PROVE RegistersMatch
  OBVIOUS
<1>1. TypeOK /\ ManagersRight /\ NiceInv /\ CarefulInv
  BY DEF Inv
<1>2. \A t \in Threads : /\ Managers[t].reg = registers[t] /\ Managers[t].cpu = cpu[t]
                         /\ Managers[t].count = breakpoint_count[t]
  BY DEF Managers, Row
<1>3. ASSUME NEW t \in Threads
      PROVE  breakpoint_count[t] = Cardinality({i \in Regs : registers[t][i] # None})
  BY <1>1, <1>2 DEF ManagersRight, RowOK, Used
<1>4. ASSUME Careful, mode = "running", NEW t \in Alive
      PROVE  /\ \A b \in Enabled : Cardinality(Holding(cpu[t], b)) = 1
             /\ \A i \in Regs : cpu[t][i] \in Enabled \cup {None}
  <2>1. Holds(Managers[t], Acted) /\ Settled
    BY <1>1, <1>4, NiceScript DEF NiceInv
  <2>2. Acted = Enabled
    BY <2>1 DEF Acted, Enabled, Settled
  <2>3. Managers[t].reg = cpu[t]
    BY <1>1, <1>2, <1>4, SomeThread DEF CarefulInv
  <2>4. /\ \A i \in Regs : cpu[t][i] \in Enabled \cup {None}
        /\ \A b \in Enabled : \E i \in Regs : cpu[t][i] = b
        /\ \A i, j \in Regs : cpu[t][i] = cpu[t][j] /\ cpu[t][i] # None => i = j
        /\ Enabled \subseteq Bps
    BY <2>1, <2>2, <2>3 DEF Holds
  <2>5. ASSUME NEW b \in Enabled PROVE Cardinality(Holding(cpu[t], b)) = 1
    <3>1. PICK i \in Regs : cpu[t][i] = b
      BY <2>4
    <3>2. b # None
      BY <2>4, HardwareAssumption
    <3>3. Holding(cpu[t], b) = {i}
      BY <2>4, <3>1, <3>2 DEF Holding
    <3> QED BY <3>3, FS_Singleton
  <2> QED BY <2>4, <2>5
<1>5. Careful /\ mode = "detached" => \A t \in Alive : cpu[t] = Empty
  BY <1>1 DEF CarefulInv
<1> QED BY <1>3, <1>4, <1>5 DEF RegistersMatch

(* The count of a manager is always that of the registers in use, for     *)
(* every script.  If the script counts the registers, each thread that     *)
(* runs has each enabled breakpoint in exactly one register, and none      *)
(* after detach: what cont and register_new_thread promise.                *)
THEOREM RegistersHoldEnabled == Spec => []RegistersMatch
<1>1. Spec => []Inv
  BY AlwaysInv, PTL
<1> QED BY <1>1, Matches, PTL

(* The only exception of a call is the limit, and more breakpoints would   *)
(* be enabled then than there are registers: install_breakpoint finds a    *)
(* register whenever its count says that there is one, and                 *)
(* remove_breakpoint finds the breakpoint.                                 *)
THEOREM RaisesForTheLimit == Spec => []RaisedRightly
BY AlwaysInv, PTL

(* _handle_breakpoints, which looks for a breakpoint at the instruction    *)
(* pointer and a byte before it whatever the trap is, blames one that      *)
(* triggered and does not put the thread back, for every script, as long   *)
(* as no other enabled breakpoint is there; and it finds the one that      *)
(* triggered alone if the script counts registers.                         *)
THEOREM HitsFindTheirBreakpoint == Spec => []Attributed
<1>1. Init => Attributed
  <2>1. Init => report.triggered = {} /\ report.bp = None
    BY DEF Init, NoReport
  <2> QED BY <2>1, NothingReported DEF Nothing
<1>2. Spec => []Inv
  BY AlwaysInv, PTL
<1> QED BY <1>1, <1>2, AttributedNext, PTL DEF Spec

================================================================================
