----------------------------- MODULE MCTraceeViews -----------------------------
(***************************************************************************)
(* What a script sees of a stopped process: its memory (MemoryView), its   *)
(* addresses and symbols (AddressResolution) and its call stack            *)
(* (CallStack).  The three share no state, so each behavior is about one.  *)
(***************************************************************************)
EXTENDS MemoryView, AddressResolution, TLC

VARIABLES view,
          scenario, cpu, rf, doing, previous_ip, nested_call_counter, target, max_steps, count,
          executed, method, begun

callVars == <<scenario, cpu, rf, doing, previous_ip, nested_call_counter, target, max_steps, count,
              executed, method, begun>>

-------------------------------------------------------------------------------
(* Memory: the binary at 8 to 15 and a library at 20 to 27.  Words of four *)
(* bytes: the values 30 and above are written.                             *)
M(start, end, file) == [start |-> start, end |-> end, file |-> file]
MemorySpace == 0..31
TwoMaps == <<M(8, 16, "bin"), M(20, 28, "libc")>>
Strings == {<<30>>, <<30, 31, 32>>, <<30, 31, 32, 33>>, <<30, 31, 32, 33, 34, 35>>}

KeysOf(kinds, symbols, starts, args, files) ==
    [kind : kinds, symbol : symbols, start : starts, stop : {"none"}, arg : args, file : files]
Sized(starts, sizes, files) == KeysOf({"sized"}, {"none"}, starts, sizes, files)
Slices(starts, stops, files) ==
    {k \in KeysOf({"slice"}, {"none"}, starts, stops, files) : k.start <= k.arg}
Single(starts, files) == KeysOf({"one"}, {"none"}, starts, {0}, files)

(* Far enough from the ends of the maps. *)
Inside ==
    Sized({8, 9, 20}, {0, 2, 4, 5}, {"hybrid", "absolute"}) \cup Sized({0, 1}, {3, 4}, {"hybrid", "binary"})
      \cup Slices({8, 9}, {9, 12, 13}, {"hybrid", "absolute", "binary"}) \cup Single({8, 21, 1}, {"hybrid"})
(* At the ends of the maps and across them. *)
Edges ==
    Sized({4, 13, 18, 24}, {1, 3, 9}, {"hybrid", "absolute", "binary"})
      \cup Slices({7, 12, 22}, {14, 17, 27}, {"absolute"}) \cup Single({3, 15, 27, 30}, {"hybrid", "absolute"})
(* Symbols, an offset that leads out of the map, and slices between two    *)
(* symbols, to a symbol that there is not, and from a symbol to an address. *)
SymbolSlices(symbols, starts, stops, args) ==
    [kind : {"slice"}, symbol : symbols, start : starts, stop : stops, arg : args, file : {"hybrid"}]
BySymbol ==
    KeysOf({"one", "sized"}, {"main", "puts"}, {0, 2, 7}, {3}, {"hybrid", "libc"})
      \cup SymbolSlices({"main"}, {1}, {"main", "static", "puts", "none"}, {5})
      \cup SymbolSlices({"none"}, {9}, {"static"}, {1})
(* A negative size, and slices from an offset to an address. *)
Odd == Sized({9, 14}, {-1, -4}, {"hybrid"}) \cup Slices({1, 5}, {9, 12}, {"hybrid"})
AllKeys == Inside \cup Edges \cup BySymbol \cup Odd

-------------------------------------------------------------------------------
(* Addresses: two programs, one of which loads a library or moves. *)
TwoPrograms ==
    ("bin" :> {<<M(10, 14, "bin"), M(14, 16, "bin"), M(30, 34, "libc"), M(50, 52, "[stack]")>>,
               <<M(10, 14, "bin"), M(14, 16, "bin"), M(20, 24, "libm"), M(30, 34, "libc")>>,
               <<M(12, 16, "bin"), M(16, 18, "bin"), M(30, 34, "libc"), M(50, 52, "[stack]")>>})
      @@ ("other" :> {<<M(4, 8, "other"), M(40, 44, "libc")>>})

FileNames == ("lib" :> {"libc", "libm"}) @@ ("libc" :> {"libc"})
Symbol(n, l, h) == [name |-> n, low |-> l, high |-> h]
SymbolTables ==
    ("bin" :> <<<<Symbol("main", 1, 3)>>, <<Symbol("static", 3, 5)>>, << >>>>)
      @@ ("libc" :> <<<<Symbol("puts", 0, 2)>>, << >>, <<Symbol("hidden", 2, 4)>>>>)
      @@ ("other" :> <<<<Symbol("main", 5, 7)>>, << >>, << >>>>)

Q(kind, name, at, file) == [kind |-> kind, name |-> name, at |-> at, file |-> file]
Asked ==
    {Q("address", "none", 2, "hybrid"), Q("address", "none", 21, "hybrid"), Q("address", "none", 1, "lib"),
     Q("address", "none", 13, "binary"), Q("address", "none", 31, "absolute"), Q("symbol", "main", 0, "hybrid"),
     Q("symbol", "hidden", 1, "libc"), Q("name", "none", 14, "none"), Q("name", "none", 15, "none"), Q("name", "none", 51, "none"),
     Q("name", "none", 6, "none")}

ThreeLevels == {0, 3, 5}
AddressScenarios == {{}, {"early"}, {"another"}, {"exec"}, {"levels"}}

-------------------------------------------------------------------------------
(* Calls: main calls f and g, f calls g or itself. *)
I(op, n, to) == [op |-> op, size |-> n, to |-> to]
Program(callee, middle, call) ==
    (10 :> I("endbr", 4, 0)) @@ (14 :> I("push", 1, 0)) @@ (15 :> I("mov", 3, 0)) @@ (18 :> I("sub", 4, 0))
      @@ (22 :> I("call", 5, 40)) @@ (27 :> I("plain", 3, 0)) @@ (30 :> I(call, 5, 58))
      @@ (35 :> I("leave", 1, 0)) @@ (36 :> I("ret", 1, 0))
      @@ (40 :> I("push", 1, 0)) @@ (41 :> I("mov", 3, 0)) @@ (44 :> I("disp55", 3, 0))
      @@ (47 :> I("jcc", 2, 54)) @@ (49 :> I("call", 5, callee)) @@ (54 :> I(middle, 2, 0))
      @@ (56 :> I("leave", 1, 0)) @@ (57 :> I("ret", 1, 0))
      @@ (58 :> I("push", 1, 0)) @@ (59 :> I("mov", 3, 0)) @@ (62 :> I("plain", 4, 0))
      @@ (66 :> I("leave", 1, 0)) @@ (67 :> I("ret", 1, 0))
      @@ (80 :> I("end", 1, 0))

S(program, software, hardware, u) ==
    [code |-> program, software |-> software, hardware |-> hardware, uses |-> u]
Plain == Program(58, "plain", "call")
Recursive == Program(40, "plain", "call")
CallScenarios ==
    <<S(Plain, {}, {}, {}), S(Plain, {40, 47}, {35}, {}), S(Plain, {}, {}, {"anywhere"}),
     S(Recursive, {}, {}, {"recursive"}), S(Recursive, {41}, {57}, {"recursive"}),
     S(Program(58, "plain", "rexcall"), {}, {}, {"prefixed"}), S(Program(58, "rep", "call"), {}, {62}, {"rep"})>>

C == INSTANCE CallStack
        WITH Scenarios <- CallScenarios, Start <- 10, Outside <- 80, Addresses <- {35, 58, 80},
             Limits <- {-1, 0, 1, 3}, MaxStack <- 14

-------------------------------------------------------------------------------
(* A view that is not looked at stays in one of its initial states. *)
ViewsInit ==
    /\ view \in {"memory", "addresses", "calls"}
    /\ Init /\ AddressInit /\ C!Init
    /\ view # "addresses" => uses = {} /\ sym_lvl = 0 /\ exe = "other"
    /\ view # "calls" => scenario = 1

ViewsNext ==
    \/ view = "memory" /\ Next /\ UNCHANGED <<view, addressVars, callVars>>
    \/ view = "addresses" /\ AddressNext /\ UNCHANGED <<view, vars, callVars>>
    \/ view = "calls" /\ C!Next /\ UNCHANGED <<view, vars, addressVars>>

ViewsSpec == ViewsInit /\ [][ViewsNext]_<<view, vars, addressVars, callVars>>

(* The properties of CallStack, of the thread seen here. *)
FinishReturns == C!FinishReturns
UnwindExact == C!UnwindExact
StepsExact == C!StepsExact
================================================================================
