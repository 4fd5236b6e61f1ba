--------------------------- MODULE MCThreadRegistry ---------------------------
(* ThreadRegistry with three threads. *)
EXTENDS ThreadRegistry, TLC

CONSTANTS m, a, b
MCThreads == {m, a, b}
MCScenarios == {{}, {"leader"}, {"exits"}, {"exits", "sudden"}, {"step"}, {"change"}, {"exits", "step"},
                {"step", "change"}, {"leader", "exits", "step", "change"}, {"until"},
                {"gdb"}, {"gdb", "gdb threads"}, {"gdb", "gdb runs"}}
MCSymmetry == Permutations({a, b})
===============================================================================
