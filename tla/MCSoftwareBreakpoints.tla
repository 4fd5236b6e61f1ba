------------------------- MODULE MCSoftwareBreakpoints -------------------------
(* Software breakpoints on a handful of addresses. *)
EXTENDS SoftwareBreakpoints

CONSTANTS t1, t2
TwoThreads == {t1, t2}
Three == {0, 1, 2}

(* A careful script, one with overlapping breakpoints, and scripts that    *)
(* do more, each of a kind.                                                *)
Scripts == {{"disable", "finish"}, {"overlap", "finish"}, {"write"},
            {"disable", "finish", "finish disabled"}, {"at ip", "finish stepping", "step_until"}}
===============================================================================
