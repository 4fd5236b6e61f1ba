------------------------- MODULE MCHardwareBreakpoints -------------------------
(* Two debug registers, two threads, and four breakpoints: b1 executes, b2 *)
(* and b3 watch, b3 the byte before b1, and b4 watches where b1 is and is  *)
(* refused.                                                                *)
EXTENDS HardwareBreakpoints, TLC

CONSTANTS b1, b2, b3, b4, t1, t2
FourBps == {b1, b2, b3, b4}
Places == b1 :> 2 @@ b2 :> 9 @@ b3 :> 1 @@ b4 :> 2
OnlyB1 == {b1}
OnlyB4 == {b4}
TwoThreads == {t1, t2}
Around == 2..4

(* A careful script, and scripts that do more, each of a kind. *)
Scripts == {{"detach"}, {"detach", "together"}, {"again"}, {"limit"}, {"swap"}, {"clone disabled"},
            {"detach", "pending"}, {"other trap"}, {"refused"}, {"refused", "same"}}

(* Traps where another breakpoint is. *)
BesideScripts == {{"beside"}}
================================================================================
