--------------------------- MODULE MCSignalForwarding ---------------------------
(* Two signals: on two threads with simple catchers, for what is forwarded; *)
(* on one thread with chains of hijacks, steps and callbacks.               *)
EXTENDS SignalForwarding, TLC

CONSTANTS int, usr1, t1, t2
TwoSignals == {int, usr1}
TwoThreads == {t1, t2}
ThreadSymmetry == Permutations(Threads)

Of(callbacks, rec) == [callback : callbacks, recursive : rec, enabled : {TRUE}]
StopOrChange == Of({NoCallback, usr1}, {FALSE})
Hijacking == Of(Signals \cup {NoCallback, NoSig}, BOOLEAN)

Scripted == {"block", "set"}
MCScenarios ==
    {[catchers |-> StopOrChange, uses |-> Scripted, threads |-> Threads]}
        \cup [catchers : {Hijacking}, uses : {AllUses \ Scripted}, threads : {{t} : t \in Threads}]
================================================================================
