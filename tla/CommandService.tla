---------------------------- MODULE CommandService ----------------------------
(***************************************************************************)
(* What the two queues between the script and the polling thread promise:  *)
(* a server that completes the submitted commands one by one, in the order *)
(* of submission, and answers at most once for each.  An answer is that of *)
(* the command in service; until the client has taken it no other command  *)
(* is answered or completed, so an answer is never overwritten, reordered  *)
(* or mistaken for that of a later command.                                *)
(*                                                                         *)
(* The client and the server share nothing else.  How the server learns of *)
(* a command, and how the client waits, is left to the implementation.     *)
(***************************************************************************)
EXTENDS Sequences

CONSTANTS Command,    \* what can be submitted
          Value       \* what can be answered

VARIABLES pending,    \* submitted, not completed; the first one is in service
          answered,   \* the command in service has been answered
          answer      \* the answer that the client has not taken, if there is one

Init == pending = << >> /\ answered = FALSE /\ answer = << >>

Submit ==
    /\ \E c \in Command : pending' = Append(pending, c)
    /\ UNCHANGED <<answered, answer>>

Answer ==
    /\ pending # << >>
    /\ ~answered
    /\ answer = << >>
    /\ \E v \in Value : answer' = << [from |-> Head(pending), value |-> v] >>
    /\ answered' = TRUE
    /\ UNCHANGED pending

Complete ==
    /\ pending # << >>
    /\ answered \/ answer = << >>
    /\ pending' = Tail(pending)
    /\ answered' = FALSE
    /\ UNCHANGED answer

Take ==
    /\ answer # << >>
    /\ answer' = << >>
    /\ UNCHANGED <<pending, answered>>

Next == Submit \/ Answer \/ Complete \/ Take

Spec == Init /\ [][Next]_<<pending, answered, answer>>
===============================================================================
