------------------------------ MODULE LockStep ------------------------------
(***************************************************************************)
(* What the message rounds promise: N parties go through Rounds rounds in   *)
(* lock step.  In every round a party hands its message to all the others,  *)
(* and it completes the round only with a message of each of them.          *)
(*                                                                          *)
(* The specification says nothing of keys, polls, timeouts or of parties    *)
(* that stop; module Rounds implements it.                                  *)
(***************************************************************************)
EXTENDS Integers

CONSTANTS N, Rounds

VARIABLES
    stage,      \* how many rounds a party has completed
    handed      \* how many messages a party has handed to each other party

Party == 1 .. N
Others(p) == Party \ {p}

Init ==
    /\ stage = [p \in Party |-> 0]
    /\ handed = [p \in Party |-> [q \in Party |-> 0]]

\* p hands its message of the round it is in to the parties of S.
Hand(p, S) ==
    /\ stage[p] < Rounds
    /\ \A q \in S : handed[p][q] = stage[p]
    /\ handed' = [handed EXCEPT ![p] =
                    [q \in Party |-> IF q \in S THEN stage[p] + 1 ELSE handed[p][q]]]
    /\ UNCHANGED stage

Complete(p) ==
    /\ stage[p] < Rounds
    /\ \A q \in Others(p) : handed[p][q] > stage[p] /\ handed[q][p] > stage[p]
    /\ stage' = [stage EXCEPT ![p] = @ + 1]
    /\ UNCHANGED handed

Next ==
    \E p \in Party :
        \/ \E S \in SUBSET Others(p) : Hand(p, S)
        \/ Complete(p)

Spec == Init /\ [][Next]_<<stage, handed>>

=============================================================================
