------------------------------- MODULE Slots -------------------------------
(***************************************************************************)
(* What the signup for key generation promises: a slot, that is a session   *)
(* and a number in it, is handed out at most once, and the numbers of a     *)
(* session are handed out in the order 1, 2, 3, ...                         *)
(***************************************************************************)
EXTENDS Integers

VARIABLES
    handed,     \* the slots handed out so far: <<session, number>>
    served      \* how many times a slot was handed out

Init ==
    /\ handed = {}
    /\ served = 0

HandOut(session, number) ==
    /\ session \in Nat /\ number \in Nat \ {0}
    /\ <<session, number>> \notin handed
    /\ number = 1 \/ <<session, number - 1>> \in handed
    /\ handed' = handed \cup {<<session, number>>}
    /\ served' = served + 1

\* The slot is named by what the step adds, so that TLC need not search Nat.
Next == \E s \in handed' : HandOut(s[1], s[2])

Spec == Init /\ [][Next]_<<handed, served>>
=============================================================================
