----------------------------- MODULE Cosigning -----------------------------
(***************************************************************************)
(* What a signing promises, and no more.  A process that wants to sign      *)
(* takes a seat: a session, and a number in it, which nobody else has there *)
(* and which is the only one there for its fragment of the key.  Once it    *)
(* knows who has the numbers of its session, it offers to sign with them,   *)
(* and it signs when all of those have made the same offer.                 *)
(*                                                                          *)
(* There is no room, manager, message or time in this specification, and    *)
(* nothing of the reasons for which a process may go no further; module     *)
(* SigningSession implements it.                                            *)
(***************************************************************************)
EXTENDS Integers, Sequences

CONSTANTS
    Proc,
    Fragment,   \* the index of the fragment of the key that a process holds
    Enough      \* signers must be more than these

VARIABLES
    seat,       \* the session and the number of a process
    offer,      \* the fragments with which a process offers to sign, by number
    signed      \* who has a signature

NoSeat == [session |-> 0, number |-> 0]
Seats  == [session : Nat, number : Nat \ {0}]

Init ==
    /\ seat = [p \in Proc |-> NoSeat]
    /\ offer = [p \in Proc |-> <<>>]
    /\ signed = {}

\* p takes a seat.
Sit(p) ==
    /\ seat[p] = NoSeat
    /\ seat'[p] \in Seats
    /\ \A q \in Proc \ {p} :
          seat[q] # NoSeat /\ seat[q].session = seat'[p].session =>
              seat[q].number # seat'[p].number /\ Fragment[q] # Fragment[p]
    /\ seat' = [seat EXCEPT ![p] = seat'[p]]
    /\ UNCHANGED <<offer, signed>>

\* q has number j in the session of p.
HasNumber(q, p, j) == seat[q] = [session |-> seat[p].session, number |-> j]

\* p offers to sign with whoever has the numbers of its session, itself among them.
Offer(p) ==
    /\ seat[p] # NoSeat
    /\ offer[p] = <<>>
    /\ offer'[p] \in Seq(Nat)
    /\ seat[p].number \in DOMAIN offer'[p]
    /\ \A j \in DOMAIN offer'[p] :
          \E q \in Proc : HasNumber(q, p, j) /\ Fragment[q] = offer'[p][j]
    /\ offer' = [offer EXCEPT ![p] = offer'[p]]
    /\ UNCHANGED <<seat, signed>>

\* p signs: these are enough, and all of them have offered just that.
Sign(p) ==
    /\ p \notin signed
    /\ Len(offer[p]) > Enough
    /\ \A j \in DOMAIN offer[p] :
          \E q \in Proc : HasNumber(q, p, j) /\ offer[q] = offer[p]
    /\ signed' = signed \cup {p}
    /\ UNCHANGED <<seat, offer>>

Next == \E p \in Proc : Sit(p) \/ Offer(p) \/ Sign(p)

Spec == Init /\ [][Next]_<<seat, offer, signed>>

=============================================================================
