------------------------------ MODULE MCRounds ------------------------------
(* Rounds with the schedules of the program, and a short schedule with both  *)
(* kinds of rounds for the runs in which parties die and entries expire.     *)
EXTENDS Rounds, Schedules

\* A key generation and a signing by the same parties, one after the other, in one
\* key space: in the program the two sessions have different identities.
EddsaKeygenAndSign == EddsaKeygen \o EddsaSign

Short == <<ToAll("round1"), ToAll("round2"), ToEach("round3")>>
ShortReveals == {<<"round1", "round2">>}
=============================================================================
