--------------------------- MODULE MCSigningSession ---------------------------
(* Small instances of SigningSession: three processes, of which c is either  *)
(* a third party or the restart of a's party.                                *)
EXTENDS SigningSession, TLC

CONSTANTS a, b, c

ThreeParties == [p \in {a, b, c} |-> CASE p = a -> 1 [] p = b -> 2 [] p = c -> 3]
RestartOfA   == [p \in {a, b, c} |-> CASE p = a -> 1 [] p = b -> 2 [] p = c -> 1]

OneOfAll   == [p \in {a, b, c} |-> 1]
TwoOfAll   == [p \in {a, b, c} |-> 2]
TwoOfC     == [p \in {a, b, c} |-> IF p = c THEN 2 ELSE 1]

\* The two processes of one party are alike, where they are given the same.
SameParty == Permutations({a, c})
=============================================================================
