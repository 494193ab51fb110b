---------------------------- MODULE MCSignupSign ----------------------------
(* Small instances of SignupSign: three processes, of which c is either a    *)
(* third party or the restart of a's party.                                  *)
EXTENDS SignupSignPrompt, TLC

CONSTANTS a, b, c

ThreeParties == [p \in {a, b, c} |-> CASE p = a -> 1 [] p = b -> 2 [] p = c -> 3]
RestartOfA   == [p \in {a, b, c} |-> CASE p = a -> 1 [] p = b -> 2 [] p = c -> 1]

OneOfAll   == [p \in {a, b, c} |-> 1]

\* The two processes of one party are alike, where they are given the same.
SameParty == Permutations({a, c})
=============================================================================
