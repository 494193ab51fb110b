------------------------------- MODULE Shamir -------------------------------
(***************************************************************************)
(* Shamir sharing over the integers modulo a prime Q, and the derivation of *)
(* child keys of src/common/hd_keys.rs.  A point of the curve is given by   *)
(* its discrete logarithm: the generator is 1, adding points is adding, and *)
(* a point times a scalar is a product.  A polynomial is the sequence of    *)
(* its coefficients, and so are the commitments to it.                      *)
(***************************************************************************)
EXTENDS Integers, SequencesExt

CONSTANTS
    Q,              \* the order of the group, a small prime
    Hmac(_, _, _)   \* HMAC-SHA512 of a chain code, key and index, as its two halves

ASSUME FieldAssumption == Q \in Nat \ {0, 1} /\ \A d \in 2 .. Q - 1 : Q % d # 0

Field == 0 .. Q - 1

Reciprocal(x) == CHOOSE y \in Field : (x * y) % Q = 1

SumMod(f) == FoldFunction(+, 0, f) % Q

\* The value of a polynomial at x, or the commitment to it.
Eval(coeffs, x) == FoldRight(LAMBDA c, acc : (c + acc * x) % Q, coeffs, 0)

\* map_share_to_new_params: the Lagrange coefficient of i among the indices S.
Lagrange(i, S) ==
    FoldSet(LAMBDA j, acc : (acc * j * Reciprocal((j - i) % Q)) % Q, 1, S \ {i})

\* The secret that shares, given by index, have in common.
Recover(shares) == SumMod([i \in DOMAIN shares |-> Lagrange(i, DOMAIN shares) * shares[i]])

\* x_coord: the same for a point and its negative.
XCoord(point) == IF point > Q - point THEN Q - point ELSE point

\* One level of the derivation: the child key, the sum of the tweaks that led to
\* it from the root, and the chain code of the next level.
HdLevel(acc, index) ==
    LET f == Hmac(acc.code, acc.key, index)
    IN  [key   |-> (acc.key + f.left) % Q,
         tweak |-> (f.left + acc.tweak) % Q,
         code  |-> (acc.code * f.right) % Q]

\* hd_key; for the root, that is no path, the key itself and no tweak.
HdKey(key, path, code) ==
    FoldLeft(HdLevel, [key |-> key, tweak |-> 0, code |-> code], path)

=============================================================================
