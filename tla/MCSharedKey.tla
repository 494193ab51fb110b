---------------------------- MODULE MCSharedKey ----------------------------
(* A small field, a few polynomials and options, and hash functions that are *)
(* plain arithmetic.  Challenge is injective in the public key.              *)
EXTENDS SharedKey

MCHmac(code, key, index) ==
    [left  |-> 1 + ((3 * code + 2 * key + index) % (Q - 1)),
     right |-> 1 + ((code + key * index) % (Q - 1))]

MCChallenge(R, key) == (3 * R + key + 1) % Q

MCCoefficients == {<<1, 2, 1>>, <<2, 5, 3>>, <<3, 0, 2>>, <<6, 4, 1>>}
MCChainCodes == [p \in Party |-> p + 1]
MCEphemerals == {<<4, 1, 2>>}

Option(path, flag, env) == [path |-> path, flag |-> flag, env |-> env]
MCOptions ==
    {Option(<<>>, Absent, Absent),
     Option(<<1>>, Absent, Absent),
     Option(<<1, 2>>, Absent, Absent),
     Option(<<1, 2>>, 5, 3),
     Option(<<1, 2>>, Absent, 5),
     Option(<<1, 2>>, Empty, 5)}
=============================================================================
