--------------------------- MODULE MCKeygenSignup ---------------------------
(* Small instances of KeygenSignup.                                          *)
EXTENDS KeygenSignup

CONSTANTS a, b, c, d

TwoEach == [p \in Proc |-> 2]
Mixed   == [p \in Proc |-> IF p = c THEN 3 ELSE 2]
=============================================================================
