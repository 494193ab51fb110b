--------------------------- MODULE SharedKeyProofs ---------------------------
(***************************************************************************)
(* Proofs about SharedKey, for any number of parties, thresholds,           *)
(* polynomials, failures and prime field.  Key generation: who can stop,    *)
(* what everybody has got to when somebody has a key file, and what the     *)
(* shares in the files recover.  Signing: who rejects whose contribution,   *)
(* and what the signature verifies under.                                   *)
(* What they need of sums, polynomials and Lagrange coefficients is in      *)
(* ShamirProofs.                                                            *)
(***************************************************************************)
EXTENDS SharedKey, ShamirProofs, SequenceTheorems

\* The secrets are elements of the field, and nobody draws another.
PolyInv == curve \in {"ECDSA", "EdDSA"} /\ \A p \in Party : poly[p][1] \in Field

\* A box is what its sender made for its receiver.
BoxInv == \A b \in boxes : /\ b.from \in Party /\ b.to \in Party /\ b.from # b.to
                           /\ b = Box(b.from, b.to)

\* Who has posted its commitments has the shares that the polynomials give it, and
\* keeps them whatever becomes of it.
SharesInv ==
    \A p \in Party : "round4" \in posted[p] =>
        \A i \in Party : shares[p][i] = Eval(poly[i], p)

Stages == {"opened keys", "dealt", "opened shares", "proven", "key file", "old file",
           "stopped", "failed"}
Broadcasts == {"round2", "round4", "round5"}

\* The broadcasts are posted in their order, and none by who has an old file.
PostedInv ==
    \A p \in Party :
        /\ "round5" \in posted[p] => "round4" \in posted[p]
        /\ stage[p] \in {"opened shares", "proven"} => "round4" \in posted[p]
        /\ stage[p] = "old file" => posted[p] = {}

\* Who has a key file, and did not convert an old one, has seen all the proofs.
WrittenInv ==
    \A p \in Party : stage[p] = "key file" /\ posted[p] # {} =>
        \A r \in Party : "round5" \in posted[r]

StagesOK ==
    /\ stage \in [Party -> Stages] /\ posted \in [Party -> SUBSET Broadcasts]
    /\ PostedInv /\ WrittenInv /\ OnlyShortKeysStop

IInv ==
    /\ PolyInv /\ BoxInv /\ SharesInv /\ StagesOK
    /\ DOMAIN shares = Party

LEMMA Sizes == N \in Nat /\ Q \in Nat \ {0} /\ N >= 2
  BY SharedKeyAssumption, FieldAssumption

-----------------------------------------------------------------------------
\* Counting the others without itself, p finds at the place of i the key shared
\* with i.
LEMMA KeyAtCounter ==
    ASSUME NEW p \in Party, NEW i \in Party, i # p
    PROVE  EncKeys(p)[Counter(p, i)] = KeyBytes(SharedCoord(p, i))
<1>1. /\ Counter(p, i) \in 1 .. N - 1
      /\ (IF Counter(p, i) < p THEN Counter(p, i) ELSE Counter(p, i) + 1) = i
  BY Sizes DEF Counter, Party
<1> QED
  BY <1>1 DEF EncKeys

LEMMA Commutes == ASSUME NEW a \in Int, NEW b \in Int PROVE a * b = b * a
  OBVIOUS

\* Both ends of a share compute the same key.
LEMMA SameKey ==
    ASSUME PolyInv, NEW p \in Party, NEW i \in Party, i # p
    PROVE  EncKeys(p)[Counter(p, i)] = EncKeys(i)[Counter(i, p)]
<1>1. poly[p][1] \in Int /\ poly[i][1] \in Int
  BY Sizes DEF PolyInv, Field
<1>2. poly[i][1] * poly[p][1] = poly[p][1] * poly[i][1]
  BY <1>1, Commutes
<1>3. SharedCoord(p, i) = SharedCoord(i, p)
  BY <1>2 DEF SharedCoord
<1> QED
  BY <1>3, KeyAtCounter

\* The fields of a box.
LEMMA BoxFields ==
    ASSUME NEW p, NEW i
    PROVE  /\ Box(p, i).from = p /\ Box(p, i).to = i
           /\ Box(p, i).key = EncKeys(p)[Counter(p, i)]
           /\ Box(p, i).plaintext = SecretShare(p, i)
  BY DEF Box

LEMMA InitIInv == Init => IInv
<1> SUFFICES ASSUME Init PROVE IInv
  OBVIOUS
<1>1. PICK t \in Degrees : poly \in [Party -> {SubSeq(c, 1, t + 1) : c \in Coefficients}]
  BY DEF Init
<1>2. t \in Nat
  BY SharedKeyAssumption, Sizes
<1>3. ASSUME NEW c \in Coefficients PROVE SubSeq(c, 1, t + 1)[1] \in Field
  <2>1. c \in Seq(Field) /\ t < Len(c) /\ Len(c) \in Nat
    BY SharedKeyAssumption
  <2>2. c[1] \in Field
    BY <1>2, <2>1
  <2>3. SubSeq(c, 1, t + 1)[1] = c[1]
    BY <1>2, <2>1, SubSeqProperties
  <2> QED
    BY <2>2, <2>3
<1>4. PolyInv
  BY <1>1, <1>3 DEF Init, PolyInv
<1>5. PICK s \in {"opened keys", "old file"} : stage = [p \in Party |-> s]
  BY DEF Init
<1>6. boxes = {} /\ shares = [p \in Party |-> <<>>]
  BY DEF Init
<1>7. posted = [p \in Party |-> IF s = "opened keys" THEN {"round2"} ELSE {}]
  BY <1>5 DEF Init
<1>8. StagesOK
  BY <1>5, <1>7 DEF StagesOK, PostedInv, WrittenInv, OnlyShortKeysStop, Stages, Broadcasts
<1> QED
  BY <1>4, <1>6, <1>7, <1>8 DEF IInv, BoxInv, SharesInv

-----------------------------------------------------------------------------
(***************************************************************************)
(* The steps of the key generation.                                         *)
(***************************************************************************)

\* What a step of p changes of the stages and of what is posted, if p does not stop or
\* has a short key.
LEMMA StageStep ==
    ASSUME IInv, NEW p \in Party, NEW s \in Stages, NEW P \in SUBSET Broadcasts,
           UNCHANGED <<curve, poly>>,
           stage' = [stage EXCEPT ![p] = s], posted' = [posted EXCEPT ![p] = P],
           posted[p] \subseteq P, "round5" \in P => "round4" \in P,
           s \in {"opened shares", "proven"} => "round4" \in P,
           s = "stopped" => curve = "ECDSA" /\ \E i \in Party \ {p} : SharedCoord(p, i) \in ShortCoords,
           s = "key file" => P = {} \/ \A r \in Party : "round5" \in posted[r],
           s # "old file"
    PROVE  PolyInv' /\ StagesOK'
<1>1. /\ stage \in [Party -> Stages] /\ stage'[p] = s
      /\ \A r \in Party : r # p => stage'[r] = stage[r]
  BY DEF IInv, StagesOK
<1>2. /\ posted \in [Party -> SUBSET Broadcasts] /\ posted'[p] = P
      /\ \A r \in Party : r # p => posted'[r] = posted[r]
  BY DEF IInv, StagesOK
<1>3. PolyInv' /\ stage' \in [Party -> Stages] /\ posted' \in [Party -> SUBSET Broadcasts]
  BY <1>1, <1>2 DEF IInv, PolyInv
<1>4. OnlyShortKeysStop'
  BY <1>1 DEF IInv, StagesOK, OnlyShortKeysStop, SharedCoord
<1>5. PostedInv'
  BY <1>1, <1>2 DEF IInv, StagesOK, PostedInv
<1>6. \A r \in Party : "round5" \in posted[r] => "round5" \in posted'[r]
  BY <1>2
<1>7. WrittenInv'
  <2> SUFFICES ASSUME NEW q \in Party, stage'[q] = "key file", posted'[q] # {}, NEW r \in Party
               PROVE  "round5" \in posted'[r]
    BY DEF WrittenInv
  <2>1. "round5" \in posted[r]
    BY <1>1, <1>2 DEF IInv, StagesOK, WrittenInv
  <2> QED
    BY <1>6, <2>1
<1> QED
  BY <1>3, <1>4, <1>5, <1>7 DEF StagesOK

\* A step of p that posts shares or none.
LEMMA BoxesDealt ==
    ASSUME BoxInv, NEW p \in Party, UNCHANGED <<curve, poly>>,
           \A b \in boxes' : b \in boxes \/ \E i \in Party \ {p} : b = Box(p, i)
    PROVE  BoxInv'
<1> SUFFICES ASSUME NEW b \in boxes'
             PROVE  b.from \in Party /\ b.to \in Party /\ b.from # b.to
                    /\ b = Box(b.from, b.to)'
  BY DEF BoxInv
<1>1. \A f, t : Box(f, t)' = Box(f, t)
  BY DEF Box, EncKeys, Counter, SecretShare, KeyBytes, SharedCoord
<1>2. b.from \in Party /\ b.to \in Party /\ b.from # b.to /\ b = Box(b.from, b.to)
  <2>1. CASE b \in boxes
    BY <2>1 DEF BoxInv
  <2>2. ASSUME NEW i \in Party \ {p}, b = Box(p, i)
        PROVE  b.from \in Party /\ b.to \in Party /\ b.from # b.to /\ b = Box(b.from, b.to)
    BY <2>2, BoxFields
  <2> QED
    BY <2>1, <2>2
<1> QED
  BY <1>1, <1>2

\* The steps that open nothing.
LEMMA SharesStay ==
    ASSUME IInv, UNCHANGED <<poly, shares>>,
           \A r \in Party : "round4" \in posted'[r] => "round4" \in posted[r]
    PROVE  SharesInv' /\ DOMAIN shares' = Party
<1>1. ASSUME NEW r \in Party, "round4" \in posted'[r], NEW i \in Party
      PROVE  shares'[r][i] = Eval(poly'[i], r)
  BY <1>1 DEF IInv, SharesInv
<1> QED
  BY <1>1 DEF IInv, SharesInv

LEMMA DealStep ==
    ASSUME IInv, NEW p \in Party, DealShares(p), UNCHANGED curve
    PROVE  IInv'
<1> DEFINE s == IF Unreachable(p) = {} THEN "dealt" ELSE "stopped"
<1>1. /\ stage[p] = "opened keys" /\ stage' = [stage EXCEPT ![p] = s]
      /\ UNCHANGED <<poly, posted, shares, file>>
      /\ \A b \in boxes' : b \in boxes \/ \E i \in Party \ {p} : b = Box(p, i)
  BY DEF DealShares, Reachable
<1>2. s = "stopped" => curve = "ECDSA" /\ \E i \in Party \ {p} : SharedCoord(p, i) \in ShortCoords
  <2> SUFFICES ASSUME NEW i \in Party \ {p}, ~ FitsKey(Box(p, i).key)
               PROVE  curve = "ECDSA" /\ SharedCoord(p, i) \in ShortCoords
    BY DEF Unreachable
  <2>1. Box(p, i).key = KeyBytes(SharedCoord(p, i))
    BY BoxFields, KeyAtCounter
  <2> QED
    BY <2>1 DEF FitsKey, KeyBytes
<1>3. PolyInv' /\ StagesOK'
  <2>1. s \in Stages /\ s \notin {"opened shares", "proven", "key file", "old file"}
    BY DEF Stages
  <2>2. posted' = [posted EXCEPT ![p] = posted[p]] /\ posted[p] \in SUBSET Broadcasts
        /\ ("round5" \in posted[p] => "round4" \in posted[p])
    BY <1>1 DEF IInv, StagesOK, PostedInv
  <2> HIDE DEF s
  <2> QED
    BY <1>1, <1>2, <2>1, <2>2, StageStep
<1>4. BoxInv' /\ SharesInv' /\ DOMAIN shares' = Party
  BY <1>1, BoxesDealt, SharesStay DEF IInv
<1> QED
  BY <1>3, <1>4 DEF IInv

\* Every share is decrypted, and is what its sender's polynomial gives.
LEMMA OpenStep ==
    ASSUME IInv, NEW p \in Party, OpenShares(p), UNCHANGED curve
    PROVE  IInv' /\ shares' = [shares EXCEPT ![p] = [i \in Party |-> Eval(poly[i], p)]]
           /\ stage' = [stage EXCEPT ![p] = "opened shares"]
<1>1. ASSUME NEW i \in Party \ {p}, NEW b \in BoxesFrom(p, i)
      PROVE  b.key = EncKeys(p)[Counter(p, i)] /\ b.plaintext = SecretShare(i, p)
  <2>1. b = Box(i, p)
    BY DEF BoxesFrom, IInv, BoxInv
  <2> QED
    BY <2>1, BoxFields, SameKey DEF IInv
<1>2. \A i \in Party \ {p} : Decrypts(p, i)
  BY <1>1 DEF Decrypts
<1>3. /\ stage[p] = "dealt" /\ stage' = [stage EXCEPT ![p] = "opened shares"]
      /\ UNCHANGED <<poly, boxes, file>>
      /\ \A i \in Party \ {p} : BoxesFrom(p, i) # {}
      /\ shares' = [shares EXCEPT ![p] = PartyShares(p)]
      /\ posted' = [posted EXCEPT ![p] = posted[p] \cup {"round4"}]
  BY <1>2 DEF OpenShares
<1>4. \A i \in Party \ {p} : Decrypted(p, i) = SecretShare(i, p)
  BY <1>1, <1>3 DEF Decrypted
<1>5. PartyShares(p) = [i \in Party |-> Eval(poly[i], p)]
  BY <1>4 DEF PartyShares, SecretShare
<1>6. SharesInv' /\ DOMAIN shares' = Party
  <2>1. \A i \in Party : shares'[p][i] = Eval(poly[i], p)
    BY <1>3, <1>5 DEF IInv
  <2>2. \A r \in Party : r # p => shares'[r] = shares[r] /\ posted'[r] = posted[r]
    BY <1>3 DEF IInv, StagesOK
  <2>3. DOMAIN shares' = Party
    BY <1>3 DEF IInv
  <2>4. ASSUME NEW r \in Party, "round4" \in posted'[r]
        PROVE  \A i \in Party : shares'[r][i] = Eval(poly'[i], r)
    <3>1. CASE r = p
      BY <1>3, <2>1, <3>1
    <3>2. CASE r # p
      BY <1>3, <2>2, <2>4, <3>2 DEF IInv, SharesInv
    <3> QED
      BY <3>1, <3>2
  <2>5. SharesInv'
    BY <2>4 DEF SharesInv
  <2> QED
    BY <2>3, <2>5
<1>7. PolyInv' /\ StagesOK'
  <2>1. posted[p] \cup {"round4"} \in SUBSET Broadcasts
    BY DEF IInv, StagesOK, Broadcasts
  <2> QED
    BY <1>3, <2>1, StageStep DEF Stages
<1>8. BoxInv'
  BY <1>3, BoxesDealt DEF IInv
<1> QED
  BY <1>3, <1>5, <1>6, <1>7, <1>8 DEF IInv

\* The shares agree with the commitments.
LEMMA CheckStep ==
    ASSUME IInv, NEW p \in Party, CheckShares(p), UNCHANGED curve
    PROVE  IInv' /\ stage' = [stage EXCEPT ![p] = "proven"]
<1>1. /\ stage[p] = "opened shares" /\ "round4" \in posted[p]
      /\ \A i \in Party : shares[p][i] = Eval(poly[i], p)
  BY DEF CheckShares, IInv, StagesOK, PostedInv, SharesInv
<1>2. /\ UNCHANGED <<poly, boxes, shares, file>>
      /\ stage' = [stage EXCEPT ![p] = "proven"]
      /\ posted' = [posted EXCEPT ![p] = posted[p] \cup {"round5"}]
  BY <1>1 DEF CheckShares
<1>3. PolyInv' /\ StagesOK'
  <2>1. posted[p] \cup {"round5"} \in SUBSET Broadcasts
    BY DEF IInv, StagesOK, Broadcasts
  <2> QED
    BY <1>1, <1>2, <2>1, StageStep DEF Stages
<1>4. \A r \in Party : "round4" \in posted'[r] => "round4" \in posted[r]
  BY <1>1, <1>2 DEF IInv, StagesOK
<1>5. BoxInv' /\ SharesInv' /\ DOMAIN shares' = Party
  BY <1>2, <1>4, BoxesDealt, SharesStay DEF IInv
<1> QED
  BY <1>2, <1>3, <1>5 DEF IInv

LEMMA WriteStep ==
    ASSUME IInv, NEW p \in Party, WriteFile(p) \/ Convert(p), UNCHANGED curve
    PROVE  IInv'
<1>1. /\ UNCHANGED <<poly, posted, boxes, shares>>
      /\ stage' = [stage EXCEPT ![p] = "key file"]
      /\ posted[p] = {} \/ \A r \in Party : "round5" \in posted[r]
  BY DEF WriteFile, Convert, AllPosted, IInv, StagesOK, PostedInv
<1>2. posted' = [posted EXCEPT ![p] = posted[p]] /\ posted[p] \in SUBSET Broadcasts
      /\ ("round5" \in posted[p] => "round4" \in posted[p])
  BY <1>1 DEF IInv, StagesOK, PostedInv
<1>3. PolyInv' /\ StagesOK'
  BY <1>1, <1>2, StageStep DEF Stages
<1>4. BoxInv' /\ SharesInv' /\ DOMAIN shares' = Party
  BY <1>1, BoxesDealt, SharesStay DEF IInv
<1> QED
  BY <1>3, <1>4 DEF IInv

\* Whoever fails leaves what it has posted, and it has decrypted nothing since.
LEMMA FailStep ==
    ASSUME IInv, NEW p \in Party, Fail(p)
    PROVE  IInv'
<1>1. /\ UNCHANGED <<curve, poly, posted, shares>>
      /\ stage' = [stage EXCEPT ![p] = "failed"]
      /\ \A b \in boxes' : b \in boxes \/ \E i \in Party \ {p} : b = Box(p, i)
  BY DEF Fail, Reachable
<1>2. posted' = [posted EXCEPT ![p] = posted[p]] /\ posted[p] \in SUBSET Broadcasts
      /\ ("round5" \in posted[p] => "round4" \in posted[p])
  BY <1>1 DEF IInv, StagesOK, PostedInv
<1>3. PolyInv' /\ StagesOK'
  BY <1>1, <1>2, StageStep DEF Stages
<1>4. BoxInv' /\ SharesInv' /\ DOMAIN shares' = Party
  BY <1>1, BoxesDealt, SharesStay DEF IInv
<1> QED
  BY <1>3, <1>4 DEF IInv

LEMMA NextIInv ==
    ASSUME IInv, [Next]_allVars
    PROVE  IInv'
<1>1. ASSUME NEW p \in Party, KeygenStep(p) PROVE IInv'
  BY <1>1, DealStep, OpenStep, CheckStep, WriteStep DEF KeygenStep
<1>2. ASSUME UNCHANGED <<curve, keygenVars>> PROVE IInv'
  <2>1. UNCHANGED <<curve, poly, stage, posted, boxes, shares>>
    BY <1>2 DEF keygenVars
  <2>2. 1 \in Party
    BY Sizes DEF Party
  <2>3. BoxInv'
    BY <2>1, <2>2, BoxesDealt DEF IInv
  <2>4. SharesInv' /\ DOMAIN shares' = Party
    BY <2>1, SharesStay DEF IInv
  <2> QED
    BY <2>1, <2>3, <2>4 DEF IInv, PolyInv, StagesOK, PostedInv, WrittenInv, OnlyShortKeysStop, SharedCoord
<1> QED
  BY <1>1, <1>2, FailStep DEF Next, StartSigning, CheckContributions, FinishSigning, allVars

-----------------------------------------------------------------------------
\* The strengthened invariant holds in every reachable state.
THEOREM KeygenInvariance == Spec => []IInv
  BY InitIInv, NextIInv, PTL DEF Spec

\* Key generation stops over a short key of ECDSA and over nothing else: the sender
\* and the receiver of a share compute the same key for it, wherever the two stand
\* among the parties, and what is decrypted agrees with the commitments.
THEOREM ShortKeysOnly == Spec => []OnlyShortKeysStop
<1>1. IInv => OnlyShortKeysStop
  BY DEF IInv, StagesOK
<1> QED
  BY <1>1, KeygenInvariance, PTL

-----------------------------------------------------------------------------
(***************************************************************************)
(* What the shares add up to.                                               *)
(***************************************************************************)

\* The polynomials are of the degree of the key.
PolyOK ==
    /\ DOMAIN poly = Party
    /\ \A p \in Party : poly[p] \in Seq(Field) /\ Len(poly[p]) = Degree + 1
    /\ Degree \in Degrees /\ Degree \in 1 .. N - 1
    /\ IsGeneric

LEMMA AsSequence ==
    ASSUME NEW n \in Nat, NEW S, NEW s \in [1 .. n -> S]
    PROVE  s \in Seq(S) /\ Len(s) = n
  OBVIOUS

LEMMA FieldType == Field \subseteq Int /\ 0 \in Field /\ 1 \in Field
  BY Sizes, PrimeType DEF Field

LEMMA FieldSequence == ASSUME NEW s \in Seq(Field) PROVE IsPoly(s)
<1>1. Len(s) \in Nat /\ s \in [1 .. Len(s) -> Field]
  BY LenProperties
<1>2. s \in [1 .. Len(s) -> Int]
  BY <1>1, FieldType
<1> QED
  BY <1>1, <1>2, AsSequence DEF IsPoly

LEMMA PartyType ==
    /\ Party \subseteq Points /\ IsFiniteSet(Party) /\ Cardinality(Party) = N
    /\ Party \subseteq Int /\ Party # {} /\ 1 \in Party /\ N \in Nat
<1>1. Party \subseteq Points
  BY SharedKeyAssumption, PrimeType DEF Party, Points
<1>2. IsFiniteSet(Party) /\ Cardinality(Party) = N
  BY Sizes, FS_Interval DEF Party
<1> QED
  BY <1>1, <1>2, Sizes DEF Party

LEMMA SumModCong ==
    ASSUME NEW f, IsFiniteSet(DOMAIN f), \A i \in DOMAIN f : f[i] \in Int
    PROVE  SumMod(f) \in Field /\ Cong(SumMod(f), SumOver(f, DOMAIN f)) /\ SumOver(f, DOMAIN f) \in Int
<1>1. SumOver(f, DOMAIN f) \in Int
  BY SumTyped
<1> QED
  BY <1>1, SumModIs, ModField

\* A field element is the sum that it is equal to modulo Q.
LEMMA SumModEqual ==
    ASSUME NEW f, IsFiniteSet(DOMAIN f), \A i \in DOMAIN f : f[i] \in Int,
           NEW y \in Field, Cong(y, SumOver(f, DOMAIN f))
    PROVE  y = SumMod(f)
<1>1. SumMod(f) \in Field /\ Cong(SumMod(f), SumOver(f, DOMAIN f)) /\ SumOver(f, DOMAIN f) \in Int
  BY SumModCong
<1>2. y \in Int /\ SumMod(f) \in Int
  BY <1>1, FieldType
<1>3. Cong(y, SumMod(f))
  BY <1>1, <1>2, CongSym, CongTrans
<1> QED
  BY <1>1, <1>3, CongField

LEMMA PolyType ==
    ASSUME PolyOK, NEW p \in Party
    PROVE  /\ IsPoly(poly[p]) /\ poly[p] # <<>> /\ Degree \in Nat /\ Len(poly[p]) = Degree + 1
           /\ \A k \in 1 .. Degree + 1 : poly[p][k] \in Field
           /\ \A x \in Int : Eval(poly[p], x) \in Field /\ Eval(poly[p], x) = EvalFrom(poly[p], x, 1)
<1>1. poly[p] \in Seq(Field) /\ Len(poly[p]) = Degree + 1 /\ Degree \in Nat
  BY Sizes DEF PolyOK
<1>2. IsPoly(poly[p])
  BY <1>1, FieldSequence
<1>3. 1 \in 1 .. Len(poly[p]) + 1
  BY <1>1
<1>4. poly[p] # <<>>
  BY <1>1
<1>5. \A k \in 1 .. Degree + 1 : poly[p][k] \in Field
  BY <1>1
<1>6. \A x \in Int : Eval(poly[p], x) \in Field /\ Eval(poly[p], x) = EvalFrom(poly[p], x, 1)
  BY <1>2, <1>3, EvalIs, EvalTyped
<1> QED
  BY <1>1, <1>2, <1>4, <1>5, <1>6

\* The sum of the polynomials is one, its values are the sums of theirs, and its
\* value at zero is the discrete logarithm of the public key.
LEMMA SumPolyIs ==
    ASSUME PolyOK
    PROVE  /\ IsPoly(SumPoly) /\ SumPoly # <<>> /\ Len(SumPoly) = Degree + 1
           /\ \A x \in Int : /\ Eval(SumPoly, x) \in Field
                             /\ Eval(SumPoly, x) = EvalFrom(SumPoly, x, 1)
                             /\ Eval(SumPoly, x) = SumMod([p \in Party |-> Eval(poly[p], x)])
           /\ YSum = Eval(SumPoly, 0) /\ YSum = SumPoly[1] /\ YSum \in Field
           /\ SumPoly[Degree + 1] \in Field
<1> DEFINE n == Degree + 1
           at(k) == [p \in Party |-> poly[p][k]]
<1>1. n \in Nat /\ n >= 1 /\ Degree \in Nat
  BY Sizes DEF PolyOK
<1>2. DOMAIN poly[1] = 1 .. n
  BY <1>1, PartyType, PolyType DEF IsPoly
<1>3. SumPoly = [k \in 1 .. n |-> SumMod(at(k))]
  BY <1>2 DEF SumPoly
<1>4. ASSUME NEW k \in 1 .. n
      PROVE  /\ SumMod(at(k)) \in Field
             /\ Cong(SumMod(at(k)), SumOver(at(k), Party))
  <2> DEFINE f == at(k)
  <2>1. DOMAIN f = Party /\ \A i \in Party : f[i] \in Int
    BY PolyType, FieldType
  <2> HIDE DEF f
  <2>2. SumMod(f) \in Field /\ Cong(SumMod(f), SumOver(f, Party))
    BY <2>1, SumModCong, PartyType
  <2> QED
    BY <2>2 DEF f
<1>5. SumPoly \in Seq(Field) /\ Len(SumPoly) = n
  <2>1. SumPoly \in [1 .. n -> Field]
    <3> HIDE DEF at, n
    <3> QED
      BY <1>3, <1>4
  <2> HIDE DEF n
  <2> QED
    BY <1>1, <2>1, AsSequence
<1>6. IsPoly(SumPoly) /\ SumPoly # <<>>
  <2> HIDE DEF n
  <2> QED
    BY <1>1, <1>5, FieldSequence
<1> DEFINE c == SumPoly
<1>7. /\ IsPoly(c) /\ Len(c) = n /\ 1 \in 1 .. n /\ n \in 1 .. n
      /\ \A k \in 1 .. n : /\ c[k] = SumMod(at(k)) /\ c[k] \in Field
                           /\ Cong(c[k], SumOver(at(k), Party))
  <2> HIDE DEF at
  <2> QED
    BY <1>1, <1>3, <1>4, <1>5, <1>6
<1> HIDE DEF c
<1>8. ASSUME NEW x \in Int
      PROVE  /\ Eval(c, x) \in Field
             /\ Eval(c, x) = EvalFrom(c, x, 1)
             /\ Eval(c, x) = SumMod([p \in Party |-> Eval(poly[p], x)])
  <2> DEFINE f == [p \in Party |-> Eval(poly[p], x)]
             e == [p \in Party |-> EvalFrom(poly[p], x, 1)]
  <2>1. 1 \in 1 .. Len(c) + 1
    BY <1>1, <1>7
  <2>2. Eval(c, x) = EvalFrom(c, x, 1) /\ Eval(c, x) \in Field
    BY <1>7, <2>1, EvalIs, EvalTyped
  <2>3. Cong(EvalFrom(c, x, 1), SumOver(e, Party))
    <3>1. \A p \in Party : IsPoly(poly[p]) /\ Len(poly[p]) = Len(c)
      BY <1>7, PolyType
    <3>2. \A k \in 1 .. Len(c) : Cong(c[k], SumOver([p \in Party |-> poly[p][k]], Party))
      BY <1>7
    <3> QED
      BY <1>7, <2>1, <3>1, <3>2, PartyType, EvalSum
  <2>4. f = e /\ DOMAIN f = Party /\ \A p \in Party : f[p] \in Int
    BY PolyType, FieldType
  <2> HIDE DEF f, e
  <2>5. Eval(c, x) = SumMod(f)
    BY <2>2, <2>3, <2>4, PartyType, SumModEqual
  <2> QED
    BY <2>2, <2>5 DEF f
<1>9. YSum = c[1] /\ YSum \in Field
  BY <1>1, <1>7 DEF YSum
<1>10. c[1] = Eval(c, 0)
  <2>1. 1 \in 1 .. Len(c) /\ c[1] \in Field
    BY <1>7
  <2>2. Cong(EvalFrom(c, 0, 1), c[1]) /\ 0 \in Int
    BY <1>7, <2>1, EvalAtZero
  <2>3. Eval(c, 0) \in Field /\ Cong(Eval(c, 0), c[1])
    BY <1>8, <2>2
  <2> QED
    BY <2>1, <2>3, CongField
<1>11. c[n] \in Field
  BY <1>7
<1> QED
  BY <1>6, <1>7, <1>8, <1>9, <1>10, <1>11 DEF c

-----------------------------------------------------------------------------
(***************************************************************************)
(* The key files.                                                           *)
(***************************************************************************)

\* More values of the sum of the polynomials than its degree recover the key, and as
\* many as its degree do not.
LEMMA ValuesRecover ==
    ASSUME PolyOK, NEW S \in SUBSET Party
    PROVE  /\ Recover([i \in S |-> Eval(SumPoly, i)]) \in Field
           /\ Cong(Recover([i \in S |-> Eval(SumPoly, i)]), Weighted(S, ValuesFrom(SumPoly, 1)))
           /\ Weighted(S, ValuesFrom(SumPoly, 1)) \in Int
           /\ \A i \in S : ValuesFrom(SumPoly, 1)[i] = Eval(SumPoly, i)
           /\ Cardinality(S) > Degree => Recover([i \in S |-> Eval(SumPoly, i)]) = YSum
           /\ Cardinality(S) = Degree => Recover([i \in S |-> Eval(SumPoly, i)]) # YSum
<1> DEFINE c == SumPoly
           F == ValuesFrom(c, 1)
           W == Weighted(S, F)
           R == Recover([i \in S |-> Eval(c, i)])
           n == Len(c)
<1>1. /\ IsPoly(c) /\ c # <<>> /\ n = Degree + 1 /\ Degree \in Nat
      /\ \A x \in Int : Eval(c, x) = EvalFrom(c, x, 1) /\ Eval(c, x) \in Field
      /\ YSum = Eval(c, 0) /\ c[Degree + 1] \in Field
  <2>1. Degree \in Nat /\ 0 \in Int
    BY Sizes DEF PolyOK
  <2> QED
    BY <2>1, SumPolyIs
<1>2. S \in SUBSET Points /\ 1 \in 1 .. n + 1
  BY <1>1, PartyType
<1>3. c[Degree + 1] # 0
  BY DEF PolyOK, IsGeneric
<1> HIDE DEF c, n
<1>4. \A i \in S : F[i] \in Int /\ F[i] = EvalFrom(c, i, 1) /\ i \in Int
  BY <1>1, <1>2, ValuesTyped, PartyType DEF n
<1>5. W \in Int
  BY <1>1, <1>2, ValuesTyped DEF n
<1>6. R = W % Q
  <2>1. [i \in S |-> Eval(c, i)] = [i \in S |-> F[i]]
    <3> HIDE DEF F
    <3> QED
      BY <1>1, <1>4
  <2> HIDE DEF F
  <2> QED
    BY <2>1, RecoverIs
<1>7. R \in Field /\ R \in Int /\ Cong(R, W)
  BY <1>5, <1>6, ModField
<1> DEFINE y == EvalFrom(c, 0, 1)
<1>8. y = YSum /\ y \in Field /\ y \in Int
  BY <1>1, FieldType
<1>9. Cardinality(S) > Degree => R = y
  <2> SUFFICES ASSUME Cardinality(S) > Degree PROVE R = y
    OBVIOUS
  <2>1. Cardinality(S) \in Nat
    BY <1>2, PointsFinite, FS_CardinalityType
  <2>2. Cardinality(S) >= Len(c) - 1 + 1
    BY <1>1, <2>1 DEF n
  <2>3. Cong(W, y)
    BY <1>1, <1>2, <2>2, Interpolation DEF n
  <2> HIDE DEF W, y, R
  <2>4. Cong(R, y)
    BY <1>5, <1>7, <1>8, <2>3, CongTrans
  <2> QED
    BY <1>7, <1>8, <2>4, CongField
<1>10. Cardinality(S) = Degree => R # y
  <2> SUFFICES ASSUME Cardinality(S) = Degree, R = y PROVE FALSE
    OBVIOUS
  <2>1. ~ Cong(c[Len(c)], 0)
    <3>1. c[Len(c)] \in Field /\ c[Len(c)] # 0
      BY <1>1, <1>3 DEF n
    <3> QED
      BY <3>1, FieldType, CongField
  <2>2. Cardinality(S) = Len(c) - 1
    BY <1>1 DEF n
  <2>3. ~ Cong(W, y)
    BY <1>1, <1>2, <2>1, <2>2, TooFew
  <2> HIDE DEF W, y, R
  <2>4. Cong(W, y)
    BY <1>5, <1>7, <1>8, CongSym
  <2> QED
    BY <2>3, <2>4
<1> QED
  BY <1>1, <1>4, <1>5, <1>7, <1>8, <1>9, <1>10 DEF c

\* Who has posted its commitments has the shares that the polynomials give it, and
\* every key file holds the value of the sum of the polynomials at the number of the
\* party.
KeyInv ==
    /\ PolyOK
    /\ \A p \in Party :
          /\ shares[p] \in {<<>>} \cup [Party -> Field]
          /\ "round4" \in posted[p] => shares[p] = [i \in Party |-> Eval(poly[i], p)]
          /\ stage[p] = "key file" =>
                \E code \in Field : file[p] = KeyFile(p, code, Eval(SumPoly, p))
          /\ stage[p] # "key file" => file[p] = NoFile
    /\ DOMAIN file = Party

LEMMA InitKeyInv == Init => KeyInv
<1> SUFFICES ASSUME Init PROVE KeyInv
  OBVIOUS
<1>1. PICK t \in Degrees : poly \in [Party -> {SubSeq(c, 1, t + 1) : c \in Coefficients}]
  BY DEF Init
<1>2. t \in 1 .. N - 1 /\ t \in Nat
  BY SharedKeyAssumption, Sizes
<1>3. ASSUME NEW c \in Coefficients
      PROVE  SubSeq(c, 1, t + 1) \in Seq(Field) /\ Len(SubSeq(c, 1, t + 1)) = t + 1
  <2>1. c \in Seq(Field) /\ t < Len(c) /\ Len(c) \in Nat
    BY SharedKeyAssumption
  <2> QED
    BY <1>2, <2>1, SubSeqProperties
<1>4. \A p \in Party : poly[p] \in Seq(Field) /\ Len(poly[p]) = t + 1
  BY <1>1, <1>3
<1>5. Degree = t
  BY <1>2, <1>4, PartyType DEF Degree
<1>6. PolyOK
  BY <1>2, <1>4, <1>5 DEF Init, PolyOK
<1>7. PICK s \in {"opened keys", "old file"} : stage = [p \in Party |-> s]
  BY DEF Init
<1>8. shares = [p \in Party |-> <<>>] /\ file = [p \in Party |-> NoFile]
  BY DEF Init
<1>9. \A p \in Party : "round4" \notin posted[p]
  BY DEF Init
<1> QED
  BY <1>6, <1>7, <1>8, <1>9 DEF KeyInv

LEMMA PolyStays == ASSUME PolyOK, UNCHANGED poly PROVE PolyOK' /\ SumPoly' = SumPoly
  BY DEF PolyOK, IsGeneric, SumPoly, Degree

LEMMA KeyFileStays ==
    ASSUME NEW p, NEW code, NEW x, UNCHANGED poly
    PROVE  KeyFile(p, code, x)' = KeyFile(p, code, x)
  BY DEF KeyFile, YSum

\* What is left alone of a party is as it was.
LEMMA OthersKeep ==
    ASSUME KeyInv, UNCHANGED poly, NEW p \in Party, NEW s, DOMAIN stage = Party,
           stage' = [stage EXCEPT ![p] = s],
           \A r \in Party \ {p} : shares'[r] = shares[r] /\ file'[r] = file[r],
           \A r \in Party \ {p} : posted'[r] = posted[r],
           DOMAIN file' = Party,
           shares'[p] \in {<<>>} \cup [Party -> Field],
           "round4" \in posted'[p] => shares'[p] = [i \in Party |-> Eval(poly[i], p)],
           s = "key file" => \E code \in Field : file'[p] = KeyFile(p, code, Eval(SumPoly, p)),
           s # "key file" => file'[p] = NoFile
    PROVE  KeyInv'
<1>1. PolyOK' /\ SumPoly' = SumPoly
  BY PolyStays DEF KeyInv
<1>2. ASSUME NEW r \in Party
      PROVE  /\ shares'[r] \in {<<>>} \cup [Party -> Field]
             /\ "round4" \in posted'[r] => shares'[r] = [i \in Party |-> Eval(poly[i], r)]
             /\ stage'[r] = "key file" =>
                   \E code \in Field : file'[r] = KeyFile(r, code, Eval(SumPoly, r))
             /\ stage'[r] # "key file" => file'[r] = NoFile
  <2>1. CASE r = p
    BY <2>1
  <2>2. CASE r # p
    <3>1. stage'[r] = stage[r] /\ shares'[r] = shares[r] /\ file'[r] = file[r]
          /\ posted'[r] = posted[r]
      BY <2>2
    <3> QED
      BY <3>1 DEF KeyInv
  <2> QED
    BY <2>1, <2>2
<1>3. ASSUME NEW r \in Party, stage'[r] = "key file"
      PROVE  \E code \in Field : file'[r] = KeyFile(r, code, Eval(SumPoly, r))'
  <2>1. PICK code \in Field : file'[r] = KeyFile(r, code, Eval(SumPoly, r))
    BY <1>2, <1>3
  <2>2. KeyFile(r, code, Eval(SumPoly, r))' = KeyFile(r, code, Eval(SumPoly, r))
    BY <1>1 DEF KeyFile, YSum
  <2> QED
    BY <2>1, <2>2
<1>4. ASSUME NEW r \in Party, "round4" \in posted'[r]
      PROVE  shares'[r] = [i \in Party |-> Eval(poly'[i], r)]
  <2>1. shares'[r] = [i \in Party |-> Eval(poly[i], r)]
    BY <1>2, <1>4
  <2> QED
    BY <2>1
<1>5. \A r \in Party : /\ shares'[r] \in {<<>>} \cup [Party -> Field]
                      /\ stage'[r] # "key file" => file'[r] = NoFile
  BY <1>2
<1>6. \A r \in Party : stage'[r] = "key file" =>
         \E code \in Field : file'[r] = KeyFile(r, code, Eval(SumPoly, r))'
  BY <1>3
<1> QED
  BY <1>1, <1>4, <1>5, <1>6 DEF KeyInv

LEMMA EvalsTyped ==
    ASSUME PolyOK, NEW p \in Party
    PROVE  [i \in Party |-> Eval(poly[i], p)] \in [Party -> Field]
<1>1. p \in Int
  BY PartyType
<1> QED
  BY <1>1, PolyType

\* A step of p that ends nowhere near a key file and opens nothing.
LEMMA NoFileStep ==
    ASSUME KeyInv, NEW p \in Party, NEW s, s # "key file", DOMAIN stage = Party,
           stage' = [stage EXCEPT ![p] = s], stage[p] # "key file",
           UNCHANGED <<poly, shares, file>>,
           \A r \in Party \ {p} : posted'[r] = posted[r],
           "round4" \in posted'[p] => "round4" \in posted[p]
    PROVE  KeyInv'
  BY OthersKeep DEF KeyInv

LEMMA NextKeyInv ==
    ASSUME IInv, KeyInv, [Next]_allVars
    PROVE  KeyInv'
<1>0. DOMAIN stage = Party /\ DOMAIN posted = Party /\ DOMAIN shares = Party /\ PolyOK
  BY DEF IInv, StagesOK, KeyInv
<1>1. ASSUME NEW p \in Party, DealShares(p) PROVE KeyInv'
  <2>1. PICK s \in {"dealt", "stopped"} : stage' = [stage EXCEPT ![p] = s]
    BY <1>1 DEF DealShares
  <2>2. stage[p] = "opened keys" /\ UNCHANGED <<poly, posted, shares, file>>
    BY <1>1 DEF DealShares
  <2> QED
    BY <1>0, <2>1, <2>2, NoFileStep
<1>2. ASSUME NEW p \in Party, OpenShares(p), UNCHANGED curve PROVE KeyInv'
  <2>1. /\ stage[p] = "dealt" /\ UNCHANGED <<poly, boxes, file>>
        /\ stage' = [stage EXCEPT ![p] = "opened shares"]
        /\ shares' = [shares EXCEPT ![p] = [i \in Party |-> Eval(poly[i], p)]]
        /\ \A r \in Party \ {p} : posted'[r] = posted[r]
    BY <1>0, <1>2, OpenStep DEF OpenShares
  <2>2. shares'[p] = [i \in Party |-> Eval(poly[i], p)] /\ shares'[p] \in [Party -> Field]
    BY <1>0, <2>1, EvalsTyped
  <2>3. \A r \in Party \ {p} : shares'[r] = shares[r] /\ file'[r] = file[r]
    BY <1>0, <2>1
  <2>4. DOMAIN file' = Party /\ file'[p] = NoFile
    BY <2>1 DEF KeyInv
  <2> QED
    BY <1>0, <2>1, <2>2, <2>3, <2>4, OthersKeep
<1>3. ASSUME NEW p \in Party, CheckShares(p), UNCHANGED curve PROVE KeyInv'
  <2>1. stage' = [stage EXCEPT ![p] = "proven"] /\ "round4" \in posted[p]
    BY <1>3, CheckStep DEF CheckShares, AllPosted
  <2>2. stage[p] = "opened shares" /\ UNCHANGED <<poly, shares, file>>
        /\ \A r \in Party \ {p} : posted'[r] = posted[r]
    BY <1>0, <1>3 DEF CheckShares
  <2> QED
    BY <1>0, <2>1, <2>2, NoFileStep
<1>4. ASSUME NEW p \in Party, NEW code \in Field,
             stage' = [stage EXCEPT ![p] = "key file"], UNCHANGED <<poly, posted, shares>>,
             file' = [file EXCEPT ![p] = KeyFile(p, code, Eval(SumPoly, p))]
      PROVE  KeyInv'
  <2>1. /\ \A r \in Party \ {p} : shares'[r] = shares[r] /\ file'[r] = file[r] /\ posted'[r] = posted[r]
        /\ DOMAIN file' = Party /\ file'[p] = KeyFile(p, code, Eval(SumPoly, p))
        /\ shares'[p] \in {<<>>} \cup [Party -> Field]
        /\ "round4" \in posted'[p] => shares'[p] = [i \in Party |-> Eval(poly[i], p)]
    BY <1>4 DEF KeyInv
  <2> QED
    BY <1>0, <1>4, <2>1, OthersKeep
<1>5. ASSUME NEW p \in Party, WriteFile(p) PROVE KeyInv'
  <2>1. SharedChainCode \in Field
    <3>1. DOMAIN ChainCodes = Party /\ \A i \in Party : ChainCodes[i] \in Int
      BY SharedKeyAssumption, FieldType
    <3> QED
      BY <3>1, PartyType, SumModCong DEF SharedChainCode
  <2>2. ShareOfKey(p) = Eval(SumPoly, p)
    <3>1. stage[p] = "proven" /\ p \in Int
      BY <1>5, PartyType DEF WriteFile
    <3>2. "round4" \in posted[p]
      BY <3>1 DEF IInv, StagesOK, PostedInv
    <3> QED
      BY <1>0, <3>1, <3>2, SumPolyIs DEF KeyInv, ShareOfKey
  <2> QED
    BY <1>4, <1>5, <2>1, <2>2 DEF WriteFile
<1>6. ASSUME NEW p \in Party, Convert(p) PROVE KeyInv'
  BY <1>4, <1>6, FieldType DEF Convert
<1>7. ASSUME NEW p \in Party, Fail(p) PROVE KeyInv'
  <2>1. /\ stage[p] # "key file" /\ UNCHANGED <<poly, posted, shares, file>>
        /\ stage' = [stage EXCEPT ![p] = "failed"]
    BY <1>7 DEF Fail
  <2> QED
    BY <1>0, <2>1, NoFileStep
<1>8. ASSUME UNCHANGED keygenVars PROVE KeyInv'
  <2>1. UNCHANGED <<poly, stage, posted, boxes, shares, file>>
    BY <1>8 DEF keygenVars
  <2>2. PolyOK' /\ SumPoly' = SumPoly /\ \A p, code, x : KeyFile(p, code, x)' = KeyFile(p, code, x)
    BY <1>0, <2>1, PolyStays, KeyFileStays
  <2> QED
    BY <2>1, <2>2 DEF KeyInv
<1> QED
  BY <1>1, <1>2, <1>3, <1>5, <1>6, <1>7, <1>8
  DEF Next, KeygenStep, StartSigning, CheckContributions, FinishSigning, allVars

LEMMA KeyInvariance == Spec => [](IInv /\ KeyInv)
<1>1. Init => IInv /\ KeyInv
  BY InitIInv, InitKeyInv
<1>2. IInv /\ KeyInv /\ [Next]_allVars => (IInv /\ KeyInv)'
  BY NextIInv, NextKeyInv
<1> QED
  BY <1>1, <1>2, PTL DEF Spec

\* Nobody writes a key file before every party has opened its shares, found that they
\* agree with the commitments of all, and proved it: whoever fails between its last
\* message and its file, the others' files are of a key that it had accepted.
THEOREM FilesAccepted == Spec => []NoFileWithoutShares
<1>1. IInv /\ KeyInv => NoFileWithoutShares
  <2> SUFFICES ASSUME IInv, KeyInv, NEW p \in Party, file[p] # NoFile, posted[p] # {},
                      NEW r \in Party
               PROVE  "round5" \in posted[r] /\ shares[r] = [i \in Party |-> Eval(poly[i], r)]
    BY DEF NoFileWithoutShares
  <2>1. stage[p] = "key file"
    BY DEF KeyInv
  <2>2. "round5" \in posted[r]
    BY <2>1 DEF IInv, StagesOK, WrittenInv
  <2>3. "round4" \in posted[r]
    BY <2>2 DEF IInv, StagesOK, PostedInv
  <2> QED
    BY <2>2, <2>3 DEF KeyInv
<1> QED
  BY <1>1, KeyInvariance, PTL

\* The key files fit together: the shares of more parties than the degree of the
\* polynomials recover the secret of the public key that each of them holds, and those
\* of as many as the degree another, for every field, number of parties and threshold,
\* and whoever has failed.
THEOREM FilesRecover == Spec => []QuorumRecovers
<1>1. IInv /\ KeyInv => QuorumRecovers
  <2> SUFFICES ASSUME KeyInv, NEW S \in SUBSET Holders, NEW p \in S
               PROVE  /\ Cardinality(S) > Degree => file[p].y = Recover([i \in S |-> file[i].x])
                      /\ Cardinality(S) = Degree => file[p].y # Recover([i \in S |-> file[i].x])
    BY DEF QuorumRecovers
  <2>1. ASSUME NEW i \in S PROVE file[i].x = Eval(SumPoly, i) /\ file[i].y = YSum
    <3>1. i \in Party /\ stage[i] = "key file"
      BY DEF KeyInv, Holders
    <3>2. PICK code \in Field : file[i] = KeyFile(i, code, Eval(SumPoly, i))
      BY <3>1 DEF KeyInv
    <3> QED
      BY <3>2 DEF KeyFile
  <2>2. [i \in S |-> file[i].x] = [i \in S |-> Eval(SumPoly, i)]
    BY <2>1
  <2>3. PolyOK /\ S \in SUBSET Party
    BY DEF KeyInv, Holders
  <2> QED
    BY <2>1, <2>2, <2>3, ValuesRecover
<1> QED
  BY <1>1, KeyInvariance, PTL

-----------------------------------------------------------------------------
(***************************************************************************)
(* The room of a signing.                                                   *)
(***************************************************************************)

\* The fields of a key file.
LEMMA KeyFileFields ==
    ASSUME KeyInv, NEW p \in Party, stage[p] = "key file"
    PROVE  /\ file[p].code \in Field /\ file[p].y = YSum /\ YSum \in Field
           /\ file[p].x = Eval(SumPoly, p) /\ Eval(SumPoly, p) \in Field /\ file[p].vss = poly
<1>1. PICK c \in Field : file[p] = KeyFile(p, c, Eval(SumPoly, p))
  BY DEF KeyInv
<1> DEFINE x == Eval(SumPoly, p)
           y == YSum
<1>2. file[p] = [id |-> p, code |-> c, x |-> x, vss |-> poly, y |-> y]
  BY <1>1 DEF KeyFile
<1>3. x \in Field /\ y \in Field
  <2>1. PolyOK
    BY DEF KeyInv
  <2>2. p \in Int
    BY PartyType
  <2>3. x \in Field
    BY <2>1, <2>2, SumPolyIs
  <2>4. y \in Field
    BY <2>1, SumPolyIs
  <2> QED
    BY <2>3, <2>4
<1> HIDE DEF x, y
<1> DEFINE f == file[p]
<1>4. f = [id |-> p, code |-> c, x |-> x, vss |-> poly, y |-> y]
  BY <1>2
<1> HIDE DEF f
<1>5. f.code = c /\ f.y = y /\ f.x = x /\ f.vss = poly
  BY <1>4
<1> QED
  BY <1>3, <1>5 DEF x, y, f

LEMMA PlusType == ASSUME NEW a \in Int, NEW b \in Int PROVE a + b \in Int
  OBVIOUS

LEMMA DegreeType == ASSUME PolyOK PROVE Degree \in Nat /\ Degree >= 1 /\ Degree \in Degrees
  BY Sizes DEF PolyOK

\* The child key of a signer is the public key, moved by the tweak of the signer.
Moves(i) ==
    /\ ChildOf(i).key \in Field /\ ChildOf(i).tweak \in Field
    /\ Cong(ChildOf(i).key, YSum + ChildOf(i).tweak)

Results == {"started", "checked", "stopped", "signed"}

\* Different parties with key files, as many ephemeral coefficients, and a key and
\* tweak for each.
Room ==
    /\ \E n \in 1 .. N : session.signers \in [1 .. n -> Holders]
    /\ result \in [Numbers -> Results]
    /\ \A i, j \in Numbers : Id(i) = Id(j) => i = j
    /\ session.eph \in Seq(Field) /\ Len(session.eph) = Len(session.signers)
    /\ \A i \in Numbers : Moves(i)

\* A result says what was checked for it.
Outcome ==
    \/ \A i \in Numbers : result[i] = "started"
    \/ \A i \in Numbers : result[i] = IF Rejects(i) THEN "stopped" ELSE "checked"
    \/ EphemeralOutgrowsKey /\ \A i \in Numbers : result[i] = "stopped"
    \/ /\ curve = "ECDSA" => \A i \in Numbers : ~ Rejects(i)
       /\ \A i \in Numbers : result[i] = IF ~ Rejects(i) /\ Verifies(i) THEN "signed" ELSE "stopped"

SessionInv == IF session = NoSession THEN result = <<>> ELSE Room /\ Outcome

LEMMA InitSessionInv == Init => SessionInv
  BY DEF Init, SessionInv

\* Nothing that a check depends on changes once there is a room, whoever else comes to
\* its key file later, or fails.
LEMMA ChecksStay ==
    ASSUME Room, UNCHANGED <<curve, poly, session>>, \A p \in Holders : file'[p] = file[p]
    PROVE  /\ Numbers' = Numbers /\ EphemeralOutgrowsKey' = EphemeralOutgrowsKey
           /\ \A i \in Numbers : Rejects(i)' = Rejects(i) /\ Verifies(i)' = Verifies(i)
<1>1. \A i : ChildOf(i)' = ChildOf(i) /\ Id(i)' = Id(i)
  BY DEF ChildOf, Id
<1>2. Numbers' = Numbers /\ Ids' = Ids
  BY DEF Numbers, Ids, Id
<1>3. \A i \in Numbers : file'[Id(i)] = file[Id(i)]
  <2>1. \A i \in Numbers : Id(i) \in Holders
    BY DEF Room, Numbers, Id
  <2> QED
    BY <2>1
<1>4. \A i : EddsaChallenge(i)' = EddsaChallenge(i) /\ EphR' = EphR
  BY <1>1 DEF EddsaChallenge, EphR
<1>5. \A i \in Numbers : EcdsaShare(i)' = EcdsaShare(i) /\ LocalSig(i)' = LocalSig(i)
  BY <1>1, <1>2, <1>3, <1>4 DEF EcdsaShare, ShareAtPath, LocalSig
<1>6. \A vss, p : PublicShare(vss, p)' = PublicShare(vss, p)
  BY DEF PublicShare
<1>7. \A i, j \in Numbers : ExpectedShare(i, j)' = ExpectedShare(i, j)
                            /\ ExpectedLocalSig(i, j)' = ExpectedLocalSig(i, j)
  BY <1>1, <1>2, <1>3, <1>4
  DEF ExpectedShare, ExpectedLocalSig, VssAtPath, PublicShare
<1>8. Degree' = Degree
  BY DEF Degree
<1>9. ASSUME NEW i \in Numbers PROVE Rejects(i)' = Rejects(i)
  BY <1>2, <1>5, <1>7, <1>8 DEF Rejects
<1>10. EcdsaSecret' = EcdsaSecret
  BY <1>2, <1>5 DEF EcdsaSecret
<1>11. ASSUME NEW i PROVE SigOf(i)' = SigOf(i)
  <2>1. [j \in Numbers |-> Lagrange(Id(j), Ids) * LocalSig(j)]'
        = [j \in Numbers |-> Lagrange(Id(j), Ids) * LocalSig(j)]
    BY <1>1, <1>2, <1>5
  <2> QED
    BY <1>1, <1>4, <2>1 DEF SigOf
<1>12. ASSUME NEW i PROVE Verifies(i)' = Verifies(i)
  BY <1>1, <1>4, <1>10, <1>11 DEF Verifies
<1>13. EphemeralOutgrowsKey' = EphemeralOutgrowsKey
  BY <1>8 DEF EphemeralOutgrowsKey
<1> QED
  BY <1>2, <1>9, <1>12, <1>13

LEMMA RoomStays ==
    ASSUME Room, UNCHANGED <<curve, poly, session>>, \A p \in Holders : file'[p] = file[p],
           result' \in [Numbers -> Results]
    PROVE  Room'
<1>1. Holders \subseteq Holders'
  BY DEF Holders
<1>2. PICK n \in 1 .. N : session.signers \in [1 .. n -> Holders]
  BY DEF Room
<1>3. session'.signers \in [1 .. n -> Holders']
  BY <1>1, <1>2
<1>4. \A i \in Numbers : Moves(i)' = Moves(i)
  BY DEF Moves, ChildOf, YSum
<1> QED
  BY <1>3, <1>4 DEF Room, Numbers, Id

\* Nothing that a step of the key generation does matters to a signing.
LEMMA SessionStays ==
    ASSUME SessionInv, UNCHANGED <<curve, poly, session, result>>,
           \A p \in Holders : file'[p] = file[p]
    PROVE  SessionInv'
<1>1. CASE session = NoSession
  BY <1>1 DEF SessionInv
<1>2. CASE session # NoSession
  <2>1. Room /\ Outcome
    BY <1>2 DEF SessionInv
  <2>2. Room'
    BY <2>1, RoomStays DEF Room
  <2>3. Outcome'
    BY <2>1, ChecksStay DEF Outcome
  <2> QED
    BY <1>2, <2>2, <2>3 DEF SessionInv
<1> QED
  BY <1>1, <1>2

LEMMA ClearCofactorCong ==
    ASSUME NEW k \in Field
    PROVE  ClearCofactor(k) \in Field /\ Cong(ClearCofactor(k), k)
<1>1. 8 % Q # 0
  <2>1. Q >= 3 /\ Q \in Nat
    BY SharedKeyAssumption, PrimeType
  <2>2. Q # 4 /\ Q # 8
    BY <2>1, FieldAssumption
  <2>3. Q = 3 \/ Q = 5 \/ Q = 6 \/ Q = 7 \/ Q > 8
    BY <2>1, <2>2
  <2> QED
    BY <2>1, <2>3
<1> DEFINE e == 8 % Q
           r == Reciprocal(e)
           m == (k * r) % Q
<1>2. e \in Field /\ e \in Int /\ Cong(e, 8)
  BY ModField, 8 \in Int
<1> HIDE DEF e
<1>3. r \in Int /\ Cong(e * r, 1)
  BY <1>1, <1>2, ReciprocalWorks DEF e
<1> HIDE DEF r
<1>4. k \in Int /\ k * r \in Int
  BY <1>3, FieldType
<1>5. m \in Int /\ Cong(m, k * r)
  BY <1>4, ModField
<1>6. ClearCofactor(k) = (m * 8) % Q
  BY DEF ClearCofactor, m, r, e
<1> HIDE DEF m
<1>7. m * 8 \in Int /\ (k * r) * 8 \in Int /\ (k * r) * 8 = k * (8 * r)
      /\ 8 * r \in Int /\ e * r \in Int /\ k * 1 = k /\ k * (8 * r) \in Int
  BY <1>2, <1>3, <1>4, <1>5
<1>8. (m * 8) % Q \in Field /\ Cong((m * 8) % Q, m * 8) /\ (m * 8) % Q \in Int
  BY <1>7, ModField
<1>9. Cong(m * 8, (k * r) * 8)
  BY <1>4, <1>5, 8 \in Int, CongRefl, CongMul
<1>10. Cong(8 * r, 1)
  <2>1. Cong(8 * r, e * r)
    BY <1>2, <1>3, 8 \in Int, CongSym, CongRefl, CongMul
  <2> QED
    BY <1>3, <1>7, <2>1, 1 \in Int, CongTrans
<1>11. Cong(k * (8 * r), k * 1)
  BY <1>4, <1>7, <1>10, 1 \in Int, CongRefl, CongMul
<1>12. Cong((m * 8) % Q, k * (8 * r))
  BY <1>7, <1>8, <1>9, CongTrans
<1>13. Cong((m * 8) % Q, k)
  BY <1>4, <1>7, <1>8, <1>11, <1>12, CongTrans
<1> QED
  BY <1>6, <1>8, <1>13

\* Whatever options lead to it, the child key is the public key moved by the tweak.
LEMMA ChildMoves ==
    ASSUME KeyInv, NEW p \in Party, stage[p] = "key file", NEW o \in Options
    PROVE  /\ Child(p, o).key \in Field /\ Child(p, o).tweak \in Field
           /\ Cong(Child(p, o).key, YSum + Child(p, o).tweak)
<1>1. file[p].code \in Field
  BY KeyFileFields
<1>2. file[p].y = YSum
  BY KeyFileFields
<1>3. YSum \in Field
  BY KeyFileFields
<1>4. o.path \in Seq(Nat) /\ o.flag \in MaybeCode /\ o.env \in MaybeCode
  BY SharedKeyAssumption
<1> DEFINE code == ChainCodeOf(p, o)
           hd == HdKey(YSum, o.path, code)
           child == Child(p, o)
<1>5. code \in Field
  BY <1>1, <1>4 DEF ChainCodeOf, ChainCodeGiven, MaybeCode
<1>6. \A k, d \in Field : \A l \in DOMAIN o.path :
         Hmac(d, k, o.path[l]) \in [left : Field, right : Field]
  BY HashAssumption
<1>7. child = [key   |-> IF curve = "EdDSA" /\ o.path # <<>> THEN ClearCofactor(hd.key) ELSE hd.key,
               tweak |-> hd.tweak]
  BY <1>2 DEF Child
<1> HIDE DEF code, child
<1>8. hd.key \in Field /\ hd.tweak \in Field /\ Cong(hd.key, YSum + hd.tweak)
  BY <1>3, <1>4, <1>5, <1>6, TweakMovesKey
<1> HIDE DEF hd
<1>9. child.tweak = hd.tweak /\ child.key \in {hd.key, ClearCofactor(hd.key)}
  BY <1>7
<1>10. ClearCofactor(hd.key) \in Field /\ Cong(ClearCofactor(hd.key), hd.key)
  BY <1>8, ClearCofactorCong
<1>11. /\ hd.key \in Int /\ ClearCofactor(hd.key) \in Int
       /\ YSum + hd.tweak \in Int
  <2>1. hd.key \in Int /\ hd.tweak \in Int /\ YSum \in Int /\ ClearCofactor(hd.key) \in Int
    BY <1>3, <1>8, <1>10, FieldType
  <2> QED
    BY <2>1, PlusType
<1>12. Cong(ClearCofactor(hd.key), YSum + hd.tweak)
  BY <1>8, <1>10, <1>11, CongTrans
<1>13. child.key \in Field /\ Cong(child.key, YSum + child.tweak)
  BY <1>8, <1>9, <1>10, <1>12
<1> QED
  BY <1>8, <1>9, <1>13 DEF child

LEMMA StartStep ==
    ASSUME IInv, KeyInv, StartSigning
    PROVE  SessionInv'
<1>1. UNCHANGED <<curve, keygenVars>>
  BY DEF StartSigning
<1>2. PICK n \in 1 .. N :
         \E signers \in [1 .. n -> Holders], eph \in {SubSeq(e, 1, n) : e \in Ephemerals} :
             /\ \A i, j \in 1 .. n : i # j => signers[i] # signers[j]
             /\ \E options \in [1 .. n -> Options] :
                    session' = [signers |-> signers,
                                child   |-> [i \in 1 .. n |-> Child(signers[i], options[i])],
                                eph     |-> eph]
             /\ result' = [i \in 1 .. n |-> "started"]
  BY DEF StartSigning
<1>3. PICK signers \in [1 .. n -> Holders], e \in Ephemerals, options \in [1 .. n -> Options] :
         /\ \A i, j \in 1 .. n : i # j => signers[i] # signers[j]
         /\ session' = [signers |-> signers,
                        child   |-> [i \in 1 .. n |-> Child(signers[i], options[i])],
                        eph     |-> SubSeq(e, 1, n)]
         /\ result' = [i \in 1 .. n |-> "started"]
  BY <1>2
<1>4. session'.signers = signers /\ session'.eph = SubSeq(e, 1, n)
      /\ session'.child = [i \in 1 .. n |-> Child(signers[i], options[i])]
  BY <1>3
<1>5. session'.eph \in Seq(Field) /\ Len(session'.eph) = n
  <2>1. e \in Seq(Field) /\ N <= Len(e) /\ Len(e) \in Nat /\ N \in Nat
    BY SharedKeyAssumption, Sizes, LenProperties
  <2>2. \A i \in 1 .. n : e[i] \in Field
    BY <2>1
  <2>3. n \in Int /\ 1 \in Int /\ 1 <= n /\ n - 1 + 1 = n
    BY <2>1
  <2> QED
    BY <1>4, <2>2, <2>3, SubSeqProperties
<1>6. Len(session'.signers) = n /\ n \in Nat /\ n >= 1
  <2>1. n \in Nat /\ n >= 1
    BY Sizes
  <2> QED
    BY <1>4, <2>1, AsSequence
<1>7. Numbers' = 1 .. n /\ \A i \in 1 .. n : Id(i)' = signers[i] /\ ChildOf(i)' = Child(signers[i], options[i])
  BY <1>4 DEF Numbers, Id, ChildOf
<1>8. ASSUME NEW i \in 1 .. n PROVE Moves(i)'
  <2>1. YSum' = YSum
    BY <1>1 DEF YSum, keygenVars
  <2>2. signers[i] \in Party /\ options[i] \in Options /\ stage[signers[i]] = "key file"
    BY DEF Holders, KeyInv
  <2> QED
    BY <1>7, <2>1, <2>2, ChildMoves DEF Moves
<1>9. Room'
  <2>1. Holders' = Holders
    BY <1>1 DEF Holders, keygenVars
  <2>2. session'.signers \in [1 .. n -> Holders'] /\ result' \in [Numbers' -> Results]
    BY <1>3, <1>4, <1>7, <2>1 DEF Results
  <2>3. \A i, j \in Numbers' : Id(i)' = Id(j)' => i = j
    BY <1>3, <1>7
  <2>4. \A i \in Numbers' : Moves(i)'
    BY <1>7, <1>8
  <2> QED
    BY <1>5, <1>6, <2>2, <2>3, <2>4 DEF Room
<1>10. session' # NoSession
  <2>1. session'.signers # <<>>
    BY <1>6
  <2> QED
    BY <2>1 DEF NoSession
<1>11. \A i \in Numbers' : result'[i] = "started"
  BY <1>3, <1>7
<1> QED
  BY <1>9, <1>10, <1>11 DEF SessionInv, Outcome

\* A step of the key generation leaves the files alone that there are.
LEMMA FilesStay ==
    ASSUME IInv, KeyInv, NEW p \in Party, KeygenStep(p) \/ Fail(p)
    PROVE  UNCHANGED <<curve, poly, session, result>> /\ \A q \in Holders : file'[q] = file[q]
<1>1. stage[p] # "key file" /\ UNCHANGED <<curve, poly, session, result>>
  BY DEF KeygenStep, DealShares, OpenShares, CheckShares, WriteFile, Convert, Fail
<1>2. \A q \in Party : q # p => file'[q] = file[q]
  BY DEF KeygenStep, DealShares, OpenShares, CheckShares, WriteFile, Convert, Fail, KeyInv
<1>3. p \notin Holders
  BY <1>1 DEF Holders, KeyInv
<1> QED
  BY <1>1, <1>2, <1>3 DEF Holders

LEMMA NextSessionInv ==
    ASSUME IInv, KeyInv, SessionInv, [Next]_allVars
    PROVE  SessionInv'
<1>1. ASSUME NEW p \in Party, KeygenStep(p) \/ Fail(p) PROVE SessionInv'
  BY <1>1, FilesStay, SessionStays
<1>2. ASSUME CheckContributions PROVE SessionInv'
  <2>1. /\ session # NoSession /\ UNCHANGED <<curve, poly, file, session>>
        /\ \/ result' = [i \in Numbers |-> IF Rejects(i) THEN "stopped" ELSE "checked"]
           \/ EphemeralOutgrowsKey /\ result' = [i \in Numbers |-> "stopped"]
        /\ Room
    BY <1>2 DEF CheckContributions, SessionInv, keygenVars
  <2>2. result' \in [Numbers -> Results]
    BY <2>1 DEF Results
  <2>3. Room'
    BY <2>1, <2>2, RoomStays
  <2>4. \/ \A i \in Numbers' : result'[i] = IF Rejects(i)' THEN "stopped" ELSE "checked"
        \/ EphemeralOutgrowsKey' /\ \A i \in Numbers' : result'[i] = "stopped"
    BY <2>1, ChecksStay
  <2> QED
    BY <2>1, <2>3, <2>4 DEF SessionInv, Outcome
<1>3. ASSUME FinishSigning PROVE SessionInv'
  <2>1. /\ session # NoSession /\ UNCHANGED <<curve, poly, file, session>>
        /\ \E i \in Numbers : result[i] = "checked"
        /\ curve = "ECDSA" => \A i \in Numbers : result[i] = "checked"
        /\ result' = [i \in Numbers |->
                        IF result[i] = "checked" /\ Verifies(i) THEN "signed" ELSE "stopped"]
        /\ Room /\ Outcome
    BY <1>3 DEF FinishSigning, SessionInv, keygenVars
  <2>2. result' \in [Numbers -> Results]
    BY <2>1 DEF Results
  <2>3. Room'
    BY <2>1, <2>2, RoomStays
  <2>4. \A i \in Numbers : result[i] = IF Rejects(i) THEN "stopped" ELSE "checked"
    BY <2>1 DEF Outcome
  <2>5. \A i \in Numbers : result[i] = "checked" <=> ~ Rejects(i)
    BY <2>4
  <2>6. \A i \in Numbers : result'[i] = IF ~ Rejects(i) /\ Verifies(i) THEN "signed" ELSE "stopped"
    BY <2>1, <2>5
  <2>7. curve = "ECDSA" => \A i \in Numbers : ~ Rejects(i)
    BY <2>1, <2>5
  <2>8. /\ curve' = "ECDSA" => \A i \in Numbers' : ~ Rejects(i)'
        /\ \A i \in Numbers' : result'[i] = IF ~ Rejects(i)' /\ Verifies(i)' THEN "signed" ELSE "stopped"
    BY <2>1, <2>6, <2>7, ChecksStay
  <2> QED
    BY <2>1, <2>3, <2>8 DEF SessionInv, Outcome
<1>4. ASSUME UNCHANGED allVars PROVE SessionInv'
  BY <1>4, SessionStays DEF allVars, keygenVars
<1> QED
  BY <1>1, <1>2, <1>3, <1>4, StartStep DEF Next

LEMMA SessionInvariance == Spec => [](IInv /\ KeyInv /\ SessionInv)
<1>1. Init => IInv /\ KeyInv /\ SessionInv
  BY InitIInv, InitKeyInv, InitSessionInv
<1>2. IInv /\ KeyInv /\ SessionInv /\ [Next]_allVars => (IInv /\ KeyInv /\ SessionInv)'
  BY NextIInv, NextKeyInv, NextSessionInv
<1> QED
  BY <1>1, <1>2, PTL DEF Spec

\* Every variable has its type: the shares and keys are elements of the field, and
\* every number of a signing has a result.
THEOREM SharedKeyTypes == Spec => []TypeOK
<1>1. IInv /\ KeyInv /\ SessionInv => TypeOK
  <2> SUFFICES ASSUME IInv, KeyInv, SessionInv PROVE TypeOK
    OBVIOUS
  <2>1. \A p \in Party : Len(poly[p]) = Degree + 1 /\ poly[p] \in Seq(Field)
    BY DEF KeyInv, PolyOK
  <2>2. ASSUME NEW b \in boxes PROVE b.from \in Party /\ b.to \in Party /\ b.plaintext \in Field
    <3>1. b.from \in Party /\ b.to \in Party /\ b = Box(b.from, b.to)
      BY DEF IInv, BoxInv
    <3>2. b.plaintext = Eval(poly[b.from], b.to)
      BY <3>1, BoxFields DEF SecretShare
    <3>3. PolyOK /\ b.to \in Int
      BY <3>1, PartyType DEF KeyInv
    <3> QED
      BY <3>1, <3>2, <3>3, PolyType
  <2>3. \A p \in Party : shares[p] \in {<<>>} \cup [Party -> Field]
    BY DEF KeyInv
  <2>4. ASSUME NEW p \in Party, file[p] # NoFile
        PROVE  file[p].x \in Field /\ file[p].y \in Field
    <3>1. stage[p] = "key file"
      BY <2>4 DEF KeyInv
    <3> QED
      BY <3>1, KeyFileFields
  <2>5. Len(result) = Len(session.signers)
    <3>1. CASE session = NoSession
      BY <3>1 DEF SessionInv, NoSession
    <3>2. CASE session # NoSession
      <4>1. PICK n \in 1 .. N : session.signers \in [1 .. n -> Holders]
        BY <3>2 DEF SessionInv, Room
      <4>2. result \in [1 .. n -> Results]
        BY <3>2, <4>1 DEF SessionInv, Room, Numbers
      <4> QED
        BY <4>1, <4>2, Sizes, AsSequence
    <3> QED
      BY <3>1, <3>2
  <2> QED
    BY <2>1, <2>2, <2>3, <2>4, <2>5 DEF TypeOK, IInv, PolyInv, StagesOK, Stages, Broadcasts
<1> QED
  BY <1>1, SessionInvariance, PTL

-----------------------------------------------------------------------------
(***************************************************************************)
(* What the signers of a room compute.                                      *)
(***************************************************************************)

LEMMA Signers ==
    ASSUME KeyInv, Room
    PROVE  /\ IsFiniteSet(Numbers) /\ 1 \in Numbers /\ Len(session.signers) \in 1 .. N
           /\ \A i \in Numbers : Id(i) \in Party /\ stage[Id(i)] = "key file"
           /\ \A i \in Numbers : Id(i) \in Party /\ Id(i) \in Ids /\ Id(i) \in Int
           /\ \A i, j \in Numbers : session.signers[i] = session.signers[j] => i = j
           /\ Ids = {session.signers[i] : i \in Numbers}
           /\ Ids \in SUBSET Party /\ Ids \in SUBSET Points /\ Ids # {}
           /\ Cardinality(Ids) = Len(session.signers)
<1>1. PICK n \in 1 .. N : session.signers \in [1 .. n -> Holders]
  BY DEF Room
<1>2. n \in Nat /\ Numbers = 1 .. n /\ Len(session.signers) = n
  BY <1>1, Sizes, AsSequence DEF Numbers
<1>3. IsFiniteSet(Numbers) /\ Cardinality(Numbers) = n /\ 1 \in Numbers
  BY <1>1, <1>2, FS_Interval
<1>4. Ids = {session.signers[i] : i \in Numbers}
  BY DEF Ids, Id
<1>5. \A i \in Numbers : Id(i) \in Party /\ Id(i) \in Ids /\ stage[Id(i)] = "key file"
  BY <1>1, <1>2 DEF Ids, Id, Holders, KeyInv
<1>6. Ids \in SUBSET Party /\ Ids \in SUBSET Points /\ Ids # {}
  BY <1>3, <1>5, PartyType DEF Ids
<1>7. \A i, j \in Numbers : session.signers[i] = session.signers[j] => i = j
  BY DEF Room, Id
<1>8. Cardinality(Ids) = n
  <2> DEFINE f == session.signers
  <2>1. f \in Surjection(Numbers, Ids) /\ f \in Injection(Numbers, Ids)
    <3>1. f \in [Numbers -> Ids]
      BY <1>1, <1>2, <1>4
    <3> HIDE DEF f
    <3>2. \A t \in Ids : \E i \in Numbers : f[i] = t
      BY <1>4 DEF f
    <3>3. \A i, j \in Numbers : f[i] = f[j] => i = j
      BY <1>7 DEF f
    <3> QED
      BY <3>1, <3>2, <3>3 DEF Surjection, Injection, IsInjective
  <2> QED
    BY <1>3, <2>1, FS_Surjection
<1>9. \A i \in Numbers : Id(i) \in Int
  BY <1>5, PartyType
<1> QED
  BY <1>1, <1>2, <1>3, <1>4, <1>5, <1>6, <1>7, <1>8, <1>9

\* Adding up over the numbers of the room is adding up over the fragments.
LEMMA SumOverRoom ==
    ASSUME KeyInv, Room, NEW F, \A p \in Ids : F[p] \in Int, NEW h,
           \A i \in Numbers : h[i] \in Int /\ Cong(h[i], Lagrange(Id(i), Ids) * F[Id(i)])
    PROVE  /\ SumOver(h, Numbers) \in Int /\ Weighted(Ids, F) \in Int
           /\ Cong(SumOver(h, Numbers), Weighted(Ids, F))
<1> DEFINE w == [p \in Ids |-> Lagrange(p, Ids) * F[p]]
           g == [i \in Numbers |-> w[session.signers[i]]]
           m == session.signers
           H == SumOver(h, Numbers)
           G == SumOver(g, Numbers)
<1>1. Ids \in SUBSET Points /\ IsFiniteSet(Numbers) /\ Ids = {m[i] : i \in Numbers}
      /\ \A i, j \in Numbers : m[i] = m[j] => i = j
  BY Signers
<1>2. \A i \in Numbers : Id(i) = m[i] /\ m[i] \in Ids
  BY Signers DEF Id
<1>3. Weighted(Ids, F) \in Int /\ \A p \in Ids : w[p] \in Int
  BY <1>1, WeightedTyped
<1>4. \A i \in Numbers : g[i] = w[m[i]] /\ g[i] \in Int /\ w[m[i]] = Lagrange(Id(i), Ids) * F[Id(i)]
  BY <1>2, <1>3
<1>5. Weighted(Ids, F) = SumOver(w, Ids)
  BY DEF Weighted
<1> HIDE DEF w, g, m
<1>6. G = SumOver(w, Ids)
  <2>1. \A i \in Numbers : w[m[i]] \in Int /\ g[i] = w[m[i]]
    BY <1>2, <1>3, <1>4
  <2>2. SumOver(g, Numbers) = SumOver(w, {m[i] : i \in Numbers})
    BY <1>1, <2>1, SumImage
  <2> QED
    BY <1>1, <2>2
<1>7. H \in Int /\ G \in Int
  BY <1>1, <1>4, SumTyped
<1>8. Cong(H, 1 * G + 0 * G)
  <2>1. ASSUME NEW i \in Numbers
        PROVE  g[i] \in Int /\ h[i] \in Int /\ Cong(h[i], 1 * g[i] + 0 * g[i])
    <3>1. g[i] \in Int /\ h[i] \in Int /\ Cong(h[i], g[i])
      BY <1>4
    <3>2. 1 * g[i] + 0 * g[i] = g[i]
      BY <3>1
    <3> QED
      BY <3>1, <3>2
  <2> QED
    BY <1>1, <2>1, 0 \in Int, 1 \in Int, SumLinear
<1>9. 1 * G + 0 * G = G
  BY <1>7
<1> QED
  BY <1>3, <1>5, <1>6, <1>7, <1>8, <1>9

\* The integers that the checks of a signer are about.
LEMMA SignerType ==
    ASSUME KeyInv, Room, NEW i \in Numbers
    PROVE  /\ PolyOK /\ Id(i) \in Party
           /\ file[Id(i)].x = Eval(SumPoly, Id(i)) /\ file[Id(i)].vss = poly
           /\ file[Id(i)].x = ValuesFrom(SumPoly, 1)[Id(i)] /\ file[Id(i)].x \in Int
           /\ ChildOf(i).tweak \in Field /\ ChildOf(i).tweak \in Int
           /\ ChildOf(i).key \in Field /\ ChildOf(i).key \in Int
           /\ YSum \in Field /\ YSum \in Int
           /\ Lagrange(Id(i), Ids) \in Int /\ ~ Cong(Lagrange(Id(i), Ids), 0)
<1>1. PolyOK /\ stage[Id(i)] = "key file" /\ Id(i) \in Party
  BY Signers DEF KeyInv
<1>2. /\ file[Id(i)].x = Eval(SumPoly, Id(i)) /\ file[Id(i)].vss = poly
      /\ YSum \in Field /\ Eval(SumPoly, Id(i)) \in Field
  BY <1>1, KeyFileFields
<1>3. ValuesFrom(SumPoly, 1)[Id(i)] = Eval(SumPoly, Id(i))
  <2>1. Ids \in SUBSET Party /\ Id(i) \in Ids
    BY Signers
  <2> QED
    BY <1>1, <2>1, ValuesRecover
<1>4. ChildOf(i).key \in Field /\ ChildOf(i).tweak \in Field
  BY DEF Room, Moves
<1>5. Lagrange(Id(i), Ids) \in Int /\ ~ Cong(Lagrange(Id(i), Ids), 0)
  <2>1. Ids \in SUBSET Points /\ Id(i) \in Ids
    BY Signers
  <2> QED
    BY <2>1, LagrangeTyped, LagrangeNonZero
<1>6. YSum \in Int /\ ChildOf(i).key \in Int /\ ChildOf(i).tweak \in Int /\ file[Id(i)].x \in Int
  BY <1>2, <1>4, FieldType
<1> QED
  BY <1>1, <1>2, <1>3, <1>4, <1>5, <1>6

\* Signers agree on the child key if they agree on the tweak.
LEMMA AgreeTweaks ==
    ASSUME KeyInv, Room, NEW i \in Numbers, NEW j \in Numbers
    PROVE  ChildOf(i).key = ChildOf(j).key <=> ChildOf(i).tweak = ChildOf(j).tweak
<1> DEFINE k == ChildOf(i).key
           l == ChildOf(j).key
           s == ChildOf(i).tweak
           t == ChildOf(j).tweak
           y == YSum
<1>1. /\ k \in Field /\ l \in Field /\ s \in Field /\ t \in Field
      /\ k \in Int /\ l \in Int /\ s \in Int /\ t \in Int /\ y \in Int
  BY SignerType
<1>2. Cong(k, y + s) /\ Cong(l, y + t)
  BY DEF Room, Moves
<1> HIDE DEF k, l, s, t, y
<1>3. y + s \in Int /\ y + t \in Int
  BY <1>1, PlusType
<1>4. ASSUME k = l PROVE s = t
  <2>1. Cong(y + s, y + t)
    BY <1>1, <1>2, <1>3, <1>4, CongSym, CongTrans
  <2>2. Cong(s, t)
    <3>1. PICK n \in Int : (y + s) - (y + t) = n * Q
      BY <2>1 DEF Cong
    <3>2. s - t = (y + s) - (y + t)
      BY <1>1
    <3> QED
      BY <3>1, <3>2 DEF Cong
  <2> QED
    BY <1>1, <2>2, CongField
<1>5. ASSUME s = t PROVE k = l
  <2>1. Cong(k, l)
    BY <1>1, <1>2, <1>3, <1>5, CongSym, CongTrans
  <2> QED
    BY <1>1, <2>1, CongField
<1> QED
  BY <1>4, <1>5 DEF k, l, s, t

-----------------------------------------------------------------------------
(***************************************************************************)
(* ECDSA.                                                                   *)
(***************************************************************************)

\* Moving one commitment of one party moves every public share.
LEMMA PublicShareMoves ==
    ASSUME PolyOK, NEW p \in Party, NEW t \in Int
    PROVE  /\ PublicShare([poly EXCEPT ![1][1] = (@ + t) % Q], p) \in Field
           /\ Cong(PublicShare([poly EXCEPT ![1][1] = (@ + t) % Q], p), Eval(SumPoly, p) + t)
<1> DEFINE c == poly[1]
           e == (c[1] + t) % Q
           d == [c EXCEPT ![1] = e]
           vss == [poly EXCEPT ![1][1] = (@ + t) % Q]
           f == [k \in Party |-> Eval(poly[k], p)]
           g == [k \in Party |-> Eval(vss[k], p)]
           R == Party \ {1}
<1>1. 1 \in Party /\ p \in Int /\ IsFiniteSet(Party) /\ IsFiniteSet(R)
  BY PartyType, FS_RemoveElement
<1>2. /\ IsPoly(c) /\ c # <<>> /\ c[1] \in Int /\ Eval(c, p) = EvalFrom(c, p, 1)
  <2>1. 1 \in 1 .. Degree + 1
    BY DegreeType
  <2> QED
    BY <1>1, <2>1, PolyType, FieldType
<1>3. c[1] + t \in Int
  BY <1>2, PlusType
<1>4. e \in Int /\ Cong(e, c[1] + t)
  BY <1>3, ModField
<1>5. vss[1] = d /\ \A k \in R : vss[k] = poly[k]
  BY <1>1 DEF PolyOK
<1>6. \A k \in Party : f[k] \in Int
  BY <1>1, PolyType, FieldType
<1> DEFINE x == EvalFrom(c, p, 1)
<1>7. Eval(d, p) \in Int /\ Cong(Eval(d, p), x + t)
  <2>1. IsPoly(d) /\ d # <<>> /\ Cong(EvalFrom(d, p, 1), x + t)
    <3>1. IsPoly(d) /\ Len(d) = Len(c) /\ Cong(EvalFrom(d, p, 1), x + t)
      BY <1>1, <1>2, <1>4, EvalMove
    <3>2. d # <<>>
      BY <1>2, <3>1 DEF IsPoly
    <3> QED
      BY <3>1, <3>2
  <2> HIDE DEF d
  <2>2. 1 \in 1 .. Len(d) + 1
    BY <2>1 DEF IsPoly
  <2> QED
    BY <1>1, <2>1, <2>2, EvalIs, EvalTyped, FieldType
<1>8. f[1] = x /\ x \in Int /\ g[1] = Eval(d, p) /\ \A k \in R : g[k] = f[k]
  BY <1>1, <1>2, <1>5, <1>6
<1> DEFINE F == SumOver(f, R)
           G == SumOver(g, R)
           z == Eval(d, p)
<1> HIDE DEF c, d, e, vss, x, z
<1>9. DOMAIN f = Party /\ DOMAIN g = Party /\ \A k \in Party : g[k] \in Int
  BY <1>6, <1>7, <1>8
<1>10. PublicShare(vss, p) = SumMod(g) /\ Eval(SumPoly, p) = SumMod(f) /\ Eval(SumPoly, p) \in Field
  BY <1>1, SumPolyIs DEF PublicShare
<1> HIDE DEF f, g
<1>11. F = G /\ F \in Int
  BY <1>1, <1>6, <1>8, SumSame, SumTyped
<1>12. SumOver(f, Party) = x + F /\ SumOver(g, Party) = z + F
  <2>1. SumOver(f, Party) = f[1] + F
    BY <1>1, <1>6, SumAny
  <2>2. SumOver(g, Party) = g[1] + G
    BY <1>1, <1>9, SumAny
  <2> QED
    BY <1>8, <1>11, <2>1, <2>2 DEF z
<1>13. /\ SumMod(g) \in Field /\ Cong(SumMod(g), z + F) /\ z + F \in Int
       /\ SumMod(f) \in Field /\ Cong(SumMod(f), x + F) /\ x + F \in Int
  <2>1. /\ SumMod(g) \in Field /\ Cong(SumMod(g), SumOver(g, Party)) /\ SumOver(g, Party) \in Int
    BY <1>1, <1>9, SumModCong
  <2>2. /\ SumMod(f) \in Field /\ Cong(SumMod(f), SumOver(f, Party)) /\ SumOver(f, Party) \in Int
    BY <1>1, <1>6, <1>9, SumModCong
  <2> QED
    BY <1>12, <2>1, <2>2
<1> DEFINE u == SumMod(g)
           v == SumMod(f)
<1>14. u \in Int /\ v \in Int /\ Cong(u, z + F) /\ Cong(v, x + F)
  BY <1>13, FieldType
<1> HIDE DEF u, v, F
<1>15. Cong(u, v + t)
  <2>1. Cong(z + F, (x + t) + F)
    <3>1. x + t \in Int /\ F \in Int /\ z \in Int
      BY <1>7, <1>8, <1>11, PlusType DEF z, F
    <3>2. Cong(z, x + t)
      BY <1>7 DEF z
    <3> QED
      BY <3>1, <3>2, CongRefl, CongAdd
  <2>2. Cong((x + F) + t, v + t)
    BY <1>13, <1>14, CongSym, CongRefl, CongAdd
  <2>3. /\ (x + t) + F = (x + F) + t /\ (x + F) + t \in Int /\ v + t \in Int
    BY <1>8, <1>11, <1>14 DEF F
  <2>4. Cong(u, (x + F) + t)
    BY <1>13, <1>14, <2>1, <2>3, CongTrans
  <2> QED
    BY <1>14, <2>2, <2>3, <2>4, CongTrans
<1> QED
  BY <1>10, <1>13, <1>15 DEF u, v, vss, e, c

\* The share that a signer uses, and the one that another expects of it.
LEMMA EcdsaShares ==
    ASSUME KeyInv, Room, NEW i \in Numbers, NEW j \in Numbers
    PROVE  /\ EcdsaShare(j) \in Field
           /\ Cong(EcdsaShare(j), Lagrange(Id(j), Ids) * (file[Id(j)].x + ChildOf(j).tweak))
           /\ ExpectedShare(i, j) \in Field
           /\ Cong(ExpectedShare(i, j), Lagrange(Id(j), Ids) * (file[Id(j)].x + ChildOf(i).tweak))
<1> DEFINE L == Lagrange(Id(j), Ids)
           x == file[Id(j)].x
           s == ChildOf(j).tweak
           t == ChildOf(i).tweak
           a == ShareAtPath(j)
           b == PublicShare(VssAtPath(i), Id(j))
<1>1. /\ L \in Int /\ x \in Int /\ s \in Int /\ t \in Int /\ PolyOK /\ Id(j) \in Party
      /\ x = Eval(SumPoly, Id(j)) /\ file[Id(i)].vss = poly
  BY SignerType
<1>2. x + s \in Int /\ x + t \in Int
  BY <1>1, PlusType
<1>3. a \in Int /\ Cong(a, x + s)
  <2>1. a = (x + s) % Q
    BY DEF ShareAtPath
  <2> HIDE DEF x, s
  <2> QED
    BY <1>2, <2>1, ModField
<1>4. b \in Int /\ Cong(b, x + t)
  <2>1. VssAtPath(i) = [poly EXCEPT ![1][1] = (@ + t) % Q]
    BY <1>1 DEF VssAtPath
  <2> HIDE DEF t
  <2> QED
    BY <1>1, <2>1, PublicShareMoves, FieldType
<1>5. EcdsaShare(j) = (L * a) % Q /\ ExpectedShare(i, j) = (L * b) % Q
  BY DEF EcdsaShare, ExpectedShare
<1> HIDE DEF L, x, s, t, a, b
<1>6. ASSUME NEW k \in Int, NEW m \in Int, Cong(k, m)
      PROVE  (L * k) % Q \in Field /\ Cong((L * k) % Q, L * m)
  <2>1. L * k \in Int /\ L * m \in Int
    BY <1>1, <1>6
  <2>2. Cong(L * k, L * m)
    BY <1>1, <1>6, CongRefl, CongMul
  <2> QED
    BY <2>1, <2>2, ModField, CongTrans
<1>7. (L * a) % Q \in Field /\ Cong((L * a) % Q, L * (x + s))
  BY <1>2, <1>3, <1>6
<1>8. (L * b) % Q \in Field /\ Cong((L * b) % Q, L * (x + t))
  BY <1>2, <1>4, <1>6
<1> QED
  BY <1>5, <1>7, <1>8 DEF L, x, s, t

LEMMA ScaledEqual ==
    ASSUME NEW a \in Int, ~ Cong(a, 0), NEW x \in Int, NEW s \in Int, NEW t \in Int,
           Cong(a * (x + s), a * (x + t))
    PROVE  Cong(s, t)
<1>1. PICK k \in Int : a * (x + s) - a * (x + t) = k * Q
  BY DEF Cong
<1>2. a * (s - t) - 0 = a * (x + s) - a * (x + t)
  OBVIOUS
<1>3. Cong(a * (s - t), 0) /\ s - t \in Int
  BY <1>1, <1>2 DEF Cong
<1>4. Cong(s - t, 0)
  BY <1>3, Cancel
<1>5. PICK m \in Int : (s - t) - 0 = m * Q
  BY <1>4 DEF Cong
<1>6. s - t = m * Q
  BY <1>3, <1>5
<1> QED
  BY <1>6 DEF Cong

\* The signers of ECDSA accept each other's contributions if they agree on the key.
LEMMA EcdsaAccepts ==
    ASSUME KeyInv, Room, curve = "ECDSA"
    PROVE  (\A i \in Numbers : ~ Rejects(i)) <=> SignersAgree
<1>1. ASSUME NEW i \in Numbers, NEW j \in Numbers
      PROVE  EcdsaShare(j) = ExpectedShare(i, j) <=> ChildOf(i).key = ChildOf(j).key
  <2> DEFINE L == Lagrange(Id(j), Ids)
             x == file[Id(j)].x
             s == ChildOf(j).tweak
             t == ChildOf(i).tweak
             a == EcdsaShare(j)
             b == ExpectedShare(i, j)
  <2>1. /\ L \in Int /\ ~ Cong(L, 0) /\ x \in Int /\ s \in Int /\ t \in Int
        /\ s \in Field /\ t \in Field
    BY SignerType
  <2>2. a \in Field /\ b \in Field /\ Cong(a, L * (x + s)) /\ Cong(b, L * (x + t))
    BY EcdsaShares
  <2>3. a \in Int /\ b \in Int
    BY <2>2, FieldType
  <2>4. s = t <=> ChildOf(i).key = ChildOf(j).key
    BY AgreeTweaks
  <2> HIDE DEF L, x, s, t, a, b
  <2>5. L * (x + s) \in Int /\ L * (x + t) \in Int
    BY <2>1
  <2>6. ASSUME a = b PROVE s = t
    <3>1. Cong(L * (x + s), L * (x + t))
      BY <2>2, <2>3, <2>5, <2>6, CongSym, CongTrans
    <3>2. Cong(s, t)
      BY <2>1, <3>1, ScaledEqual
    <3> QED
      BY <2>1, <3>2, CongField
  <2>7. ASSUME s = t PROVE a = b
    <3>1. Cong(a, b)
      BY <2>2, <2>3, <2>5, <2>7, CongSym, CongTrans
    <3> QED
      BY <2>2, <3>1, CongField
  <2> QED
    BY <2>4, <2>6, <2>7 DEF a, b
<1>2. ASSUME NEW i \in Numbers
      PROVE  Rejects(i) <=> \E j \in Numbers \ {i} : EcdsaShare(j) # ExpectedShare(i, j)
  BY DEF Rejects
<1> QED
  BY <1>1, <1>2 DEF SignersAgree

\* What the signature of ECDSA verifies under.
LEMMA EcdsaVerifies ==
    ASSUME KeyInv, Room, curve = "ECDSA", SignersAgree, NEW i \in Numbers
    PROVE  Verifies(i) <=> Recover([p \in Ids |-> Eval(SumPoly, p)]) = YSum
<1> DEFINE t == ChildOf(i).tweak
           k == ChildOf(i).key
           y == YSum
           E == ValuesFrom(SumPoly, 1)
           R == Recover([p \in Ids |-> Eval(SumPoly, p)])
           h == [j \in Numbers |-> EcdsaShare(j)]
           F == [p \in Ids |-> E[p] + t]
           H == SumOver(h, Numbers)
           WE == Weighted(Ids, E)
           WF == Weighted(Ids, F)
           WO == Weighted(Ids, Ones)
<1>1. /\ t \in Int /\ k \in Int /\ k \in Field /\ y \in Int /\ y \in Field /\ PolyOK
  BY SignerType
<1>2. Cong(k, y + t)
  BY DEF Room, Moves
<1>3. Ids \in SUBSET Party /\ Ids \in SUBSET Points /\ Ids # {} /\ IsFiniteSet(Numbers)
      /\ \A j \in Numbers : Id(j) \in Ids
  BY Signers
<1>4. R \in Field /\ Cong(R, WE) /\ WE \in Int /\ \A p \in Ids : E[p] = Eval(SumPoly, p)
  BY <1>1, <1>3, ValuesRecover
<1>5. R \in Int
  BY <1>4, FieldType
<1>6. \A p \in Ids : E[p] \in Int /\ Ones[p] = 1 /\ Ones[p] \in Int
  <2>1. \A p \in Ids : p \in Int /\ p \in Points
    BY <1>3, PartyType
  <2>2. \A p \in Ids : Eval(SumPoly, p) \in Field
    BY <1>1, <2>1, SumPolyIs
  <2> QED
    BY <1>4, <2>1, <2>2, FieldType DEF Ones
<1> HIDE DEF E
<1>7. \A p \in Ids : F[p] = E[p] + t /\ F[p] \in Int
  BY <1>1, <1>6
<1>8. ASSUME NEW j \in Numbers
      PROVE  h[j] \in Field /\ h[j] \in Int /\ Cong(h[j], Lagrange(Id(j), Ids) * F[Id(j)])
  <2>1. ChildOf(j).tweak = t
    BY AgreeTweaks DEF SignersAgree
  <2>2. file[Id(j)].x = E[Id(j)]
    BY SignerType DEF E
  <2>3. file[Id(j)].x + ChildOf(j).tweak = F[Id(j)]
    BY <1>3, <1>7, <2>1, <2>2
  <2>4. EcdsaShare(j) \in Field /\ Cong(EcdsaShare(j), Lagrange(Id(j), Ids) * F[Id(j)])
    BY <2>3, EcdsaShares
  <2>5. EcdsaShare(j) \in Int
    BY <2>4, FieldType
  <2> QED
    BY <2>4, <2>5
<1> HIDE DEF F, t, k, y, R
<1>9. EcdsaSecret = SumMod(h) /\ DOMAIN h = Numbers
  BY DEF EcdsaSecret
<1> HIDE DEF h
<1>10. EcdsaSecret \in Field /\ Cong(EcdsaSecret, H) /\ H \in Int
  BY <1>3, <1>8, <1>9, SumModCong
<1>11. Cong(H, WF) /\ WF \in Int
  BY <1>7, <1>8, SumOverRoom
<1>12. Cong(WF, 1 * WE + t * WO) /\ WO \in Int
  <2>1. ASSUME NEW p \in Ids
        PROVE  E[p] \in Int /\ Ones[p] \in Int /\ F[p] \in Int /\ Cong(F[p], 1 * E[p] + t * Ones[p])
    <3>1. 1 * E[p] + t * Ones[p] = F[p]
      BY <1>1, <1>6, <1>7
    <3> QED
      BY <1>6, <1>7, <3>1, CongRefl
  <2> QED
    BY <1>1, <1>3, <2>1, 1 \in Int, WeightedLinear, WeightedTyped
<1>13. Cong(WO, 1)
  BY <1>3, WeightedOnes
<1> DEFINE e == EcdsaSecret
<1>14. e \in Int /\ e \in Field /\ Cong(e, H)
  BY <1>10, FieldType
<1> HIDE DEF e, H, WE, WF, WO
<1>15. Cong(e, R + t)
  <2>1. 1 * WE + t * WO = WE + t * WO /\ t * WO \in Int /\ WE + t * WO \in Int /\ t * 1 = t
        /\ R + t \in Int
    BY <1>1, <1>4, <1>5, <1>12 DEF WE
  <2>2. Cong(t * WO, t)
    BY <1>1, <1>12, <1>13, <2>1, 1 \in Int, CongRefl, CongMul
  <2>3. Cong(WE, R) /\ WE \in Int
    BY <1>4, <1>5, CongSym DEF WE, R
  <2>4. Cong(WE + t * WO, R + t)
    BY <1>1, <1>5, <2>1, <2>2, <2>3, CongAdd
  <2>5. Cong(e, WF)
    BY <1>10, <1>11, <1>14, CongTrans DEF H, WF
  <2>6. Cong(WF, WE + t * WO) /\ WF \in Int
    BY <1>11, <1>12, <2>1 DEF WF
  <2>7. Cong(e, WE + t * WO)
    BY <1>14, <2>1, <2>5, <2>6, CongTrans
  <2> QED
    BY <1>14, <2>1, <2>4, <2>7, CongTrans
<1>16. Verifies(i) <=> e = k
  BY DEF Verifies, e, k
<1>17. R + t \in Int /\ y + t \in Int
  BY <1>1, <1>5, PlusType
<1>18. ASSUME R = y PROVE e = k
  <2>1. Cong(e, k)
    BY <1>1, <1>2, <1>14, <1>15, <1>17, <1>18, CongSym, CongTrans
  <2> QED
    BY <1>1, <1>14, <2>1, CongField
<1>19. ASSUME e = k PROVE R = y
  <2>1. Cong(R + t, y + t)
    BY <1>1, <1>2, <1>14, <1>15, <1>17, <1>19, CongSym, CongTrans
  <2>2. PICK n \in Int : (R + t) - (y + t) = n * Q
    BY <2>1 DEF Cong
  <2>3. R - y = (R + t) - (y + t)
    BY <1>1, <1>5
  <2>4. Cong(R, y)
    BY <2>2, <2>3 DEF Cong
  <2> QED
    BY <1>1, <1>4, <2>4, CongField DEF R
<1> QED
  BY <1>16, <1>18, <1>19 DEF R, y

-----------------------------------------------------------------------------
(***************************************************************************)
(* EdDSA.                                                                   *)
(***************************************************************************)

\* The ephemeral polynomial and the challenges of a room.
LEMMA RoomType ==
    ASSUME KeyInv, Room
    PROVE  /\ IsPoly(session.eph) /\ session.eph # <<>> /\ Len(session.eph) \in Nat
           /\ Len(session.eph) >= 1 /\ EphR \in Field /\ EphR \in Int
           /\ \A x \in Int : /\ Eval(session.eph, x) \in Field /\ Eval(session.eph, x) \in Int
                             /\ Eval(session.eph, x) = EvalFrom(session.eph, x, 1)
           /\ \A i \in Numbers : EddsaChallenge(i) \in Field /\ EddsaChallenge(i) \in Int
<1> DEFINE c == session.eph
<1>1. c \in Seq(Field) /\ Len(c) \in 1 .. N /\ N \in Nat
  BY Signers, Sizes DEF Room
<1> HIDE DEF c
<1>2. IsPoly(c)
  BY <1>1, FieldSequence
<1>3. Len(c) \in Nat /\ Len(c) >= 1 /\ 1 \in 1 .. Len(c) + 1 /\ 1 \in 1 .. Len(c)
  BY <1>1
<1>4. c # <<>> /\ c[1] \in Field /\ c[1] \in Int
  <2>1. c # <<>>
    BY <1>3
  <2>2. c[1] \in Field
    BY <1>1, <1>3
  <2> QED
    BY <2>1, <2>2, FieldType
<1>5. \A x \in Int : Eval(c, x) = EvalFrom(c, x, 1) /\ EvalFrom(c, x, 1) \in Field
                     /\ EvalFrom(c, x, 1) \in Int
  BY <1>2, <1>3, EvalIs, EvalTyped
<1>6. EphR = c[1]
  BY DEF EphR, c
<1>7. \A i \in Numbers : EddsaChallenge(i) \in Field /\ EddsaChallenge(i) \in Int
  BY <1>4, <1>6, SignerType, HashAssumption, FieldType DEF EddsaChallenge
<1> QED
  BY <1>2, <1>3, <1>4, <1>5, <1>6, <1>7 DEF c

\* The contribution of a signer, and the one that another expects of it.
LEMMA EddsaShares ==
    ASSUME KeyInv, Room, NEW i \in Numbers, NEW j \in Numbers
    PROVE  /\ LocalSig(j) \in Field
           /\ Cong(LocalSig(j), Eval(session.eph, Id(j)) + EddsaChallenge(j) * file[Id(j)].x)
           /\ ExpectedLocalSig(i, j) \in Field
           /\ Cong(ExpectedLocalSig(i, j),
                   Eval(session.eph, Id(j)) + EddsaChallenge(1) * file[Id(j)].x)
<1> DEFINE r == Eval(session.eph, Id(j))
           x == file[Id(j)].x
           c == EddsaChallenge(j)
           d == EddsaChallenge(1)
           p == Id(j)
<1>1. p \in Party /\ p \in Int /\ 1 \in Numbers
  BY Signers
<1>2. r \in Int /\ c \in Int /\ d \in Int
  BY <1>1, RoomType
<1>3. x \in Int /\ PolyOK /\ x = Eval(SumPoly, p) /\ file[Id(i)].vss = poly
  BY SignerType
<1>4. PublicShare(file[Id(i)].vss, p) = x
  BY <1>1, <1>3, SumPolyIs DEF PublicShare
<1>5. LocalSig(j) = (r + c * x) % Q /\ ExpectedLocalSig(i, j) = (r + d * x) % Q
  BY <1>4 DEF LocalSig, ExpectedLocalSig
<1> HIDE DEF r, x, c, d
<1>6. r + c * x \in Int /\ r + d * x \in Int
  BY <1>2, <1>3
<1> QED
  BY <1>5, <1>6, ModField DEF r, x, c, d

\* A contribution is rejected if it was made for another challenge.
LEMMA EddsaRejects ==
    ASSUME KeyInv, Room, NEW i \in Numbers, NEW j \in Numbers
    PROVE  LocalSig(j) = ExpectedLocalSig(i, j) <=> EddsaChallenge(j) = EddsaChallenge(1)
<1> DEFINE r == Eval(session.eph, Id(j))
           x == file[Id(j)].x
           c == EddsaChallenge(j)
           d == EddsaChallenge(1)
           a == LocalSig(j)
           b == ExpectedLocalSig(i, j)
<1>1. Id(j) \in Party /\ Id(j) \in Int /\ 1 \in Numbers
  BY Signers
<1>2. r \in Int /\ c \in Int /\ d \in Int /\ c \in Field /\ d \in Field
  BY <1>1, RoomType
<1>3. x \in Int /\ ~ Cong(x, 0)
  <2>1. x = Eval(SumPoly, Id(j)) /\ PolyOK /\ x \in Int
    BY SignerType
  <2>2. Id(j) \in 0 .. N
    BY <1>1, PartyType DEF Party
  <2>3. Eval(SumPoly, Id(j)) # 0 /\ Eval(SumPoly, Id(j)) \in Field
    BY <1>1, <2>1, <2>2, SumPolyIs DEF PolyOK, IsGeneric
  <2> HIDE DEF x
  <2> QED
    BY <2>1, <2>3, FieldType, CongField
<1>4. a \in Field /\ b \in Field /\ Cong(a, r + c * x) /\ Cong(b, r + d * x)
  BY EddsaShares
<1> HIDE DEF r, x, c, d, a, b
<1>5. a \in Int /\ b \in Int /\ r + c * x \in Int /\ r + d * x \in Int
  BY <1>2, <1>3, <1>4, FieldType
<1>6. ASSUME a = b PROVE c = d
  <2>1. Cong(r + c * x, r + d * x)
    BY <1>4, <1>5, <1>6, CongSym, CongTrans
  <2>2. PICK k \in Int : (r + c * x) - (r + d * x) = k * Q
    BY <2>1 DEF Cong
  <2>3. x * (0 + c) - x * (0 + d) = (r + c * x) - (r + d * x)
    BY <1>2, <1>3
  <2>4. Cong(x * (0 + c), x * (0 + d))
    BY <2>2, <2>3 DEF Cong
  <2>5. Cong(c, d)
    BY <1>2, <1>3, <2>4, 0 \in Int, ScaledEqual
  <2> QED
    BY <1>2, <2>5, CongField
<1>7. ASSUME c = d PROVE a = b
  <2>1. Cong(a, b)
    BY <1>4, <1>5, <1>7, CongSym, CongTrans
  <2> QED
    BY <1>4, <2>1, CongField
<1> QED
  BY <1>6, <1>7 DEF a, b, c, d

\* What SHA-512 is relied on for: two keys do not give the same challenge.
ChallengeInjective ==
    \A R, k, l \in Field : Challenge(R, k) = Challenge(R, l) => k = l

\* Agreed and enough signers of EdDSA accept each other's contributions, and nobody
\* accepts those of others.
LEMMA EddsaAccepts ==
    ASSUME KeyInv, Room, curve = "EdDSA", NEW i \in Numbers
    PROVE  /\ Cardinality(Ids) > Degree /\ SignersAgree => ~ Rejects(i)
           /\ ChallengeInjective /\ ~ Rejects(i) => Cardinality(Ids) > Degree /\ SignersAgree
<1>1. Cardinality(Ids) \in Int /\ Degree \in Int /\ 1 \in Numbers
  <2>1. Cardinality(Ids) \in 1 .. N /\ 1 \in Numbers
    BY Signers
  <2>2. Degree \in Nat
    BY DegreeType DEF KeyInv
  <2> QED
    BY <2>1, <2>2, Sizes
<1>2. Rejects(i) <=> \/ ~ (Cardinality(Ids) > Degree)
                     \/ \E j \in Numbers : EddsaChallenge(j) # EddsaChallenge(1)
  <2>1. Rejects(i) <=> \/ Cardinality(Ids) <= Degree
                       \/ \E j \in Numbers : LocalSig(j) # ExpectedLocalSig(i, j)
    BY DEF Rejects
  <2>2. Cardinality(Ids) <= Degree <=> ~ (Cardinality(Ids) > Degree)
    BY <1>1
  <2> QED
    BY <2>1, <2>2, EddsaRejects
<1>3. ASSUME SignersAgree, NEW j \in Numbers PROVE EddsaChallenge(j) = EddsaChallenge(1)
  BY <1>1, <1>3 DEF SignersAgree, EddsaChallenge
<1>4. ASSUME ChallengeInjective, \A j \in Numbers : EddsaChallenge(j) = EddsaChallenge(1)
      PROVE  SignersAgree
  <2>1. \A j \in Numbers : ChildOf(j).key \in Field
    BY SignerType
  <2>2. EphR \in Field
    BY RoomType
  <2>3. \A j \in Numbers : ChildOf(j).key = ChildOf(1).key
    BY <1>1, <1>4, <2>1, <2>2 DEF ChallengeInjective, EddsaChallenge
  <2> QED
    BY <2>3 DEF SignersAgree
<1> QED
  BY <1>2, <1>3, <1>4

\* Adding the weighted contributions of agreed signers gives a signature.
LEMMA EddsaVerifies ==
    ASSUME KeyInv, Room, curve = "EdDSA", SignersAgree, Cardinality(Ids) > Degree,
           NEW i \in Numbers
    PROVE  Verifies(i)
<1> DEFINE t == ChildOf(i).tweak
           k == ChildOf(i).key
           y == YSum
           c == EddsaChallenge(i)
           e == session.eph
           R == EphR
           X == ValuesFrom(SumPoly, 1)
           E == ValuesFrom(e, 1)
           F == [p \in Ids |-> E[p] + c * X[p]]
           h == [j \in Numbers |-> Lagrange(Id(j), Ids) * LocalSig(j)]
           H == SumOver(h, Numbers)
           WX == Weighted(Ids, X)
           WE == Weighted(Ids, E)
           WF == Weighted(Ids, F)
           z == SumMod(h)
<1>1. /\ t \in Int /\ k \in Int /\ y \in Int /\ y \in Field /\ PolyOK
  BY SignerType
<1>2. c \in Int /\ R \in Int
  BY RoomType
<1>3. Cong(k, y + t)
  BY DEF Room, Moves
<1>4. /\ Ids \in SUBSET Party /\ Ids \in SUBSET Points /\ IsFiniteSet(Numbers)
      /\ \A j \in Numbers : Id(j) \in Ids /\ Id(j) \in Int /\ Id(j) \in Points
      /\ Cardinality(Ids) = Len(session.signers)
  BY Signers
<1>5. IsPoly(e) /\ e # <<>> /\ Len(e) \in Nat /\ Len(e) >= 1 /\ Cardinality(Ids) = Len(e)
  BY <1>4, RoomType DEF Room
<1>6. 1 \in 1 .. Len(e) + 1 /\ 1 \in 1 .. Len(e) /\ Len(e) >= Len(e) - 1 + 1
  BY <1>5
\* What the shares of the key and those of the ephemeral key recover.
<1>7. WX \in Int /\ Cong(WX, y)
  <2>1. Recover([p \in Ids |-> Eval(SumPoly, p)]) = y
    BY <1>1, <1>4, ValuesRecover
  <2>2. WX \in Int /\ Cong(Recover([p \in Ids |-> Eval(SumPoly, p)]), WX)
    BY <1>1, <1>4, ValuesRecover
  <2> HIDE DEF WX
  <2> QED
    BY <1>1, <2>1, <2>2, CongSym
<1>8. WE \in Int /\ Cong(WE, R)
  <2>1. WE \in Int /\ \A p \in Ids : E[p] \in Int /\ E[p] = EvalFrom(e, p, 1)
    BY <1>4, <1>5, <1>6, ValuesTyped
  <2>2. Cong(WE, EvalFrom(e, 0, 1))
    BY <1>4, <1>5, <1>6, Interpolation
  <2>3. Cong(EvalFrom(e, 0, 1), e[1]) /\ EvalFrom(e, 0, 1) \in Int
    BY <1>5, <1>6, 0 \in Int, EvalAtZero, EvalTyped
  <2>4. e[1] = R
    BY DEF EphR
  <2> HIDE DEF WE, R, e
  <2> QED
    BY <1>2, <2>1, <2>2, <2>3, <2>4, CongTrans
<1>9. \A p \in Ids : X[p] \in Int /\ E[p] \in Int /\ p \in Points /\ p \in Int
  <2>1. \A p \in Ids : E[p] \in Int
    BY <1>4, <1>5, <1>6, ValuesTyped
  <2>2. \A p \in Ids : p \in Points /\ p \in Int
    BY <1>4, PartyType
  <2>3. \A p \in Ids : X[p] = Eval(SumPoly, p)
    BY <1>1, <1>4, ValuesRecover
  <2> HIDE DEF X, E
  <2>4. \A p \in Ids : Eval(SumPoly, p) \in Int
    BY <1>1, <2>2, SumPolyIs, FieldType
  <2> QED
    BY <2>1, <2>2, <2>3, <2>4
<1>10. ASSUME NEW j \in Numbers
       PROVE  /\ E[Id(j)] = Eval(e, Id(j)) /\ X[Id(j)] = file[Id(j)].x
              /\ EddsaChallenge(j) = c
  <2>1. Eval(e, Id(j)) = EvalFrom(e, Id(j), 1)
    BY <1>4, RoomType
  <2>2. E[Id(j)] = EvalFrom(e, Id(j), 1)
    BY <1>4 DEF ValuesFrom
  <2>3. X[Id(j)] = file[Id(j)].x
    BY SignerType
  <2>4. ChildOf(j).key = ChildOf(i).key
    BY DEF SignersAgree
  <2> QED
    BY <2>1, <2>2, <2>3, <2>4 DEF EddsaChallenge
<1> HIDE DEF X, E
<1>11. \A p \in Ids : F[p] = E[p] + c * X[p] /\ F[p] \in Int
  BY <1>2, <1>9
<1>12. ASSUME NEW j \in Numbers
       PROVE  h[j] \in Int /\ Cong(h[j], Lagrange(Id(j), Ids) * F[Id(j)])
  <2> DEFINE a == LocalSig(j)
             b == F[Id(j)]
             L == Lagrange(Id(j), Ids)
  <2>1. a \in Field /\ Cong(a, Eval(e, Id(j)) + EddsaChallenge(j) * file[Id(j)].x)
    BY EddsaShares
  <2>2. b = Eval(e, Id(j)) + EddsaChallenge(j) * file[Id(j)].x /\ b \in Int
    BY <1>4, <1>10, <1>11
  <2>3. L \in Int /\ a \in Int
    BY <2>1, SignerType, FieldType
  <2>4. h[j] = L * a
    OBVIOUS
  <2>5. Cong(a, b)
    BY <2>1, <2>2
  <2> HIDE DEF a, b, L, h
  <2>6. L * a \in Int /\ Cong(L * a, L * b)
    BY <2>2, <2>3, <2>5, CongRefl, CongMul
  <2> QED
    BY <2>4, <2>6 DEF b, L
<1> HIDE DEF F, t, k, y, c, R
<1>13. DOMAIN h = Numbers
  OBVIOUS
<1> HIDE DEF h
<1>14. z \in Field /\ Cong(z, H) /\ H \in Int
  BY <1>4, <1>12, <1>13, SumModCong
<1>15. Cong(H, WF) /\ WF \in Int
  BY <1>11, <1>12, SumOverRoom
<1>16. Cong(WF, 1 * WE + c * WX)
  <2>1. ASSUME NEW p \in Ids
        PROVE  E[p] \in Int /\ X[p] \in Int /\ F[p] \in Int /\ Cong(F[p], 1 * E[p] + c * X[p])
    <3>1. 1 * E[p] + c * X[p] = F[p]
      BY <1>2, <1>9, <1>11
    <3> QED
      BY <1>9, <1>11, <3>1, CongRefl
  <2> QED
    BY <1>2, <1>4, <2>1, 1 \in Int, WeightedLinear
<1>17. z \in Int
  BY <1>14, FieldType
<1>18. /\ Verifies(i) <=> SigOf(i) = (R + c * k) % Q
       /\ SigOf(i) = CHOOSE s \in Field : s = (z + t * c) % Q
  BY DEF Verifies, SigOf, R, c, k, z, h, t
<1> HIDE DEF z, H, WX, WE, WF
<1>19. Cong(z, R + c * y)
  <2>1. 1 * WE + c * WX \in Int /\ 1 * WE + c * WX = WE + c * WX /\ R + c * y \in Int
        /\ c * WX \in Int /\ c * y \in Int
    BY <1>1, <1>2, <1>7, <1>8 DEF R, c, y
  <2>2. Cong(c * WX, c * y)
    BY <1>1, <1>2, <1>7, CongRefl, CongMul DEF c, y
  <2>3. Cong(WE + c * WX, R + c * y)
    BY <1>2, <1>8, <2>1, <2>2, CongAdd DEF R
  <2>4. Cong(z, WF)
    BY <1>14, <1>15, <1>17, CongTrans
  <2>5. Cong(z, WE + c * WX)
    BY <1>15, <1>16, <1>17, <2>1, <2>4, CongTrans
  <2> QED
    BY <1>17, <2>1, <2>3, <2>5, CongTrans
<1>20. z + t * c \in Int /\ R + c * k \in Int /\ Cong(z + t * c, R + c * k)
  <2>1. /\ t \in Int /\ k \in Int /\ y \in Int /\ c \in Int /\ R \in Int /\ Cong(k, y + t)
    BY <1>1, <1>2, <1>3 DEF t, k, y, c, R
  <2>2. /\ z + t * c \in Int /\ R + c * k \in Int /\ t * c \in Int /\ R + c * y \in Int
        /\ y + t \in Int /\ c * (y + t) \in Int /\ c * k \in Int /\ R + c * (y + t) \in Int
        /\ (R + c * y) + t * c = R + c * (y + t)
    BY <1>17, <2>1
  <2>3. Cong(z + t * c, (R + c * y) + t * c)
    BY <1>17, <1>19, <2>2, CongRefl, CongAdd
  <2>4. Cong(y + t, k)
    BY <2>1, <2>2, CongSym
  <2>5. Cong(c * (y + t), c * k)
    BY <2>1, <2>2, <2>4, CongRefl, CongMul
  <2>6. Cong(R + c * (y + t), R + c * k)
    BY <2>1, <2>2, <2>5, CongRefl, CongAdd
  <2> QED
    BY <2>2, <2>3, <2>6, CongTrans
<1>21. (z + t * c) % Q = (R + c * k) % Q /\ (z + t * c) % Q \in Field
  BY <1>20, CongMod, ModField
<1> QED
  BY <1>18, <1>21

-----------------------------------------------------------------------------
(***************************************************************************)
(* Who signs.                                                               *)
(***************************************************************************)

\* Enough signers for one key: every check succeeds.
LEMMA AgreedPass ==
    ASSUME KeyInv, Room, curve \in {"ECDSA", "EdDSA"}, SignersAgree,
           Len(session.signers) > Degree, NEW i \in Numbers
    PROVE  ~ Rejects(i) /\ Verifies(i)
<1>1. Cardinality(Ids) > Degree /\ Ids \in SUBSET Party
  BY Signers
<1>2. CASE curve = "ECDSA"
  <2>1. Recover([p \in Ids |-> Eval(SumPoly, p)]) = YSum
    BY <1>1, ValuesRecover DEF KeyInv
  <2> QED
    BY <1>2, <2>1, EcdsaAccepts, EcdsaVerifies
<1>3. CASE curve = "EdDSA"
  BY <1>1, <1>3, EddsaAccepts, EddsaVerifies
<1> QED
  BY <1>2, <1>3

\* A signature of ECDSA takes more shares than the degree, since fewer recover another
\* secret.
LEMMA EcdsaEnough ==
    ASSUME KeyInv, Room, curve = "ECDSA", SignersAgree, NEW i \in Numbers, Verifies(i)
    PROVE  Len(session.signers) > Degree
<1>1. /\ Ids \in SUBSET Party /\ Cardinality(Ids) = Len(session.signers)
      /\ Cardinality(Ids) \in 1 .. N
  BY Signers
<1>2. Degree \in Nat /\ PolyOK
  BY DegreeType DEF KeyInv
<1>3. Recover([p \in Ids |-> Eval(SumPoly, p)]) = YSum /\ YSum = SumPoly[1]
  BY <1>2, EcdsaVerifies, SumPolyIs
<1>4. Cardinality(Ids) # Degree
  BY <1>1, <1>2, <1>3, ValuesRecover
<1>5. Cardinality(Ids) \notin 1 .. Degree - 1
  BY <1>1, <1>2, <1>3 DEF PolyOK, IsGeneric
<1> QED
  BY <1>1, <1>2, <1>4, <1>5, Sizes

\* Whoever signed has checked that the others sign for the same key.
LEMMA SignedAgree ==
    ASSUME KeyInv, Room, Outcome, curve \in {"ECDSA", "EdDSA"}, ChallengeInjective,
           NEW i \in Numbers, result[i] = "signed"
    PROVE  Len(session.signers) > Degree /\ SignersAgree
<1>1. ~ Rejects(i) /\ Verifies(i) /\ (curve = "ECDSA" => \A j \in Numbers : ~ Rejects(j))
  <2>1. CASE \A j \in Numbers : result[j] = "started"
    BY <2>1
  <2>2. CASE \/ \A j \in Numbers : result[j] = IF Rejects(j) THEN "stopped" ELSE "checked"
             \/ \A j \in Numbers : result[j] = "stopped"
    BY <2>2
  <2>3. CASE /\ curve = "ECDSA" => \A j \in Numbers : ~ Rejects(j)
             /\ \A j \in Numbers :
                   result[j] = IF ~ Rejects(j) /\ Verifies(j) THEN "signed" ELSE "stopped"
    BY <2>3
  <2> QED
    BY <2>1, <2>2, <2>3 DEF Outcome
<1>2. CASE curve = "ECDSA"
  BY <1>1, <1>2, EcdsaAccepts, EcdsaEnough
<1>3. CASE curve = "EdDSA"
  BY <1>1, <1>3, EddsaAccepts, Signers
<1> QED
  BY <1>2, <1>3

\* The checks raise no false alarm, for every field, number of parties, threshold and
\* child key: more signers than the threshold, for one key, are never stopped by a
\* check, and what they make verifies.
THEOREM AgreedSign == Spec => []AgreedSignersSign
<1>1. ASSUME IInv, KeyInv, SessionInv PROVE AgreedSignersSign
  <2> SUFFICES ASSUME Len(session.signers) > Degree, SignersAgree, ~ EphemeralOutgrowsKey,
                      NEW i \in Numbers
               PROVE  result[i] # "stopped"
    BY DEF AgreedSignersSign
  <2>1. session # NoSession
    BY DEF Numbers, NoSession
  <2>2. Room /\ Outcome /\ curve \in {"ECDSA", "EdDSA"}
    BY <1>1, <2>1 DEF SessionInv, IInv, PolyInv
  <2>3. ~ Rejects(i) /\ Verifies(i)
    BY <1>1, <2>2, AgreedPass
  <2> QED
    BY <2>2, <2>3 DEF Outcome
<1> QED
  BY <1>1, SessionInvariance, PTL

\* No signature comes of a room whose signers are for different keys or too few, if two
\* keys do not give the same challenge.
THEOREM OnlyAgreedSign == ChallengeInjective => (Spec => []OnlyAgreedSignersSign)
<1> SUFFICES ASSUME ChallengeInjective PROVE Spec => []OnlyAgreedSignersSign
  OBVIOUS
<1>1. ASSUME IInv, KeyInv, SessionInv PROVE OnlyAgreedSignersSign
  <2> SUFFICES ASSUME NEW i \in Numbers, result[i] = "signed"
               PROVE  Len(session.signers) > Degree /\ SignersAgree
    BY DEF OnlyAgreedSignersSign
  <2>1. session # NoSession
    BY DEF Numbers, NoSession
  <2>2. Room /\ Outcome /\ curve \in {"ECDSA", "EdDSA"}
    BY <1>1, <2>1 DEF SessionInv, IInv, PolyInv
  <2> QED
    BY <1>1, <2>2, SignedAgree
<1> QED
  BY <1>1, SessionInvariance, PTL

==============================================================================
