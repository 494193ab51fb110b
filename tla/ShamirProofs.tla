---------------------------- MODULE ShamirProofs ----------------------------
(***************************************************************************)
(* Shamir sharing over any prime field: the shares of more points than the  *)
(* polynomial has coefficients recover its value at zero, those of one      *)
(* point too few do not, and polynomials and shares add up.  Sums, products *)
(* and values of polynomials are folds, whose recursions module FoldProofs  *)
(* gives; equality modulo Q is written with a witness, which leaves the     *)
(* provers nothing but the integers.                                        *)
(***************************************************************************)
EXTENDS Shamir, FiniteSetTheorems, TLAPS

\* Equal modulo Q.
Cong(a, b) == \E k \in Int : a - b = k * Q

LEMMA PrimeType == Q \in Nat /\ Q >= 2 /\ Q \in Int
  BY FieldAssumption

LEMMA CongRefl == ASSUME NEW a \in Int PROVE Cong(a, a)
<1>1. a - a = 0 * Q
  BY PrimeType
<1> QED
  BY <1>1 DEF Cong

LEMMA CongSym == ASSUME NEW a \in Int, NEW b \in Int, Cong(a, b) PROVE Cong(b, a)
<1>1. PICK k \in Int : a - b = k * Q
  BY DEF Cong
<1>2. b - a = (-k) * Q /\ -k \in Int
  BY <1>1, PrimeType
<1> QED
  BY <1>2 DEF Cong

LEMMA CongTrans ==
    ASSUME NEW a \in Int, NEW b \in Int, NEW c \in Int, Cong(a, b), Cong(b, c)
    PROVE  Cong(a, c)
<1>1. PICK k \in Int : a - b = k * Q
  BY DEF Cong
<1>2. PICK m \in Int : b - c = m * Q
  BY DEF Cong
<1>3. a - c = (k + m) * Q /\ k + m \in Int
  BY <1>1, <1>2, PrimeType
<1> QED
  BY <1>3 DEF Cong

LEMMA CongAdd ==
    ASSUME NEW a \in Int, NEW b \in Int, NEW c \in Int, NEW d \in Int, Cong(a, b), Cong(c, d)
    PROVE  Cong(a + c, b + d) /\ Cong(a - c, b - d)
<1>1. PICK k \in Int : a - b = k * Q
  BY DEF Cong
<1>2. PICK m \in Int : c - d = m * Q
  BY DEF Cong
<1>3. (a + c) - (b + d) = (k + m) * Q /\ k + m \in Int
  BY <1>1, <1>2, PrimeType
<1>4. (a - c) - (b - d) = (k - m) * Q /\ k - m \in Int
  BY <1>1, <1>2, PrimeType
<1> QED
  BY <1>3, <1>4 DEF Cong

LEMMA CongMul ==
    ASSUME NEW a \in Int, NEW b \in Int, NEW c \in Int, NEW d \in Int, Cong(a, b), Cong(c, d)
    PROVE  Cong(a * c, b * d)
<1>1. PICK k \in Int : a - b = k * Q
  BY DEF Cong
<1>2. PICK m \in Int : c - d = m * Q
  BY DEF Cong
<1>3. a * c - b * d = (k * c + b * m) * Q
  <2>1. a = b + k * Q /\ c = d + m * Q
    BY <1>1, <1>2, PrimeType
  <2>2. (b + k * Q) * c = b * c + (k * c) * Q
    BY PrimeType
  <2>3. b * (d + m * Q) = b * d + (b * m) * Q
    BY PrimeType
  <2> QED
    BY <2>1, <2>2, <2>3, PrimeType
<1>4. k * c + b * m \in Int
  OBVIOUS
<1> QED
  BY <1>3, <1>4 DEF Cong

LEMMA ModField == ASSUME NEW a \in Int PROVE a % Q \in Field /\ a % Q \in Int /\ Cong(a % Q, a)
<1>1. a % Q \in Field /\ a % Q \in Int
  BY PrimeType DEF Field
<1>2. a = Q * (a \div Q) + (a % Q) /\ a \div Q \in Int
  BY PrimeType
<1>3. (a % Q) - a = (-(a \div Q)) * Q /\ -(a \div Q) \in Int
  BY <1>1, <1>2, PrimeType
<1> QED
  BY <1>1, <1>3 DEF Cong

LEMMA CongField == ASSUME NEW a \in Field, NEW b \in Field, Cong(a, b) PROVE a = b
<1>1. PICK k \in Int : a - b = k * Q
  BY DEF Cong
<1>2. a \in 0 .. Q - 1 /\ b \in 0 .. Q - 1
  BY DEF Field
<1>3. k < 1
  <2>1. k >= 1 => k * Q >= Q
    BY PrimeType
  <2> QED
    BY <1>1, <1>2, <2>1, PrimeType
<1>4. k > -1
  <2>1. k <= -1 => k * Q <= -Q
    BY PrimeType
  <2> QED
    BY <1>1, <1>2, <2>1, PrimeType
<1> QED
  BY <1>1, <1>2, <1>3, <1>4, PrimeType

LEMMA CongMod ==
    ASSUME NEW a \in Int, NEW b \in Int, Cong(a, b)
    PROVE  a % Q = b % Q
<1>1. Cong(a % Q, a) /\ Cong(b, b % Q)
  BY ModField, CongSym
<1>2. Cong(a % Q, b % Q)
  BY <1>1, ModField, CongTrans
<1> QED
  BY <1>2, ModField, CongField

-----------------------------------------------------------------------------
(***************************************************************************)
(* The field has no zero divisors, so every other element has a reciprocal. *)
(***************************************************************************)

LEMMA LeastOf ==
    ASSUME NEW M, M \subseteq Nat, M # {}
    PROVE  \E m \in M : \A n \in M : m <= n
<1>1. IsWellFoundedOn(OpToRel(<, Nat), Nat)
  BY NatLessThanWellFounded
<1>2. PICK m \in M : \A n \in M : ~ (<<n, m>> \in OpToRel(<, Nat))
  BY <1>1, WFMin
<1>3. ASSUME NEW n \in M PROVE m <= n
  <2>1. n \in Nat /\ m \in Nat
    OBVIOUS
  <2>2. ~ (n < m)
    BY <1>2, <2>1 DEF OpToRel
  <2> QED
    BY <2>1, <2>2
<1> QED
  BY <1>3

\* The least multiple of y that Q divides is Q times y: it would divide Q otherwise.
LEMMA NoZeroDivisor ==
    ASSUME NEW x \in 1 .. Q - 1, NEW y \in 1 .. Q - 1
    PROVE  ~ Cong(x * y, 0)
<1> SUFFICES ASSUME Cong(x * y, 0) PROVE FALSE
  OBVIOUS
<1> DEFINE M == {m \in 1 .. Q : Cong(m * y, 0)}
<1>1. x \in M
  BY PrimeType
<1>2. PICK m \in M : \A n \in M : m <= n
  <2>1. 1 .. Q \subseteq Nat
    BY PrimeType
  <2>2. M \subseteq 1 .. Q
    OBVIOUS
  <2> HIDE DEF M
  <2> QED
    BY <1>1, <2>1, <2>2, LeastOf
<1>3. m \in 1 .. Q - 1 /\ m \in Nat /\ Cong(m * y, 0)
  BY <1>1, <1>2, PrimeType
<1> DEFINE k == Q \div m
           r == Q % m
<1>4. k \in Int /\ r \in 0 .. m - 1 /\ Q = m * k + r
  BY <1>3, PrimeType
<1>5. Cong(r * y, 0)
  <2>1. PICK i \in Int : m * y - 0 = i * Q
    BY <1>3 DEF Cong
  <2>2. r * y = Q * y - (m * k) * y
    <3> HIDE DEF k, r
    <3>1. r = Q - m * k
      BY <1>3, <1>4, PrimeType
    <3> QED
      BY <1>3, <1>4, <3>1, PrimeType
  <2>3. (m * k) * y = k * (i * Q)
    <3> HIDE DEF k, r
    <3>1. (m * k) * y = k * (m * y) /\ m * y = i * Q
      BY <1>3, <1>4, <2>1, PrimeType
    <3> QED
      BY <3>1
  <2>4. r * y - 0 = (y - k * i) * Q /\ y - k * i \in Int
    <3> HIDE DEF k, r
    <3> QED
      BY <1>4, <2>2, <2>3, PrimeType
  <2> QED
    BY <2>4 DEF Cong
<1>6. r = 0
  <2>1. r # 0 => r \in M
    BY <1>3, <1>4, <1>5, PrimeType
  <2> QED
    BY <1>2, <1>3, <1>4, <2>1
<1>7. m = 1
  BY <1>3, <1>6, FieldAssumption, PrimeType
<1>8. Cong(y, 0)
  <2>1. m * y = y
    BY <1>7
  <2> QED
    BY <1>3, <2>1
<1>9. y \in Field /\ 0 \in Field /\ y # 0
  BY PrimeType DEF Field
<1> QED
  BY <1>8, <1>9, CongField

LEMMA ReciprocalWorks ==
    ASSUME NEW x \in Field, x # 0
    PROVE  /\ Reciprocal(x) \in Field /\ Reciprocal(x) \in Int /\ Reciprocal(x) # 0
           /\ Cong(x * Reciprocal(x), 1)
<1>1. x \in 1 .. Q - 1
  BY PrimeType DEF Field
<1> DEFINE f == [y \in Field |-> (x * y) % Q]
<1>2. f \in [Field -> Field]
  BY <1>1, ModField, PrimeType DEF Field
<1>3. ASSUME NEW y \in Field, NEW z \in Field, f[y] = f[z], y > z
      PROVE  FALSE
  <2>1. y \in Int /\ z \in Int /\ y - z \in 1 .. Q - 1
    BY <1>3, PrimeType DEF Field
  <2>2. Cong(x * y, x * z)
    <3>1. x * y \in Int /\ x * z \in Int /\ (x * y) % Q = (x * z) % Q
      BY <1>1, <1>3, <2>1
    <3>2. Cong(x * y, (x * y) % Q) /\ Cong((x * z) % Q, x * z)
      BY <3>1, ModField, CongSym
    <3> QED
      BY <3>1, <3>2, ModField, CongTrans
  <2>3. PICK k \in Int : x * y - x * z = k * Q
    BY <2>2 DEF Cong
  <2>4. x * (y - z) - 0 = k * Q
    BY <1>1, <2>1, <2>3, PrimeType
  <2>5. Cong(x * (y - z), 0)
    BY <2>4 DEF Cong
  <2> QED
    BY <1>1, <2>1, <2>5, NoZeroDivisor
<1>4. f \in Injection(Field, Field)
  <2>1. ASSUME NEW y \in Field, NEW z \in Field, f[y] = f[z] PROVE y = z
    <3>1. ~ (y > z) /\ ~ (z > y)
      BY <1>3, <2>1
    <3> QED
      BY <3>1, PrimeType DEF Field
  <2> HIDE DEF f
  <2> QED
    BY <1>2, <2>1 DEF Injection, IsInjective
<1>5. f \in Surjection(Field, Field)
  <2>1. IsFiniteSet(Field)
    BY PrimeType, FS_Interval DEF Field
  <2> HIDE DEF f
  <2> QED
    BY <1>4, <2>1, FS_Injection
<1>6. \E y \in Field : (x * y) % Q = 1
  <2>1. 1 \in Field
    BY PrimeType DEF Field
  <2>2. PICK y \in Field : f[y] = 1
    <3> HIDE DEF f
    <3> QED
      BY <1>5, <2>1 DEF Surjection
  <2> QED
    BY <2>2
<1> DEFINE y == Reciprocal(x)
<1>7. y \in Field /\ (x * y) % Q = 1
  BY <1>6 DEF Reciprocal
<1> HIDE DEF y
<1>8. y \in Int /\ x * y \in Int
  BY <1>1, <1>7, PrimeType DEF Field
<1>9. Cong(x * y, 1)
  BY <1>7, <1>8, ModField, CongSym
<1>10. y # 0
  <2> SUFFICES ASSUME y = 0 PROVE FALSE
    OBVIOUS
  <2>1. x * y = 0
    BY <1>1
  <2>2. Cong(0, 1) /\ 0 \in Field /\ 1 \in Field
    BY <1>9, <2>1, PrimeType DEF Field
  <2> QED
    BY <2>2, CongField
<1> QED
  BY <1>7, <1>8, <1>9, <1>10 DEF y

-----------------------------------------------------------------------------
(***************************************************************************)
(* Sums.                                                                    *)
(***************************************************************************)

AnyOf(S) == CHOOSE x \in S : TRUE
At(f, i) == f[i]
Plus(e, x, acc) == x + acc
SumFold == INSTANCE FoldProofs WITH op <- Plus, of <- At, choose <- AnyOf

SumOver(f, S) == SumFold!Fold(0, 0, f, S)

LEMMA SumFinite == ASSUME NEW S, IsFiniteSet(S) PROVE SumFold!IsFiniteSet(S)
  BY DEF IsFiniteSet, SumFold!IsFiniteSet

LEMMA AnyChooses == ASSUME NEW S, IsFiniteSet(S) PROVE SumFold!Chooses(S)
<1>1. ASSUME NEW T, T # {} PROVE AnyOf(T) \in T
  BY <1>1 DEF AnyOf
<1> QED
  BY <1>1, SumFinite DEF SumFold!Chooses

LEMMA OverSubsets ==
    ASSUME NEW S, IsFiniteSet(S), NEW G,
           \A s \in SUBSET S : (\A t \in SUBSET s : t # s => t \in G) => s \in G
    PROVE  S \in G
<1>1. SUBSET S \subseteq G
  BY SumFinite, SumFold!SubsetInduction
<1> QED
  BY <1>1

LEMMA SumModIs == ASSUME NEW f PROVE SumMod(f) = SumOver(f, DOMAIN f) % Q
  BY DEF SumMod, FoldFunction, FoldFunctionOnSet, MapThenFoldSet, SumOver, SumFold!Fold,
     SumFold!MapThenFoldSet, Plus, At, AnyOf

LEMMA SumEmpty == ASSUME NEW f PROVE SumOver(f, {}) = 0
  BY FS_EmptySet, AnyChooses, SumFold!FoldUnfolds DEF SumOver

LEMMA SumTyped ==
    ASSUME NEW S, IsFiniteSet(S), NEW f, \A i \in S : f[i] \in Int
    PROVE  SumOver(f, S) \in Int
<1>1. \A i \in S : \A acc \in Int : Plus(0, At(f, i), acc) \in Int
  BY DEF Plus, At
<1>2. SumFold!Chooses(S) /\ 0 \in Int
  BY AnyChooses
<1> QED
  BY <1>1, <1>2, SumFold!FoldTyped DEF SumOver

LEMMA SumAny ==
    ASSUME NEW S, IsFiniteSet(S), NEW f, \A i \in S : f[i] \in Int, NEW a \in S
    PROVE  SumOver(f, S) = f[a] + SumOver(f, S \ {a})
<1> DEFINE D == Int
<1>1. \A i \in S : \A acc \in D : Plus(0, At(f, i), acc) \in D
  BY DEF Plus, At
<1>2. \A i, j \in S : \A acc \in D :
         Plus(0, At(f, i), Plus(0, At(f, j), acc)) = Plus(0, At(f, j), Plus(0, At(f, i), acc))
  BY DEF Plus, At
<1>3. SumFold!Chooses(S) /\ 0 \in D
  BY AnyChooses
<1> HIDE DEF D
<1>4. SumFold!Fold(0, 0, f, S) = Plus(0, At(f, a), SumFold!Fold(0, 0, f, S \ {a}))
  BY <1>1, <1>2, <1>3, SumFold!FoldAny
<1> QED
  BY <1>4 DEF Plus, At, SumOver

LEMMA SumSame ==
    ASSUME NEW S, IsFiniteSet(S), NEW f, NEW g, \A i \in S : f[i] = g[i]
    PROVE  SumOver(f, S) = SumOver(g, S)
<1>1. SumFold!Chooses(S) /\ \A i \in S : At(f, i) = At(g, i)
  BY AnyChooses DEF At
<1> QED
  BY <1>1, SumFold!FoldSame DEF SumOver

\* A sum of combinations is the combination of the sums.
LEMMA SumLinear ==
    ASSUME NEW S, IsFiniteSet(S), NEW f, NEW g, NEW h, NEW c \in Int, NEW d \in Int,
           \A i \in S : f[i] \in Int /\ g[i] \in Int /\ h[i] \in Int
                        /\ Cong(h[i], c * f[i] + d * g[i])
    PROVE  Cong(SumOver(h, S), c * SumOver(f, S) + d * SumOver(g, S))
<1> DEFINE P(s) == Cong(SumOver(h, s), c * SumOver(f, s) + d * SumOver(g, s))
           G == {s \in SUBSET S : P(s)}
<1>1. ASSUME NEW s \in SUBSET S, \A t \in SUBSET s : t # s => t \in G
      PROVE  s \in G
  <2>0. IsFiniteSet(s)
    BY FS_Subset
  <2>1. CASE s = {}
    <3>1. c * 0 + d * 0 = 0 /\ Cong(0, 0)
      BY CongRefl
    <3> QED
      BY <2>1, <3>1, SumEmpty
  <2>2. CASE s # {}
    <3>1. PICK a \in s : TRUE
      BY <2>2
    <3> DEFINE t == s \ {a}
               F == SumOver(f, t)
               K == SumOver(g, t)
               H == SumOver(h, t)
    <3>2. F \in Int /\ K \in Int /\ H \in Int /\ Cong(H, c * F + d * K)
      <4>1. IsFiniteSet(t) /\ t \in G
        BY <1>1, <2>0, FS_RemoveElement
      <4> QED
        BY <4>1, SumTyped
    <3>3. /\ SumOver(f, s) = f[a] + F /\ SumOver(g, s) = g[a] + K /\ SumOver(h, s) = h[a] + H
      BY <2>0, SumAny
    <3> HIDE DEF F, K, H
    <3>4. Cong(h[a] + H, (c * f[a] + d * g[a]) + (c * F + d * K))
      <4>1. c * f[a] + d * g[a] \in Int /\ c * F + d * K \in Int /\ h[a] \in Int
        BY <3>2
      <4> QED
        BY <3>2, <4>1, CongAdd
    <3>5. (c * f[a] + d * g[a]) + (c * F + d * K) = c * (f[a] + F) + d * (g[a] + K)
      BY <3>2
    <3>6. P(s)
      BY <3>3, <3>4, <3>5
    <3> QED
      BY <3>6
  <2> QED
    BY <2>1, <2>2
<1> HIDE DEF G
<1>2. S \in G
  BY <1>1, OverSubsets
<1> QED
  BY <1>2 DEF G

\* The same sum, by other names of what is summed.
LEMMA SumImage ==
    ASSUME NEW S, IsFiniteSet(S), NEW m, NEW f, NEW h,
           \A i, j \in S : m[i] = m[j] => i = j,
           \A i \in S : f[m[i]] \in Int /\ h[i] = f[m[i]]
    PROVE  SumOver(h, S) = SumOver(f, {m[i] : i \in S})
<1> DEFINE Im(s) == {m[i] : i \in s}
           P(s) == SumOver(h, s) = SumOver(f, Im(s))
           G == {s \in SUBSET S : P(s)}
<1>1. ASSUME NEW s \in SUBSET S, \A t \in SUBSET s : t # s => t \in G
      PROVE  s \in G
  <2>1. IsFiniteSet(s)
    BY FS_Subset
  <2>2. IsFiniteSet(Im(s))
    <3> DEFINE z == [i \in s |-> m[i]]
    <3>1. z \in Surjection(s, Im(s))
      BY DEF Surjection
    <3> HIDE DEF z
    <3> QED
      BY <2>1, <3>1, FS_Surjection
  <2>3. CASE s = {}
    <3>1. Im(s) = {}
      BY <2>3
    <3> QED
      BY <2>3, <3>1, SumEmpty
  <2>4. CASE s # {}
    <3>1. PICK a \in s : TRUE
      BY <2>4
    <3>2. s \ {a} \in G
      BY <1>1
    <3>3. Im(s \ {a}) = Im(s) \ {m[a]}
      OBVIOUS
    <3>4. SumOver(h, s) = h[a] + SumOver(h, s \ {a})
      BY <2>1, SumAny
    <3>5. SumOver(f, Im(s)) = f[m[a]] + SumOver(f, Im(s) \ {m[a]})
      <4>1. m[a] \in Im(s) /\ \A i \in Im(s) : f[i] \in Int
        OBVIOUS
      <4> HIDE DEF Im
      <4> QED
        BY <2>2, <4>1, SumAny
    <3> QED
      BY <3>2, <3>3, <3>4, <3>5
  <2> QED
    BY <2>3, <2>4
<1> HIDE DEF G
<1>2. S \in G
  BY <1>1, OverSubsets
<1> QED
  BY <1>2 DEF G

-----------------------------------------------------------------------------
(***************************************************************************)
(* Values of polynomials, from the coefficient k on.                        *)
(***************************************************************************)

Least(S) == Min(S)
Horner(x, c, acc) == (c + acc * x) % Q
Values == INSTANCE FoldProofs WITH op <- Horner, of <- At, choose <- Least

EvalFrom(c, x, k) == Values!Fold(x, 0, c, k .. Len(c))

IsPoly(c) == c \in Seq(Int)

LEMMA EvalIs == ASSUME NEW c, IsPoly(c), NEW x PROVE Eval(c, x) = EvalFrom(c, x, 1)
<1>1. DOMAIN c = 1 .. Len(c)
  BY DEF IsPoly
<1>2. Eval(c, x) = Values!Fold(x, 0, c, DOMAIN c)
  BY DEF Eval, FoldRight, MapThenFoldSet, Values!Fold, Values!MapThenFoldSet, Horner, At, Least
<1> QED
  BY <1>1, <1>2 DEF EvalFrom

LEMMA LeastOfSet == ASSUME NEW S \in SUBSET Nat, S # {} PROVE Least(S) \in S /\ \A n \in S : Least(S) <= n
<1>1. \E m \in S : \A n \in S : m <= n
  BY LeastOf
<1> QED
  BY <1>1 DEF Least, Min

LEMMA LeastChooses == ASSUME NEW k \in Nat, NEW n \in Nat PROVE Values!Chooses(k .. n)
<1>1. IsFiniteSet(k .. n)
  BY FS_Interval
<1>2. Values!IsFiniteSet(k .. n)
  BY <1>1 DEF IsFiniteSet, Values!IsFiniteSet
<1>3. ASSUME NEW T \in SUBSET (k .. n), T # {} PROVE Least(T) \in T
  <2>1. T \in SUBSET Nat
    OBVIOUS
  <2> QED
    BY <1>3, <2>1, LeastOfSet
<1> QED
  BY <1>2, <1>3 DEF Values!Chooses

LEMMA EvalEnd == ASSUME NEW c, IsPoly(c), NEW x PROVE EvalFrom(c, x, Len(c) + 1) = 0
<1>1. Len(c) \in Nat /\ Len(c) + 1 \in Nat /\ (Len(c) + 1) .. Len(c) = {}
  BY DEF IsPoly
<1>2. Values!Chooses((Len(c) + 1) .. Len(c))
  BY <1>1, LeastChooses
<1> QED
  BY <1>1, <1>2, Values!FoldUnfolds DEF EvalFrom

LEMMA EvalStep ==
    ASSUME NEW c, IsPoly(c), NEW x, NEW k \in 1 .. Len(c)
    PROVE  EvalFrom(c, x, k) = (c[k] + EvalFrom(c, x, k + 1) * x) % Q
<1> DEFINE n == Len(c)
           S == k .. n
<1>1. n \in Nat /\ k \in Nat /\ k <= n
  BY DEF IsPoly
<1> HIDE DEF n
<1>2. S # {} /\ S \in SUBSET Nat /\ k \in S /\ \A i \in S : k <= i
  BY <1>1
<1>3. Least(S) \in S /\ Least(S) <= k
  BY <1>2, LeastOfSet
<1>4. Least(S) = k
  BY <1>1, <1>2, <1>3
<1>5. S \ {k} = (k + 1) .. n
  BY <1>1
<1>6. Values!Chooses(S)
  BY <1>1, LeastChooses
<1> HIDE DEF S
<1>7. Values!Fold(x, 0, c, S) = Horner(x, At(c, k), Values!Fold(x, 0, c, S \ {k}))
  BY <1>2, <1>4, <1>6, Values!FoldUnfolds
<1> QED
  BY <1>5, <1>7 DEF EvalFrom, Horner, At, S, n

\* What holds at n+1, and at k if it holds at k+1, holds from 1 on.
LEMMA Downward ==
    ASSUME NEW n \in Nat, NEW G, n + 1 \in G, \A k \in 1 .. n : k + 1 \in G => k \in G
    PROVE  \A k \in 1 .. n + 1 : k \in G
<1> DEFINE M == {m \in 0 .. n : (n + 1) - m \notin G}
<1>1. M = {}
  <2> SUFFICES ASSUME M # {} PROVE FALSE
    OBVIOUS
  <2>1. PICK m \in M : \A i \in M : m <= i
    <3>1. M \subseteq Nat
      OBVIOUS
    <3> HIDE DEF M
    <3> QED
      BY <3>1, LeastOf
  <2>2. m # 0
    BY <2>1
  <2>3. m - 1 \notin M
    BY <2>1
  <2>4. (n + 1) - (m - 1) \in G
    BY <2>1, <2>2, <2>3
  <2>5. (n + 1) - m \in 1 .. n /\ ((n + 1) - m) + 1 = (n + 1) - (m - 1)
    BY <2>1, <2>2
  <2> QED
    BY <2>1, <2>4, <2>5
<1> SUFFICES ASSUME NEW k \in 1 .. n + 1 PROVE k \in G
  OBVIOUS
<1> DEFINE m == (n + 1) - k
<1>2. m \in 0 .. n /\ (n + 1) - m = k
  OBVIOUS
<1>3. m \notin M
  BY <1>1
<1> HIDE DEF m
<1>4. (n + 1) - m \in G
  BY <1>2, <1>3
<1> QED
  BY <1>2, <1>4

LEMMA CoefficientType ==
    ASSUME NEW c, IsPoly(c), NEW k \in 1 .. Len(c)
    PROVE  c[k] \in Int /\ Len(c) \in Nat /\ k \in Nat /\ k + 1 \in 1 .. Len(c) + 1
  BY DEF IsPoly

LEMMA EvalTyped ==
    ASSUME NEW c, IsPoly(c), NEW x \in Int, NEW k \in 1 .. Len(c) + 1
    PROVE  EvalFrom(c, x, k) \in Field /\ EvalFrom(c, x, k) \in Int
<1> DEFINE G == {j \in 1 .. Len(c) + 1 : EvalFrom(c, x, j) \in Field}
<1>1. Len(c) \in Nat /\ 0 \in Field /\ \A y \in Field : y \in Int
  BY PrimeType DEF IsPoly, Field
<1>2. Len(c) + 1 \in G
  BY <1>1, EvalEnd
<1>3. ASSUME NEW j \in 1 .. Len(c), j + 1 \in G PROVE j \in G
  <2>1. c[j] \in Int /\ EvalFrom(c, x, j + 1) \in Int
    BY <1>1, <1>3, CoefficientType
  <2>2. c[j] + EvalFrom(c, x, j + 1) * x \in Int
    BY <2>1
  <2>3. EvalFrom(c, x, j) \in Field
    BY <2>2, EvalStep, ModField
  <2> QED
    BY <1>1, <2>3
<1>4. k \in G
  <2> HIDE DEF G
  <2> QED
    BY <1>1, <1>2, <1>3, Downward
<1> QED
  BY <1>1, <1>4

\* The same without the remainder.
LEMMA EvalCong ==
    ASSUME NEW c, IsPoly(c), NEW x \in Int, NEW k \in 1 .. Len(c)
    PROVE  Cong(EvalFrom(c, x, k), c[k] + EvalFrom(c, x, k + 1) * x)
<1>1. c[k] \in Int /\ EvalFrom(c, x, k + 1) \in Int
  BY CoefficientType, EvalTyped
<1>2. c[k] + EvalFrom(c, x, k + 1) * x \in Int
  BY <1>1
<1> QED
  BY <1>2, EvalStep, ModField

\* At zero, a polynomial has its first coefficient for its value.
LEMMA EvalAtZero ==
    ASSUME NEW c, IsPoly(c), NEW k \in 1 .. Len(c)
    PROVE  Cong(EvalFrom(c, 0, k), c[k])
<1>1. c[k] \in Int /\ EvalFrom(c, 0, k + 1) \in Int
  BY CoefficientType, EvalTyped
<1>2. c[k] + EvalFrom(c, 0, k + 1) * 0 = c[k]
  BY <1>1
<1> QED
  BY <1>2, EvalCong

-----------------------------------------------------------------------------
(***************************************************************************)
(* Lagrange coefficients.                                                   *)
(***************************************************************************)

\* The numbers that may be parties.
Points == 1 .. Q - 1

LEMMA PointsFinite ==
    ASSUME NEW S \in SUBSET Points
    PROVE  IsFiniteSet(S) /\ \A i \in S : i \in Int /\ i \in 1 .. Q - 1
<1>1. IsFiniteSet(Points) /\ Points \subseteq Int
  BY PrimeType, FS_Interval DEF Points
<1>2. IsFiniteSet(S)
  BY <1>1, FS_Subset
<1> QED
  BY <1>1, <1>2 DEF Points

Factor(i, j, acc) == (acc * j * Reciprocal((j - i) % Q)) % Q
Itself(f, i) == i
Products == INSTANCE FoldProofs WITH op <- Factor, of <- Itself, choose <- AnyOf

LEMMA LagrangeIs ==
    ASSUME NEW i, NEW S
    PROVE  Lagrange(i, S) = Products!Fold(i, 1, 0, S \ {i})
  BY DEF Lagrange, FoldSet, MapThenFoldSet, Products!Fold, Products!MapThenFoldSet, Factor, Itself, AnyOf

LEMMA ProductChooses == ASSUME NEW S \in SUBSET Points PROVE Products!Chooses(S)
<1>1. ASSUME NEW T, T # {} PROVE AnyOf(T) \in T
  BY <1>1 DEF AnyOf
<1>2. Products!IsFiniteSet(S)
  BY PointsFinite DEF IsFiniteSet, Products!IsFiniteSet
<1> QED
  BY <1>1, <1>2 DEF Products!Chooses

\* The reciprocal of the difference of two points.
LEMMA DifferenceWorks ==
    ASSUME NEW i \in Points, NEW j \in Points, i # j
    PROVE  Reciprocal((j - i) % Q) \in Int /\ Cong((j - i) * Reciprocal((j - i) % Q), 1)
<1> DEFINE d == (j - i) % Q
<1>1. i \in Field /\ j \in Field /\ i \in Int /\ j \in Int /\ j - i \in Int /\ 0 \in Field
  BY PrimeType DEF Points, Field
<1>2. d \in Field /\ d \in Int /\ Cong(d, j - i)
  BY <1>1, ModField
<1> HIDE DEF d
<1>3. d # 0
  <2> SUFFICES ASSUME d = 0 PROVE FALSE
    OBVIOUS
  <2>1. PICK k \in Int : 0 - (j - i) = k * Q
    BY <1>2 DEF Cong
  <2>2. i - j = k * Q
    BY <1>1, <2>1
  <2>3. Cong(i, j)
    BY <2>2 DEF Cong
  <2> QED
    BY <1>1, <2>3, CongField
<1> DEFINE r == Reciprocal(d)
<1>4. r \in Int /\ Cong(d * r, 1)
  BY <1>2, <1>3, ReciprocalWorks
<1> HIDE DEF r
<1>5. Cong((j - i) * r, d * r)
  BY <1>1, <1>2, <1>4, CongSym, CongRefl, CongMul
<1>6. Cong((j - i) * r, 1)
  <2>1. (j - i) * r \in Int /\ d * r \in Int /\ 1 \in Int
    BY <1>1, <1>2, <1>4
  <2> QED
    BY <1>4, <1>5, <2>1, CongTrans
<1> QED
  BY <1>4, <1>6 DEF r, d

LEMMA FactorCong ==
    ASSUME NEW i \in Points, NEW j \in Points, i # j, NEW acc \in Int
    PROVE  /\ Factor(i, j, acc) \in Field /\ Factor(i, j, acc) \in Int
           /\ Cong(Factor(i, j, acc), acc * (j * Reciprocal((j - i) % Q)))
<1> DEFINE r == Reciprocal((j - i) % Q)
<1>1. r \in Int /\ j \in Int
  BY DifferenceWorks DEF Points
<1> HIDE DEF r
<1>2. acc * j * r \in Int /\ acc * j * r = acc * (j * r)
  BY <1>1
<1>3. Factor(i, j, acc) = (acc * j * r) % Q
  BY DEF Factor, r
<1>4. /\ (acc * j * r) % Q \in Field /\ (acc * j * r) % Q \in Int
      /\ Cong((acc * j * r) % Q, acc * j * r)
  BY <1>2, ModField
<1> QED
  BY <1>2, <1>3, <1>4 DEF r

LEMMA FactorsSwap ==
    ASSUME NEW i \in Points, NEW j \in Points, NEW k \in Points, i # j, i # k, NEW acc \in Int
    PROVE  Cong(Factor(i, j, Factor(i, k, acc)),
                acc * ((j * Reciprocal((j - i) % Q)) * (k * Reciprocal((k - i) % Q))))
<1> DEFINE p == j * Reciprocal((j - i) % Q)
           q == k * Reciprocal((k - i) % Q)
           F == Factor(i, k, acc)
<1>1. p \in Int /\ q \in Int
  <2>1. Reciprocal((j - i) % Q) \in Int /\ Reciprocal((k - i) % Q) \in Int /\ j \in Int /\ k \in Int
    BY DifferenceWorks DEF Points
  <2> QED
    BY <2>1
<1>2. F \in Int /\ Cong(F, acc * q)
  BY FactorCong
<1>3. Factor(i, j, F) \in Int /\ Cong(Factor(i, j, F), F * p)
  <2> HIDE DEF F
  <2> QED
    BY <1>2, FactorCong
<1> HIDE DEF p, q, F
<1>4. acc * q \in Int /\ F * p \in Int /\ (acc * q) * p = acc * (p * q) /\ acc * (p * q) \in Int
  BY <1>1, <1>2
<1>5. Cong(F * p, acc * (p * q))
  BY <1>1, <1>2, <1>4, CongRefl, CongMul
<1>6. Cong(Factor(i, j, F), acc * (p * q))
  BY <1>3, <1>4, <1>5, CongTrans
<1> QED
  BY <1>6 DEF p, q, F

LEMMA LagrangeTyped ==
    ASSUME NEW S \in SUBSET Points, NEW i \in S
    PROVE  Lagrange(i, S) \in Field /\ Lagrange(i, S) \in Int
<1> DEFINE D == Field
<1>1. 1 \in D /\ \A x \in D : x \in Int
  BY PrimeType DEF Field
<1>2. \A j \in S \ {i} : \A acc \in D : Factor(i, Itself(0, j), acc) \in D
  <2> SUFFICES ASSUME NEW j \in S \ {i}, NEW acc \in D PROVE Factor(i, j, acc) \in D
    BY DEF Itself
  <2>1. i \in Points /\ j \in Points /\ i # j /\ acc \in Int
    BY <1>1
  <2> QED
    BY <2>1, FactorCong
<1>3. Products!Chooses(S \ {i})
  BY ProductChooses
<1> HIDE DEF D
<1>4. Products!Fold(i, 1, 0, S \ {i}) \in D
  BY <1>1, <1>2, <1>3, Products!FoldTyped
<1> QED
  BY <1>1, <1>4, LagrangeIs DEF D

LEMMA Cancel ==
    ASSUME NEW x \in Int, NEW y \in Int, ~ Cong(x, 0), Cong(x * y, 0)
    PROVE  Cong(y, 0)
<1> SUFFICES ASSUME ~ Cong(y, 0) PROVE FALSE
  OBVIOUS
<1> DEFINE u == x % Q
           v == y % Q
<1>1. /\ u \in Field /\ u \in Int /\ Cong(u, x) /\ v \in Field /\ v \in Int /\ Cong(v, y)
      /\ Cong(x, u) /\ Cong(y, v)
  BY ModField, CongSym
<1> HIDE DEF u, v
<1>2. u # 0 /\ v # 0
  BY <1>1
<1>3. u \in 1 .. Q - 1 /\ v \in 1 .. Q - 1
  BY <1>1, <1>2, PrimeType DEF Field
<1>4. Cong(u * v, 0)
  <2>1. Cong(u * v, x * y) /\ u * v \in Int /\ x * y \in Int /\ 0 \in Int
    BY <1>1, CongMul
  <2> QED
    BY <2>1, CongTrans
<1> QED
  BY <1>3, <1>4, NoZeroDivisor

\* Distinct points are distinct in the field, and none of them is zero.
LEMMA PointsApart ==
    ASSUME NEW a \in Points
    PROVE  ~ Cong(a, 0) /\ \A b \in Points : a # b => ~ Cong(b - a, 0)
<1>1. \A x \in Points : x \in Field /\ x \in Int /\ x # 0
  BY PrimeType DEF Points, Field
<1>2. ~ Cong(a, 0)
  <2>1. 0 \in Field
    BY PrimeType DEF Field
  <2> QED
    BY <1>1, <2>1, CongField
<1>3. ASSUME NEW b \in Points, a # b, Cong(b - a, 0) PROVE FALSE
  <2>1. PICK k \in Int : (b - a) - 0 = k * Q
    BY <1>3 DEF Cong
  <2>2. b - a = k * Q
    BY <1>1, <2>1
  <2>3. Cong(b, a)
    BY <2>2 DEF Cong
  <2> QED
    BY <1>1, <1>3, <2>3, CongField
<1> QED
  BY <1>2, <1>3

\* No coefficient is zero.
LEMMA LagrangeNonZero ==
    ASSUME NEW S \in SUBSET Points, NEW i \in S
    PROVE  ~ Cong(Lagrange(i, S), 0)
<1> DEFINE D == {x \in Int : ~ Cong(x, 0)}
<1>1. 1 \in D
  <2>1. 1 \in Field /\ 0 \in Field
    BY PrimeType DEF Field
  <2> QED
    BY <2>1, CongField
<1>2. \A j \in S \ {i} : \A acc \in D : Factor(i, Itself(0, j), acc) \in D
  <2> SUFFICES ASSUME NEW j \in S \ {i}, NEW acc \in D PROVE Factor(i, j, acc) \in D
    BY DEF Itself
  <2> DEFINE r == Reciprocal((j - i) % Q)
             d == j - i
             F == Factor(i, j, acc)
  <2>1. /\ i \in Points /\ j \in Points /\ i # j /\ acc \in Int /\ ~ Cong(acc, 0)
        /\ i \in Int /\ j \in Int /\ d \in Int
    BY PointsFinite
  <2>2. r \in Int /\ Cong(d * r, 1) /\ ~ Cong(j, 0)
    BY <2>1, DifferenceWorks, PointsApart
  <2>3. F \in Int /\ Cong(F, acc * (j * r))
    BY <2>1, FactorCong
  <2> SUFFICES ASSUME Cong(F, 0) PROVE FALSE
    BY <2>3
  <2> HIDE DEF r, d, F
  <2>4. j * r \in Int /\ acc * (j * r) \in Int /\ d * r \in Int
    BY <2>1, <2>2
  <2>5. Cong(acc * (j * r), 0)
    BY <2>3, <2>4, 0 \in Int, CongSym, CongTrans
  <2>6. Cong(j * r, 0)
    BY <2>1, <2>4, <2>5, Cancel
  <2>7. Cong(r, 0)
    BY <2>1, <2>2, <2>6, Cancel
  <2>8. Cong(d * r, 0)
    <3>1. Cong(d * r, d * 0)
      BY <2>1, <2>2, <2>7, 0 \in Int, CongRefl, CongMul
    <3>2. d * 0 = 0
      BY <2>1
    <3> QED
      BY <3>1, <3>2
  <2>9. Cong(1, 0)
    BY <2>2, <2>4, <2>8, 0 \in Int, 1 \in Int, CongSym, CongTrans
  <2> QED
    BY <1>1, <2>9
<1>3. Products!Chooses(S \ {i})
  BY ProductChooses
<1> HIDE DEF D
<1>4. Products!Fold(i, 1, 0, S \ {i}) \in D
  BY <1>1, <1>2, <1>3, Products!FoldTyped
<1> QED
  BY <1>4, LagrangeIs DEF D

\* With one point more, the coefficient of i has one factor more.
LEMMA LagrangeMore ==
    ASSUME NEW S \in SUBSET Points, NEW i \in S, NEW a \in S, a # i
    PROVE  Lagrange(i, S) = Factor(i, a, Lagrange(i, S \ {a}))
<1> DEFINE D == Field
           T == S \ {i}
<1>1. 1 \in D /\ \A x \in D : x \in Int
  BY PrimeType DEF Field
<1>2. \A j \in T : \A acc \in D : Factor(i, Itself(0, j), acc) \in D
  <2> SUFFICES ASSUME NEW j \in T, NEW acc \in D PROVE Factor(i, j, acc) \in D
    BY DEF Itself
  <2>1. i \in Points /\ j \in Points /\ i # j /\ acc \in Int
    BY <1>1
  <2> QED
    BY <2>1, FactorCong
<1>3. \A j, k \in T : \A acc \in D :
         Factor(i, Itself(0, j), Factor(i, Itself(0, k), acc))
         = Factor(i, Itself(0, k), Factor(i, Itself(0, j), acc))
  <2> SUFFICES ASSUME NEW j \in T, NEW k \in T, NEW acc \in D
               PROVE  Factor(i, j, Factor(i, k, acc)) = Factor(i, k, Factor(i, j, acc))
    BY DEF Itself
  <2>1. i \in Points /\ j \in Points /\ k \in Points /\ i # j /\ i # k /\ acc \in Int
    BY <1>1
  <2> DEFINE p == j * Reciprocal((j - i) % Q)
             q == k * Reciprocal((k - i) % Q)
             X == Factor(i, j, Factor(i, k, acc))
             Y == Factor(i, k, Factor(i, j, acc))
  <2>2. Cong(X, acc * (p * q)) /\ Cong(Y, acc * (q * p))
    BY <2>1, FactorsSwap
  <2>3. p \in Int /\ q \in Int
    <3>1. /\ Reciprocal((j - i) % Q) \in Int /\ Reciprocal((k - i) % Q) \in Int
          /\ j \in Int /\ k \in Int
      BY <2>1, DifferenceWorks DEF Points
    <3> QED
      BY <3>1
  <2>4. X \in Field /\ Y \in Field /\ X \in Int /\ Y \in Int
    BY <2>1, FactorCong
  <2> HIDE DEF p, q, X, Y
  <2>5. acc * (p * q) = acc * (q * p) /\ acc * (p * q) \in Int
    BY <2>1, <2>3
  <2>6. Cong(X, Y)
    BY <2>2, <2>4, <2>5, CongSym, CongTrans
  <2>7. X = Y
    BY <2>4, <2>6, CongField
  <2> QED
    BY <2>7 DEF X, Y
<1>4. Products!Chooses(T) /\ a \in T
  BY ProductChooses
<1>5. T \ {a} = (S \ {a}) \ {i}
  OBVIOUS
<1> HIDE DEF D, T
<1>6. Products!Fold(i, 1, 0, T) = Factor(i, Itself(0, a), Products!Fold(i, 1, 0, T \ {a}))
  BY <1>1, <1>2, <1>3, <1>4, Products!FoldAny
<1> QED
  BY <1>5, <1>6, LagrangeIs DEF Itself, T

LEMMA LagrangeStep ==
    ASSUME NEW S \in SUBSET Points, NEW i \in S, NEW a \in S, a # i
    PROVE  Cong(Lagrange(i, S) * (i - a), (-a) * Lagrange(i, S \ {a}))
<1> DEFINE P == Lagrange(i, S \ {a})
           L == Lagrange(i, S)
           r == Reciprocal((a - i) % Q)
<1>1. i \in Points /\ a \in Points /\ i \in Int /\ a \in Int
  BY PointsFinite
<1>2. P \in Int /\ L \in Int
  BY LagrangeTyped
<1>3. r \in Int /\ Cong((a - i) * r, 1)
  BY <1>1, DifferenceWorks
<1>4. Cong(L, P * (a * r))
  BY <1>1, <1>2, LagrangeMore, FactorCong
<1> HIDE DEF P, L, r
<1>5. Cong(L * (i - a), (P * (a * r)) * (i - a))
  <2>1. P * (a * r) \in Int /\ i - a \in Int
    BY <1>1, <1>2, <1>3
  <2> QED
    BY <1>2, <1>4, <2>1, CongRefl, CongMul
<1>6. (P * (a * r)) * (i - a) = ((-a) * P) * ((a - i) * r)
  BY <1>1, <1>2, <1>3
<1>7. Cong(((-a) * P) * ((a - i) * r), ((-a) * P) * 1)
  <2>1. (-a) * P \in Int /\ (a - i) * r \in Int /\ 1 \in Int
    BY <1>1, <1>2, <1>3
  <2> QED
    BY <1>3, <2>1, CongRefl, CongMul
<1>8. ((-a) * P) * 1 = (-a) * P
  BY <1>1, <1>2
<1>9. /\ L * (i - a) \in Int /\ (P * (a * r)) * (i - a) \in Int /\ (-a) * P \in Int
  BY <1>1, <1>2, <1>3
<1>10. Cong(L * (i - a), (-a) * P)
  BY <1>5, <1>6, <1>7, <1>8, <1>9, CongTrans
<1> QED
  BY <1>10 DEF P, L

-----------------------------------------------------------------------------
(***************************************************************************)
(* Recovery: the sum of values, each with the Lagrange coefficient of its   *)
(* point.                                                                   *)
(***************************************************************************)

Weighted(S, F) == SumOver([i \in S |-> Lagrange(i, S) * F[i]], S)

LEMMA WeightedTyped ==
    ASSUME NEW S \in SUBSET Points, NEW F, \A i \in S : F[i] \in Int
    PROVE  /\ Weighted(S, F) \in Int
           /\ \A i \in S : [j \in S |-> Lagrange(j, S) * F[j]][i] \in Int
<1>1. \A i \in S : [j \in S |-> Lagrange(j, S) * F[j]][i] \in Int
  BY LagrangeTyped
<1> QED
  BY <1>1, PointsFinite, SumTyped DEF Weighted

LEMMA RecoverIs ==
    ASSUME NEW S, NEW F
    PROVE  Recover([i \in S |-> F[i]]) = Weighted(S, F) % Q
<1> DEFINE h == [i \in S |-> Lagrange(i, S) * [j \in S |-> F[j]][i]]
           g == [i \in S |-> Lagrange(i, S) * F[i]]
<1>1. h = g
  OBVIOUS
<1>2. Recover([i \in S |-> F[i]]) = SumMod(h)
  BY DEF Recover
<1>3. DOMAIN g = S
  OBVIOUS
<1> HIDE DEF g, h
<1> QED
  BY <1>1, <1>2, <1>3, SumModIs DEF Weighted, g

LEMMA WeightedLinear ==
    ASSUME NEW S \in SUBSET Points, NEW F, NEW G, NEW H, NEW c \in Int, NEW d \in Int,
           \A i \in S : F[i] \in Int /\ G[i] \in Int /\ H[i] \in Int
                        /\ Cong(H[i], c * F[i] + d * G[i])
    PROVE  Cong(Weighted(S, H), c * Weighted(S, F) + d * Weighted(S, G))
<1> DEFINE f == [i \in S |-> Lagrange(i, S) * F[i]]
           g == [i \in S |-> Lagrange(i, S) * G[i]]
           h == [i \in S |-> Lagrange(i, S) * H[i]]
<1>1. ASSUME NEW i \in S
      PROVE  f[i] \in Int /\ g[i] \in Int /\ h[i] \in Int /\ Cong(h[i], c * f[i] + d * g[i])
  <2> DEFINE L == Lagrange(i, S)
             x == F[i]
             y == G[i]
             z == H[i]
  <2>1. L \in Int /\ x \in Int /\ y \in Int /\ z \in Int /\ Cong(z, c * x + d * y)
    BY LagrangeTyped
  <2>2. f[i] = L * x /\ g[i] = L * y /\ h[i] = L * z
    OBVIOUS
  <2> HIDE DEF L, x, y, z, f, g, h
  <2>3. Cong(L * z, L * (c * x + d * y))
    <3>1. c * x + d * y \in Int
      BY <2>1
    <3> QED
      BY <2>1, <3>1, CongRefl, CongMul
  <2>4. L * (c * x + d * y) = c * (L * x) + d * (L * y)
    BY <2>1
  <2>5. L * x \in Int /\ L * y \in Int /\ L * z \in Int
    BY <2>1
  <2> QED
    BY <2>2, <2>3, <2>4, <2>5
<1>2. IsFiniteSet(S)
  BY PointsFinite
<1> HIDE DEF f, g, h
<1>3. Cong(SumOver(h, S), c * SumOver(f, S) + d * SumOver(g, S))
  BY <1>1, <1>2, SumLinear
<1> QED
  BY <1>3 DEF Weighted, f, g, h

\* Values that are zero at the point a do without it.
LEMMA WeightedShift ==
    ASSUME NEW S \in SUBSET Points, NEW a \in S, NEW F, NEW H,
           \A i \in S : F[i] \in Int /\ H[i] \in Int /\ Cong(H[i], (i - a) * F[i])
    PROVE  Cong(Weighted(S, H), (-a) * Weighted(S \ {a}, F))
<1> DEFINE T == S \ {a}
           f == [i \in T |-> Lagrange(i, T) * F[i]]
           h == [i \in S |-> Lagrange(i, S) * H[i]]
<1>0. a \in Int /\ -a \in Int /\ T \in SUBSET Points /\ IsFiniteSet(S) /\ IsFiniteSet(T)
  <2>1. T \in SUBSET Points
    OBVIOUS
  <2>2. a \in Int /\ IsFiniteSet(S) /\ IsFiniteSet(T)
    BY <2>1, PointsFinite
  <2> QED
    BY <2>1, <2>2
<1>1. ASSUME NEW i \in T
      PROVE  f[i] \in Int /\ h[i] \in Int /\ Cong(h[i], (-a) * f[i] + 0 * f[i])
  <2> DEFINE L == Lagrange(i, S)
             P == Lagrange(i, T)
             x == F[i]
             z == H[i]
  <2>1. /\ L \in Int /\ P \in Int /\ x \in Int /\ z \in Int /\ i \in Int
        /\ Cong(z, (i - a) * x) /\ Cong(L * (i - a), (-a) * P)
    BY <1>0, LagrangeTyped, LagrangeStep, PointsFinite
  <2>2. f[i] = P * x /\ h[i] = L * z
    OBVIOUS
  <2> HIDE DEF L, P, x, z, f, h
  <2>3. Cong(L * z, L * ((i - a) * x))
    <3>1. (i - a) * x \in Int
      BY <1>0, <2>1
    <3> QED
      BY <2>1, <3>1, CongRefl, CongMul
  <2>4. L * ((i - a) * x) = (L * (i - a)) * x
    BY <1>0, <2>1
  <2>5. Cong((L * (i - a)) * x, ((-a) * P) * x)
    <3>1. L * (i - a) \in Int /\ (-a) * P \in Int
      BY <1>0, <2>1
    <3> QED
      BY <2>1, <3>1, CongRefl, CongMul
  <2>6. ((-a) * P) * x = (-a) * (P * x) + 0 * (P * x)
    BY <1>0, <2>1
  <2>7. /\ L * z \in Int /\ P * x \in Int /\ (L * (i - a)) * x \in Int
        /\ ((-a) * P) * x \in Int
    BY <1>0, <2>1
  <2>8. Cong(L * z, ((-a) * P) * x)
    BY <2>3, <2>4, <2>5, <2>7, CongTrans
  <2> QED
    BY <2>2, <2>6, <2>7, <2>8
<1>2. h[a] \in Int /\ Cong(h[a], 0)
  <2> DEFINE L == Lagrange(a, S)
             z == H[a]
  <2>1. L \in Int /\ z \in Int /\ Cong(z, (a - a) * F[a]) /\ F[a] \in Int
    BY LagrangeTyped
  <2>2. h[a] = L * z /\ (a - a) * F[a] = 0 /\ 0 \in Int
    BY <1>0, <2>1
  <2> HIDE DEF L, z, h
  <2>3. Cong(L * z, L * 0)
    BY <2>1, <2>2, CongRefl, CongMul
  <2>4. L * 0 = 0 /\ L * z \in Int
    BY <2>1
  <2> QED
    BY <2>2, <2>3, <2>4
<1>3. \A i \in S : h[i] \in Int
  BY <1>1, <1>2
<1> DEFINE X == SumOver(h, T)
           Y == SumOver(f, T)
<1> HIDE DEF f, h
<1>4. SumOver(h, S) = h[a] + X
  BY <1>0, <1>3, SumAny
<1>5. X \in Int /\ Y \in Int
  BY <1>0, <1>1, SumTyped
<1>6. Cong(X, (-a) * Y + 0 * Y)
  <2> DEFINE c == -a
             d == 0
  <2>1. c \in Int /\ d \in Int
    BY <1>0
  <2>2. \A i \in T : f[i] \in Int /\ h[i] \in Int /\ Cong(h[i], c * f[i] + d * f[i])
    BY <1>1
  <2> HIDE DEF c, d
  <2>3. Cong(SumOver(h, T), c * SumOver(f, T) + d * SumOver(f, T))
    BY <1>0, <2>1, <2>2, SumLinear
  <2> QED
    BY <2>3 DEF c, d
<1> HIDE DEF X, Y
<1>7. (-a) * Y + 0 * Y = (-a) * Y /\ 0 + (-a) * Y = (-a) * Y /\ (-a) * Y \in Int
  BY <1>0, <1>5
<1>8. Cong(h[a] + X, 0 + (-a) * Y)
  <2> DEFINE y == (-a) * Y
  <2>1. y \in Int /\ Cong(X, y)
    BY <1>6, <1>7
  <2> HIDE DEF y
  <2>2. Cong(h[a] + X, 0 + y)
    BY <1>2, <1>5, <2>1, 0 \in Int, CongAdd
  <2> QED
    BY <2>2 DEF y
<1> QED
  BY <1>4, <1>7, <1>8 DEF Weighted, X, Y, f, h

Ones == [i \in Points |-> 1]

\* The Lagrange coefficients add up to one.
LEMMA WeightedOnes ==
    ASSUME NEW S \in SUBSET Points, S # {}
    PROVE  Cong(Weighted(S, Ones), 1)
<1> DEFINE G == {s \in SUBSET S : s # {} => Cong(Weighted(s, Ones), 1)}
<1>1. ASSUME NEW s \in SUBSET S, \A t \in SUBSET s : t # s => t \in G
      PROVE  s \in G
  <2> SUFFICES ASSUME s # {} PROVE Cong(Weighted(s, Ones), 1)
    OBVIOUS
  <2>1. PICK a \in s : TRUE
    OBVIOUS
  <2>2. s \in SUBSET Points /\ a \in Points /\ a \in Int /\ \A i \in s : Ones[i] = 1
    BY PointsFinite DEF Ones
  <2>3. CASE s = {a}
    <3> DEFINE h == [i \in s |-> Lagrange(i, s) * Ones[i]]
    <3>1. Lagrange(a, s) = 1
      <4>1. s \ {a} = {} /\ Products!Chooses({})
        BY <2>3, ProductChooses
      <4>2. Products!Fold(a, 1, 0, {}) = 1
        BY <4>1, Products!FoldUnfolds
      <4> QED
        BY <4>1, <4>2, LagrangeIs
    <3>2. h[a] = 1 /\ \A i \in s : h[i] \in Int
      BY <2>2, <2>3, <3>1
    <3>3. IsFiniteSet(s) /\ s \ {a} = {} /\ a \in s
      BY <2>2, <2>3, PointsFinite
    <3> HIDE DEF h
    <3>4. SumOver(h, s) = 1
      BY <3>2, <3>3, SumAny, SumEmpty
    <3> QED
      BY <3>4, CongRefl DEF Weighted, h
  <2>4. CASE s # {a}
    <3>1. PICK b \in s : b # a
      BY <2>1, <2>4
    <3>2. b \in Points /\ b \in Int
      BY <2>2, PointsFinite
    <3> DEFINE A == [i \in s |-> i - a]
               B == [i \in s |-> i - b]
               K == [i \in s |-> b - a]
               W == Weighted(s, Ones)
               WA == Weighted(s, A)
               WB == Weighted(s, B)
               WK == Weighted(s, K)
    <3>3. \A i \in s : /\ i \in Int /\ Ones[i] \in Int /\ A[i] = i - a /\ B[i] = i - b /\ K[i] = b - a
                       /\ A[i] \in Int /\ B[i] \in Int /\ K[i] \in Int
      BY <2>2, <3>2, PointsFinite
    <3> HIDE DEF A, B, K
    <3>4. W \in Int /\ WA \in Int /\ WB \in Int /\ WK \in Int
      BY <2>2, <3>3, WeightedTyped
    <3>5. Cong(WA, -a)
      <4> DEFINE w == Weighted(s \ {a}, Ones)
      <4>1. \A i \in s : Cong(A[i], (i - a) * Ones[i])
        <5> SUFFICES ASSUME NEW i \in s PROVE Cong(A[i], (i - a) * Ones[i])
          OBVIOUS
        <5>1. (i - a) * Ones[i] = A[i]
          BY <2>2, <3>3
        <5> QED
          BY <3>3, <5>1, CongRefl
      <4>2. Cong(WA, (-a) * w)
        BY <2>2, <3>3, <4>1, WeightedShift
      <4>3. w \in Int /\ Cong(w, 1)
        <5>1. s \ {a} \in G /\ s \ {a} # {} /\ s \ {a} \in SUBSET Points
          BY <1>1, <2>1, <2>2, <3>1
        <5>2. \A i \in s \ {a} : Ones[i] \in Int
          BY <3>3
        <5> QED
          BY <5>1, <5>2, WeightedTyped
      <4> HIDE DEF w
      <4>4. Cong((-a) * w, (-a) * 1) /\ (-a) * 1 = -a /\ (-a) * w \in Int /\ -a \in Int
        BY <2>2, <4>3, CongRefl, CongMul
      <4> QED
        BY <3>4, <4>2, <4>4, CongTrans
    <3>6. Cong(WB, -b)
      <4> DEFINE w == Weighted(s \ {b}, Ones)
      <4>1. \A i \in s : Cong(B[i], (i - b) * Ones[i])
        <5> SUFFICES ASSUME NEW i \in s PROVE Cong(B[i], (i - b) * Ones[i])
          OBVIOUS
        <5>1. (i - b) * Ones[i] = B[i]
          BY <2>2, <3>2, <3>3
        <5> QED
          BY <3>3, <5>1, CongRefl
      <4>2. Cong(WB, (-b) * w)
        BY <2>2, <3>1, <3>3, <4>1, WeightedShift
      <4>3. w \in Int /\ Cong(w, 1)
        <5>1. s \ {b} \in G /\ s \ {b} # {} /\ s \ {b} \in SUBSET Points
          BY <1>1, <2>1, <2>2, <3>1
        <5>2. \A i \in s \ {b} : Ones[i] \in Int
          BY <3>3
        <5> QED
          BY <5>1, <5>2, WeightedTyped
      <4> HIDE DEF w
      <4>4. Cong((-b) * w, (-b) * 1) /\ (-b) * 1 = -b /\ (-b) * w \in Int /\ -b \in Int
        BY <3>2, <4>3, CongRefl, CongMul
      <4> QED
        BY <3>4, <4>2, <4>4, CongTrans
    <3>7. Cong(WK, 1 * WA + (-1) * WB)
      <4>1. \A i \in s : Cong(K[i], 1 * A[i] + (-1) * B[i])
        <5> SUFFICES ASSUME NEW i \in s PROVE Cong(K[i], 1 * A[i] + (-1) * B[i])
          OBVIOUS
        <5>1. 1 * A[i] + (-1) * B[i] = K[i]
          BY <2>2, <3>2, <3>3
        <5> QED
          BY <3>3, <5>1, CongRefl
      <4> DEFINE m == -1
      <4>2. 1 \in Int /\ m \in Int
        OBVIOUS
      <4>3. \A i \in s : Cong(K[i], 1 * A[i] + m * B[i])
        BY <4>1
      <4> HIDE DEF m
      <4>4. Cong(WK, 1 * WA + m * WB)
        BY <2>2, <3>3, <4>2, <4>3, WeightedLinear
      <4> QED
        BY <4>4 DEF m
    <3>8. Cong(WK, (b - a) * W + 0 * W)
      <4>1. \A i \in s : Cong(K[i], (b - a) * Ones[i] + 0 * Ones[i])
        <5> SUFFICES ASSUME NEW i \in s PROVE Cong(K[i], (b - a) * Ones[i] + 0 * Ones[i])
          OBVIOUS
        <5>1. (b - a) * Ones[i] + 0 * Ones[i] = K[i]
          BY <2>2, <3>2, <3>3
        <5> QED
          BY <3>3, <5>1, CongRefl
      <4>2. b - a \in Int /\ 0 \in Int
        BY <2>2, <3>2
      <4> QED
        BY <2>2, <3>3, <4>1, <4>2, WeightedLinear
    <3> HIDE DEF W, WA, WB, WK
    <3>9. Cong((b - a) * W, b - a)
      <4>1. 1 * WA + (-1) * WB = WA - WB /\ (b - a) * W + 0 * W = (b - a) * W
        BY <2>2, <3>2, <3>4
      <4>2. /\ (b - a) * W \in Int /\ WA - WB \in Int /\ (-a) - (-b) \in Int
            /\ (-a) - (-b) = b - a /\ -a \in Int /\ -b \in Int
        BY <2>2, <3>2, <3>4
      <4>3. Cong(WA - WB, (-a) - (-b))
        BY <3>4, <3>5, <3>6, <4>2, CongAdd
      <4>4. Cong((b - a) * W, WK)
        BY <3>4, <3>8, <4>1, <4>2, CongSym
      <4>5. Cong(WK, (-a) - (-b))
        BY <3>4, <3>7, <4>1, <4>2, <4>3, CongTrans
      <4> QED
        BY <3>4, <4>2, <4>4, <4>5, CongTrans
    <3>10. Cong((b - a) * (W - 1), 0)
      <4>1. PICK k \in Int : (b - a) * W - (b - a) = k * Q
        BY <3>9 DEF Cong
      <4>2. (b - a) * (W - 1) - 0 = (b - a) * W - (b - a)
        BY <2>2, <3>2, <3>4
      <4> QED
        BY <4>1, <4>2 DEF Cong
    <3>11. Cong(W - 1, 0)
      <4>1. b - a \in Int /\ W - 1 \in Int /\ ~ Cong(b - a, 0)
        BY <2>2, <3>1, <3>2, <3>4, PointsApart
      <4> QED
        BY <3>10, <4>1, Cancel
    <3>12. Cong(W, 1)
      <4>1. PICK k \in Int : (W - 1) - 0 = k * Q
        BY <3>11 DEF Cong
      <4>2. W - 1 = k * Q
        BY <3>4, <4>1
      <4> QED
        BY <4>2 DEF Cong
    <3> QED
      BY <3>12 DEF W
  <2> QED
    BY <2>3, <2>4
<1>2. IsFiniteSet(S)
  BY PointsFinite
<1> HIDE DEF G
<1>3. S \in G
  BY <1>1, <1>2, OverSubsets
<1> QED
  BY <1>3 DEF G

-----------------------------------------------------------------------------
(***************************************************************************)
(* What shares recover: as many as the polynomial has coefficients, its     *)
(* value at zero, and one fewer another value.                              *)
(***************************************************************************)

\* The values of a polynomial from the coefficient k on.
ValuesFrom(c, k) == [x \in Points |-> EvalFrom(c, x, k)]

LEMMA ValuesTyped ==
    ASSUME NEW c, IsPoly(c), NEW k \in 1 .. Len(c) + 1, NEW S \in SUBSET Points
    PROVE  /\ \A i \in S : ValuesFrom(c, k)[i] \in Int /\ ValuesFrom(c, k)[i] = EvalFrom(c, i, k)
           /\ Weighted(S, ValuesFrom(c, k)) \in Int
<1>1. ASSUME NEW i \in S
      PROVE  ValuesFrom(c, k)[i] \in Int /\ ValuesFrom(c, k)[i] = EvalFrom(c, i, k)
  <2>1. i \in Points /\ i \in Int
    BY PointsFinite
  <2> QED
    BY <2>1, EvalTyped DEF ValuesFrom
<1> QED
  BY <1>1, WeightedTyped

\* A coefficient more, and what it comes to without one of the points.
LEMMA WeightedStep ==
    ASSUME NEW c, IsPoly(c), NEW k \in 1 .. Len(c), NEW S \in SUBSET Points, NEW a \in S
    PROVE  Cong(Weighted(S, ValuesFrom(c, k)),
                c[k] + a * (Weighted(S, ValuesFrom(c, k + 1))
                            - Weighted(S \ {a}, ValuesFrom(c, k + 1))))
<1> DEFINE E == ValuesFrom(c, k)
           F == ValuesFrom(c, k + 1)
           H == [i \in S |-> (i - a) * F[i]]
           M == [i \in S |-> i * F[i]]
           WE == Weighted(S, E)
           WF == Weighted(S, F)
           WH == Weighted(S, H)
           WM == Weighted(S, M)
           WO == Weighted(S, Ones)
           WT == Weighted(S \ {a}, F)
           ck == c[k]
<1>1. ck \in Int /\ k + 1 \in 1 .. Len(c) + 1 /\ k \in 1 .. Len(c) + 1 /\ a \in Int
  <2>1. ck \in Int /\ Len(c) \in Nat
    BY CoefficientType
  <2>2. a \in Int
    BY PointsFinite
  <2> QED
    BY <2>1, <2>2
<1>2. S \ {a} \in SUBSET Points
  OBVIOUS
<1>3. \A i \in S : /\ i \in Int /\ E[i] \in Int /\ F[i] \in Int /\ Ones[i] = 1
                   /\ Cong(E[i], ck + F[i] * i)
  <2> SUFFICES ASSUME NEW i \in S
               PROVE  /\ i \in Int /\ E[i] \in Int /\ F[i] \in Int /\ Ones[i] = 1
                      /\ Cong(E[i], ck + F[i] * i)
    OBVIOUS
  <2>1. i \in Int /\ i \in Points
    BY PointsFinite
  <2>2. /\ E[i] \in Int /\ E[i] = EvalFrom(c, i, k)
        /\ F[i] \in Int /\ F[i] = EvalFrom(c, i, k + 1)
    BY <1>1, ValuesTyped
  <2>3. Cong(EvalFrom(c, i, k), ck + EvalFrom(c, i, k + 1) * i)
    BY <2>1, EvalCong
  <2> HIDE DEF E, F, ck
  <2> QED
    BY <2>1, <2>2, <2>3 DEF Ones
<1>4. WE \in Int /\ WF \in Int /\ WT \in Int
  BY <1>1, <1>2, ValuesTyped
<1> HIDE DEF E, F, ck
<1>5. \A i \in S : /\ H[i] \in Int /\ M[i] \in Int /\ H[i] = (i - a) * F[i] /\ M[i] = i * F[i]
  BY <1>1, <1>3
<1> HIDE DEF H, M
<1>6. WH \in Int /\ WM \in Int /\ WO \in Int
  <2>1. WH \in Int /\ WM \in Int
    BY <1>5, WeightedTyped
  <2>2. \A i \in S : Ones[i] \in Int
    BY <1>3
  <2> QED
    BY <2>1, <2>2, WeightedTyped
<1>7. Cong(WE, ck * WO + 1 * WM)
  <2>1. \A i \in S : Cong(E[i], ck * Ones[i] + 1 * M[i])
    <3> SUFFICES ASSUME NEW i \in S PROVE Cong(E[i], ck * Ones[i] + 1 * M[i])
      OBVIOUS
    <3>1. ck * Ones[i] + 1 * M[i] = ck + F[i] * i
      BY <1>1, <1>3, <1>5
    <3> QED
      BY <1>3, <3>1
  <2>2. 1 \in Int /\ \A i \in S : Ones[i] \in Int
    BY <1>3
  <2> QED
    BY <1>1, <1>3, <1>5, <2>1, <2>2, WeightedLinear
<1>8. Cong(WM, 1 * WH + a * WF)
  <2>1. \A i \in S : Cong(M[i], 1 * H[i] + a * F[i])
    <3> SUFFICES ASSUME NEW i \in S PROVE Cong(M[i], 1 * H[i] + a * F[i])
      OBVIOUS
    <3>1. 1 * H[i] + a * F[i] = M[i]
      BY <1>1, <1>3, <1>5
    <3> QED
      BY <1>5, <3>1, CongRefl
  <2>2. 1 \in Int
    OBVIOUS
  <2> QED
    BY <1>1, <1>3, <1>5, <2>1, <2>2, WeightedLinear
<1>9. Cong(WH, (-a) * WT)
  <2>1. \A i \in S : F[i] \in Int /\ H[i] \in Int /\ Cong(H[i], (i - a) * F[i])
    BY <1>3, <1>5, CongRefl
  <2> QED
    BY <2>1, WeightedShift
<1>10. Cong(WO, 1)
  BY WeightedOnes
<1> HIDE DEF WE, WF, WH, WM, WO, WT
<1>11. Cong(ck * WO + 1 * WM, ck + (a * (WF - WT)))
  <2> DEFINE x == 1 * WH + a * WF
             y == (-a) * WT + a * WF
  <2>1. Cong(ck * WO, ck * 1) /\ ck * 1 = ck /\ ck * WO \in Int /\ 1 \in Int
    BY <1>1, <1>6, <1>10, CongRefl, CongMul
  <2>2. Cong(WH + a * WF, (-a) * WT + a * WF)
    <3>1. a * WF \in Int /\ (-a) * WT \in Int
      BY <1>1, <1>4
    <3> QED
      BY <1>6, <1>9, <3>1, CongRefl, CongAdd
  <2>3. x \in Int /\ y \in Int /\ x = WH + a * WF /\ y = a * (WF - WT) /\ 1 * WM = WM
    BY <1>1, <1>4, <1>6
  <2>4. Cong(WM, y)
    BY <1>6, <1>8, <2>2, <2>3, CongTrans
  <2> HIDE DEF x, y
  <2>5. Cong(ck * WO + WM, ck + y)
    BY <1>1, <1>6, <2>1, <2>3, <2>4, CongAdd
  <2> QED
    BY <2>3, <2>5
<1>12. Cong(WE, ck + (a * (WF - WT)))
  <2>1. ck * WO + 1 * WM \in Int /\ ck + (a * (WF - WT)) \in Int
    BY <1>1, <1>4, <1>6
  <2> QED
    BY <1>4, <1>7, <1>11, <2>1, CongTrans
<1> QED
  BY <1>12 DEF WE, WF, WT, ck, E, F

LEMMA SizeWithout ==
    ASSUME NEW S \in SUBSET Points, NEW a \in S
    PROVE  /\ Cardinality(S) \in Nat /\ Cardinality(S) >= 1
           /\ S \ {a} \in SUBSET Points /\ Cardinality(S \ {a}) = Cardinality(S) - 1
<1>1. IsFiniteSet(S) /\ S # {}
  BY PointsFinite
<1>2. Cardinality(S) \in Nat /\ Cardinality(S) # 0
  BY <1>1, FS_CardinalityType, FS_EmptySet
<1>3. Cardinality(S \ {a}) = Cardinality(S) - 1
  BY <1>1, FS_RemoveElement
<1> QED
  BY <1>2, <1>3

\* Enough shares recover the value at zero.
LEMMA Interpolation ==
    ASSUME NEW c, IsPoly(c), NEW k \in 1 .. Len(c) + 1, NEW S \in SUBSET Points,
           Cardinality(S) >= Len(c) - k + 1
    PROVE  Cong(Weighted(S, ValuesFrom(c, k)), EvalFrom(c, 0, k))
<1> DEFINE n == Len(c)
           P(s, j) == Cong(Weighted(s, ValuesFrom(c, j)), EvalFrom(c, 0, j))
           G == {j \in 1 .. n + 1 : \A s \in SUBSET Points : Cardinality(s) >= n - j + 1 => P(s, j)}
<1>1. n \in Nat
  BY DEF IsPoly
<1>2. n + 1 \in G
  <2> SUFFICES ASSUME NEW s \in SUBSET Points PROVE P(s, n + 1)
    BY <1>1
  <2> DEFINE E == ValuesFrom(c, n + 1)
             W == Weighted(s, E)
  <2>1. n + 1 \in 1 .. Len(c) + 1
    BY <1>1
  <2>2. \A i \in s : E[i] \in Int /\ E[i] = 0
    BY <2>1, ValuesTyped, EvalEnd
  <2>3. W \in Int
    BY <2>1, ValuesTyped
  <2> HIDE DEF E
  <2>4. Cong(W, 0 * W + 0 * W)
    <3>1. \A i \in s : E[i] \in Int /\ Cong(E[i], 0 * E[i] + 0 * E[i])
      BY <2>2, CongRefl
    <3>2. 0 \in Int
      OBVIOUS
    <3> QED
      BY <3>1, <3>2, WeightedLinear
  <2>5. 0 * W + 0 * W = 0
    BY <2>3
  <2>6. EvalFrom(c, 0, n + 1) = 0
    BY EvalEnd
  <2> QED
    BY <2>4, <2>5, <2>6 DEF E
<1>3. ASSUME NEW j \in 1 .. n, j + 1 \in G PROVE j \in G
  <2> SUFFICES ASSUME NEW s \in SUBSET Points, Cardinality(s) >= n - j + 1
               PROVE  P(s, j)
    BY <1>1
  <2>1. s # {}
    BY <1>1, FS_EmptySet
  <2>2. PICK a \in s : TRUE
    BY <2>1
  <2> DEFINE V == EvalFrom(c, 0, j + 1)
             W == Weighted(s, ValuesFrom(c, j))
             WF == Weighted(s, ValuesFrom(c, j + 1))
             WT == Weighted(s \ {a}, ValuesFrom(c, j + 1))
             cj == c[j]
  <2>3. /\ Cardinality(s) \in Nat /\ s \ {a} \in SUBSET Points
        /\ Cardinality(s) >= n - (j + 1) + 1 /\ Cardinality(s \ {a}) >= n - (j + 1) + 1
    <3>1. /\ Cardinality(s) \in Nat /\ s \ {a} \in SUBSET Points
          /\ Cardinality(s \ {a}) = Cardinality(s) - 1
      BY <2>2, SizeWithout
    <3> QED
      BY <1>1, <3>1
  <2>4. Cong(WF, V) /\ Cong(WT, V)
    BY <1>3, <2>3
  <2>5. /\ cj \in Int /\ a \in Int /\ 0 \in Int
        /\ j \in 1 .. Len(c) /\ j \in 1 .. Len(c) + 1 /\ j + 1 \in 1 .. Len(c) + 1
    BY <1>1, CoefficientType, PointsFinite
  <2>6. W \in Int /\ WF \in Int /\ WT \in Int /\ V \in Int
    BY <2>3, <2>5, ValuesTyped, EvalTyped
  <2>7. Cong(W, cj + a * (WF - WT))
    BY <2>5, WeightedStep
  <2>8. Cong(EvalFrom(c, 0, j), cj) /\ EvalFrom(c, 0, j) \in Int
    BY <2>5, EvalAtZero, EvalTyped
  <2> DEFINE Z == EvalFrom(c, 0, j)
  <2> HIDE DEF V, W, WF, WT, cj, Z
  <2>9. Cong(WF - WT, V - V) /\ V - V = 0 /\ WF - WT \in Int
    BY <2>4, <2>6, CongAdd
  <2>10. Cong(a * (WF - WT), a * 0)
    BY <2>5, <2>9, CongRefl, CongMul
  <2>11. a * 0 = 0 /\ a * (WF - WT) \in Int /\ cj + 0 = cj /\ cj + a * (WF - WT) \in Int
    BY <2>5, <2>9
  <2>12. Cong(cj + a * (WF - WT), cj + 0)
    BY <2>5, <2>10, <2>11, CongRefl, CongAdd
  <2>13. Cong(W, cj)
    BY <2>5, <2>6, <2>7, <2>11, <2>12, CongTrans
  <2>14. Cong(W, Z)
    BY <2>5, <2>6, <2>8, <2>13, CongSym, CongTrans DEF Z
  <2> QED
    BY <2>14 DEF W, Z
<1>4. k \in G
  <2> HIDE DEF G
  <2> QED
    BY <1>1, <1>2, <1>3, Downward
<1> QED
  BY <1>4

\* One share too few recovers something else, if the degree is what it seems.
LEMMA TooFew ==
    ASSUME NEW c, IsPoly(c), c # <<>>, ~ Cong(c[Len(c)], 0), NEW S \in SUBSET Points,
           Cardinality(S) = Len(c) - 1
    PROVE  ~ Cong(Weighted(S, ValuesFrom(c, 1)), EvalFrom(c, 0, 1))
<1> DEFINE n == Len(c)
           P(s, j) == Cong(Weighted(s, ValuesFrom(c, j)), EvalFrom(c, 0, j))
           G == {j \in 1 .. n + 1 : j <= n =>
                    \A s \in SUBSET Points : Cardinality(s) = n - j => ~ P(s, j)}
<1>1. n \in Nat /\ n >= 1
  BY DEF IsPoly
<1>2. n + 1 \in G
  BY <1>1
<1>3. ASSUME NEW j \in 1 .. n, j + 1 \in G PROVE j \in G
  <2> SUFFICES ASSUME NEW s \in SUBSET Points, Cardinality(s) = n - j, P(s, j)
               PROVE  FALSE
    BY <1>1
  <2> DEFINE V == EvalFrom(c, 0, j + 1)
             W == Weighted(s, ValuesFrom(c, j))
             Z == EvalFrom(c, 0, j)
             cj == c[j]
  <2>1. /\ cj \in Int /\ 0 \in Int
        /\ j \in 1 .. Len(c) /\ j \in 1 .. Len(c) + 1 /\ j + 1 \in 1 .. Len(c) + 1
    BY <1>1, CoefficientType
  <2>2. Cong(Z, cj) /\ Z \in Int /\ V \in Int /\ W \in Int
    BY <2>1, EvalAtZero, EvalTyped, ValuesTyped
  <2>3. Cong(W, cj)
    BY <2>1, <2>2, CongTrans
  <2>4. CASE s = {}
    <3>1. j = n
      BY <1>1, <2>4, FS_EmptySet
    <3>2. W = 0
      BY <2>4, SumEmpty DEF Weighted
    <3>3. Cong(cj, 0)
      BY <2>1, <2>3, <3>2, CongSym
    <3> QED
      BY <3>1, <3>3
  <2>5. CASE s # {}
    <3>1. PICK a \in s : TRUE
      BY <2>5
    <3> DEFINE WF == Weighted(s, ValuesFrom(c, j + 1))
               WT == Weighted(s \ {a}, ValuesFrom(c, j + 1))
    <3>2. /\ Cardinality(s) \in Nat /\ Cardinality(s) >= 1 /\ s \ {a} \in SUBSET Points
          /\ Cardinality(s \ {a}) = n - (j + 1) /\ a \in Points /\ a \in Int
          /\ Cardinality(s) >= n - (j + 1) + 1 /\ j + 1 <= n
      <4>1. /\ Cardinality(s) \in Nat /\ Cardinality(s) >= 1 /\ s \ {a} \in SUBSET Points
            /\ Cardinality(s \ {a}) = Cardinality(s) - 1
        BY <3>1, SizeWithout
      <4>2. a \in Points /\ a \in Int
        BY <3>1, PointsFinite
      <4> QED
        BY <1>1, <4>1, <4>2
    <3>3. Cong(WF, V)
      BY <2>1, <3>2, Interpolation
    <3>4. ~ Cong(WT, V)
      BY <1>3, <3>2
    <3>5. WF \in Int /\ WT \in Int
      BY <2>1, <3>2, ValuesTyped
    <3>6. Cong(W, cj + a * (WF - WT))
      BY <2>1, WeightedStep
    <3> HIDE DEF V, W, WF, WT, cj, Z
    <3>7. Cong(a * (WF - WT), 0)
      <4>1. cj + a * (WF - WT) \in Int /\ a * (WF - WT) \in Int
        BY <2>1, <3>2, <3>5
      <4>2. Cong(cj + a * (WF - WT), cj)
        BY <2>1, <2>2, <2>3, <3>6, <4>1, CongSym, CongTrans
      <4>3. PICK i \in Int : (cj + a * (WF - WT)) - cj = i * Q
        BY <4>2 DEF Cong
      <4>4. a * (WF - WT) - 0 = i * Q
        <5> DEFINE z == a * (WF - WT)
        <5>1. z \in Int /\ (cj + z) - cj = i * Q
          BY <4>1, <4>3
        <5> HIDE DEF z
        <5>2. z - 0 = (cj + z) - cj
          BY <2>1, <5>1
        <5> QED
          BY <5>1, <5>2 DEF z
      <4> QED
        BY <4>4 DEF Cong
    <3>8. Cong(WF - WT, 0)
      <4>1. WF - WT \in Int /\ ~ Cong(a, 0)
        BY <3>2, <3>5, PointsApart
      <4> QED
        BY <3>2, <3>7, <4>1, Cancel
    <3>9. Cong(WF, WT)
      <4>1. PICK i \in Int : (WF - WT) - 0 = i * Q
        BY <3>8 DEF Cong
      <4>2. WF - WT = i * Q
        BY <3>5, <4>1
      <4> QED
        BY <4>2 DEF Cong
    <3>10. Cong(WT, V)
      BY <2>2, <3>3, <3>5, <3>9, CongSym, CongTrans
    <3> QED
      BY <3>4, <3>10
  <2> QED
    BY <2>4, <2>5
<1>4. 1 \in G
  <2>1. \A i \in 1 .. n + 1 : i \in G
    <3> HIDE DEF G
    <3> QED
      BY <1>1, <1>2, <1>3, Downward
  <2> QED
    BY <1>1, <2>1
<1> QED
  BY <1>1, <1>4

-----------------------------------------------------------------------------
(***************************************************************************)
(* Polynomials that are added, or moved by a constant.                      *)
(***************************************************************************)

\* The value of a sum is the sum of the values.
LEMMA EvalSum ==
    ASSUME NEW I, IsFiniteSet(I), NEW f, NEW c, IsPoly(c), NEW x \in Int,
           \A i \in I : IsPoly(f[i]) /\ Len(f[i]) = Len(c),
           \A k \in 1 .. Len(c) : Cong(c[k], SumOver([i \in I |-> f[i][k]], I))
    PROVE  \A k \in 1 .. Len(c) + 1 :
              Cong(EvalFrom(c, x, k), SumOver([i \in I |-> EvalFrom(f[i], x, k)], I))
<1> DEFINE n == Len(c)
           v(k) == [i \in I |-> EvalFrom(f[i], x, k)]
           P(k) == Cong(EvalFrom(c, x, k), SumOver(v(k), I))
           G == {k \in 1 .. n + 1 : P(k)}
<1>1. n \in Nat
  BY DEF IsPoly
<1>2. ASSUME NEW k \in 1 .. n + 1
      PROVE  SumOver(v(k), I) \in Int /\ \A i \in I : v(k)[i] \in Int
  <2>1. \A i \in I : v(k)[i] \in Int
    BY EvalTyped
  <2> HIDE DEF v
  <2> QED
    BY <2>1, SumTyped
<1>3. n + 1 \in G
  <2> DEFINE w == v(n + 1)
             W == SumOver(w, I)
  <2>1. \A i \in I : w[i] = 0
    BY EvalEnd
  <2>2. W \in Int /\ n + 1 \in 1 .. n + 1
    <3>1. n + 1 \in 1 .. n + 1
      BY <1>1
    <3> HIDE DEF v
    <3> QED
      BY <1>2, <3>1
  <2> HIDE DEF w
  <2>3. Cong(W, 0 * W + 0 * W)
    <3>1. \A i \in I : w[i] \in Int /\ Cong(w[i], 0 * w[i] + 0 * w[i])
      BY <2>1, CongRefl
    <3> QED
      BY <3>1, 0 \in Int, SumLinear
  <2>4. 0 * W + 0 * W = 0
    BY <2>2
  <2>5. Cong(0, W)
    BY <2>2, <2>3, <2>4, 0 \in Int, CongSym
  <2>6. EvalFrom(c, x, n + 1) = 0
    BY EvalEnd
  <2> QED
    BY <2>2, <2>5, <2>6 DEF w
<1>4. ASSUME NEW k \in 1 .. n, k + 1 \in G PROVE k \in G
  <2> DEFINE a == [i \in I |-> f[i][k]]
             g == v(k + 1)
             h == v(k)
             A == SumOver(a, I)
             B == SumOver(g, I)
             H == SumOver(h, I)
             E == EvalFrom(c, x, k)
             F == EvalFrom(c, x, k + 1)
             ck == c[k]
  <2>1. k \in 1 .. n + 1 /\ k + 1 \in 1 .. n + 1 /\ k \in 1 .. Len(c)
    BY <1>1
  <2>2. \A i \in I : a[i] \in Int /\ g[i] \in Int /\ h[i] \in Int /\ Cong(h[i], 1 * a[i] + x * g[i])
    <3> SUFFICES ASSUME NEW i \in I
                 PROVE  /\ a[i] \in Int /\ g[i] \in Int /\ h[i] \in Int
                        /\ Cong(h[i], 1 * a[i] + x * g[i])
      OBVIOUS
    <3>1. a[i] \in Int /\ g[i] \in Int /\ h[i] \in Int
      BY <1>2, <2>1, CoefficientType
    <3>2. Cong(h[i], a[i] + g[i] * x)
      <4>1. IsPoly(f[i]) /\ k \in 1 .. Len(f[i])
        BY <2>1
      <4>2. Cong(EvalFrom(f[i], x, k), f[i][k] + EvalFrom(f[i], x, k + 1) * x)
        BY <4>1, EvalCong
      <4> QED
        BY <4>2
    <3> HIDE DEF a, g, h
    <3>3. 1 * a[i] + x * g[i] = a[i] + g[i] * x
      BY <3>1
    <3> QED
      BY <3>1, <3>2, <3>3
  <2>3. A \in Int /\ B \in Int /\ H \in Int
    <3> HIDE DEF a, g, h
    <3> QED
      BY <2>2, SumTyped
  <2>4. Cong(H, 1 * A + x * B)
    <3> HIDE DEF a, g, h
    <3> QED
      BY <2>2, 1 \in Int, SumLinear
  <2>5. Cong(ck, A) /\ Cong(F, B) /\ Cong(E, ck + F * x)
    BY <1>4, <2>1, EvalCong
  <2>6. ck \in Int /\ F \in Int /\ E \in Int
    BY <2>1, CoefficientType, EvalTyped
  <2>7. P(k) <=> Cong(E, H)
    OBVIOUS
  <2> HIDE DEF A, B, H, E, F, ck, P
  <2>8. Cong(F * x, B * x)
    BY <2>3, <2>5, <2>6, CongRefl, CongMul
  <2>9. Cong(ck + F * x, A + B * x) /\ ck + F * x \in Int /\ A + B * x \in Int
    <3>1. F * x \in Int /\ B * x \in Int /\ ck + F * x \in Int /\ A + B * x \in Int
      BY <2>3, <2>6
    <3> QED
      BY <2>3, <2>5, <2>6, <2>8, <3>1, CongAdd
  <2>10. 1 * A + x * B = A + B * x
    BY <2>3
  <2>11. Cong(E, A + B * x) /\ Cong(A + B * x, H)
    BY <2>3, <2>4, <2>5, <2>6, <2>9, <2>10, CongSym, CongTrans
  <2>12. Cong(E, H)
    BY <2>3, <2>6, <2>9, <2>11, CongTrans
  <2> QED
    BY <2>1, <2>7, <2>12
<1>5. \A k \in 1 .. n + 1 : k \in G
  <2> HIDE DEF G
  <2> QED
    BY <1>1, <1>3, <1>4, Downward
<1> QED
  BY <1>5

\* The first coefficient moves all values alike.
LEMMA EvalMove ==
    ASSUME NEW c, IsPoly(c), c # <<>>, NEW t \in Int, NEW e \in Int, Cong(e, c[1] + t),
           NEW x \in Int
    PROVE  /\ IsPoly([c EXCEPT ![1] = e]) /\ Len([c EXCEPT ![1] = e]) = Len(c)
           /\ Cong(EvalFrom([c EXCEPT ![1] = e], x, 1), EvalFrom(c, x, 1) + t)
<1> DEFINE d == [c EXCEPT ![1] = e]
           n == Len(c)
           V == EvalFrom(c, x, 2)
           c1 == c[1]
<1>1. n \in Nat /\ n >= 1 /\ 1 \in 1 .. Len(c) /\ 2 \in 1 .. n + 1 /\ 1 \in 1 .. n + 1
  BY DEF IsPoly
<1>2. IsPoly(d) /\ Len(d) = n /\ d[1] = e /\ \A i \in 2 .. n : d[i] = c[i]
  BY <1>1 DEF IsPoly
<1>3. EvalFrom(d, x, 2) = V
  <2>1. Values!Chooses(2 .. n)
    BY <1>1, LeastChooses
  <2>2. \A i \in 2 .. n : At(d, i) = At(c, i)
    BY <1>2 DEF At
  <2> DEFINE S == 2 .. n
  <2> HIDE DEF d, S
  <2>3. Values!Fold(x, 0, d, S) = Values!Fold(x, 0, c, S)
    BY <2>1, <2>2, Values!FoldSame DEF S
  <2> QED
    BY <1>2, <2>3 DEF EvalFrom, S
<1>4. V \in Int /\ c1 \in Int
  BY <1>1, CoefficientType, EvalTyped
<1>5. Cong(EvalFrom(c, x, 1), c1 + V * x) /\ EvalFrom(c, x, 1) \in Int
  <2>1. 1 + 1 = 2
    OBVIOUS
  <2> QED
    BY <1>1, <2>1, EvalCong, EvalTyped
<1>6. Cong(EvalFrom(d, x, 1), e + V * x) /\ EvalFrom(d, x, 1) \in Int
  <2> HIDE DEF d
  <2>1. 1 + 1 = 2 /\ 1 \in 1 .. Len(d) /\ 1 \in 1 .. Len(d) + 1
    BY <1>1, <1>2
  <2>2. Cong(EvalFrom(d, x, 1), d[1] + EvalFrom(d, x, 1 + 1) * x)
    BY <1>2, <2>1, EvalCong
  <2> QED
    BY <1>2, <1>3, <2>1, <2>2, EvalTyped
<1> DEFINE E == EvalFrom(c, x, 1)
           F == EvalFrom(d, x, 1)
<1> HIDE DEF V, c1, E, F
<1>7. Cong(F, E + t)
  <2>1. V * x \in Int /\ c1 + t \in Int /\ E \in Int /\ F \in Int
    BY <1>4, <1>5, <1>6 DEF E, F
  <2>2. Cong(e + V * x, (c1 + t) + V * x)
    BY <2>1, CongRefl, CongAdd DEF c1
  <2>3. Cong(c1 + V * x, E)
    BY <1>4, <1>5, <2>1, CongSym DEF E
  <2>4. Cong((c1 + V * x) + t, E + t)
    BY <1>4, <2>1, <2>3, CongRefl, CongAdd
  <2>5. (c1 + t) + V * x = (c1 + V * x) + t /\ e + V * x \in Int /\ E + t \in Int
        /\ (c1 + V * x) + t \in Int
    BY <1>4, <2>1
  <2>6. Cong(F, (c1 + V * x) + t)
    BY <1>6, <2>1, <2>2, <2>5, CongTrans DEF F
  <2> QED
    BY <2>1, <2>4, <2>5, <2>6, CongTrans
<1> QED
  BY <1>2, <1>7 DEF E, F

-----------------------------------------------------------------------------
(***************************************************************************)
(* The derivation of child keys.                                            *)
(***************************************************************************)

Greatest(S) == Max(S)
NextLevel(e, index, acc) == HdLevel(acc, index)
Levels == INSTANCE FoldProofs WITH op <- NextLevel, of <- At, choose <- Greatest

LEMMA GreatestChooses == ASSUME NEW n \in Nat PROVE Levels!Chooses(1 .. n)
<1>1. IsFiniteSet(1 .. n)
  BY FS_Interval
<1>2. Levels!IsFiniteSet(1 .. n)
  BY <1>1 DEF IsFiniteSet, Levels!IsFiniteSet
<1>3. ASSUME NEW T \in SUBSET (1 .. n), T # {} PROVE Greatest(T) \in T
  <2> DEFINE M == {i \in 0 .. n : n - i \in T}
  <2>1. M # {}
    <3>1. PICK j \in T : TRUE
      BY <1>3
    <3>2. n - j \in 0 .. n /\ n - (n - j) = j
      OBVIOUS
    <3> QED
      BY <3>1, <3>2
  <2>2. PICK m \in M : \A i \in M : m <= i
    <3>1. M \subseteq Nat
      OBVIOUS
    <3> HIDE DEF M
    <3> QED
      BY <2>1, <3>1, LeastOf
  <2>3. n - m \in T
    BY <2>2
  <2>4. ASSUME NEW j \in T PROVE n - m >= j
    <3> DEFINE i == n - j
    <3>1. i \in 0 .. n /\ n - i = j
      OBVIOUS
    <3>2. i \in M
      BY <3>1
    <3>3. m <= i /\ m \in 0 .. n
      BY <2>2, <3>2
    <3> QED
      BY <3>1, <3>3
  <2> QED
    BY <2>3, <2>4 DEF Greatest, Max
<1> QED
  BY <1>2, <1>3 DEF Levels!Chooses

LEMMA HdKeyIs ==
    ASSUME NEW key, NEW path, NEW code, DOMAIN path = 1 .. Len(path)
    PROVE  HdKey(key, path, code)
           = Levels!Fold(0, [key |-> key, tweak |-> 0, code |-> code], path, 1 .. Len(path))
  BY DEF HdKey, FoldLeft, MapThenFoldSet, Levels!Fold, Levels!MapThenFoldSet, NextLevel, At, Greatest

\* The tweak of a path is what moves the key to the child key.
THEOREM TweakMovesKey ==
    ASSUME NEW key \in Field, NEW code \in Field, NEW path \in Seq(Nat),
           \A k, c \in Field : \A l \in DOMAIN path :
              Hmac(c, k, path[l]) \in [left : Field, right : Field]
    PROVE  /\ HdKey(key, path, code).key \in Field
           /\ HdKey(key, path, code).tweak \in Field
           /\ Cong(HdKey(key, path, code).key, key + HdKey(key, path, code).tweak)
           /\ path = <<>> => HdKey(key, path, code).key = key /\ HdKey(key, path, code).tweak = 0
<1> DEFINE root == [key |-> key, tweak |-> 0, code |-> code]
           D == {acc \in [key : Field, tweak : Field, code : Field] : Cong(acc.key, key + acc.tweak)}
           n == Len(path)
           hd == HdKey(key, path, code)
<1>1. n \in Nat /\ DOMAIN path = 1 .. n
  OBVIOUS
<1>2. key \in Int /\ 0 \in Field /\ \A x \in Field : x \in Int
  BY PrimeType DEF Field
<1>3. root \in D
  <2>1. key + 0 = key /\ Cong(key, key)
    BY <1>2, CongRefl
  <2> QED
    BY <1>2, <2>1
<1>4. ASSUME NEW i \in 1 .. n, NEW acc \in D PROVE NextLevel(0, At(path, i), acc) \in D
  <2> DEFINE f == Hmac(acc.code, acc.key, path[i])
             k == acc.key
             t == acc.tweak
             l == f.left
             next == HdLevel(acc, path[i])
  <2>1. k \in Field /\ t \in Field /\ acc.code \in Field /\ Cong(k, key + t)
    OBVIOUS
  <2>2. f \in [left : Field, right : Field]
    BY <1>1, <2>1
  <2>3. next = [key |-> (k + l) % Q, tweak |-> (l + t) % Q, code |-> (acc.code * f.right) % Q]
    BY DEF HdLevel
  <2>4. l \in Int /\ k \in Int /\ t \in Int /\ acc.code * f.right \in Int
    <3>1. l \in Field /\ f.right \in Field
      <4> HIDE DEF f
      <4> QED
        BY <2>2
    <3>2. l \in Int /\ f.right \in Int /\ acc.code \in Int /\ k \in Int /\ t \in Int
      BY <1>2, <2>1, <3>1
    <3> HIDE DEF f, l, k, t
    <3> QED
      BY <3>2
  <2>5. k + l \in Int /\ l + t \in Int /\ key + t \in Int
    BY <1>2, <2>4
  <2>6. /\ (k + l) % Q \in Field /\ (l + t) % Q \in Field /\ (acc.code * f.right) % Q \in Field
        /\ Cong((k + l) % Q, k + l) /\ Cong((l + t) % Q, l + t)
    BY <2>4, <2>5, ModField
  <2> DEFINE k2 == (k + l) % Q
             t2 == (l + t) % Q
  <2>7. k2 \in Int /\ t2 \in Int /\ Cong(k2, k + l) /\ Cong(t2, l + t)
    BY <1>2, <2>6
  <2> HIDE DEF k, t, l, f, k2, t2, next, D
  <2>8. Cong(k + l, (key + t) + l)
    BY <2>1, <2>4, <2>5, CongRefl, CongAdd
  <2>9. Cong(key + (l + t), key + t2)
    BY <1>2, <2>5, <2>7, CongSym, CongRefl, CongAdd
  <2>10. /\ (key + t) + l = key + (l + t) /\ key + (l + t) \in Int /\ key + t2 \in Int
    BY <1>2, <2>4, <2>7
  <2>11. Cong(k2, key + t2)
    BY <2>5, <2>7, <2>8, <2>9, <2>10, CongTrans
  <2>12. next.key = k2 /\ next.tweak = t2 /\ next \in [key : Field, tweak : Field, code : Field]
    BY <2>3, <2>6 DEF k2, t2
  <2>13. next \in D
    BY <2>11, <2>12 DEF D
  <2> QED
    BY <2>13 DEF NextLevel, At, next
<1>5. Levels!Chooses(1 .. n)
  BY <1>1, GreatestChooses
<1>6. hd = Levels!Fold(0, root, path, 1 .. n)
  BY <1>1, HdKeyIs
<1>7. hd \in D
  <2> HIDE DEF D, root, hd, n
  <2>1. Levels!Fold(0, root, path, 1 .. n) \in D
    BY <1>3, <1>4, <1>5, Levels!FoldTyped
  <2> QED
    BY <1>6, <2>1
<1>8. ASSUME path = <<>> PROVE hd = root
  <2>1. n = 0 /\ 1 .. n = {}
    BY <1>8
  <2> HIDE DEF root, hd, n
  <2>2. Levels!Fold(0, root, path, {}) = root
    BY <1>5, <2>1, Levels!FoldUnfolds
  <2> QED
    BY <1>6, <2>1, <2>2
<1> QED
  BY <1>7, <1>8

=============================================================================
