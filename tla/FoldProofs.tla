----------------------------- MODULE FoldProofs -----------------------------
(***************************************************************************)
(* What a fold computes, for any operation that is folded and any way to    *)
(* choose the next element.  The community modules define every fold by     *)
(* MapThenFoldSet; its recursion is shown to have a solution, so that a     *)
(* fold over a set is the operation on one element and on the fold over the *)
(* rest.  A module that folds something instantiates this one with its      *)
(* operation, to which an environment e may be a parameter, and with the    *)
(* value of f that an element stands for.                                   *)
(***************************************************************************)
EXTENDS Folds, FiniteSetTheorems, TLAPS

CONSTANTS op(_, _, _), of(_, _), choose(_)

Fold(e, b, f, S) ==
    MapThenFoldSet(LAMBDA x, acc : op(e, x, acc), b, LAMBDA i : of(f, i), LAMBDA T : choose(T), S)

\* choose takes an element of every set that is left of S.
Chooses(S) == IsFiniteSet(S) /\ \A T \in SUBSET S : T # {} => choose(T) \in T

-----------------------------------------------------------------------------
\* A set of subsets that has each subset whose proper subsets it has, has all.
LEMMA SubsetInduction ==
    ASSUME NEW S, IsFiniteSet(S), NEW G,
           \A s \in SUBSET S : (\A t \in SUBSET s : t # s => t \in G) => s \in G
    PROVE  SUBSET S \subseteq G
<1> SUFFICES ASSUME (SUBSET S) \ G # {} PROVE FALSE
  OBVIOUS
<1> DEFINE T == (SUBSET S) \ G
<1>1. IsWellFoundedOn(StrictSubsetOrdering(S), SUBSET S)
  <2>1. IsWellFoundedOn(StrictSubsetOrdering(S), FiniteSubsetsOf(S))
    BY FS_StrictSubsetOrderingWellFounded
  <2>2. FiniteSubsetsOf(S) = SUBSET S
    BY FS_FiniteSubsetsOfFinite
  <2> QED
    BY <2>1, <2>2
<1>2. PICK s \in T : \A t \in T : ~ (<<t, s>> \in StrictSubsetOrdering(S))
  <2>1. T \subseteq SUBSET S /\ T # {}
    OBVIOUS
  <2> HIDE DEF T
  <2> QED
    BY <1>1, <2>1, WFMin
<1>3. \A t \in SUBSET s : t # s => t \in G
  BY <1>2 DEF StrictSubsetOrdering
<1> QED
  BY <1>2, <1>3

-----------------------------------------------------------------------------
(***************************************************************************)
(* The recursion has one solution.                                          *)
(***************************************************************************)

Body(e, b, f, g, s) == IF s = {} THEN b ELSE op(e, of(f, choose(s)), g[s \ {choose(s)}])

\* g is the fold of every subset of S.
IsIter(e, b, f, g, S) == g = [s \in SUBSET S |-> Body(e, b, f, g, s)]

LEMMA FoldIter ==
    ASSUME NEW e, NEW b, NEW f, NEW S
    PROVE  Fold(e, b, f, S) = (CHOOSE g : IsIter(e, b, f, g, S))[S]
  BY DEF Fold, MapThenFoldSet, IsIter, Body

\* Two solutions agree where both are defined, also if they fold two functions
\* that agree there.
LEMMA IterUnique ==
    ASSUME NEW e, NEW b, NEW f, NEW k, NEW S, Chooses(S),
           NEW T \in SUBSET S, NEW U \in SUBSET S, NEW g, NEW h,
           \A i \in T \cap U : of(f, i) = of(k, i),
           IsIter(e, b, f, g, T), IsIter(e, b, k, h, U), NEW s \in SUBSET (T \cap U)
    PROVE  g[s] = h[s]
<1> DEFINE V == T \cap U
           G == {t \in SUBSET V : g[t] = h[t]}
<1>1. IsFiniteSet(V)
  BY FS_Subset DEF Chooses
<1>2. ASSUME NEW t \in SUBSET V, \A v \in SUBSET t : v # t => v \in G
      PROVE  t \in G
  <2>1. g[t] = Body(e, b, f, g, t) /\ h[t] = Body(e, b, k, h, t)
    BY DEF IsIter
  <2>2. CASE t = {}
    BY <2>1, <2>2 DEF Body
  <2>3. CASE t # {}
    <3>1. choose(t) \in t
      BY <2>3 DEF Chooses
    <3>2. g[t \ {choose(t)}] = h[t \ {choose(t)}] /\ of(f, choose(t)) = of(k, choose(t))
      BY <1>2, <3>1
    <3> QED
      BY <2>1, <2>3, <3>2 DEF Body
  <2> QED
    BY <2>2, <2>3
<1>3. s \in SUBSET V
  OBVIOUS
<1> HIDE DEF G, V
<1>4. SUBSET V \subseteq G
  BY <1>1, <1>2, SubsetInduction
<1> QED
  BY <1>3, <1>4 DEF G

LEMMA IterExists ==
    ASSUME NEW e, NEW b, NEW f, NEW S, Chooses(S)
    PROVE  \E g : IsIter(e, b, f, g, S)
<1> DEFINE G == {T \in SUBSET S : \E g : IsIter(e, b, f, g, T)}
           it(T) == CHOOSE g : IsIter(e, b, f, g, T)
<1>1. ASSUME NEW T \in SUBSET S, \A t \in SUBSET T : t # T => t \in G
      PROVE  T \in G
  <2> DEFINE h == [s \in SUBSET T |->
                     IF s = {} THEN b
                     ELSE op(e, of(f, choose(s)), it(s \ {choose(s)})[s \ {choose(s)}])]
  <2>1. ASSUME NEW s \in SUBSET T, s # {}
        PROVE  h[s \ {choose(s)}] = it(s \ {choose(s)})[s \ {choose(s)}]
    <3> DEFINE r == s \ {choose(s)}
    <3>1. choose(s) \in s /\ r \in SUBSET T /\ r # T /\ r \in SUBSET S
      BY <2>1 DEF Chooses
    <3>2. IsIter(e, b, f, it(r), r)
      BY <1>1, <3>1
    <3>3. it(r)[r] = Body(e, b, f, it(r), r)
      BY <3>2 DEF IsIter
    <3>4. CASE r = {}
      BY <3>1, <3>3, <3>4 DEF Body
    <3>5. CASE r # {}
      <4> DEFINE u == r \ {choose(r)}
      <4>1. choose(r) \in r /\ u \in SUBSET T /\ u # T /\ u \in SUBSET r /\ u \in SUBSET S
        BY <3>1, <3>5 DEF Chooses
      <4>2. IsIter(e, b, f, it(u), u)
        BY <1>1, <4>1
      <4> HIDE DEF it, r, u
      <4>3. it(u)[u] = it(r)[u]
        BY <3>1, <3>2, <4>1, <4>2, IterUnique
      <4>4. h[r] = op(e, of(f, choose(r)), it(u)[u])
        BY <3>1, <3>5 DEF u
      <4> QED
        BY <3>3, <3>5, <4>3, <4>4 DEF Body, r, u
    <3> QED
      BY <3>4, <3>5
  <2>2. \A s \in SUBSET T : h[s] = Body(e, b, f, h, s)
    <3> SUFFICES ASSUME NEW s \in SUBSET T PROVE h[s] = Body(e, b, f, h, s)
      OBVIOUS
    <3>1. CASE s = {}
      BY <3>1 DEF Body
    <3>2. CASE s # {}
      <4> HIDE DEF it
      <4> QED
        BY <2>1, <3>2 DEF Body
    <3> QED
      BY <3>1, <3>2
  <2>3. IsIter(e, b, f, h, T)
    <3> HIDE DEF it
    <3> QED
      BY <2>2 DEF IsIter
  <2> QED
    BY <2>3
<1> HIDE DEF G, it
<1>2. SUBSET S \subseteq G
  BY <1>1, SubsetInduction DEF Chooses
<1> QED
  BY <1>2 DEF G

-----------------------------------------------------------------------------
\* A fold is the operation on the chosen element and the fold over the others.
THEOREM FoldUnfolds ==
    ASSUME NEW e, NEW b, NEW f, NEW S, Chooses(S)
    PROVE  Fold(e, b, f, S) = IF S = {} THEN b
                              ELSE op(e, of(f, choose(S)), Fold(e, b, f, S \ {choose(S)}))
<1> DEFINE it(T) == CHOOSE g : IsIter(e, b, f, g, T)
           R == S \ {choose(S)}
<1>1. Chooses(R)
  BY FS_Subset DEF Chooses
<1>2. IsIter(e, b, f, it(S), S) /\ IsIter(e, b, f, it(R), R)
  BY <1>1, IterExists
<1>3. Fold(e, b, f, S) = it(S)[S] /\ Fold(e, b, f, R) = it(R)[R]
  BY FoldIter
<1> HIDE DEF it
<1>4. it(S)[S] = Body(e, b, f, it(S), S)
  BY <1>2 DEF IsIter
<1>5. it(S)[R] = it(R)[R]
  BY <1>2, IterUnique
<1> QED
  BY <1>3, <1>4, <1>5 DEF Body

\* Only the values on the set matter.
THEOREM FoldSame ==
    ASSUME NEW e, NEW b, NEW f, NEW k, NEW S, Chooses(S), \A i \in S : of(f, i) = of(k, i)
    PROVE  Fold(e, b, f, S) = Fold(e, b, k, S)
<1> DEFINE g == CHOOSE g : IsIter(e, b, f, g, S)
           h == CHOOSE h : IsIter(e, b, k, h, S)
<1>1. IsIter(e, b, f, g, S) /\ IsIter(e, b, k, h, S)
  BY IterExists
<1>2. Fold(e, b, f, S) = g[S] /\ Fold(e, b, k, S) = h[S]
  BY FoldIter
<1> HIDE DEF g, h
<1>3. S \in SUBSET S /\ S \in SUBSET (S \cap S)
  OBVIOUS
<1>4. g[S] = h[S]
  BY <1>1, <1>3, IterUnique
<1> QED
  BY <1>2, <1>4

\* A fold stays in every set that the operation stays in.
THEOREM FoldTyped ==
    ASSUME NEW e, NEW b, NEW f, NEW S, Chooses(S), NEW D, b \in D,
           \A i \in S : \A acc \in D : op(e, of(f, i), acc) \in D
    PROVE  Fold(e, b, f, S) \in D
<1> DEFINE G == {s \in SUBSET S : Fold(e, b, f, s) \in D}
<1>1. ASSUME NEW s \in SUBSET S, \A t \in SUBSET s : t # s => t \in G
      PROVE  s \in G
  <2>1. Chooses(s)
    BY FS_Subset DEF Chooses
  <2>2. CASE s = {}
    BY <2>1, <2>2, FoldUnfolds
  <2>3. CASE s # {}
    <3>1. choose(s) \in s
      BY <2>1, <2>3 DEF Chooses
    <3>2. s \ {choose(s)} \in G
      BY <1>1, <3>1
    <3>3. Fold(e, b, f, s) = op(e, of(f, choose(s)), Fold(e, b, f, s \ {choose(s)}))
      BY <2>1, <2>3, FoldUnfolds
    <3> QED
      BY <3>1, <3>2, <3>3
  <2> QED
    BY <2>2, <2>3
<1> HIDE DEF G
<1>2. SUBSET S \subseteq G
  BY <1>1, SubsetInduction DEF Chooses
<1> QED
  BY <1>2 DEF G

\* If the operation does not mind the order, any element may be the first.
THEOREM FoldAny ==
    ASSUME NEW e, NEW b, NEW f, NEW S, Chooses(S), NEW D, b \in D,
           \A i \in S : \A acc \in D : op(e, of(f, i), acc) \in D,
           \A i, j \in S : \A acc \in D :
              op(e, of(f, i), op(e, of(f, j), acc)) = op(e, of(f, j), op(e, of(f, i), acc)),
           NEW a \in S
    PROVE  Fold(e, b, f, S) = op(e, of(f, a), Fold(e, b, f, S \ {a}))
<1> DEFINE F(s) == Fold(e, b, f, s)
           G == {s \in SUBSET S : \A x \in s : F(s) = op(e, of(f, x), F(s \ {x}))}
<1>1. ASSUME NEW s \in SUBSET S, \A t \in SUBSET s : t # s => t \in G
      PROVE  s \in G
  <2> SUFFICES ASSUME NEW x \in s
               PROVE  F(s) = op(e, of(f, x), F(s \ {x}))
    OBVIOUS
  <2> DEFINE c == choose(s)
  <2>1. /\ Chooses(s) /\ c \in s
        /\ F(s) = op(e, of(f, c), F(s \ {c}))
    <3>1. Chooses(s)
      BY FS_Subset DEF Chooses
    <3> QED
      BY <3>1, FoldUnfolds DEF Chooses
  <2>2. CASE c = x
    BY <2>1, <2>2
  <2>3. CASE c # x
    <3> DEFINE r == (s \ {c}) \ {x}
    <3>1. r = (s \ {x}) \ {c}
      OBVIOUS
    <3>2. F(s \ {c}) = op(e, of(f, x), F(r))
      <4>1. s \ {c} \in G
        BY <1>1, <2>1
      <4> QED
        BY <2>3, <4>1
    <3>3. F(s \ {x}) = op(e, of(f, c), F(r))
      <4>1. s \ {x} \in G
        BY <1>1
      <4> QED
        BY <2>1, <2>3, <3>1, <4>1
    <3>4. F(r) \in D
      <4>1. Chooses(r) /\ r \subseteq S
        BY FS_Subset DEF Chooses
      <4> HIDE DEF r
      <4> QED
        BY <4>1, FoldTyped
    <3> HIDE DEF F, r, c
    <3>5. op(e, of(f, c), op(e, of(f, x), F(r))) = op(e, of(f, x), op(e, of(f, c), F(r)))
      BY <2>1, <3>4
    <3> QED
      BY <2>1, <3>2, <3>3, <3>5
  <2> QED
    BY <2>2, <2>3
<1> HIDE DEF G
<1>2. SUBSET S \subseteq G
  BY <1>1, SubsetInduction DEF Chooses
<1> QED
  BY <1>2 DEF G

=============================================================================
