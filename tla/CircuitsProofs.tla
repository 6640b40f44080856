--------------------------- MODULE CircuitsProofs ---------------------------
(***************************************************************************)
(* Lemmas about the circuits, for every number of polls, voters, choices   *)
(* and messages: what a log means, and that a batch of the Tally circuit   *)
(* keeps root and counters in line with it.  Before them, the facts on     *)
(* induction, sums and counting that the other proofs use as well.         *)
(***************************************************************************)
EXTENDS Circuits, Functions, FiniteSetTheorems, WellFoundedInduction, TLAPS

-----------------------------------------------------------------------------
(* Induction over the naturals and over the subsets of a finite set,       *)
(* stated for a set so that it can be applied without an operator          *)
(* parameter.                                                              *)

\* A set of naturals that holds 0 and is closed under successor is Nat.
LEMMA NatSetInduction ==
    ASSUME NEW T, T \subseteq Nat, 0 \in T, \A n \in T : n + 1 \in T
    PROVE  T = Nat
<1> DEFINE S == Nat \ T
<1>1. SUFFICES ASSUME S # {} PROVE FALSE
  OBVIOUS
<1>2. IsWellFoundedOn(OpToRel(<, Nat), Nat)
  BY NatLessThanWellFounded
<1>3. PICK x \in S : \A y \in S : ~ (<<y, x>> \in OpToRel(<, Nat))
  BY <1>1, <1>2, WFMin
<1>4. x \in Nat /\ x \notin T /\ x # 0
  BY <1>3
<1>5. x - 1 \in Nat /\ x - 1 < x
  BY <1>4
<1>6. <<x - 1, x>> \in OpToRel(<, Nat)
  BY <1>4, <1>5 DEF OpToRel
<1>7. x - 1 \in T
  BY <1>3, <1>5, <1>6
<1>8. (x - 1) + 1 = x
  BY <1>4
<1> QED
  BY <1>4, <1>7, <1>8

\* A set of subsets of a finite set that holds each set whose removals it
\* holds has all of them.
LEMMA SubsetInduction ==
    ASSUME NEW S, IsFiniteSet(S), NEW Q,
           \A s \in SUBSET S : (\A x \in s : s \ {x} \in Q) => s \in Q
    PROVE  \A s \in SUBSET S : s \in Q
<1> DEFINE T == {n \in Nat : \A s \in SUBSET S : Cardinality(s) = n => s \in Q}
<1>1. \A s \in SUBSET S : IsFiniteSet(s) /\ Cardinality(s) \in Nat
  BY FS_Subset, FS_CardinalityType
<1>2. 0 \in T
  <2> SUFFICES ASSUME NEW s \in SUBSET S, Cardinality(s) = 0 PROVE s \in Q
    OBVIOUS
  <2>1. s = {}
    BY <1>1, FS_EmptySet
  <2> QED BY <2>1
<1>3. ASSUME NEW n \in T PROVE n + 1 \in T
  <2> SUFFICES ASSUME NEW s \in SUBSET S, Cardinality(s) = n + 1 PROVE s \in Q
    OBVIOUS
  <2>1. ASSUME NEW x \in s PROVE s \ {x} \in Q
    <3>1. Cardinality(s \ {x}) = n
      BY <1>1, FS_RemoveElement
    <3> QED BY <3>1
  <2> QED BY <2>1
<1>4. T = Nat
  <2>1. T \subseteq Nat
    OBVIOUS
  <2> HIDE DEF T
  <2> QED BY <1>2, <1>3, <2>1, NatSetInduction
<1> QED
  BY <1>1, <1>4

-----------------------------------------------------------------------------
(* Sums: the folds of the community modules over a finite set. *)

\* The element that a fold takes first.
Pick(s) == CHOOSE x \in s : TRUE

\* The recursion behind SumFunctionOnSet.
SumIter(f, S) ==
    LET iter[s \in SUBSET S] ==
          IF s = {} THEN 0
          ELSE f[Pick(s)] + iter[s \ {Pick(s)}]
    IN  iter

\* SumFunctionOnSet in terms of its recursion.
LEMMA SumOnDef ==
    ASSUME NEW f, NEW S
    PROVE  SumFunctionOnSet(f, S) = SumIter(f, S)[S]
BY DEF SumFunctionOnSet, FoldFunctionOnSet, MapThenFoldSet, SumIter, Pick

\* The recursion is well defined on finite sets.
LEMMA SumIterUnfold ==
    ASSUME NEW f, NEW S, IsFiniteSet(S)
    PROVE  \A s \in SUBSET S :
             SumIter(f, S)[s] =
               IF s = {} THEN 0
               ELSE f[Pick(s)] + SumIter(f, S)[s \ {Pick(s)}]
<1> DEFINE rhs(g, s) == IF s = {} THEN 0 ELSE f[Pick(s)] + g[s \ {Pick(s)}]
           Iter(g) == g = [s \in SUBSET S |-> rhs(g, s)]
           UpTo(g, n) == \A s \in SUBSET S : Cardinality(s) <= n => g[s] = rhs(g, s)
           T == {n \in Nat : \E g : UpTo(g, n)}
<1>0. \A s \in SUBSET S : s # {} => Pick(s) \in s
  BY DEF Pick
<1>1. \A s \in SUBSET S : IsFiniteSet(s) /\ Cardinality(s) \in Nat
  BY FS_Subset, FS_CardinalityType
<1>2. 0 \in T
  <2> DEFINE g == [s \in SUBSET S |-> 0]
  <2>1. ASSUME NEW s \in SUBSET S, Cardinality(s) <= 0 PROVE g[s] = rhs(g, s)
    <3>1. s = {}
      BY <1>1, <2>1, FS_EmptySet
    <3> QED BY <3>1
  <2>2. UpTo(g, 0)
    BY <2>1
  <2> QED BY <2>2
<1>3. ASSUME NEW n \in T PROVE n + 1 \in T
  <2>1. PICK g : UpTo(g, n)
    OBVIOUS
  <2> DEFINE h == [s \in SUBSET S |-> IF Cardinality(s) <= n THEN g[s] ELSE rhs(g, s)]
  <2>2. ASSUME NEW s \in SUBSET S, Cardinality(s) <= n + 1 PROVE h[s] = rhs(h, s)
    <3>1. h[s] = rhs(g, s)
      BY <2>1
    <3>2. CASE s = {}
      BY <3>1, <3>2
    <3>3. CASE s # {}
      <4>1. Pick(s) \in s
        BY <1>0, <3>3
      <4>2. s \ {Pick(s)} \in SUBSET S
        OBVIOUS
      <4>3. Cardinality(s \ {Pick(s)}) = Cardinality(s) - 1
        BY <1>1, <4>1, FS_RemoveElement
      <4>4. Cardinality(s \ {Pick(s)}) <= n
        BY <1>1, <2>2, <4>3
      <4>5. h[s \ {Pick(s)}] = g[s \ {Pick(s)}]
        BY <4>2, <4>4
      <4> QED BY <3>1, <3>3, <4>5
    <3> QED BY <3>2, <3>3
  <2>3. UpTo(h, n + 1)
    BY <2>2
  <2> HIDE DEF UpTo, h
  <2> QED BY <2>3
<1>4. T = Nat
  <2>1. T \subseteq Nat
    OBVIOUS
  <2> HIDE DEF T
  <2> QED BY <1>2, <1>3, <2>1, NatSetInduction
<1>5. \E g : Iter(g)
  <2>1. Cardinality(S) \in T
    BY <1>1, <1>4
  <2>2. PICK g : UpTo(g, Cardinality(S))
    BY <2>1
  <2> DEFINE h == [s \in SUBSET S |-> rhs(g, s)]
  <2>3. ASSUME NEW s \in SUBSET S PROVE g[s] = rhs(g, s)
    <3>1. Cardinality(s) <= Cardinality(S)
      BY FS_Subset
    <3> QED BY <2>2, <3>1
  <2>4. ASSUME NEW s \in SUBSET S PROVE rhs(g, s) = rhs(h, s)
    <3>1. s \ {Pick(s)} \in SUBSET S
      OBVIOUS
    <3>2. h[s \ {Pick(s)}] = g[s \ {Pick(s)}]
      BY <2>3, <3>1
    <3> QED BY <3>2
  <2>5. h = [s \in SUBSET S |-> rhs(h, s)]
    BY <2>4
  <2>6. Iter(h)
    BY <2>5
  <2> HIDE DEF Iter
  <2> QED BY <2>6
<1>6. SumIter(f, S) = CHOOSE g : Iter(g)
  BY DEF SumIter
<1>7. Iter(SumIter(f, S))
  <2> HIDE DEF Iter
  <2> QED BY <1>5, <1>6
<1>8. PICK F : F = SumIter(f, S)
  OBVIOUS
<1>9. F = [s \in SUBSET S |-> rhs(F, s)]
  BY <1>7, <1>8
<1>10. \A s \in SUBSET S : F[s] = rhs(F, s)
  BY <1>9
<1> QED
  BY <1>8, <1>10

\* The recursion over a subset is the recursion over the set.
LEMMA SumIterSubset ==
    ASSUME NEW f, NEW S, IsFiniteSet(S), NEW R \in SUBSET S
    PROVE  SumIter(f, R)[R] = SumIter(f, S)[R]
<1> DEFINE Q == {s \in SUBSET R : SumIter(f, R)[s] = SumIter(f, S)[s]}
<1>1. IsFiniteSet(R)
  BY FS_Subset
<1>2. ASSUME NEW s \in SUBSET R
      PROVE  /\ SumIter(f, R)[s] = IF s = {} THEN 0
                ELSE f[Pick(s)] + SumIter(f, R)[s \ {Pick(s)}]
             /\ SumIter(f, S)[s] = IF s = {} THEN 0
                ELSE f[Pick(s)] + SumIter(f, S)[s \ {Pick(s)}]
  <2>1. s \in SUBSET S
    OBVIOUS
  <2>2. \A r \in SUBSET R :
         SumIter(f, R)[r] = IF r = {} THEN 0
                            ELSE f[Pick(r)] + SumIter(f, R)[r \ {Pick(r)}]
    BY <1>1, SumIterUnfold
  <2>3. \A r \in SUBSET S :
         SumIter(f, S)[r] = IF r = {} THEN 0
                            ELSE f[Pick(r)] + SumIter(f, S)[r \ {Pick(r)}]
    BY SumIterUnfold
  <2> QED
    BY <2>1, <2>2, <2>3
<1>0. \A s \in SUBSET S : s # {} => Pick(s) \in s
  BY DEF Pick
<1>3. ASSUME NEW s \in SUBSET R, \A x \in s : s \ {x} \in Q PROVE s \in Q
  <2>1. CASE s = {}
    BY <1>2, <2>1
  <2>2. CASE s # {}
    <3>1. s \ {Pick(s)} \in Q
      BY <1>0, <1>3, <2>2
    <3> QED BY <1>2, <2>2, <3>1
  <2> QED BY <2>1, <2>2
<1>4. \A s \in SUBSET R : s \in Q
  <2> HIDE DEF Q
  <2> QED BY <1>1, <1>3, SubsetInduction
<1> QED
  BY <1>4

\* Sums over a finite set: nothing adds up to 0, and any element may be
\* taken out first.
LEMMA SumOnRemove ==
    ASSUME NEW S, IsFiniteSet(S), NEW f, \A x \in S : f[x] \in Int
    PROVE  \A s \in SUBSET S :
             /\ SumFunctionOnSet(f, s) \in Int
             /\ s = {} => SumFunctionOnSet(f, s) = 0
             /\ \A x \in s : SumFunctionOnSet(f, s)
                               = f[x] + SumFunctionOnSet(f, s \ {x})
<1> DEFINE V(s) == SumFunctionOnSet(f, s)
           Good(s) == /\ V(s) \in Int
                      /\ s = {} => V(s) = 0
                      /\ \A x \in s : V(s) = f[x] + V(s \ {x})
           Q == {s \in SUBSET S : Good(s)}
<1>0. \A s \in SUBSET S : s # {} => Pick(s) \in s
  BY DEF Pick
<1>1. ASSUME NEW s \in SUBSET S
      PROVE  V(s) = IF s = {} THEN 0 ELSE f[Pick(s)] + V(s \ {Pick(s)})
  <2>1. \A r \in SUBSET S :
         SumIter(f, S)[r] = IF r = {} THEN 0
                            ELSE f[Pick(r)] + SumIter(f, S)[r \ {Pick(r)}]
    BY SumIterUnfold
  <2>2. \A r \in SUBSET S : V(r) = SumIter(f, S)[r]
    BY SumOnDef, SumIterSubset
  <2>3. s \ {Pick(s)} \in SUBSET S
    OBVIOUS
  <2> HIDE DEF V
  <2> QED
    BY <2>1, <2>2, <2>3
<1> HIDE DEF V
<1>t. \A s \in SUBSET S : V(s) \in Int
  <2> DEFINE P == {s \in SUBSET S : V(s) \in Int}
  <2>1. ASSUME NEW s \in SUBSET S, \A x \in s : s \ {x} \in P PROVE s \in P
    <3>1. CASE s = {}
      <4>1. V(s) = 0
        BY <1>1, <3>1
      <4> QED BY <4>1
    <3>2. CASE s # {}
      <4>1. Pick(s) \in s
        BY <1>0, <3>2
      <4>2. f[Pick(s)] \in Int /\ V(s \ {Pick(s)}) \in Int
        BY <2>1, <4>1
      <4>3. V(s) = f[Pick(s)] + V(s \ {Pick(s)})
        BY <1>1, <3>2
      <4>4. V(s) \in Int
        BY <4>2, <4>3
      <4> QED BY <4>4
    <3> QED BY <3>1, <3>2
  <2>2. \A s \in SUBSET S : s \in P
    <3> HIDE DEF P
    <3> QED BY <2>1, SubsetInduction
  <2> QED BY <2>2
<1>2. ASSUME NEW s \in SUBSET S, \A x \in s : s \ {x} \in Q PROVE s \in Q
  <2>1. CASE s = {}
    <3>1. V(s) = 0
      BY <1>1, <2>1
    <3> QED BY <2>1, <3>1
  <2>2. CASE s # {}
    <3> DEFINE c == Pick(s)
    <3>1. c \in s /\ s \ {c} \in Q
      BY <1>0, <1>2, <2>2
    <3> HIDE DEF c
    <3>2. V(s) = f[c] + V(s \ {c}) /\ V(s \ {c}) \in Int /\ f[c] \in Int
      BY <1>1, <2>2, <3>1 DEF c
    <3>3. ASSUME NEW x \in s PROVE V(s) = f[x] + V(s \ {x})
      <4>1. CASE x = c
        BY <3>2, <4>1
      <4>2. CASE x # c
        <5>1. s \ {x} \in Q /\ f[x] \in Int
          BY <1>2
        <5>2. V(s \ {c}) = f[x] + V((s \ {c}) \ {x})
          BY <3>1, <4>2
        <5>3. V(s \ {x}) = f[c] + V((s \ {x}) \ {c}) /\ V(s \ {x}) \in Int
          BY <3>1, <4>2, <5>1
        <5>4. (s \ {c}) \ {x} = (s \ {x}) \ {c}
          OBVIOUS
        <5>5. (s \ {c}) \ {x} \in SUBSET S
          OBVIOUS
        <5>6. V((s \ {c}) \ {x}) \in Int
          BY <1>t, <5>5
        <5>7. V((s \ {x}) \ {c}) = V((s \ {c}) \ {x})
          BY <5>4
        <5> QED BY <3>2, <5>1, <5>2, <5>3, <5>6, <5>7
      <4> QED BY <4>1, <4>2
    <3>4. V(s) \in Int
      BY <1>t
    <3>5. Good(s)
      BY <2>2, <3>3, <3>4
    <3> HIDE DEF Good
    <3> QED BY <3>5
  <2> QED BY <2>1, <2>2
<1>3. \A s \in SUBSET S : s \in Q
  <2> HIDE DEF Q
  <2> QED BY <1>2, SubsetInduction
<1> QED
  BY <1>3 DEF V

\* Sums of functions that agree are equal.
LEMMA SumOnAgree ==
    ASSUME NEW S, IsFiniteSet(S), NEW f, NEW g,
           \A x \in S : f[x] \in Int /\ f[x] = g[x]
    PROVE  SumFunctionOnSet(f, S) = SumFunctionOnSet(g, S)
<1> DEFINE Q == {s \in SUBSET S : SumFunctionOnSet(f, s) = SumFunctionOnSet(g, s)}
<1>1. /\ \A s \in SUBSET S : s = {} => SumFunctionOnSet(f, s) = 0
      /\ \A s \in SUBSET S : \A x \in s :
            SumFunctionOnSet(f, s) = f[x] + SumFunctionOnSet(f, s \ {x})
  BY SumOnRemove
<1>2. /\ \A s \in SUBSET S : s = {} => SumFunctionOnSet(g, s) = 0
      /\ \A s \in SUBSET S : \A x \in s :
            SumFunctionOnSet(g, s) = g[x] + SumFunctionOnSet(g, s \ {x})
  <2>1. \A x \in S : g[x] \in Int
    OBVIOUS
  <2> QED BY <2>1, SumOnRemove
<1>3. ASSUME NEW s \in SUBSET S, \A x \in s : s \ {x} \in Q PROVE s \in Q
  <2>1. CASE s = {}
    BY <1>1, <1>2, <2>1
  <2>2. CASE s # {}
    <3>1. PICK x \in s : TRUE
      BY <2>2
    <3>2. f[x] = g[x] /\ SumFunctionOnSet(f, s \ {x}) = SumFunctionOnSet(g, s \ {x})
      BY <1>3
    <3>3. /\ SumFunctionOnSet(f, s) = f[x] + SumFunctionOnSet(f, s \ {x})
          /\ SumFunctionOnSet(g, s) = g[x] + SumFunctionOnSet(g, s \ {x})
      BY <1>1, <1>2
    <3> QED BY <3>2, <3>3
  <2> QED BY <2>1, <2>2
<1>4. \A s \in SUBSET S : s \in Q
  <2> HIDE DEF Q
  <2> QED BY <1>3, SubsetInduction
<1> QED
  BY <1>4

\* Changing one value changes the sum by the difference.
LEMMA SumExcept ==
    ASSUME NEW S, IsFiniteSet(S), NEW f \in [S -> Int], NEW x \in S, NEW y \in Int
    PROVE  /\ SumFunction(f) \in Int
           /\ SumFunction([f EXCEPT ![x] = y]) = (SumFunction(f) - f[x]) + y
<1>1. PICK g : g = [f EXCEPT ![x] = y]
  OBVIOUS
<1>2. g \in [S -> Int] /\ g[x] = y /\ \A z \in S \ {x} : f[z] = g[z]
  BY <1>1
<1>3. IsFiniteSet(S \ {x})
  BY FS_RemoveElement
<1>4. SumFunctionOnSet(f, S \ {x}) = SumFunctionOnSet(g, S \ {x})
  <2>1. \A z \in S \ {x} : f[z] \in Int /\ f[z] = g[z]
    BY <1>2
  <2> QED BY <1>3, <2>1, SumOnAgree
<1>5. /\ SumFunctionOnSet(f, S) = f[x] + SumFunctionOnSet(f, S \ {x})
      /\ SumFunctionOnSet(f, S) \in Int /\ SumFunctionOnSet(f, S \ {x}) \in Int
  <2>1. \A z \in S : f[z] \in Int
    OBVIOUS
  <2>2. S \in SUBSET S /\ S \ {x} \in SUBSET S
    OBVIOUS
  <2> QED BY <2>1, <2>2, SumOnRemove
<1>6. SumFunctionOnSet(g, S) = g[x] + SumFunctionOnSet(g, S \ {x})
  <2>1. \A z \in S : g[z] \in Int
    BY <1>2
  <2>2. S \in SUBSET S
    OBVIOUS
  <2> QED BY <2>1, <2>2, SumOnRemove
<1>7. SumFunction(f) = SumFunctionOnSet(f, S) /\ SumFunction(g) = SumFunctionOnSet(g, S)
  BY <1>2 DEF SumFunction
<1>8. f[x] \in Int
  OBVIOUS
<1> QED
  BY <1>1, <1>2, <1>4, <1>5, <1>6, <1>7, <1>8

\* Zeros add up to zero.
LEMMA SumZero ==
    ASSUME NEW S, IsFiniteSet(S), NEW f, DOMAIN f = S, \A x \in S : f[x] = 0
    PROVE  SumFunction(f) = 0
<1> DEFINE Q == {s \in SUBSET S : SumFunctionOnSet(f, s) = 0}
<1>1. ASSUME NEW s \in SUBSET S, \A x \in s : s \ {x} \in Q PROVE s \in Q
  <2>1. /\ s = {} => SumFunctionOnSet(f, s) = 0
        /\ \A x \in s : SumFunctionOnSet(f, s) = f[x] + SumFunctionOnSet(f, s \ {x})
    BY SumOnRemove
  <2>2. CASE s = {}
    BY <2>1, <2>2
  <2>3. CASE s # {}
    <3>1. PICK x \in s : TRUE
      BY <2>3
    <3>2. f[x] = 0 /\ SumFunctionOnSet(f, s \ {x}) = 0
      BY <1>1
    <3>3. SumFunctionOnSet(f, s) = f[x] + SumFunctionOnSet(f, s \ {x})
      BY <2>1
    <3> QED BY <3>2, <3>3
  <2> QED BY <2>2, <2>3
<1>2. \A s \in SUBSET S : s \in Q
  <2> HIDE DEF Q
  <2> QED BY <1>1, SubsetInduction
<1>3. SumFunctionOnSet(f, S) = 0
  BY <1>2
<1> QED
  BY <1>3 DEF SumFunction

\* A sum with one summand that is not zero.
LEMMA SumOne ==
    ASSUME NEW S, IsFiniteSet(S), NEW f \in [S -> Int], NEW x \in S,
           \A y \in S \ {x} : f[y] = 0
    PROVE  SumFunction(f) = f[x]
<1>1. PICK g \in [S -> Int] : g = [y \in S |-> 0]
  <2>1. [y \in S |-> 0] \in [S -> Int]
    OBVIOUS
  <2> QED
    BY <2>1
<1>2. SumFunction(g) = 0
  BY <1>1, SumZero
<1>3. PICK z \in Int : z = f[x]
  OBVIOUS
<1>4. f = [g EXCEPT ![x] = z]
  BY <1>1, <1>3
<1>5. SumFunction([g EXCEPT ![x] = z]) = (SumFunction(g) - g[x]) + z
  BY SumExcept
<1>6. g[x] = 0
  BY <1>1
<1>7. SumFunction(f) = (0 - 0) + z
  BY <1>2, <1>4, <1>5, <1>6
<1> QED
  BY <1>3, <1>7

-----------------------------------------------------------------------------
(* Counting *)

\* The elements of X that G sends into s.
Fibre(X, G, s) == {x \in X : G[x] \in s}

\* Taking a point out of s takes its fibre away.
LEMMA FibreRemove ==
    ASSUME NEW X, IsFiniteSet(X), NEW G, NEW s, NEW c \in s
    PROVE  /\ \A r : IsFiniteSet(Fibre(X, G, r)) /\ Cardinality(Fibre(X, G, r)) \in Nat
           /\ Cardinality(Fibre(X, G, s))
                = Cardinality(Fibre(X, G, {c})) + Cardinality(Fibre(X, G, s \ {c}))
<1>1. \A r : IsFiniteSet(Fibre(X, G, r)) /\ Cardinality(Fibre(X, G, r)) \in Nat
  <2>1. \A r : Fibre(X, G, r) \in SUBSET X
    BY DEF Fibre
  <2> QED BY <2>1, FS_Subset, FS_CardinalityType
<1>2. Fibre(X, G, s) = Fibre(X, G, {c}) \cup Fibre(X, G, s \ {c})
  BY DEF Fibre
<1>3. Fibre(X, G, {c}) \cap Fibre(X, G, s \ {c}) = {}
  BY DEF Fibre
<1>4. Cardinality(Fibre(X, G, {c}) \cup Fibre(X, G, s \ {c}))
        = Cardinality(Fibre(X, G, {c})) + Cardinality(Fibre(X, G, s \ {c}))
            - Cardinality(Fibre(X, G, {c}) \cap Fibre(X, G, s \ {c}))
  BY <1>1, FS_Union
<1>5. Cardinality(Fibre(X, G, {c}) \cap Fibre(X, G, s \ {c})) = 0
  BY <1>3, FS_EmptySet
<1> QED
  BY <1>1, <1>2, <1>4, <1>5

\* The sizes of the fibres over a set add up to what lies over the set.
LEMMA SumOfFibres ==
    ASSUME NEW S, IsFiniteSet(S), NEW X, IsFiniteSet(X), NEW G, NEW f,
           \A c \in S : f[c] = Cardinality(Fibre(X, G, {c}))
    PROVE  SumFunctionOnSet(f, S) = Cardinality(Fibre(X, G, S))
<1> DEFINE Q == {s \in SUBSET S : SumFunctionOnSet(f, s) = Cardinality(Fibre(X, G, s))}
<1>1. \A r : Cardinality(Fibre(X, G, r)) \in Nat
  <2>1. \A r : Fibre(X, G, r) \in SUBSET X
    BY DEF Fibre
  <2> QED BY <2>1, FS_Subset, FS_CardinalityType
<1>2. ASSUME NEW c \in S PROVE f[c] \in Int
  <2>1. f[c] = Cardinality(Fibre(X, G, {c}))
    OBVIOUS
  <2> QED BY <1>1, <2>1
<1>3. ASSUME NEW s \in SUBSET S, \A x \in s : s \ {x} \in Q PROVE s \in Q
  <2>1. /\ s = {} => SumFunctionOnSet(f, s) = 0
        /\ \A x \in s : SumFunctionOnSet(f, s) = f[x] + SumFunctionOnSet(f, s \ {x})
    BY <1>2, SumOnRemove
  <2>2. CASE s = {}
    <3>1. Fibre(X, G, s) = {}
      BY <2>2 DEF Fibre
    <3>2. Cardinality(Fibre(X, G, s)) = 0
      BY <3>1, FS_EmptySet
    <3> QED BY <2>1, <2>2, <3>2
  <2>3. CASE s # {}
    <3>1. PICK x \in s : TRUE
      BY <2>3
    <3>2. SumFunctionOnSet(f, s \ {x}) = Cardinality(Fibre(X, G, s \ {x}))
      BY <1>3
    <3>3. SumFunctionOnSet(f, s) = f[x] + SumFunctionOnSet(f, s \ {x})
      BY <2>1
    <3>4. Cardinality(Fibre(X, G, s))
            = Cardinality(Fibre(X, G, {x})) + Cardinality(Fibre(X, G, s \ {x}))
      BY FibreRemove
    <3>5. f[x] = Cardinality(Fibre(X, G, {x}))
      OBVIOUS
    <3> QED BY <3>2, <3>3, <3>4, <3>5
  <2> QED BY <2>2, <2>3
<1>4. \A s \in SUBSET S : s \in Q
  <2> HIDE DEF Q
  <2> QED BY <1>3, SubsetInduction
<1> QED
  BY <1>4

\* If no fibre has more than L elements, what lies over a set has at most L
\* times as many elements as the set.
LEMMA FibreBound ==
    ASSUME NEW S, IsFiniteSet(S), NEW X, IsFiniteSet(X), NEW G, NEW L \in Nat,
           \A c \in S : Cardinality(Fibre(X, G, {c})) <= L
    PROVE  Cardinality(Fibre(X, G, S)) <= L * Cardinality(S)
<1> DEFINE Q == {s \in SUBSET S : Cardinality(Fibre(X, G, s)) <= L * Cardinality(s)}
<1>1. \A r : Cardinality(Fibre(X, G, r)) \in Nat
  <2>1. \A r : Fibre(X, G, r) \in SUBSET X
    BY DEF Fibre
  <2> QED BY <2>1, FS_Subset, FS_CardinalityType
<1>2. \A s \in SUBSET S : IsFiniteSet(s) /\ Cardinality(s) \in Nat
  BY FS_Subset, FS_CardinalityType
<1>3. ASSUME NEW s \in SUBSET S, \A x \in s : s \ {x} \in Q PROVE s \in Q
  <2>2. CASE s = {}
    <3>1. Fibre(X, G, s) = {}
      BY <2>2 DEF Fibre
    <3>2. Cardinality(Fibre(X, G, s)) = 0 /\ Cardinality(s) = 0
      BY <2>2, <3>1, FS_EmptySet
    <3> QED BY <3>2
  <2>3. CASE s # {}
    <3>1. PICK x \in s : TRUE
      BY <2>3
    <3>2. PICK n \in Nat : n = Cardinality(s \ {x})
      BY <1>2
    <3>3. Cardinality(s) = n + 1
      BY <1>2, <3>2, FS_RemoveElement
    <3>4. Cardinality(Fibre(X, G, s \ {x})) <= L * n
      BY <1>3, <3>2
    <3>5. Cardinality(Fibre(X, G, s))
            = Cardinality(Fibre(X, G, {x})) + Cardinality(Fibre(X, G, s \ {x}))
      BY FibreRemove
    <3>6. Cardinality(Fibre(X, G, {x})) <= L
      OBVIOUS
    <3>7. L * (n + 1) = L * n + L /\ L * n \in Nat
      OBVIOUS
    <3> QED BY <1>1, <3>3, <3>4, <3>5, <3>6, <3>7
  <2> QED BY <2>2, <2>3
<1>4. \A s \in SUBSET S : s \in Q
  <2> HIDE DEF Q
  <2> QED BY <1>3, SubsetInduction
<1> QED
  BY <1>4

-----------------------------------------------------------------------------
(* The recursive accumulators satisfy their recursion equations. *)

\* Along a batch the boards of the Tally circuit are well defined.
LEMMA BoardAccUnfold ==
    ASSUME NEW board, NEW batch \in Seq(Messages)
    PROVE  BoardAcc(board, batch) =
             [i \in 0..Len(batch) |->
                IF i = 0 THEN board
                ELSE TallySingle(BoardAcc(board, batch)[i - 1], batch[i])]
<1> DEFINE Acc(f, n) == f = [i \in 0..n |-> IF i = 0 THEN board
                                            ELSE TallySingle(f[i - 1], batch[i])]
           T == {n \in Nat : \E f : Acc(f, n)}
<1> HIDE DEF Acc
<1>1. 0 \in T
  <2> DEFINE f == [i \in 0..0 |-> board]
  <2>1. f = [i \in 0..0 |-> IF i = 0 THEN board ELSE TallySingle(f[i - 1], batch[i])]
    OBVIOUS
  <2> QED
    BY <2>1 DEF Acc
<1>2. ASSUME NEW n \in T PROVE n + 1 \in T
  <2>1. PICK f : Acc(f, n)
    OBVIOUS
  <2> DEFINE g == [i \in 0..(n + 1) |->
                     IF i = n + 1 THEN TallySingle(f[n], batch[n + 1]) ELSE f[i]]
             rhs == [i \in 0..(n + 1) |->
                       IF i = 0 THEN board ELSE TallySingle(g[i - 1], batch[i])]
  <2>2. n \in Nat
    OBVIOUS
  <2>3. ASSUME NEW i \in 0..(n + 1) PROVE g[i] = rhs[i]
    <3>1. CASE i = n + 1
      <4>1. g[i - 1] = f[n] /\ g[i] = TallySingle(f[n], batch[n + 1])
        BY <2>2, <3>1
      <4> QED BY <2>2, <3>1, <4>1
    <3>2. CASE i = 0
      <4>1. g[i] = f[0] /\ f[0] = board
        BY <2>1, <2>2, <3>2 DEF Acc
      <4> QED BY <2>2, <3>2, <4>1
    <3>3. CASE i \in 1..n
      <4>1. g[i] = f[i] /\ g[i - 1] = f[i - 1]
        BY <2>2, <3>3
      <4>2. f[i] = TallySingle(f[i - 1], batch[i])
        BY <2>1, <2>2, <3>3 DEF Acc
      <4> QED BY <2>2, <3>3, <4>1, <4>2
    <3> QED
      BY <2>2, <3>1, <3>2, <3>3
  <2>4. g = rhs
    BY <2>3
  <2>5. Acc(g, n + 1)
    BY <2>4 DEF Acc
  <2> QED
    BY <2>2, <2>5
<1>3. T = Nat
  <2> HIDE DEF T
  <2>1. T \subseteq Nat
    BY DEF T
  <2> QED BY <1>1, <1>2, <2>1, NatSetInduction
<1>4. \E f : Acc(f, Len(batch))
  <2>1. Len(batch) \in Nat
    OBVIOUS
  <2>2. Len(batch) \in T
    BY <1>3, <2>1
  <2> QED BY <2>2
<1>5. BoardAcc(board, batch) = CHOOSE f : Acc(f, Len(batch))
  BY DEF BoardAcc, Acc
<1>6. Acc(BoardAcc(board, batch), Len(batch))
  BY <1>4, <1>5
<1> QED
  BY <1>6 DEF Acc

\* The reference reading of a log is well defined.
LEMMA BallotsAccUnfold ==
    ASSUME NEW S, NEW log \in Seq(S)
    PROVE  BallotsAcc(log) =
             [i \in 0..Len(log) |->
                IF i = 0 THEN EmptyTree
                ELSE ApplyMessage(BallotsAcc(log)[i - 1], log[i])]
<1> DEFINE Acc(f, n) == f = [i \in 0..n |-> IF i = 0 THEN EmptyTree
                                            ELSE ApplyMessage(f[i - 1], log[i])]
           T == {n \in Nat : \E f : Acc(f, n)}
<1> HIDE DEF Acc
<1>1. 0 \in T
  <2> DEFINE f == [i \in 0..0 |-> EmptyTree]
  <2>1. f = [i \in 0..0 |-> IF i = 0 THEN EmptyTree ELSE ApplyMessage(f[i - 1], log[i])]
    OBVIOUS
  <2> QED
    BY <2>1 DEF Acc
<1>2. ASSUME NEW n \in T PROVE n + 1 \in T
  <2>1. PICK f : Acc(f, n)
    OBVIOUS
  <2> DEFINE g == [i \in 0..(n + 1) |->
                     IF i = n + 1 THEN ApplyMessage(f[n], log[n + 1]) ELSE f[i]]
             rhs == [i \in 0..(n + 1) |->
                       IF i = 0 THEN EmptyTree ELSE ApplyMessage(g[i - 1], log[i])]
  <2>2. n \in Nat
    OBVIOUS
  <2>3. ASSUME NEW i \in 0..(n + 1) PROVE g[i] = rhs[i]
    <3>1. CASE i = n + 1
      <4>1. g[i - 1] = f[n] /\ g[i] = ApplyMessage(f[n], log[n + 1])
        BY <2>2, <3>1
      <4> QED BY <2>2, <3>1, <4>1
    <3>2. CASE i = 0
      <4>1. g[i] = f[0] /\ f[0] = EmptyTree
        BY <2>1, <2>2, <3>2 DEF Acc
      <4> QED BY <2>2, <3>2, <4>1
    <3>3. CASE i \in 1..n
      <4>1. g[i] = f[i] /\ g[i - 1] = f[i - 1]
        BY <2>2, <3>3
      <4>2. f[i] = ApplyMessage(f[i - 1], log[i])
        BY <2>1, <2>2, <3>3 DEF Acc
      <4> QED BY <2>2, <3>3, <4>1, <4>2
    <3> QED
      BY <2>2, <3>1, <3>2, <3>3
  <2>4. g = rhs
    BY <2>3
  <2>5. Acc(g, n + 1)
    BY <2>4 DEF Acc
  <2> QED
    BY <2>2, <2>5
<1>3. T = Nat
  <2> HIDE DEF T
  <2>1. T \subseteq Nat
    BY DEF T
  <2> QED BY <1>1, <1>2, <2>1, NatSetInduction
<1>4. \E f : Acc(f, Len(log))
  <2>1. Len(log) \in Nat
    OBVIOUS
  <2>2. Len(log) \in T
    BY <1>3, <2>1
  <2> QED BY <2>2
<1>5. BallotsAcc(log) = CHOOSE f : Acc(f, Len(log))
  BY DEF BallotsAcc, Acc
<1>6. Acc(BallotsAcc(log), Len(log))
  BY <1>4, <1>5
<1> QED
  BY <1>6 DEF Acc

\* Reading no message leaves the empty tree.
LEMMA BallotsEmpty == Ballots(<<>>) = EmptyTree
<1>1. <<>> \in Seq(Messages) /\ Len(<<>>) = 0
  OBVIOUS
<1> DEFINE f == BallotsAcc(<<>>)
<1>2. f = [i \in 0..Len(<<>>) |->
             IF i = 0 THEN EmptyTree ELSE ApplyMessage(f[i - 1], <<>>[i])]
  BY <1>1, BallotsAccUnfold
<1> HIDE DEF f
<1>3. f[0] = EmptyTree
  BY <1>1, <1>2
<1> QED
  BY <1>1, <1>3 DEF Ballots, f

\* Reading one more message applies it to the ballots so far.
LEMMA BallotsAppend ==
    ASSUME NEW S, NEW log \in Seq(S), NEW m \in S
    PROVE  Ballots(Append(log, m)) = ApplyMessage(Ballots(log), m)
<1> DEFINE longer == Append(log, m)
           n == Len(log)
           f == BallotsAcc(log)
           g == BallotsAcc(longer)
<1>1. /\ n \in Nat
      /\ longer \in Seq(S)
      /\ Len(longer) = n + 1
      /\ longer[n + 1] = m
      /\ \A i \in 1..n : longer[i] = log[i]
  OBVIOUS
<1>2. f = [i \in 0..n |-> IF i = 0 THEN EmptyTree ELSE ApplyMessage(f[i - 1], log[i])]
  BY BallotsAccUnfold
<1>3. g = [i \in 0..(n + 1) |->
             IF i = 0 THEN EmptyTree ELSE ApplyMessage(g[i - 1], longer[i])]
  BY <1>1, BallotsAccUnfold
<1> HIDE DEF longer, f, g, n
<1> DEFINE T == {i \in Nat : i <= n => f[i] = g[i]}
<1>4. 0 \in T
  BY <1>1, <1>2, <1>3
<1>5. ASSUME NEW i \in T PROVE i + 1 \in T
  <2>1. SUFFICES ASSUME i + 1 <= n PROVE f[i + 1] = g[i + 1]
    OBVIOUS
  <2>2. i \in Nat /\ i <= n /\ f[i] = g[i]
    BY <1>1, <2>1
  <2>3. i + 1 \in 1..n /\ (i + 1) - 1 = i
    BY <1>1, <2>1, <2>2
  <2>4. f[i + 1] = ApplyMessage(f[i], log[i + 1])
    BY <1>1, <1>2, <2>3
  <2>5. g[i + 1] = ApplyMessage(g[i], longer[i + 1])
    BY <1>1, <1>3, <2>3
  <2> QED
    BY <1>1, <2>2, <2>3, <2>4, <2>5
<1>6. T = Nat
  <2> HIDE DEF T
  <2>1. T \subseteq Nat
    BY DEF T
  <2> QED
    BY <1>4, <1>5, <2>1, NatSetInduction
<1>7. f[n] = g[n]
  <2>1. n \in T
    BY <1>1, <1>6
  <2> QED BY <1>1, <2>1
<1>8. g[n + 1] = ApplyMessage(g[n], longer[n + 1])
  BY <1>1, <1>3
<1>9. Ballots(log) = f[n] /\ Ballots(longer) = g[n + 1]
  BY <1>1 DEF Ballots, f, g, n
<1> QED
  BY <1>1, <1>7, <1>8, <1>9 DEF longer

-----------------------------------------------------------------------------
(* The circuit's counters follow the ballots. *)

\* There are finitely many nullifiers, and counts of ballots are naturals.
LEMMA NullifiersFinite ==
    /\ IsFiniteSet(Nullifiers)
    /\ \A tree, c : Votes(tree, c) \in Nat
<1>1. IsFiniteSet(Nullifiers)
  BY CircuitConstants, FS_Product DEF Nullifiers
<1>2. ASSUME NEW tree, NEW c PROVE Votes(tree, c) \in Nat
  <2> DEFINE S == {nu \in Nullifiers : tree[nu].choice = c}
  <2>1. IsFiniteSet(S)
    <3>1. S \subseteq Nullifiers
      OBVIOUS
    <3> QED BY <1>1, <3>1, FS_Subset
  <2> QED
    BY <2>1, FS_CardinalityType DEF Votes
<1> QED
  BY <1>1, <1>2

\* Replacing one ballot moves one vote from the old choice to the new one.
LEMMA VotesUpdate ==
    ASSUME NEW tree \in Trees, NEW nu \in Nullifiers, NEW c,
           NEW leaf \in [choice : Nat, key : Nat]
    PROVE  Votes([tree EXCEPT ![nu] = leaf], c) =
             Votes(tree, c) + (IF leaf.choice = c THEN 1 ELSE 0)
                            - (IF tree[nu].choice = c THEN 1 ELSE 0)
<1> DEFINE new == [tree EXCEPT ![nu] = leaf]
           A == {x \in Nullifiers : tree[x].choice = c}
           B == {x \in Nullifiers : new[x].choice = c}
           R == {x \in Nullifiers \ {nu} : tree[x].choice = c}
<1>1. new[nu] = leaf /\ \A x \in Nullifiers \ {nu} : new[x] = tree[x]
  BY DEF Trees
<1>2. A = IF tree[nu].choice = c THEN R \union {nu} ELSE R
  OBVIOUS
<1>3. B = IF leaf.choice = c THEN R \union {nu} ELSE R
  BY <1>1
<1>4. IsFiniteSet(R)
  <2>1. R \subseteq Nullifiers
    OBVIOUS
  <2> QED BY <2>1, NullifiersFinite, FS_Subset
<1>5. nu \notin R
  OBVIOUS
<1> HIDE DEF A, B, R
<1>6. Cardinality(R) \in Nat /\ Cardinality(R \union {nu}) = Cardinality(R) + 1
  BY <1>4, <1>5, FS_CardinalityType, FS_AddElement
<1>7. Cardinality(A) = Cardinality(R) + (IF tree[nu].choice = c THEN 1 ELSE 0)
  BY <1>2, <1>6
<1>8. Cardinality(B) = Cardinality(R) + (IF leaf.choice = c THEN 1 ELSE 0)
  BY <1>3, <1>6
<1>9. Votes(tree, c) = Cardinality(A) /\ Votes(new, c) = Cardinality(B)
  BY DEF Votes, A, B
<1> HIDE DEF new
<1>10. Votes(new, c) = Votes(tree, c) + (IF leaf.choice = c THEN 1 ELSE 0)
                            - (IF tree[nu].choice = c THEN 1 ELSE 0)
  BY <1>6, <1>7, <1>8, <1>9
<1> QED
  BY <1>10 DEF new

Boards == [root : Trees, tally : Tallies]

\* One message of a batch changes the tree exactly as the reference does, and
\* keeps counters that were the histogram of the tree equal to it.
LEMMA TallySingleFaithful ==
    ASSUME NEW board \in Boards, NEW m \in Messages
    PROVE  /\ TallySingle(board, m) \in Boards
           /\ TallySingle(board, m).root = ApplyMessage(board.root, m)
           /\ board.tally = Histogram(board.root) =>
                 TallySingle(board, m).tally = Histogram(TallySingle(board, m).root)
<1> DEFINE nu == Nullifier(m)
           leaf == [choice |-> m.choice, key |-> m.revotingKeyNew]
           out == TallySingle(board, m)
           valid == m.revotingKeyOld = board.root[nu].key
<1>1. /\ nu \in Nullifiers
      /\ leaf \in [choice : Nat, key : Nat]
      /\ m.choice \in Nat
  BY CircuitConstants DEF MessageType, Nullifier, Nullifiers
<1>2. board.root \in Trees /\ board.tally \in Tallies
  BY DEF Boards
<1>3. board.root[nu] \in [choice : Nat, key : Nat]
  BY <1>1, <1>2 DEF Trees
<1>4. /\ out.root = IF valid THEN [board.root EXCEPT ![nu] = leaf] ELSE board.root
      /\ out.tally = [c \in 1..MAX_CHOICES |->
            TallyChoice(valid, board.root[nu].choice, m.choice, c, board.tally[c])]
      /\ out = [root |-> out.root, tally |-> out.tally]
  BY DEF TallySingle, RevotingKeyMatches
<1> HIDE DEF nu, leaf, out, valid
<1>5. out.root \in Trees
  BY <1>1, <1>2, <1>4 DEF Trees
<1>6. out.tally \in Tallies
  BY <1>1, <1>2, <1>3, <1>4, CircuitConstants DEF Tallies, TallyChoice
<1>7. out \in Boards
  BY <1>4, <1>5, <1>6 DEF Boards
<1>8. out.root = ApplyMessage(board.root, m)
  BY <1>4 DEF ApplyMessage, valid, nu, leaf
<1>9. ASSUME board.tally = Histogram(board.root)
      PROVE  out.tally = Histogram(out.root)
  <2>1. ASSUME NEW c \in 1..MAX_CHOICES PROVE out.tally[c] = Votes(out.root, c)
    <3>1. board.tally[c] = Votes(board.root, c)
      BY <1>9 DEF Histogram
    <3>2. leaf.choice = m.choice
      BY DEF leaf
    <3>3. CASE valid
      <4>1. Votes(out.root, c) =
              Votes(board.root, c) + (IF leaf.choice = c THEN 1 ELSE 0)
                 - (IF board.root[nu].choice = c THEN 1 ELSE 0)
        BY <1>1, <1>2, <1>4, <3>3, VotesUpdate
      <4> QED
        BY <1>4, <3>1, <3>2, <3>3, <4>1 DEF TallyChoice
    <3>4. CASE ~valid
      BY <1>4, <3>1, <3>4 DEF TallyChoice
    <3> QED
      BY <3>3, <3>4
  <2> QED
    BY <1>4, <2>1 DEF Histogram
<1> QED
  BY <1>7, <1>8, <1>9 DEF out

\* Zero counters are the histogram of the empty tree.
LEMMA EmptyTreeHistogram ==
    EmptyTree \in Trees /\ Histogram(EmptyTree) = ZeroTally
<1>1. EmptyTree \in Trees
  BY DEF EmptyTree, EmptyLeaf, NoKey, Trees
<1>2. ASSUME NEW c \in 1..MAX_CHOICES PROVE Votes(EmptyTree, c) = 0
  <2> DEFINE S == {nu \in Nullifiers : EmptyTree[nu].choice = c}
  <2>1. c # 0
    BY CircuitConstants
  <2>2. S = {}
    BY <2>1 DEF EmptyTree, EmptyLeaf
  <2> HIDE DEF S
  <2>3. Cardinality(S) = 0
    BY <2>2, FS_EmptySet
  <2> QED
    BY <2>3 DEF Votes, S
<1> QED
  BY <1>1, <1>2 DEF Histogram, ZeroTally

\* Extending a log by a longer prefix of a batch appends one message.
LEMMA PrefixStep ==
    ASSUME NEW log \in Seq(Messages), NEW batch \in Seq(Messages),
           NEW i \in 0..(Len(batch) - 1)
    PROVE  /\ SubSeq(batch, 1, i) \in Seq(Messages)
           /\ log \o SubSeq(batch, 1, i) \in Seq(Messages)
           /\ batch[i + 1] \in Messages
           /\ log \o SubSeq(batch, 1, i + 1) =
                Append(log \o SubSeq(batch, 1, i), batch[i + 1])
<1>1. /\ SubSeq(batch, 1, i) \in Seq(Messages)
      /\ Len(SubSeq(batch, 1, i)) = i
      /\ \A k \in 1..i : SubSeq(batch, 1, i)[k] = batch[k]
  OBVIOUS
<1>2. /\ SubSeq(batch, 1, i + 1) \in Seq(Messages)
      /\ Len(SubSeq(batch, 1, i + 1)) = i + 1
      /\ \A k \in 1..(i + 1) : SubSeq(batch, 1, i + 1)[k] = batch[k]
  OBVIOUS
<1>3. batch[i + 1] \in Messages
  OBVIOUS
<1> DEFINE short == SubSeq(batch, 1, i)
           long == SubSeq(batch, 1, i + 1)
<1>4. long = Append(short, batch[i + 1])
  BY <1>1, <1>2, <1>3
<1> HIDE DEF short, long
<1>5. short \in Seq(Messages)
  BY <1>1 DEF short
<1>6. log \o Append(short, batch[i + 1]) = Append(log \o short, batch[i + 1])
  BY <1>3, <1>5
<1> QED
  BY <1>3, <1>4, <1>5, <1>6 DEF short, long

\* A batch reads its messages as the reference does, whatever was read before.
LEMMA TallyOutFaithful ==
    ASSUME NEW log \in Seq(Messages), NEW batch \in Seq(Messages),
           NEW root \in Trees, NEW counts \in Tallies,
           root = Ballots(log), counts = Histogram(root)
    PROVE  LET out == TallyOut(root, counts, batch)
           IN  /\ out \in Boards
               /\ out.root = Ballots(log \o batch)
               /\ out.tally = Histogram(out.root)
<1> DEFINE board == [root |-> root, tally |-> counts]
           acc == BoardAcc(board, batch)
           Good(i) == /\ acc[i] \in Boards
                      /\ acc[i].root = Ballots(log \o SubSeq(batch, 1, i))
                      /\ acc[i].tally = Histogram(acc[i].root)
           T == {i \in Nat : i <= Len(batch) => Good(i)}
<1>1. Len(batch) \in Nat
  OBVIOUS
<1>2. acc = [i \in 0..Len(batch) |->
               IF i = 0 THEN board ELSE TallySingle(acc[i - 1], batch[i])]
  BY BoardAccUnfold
<1> HIDE DEF acc
<1>3. 0 \in T
  <2>1. acc[0] = board
    BY <1>1, <1>2
  <2>2. log \o SubSeq(batch, 1, 0) = log
    OBVIOUS
  <2>3. board \in Boards /\ board.root = root /\ board.tally = counts
    BY DEF Boards
  <2> HIDE DEF board
  <2>4. Good(0)
    BY <2>1, <2>2, <2>3
  <2> QED
    BY <2>4
<1>4. ASSUME NEW i \in T PROVE i + 1 \in T
  <2>1. SUFFICES ASSUME i + 1 <= Len(batch) PROVE Good(i + 1)
    OBVIOUS
  <2>2. i \in Nat /\ i \in 0..(Len(batch) - 1) /\ i + 1 \in 1..Len(batch)
    BY <1>1, <2>1
  <2>3. Good(i)
    BY <1>1, <2>1, <2>2
  <2>4. acc[i + 1] = TallySingle(acc[i], batch[i + 1])
    BY <1>1, <1>2, <2>2
  <2>5. /\ batch[i + 1] \in Messages
        /\ log \o SubSeq(batch, 1, i) \in Seq(Messages)
        /\ log \o SubSeq(batch, 1, i + 1) =
             Append(log \o SubSeq(batch, 1, i), batch[i + 1])
    BY <2>2, PrefixStep
  <2> DEFINE b == acc[i]
             m == batch[i + 1]
  <2>6. b \in Boards /\ m \in Messages /\ b.tally = Histogram(b.root)
    BY <2>3, <2>5
  <2> HIDE DEF b, m
  <2>7. /\ TallySingle(b, m) \in Boards
        /\ TallySingle(b, m).root = ApplyMessage(b.root, m)
        /\ TallySingle(b, m).tally = Histogram(TallySingle(b, m).root)
    BY <2>6, TallySingleFaithful
  <2>8. acc[i + 1] = TallySingle(b, m)
    BY <2>4 DEF b, m
  <2>9. Ballots(log \o SubSeq(batch, 1, i + 1)) =
          ApplyMessage(Ballots(log \o SubSeq(batch, 1, i)), m)
    BY <2>5, BallotsAppend DEF m
  <2>10. b.root = Ballots(log \o SubSeq(batch, 1, i))
    BY <2>3 DEF b
  <2> QED
    BY <2>7, <2>8, <2>9, <2>10
<1>5. T = Nat
  <2> HIDE DEF T
  <2>1. T \subseteq Nat
    BY DEF T
  <2> QED
    BY <1>3, <1>4, <2>1, NatSetInduction
<1>6. Good(Len(batch))
  <2>1. Len(batch) \in T
    BY <1>1, <1>5
  <2> QED BY <1>1, <2>1
<1>7. SubSeq(batch, 1, Len(batch)) = batch
  OBVIOUS
<1>8. TallyOut(root, counts, batch) = acc[Len(batch)]
  BY DEF TallyOut, acc
<1> QED
  BY <1>6, <1>7, <1>8

\* A batch keeps the types of the committed tree and counters.
LEMMA TallyOutType ==
    ASSUME NEW batch \in Seq(Messages), NEW root \in Trees, NEW counts \in Tallies
    PROVE  TallyOut(root, counts, batch) \in Boards
<1> DEFINE board == [root |-> root, tally |-> counts]
           acc == BoardAcc(board, batch)
           T == {i \in Nat : i <= Len(batch) => acc[i] \in Boards}
<1>1. Len(batch) \in Nat /\ board \in Boards
  BY DEF Boards
<1>2. acc = [i \in 0..Len(batch) |->
               IF i = 0 THEN board ELSE TallySingle(acc[i - 1], batch[i])]
  BY BoardAccUnfold
<1> HIDE DEF acc, board
<1>3. 0 \in T
  BY <1>1, <1>2
<1>4. ASSUME NEW i \in T PROVE i + 1 \in T
  <2>1. SUFFICES ASSUME i + 1 <= Len(batch) PROVE acc[i + 1] \in Boards
    OBVIOUS
  <2>2. i \in Nat /\ acc[i] \in Boards /\ batch[i + 1] \in Messages
    BY <1>1, <2>1
  <2>3. acc[i + 1] = TallySingle(acc[i], batch[i + 1])
    BY <1>1, <1>2, <2>1, <2>2
  <2> QED
    BY <2>2, <2>3, TallySingleFaithful
<1>5. T = Nat
  <2> HIDE DEF T
  <2>1. T \subseteq Nat
    BY DEF T
  <2> QED
    BY <1>3, <1>4, <2>1, NatSetInduction
<1>6. acc[Len(batch)] \in Boards
  <2>1. Len(batch) \in T
    BY <1>1, <1>5
  <2> QED BY <1>1, <2>1
<1> QED
  BY <1>6 DEF TallyOut, acc, board

-----------------------------------------------------------------------------
(* The ballot of a voter who follows the revoting protocol *)

\* A nonempty set of naturals with an upper bound has a largest member.
LEMMA LargestExists ==
    ASSUME NEW n \in Nat, NEW S, S \subseteq 0..n, S # {}
    PROVE  \E i \in S : \A j \in S : j <= i
<1> DEFINE Gaps == {n - i : i \in S}
<1>1. IsWellFoundedOn(OpToRel(<, Nat), Nat)
  BY NatLessThanWellFounded
<1>2. Gaps \subseteq Nat /\ Gaps # {}
  <2>1. \A i \in S : n - i \in Nat
    OBVIOUS
  <2> QED
    BY <2>1
<1>3. PICK x \in Gaps : \A y \in Gaps : ~ (<<y, x>> \in OpToRel(<, Nat))
  BY <1>1, <1>2, WFMin
<1>4. PICK i \in S : x = n - i
  BY <1>3
<1>5. ASSUME NEW j \in S PROVE j <= i
  <2>1. n - j \in Gaps /\ n - j \in Nat /\ x \in Nat
    BY <1>2
  <2>2. ~ (n - j < x)
    BY <1>3, <2>1 DEF OpToRel
  <2>3. i \in Nat /\ j \in Nat
    OBVIOUS
  <2> QED
    BY <1>4, <2>2, <2>3
<1> QED
  BY <1>5

\* Every log produces a tree of ballots.
LEMMA BallotsType ==
    ASSUME NEW log \in Seq(Messages)
    PROVE  Ballots(log) \in Trees
<1>1. /\ <<>> \in Seq(Messages) /\ <<>> \o log = log
      /\ EmptyTree = Ballots(<<>>) /\ EmptyTree \in Trees
      /\ ZeroTally = Histogram(EmptyTree)
  BY BallotsEmpty, EmptyTreeHistogram
<1>2. ZeroTally \in Tallies
  BY DEF ZeroTally, Tallies
<1>3. PICK nothing, tree, counts :
          /\ nothing \in Seq(Messages) /\ tree \in Trees /\ counts \in Tallies
          /\ nothing \o log = log
          /\ tree = Ballots(nothing) /\ counts = Histogram(tree)
  BY <1>1, <1>2
<1>4. LET out == TallyOut(tree, counts, log)
      IN  /\ out \in Boards
          /\ out.root = Ballots(nothing \o log)
          /\ out.tally = Histogram(out.root)
  BY <1>3, TallyOutFaithful
<1>5. PICK out : out \in Boards /\ out.root = Ballots(log)
  BY <1>3, <1>4
<1> QED
  BY <1>5 DEF Boards

\* What the Vote circuit enforces of every message in a log.
NewKeysOnly(log) ==
    \A k \in DOMAIN log :
        log[k].revotingKeyNew # NoKey /\ log[k].revotingKeyNew # log[k].revotingKeyOld

\* Every message of nu has a first sending.
SentBefore(log, nu) ==
    \A k \in DOMAIN log : Nullifier(log[k]) = nu =>
        \E i \in FirstSendings(log, nu) : log[i] = log[k]

\* A follower of the protocol has the ballot of her latest new message.
LatestCounts(log, nu) ==
    FollowsProtocol(log, nu) =>
        /\ FirstSendings(log, nu) = {} => Ballots(log)[nu] = EmptyLeaf
        /\ \A i \in FirstSendings(log, nu) :
              (\A j \in FirstSendings(log, nu) : j <= i) =>
                  Ballots(log)[nu] = [choice |-> log[i].choice,
                                      key |-> log[i].revotingKeyNew]

\* FollowsProtocol, sending by sending.
Before(sent, i) == {j \in sent : j < i}

FollowsOn(log, i, before) ==
    /\ before = {} => log[i].revotingKeyOld = NoKey
    /\ \A j \in before :
          /\ (\A k \in before : k <= j) =>
                log[i].revotingKeyOld = log[j].revotingKeyNew
          /\ log[i].revotingKeyNew # log[j].revotingKeyNew

\* FollowsProtocol says this of every first sending.
LEMMA FollowsUnfold ==
    ASSUME NEW log, NEW nu
    PROVE  FollowsProtocol(log, nu) <=>
             \A i \in FirstSendings(log, nu) :
                FollowsOn(log, i, Before(FirstSendings(log, nu), i))
BY DEF FollowsProtocol, FollowsOn, Before

\* A message at the end of a log is a first sending, or changes none.
LEMMA SendingsAppend ==
    ASSUME NEW log \in Seq(Messages), NEW m \in Messages, NEW nu
    PROVE  FirstSendings(Append(log, m), nu) =
             IF Nullifier(m) = nu /\ \A k \in DOMAIN log : log[k] # m
             THEN FirstSendings(log, nu) \union {Len(log) + 1}
             ELSE FirstSendings(log, nu)
<1> DEFINE n == Len(log)
           longer == Append(log, m)
<1>1. /\ n \in Nat /\ longer \in Seq(Messages)
      /\ n = Len(log) /\ DOMAIN log = 1..n /\ longer = Append(log, m)
      /\ DOMAIN longer = 1..(n + 1) /\ longer[n + 1] = m
      /\ \A k \in 1..n : longer[k] = log[k]
  OBVIOUS
<1> HIDE DEF n, longer
<1>2. ASSUME NEW i \in 1..n
      PROVE  i \in FirstSendings(longer, nu) <=> i \in FirstSendings(log, nu)
  <2>1. \A j \in 1..(i - 1) : j \in 1..n
    BY <1>1
  <2> QED
    BY <1>1, <2>1 DEF FirstSendings
<1>3. n + 1 \in FirstSendings(longer, nu)
        <=> Nullifier(m) = nu /\ \A k \in DOMAIN log : log[k] # m
  <2>1. (n + 1) - 1 = n
    BY <1>1
  <2> QED
    BY <1>1, <2>1 DEF FirstSendings
<1>4. FirstSendings(log, nu) \subseteq 1..n /\ FirstSendings(longer, nu) \subseteq 1..(n + 1)
  BY <1>1 DEF FirstSendings
<1>5. \A i \in 1..(n + 1) : i \in 1..n \/ i = n + 1
  BY <1>1
<1>6. PICK S, T : S = FirstSendings(log, nu) /\ T = FirstSendings(longer, nu)
  OBVIOUS
<1>7. T = IF Nullifier(m) = nu /\ \A k \in DOMAIN log : log[k] # m
          THEN S \union {n + 1} ELSE S
  <2>1. S \subseteq 1..n /\ T \subseteq 1..(n + 1) /\ n + 1 \notin 1..n
    BY <1>1, <1>4, <1>6
  <2>2. \A i \in 1..n : i \in T <=> i \in S
    BY <1>2, <1>6
  <2>3. n + 1 \in T <=> Nullifier(m) = nu /\ \A k \in DOMAIN log : log[k] # m
    BY <1>3, <1>6
  <2>4. n + 1 \in T => T = S \union {n + 1}
    BY <1>5, <2>1, <2>2
  <2>5. n + 1 \notin T => T = S
    BY <1>5, <2>1, <2>2
  <2> QED
    BY <2>3, <2>4, <2>5
<1> QED
  BY <1>1, <1>6, <1>7

\* The protocol followed to the end was followed before.
LEMMA FollowsPrefix ==
    ASSUME NEW log \in Seq(Messages), NEW m \in Messages, NEW nu,
           FollowsProtocol(Append(log, m), nu)
    PROVE  FollowsProtocol(log, nu)
<1> DEFINE n == Len(log)
           longer == Append(log, m)
<1>1. /\ n \in Nat /\ longer \in Seq(Messages)
      /\ n = Len(log) /\ DOMAIN log = 1..n /\ longer = Append(log, m)
      /\ \A k \in 1..n : longer[k] = log[k]
  OBVIOUS
<1> HIDE DEF n, longer
<1>2. PICK S : S = FirstSendings(log, nu)
  OBVIOUS
<1>3. S \subseteq 1..n
  BY <1>1, <1>2 DEF FirstSendings
<1>4. PICK T : T = FirstSendings(longer, nu)
  OBVIOUS
<1>5. T = S \/ T = S \union {n + 1}
  BY <1>1, <1>2, <1>4, SendingsAppend
<1>6. ASSUME NEW i \in S PROVE FollowsOn(log, i, Before(S, i))
  <2>1. PICK before : before = Before(S, i)
    OBVIOUS
  <2>2. i \in T /\ i \in 1..n
    BY <1>3, <1>5
  <2>3. before = Before(T, i)
    <3>1. n + 1 \notin S /\ ~(n + 1 < i)
      BY <1>1, <1>3, <2>2
    <3> QED
      BY <1>5, <2>1, <3>1 DEF Before
  <2>4. FollowsOn(longer, i, before)
    <3>1. FollowsProtocol(longer, nu)
      BY <1>1
    <3> QED
      BY <1>4, <2>2, <2>3, <3>1, FollowsUnfold
  <2>5. longer[i] = log[i] /\ \A j \in before : longer[j] = log[j]
    BY <1>1, <1>3, <2>1, <2>2 DEF Before
  <2> QED
    BY <2>1, <2>4, <2>5 DEF FollowsOn
<1> QED
  BY <1>2, <1>6, FollowsUnfold

\* Nobody's ballot has to count before the first message.
LEMMA LatestCountsEmpty ==
    ASSUME NEW nu \in Nullifiers
    PROVE  SentBefore(<<>>, nu) /\ LatestCounts(<<>>, nu)
<1>1. FirstSendings(<<>>, nu) = {}
  BY DEF FirstSendings
<1> QED
  BY <1>1, BallotsEmpty DEF SentBefore, LatestCounts, EmptyTree

\* A further message keeps the latest ballot counting: a new one is applied,
\* a repeated one is skipped, and one of another voter is about another leaf.
LEMMA LatestCountsAppend ==
    ASSUME NEW log \in Seq(Messages), NEW m \in Messages, NEW nu \in Nullifiers,
           NewKeysOnly(Append(log, m)), SentBefore(log, nu), LatestCounts(log, nu)
    PROVE  SentBefore(Append(log, m), nu) /\ LatestCounts(Append(log, m), nu)
<1> DEFINE n == Len(log)
           longer == Append(log, m)
<1>1. /\ n \in Nat /\ longer \in Seq(Messages)
      /\ n = Len(log) /\ DOMAIN log = 1..n /\ longer = Append(log, m)
      /\ DOMAIN longer = 1..(n + 1) /\ longer[n + 1] = m
      /\ \A k \in 1..n : longer[k] = log[k]
  OBVIOUS
<1> HIDE DEF n, longer
<1>2. PICK S : S = FirstSendings(log, nu)
  OBVIOUS
<1>3. PICK T : T = FirstSendings(longer, nu)
  OBVIOUS
<1>4. T = IF Nullifier(m) = nu /\ \A k \in 1..n : log[k] # m THEN S \union {n + 1} ELSE S
  BY <1>1, <1>2, <1>3, SendingsAppend
<1>5. S \subseteq 1..n
  BY <1>1, <1>2 DEF FirstSendings
<1>6. SentBefore(longer, nu)
  <2>1. ASSUME NEW k \in 1..(n + 1), Nullifier(longer[k]) = nu
        PROVE  \E i \in T : longer[i] = longer[k]
    <3>1. CASE longer[k] = m /\ \A j \in 1..n : log[j] # m
      <4>1. n + 1 \in T
        BY <1>4, <2>1, <3>1
      <4> QED
        BY <1>1, <3>1, <4>1
    <3>2. CASE ~(longer[k] = m /\ \A j \in 1..n : log[j] # m)
      <4>1. PICK j \in 1..n : log[j] = longer[k]
        BY <1>1, <3>2
      <4>2. PICK i \in S : log[i] = log[j]
        BY <1>1, <1>2, <2>1, <4>1 DEF SentBefore
      <4>3. i \in T /\ longer[i] = log[i]
        BY <1>1, <1>4, <1>5, <4>2
      <4> QED
        BY <4>1, <4>2, <4>3
    <3> QED
      BY <3>1, <3>2
  <2> QED
    BY <1>1, <1>3, <2>1 DEF SentBefore
<1>7. PICK old, new : old = Ballots(log) /\ new = Ballots(longer)
  OBVIOUS
<1>8. new = ApplyMessage(old, m)
  BY <1>1, <1>7, BallotsAppend
<1>9. old \in Trees
  BY <1>7, BallotsType
<1>10. SUFFICES ASSUME FollowsProtocol(longer, nu)
                PROVE  /\ T = {} => new[nu] = EmptyLeaf
                       /\ \A i \in T : (\A j \in T : j <= i) =>
                             new[nu] = [choice |-> longer[i].choice,
                                        key |-> longer[i].revotingKeyNew]
  BY <1>1, <1>3, <1>6, <1>7 DEF LatestCounts
<1>11. /\ S = {} => old[nu] = EmptyLeaf
       /\ \A i \in S : (\A j \in S : j <= i) =>
             old[nu] = [choice |-> log[i].choice, key |-> log[i].revotingKeyNew]
  BY <1>1, <1>2, <1>7, <1>10, FollowsPrefix DEF LatestCounts
\* the leaf of nu does not change
<1>12. ASSUME T = S, new[nu] = old[nu]
       PROVE  /\ T = {} => new[nu] = EmptyLeaf
              /\ \A i \in T : (\A j \in T : j <= i) =>
                    new[nu] = [choice |-> longer[i].choice,
                               key |-> longer[i].revotingKeyNew]
  <2>1. \A i \in S : longer[i] = log[i]
    BY <1>1, <1>5
  <2> QED
    BY <1>11, <1>12, <2>1
<1>13. CASE Nullifier(m) # nu
  <2>1. new[nu] = old[nu]
    BY <1>8, <1>9, <1>13 DEF ApplyMessage, Trees
  <2>2. T = S
    BY <1>4, <1>13
  <2> QED
    BY <1>12, <2>1, <2>2
<1>14. CASE Nullifier(m) = nu /\ \A k \in 1..n : log[k] # m
  <2>1. T = S \union {n + 1}
    BY <1>4, <1>14
  <2>2. Before(T, n + 1) = S
    <3>1. \A j \in S : j < n + 1
      BY <1>1, <1>5
    <3> QED
      BY <1>1, <2>1, <3>1 DEF Before
  <2>3. FollowsOn(longer, n + 1, S)
    BY <1>3, <1>10, <2>1, <2>2, FollowsUnfold
  <2>4. m.revotingKeyOld = old[nu].key
    <3>1. CASE S = {}
      BY <1>1, <1>11, <2>3, <3>1 DEF EmptyLeaf, FollowsOn
    <3>2. CASE S # {}
      <4>1. S \subseteq 0..n
        BY <1>5
      <4>2. PICK i \in S : \A j \in S : j <= i
        BY <1>1, <3>2, <4>1, LargestExists
      <4>3. longer[i] = log[i]
        BY <1>1, <1>5
      <4>4. m.revotingKeyOld = log[i].revotingKeyNew
        BY <1>1, <2>3, <4>2, <4>3 DEF FollowsOn
      <4>5. old[nu] = [choice |-> log[i].choice, key |-> log[i].revotingKeyNew]
        BY <1>11, <4>2
      <4> QED
        BY <4>4, <4>5
    <3> QED
      BY <3>1, <3>2
  <2>5. new[nu] = [choice |-> m.choice, key |-> m.revotingKeyNew]
    BY <1>8, <1>9, <1>14, <2>4 DEF ApplyMessage, Trees
  <2>6. \A i \in T : (\A j \in T : j <= i) => i = n + 1
    <3>1. \A i \in S : ~(n + 1 <= i)
      BY <1>1, <1>5
    <3> QED
      BY <2>1, <3>1
  <2> QED
    BY <1>1, <2>1, <2>5, <2>6
<1>15. CASE Nullifier(m) = nu /\ \E k \in 1..n : log[k] = m
  <2>1. T = S
    BY <1>4, <1>15
  <2>2. PICK i \in S : log[i] = m
    BY <1>1, <1>2, <1>15 DEF SentBefore
  <2>3. PICK last \in S : \A j \in S : j <= last
    <3>1. S \subseteq 0..n /\ S # {}
      BY <1>5, <2>2
    <3> QED
      BY <1>1, <3>1, LargestExists
  <2>4. old[nu].key = log[last].revotingKeyNew
    <3>1. old[nu] = [choice |-> log[last].choice, key |-> log[last].revotingKeyNew]
      BY <1>11, <2>3
    <3> QED
      BY <3>1
  <2>5. i \in 1..n /\ last \in 1..n /\ longer[i] = m /\ longer[last] = log[last]
    BY <1>1, <1>5, <2>2
  <2>6. m.revotingKeyOld # old[nu].key
    <3>1. CASE i = last
      <4>1. m.revotingKeyNew # m.revotingKeyOld
        BY <1>1, <2>5 DEF NewKeysOnly
      <4> QED
        BY <2>2, <2>4, <3>1, <4>1
    <3>2. CASE i # last
      <4>1. i < last
        BY <2>3, <2>5, <3>2
      <4>2. PICK before : before = Before(T, i)
        OBVIOUS
      <4>3. FollowsOn(longer, i, before)
        BY <1>3, <1>10, <2>1, <2>2, <4>2, FollowsUnfold
      <4>4. CASE before = {}
        <5>1. longer[last].revotingKeyNew # NoKey
          BY <1>1, <2>5 DEF NewKeysOnly
        <5> QED
          BY <2>4, <2>5, <4>3, <4>4, <5>1 DEF FollowsOn
      <4>5. CASE before # {}
        <5>1. before \subseteq S
          BY <2>1, <4>2 DEF Before
        <5>2. before \subseteq 0..n
          <6>1. \A j \in 1..n : j \in 0..n
            BY <1>1
          <6> QED
            BY <1>5, <5>1, <6>1
        <5>3. PICK j \in before : \A k \in before : k <= j
          BY <1>1, <4>5, <5>2, LargestExists
        <5>4. m.revotingKeyOld = longer[j].revotingKeyNew
          BY <2>5, <4>3, <5>3 DEF FollowsOn
        <5>5. j \in 1..n /\ j < i /\ last \in T
          BY <1>5, <2>1, <4>2, <5>1 DEF Before
        <5>6. j \in Before(T, last)
          <6>1. j < last
            BY <2>5, <4>1, <5>5
          <6> QED
            BY <2>1, <5>1, <6>1 DEF Before
        <5>7. FollowsOn(longer, last, Before(T, last))
          BY <1>3, <1>10, <5>5, FollowsUnfold
        <5>8. longer[last].revotingKeyNew # longer[j].revotingKeyNew
          BY <5>6, <5>7 DEF FollowsOn
        <5> QED
          BY <2>4, <2>5, <5>4, <5>8
      <4> QED
        BY <4>4, <4>5
    <3> QED
      BY <3>1, <3>2
  <2>7. new[nu] = old[nu]
    BY <1>8, <1>15, <2>6 DEF ApplyMessage
  <2> QED
    BY <1>12, <2>1, <2>7
<1> QED
  BY <1>13, <1>14, <1>15
=============================================================================
