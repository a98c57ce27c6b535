---------------------------- MODULE FiniteFacts ----------------------------
(***************************************************************************)
(* Facts about finite sets: induction, least elements, and the sum of f[x] *)
(* for x in S, SumFunctionOnSet of the community modules.  Induction has   *)
(* the form of a minimal element of a set of subsets, which takes no       *)
(* operator as a parameter.                                                *)
(***************************************************************************)
EXTENDS Integers, FiniteSets, Functions, FiniteSetTheorems, WellFoundedInduction, TLAPS

\* Every set of subsets of a finite set has a minimal element.
LEMMA MinimalSubset ==
    ASSUME NEW S, IsFiniteSet(S), NEW T, T \subseteq SUBSET S, T # {}
    PROVE  \E x \in T : \A y \in T : y \subseteq x => y = x
<1>1. IsWellFoundedOn(StrictSubsetOrdering(S), FiniteSubsetsOf(S))
  BY FS_StrictSubsetOrderingWellFounded
<1>2. T \subseteq FiniteSubsetsOf(S)
  BY FS_FiniteSubsetsOfFinite
<1>3. PICK x \in T : \A y \in T : <<y, x>> \notin StrictSubsetOrdering(S)
  BY <1>1, <1>2, WFMin
<1> QED
  BY <1>3 DEF StrictSubsetOrdering

\* Induction: a set of subsets that holds {} and, with U, every U \cup {x}
\* holds all of them.
LEMMA SubsetInduction ==
    ASSUME NEW S, IsFiniteSet(S), NEW P, {} \in P,
           \A U \in SUBSET S, x \in S : U \in P /\ x \notin U => U \cup {x} \in P
    PROVE  \A U \in SUBSET S : U \in P
<1> DEFINE T == {U \in SUBSET S : U \notin P}
<1> SUFFICES ASSUME T # {} PROVE FALSE
  OBVIOUS
<1>1. PICK U \in T : \A V \in T : V \subseteq U => V = U
  <2>1. T \subseteq SUBSET S
    OBVIOUS
  <2> HIDE DEF T
  <2> QED
    BY <2>1, MinimalSubset
<1>2. PICK x \in U : TRUE
  BY <1>1
<1>3. U \ {x} \in P
  BY <1>1, <1>2
<1>4. (U \ {x}) \cup {x} = U
  BY <1>2
<1> QED
  BY <1>1, <1>2, <1>3, <1>4

\* A set of positions has a first one.
LEMMA FirstPosition ==
    ASSUME NEW n \in Nat, NEW S, S \subseteq 1..n, S # {}
    PROVE  \E k \in S : \A j \in S : k <= j
<1> DEFINE I == 1..n
<1> DEFINE T == {1..k : k \in S}
<1>1. IsFiniteSet(I)
  BY FS_Interval
<1>2. T \subseteq SUBSET I
  OBVIOUS
<1>3. T # {}
  <2>1. PICK k \in S : TRUE
    OBVIOUS
  <2>2. 1..k \in T
    OBVIOUS
  <2> QED
    BY <2>2
<1>4. PICK x \in T : \A y \in T : y \subseteq x => y = x
  <2> HIDE DEF T, I
  <2> QED
    BY <1>1, <1>2, <1>3, MinimalSubset
<1>5. PICK k \in S : x = 1..k
  OBVIOUS
<1>6. ASSUME NEW j \in S, j < k PROVE FALSE
  <2>1. 1..j \subseteq 1..k /\ k \in 1..k /\ k \notin 1..j
    BY <1>6
  <2>2. 1..j = 1..k
    BY <1>4, <1>5, <2>1
  <2> QED
    BY <2>1, <2>2
<1> QED
  BY <1>6

-----------------------------------------------------------------------------
(* The recursion of the definition has a solution, and one only.           *)

Choice(S) == CHOOSE x \in S : TRUE
Solves(g, f, S) ==
    g = [s \in SUBSET S |-> IF s = {} THEN 0 ELSE f[Choice(s)] + g[s \ {Choice(s)}]]

LEMMA SumIsChoice ==
    ASSUME NEW f, NEW S
    PROVE  SumFunctionOnSet(f, S) = (CHOOSE g : Solves(g, f, S))[S]
BY DEF SumFunctionOnSet, FoldFunctionOnSet, MapThenFoldSet, Solves, Choice

LEMMA ChoiceIn == \A s : s # {} => Choice(s) \in s
BY DEF Choice

\* Solutions for two sets agree on their common subsets.
LEMMA SolutionsAgree ==
    ASSUME NEW f, NEW S, IsFiniteSet(S), NEW T \in SUBSET S, NEW g, NEW h,
           Solves(g, f, S), Solves(h, f, T)
    PROVE  g[T] = h[T]
<1> DEFINE P == {U \in SUBSET T : g[U] = h[U]}
<1>1. \A U \in SUBSET T : U \in P
  <2> DEFINE Q == {U \in SUBSET T : U \notin P}
  <2> SUFFICES ASSUME Q # {} PROVE FALSE
    OBVIOUS
  <2>1. PICK U \in Q : \A V \in Q : V \subseteq U => V = U
    <3>1. IsFiniteSet(T)
      BY FS_Subset
    <3> HIDE DEF Q
    <3>2. Q \subseteq SUBSET T
      BY DEF Q
    <3> QED
      BY <3>1, <3>2, MinimalSubset
  <2>2. U # {}
    BY <2>1 DEF Solves
  <2>3. Choice(U) \in U
    BY <2>2, ChoiceIn
  <2>4. g[U \ {Choice(U)}] = h[U \ {Choice(U)}]
    BY <2>1, <2>3
  <2>5. g[U] = f[Choice(U)] + g[U \ {Choice(U)}] /\ h[U] = f[Choice(U)] + h[U \ {Choice(U)}]
    BY <2>1, <2>2 DEF Solves
  <2> QED
    BY <2>1, <2>4, <2>5
<1> QED
  BY <1>1

\* There is a solution: extend one for the subsets of U by one element.
LEMMA SolutionExists ==
    ASSUME NEW f, NEW S, IsFiniteSet(S)
    PROVE  \E g : Solves(g, f, S)
<1> DEFINE Bad == {U \in SUBSET S : ~ \E g : Solves(g, f, U)}
<1> SUFFICES ASSUME Bad # {} PROVE FALSE
  OBVIOUS
<1>1. PICK U \in Bad : \A V \in Bad : V \subseteq U => V = U
  <2> HIDE DEF Bad
  <2>1. Bad \subseteq SUBSET S
    BY DEF Bad
  <2> QED
    BY <2>1, MinimalSubset
<1>2. IsFiniteSet(U)
  BY <1>1, FS_Subset
<1> DEFINE H(V) == CHOOSE g : Solves(g, f, V)
<1>3. \A V \in SUBSET U : V # U => Solves(H(V), f, V)
  BY <1>1
<1> DEFINE h == [s \in SUBSET U |-> IF s = {} THEN 0
                                    ELSE f[Choice(s)] + H(s \ {Choice(s)})[s \ {Choice(s)}]]
<1>4. \A s \in SUBSET U : s # U => h[s] = H(s)[s]
  <2> SUFFICES ASSUME NEW s \in SUBSET U, s # U PROVE h[s] = H(s)[s]
    OBVIOUS
  <2>1. CASE s = {}
    <3>1. Solves(H(s), f, s)
      BY <1>3
    <3>2. h[s] = 0
      BY <2>1
    <3> HIDE DEF H, h
    <3> QED
      BY <2>1, <3>1, <3>2 DEF Solves
  <2>2. CASE s # {}
    <3> DEFINE v == s \ {Choice(s)}
    <3>1. Choice(s) \in s
      BY <2>2, ChoiceIn
    <3>2. Solves(H(s), f, s) /\ Solves(H(v), f, v)
      BY <1>3, <3>1
    <3>3. H(s)[v] = H(v)[v]
      <4>1. IsFiniteSet(s) /\ v \in SUBSET s
        BY <1>2, FS_Subset
      <4> HIDE DEF H, v
      <4> QED
        BY <4>1, <3>2, SolutionsAgree
    <3>4. H(s)[s] = f[Choice(s)] + H(s)[v]
      BY <2>2, <3>2 DEF Solves
    <3> QED
      BY <2>2, <3>3, <3>4
  <2> QED
    BY <2>1, <2>2
<1>5. Solves(h, f, U)
  <2>1. \A s \in SUBSET U : s # {} => h[s] = f[Choice(s)] + h[s \ {Choice(s)}]
    <3> SUFFICES ASSUME NEW s \in SUBSET U, s # {}
                 PROVE  h[s] = f[Choice(s)] + h[s \ {Choice(s)}]
      OBVIOUS
    <3>1. Choice(s) \in s
      BY ChoiceIn
    <3>2. h[s \ {Choice(s)}] = H(s \ {Choice(s)})[s \ {Choice(s)}]
      BY <1>4, <3>1
    <3> QED
      BY <3>2
  <2>2. h[{}] = 0
    OBVIOUS
  <2>3. h = [s \in SUBSET U |-> h[s]]
    OBVIOUS
  <2> HIDE DEF h
  <2>4. \A s \in SUBSET U : h[s] = IF s = {} THEN 0 ELSE f[Choice(s)] + h[s \ {Choice(s)}]
    BY <2>1, <2>2
  <2> QED
    BY <2>3, <2>4 DEF Solves
<1> QED
  BY <1>1, <1>5

LEMMA SumEmpty == \A f : SumFunctionOnSet(f, {}) = 0
<1> SUFFICES ASSUME NEW f PROVE SumFunctionOnSet(f, {}) = 0
  OBVIOUS
<1>1. Solves(CHOOSE g : Solves(g, f, {}), f, {})
  BY SolutionExists, FS_EmptySet
<1> QED
  BY <1>1, SumIsChoice DEF Solves

LEMMA SumChoice ==
    ASSUME NEW f, NEW S, IsFiniteSet(S), S # {}
    PROVE  SumFunctionOnSet(f, S) = f[Choice(S)] + SumFunctionOnSet(f, S \ {Choice(S)})
<1> DEFINE R == S \ {Choice(S)}
           g == CHOOSE g : Solves(g, f, S)
           h == CHOOSE h : Solves(h, f, R)
<1>1. IsFiniteSet(R)
  BY FS_RemoveElement
<1>2. Solves(g, f, S)
  BY SolutionExists
<1>3. Solves(h, f, R)
  BY <1>1, SolutionExists
<1>4. SumFunctionOnSet(f, S) = g[S] /\ SumFunctionOnSet(f, R) = h[R]
  BY SumIsChoice
<1>5. g[R] = h[R]
  <2> HIDE DEF g, h
  <2>1. R \in SUBSET S
    OBVIOUS
  <2> HIDE DEF R
  <2> QED
    BY <1>2, <1>3, <2>1, SolutionsAgree
<1>6. g[S] = f[Choice(S)] + g[R]
  BY <1>2 DEF Solves
<1> QED
  BY <1>4, <1>5, <1>6

-----------------------------------------------------------------------------
(* What sums are good for.                                                 *)

\* A sum of integers is one, and any element may be taken out first.
LEMMA SumRemoveAux ==
    ASSUME NEW S, IsFiniteSet(S), NEW f, \A x \in S : f[x] \in Int
    PROVE  \A U \in SUBSET S : /\ SumFunctionOnSet(f, U) \in Int
                              /\ \A x \in U : SumFunctionOnSet(f, U) =
                                                 f[x] + SumFunctionOnSet(f, U \ {x})
<1> DEFINE Good(U) == /\ SumFunctionOnSet(f, U) \in Int
                      /\ \A x \in U : SumFunctionOnSet(f, U) = f[x] + SumFunctionOnSet(f, U \ {x})
           Bad == {U \in SUBSET S : ~Good(U)}
<1> SUFFICES ASSUME Bad # {} PROVE FALSE
  OBVIOUS
<1>1. PICK U \in Bad : \A V \in Bad : V \subseteq U => V = U
  <2>1. Bad \subseteq SUBSET S
    OBVIOUS
  <2> HIDE DEF Bad
  <2> QED
    BY <2>1, MinimalSubset
<1>2. \A V \in SUBSET U : V # U => Good(V)
  BY <1>1
<1> HIDE DEF Bad
<1>3. U # {}
  <2> SUFFICES ASSUME U = {} PROVE FALSE
    OBVIOUS
  <2>1. Good(U)
    BY SumEmpty
  <2> QED
    BY <1>1, <2>1 DEF Bad
<1> DEFINE y == Choice(U)
<1>4. y \in U
  BY <1>3, ChoiceIn
<1>5. U \subseteq S
  BY <1>1 DEF Bad
<1>6. SumFunctionOnSet(f, U) = f[y] + SumFunctionOnSet(f, U \ {y})
  <2>1. IsFiniteSet(U)
    BY <1>5, FS_Subset
  <2> QED
    BY <1>3, <2>1, SumChoice
<1> HIDE DEF y
<1>7. Good(U \ {y}) /\ f[y] \in Int
  BY <1>2, <1>4, <1>5
<1>8. ASSUME NEW x \in U, x # y PROVE SumFunctionOnSet(f, U) = f[x] + SumFunctionOnSet(f, U \ {x})
  <2>1. SumFunctionOnSet(f, U \ {y}) = f[x] + SumFunctionOnSet(f, (U \ {y}) \ {x})
    BY <1>7, <1>8
  <2>2. Good(U \ {x}) /\ Good((U \ {y}) \ {x})
    BY <1>2, <1>4, <1>8
  <2>3. SumFunctionOnSet(f, U \ {x}) = f[y] + SumFunctionOnSet(f, (U \ {x}) \ {y})
    BY <1>4, <1>8, <2>2
  <2>4. SumFunctionOnSet(f, (U \ {x}) \ {y}) = SumFunctionOnSet(f, (U \ {y}) \ {x})
    <3>1. (U \ {x}) \ {y} = (U \ {y}) \ {x}
      OBVIOUS
    <3> QED
      BY <3>1
  <2>5. f[x] \in Int /\ f[y] \in Int
    BY <1>5, <1>7
  <2>6. SumFunctionOnSet(f, (U \ {y}) \ {x}) \in Int
    BY <2>2
  <2> HIDE DEF Good
  <2> QED
    BY <1>6, <2>1, <2>3, <2>4, <2>5, <2>6
<1>9. Good(U)
  <2>1. SumFunctionOnSet(f, U \ {y}) \in Int /\ f[y] \in Int
    BY <1>7
  <2>2. SumFunctionOnSet(f, U) \in Int
    BY <1>6, <2>1
  <2>3. \A x \in U : SumFunctionOnSet(f, U) = f[x] + SumFunctionOnSet(f, U \ {x})
    BY <1>6, <1>8
  <2> QED
    BY <2>2, <2>3
<1> QED
  BY <1>1, <1>9 DEF Bad

LEMMA SumInt ==
    ASSUME NEW S, IsFiniteSet(S), NEW f, \A x \in S : f[x] \in Int
    PROVE  SumFunctionOnSet(f, S) \in Int
BY SumRemoveAux

LEMMA SumRemove ==
    ASSUME NEW S, IsFiniteSet(S), NEW f, \A x \in S : f[x] \in Int, NEW x \in S
    PROVE  SumFunctionOnSet(f, S) = f[x] + SumFunctionOnSet(f, S \ {x})
BY SumRemoveAux

\* A sum over one element more.
LEMMA SumAdd ==
    ASSUME NEW S, IsFiniteSet(S), NEW x, x \notin S, NEW f, \A y \in S \cup {x} : f[y] \in Int
    PROVE  SumFunctionOnSet(f, S \cup {x}) = f[x] + SumFunctionOnSet(f, S)
<1>1. IsFiniteSet(S \cup {x})
  BY FS_AddElement
<1>2. (S \cup {x}) \ {x} = S
  OBVIOUS
<1>3. SumFunctionOnSet(f, S \cup {x}) = f[x] + SumFunctionOnSet(f, (S \cup {x}) \ {x})
  BY <1>1, SumRemove
<1> QED
  BY <1>2, <1>3

\* Pointwise less or equal, and so is the sum.
LEMMA SumMonotonic ==
    ASSUME NEW S, IsFiniteSet(S), NEW f, NEW g,
           \A x \in S : f[x] \in Int /\ g[x] \in Int /\ f[x] <= g[x]
    PROVE  SumFunctionOnSet(f, S) <= SumFunctionOnSet(g, S)
<1> DEFINE P == {U \in SUBSET S : SumFunctionOnSet(f, U) <= SumFunctionOnSet(g, U)}
<1>1. {} \in P
  BY SumEmpty
<1>2. ASSUME NEW U \in SUBSET S, NEW x \in S, U \in P, x \notin U PROVE U \cup {x} \in P
  <2>1. IsFiniteSet(U)
    BY FS_Subset
  <2>2. SumFunctionOnSet(f, U \cup {x}) = f[x] + SumFunctionOnSet(f, U)
    BY <1>2, <2>1, SumAdd
  <2>3. SumFunctionOnSet(g, U \cup {x}) = g[x] + SumFunctionOnSet(g, U)
    BY <1>2, <2>1, SumAdd
  <2>4. SumFunctionOnSet(f, U) \in Int /\ SumFunctionOnSet(g, U) \in Int
    BY <2>1, SumInt
  <2> QED
    BY <1>2, <2>2, <2>3, <2>4
<1>3. \A U \in SUBSET S : U \in P
  <2> HIDE DEF P
  <2> QED
    BY <1>1, <1>2, SubsetInduction
<1> QED
  BY <1>3

\* Only the values on S count.
LEMMA SumSame ==
    ASSUME NEW S, IsFiniteSet(S), NEW f, NEW g,
           \A x \in S : f[x] \in Int /\ g[x] = f[x]
    PROVE  SumFunctionOnSet(f, S) = SumFunctionOnSet(g, S)
<1>1. /\ SumFunctionOnSet(f, S) <= SumFunctionOnSet(g, S)
      /\ SumFunctionOnSet(g, S) <= SumFunctionOnSet(f, S)
  BY SumMonotonic
<1>2. SumFunctionOnSet(f, S) \in Int /\ SumFunctionOnSet(g, S) \in Int
  BY SumInt
<1> QED
  BY <1>1, <1>2

\* Sums of naturals are naturals, and grow with the set.
LEMMA SumNat ==
    ASSUME NEW S, IsFiniteSet(S), NEW f, \A x \in S : f[x] \in Nat
    PROVE  SumFunctionOnSet(f, S) \in Nat
<1> DEFINE P == {U \in SUBSET S : SumFunctionOnSet(f, U) \in Nat}
<1>1. {} \in P
  BY SumEmpty
<1>2. ASSUME NEW U \in SUBSET S, NEW x \in S, U \in P, x \notin U PROVE U \cup {x} \in P
  <2>1. IsFiniteSet(U) /\ \A y \in U \cup {x} : f[y] \in Int
    BY FS_Subset
  <2>2. SumFunctionOnSet(f, U \cup {x}) = f[x] + SumFunctionOnSet(f, U)
    BY <1>2, <2>1, SumAdd
  <2> QED
    BY <1>2, <2>2
<1>3. \A U \in SUBSET S : U \in P
  <2> HIDE DEF P
  <2> QED
    BY <1>1, <1>2, SubsetInduction
<1> QED
  BY <1>3

\* The sum over a set is the sum over two parts of it.
LEMMA SumSplit ==
    ASSUME NEW S, IsFiniteSet(S), NEW T \in SUBSET S, NEW f, \A x \in S : f[x] \in Int
    PROVE  SumFunctionOnSet(f, S) = SumFunctionOnSet(f, T) + SumFunctionOnSet(f, S \ T)
<1> DEFINE R == S \ T
<1> DEFINE P == {U \in SUBSET R :
                   SumFunctionOnSet(f, T \cup U) = SumFunctionOnSet(f, T) + SumFunctionOnSet(f, U)}
<1>1. {} \in P
  <2>1. SumFunctionOnSet(f, T) \in Int
    BY FS_Subset, SumInt
  <2>2. T \cup {} = T
    OBVIOUS
  <2> QED
    BY <2>1, <2>2, SumEmpty
<1>2. ASSUME NEW U \in SUBSET R, NEW x \in R, U \in P, x \notin U PROVE U \cup {x} \in P
  <2>1. IsFiniteSet(U) /\ IsFiniteSet(T) /\ IsFiniteSet(T \cup U)
    BY FS_Subset
  <2>2. SumFunctionOnSet(f, U \cup {x}) = f[x] + SumFunctionOnSet(f, U)
    BY <1>2, <2>1, SumAdd
  <2>3. SumFunctionOnSet(f, (T \cup U) \cup {x}) = f[x] + SumFunctionOnSet(f, T \cup U)
    BY <1>2, <2>1, SumAdd
  <2>4. SumFunctionOnSet(f, U) \in Int /\ SumFunctionOnSet(f, T) \in Int /\ f[x] \in Int
    BY <2>1, SumInt
  <2>5. SumFunctionOnSet(f, (T \cup U) \cup {x}) = SumFunctionOnSet(f, T \cup (U \cup {x}))
    <3>1. (T \cup U) \cup {x} = T \cup (U \cup {x})
      OBVIOUS
    <3> QED
      BY <3>1
  <2>6. SumFunctionOnSet(f, T \cup U) = SumFunctionOnSet(f, T) + SumFunctionOnSet(f, U)
    BY <1>2
  <2>7. SumFunctionOnSet(f, T \cup (U \cup {x})) =
            SumFunctionOnSet(f, T) + SumFunctionOnSet(f, U \cup {x})
    BY <2>2, <2>3, <2>4, <2>5, <2>6
  <2>8. U \cup {x} \in SUBSET R
    OBVIOUS
  <2> QED
    BY <2>7, <2>8
<1>3. \A U \in SUBSET R : U \in P
  <2>1. IsFiniteSet(R)
    BY FS_Difference
  <2> HIDE DEF P, R
  <2> QED
    BY <1>1, <1>2, <2>1, SubsetInduction
<1>4. T \cup (S \ T) = S
  OBVIOUS
<1> QED
  BY <1>3, <1>4

\* The sum of the sums of two functions is the sum of their values' sums.
LEMMA SumPlus ==
    ASSUME NEW S, IsFiniteSet(S), NEW f, NEW g, NEW h,
           \A x \in S : f[x] \in Int /\ g[x] \in Int /\ h[x] = f[x] + g[x]
    PROVE  SumFunctionOnSet(h, S) = SumFunctionOnSet(f, S) + SumFunctionOnSet(g, S)
<1> DEFINE P == {U \in SUBSET S :
                   SumFunctionOnSet(h, U) = SumFunctionOnSet(f, U) + SumFunctionOnSet(g, U)}
<1>1. {} \in P
  BY SumEmpty
<1>2. ASSUME NEW U \in SUBSET S, NEW x \in S, U \in P, x \notin U PROVE U \cup {x} \in P
  <2>1. IsFiniteSet(U)
    BY FS_Subset
  <2>2. \A y \in S : h[y] \in Int /\ f[y] \in Int /\ g[y] \in Int
    OBVIOUS
  <2>3. SumFunctionOnSet(f, U \cup {x}) = f[x] + SumFunctionOnSet(f, U)
    BY <1>2, <2>1, SumAdd
  <2>4. SumFunctionOnSet(g, U \cup {x}) = g[x] + SumFunctionOnSet(g, U)
    BY <1>2, <2>1, SumAdd
  <2>5. SumFunctionOnSet(h, U \cup {x}) = h[x] + SumFunctionOnSet(h, U)
    BY <1>2, <2>1, <2>2, SumAdd
  <2>6. /\ SumFunctionOnSet(f, U) \in Int /\ SumFunctionOnSet(g, U) \in Int
        /\ SumFunctionOnSet(h, U) \in Int
    BY <2>1, <2>2, SumInt
  <2> QED
    BY <1>2, <2>2, <2>3, <2>4, <2>5, <2>6
<1>3. \A U \in SUBSET S : U \in P
  <2> HIDE DEF P
  <2> QED
    BY <1>1, <1>2, SubsetInduction
<1> QED
  BY <1>3

\* A sum of naturals over a part is no more than the sum over the whole.
LEMMA SumPart ==
    ASSUME NEW S, IsFiniteSet(S), NEW T \in SUBSET S, NEW f, \A x \in S : f[x] \in Nat
    PROVE  SumFunctionOnSet(f, T) <= SumFunctionOnSet(f, S)
<1>1. SumFunctionOnSet(f, S) = SumFunctionOnSet(f, T) + SumFunctionOnSet(f, S \ T)
  BY SumSplit
<1>2. IsFiniteSet(T) /\ IsFiniteSet(S \ T)
  BY FS_Subset
<1>3. SumFunctionOnSet(f, T) \in Nat
  BY <1>2, SumNat
<1>4. SumFunctionOnSet(f, S \ T) \in Nat
  BY <1>2, SumNat
<1> QED
  BY <1>1, <1>3, <1>4

\* When g gives each x its own value, the sum of f[g[x]] over S is the sum of
\* f over the values.
LEMMA SumImage ==
    ASSUME NEW S, IsFiniteSet(S), NEW f, NEW g, NEW h,
           \A x \in S : h[x] = f[g[x]] /\ f[g[x]] \in Int,
           \A x, y \in S : g[x] = g[y] => x = y
    PROVE  SumFunctionOnSet(h, S) = SumFunctionOnSet(f, {g[x] : x \in S})
<1> DEFINE I(U) == {g[x] : x \in U}
           P == {U \in SUBSET S : IsFiniteSet(I(U)) /\ SumFunctionOnSet(h, U) = SumFunctionOnSet(f, I(U))}
<1>1. {} \in P
  <2>1. I({}) = {}
    OBVIOUS
  <2> QED
    BY <2>1, SumEmpty, FS_EmptySet
<1>2. ASSUME NEW U \in SUBSET S, NEW x \in S, U \in P, x \notin U PROVE U \cup {x} \in P
  <2>1. IsFiniteSet(U) /\ IsFiniteSet(I(U))
    BY <1>2, FS_Subset
  <2>8. \A y \in S : h[y] \in Int
    OBVIOUS
  <2>2. SumFunctionOnSet(h, U \cup {x}) = h[x] + SumFunctionOnSet(h, U)
    BY <1>2, <2>1, <2>8, SumAdd
  <2>3. I(U \cup {x}) = I(U) \cup {g[x]} /\ g[x] \notin I(U)
    BY <1>2
  <2>4. \A y \in I(U) \cup {g[x]} : f[y] \in Int
    OBVIOUS
  <2> DEFINE J == I(U)
             v == g[x]
  <2>5. SumFunctionOnSet(f, J \cup {v}) = f[v] + SumFunctionOnSet(f, J)
    <3>1. IsFiniteSet(J) /\ v \notin J /\ \A y \in J \cup {v} : f[y] \in Int
      BY <2>1, <2>3, <2>4
    <3> HIDE DEF J, v
    <3> QED
      BY <3>1, SumAdd
  <2>6. SumFunctionOnSet(h, U) = SumFunctionOnSet(f, I(U))
    BY <1>2
  <2>9. IsFiniteSet(J \cup {v})
    <3> HIDE DEF J, v
    <3>1. IsFiniteSet(J)
      BY <2>1 DEF J
    <3> QED
      BY <3>1, FS_AddElement
  <2>7. SumFunctionOnSet(h, U \cup {x}) = SumFunctionOnSet(f, I(U \cup {x})) /\ IsFiniteSet(I(U \cup {x}))
    BY <2>2, <2>3, <2>5, <2>6, <2>9
  <2> QED
    BY <2>7
<1>3. \A U \in SUBSET S : U \in P
  <2> HIDE DEF P
  <2> QED
    BY <1>1, <1>2, SubsetInduction
<1> QED
  BY <1>3
=============================================================================
