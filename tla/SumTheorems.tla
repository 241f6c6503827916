---------------------------- MODULE SumTheorems ----------------------------
(***************************************************************************)
(* Sums over finite sets.  The community modules define them as folds, by  *)
(* a CHOOSE over recursive functions; the lemmas here are what a proof     *)
(* about money or shares needs of them: the empty sum, one element more,   *)
(* two disjoint parts, an image, a bound.                                  *)
(*                                                                         *)
(* An induction over finite sets needs no predicate parameter: the subsets *)
(* of a finite set are well-founded under strict inclusion, so of the sets *)
(* that fail a property a least one exists (SubsetInduction).              *)
(***************************************************************************)
EXTENDS Integers, FiniteSets, Functions, FiniteSetTheorems, WellFoundedInduction, TLAPS

-----------------------------------------------------------------------------
\* What holds of a set whenever it holds of the set without any one of its
\* elements holds of every subset of a finite set.
LEMMA SubsetInduction ==
  ASSUME NEW S, IsFiniteSet(S), NEW P,
         \A T \in SUBSET S : (\A x \in T : T \ {x} \in P) => T \in P
  PROVE  \A T \in SUBSET S : T \in P
<1> DEFINE Bad == (SUBSET S) \ P
<1> SUFFICES ASSUME Bad # {} PROVE FALSE
  OBVIOUS
<1>1. IsWellFoundedOn(StrictSubsetOrdering(S), FiniteSubsetsOf(S))
  BY FS_StrictSubsetOrderingWellFounded
<1>2. Bad \subseteq FiniteSubsetsOf(S)
  BY FS_FiniteSubsetsOfFinite
<1>3. PICK T \in Bad : \A U \in Bad : <<U, T>> \notin StrictSubsetOrdering(S)
  <2> HIDE DEF Bad
  <2> QED BY <1>1, <1>2, WFMin
<1>4. ASSUME NEW x \in T PROVE T \ {x} \in P
  <2>1. T \ {x} \in SUBSET S /\ T \ {x} # T /\ T \ {x} \subseteq T /\ T \in SUBSET S
    BY <1>3, <1>4
  <2>2. <<T \ {x}, T>> \in StrictSubsetOrdering(S)
    BY <2>1 DEF StrictSubsetOrdering
  <2> QED BY <1>3, <2>1, <2>2
<1> QED BY <1>3, <1>4

-----------------------------------------------------------------------------
(* The definition of the fold: the table of the sums over all subsets, each *)
(* one element and the sum over the rest.                                  *)

First(s) == CHOOSE x \in s : TRUE
SumStep(F, g, s) == IF s = {} THEN 0 ELSE F[First(s)] + g[s \ {First(s)}]
IsTable(F, S, g) == g = [s \in SUBSET S |-> SumStep(F, g, s)]
SumTable(F, S) == CHOOSE g : IsTable(F, S, g)

LEMMA SumIsTable ==
  ASSUME NEW F, NEW S
  PROVE  SumFunctionOnSet(F, S) = SumTable(F, S)[S]
BY DEF SumFunctionOnSet, FoldFunctionOnSet, MapThenFoldSet, SumTable, IsTable, SumStep, First

LEMMA FirstIn == ASSUME NEW S, S # {} PROVE First(S) \in S
BY DEF First

\* Two such tables, for whatever sets, agree where both are defined.
LEMMA TableUnique ==
  ASSUME NEW F, NEW S, NEW T, IsFiniteSet(S), NEW g, NEW h,
         IsTable(F, S, g), IsTable(F, T, h)
  PROVE  \A U \in SUBSET S : U \in SUBSET T => g[U] = h[U]
<1> DEFINE P == {U \in SUBSET S : U \in SUBSET T => g[U] = h[U]}
<1>1. ASSUME NEW U \in SUBSET S, \A x \in U : U \ {x} \in P, U \in SUBSET T
      PROVE  g[U] = h[U]
  <2>1. g[U] = SumStep(F, g, U) /\ h[U] = SumStep(F, h, U)
    BY <1>1 DEF IsTable
  <2>2. CASE U = {}
    BY <2>1, <2>2 DEF SumStep
  <2>3. CASE U # {}
    <3>1. g[U \ {First(U)}] = h[U \ {First(U)}]
      BY <1>1, <2>3, FirstIn
    <3> QED BY <2>1, <2>3, <3>1 DEF SumStep
  <2> QED BY <2>2, <2>3
<1>2. \A U \in SUBSET S : (\A x \in U : U \ {x} \in P) => U \in P
  BY <1>1
<1>3. \A U \in SUBSET S : U \in P
  <2> HIDE DEF P
  <2> QED BY <1>2, SubsetInduction
<1> QED BY <1>3

\* There is a table: above the tables of the smaller sets stands the sum of the set.
LEMMA TableExists ==
  ASSUME NEW F, NEW S, IsFiniteSet(S)
  PROVE  IsTable(F, S, SumTable(F, S))
<1> DEFINE P == {T \in SUBSET S : \E g : IsTable(F, T, g)}
<1>1. ASSUME NEW T \in SUBSET S, \A x \in T : T \ {x} \in P
      PROVE  T \in P
  <2> DEFINE G(x) == SumTable(F, T \ {x})
             Low(U) == IF U = T THEN 0 ELSE G(First(T \ U))[U]
             v == [U \in SUBSET T |-> Low(U)]
             w == [U \in SUBSET T |-> SumStep(F, v, U)]
  <2>1. ASSUME NEW x \in T PROVE IsTable(F, T \ {x}, G(x)) /\ IsFiniteSet(T \ {x})
    <3>1. \E g : IsTable(F, T \ {x}, g)
      BY <1>1
    <3>2. IsFiniteSet(T \ {x})
      BY FS_Subset
    <3> QED BY <3>1, <3>2 DEF SumTable
  <2>2. ASSUME NEW U \in SUBSET T, U # T PROVE w[U] = v[U]
    <3> DEFINE x == First(T \ U)
    <3>1. x \in T /\ U \in SUBSET (T \ {x})
      BY <2>2, FirstIn
    <3>2. v[U] = G(x)[U] /\ G(x)[U] = SumStep(F, G(x), U)
      BY <2>1, <2>2, <3>1 DEF IsTable
    <3>3. CASE U = {}
      BY <3>2, <3>3 DEF SumStep
    <3>4. CASE U # {}
      <4> DEFINE V == U \ {First(U)}
                 y == First(T \ V)
      <4>1. V \in SUBSET T /\ V # T /\ y \in T /\ V \in SUBSET (T \ {y}) /\ V \in SUBSET (T \ {x})
        BY <2>2, <3>1, <3>4, FirstIn
      <4>2. v[V] = G(y)[V]
        BY <4>1
      <4>3. G(y)[V] = G(x)[V]
        <5>1. /\ IsTable(F, T \ {x}, G(x)) /\ IsFiniteSet(T \ {x})
              /\ IsTable(F, T \ {y}, G(y)) /\ IsFiniteSet(T \ {y})
          BY <2>1, <3>1, <4>1
        <5>2. ASSUME NEW A, NEW B, NEW a, NEW b, IsFiniteSet(A), IsTable(F, A, a), IsTable(F, B, b),
                     V \in SUBSET A, V \in SUBSET B
              PROVE  a[V] = b[V]
          <6> HIDE DEF V
          <6> QED BY <5>2, TableUnique
        <5> HIDE DEF G, V, x, y
        <5> QED BY <4>1, <5>1, <5>2
      <4> QED BY <3>2, <3>4, <4>2, <4>3 DEF SumStep
    <3> QED BY <3>3, <3>4
  <2>3. ASSUME NEW U \in SUBSET T PROVE w[U] = SumStep(F, w, U)
    <3>1. w[U] = SumStep(F, v, U)
      OBVIOUS
    <3>2. CASE U = {}
      BY <3>1, <3>2 DEF SumStep
    <3>3. CASE U # {}
      <4>1. U \ {First(U)} \in SUBSET T /\ U \ {First(U)} # T
        BY <3>3, FirstIn
      <4>2. w[U \ {First(U)}] = v[U \ {First(U)}]
        BY <2>2, <4>1
      <4> QED BY <3>1, <3>3, <4>2 DEF SumStep
    <3> QED BY <3>2, <3>3
  <2>4. w = [U \in SUBSET T |-> w[U]]
    OBVIOUS
  <2> HIDE DEF w, v
  <2>5. IsTable(F, T, w)
    BY <2>3, <2>4 DEF IsTable
  <2> QED BY <2>5
<1>2. \A T \in SUBSET S : T \in P
  <2> HIDE DEF P
  <2> QED BY <1>1, SubsetInduction
<1>3. \E g : IsTable(F, S, g)
  BY <1>2
<1> QED BY <1>3 DEF SumTable

-----------------------------------------------------------------------------
\* The sum over a set, by the element CHOOSE takes first.
LEMMA SumFirst ==
  ASSUME NEW F, NEW S, IsFiniteSet(S)
  PROVE  SumFunctionOnSet(F, S) =
           IF S = {} THEN 0 ELSE F[First(S)] + SumFunctionOnSet(F, S \ {First(S)})
<1>1. IsTable(F, S, SumTable(F, S))
  BY TableExists
<1>2. SumTable(F, S)[S] = SumStep(F, SumTable(F, S), S)
  BY <1>1 DEF IsTable
<1>3. CASE S = {}
  BY <1>2, <1>3, SumIsTable DEF SumStep
<1>4. CASE S # {}
  <2> DEFINE R == S \ {First(S)}
  <2>1. IsTable(F, R, SumTable(F, R)) /\ IsFiniteSet(R)
    BY TableExists, FS_Subset
  <2>2. SumTable(F, R)[R] = SumTable(F, S)[R]
    <3>1. R \in SUBSET R /\ R \in SUBSET S
      OBVIOUS
    <3> HIDE DEF R
    <3> QED BY <1>1, <2>1, <3>1, TableUnique
  <2> QED BY <1>2, <1>4, <2>2, SumIsTable DEF SumStep
<1> QED BY <1>3, <1>4

LEMMA SumEmpty ==
  ASSUME NEW F
  PROVE  SumFunctionOnSet(F, {}) = 0
BY SumFirst, FS_EmptySet

\* The sum of integers is an integer.
LEMMA SumInt ==
  ASSUME NEW F, NEW S, IsFiniteSet(S), \A x \in S : F[x] \in Int
  PROVE  SumFunctionOnSet(F, S) \in Int
<1> DEFINE P == {T \in SUBSET S : SumFunctionOnSet(F, T) \in Int}
<1>1. ASSUME NEW T \in SUBSET S, \A x \in T : T \ {x} \in P
      PROVE  T \in P
  <2>1. CASE T = {}
    BY <2>1, SumEmpty
  <2>2. CASE T # {}
    <3>1. First(T) \in T
      BY <2>2, FirstIn
    <3>2. F[First(T)] \in Int /\ SumFunctionOnSet(F, T \ {First(T)}) \in Int
      BY <1>1, <3>1
    <3>3. SumFunctionOnSet(F, T) = F[First(T)] + SumFunctionOnSet(F, T \ {First(T)})
      BY <2>2, SumFirst, FS_Subset
    <3> QED BY <3>2, <3>3
  <2> QED BY <2>1, <2>2
<1>2. \A T \in SUBSET S : T \in P
  <2> HIDE DEF P
  <2> QED BY <1>1, SubsetInduction
<1> QED BY <1>2

\* Any element may be taken out of a sum.
LEMMA SumRemove ==
  ASSUME NEW F, NEW S, IsFiniteSet(S), \A x \in S : F[x] \in Int
  PROVE  \A x \in S : SumFunctionOnSet(F, S) = F[x] + SumFunctionOnSet(F, S \ {x})
<1> DEFINE P == {T \in SUBSET S :
                   \A x \in T : SumFunctionOnSet(F, T) = F[x] + SumFunctionOnSet(F, T \ {x})}
<1>1. ASSUME NEW T \in SUBSET S, \A x \in T : T \ {x} \in P
      PROVE  T \in P
  <2>1. ASSUME NEW x \in T
        PROVE  SumFunctionOnSet(F, T) = F[x] + SumFunctionOnSet(F, T \ {x})
    <3> DEFINE p == First(T)
               R == (T \ {p}) \ {x}
    <3>1. p \in T
      BY FirstIn
    <3>2. SumFunctionOnSet(F, T) = F[p] + SumFunctionOnSet(F, T \ {p})
      BY SumFirst, FS_Subset
    <3> HIDE DEF p
    <3>3. CASE x = p
      BY <3>2, <3>3
    <3>4. CASE x # p
      <4>1. R = (T \ {x}) \ {p}
        OBVIOUS
      <4>2. SumFunctionOnSet(F, T \ {p}) = F[x] + SumFunctionOnSet(F, R)
        BY <1>1, <3>1, <3>4
      <4>3. SumFunctionOnSet(F, T \ {x}) = F[p] + SumFunctionOnSet(F, R)
        BY <1>1, <3>1, <3>4, <4>1
      <4>4. IsFiniteSet(R) /\ \A y \in R : F[y] \in Int
        BY FS_Subset
      <4>5. SumFunctionOnSet(F, R) \in Int /\ F[x] \in Int /\ F[p] \in Int
        <5> HIDE DEF R
        <5> QED BY <3>1, <4>4, SumInt
      <4> HIDE DEF R
      <4> QED BY <3>2, <4>2, <4>3, <4>5
    <3> QED BY <3>3, <3>4
  <2> QED BY <2>1
<1>2. \A T \in SUBSET S : T \in P
  <2> HIDE DEF P
  <2> QED BY <1>1, SubsetInduction
<1> QED BY <1>2

LEMMA SumAdd ==
  ASSUME NEW F, NEW S, IsFiniteSet(S), NEW x, x \notin S, \A y \in S \cup {x} : F[y] \in Int
  PROVE  SumFunctionOnSet(F, S \cup {x}) = SumFunctionOnSet(F, S) + F[x]
<1> DEFINE T == S \cup {x}
<1>1. IsFiniteSet(T) /\ T \ {x} = S /\ x \in T /\ \A y \in T : F[y] \in Int
  BY FS_AddElement
<1>2. SumFunctionOnSet(F, S) \in Int /\ F[x] \in Int
  BY SumInt
<1> HIDE DEF T
<1>3. SumFunctionOnSet(F, T) = F[x] + SumFunctionOnSet(F, S)
  BY <1>1, SumRemove
<1> QED BY <1>2, <1>3 DEF T

\* Two functions that agree on the set have the same sum.
LEMMA SumAgree ==
  ASSUME NEW F, NEW G, NEW S, IsFiniteSet(S), \A x \in S : F[x] = G[x]
  PROVE  SumFunctionOnSet(F, S) = SumFunctionOnSet(G, S)
<1> DEFINE P == {T \in SUBSET S : SumFunctionOnSet(F, T) = SumFunctionOnSet(G, T)}
<1>1. ASSUME NEW T \in SUBSET S, \A x \in T : T \ {x} \in P
      PROVE  T \in P
  <2>1. IsFiniteSet(T)
    BY FS_Subset
  <2>2. CASE T = {}
    BY <2>2, SumEmpty
  <2>3. CASE T # {}
    <3>1. First(T) \in T
      BY <2>3, FirstIn
    <3>2. SumFunctionOnSet(F, T \ {First(T)}) = SumFunctionOnSet(G, T \ {First(T)})
      BY <1>1, <3>1
    <3>3. F[First(T)] = G[First(T)]
      BY <3>1
    <3>4. SumFunctionOnSet(F, T) = F[First(T)] + SumFunctionOnSet(F, T \ {First(T)})
      BY <2>1, <2>3, SumFirst
    <3>5. SumFunctionOnSet(G, T) = G[First(T)] + SumFunctionOnSet(G, T \ {First(T)})
      BY <2>1, <2>3, SumFirst
    <3> QED BY <3>2, <3>3, <3>4, <3>5
  <2> QED BY <2>2, <2>3
<1>2. \A T \in SUBSET S : T \in P
  <2> HIDE DEF P
  <2> QED BY <1>1, SubsetInduction
<1> QED BY <1>2

\* A sum over a set is the sum over two disjoint parts of it.
LEMMA SumSplit ==
  ASSUME NEW F, NEW S, NEW T, IsFiniteSet(S), IsFiniteSet(T), S \cap T = {},
         \A x \in S \cup T : F[x] \in Int
  PROVE  SumFunctionOnSet(F, S \cup T) = SumFunctionOnSet(F, S) + SumFunctionOnSet(F, T)
<1> DEFINE P == {U \in SUBSET T : SumFunctionOnSet(F, S \cup U)
                                    = SumFunctionOnSet(F, S) + SumFunctionOnSet(F, U)}
<1>0. SumFunctionOnSet(F, S) \in Int
  BY SumInt
<1>1. ASSUME NEW U \in SUBSET T, \A x \in U : U \ {x} \in P
      PROVE  U \in P
  <2>1. CASE U = {}
    <3>1. S \cup {} = S
      OBVIOUS
    <3>2. SumFunctionOnSet(F, {}) = 0
      BY SumEmpty
    <3> QED BY <1>0, <2>1, <3>1, <3>2
  <2>2. CASE U # {}
    <3>1. PICK x \in U : TRUE
      BY <2>2
    <3> DEFINE V == U \ {x}
               W == S \cup V
    <3>2. /\ IsFiniteSet(V) /\ \A y \in V : F[y] \in Int
          /\ SumFunctionOnSet(F, W) = SumFunctionOnSet(F, S) + SumFunctionOnSet(F, V)
      BY <1>1, FS_Subset
    <3>3. /\ IsFiniteSet(W) /\ x \notin W /\ \A y \in W \cup {x} : F[y] \in Int
          /\ x \notin V /\ \A y \in V \cup {x} : F[y] \in Int
          /\ W \cup {x} = S \cup U /\ V \cup {x} = U /\ F[x] \in Int
      <4>1. IsFiniteSet(W)
        BY <3>2, FS_Union
      <4> QED BY <4>1
    <3> HIDE DEF V, W
    <3>4. SumFunctionOnSet(F, W \cup {x}) = SumFunctionOnSet(F, W) + F[x]
      BY <3>3, SumAdd
    <3>5. SumFunctionOnSet(F, V \cup {x}) = SumFunctionOnSet(F, V) + F[x]
      BY <3>2, <3>3, SumAdd
    <3>6. SumFunctionOnSet(F, V) \in Int
      BY <3>2, SumInt
    <3>7. SumFunctionOnSet(F, S \cup U) = SumFunctionOnSet(F, W) + F[x]
      BY <3>3, <3>4
    <3>8. SumFunctionOnSet(F, U) = SumFunctionOnSet(F, V) + F[x]
      BY <3>3, <3>5
    <3>9. F[x] \in Int
      BY <3>3
    <3> QED BY <1>0, <3>2, <3>6, <3>7, <3>8, <3>9
  <2> QED BY <2>1, <2>2
<1>2. \A U \in SUBSET T : U \in P
  <2> HIDE DEF P
  <2> QED BY <1>1, SubsetInduction
<1> QED BY <1>2

\* A sum is monotone in the function, and so is never below 0 over naturals.
LEMMA SumMonotone ==
  ASSUME NEW F, NEW G, NEW S, IsFiniteSet(S),
         \A x \in S : F[x] \in Int /\ G[x] \in Int /\ F[x] <= G[x]
  PROVE  SumFunctionOnSet(F, S) <= SumFunctionOnSet(G, S)
<1> DEFINE P == {T \in SUBSET S : SumFunctionOnSet(F, T) <= SumFunctionOnSet(G, T)}
<1>1. ASSUME NEW T \in SUBSET S, \A x \in T : T \ {x} \in P
      PROVE  T \in P
  <2>1. CASE T = {}
    BY <2>1, SumEmpty
  <2>2. CASE T # {}
    <3>1. PICK x \in T : TRUE
      BY <2>2
    <3> DEFINE U == T \ {x}
    <3>2. IsFiniteSet(T) /\ IsFiniteSet(U)
      BY FS_Subset
    <3>3. SumFunctionOnSet(F, U) <= SumFunctionOnSet(G, U)
      BY <1>1
    <3>4. SumFunctionOnSet(F, T) = F[x] + SumFunctionOnSet(F, U)
      BY <3>2, SumRemove
    <3>5. SumFunctionOnSet(G, T) = G[x] + SumFunctionOnSet(G, U)
      BY <3>2, SumRemove
    <3>6. SumFunctionOnSet(F, U) \in Int /\ SumFunctionOnSet(G, U) \in Int
      <4>1. \A y \in U : F[y] \in Int /\ G[y] \in Int
        OBVIOUS
      <4> HIDE DEF U
      <4> QED BY <3>2, <4>1, SumInt
    <3> HIDE DEF U
    <3> QED BY <3>3, <3>4, <3>5, <3>6
  <2> QED BY <2>1, <2>2
<1>2. \A T \in SUBSET S : T \in P
  <2> HIDE DEF P
  <2> QED BY <1>1, SubsetInduction
<1> QED BY <1>2

LEMMA SumZero ==
  ASSUME NEW F, NEW S, IsFiniteSet(S), \A x \in S : F[x] = 0
  PROVE  SumFunctionOnSet(F, S) = 0
<1> DEFINE P == {T \in SUBSET S : SumFunctionOnSet(F, T) = 0}
<1>1. ASSUME NEW T \in SUBSET S, \A x \in T : T \ {x} \in P
      PROVE  T \in P
  <2>1. CASE T = {}
    BY <2>1, SumEmpty
  <2>2. CASE T # {}
    <3>1. PICK x \in T : TRUE
      BY <2>2
    <3>2. SumFunctionOnSet(F, T) = F[x] + SumFunctionOnSet(F, T \ {x})
      BY SumRemove, FS_Subset
    <3>3. SumFunctionOnSet(F, T \ {x}) = 0
      BY <1>1
    <3> QED BY <3>2, <3>3
  <2> QED BY <2>1, <2>2
<1>2. \A T \in SUBSET S : T \in P
  <2> HIDE DEF P
  <2> QED BY <1>1, SubsetInduction
<1> QED BY <1>2

LEMMA SumNonNegative ==
  ASSUME NEW F, NEW S, IsFiniteSet(S), \A x \in S : F[x] \in Nat
  PROVE  SumFunctionOnSet(F, S) \in Nat
<1> DEFINE Z == [x \in S |-> 0]
<1>1. SumFunctionOnSet(Z, S) = 0
  <2>1. \A x \in S : Z[x] = 0
    OBVIOUS
  <2> HIDE DEF Z
  <2> QED BY <2>1, SumZero
<1>2. SumFunctionOnSet(Z, S) <= SumFunctionOnSet(F, S)
  <2>1. \A x \in S : F[x] \in Int /\ Z[x] \in Int /\ Z[x] <= F[x]
    OBVIOUS
  <2> HIDE DEF Z
  <2> QED BY <2>1, SumMonotone
<1>3. SumFunctionOnSet(F, S) \in Int
  BY SumInt
<1> HIDE DEF Z
<1> QED BY <1>1, <1>2, <1>3

\* A sum is moved along a one-to-one map of its set.
LEMMA SumImage ==
  ASSUME NEW F, NEW G, NEW S, IsFiniteSet(S), NEW h, \A x, y \in S : h[x] = h[y] => x = y,
         \A x \in S : F[x] \in Int /\ G[h[x]] = F[x],
         NEW D, \A y : y \in D <=> \E x \in S : y = h[x]
  PROVE  IsFiniteSet(D) /\ SumFunctionOnSet(G, D) = SumFunctionOnSet(F, S)
<1> DEFINE Im(T) == {h[x] : x \in T}
           P == {T \in SUBSET S : /\ IsFiniteSet(Im(T))
                                  /\ SumFunctionOnSet(G, Im(T)) = SumFunctionOnSet(F, T)}
<1>1. ASSUME NEW T \in SUBSET S, \A x \in T : T \ {x} \in P
      PROVE  T \in P
  <2>1. CASE T = {}
    <3>1. Im({}) = {}
      OBVIOUS
    <3> QED BY <2>1, <3>1, SumEmpty, FS_EmptySet
  <2>2. CASE T # {}
    <3>1. PICK x \in T : TRUE
      BY <2>2
    <3> DEFINE U == T \ {x}
    <3>2. IsFiniteSet(T) /\ IsFiniteSet(Im(U)) /\ SumFunctionOnSet(G, Im(U)) = SumFunctionOnSet(F, U)
      BY <1>1, FS_Subset
    <3>3. Im(T) = Im(U) \cup {h[x]} /\ h[x] \notin Im(U)
      OBVIOUS
    <3>4. \A y \in Im(U) \cup {h[x]} : G[y] \in Int
      OBVIOUS
    <3>5. SumFunctionOnSet(F, T) = F[x] + SumFunctionOnSet(F, U) /\ F[x] \in Int /\ G[h[x]] = F[x]
      BY <3>2, SumRemove
    <3>6. SumFunctionOnSet(F, U) \in Int
      <4>1. IsFiniteSet(U) /\ \A y \in U : F[y] \in Int
        BY <3>2, FS_Subset
      <4> HIDE DEF U
      <4> QED BY <4>1, SumInt
    <3> HIDE DEF Im, U
    <3>7. SumFunctionOnSet(G, Im(U) \cup {h[x]}) = SumFunctionOnSet(G, Im(U)) + G[h[x]]
      BY <3>2, <3>3, <3>4, SumAdd
    <3>8. IsFiniteSet(Im(T))
      <4>1. IsFiniteSet(Im(U) \cup {h[x]})
        BY <3>2, FS_AddElement
      <4> QED BY <3>3, <4>1
    <3>9. SumFunctionOnSet(G, Im(T)) = SumFunctionOnSet(F, T)
      BY <3>2, <3>3, <3>5, <3>6, <3>7
    <3> QED BY <3>8, <3>9
  <2> QED BY <2>1, <2>2
<1>2. \A T \in SUBSET S : T \in P
  <2> HIDE DEF P
  <2> QED BY <1>1, SubsetInduction
<1>3. D = Im(S)
  OBVIOUS
<1>4. S \in P
  BY <1>2
<1> QED BY <1>3, <1>4

-----------------------------------------------------------------------------
(* The same for SumFunction, where each set comes with a function of its own. *)

LEMMA FunSumOver ==
  ASSUME NEW F, NEW S, IsFiniteSet(S), NEW G, DOMAIN G = S, \A x \in S : G[x] = F[x]
  PROVE  SumFunction(G) = SumFunctionOnSet(F, S)
BY SumAgree DEF SumFunction

LEMMA FunSumEmpty ==
  ASSUME NEW F, DOMAIN F = {}
  PROVE  SumFunction(F) = 0
BY SumEmpty DEF SumFunction

LEMMA FunSumInt ==
  ASSUME NEW F, IsFiniteSet(DOMAIN F), \A x \in DOMAIN F : F[x] \in Int
  PROVE  SumFunction(F) \in Int
BY SumInt DEF SumFunction

LEMMA FunSumNat ==
  ASSUME NEW F, IsFiniteSet(DOMAIN F), \A x \in DOMAIN F : F[x] \in Nat
  PROVE  SumFunction(F) \in Nat
BY SumNonNegative DEF SumFunction

LEMMA FunSumAdd ==
  ASSUME NEW F, NEW G, NEW x, IsFiniteSet(DOMAIN G), x \notin DOMAIN G,
         DOMAIN F = DOMAIN G \cup {x}, \A y \in DOMAIN G : G[y] = F[y],
         \A y \in DOMAIN F : F[y] \in Int
  PROVE  SumFunction(F) = SumFunction(G) + F[x]
<1> DEFINE S == DOMAIN G
<1>1. SumFunction(G) = SumFunctionOnSet(F, S)
  BY FunSumOver
<1>2. SumFunctionOnSet(F, S \cup {x}) = SumFunctionOnSet(F, S) + F[x]
  <2>1. IsFiniteSet(S) /\ x \notin S /\ \A y \in S \cup {x} : F[y] \in Int
    OBVIOUS
  <2> HIDE DEF S
  <2> QED BY <2>1, SumAdd
<1> QED BY <1>1, <1>2 DEF SumFunction

LEMMA FunSumSplit ==
  ASSUME NEW F, NEW G, NEW H, IsFiniteSet(DOMAIN F), DOMAIN F = DOMAIN G \cup DOMAIN H,
         DOMAIN G \cap DOMAIN H = {},
         \A y \in DOMAIN G : G[y] = F[y], \A y \in DOMAIN H : H[y] = F[y],
         \A y \in DOMAIN F : F[y] \in Int
  PROVE  SumFunction(F) = SumFunction(G) + SumFunction(H)
<1> DEFINE S == DOMAIN G
           T == DOMAIN H
<1>1. IsFiniteSet(S) /\ IsFiniteSet(T) /\ S \cap T = {} /\ DOMAIN F = S \cup T
  BY FS_Subset
<1>2. \A y \in S \cup T : F[y] \in Int
  OBVIOUS
<1>3. SumFunction(G) = SumFunctionOnSet(F, S)
  BY <1>1, FunSumOver
<1>4. SumFunction(H) = SumFunctionOnSet(F, T)
  BY <1>1, FunSumOver
<1> HIDE DEF S, T
<1>5. SumFunctionOnSet(F, S \cup T) = SumFunctionOnSet(F, S) + SumFunctionOnSet(F, T)
  BY <1>1, <1>2, SumSplit
<1> QED BY <1>1, <1>3, <1>4, <1>5 DEF SumFunction

LEMMA FunSumImage ==
  ASSUME NEW F, NEW G, NEW h, IsFiniteSet(DOMAIN F), DOMAIN G = {h[x] : x \in DOMAIN F},
         \A x, y \in DOMAIN F : h[x] = h[y] => x = y,
         \A x \in DOMAIN F : F[x] \in Int /\ G[h[x]] = F[x]
  PROVE  IsFiniteSet(DOMAIN G) /\ SumFunction(G) = SumFunction(F)
<1> DEFINE S == DOMAIN F
           D == DOMAIN G
<1>1. /\ IsFiniteSet(S) /\ \A y : y \in D <=> \E x \in S : y = h[x]
      /\ \A x, y \in S : h[x] = h[y] => x = y
      /\ \A x \in S : F[x] \in Int /\ G[h[x]] = F[x]
  OBVIOUS
<1>2. IsFiniteSet(D) /\ SumFunctionOnSet(G, D) = SumFunctionOnSet(F, S)
  <2> HIDE DEF S, D
  <2> QED BY <1>1, SumImage
<1> QED BY <1>2 DEF SumFunction

\* Sums are taken pointwise.
LEMMA FunSumPlus ==
  ASSUME NEW F, NEW G, NEW H, NEW S, IsFiniteSet(S), DOMAIN F = S, DOMAIN G = S, DOMAIN H = S,
         \A x \in S : F[x] \in Int /\ G[x] \in Int /\ H[x] = F[x] + G[x]
  PROVE  SumFunction(H) = SumFunction(F) + SumFunction(G)
<1> DEFINE P == {T \in SUBSET S : SumFunctionOnSet(H, T)
                                    = SumFunctionOnSet(F, T) + SumFunctionOnSet(G, T)}
<1>1. ASSUME NEW T \in SUBSET S, \A x \in T : T \ {x} \in P
      PROVE  T \in P
  <2>1. CASE T = {}
    <3>1. SumFunctionOnSet(F, {}) = 0 /\ SumFunctionOnSet(G, {}) = 0 /\ SumFunctionOnSet(H, {}) = 0
      BY SumEmpty
    <3> QED BY <2>1, <3>1
  <2>2. CASE T # {}
    <3>1. PICK x \in T : TRUE
      BY <2>2
    <3> DEFINE U == T \ {x}
    <3>2. /\ IsFiniteSet(T) /\ IsFiniteSet(U)
          /\ SumFunctionOnSet(H, U) = SumFunctionOnSet(F, U) + SumFunctionOnSet(G, U)
      BY <1>1, FS_Subset
    <3>3. \A y \in T : F[y] \in Int /\ G[y] \in Int /\ H[y] \in Int
      OBVIOUS
    <3>4. /\ SumFunctionOnSet(F, T) = F[x] + SumFunctionOnSet(F, U)
          /\ SumFunctionOnSet(G, T) = G[x] + SumFunctionOnSet(G, U)
          /\ SumFunctionOnSet(H, T) = H[x] + SumFunctionOnSet(H, U)
      BY <3>2, <3>3, SumRemove
    <3>5. SumFunctionOnSet(F, U) \in Int /\ SumFunctionOnSet(G, U) \in Int
      <4>1. \A y \in U : F[y] \in Int /\ G[y] \in Int
        OBVIOUS
      <4> HIDE DEF U
      <4> QED BY <3>2, <4>1, SumInt
    <3>6. F[x] \in Int /\ G[x] \in Int /\ H[x] = F[x] + G[x]
      OBVIOUS
    <3> HIDE DEF U
    <3>7. SumFunctionOnSet(H, T) = SumFunctionOnSet(F, T) + SumFunctionOnSet(G, T)
      BY <3>2, <3>4, <3>5, <3>6
    <3> QED BY <3>7
  <2> QED BY <2>1, <2>2
<1>2. \A T \in SUBSET S : T \in P
  <2> HIDE DEF P
  <2> QED BY <1>1, SubsetInduction
<1> QED BY <1>2 DEF SumFunction

-----------------------------------------------------------------------------
(* First in, first out.  R is a queue's order on S, f what each element has *)
(* to give; asked for q, an element gives what those before it leave open.  *)

StrictOrder(R, S) == /\ \A x \in S : <<x, x>> \notin R
                     /\ \A x, y \in S : x # y => <<x, y>> \in R \/ <<y, x>> \in R
                     /\ \A x, y, z \in S : <<x, y>> \in R /\ <<y, z>> \in R => <<x, z>> \in R
Ahead(R, x, S) == {y \in S : <<y, x>> \in R}
LeftOpen(R, f, x, S, q) == LET s == SumFunctionOnSet(f, Ahead(R, x, S))
                           IN  IF q > s THEN q - s ELSE 0
Gives(R, f, x, S, q) ==
    IF f[x] < LeftOpen(R, f, x, S, q) THEN f[x] ELSE LeftOpen(R, f, x, S, q)

\* Of a finite queue one element is the last.
LEMMA LastInQueue ==
  ASSUME NEW S, IsFiniteSet(S), NEW R, StrictOrder(R, S), S # {}
  PROVE  \E x \in S : Ahead(R, x, S) = S \ {x} /\ \A y \in S : x \notin Ahead(R, y, S)
<1> DEFINE P == {T \in SUBSET S : T # {} => \E x \in T : \A y \in T \ {x} : <<y, x>> \in R}
<1>1. ASSUME NEW T \in SUBSET S, \A x \in T : T \ {x} \in P, T # {}
      PROVE  \E x \in T : \A y \in T \ {x} : <<y, x>> \in R
  <2>1. PICK y \in T : TRUE
    BY <1>1
  <2>2. CASE T \ {y} = {}
    BY <2>1, <2>2
  <2>3. CASE T \ {y} # {}
    <3>1. PICK m \in T \ {y} : \A z \in (T \ {y}) \ {m} : <<z, m>> \in R
      BY <1>1, <2>1, <2>3
    <3>2. CASE <<y, m>> \in R
      BY <3>1, <3>2
    <3>3. CASE <<m, y>> \in R
      <4>1. \A z \in T \ {y} : <<z, y>> \in R
        BY <3>1, <3>3 DEF StrictOrder
      <4> QED BY <4>1
    <3> QED BY <2>1, <3>1, <3>2, <3>3 DEF StrictOrder
  <2> QED BY <2>2, <2>3
<1>2. \A T \in SUBSET S : (\A x \in T : T \ {x} \in P) => T \in P
  BY <1>1
<1>3. \A T \in SUBSET S : T \in P
  <2> HIDE DEF P
  <2> QED BY <1>2, SubsetInduction
<1>4. PICK x \in S : \A y \in S \ {x} : <<y, x>> \in R
  BY <1>3
<1>5. \A y \in S : <<x, y>> \notin R
  BY <1>4 DEF StrictOrder
<1>6. x \notin Ahead(R, x, S) /\ Ahead(R, x, S) = S \ {x}
  BY <1>4, <1>5 DEF Ahead
<1> QED BY <1>5, <1>6 DEF Ahead

\* A queue gives all it is asked for, or all it has.
LEMMA QueueGives ==
  ASSUME NEW S, IsFiniteSet(S), NEW R, StrictOrder(R, S), NEW f, \A x \in S : f[x] \in Nat,
         NEW q \in Nat, NEW G, DOMAIN G = S, \A x \in S : G[x] = Gives(R, f, x, S, q)
  PROVE  /\ \A x \in S : G[x] \in 0..f[x]
         /\ q <= SumFunctionOnSet(f, S) => SumFunctionOnSet(G, S) = q
<1> DEFINE Sum(T) == SumFunctionOnSet(f, T)
           Given(T) == [x \in T |-> Gives(R, f, x, T, q)]
           Got(T) == SumFunctionOnSet(Given(T), T)
           P == {T \in SUBSET S : Got(T) = IF q < Sum(T) THEN q ELSE Sum(T)}
<1>1. \A T \in SUBSET S : IsFiniteSet(T) /\ Sum(T) \in Nat
  <2> SUFFICES ASSUME NEW T \in SUBSET S PROVE IsFiniteSet(T) /\ Sum(T) \in Nat
    OBVIOUS
  <2>1. IsFiniteSet(T) /\ \A x \in T : f[x] \in Nat
    BY FS_Subset
  <2> QED BY <2>1, SumNonNegative
<1>2. \A T \in SUBSET S : \A x \in T : Gives(R, f, x, T, q) \in 0..f[x]
  <2> SUFFICES ASSUME NEW T \in SUBSET S, NEW x \in T PROVE Gives(R, f, x, T, q) \in 0..f[x]
    OBVIOUS
  <2>1. Ahead(R, x, T) \in SUBSET S
    BY DEF Ahead
  <2>2. SumFunctionOnSet(f, Ahead(R, x, T)) \in Nat
    BY <1>1, <2>1
  <2> QED BY <2>2 DEF Gives, LeftOpen
<1>3. ASSUME NEW T \in SUBSET S, \A x \in T : T \ {x} \in P
      PROVE  T \in P
  <2>1. CASE T = {}
    <3>1. Sum({}) = 0 /\ Got({}) = 0
      BY SumEmpty
    <3> QED BY <2>1, <3>1
  <2>2. CASE T # {}
    <3>1. StrictOrder(R, T)
      BY DEF StrictOrder
    <3>2. PICK x \in T : Ahead(R, x, T) = T \ {x} /\ \A y \in T : x \notin Ahead(R, y, T)
      BY <1>1, <2>2, <3>1, LastInQueue
    <3> DEFINE U == T \ {x}
               F == Given(T)
               H == Given(U)
    <3>3. U \in SUBSET S /\ IsFiniteSet(U) /\ IsFiniteSet(T) /\ x \notin U /\ U \cup {x} = T
      BY <1>1
    <3>4. \A y \in U : Ahead(R, y, T) = Ahead(R, y, U)
      BY <3>2 DEF Ahead
    <3>5. \A y \in U : H[y] = F[y]
      BY <3>4 DEF Gives, LeftOpen
    <3>6. \A y \in T : F[y] \in Int
      BY <1>2
    <3>7. F[x] = LET left == IF q > Sum(U) THEN q - Sum(U) ELSE 0
                 IN  IF f[x] < left THEN f[x] ELSE left
      BY <3>2 DEF Gives, LeftOpen
    <3>8. SumFunctionOnSet(H, U) = IF q < Sum(U) THEN q ELSE Sum(U)
      BY <1>3
    <3>9. \A y \in T : f[y] \in Int
      OBVIOUS
    <3>10. f[x] \in Nat /\ Sum(U) \in Nat
      BY <1>1, <3>3
    <3> HIDE DEF U, F, H
    <3>11. SumFunctionOnSet(F, T) = F[x] + SumFunctionOnSet(F, U)
      BY <3>3, <3>6, SumRemove DEF U
    <3>12. SumFunctionOnSet(f, T) = f[x] + SumFunctionOnSet(f, U)
      BY <3>3, <3>9, SumRemove DEF U
    <3>13. SumFunctionOnSet(F, U) = SumFunctionOnSet(H, U)
      BY <3>3, <3>5, SumAgree
    <3>14. SumFunctionOnSet(F, T) = IF q < Sum(T) THEN q ELSE Sum(T)
      BY <3>7, <3>8, <3>10, <3>11, <3>12, <3>13
    <3> QED BY <3>14 DEF F
  <2> QED BY <2>1, <2>2
<1>4. \A T \in SUBSET S : (\A x \in T : T \ {x} \in P) => T \in P
  BY <1>3
<1>5. \A T \in SUBSET S : T \in P
  <2> HIDE DEF P
  <2> QED BY <1>4, SubsetInduction
<1>6. SumFunctionOnSet(G, S) = Got(S)
  <2>1. \A x \in S : Given(S)[x] = G[x]
    OBVIOUS
  <2> HIDE DEF Given
  <2> QED BY <2>1, SumAgree
<1>7. Sum(S) \in Nat /\ Got(S) = IF q < Sum(S) THEN q ELSE Sum(S)
  BY <1>1, <1>5
<1> QED BY <1>2, <1>6, <1>7

=============================================================================
