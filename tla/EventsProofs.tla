---------------------------- MODULE EventsProofs ----------------------------
(***************************************************************************)
(* Proofs about the counters of AppEvents: what sums over finite sets are, *)
(* and why the series of the packages agree with the counts, for any       *)
(* versions, any packages and any length of the series and of the year.    *)
(***************************************************************************)
EXTENDS AppEvents, FiniteSetTheorems, SequenceTheorems, VecLemmas, TLAPS

-----------------------------------------------------------------------------
(* Finite sets, one element at a time                                      *)

(* Among some subsets of a finite set, one contains no other.              *)
LEMMA SmallestSet ==
    ASSUME NEW S, IsFiniteSet(S), NEW Out \in SUBSET SUBSET S, Out # {}
    PROVE  \E U \in Out : \A V \in Out : V \subseteq U => V = U
  <1>1. Out \subseteq FiniteSubsetsOf(S) /\ IsWellFoundedOn(StrictSubsetOrdering(S), FiniteSubsetsOf(S))
    BY FS_FiniteSubsetsOfFinite, FS_StrictSubsetOrderingWellFounded
  <1>2. PICK U \in Out : \A V \in Out : <<V, U>> \notin StrictSubsetOrdering(S)
    BY <1>1, WFMin, Zenon
  <1>3. ASSUME NEW V \in Out, V \subseteq U PROVE V = U
    BY <1>2, <1>3 DEF StrictSubsetOrdering
  <1> QED BY <1>3

(* What holds of no element, and of one more with some, holds of all.      *)
LEMMA OneByOne ==
    ASSUME NEW S, IsFiniteSet(S), NEW T, {} \in T,
           \A U \in SUBSET S : U \in T => \A x \in S \ U : U \cup {x} \in T
    PROVE  \A U \in SUBSET S : U \in T
  <1> DEFINE Out == {U \in SUBSET S : U \notin T}
  <1>1. SUFFICES ASSUME Out # {} PROVE FALSE
    OBVIOUS
  <1>2. PICK U \in Out : \A V \in Out : V \subseteq U => V = U
    <2>1. Out \in SUBSET SUBSET S
      OBVIOUS
    <2> HIDE DEF Out
    <2> QED BY <1>1, <2>1, SmallestSet
  <1>3. PICK x \in U : TRUE
    BY <1>2
  <1>4. U \ {x} \in T /\ U \ {x} \in SUBSET S
    BY <1>2, <1>3
  <1>5. x \in S \ (U \ {x}) /\ (U \ {x}) \cup {x} = U
    BY <1>2, <1>3
  <1> QED BY <1>2, <1>4, <1>5

-----------------------------------------------------------------------------
(* Sums                                                                    *)

SomeOf(s) == CHOOSE x \in s : TRUE

(* The functions that SumFunctionOnSet computes, for sets of a set.        *)
IsSum(f, sets, g) ==
    g = [s \in sets |-> IF s = {} THEN 0 ELSE f[SomeOf(s)] + g[s \ {SomeOf(s)}]]

LEMMA SomeOfIn == \A s : s # {} => SomeOf(s) \in s
  BY DEF SomeOf

LEMMA SumExists ==
    ASSUME NEW f, NEW S, IsFiniteSet(S)
    PROVE  \E g : IsSum(f, SUBSET S, g)
  <1> DEFINE n == Cardinality(S)
             Sized(k) == {s \in SUBSET S : Cardinality(s) <= k}
             T == {k \in 0..n : \E g : IsSum(f, Sized(k), g)}
  <1>1. n \in Nat
    BY FS_CardinalityType
  <1>2. ASSUME NEW s \in SUBSET S
        PROVE  /\ IsFiniteSet(s) /\ Cardinality(s) \in Nat /\ Cardinality(s) <= n
               /\ Cardinality(s) <= 0 => s = {}
               /\ s # {} => s \ {SomeOf(s)} \in SUBSET S /\ Cardinality(s \ {SomeOf(s)}) = Cardinality(s) - 1
    <2>1. IsFiniteSet(s) /\ Cardinality(s) <= n
      BY FS_Subset
    <2>2. Cardinality(s) \in Nat /\ (Cardinality(s) = 0 <=> s = {})
      BY <2>1, FS_CardinalityType, FS_EmptySet
    <2>3. s # {} => Cardinality(s \ {SomeOf(s)}) = Cardinality(s) - 1
      BY <2>1, FS_RemoveElement, SomeOfIn
    <2> QED BY <2>1, <2>2, <2>3
  <1>3. 0 \in T
    <2> DEFINE g == [s \in Sized(0) |-> 0]
    <2>1. IsSum(f, Sized(0), g)
      BY <1>2 DEF IsSum
    <2>2. 0 \in 0..n
      BY <1>1
    <2> HIDE DEF g, Sized, n
    <2> QED BY <2>1, <2>2
  <1>4. ASSUME NEW k \in 0..n, k < n, k \in T PROVE k + 1 \in T
    <2>1. PICK g : IsSum(f, Sized(k), g)
      BY <1>4
    <2> DEFINE h == [s \in Sized(k + 1) |-> IF s = {} THEN 0 ELSE f[SomeOf(s)] + g[s \ {SomeOf(s)}]]
    <2>2. ASSUME NEW s \in Sized(k) PROVE s \in Sized(k + 1) /\ h[s] = g[s]
      <3>1. s \in Sized(k + 1)
        <4>1. k \in Nat
          BY <1>1
        <4>2. s \in SUBSET S /\ Cardinality(s) <= k
          OBVIOUS
        <4>3. Cardinality(s) \in Nat
          BY <1>2, <4>2
        <4>4. Cardinality(s) <= k + 1
          BY <4>1, <4>2, <4>3
        <4> QED BY <4>2, <4>4
      <3>2. g[s] = IF s = {} THEN 0 ELSE f[SomeOf(s)] + g[s \ {SomeOf(s)}]
        <4> HIDE DEF Sized
        <4> QED BY <2>1 DEF IsSum
      <3> QED BY <3>1, <3>2
    <2>3. ASSUME NEW s \in Sized(k + 1), s # {} PROVE s \ {SomeOf(s)} \in Sized(k)
      BY <1>2, <2>3
    <2>4. \A s \in Sized(k + 1) : s # {} => h[s \ {SomeOf(s)}] = g[s \ {SomeOf(s)}]
      <3> HIDE DEF h, Sized
      <3> QED BY <2>2, <2>3
    <2>5. IsSum(f, Sized(k + 1), h)
      <3>1. \A s \in Sized(k + 1) : h[s] = IF s = {} THEN 0 ELSE f[SomeOf(s)] + h[s \ {SomeOf(s)}]
        <4> HIDE DEF Sized
        <4> QED BY <2>4
      <3>2. h = [s \in Sized(k + 1) |-> h[s]]
        OBVIOUS
      <3> HIDE DEF h, Sized
      <3> QED BY <3>1, <3>2 DEF IsSum
    <2>6. k + 1 \in 0..n
      BY <1>1, <1>4
    <2> HIDE DEF h, Sized
    <2> QED BY <2>5, <2>6
  <1>5. n \in T
    <2>1. \A k \in 0..n : k < n /\ k \in T => k + 1 \in T
      BY <1>4
    <2> HIDE DEF T, n
    <2>2. \A k \in 0..n : k \in T
      BY <1>1, <1>3, <2>1, UpTo
    <2> QED BY <1>1, <2>2
  <1>6. Sized(n) = SUBSET S
    BY <1>2
  <1> HIDE DEF n, Sized
  <1> QED BY <1>5, <1>6

(* There is one sum of the elements of a set, whichever sets it is         *)
(* computed with.                                                          *)
LEMMA SumUnique ==
    ASSUME NEW f, NEW S, IsFiniteSet(S), NEW U \in SUBSET S,
           NEW g, IsSum(f, SUBSET S, g), NEW h, IsSum(f, SUBSET U, h)
    PROVE  h[U] = g[U]
  <1> DEFINE Out == {s \in SUBSET U : h[s] # g[s]}
  <1>1. SUFFICES ASSUME Out # {} PROVE FALSE
    OBVIOUS
  <1>2. PICK s \in Out : \A V \in Out : V \subseteq s => V = s
    <2>1. Out \in SUBSET SUBSET S
      OBVIOUS
    <2> HIDE DEF Out
    <2> QED BY <1>1, <2>1, SmallestSet
  <1>3. s \in SUBSET U /\ s \in SUBSET S
    BY <1>2
  <1>4. /\ h[s] = IF s = {} THEN 0 ELSE f[SomeOf(s)] + h[s \ {SomeOf(s)}]
        /\ g[s] = IF s = {} THEN 0 ELSE f[SomeOf(s)] + g[s \ {SomeOf(s)}]
    BY <1>3 DEF IsSum
  <1>5. s # {} => s \ {SomeOf(s)} \notin Out
    BY <1>2, SomeOfIn
  <1>6. s # {} => h[s \ {SomeOf(s)}] = g[s \ {SomeOf(s)}]
    BY <1>3, <1>5
  <1> QED BY <1>2, <1>4, <1>6

(* The sum of some elements is an element and the sum of the others.       *)
LEMMA SumUnfolds ==
    ASSUME NEW f, NEW S, IsFiniteSet(S)
    PROVE  SumFunctionOnSet(f, S) =
              IF S = {} THEN 0 ELSE f[SomeOf(S)] + SumFunctionOnSet(f, S \ {SomeOf(S)})
  <1> DEFINE Fun(U) == CHOOSE g : g = [s \in SUBSET U |->
                          IF s = {} THEN 0 ELSE f[CHOOSE x \in s : TRUE] + g[s \ {CHOOSE x \in s : TRUE}]]
  <1>1. \A U : SumFunctionOnSet(f, U) = Fun(U)[U]
    BY DEF SumFunctionOnSet, FoldFunctionOnSet, MapThenFoldSet
  <1>2. \A U : Fun(U) = CHOOSE g : IsSum(f, SUBSET U, g)
    BY DEF IsSum, SomeOf
  <1> HIDE DEF Fun
  <1>3. PICK g : IsSum(f, SUBSET S, g)
    BY SumExists
  <1>4. ASSUME NEW U \in SUBSET S PROVE SumFunctionOnSet(f, U) = g[U]
    <2>1. IsFiniteSet(U)
      BY FS_Subset
    <2>2. IsSum(f, SUBSET U, Fun(U))
      BY <1>2, <2>1, SumExists
    <2>3. \A h : IsSum(f, SUBSET U, h) => h[U] = g[U]
      BY <1>3, SumUnique
    <2> QED BY <1>1, <2>2, <2>3
  <1>5. g[S] = IF S = {} THEN 0 ELSE f[SomeOf(S)] + g[S \ {SomeOf(S)}]
    BY <1>3 DEF IsSum
  <1> QED BY <1>4, <1>5

(* Numbers add up to a number.                                             *)
LEMMA SumType ==
    ASSUME NEW f, NEW S, IsFiniteSet(S), \A x \in S : f[x] \in Nat
    PROVE  \A U \in SUBSET S : SumFunctionOnSet(f, U) \in Nat
  <1> DEFINE Out == {U \in SUBSET S : SumFunctionOnSet(f, U) \notin Nat}
  <1>1. SUFFICES ASSUME Out # {} PROVE FALSE
    OBVIOUS
  <1>2. PICK U \in Out : \A V \in Out : V \subseteq U => V = U
    <2>1. Out \in SUBSET SUBSET S
      OBVIOUS
    <2> HIDE DEF Out
    <2> QED BY <1>1, <2>1, SmallestSet
  <1>3. SumFunctionOnSet(f, U) =
           IF U = {} THEN 0 ELSE f[SomeOf(U)] + SumFunctionOnSet(f, U \ {SomeOf(U)})
    <2>1. IsFiniteSet(U)
      BY <1>2, FS_Subset
    <2> QED BY <2>1, SumUnfolds
  <1>4. U # {} => SumFunctionOnSet(f, U \ {SomeOf(U)}) \in Nat /\ f[SomeOf(U)] \in Nat
    BY <1>2, SomeOfIn
  <1> QED BY <1>2, <1>3, <1>4

(* Any element may be taken out of a sum.                                  *)
LEMMA SumSplits ==
    ASSUME NEW f, NEW S, IsFiniteSet(S), \A x \in S : f[x] \in Nat
    PROVE  \A U \in SUBSET S : \A x \in U :
              SumFunctionOnSet(f, U) = f[x] + SumFunctionOnSet(f, U \ {x})
  <1> DEFINE Splits(U) == \A x \in U : SumFunctionOnSet(f, U) = f[x] + SumFunctionOnSet(f, U \ {x})
             Out == {U \in SUBSET S : ~Splits(U)}
  <1>1. SUFFICES ASSUME Out # {} PROVE FALSE
    OBVIOUS
  <1>2. PICK U \in Out : \A V \in Out : V \subseteq U => V = U
    <2>1. Out \in SUBSET SUBSET S
      OBVIOUS
    <2> HIDE DEF Out
    <2> QED BY <1>1, <2>1, SmallestSet
  <1>3. PICK x \in U : SumFunctionOnSet(f, U) # f[x] + SumFunctionOnSet(f, U \ {x})
    BY <1>2
  <1> DEFINE y == SomeOf(U)
  <1>4. y \in U /\ SumFunctionOnSet(f, U) = f[y] + SumFunctionOnSet(f, U \ {y})
    <2>1. IsFiniteSet(U) /\ U # {}
      BY <1>2, <1>3, FS_Subset
    <2> QED BY <2>1, SumUnfolds, SomeOfIn
  <1> HIDE DEF y
  <1>5. x # y
    BY <1>3, <1>4
  <1>6. Splits(U \ {y}) /\ Splits(U \ {x})
    <2>1. U \ {y} \in SUBSET S /\ U \ {x} \in SUBSET S /\ U \ {y} # U /\ U \ {x} # U
      BY <1>2, <1>3, <1>4
    <2> HIDE DEF Splits
    <2> QED BY <1>2, <2>1
  <1>7. (U \ {y}) \ {x} = (U \ {x}) \ {y} /\ x \in U \ {y} /\ y \in U \ {x}
    BY <1>3, <1>4, <1>5
  <1> DEFINE rest == SumFunctionOnSet(f, (U \ {x}) \ {y})
  <1>8. SumFunctionOnSet(f, U \ {y}) = f[x] + rest /\ SumFunctionOnSet(f, U \ {x}) = f[y] + rest
    BY <1>6, <1>7
  <1>9. rest \in Nat /\ f[x] \in Nat /\ f[y] \in Nat
    <2>1. (U \ {x}) \ {y} \in SUBSET S
      BY <1>2
    <2> QED BY <1>2, <1>3, <1>4, <2>1, SumType
  <1> HIDE DEF rest
  <1> QED BY <1>3, <1>4, <1>8, <1>9

(* What one element more adds to a sum.                                    *)
LEMMA SumInsert ==
    ASSUME NEW f, NEW S, IsFiniteSet(S), \A x \in S : f[x] \in Nat,
           NEW U \in SUBSET S, NEW x \in S \ U
    PROVE  /\ SumFunctionOnSet(f, U \cup {x}) = SumFunctionOnSet(f, U) + f[x]
           /\ SumFunctionOnSet(f, U) \in Nat
  <1>1. U \cup {x} \in SUBSET S /\ (U \cup {x}) \ {x} = U
    OBVIOUS
  <1>2. SumFunctionOnSet(f, U \cup {x}) = f[x] + SumFunctionOnSet(f, (U \cup {x}) \ {x})
    BY <1>1, SumSplits
  <1>3. SumFunctionOnSet(f, U) \in Nat /\ f[x] \in Nat
    BY SumType
  <1>4. SumFunctionOnSet(f, U \cup {x}) = f[x] + SumFunctionOnSet(f, U)
    BY <1>1, <1>2
  <1> QED BY <1>3, <1>4

LEMMA SumNone == \A f : SumFunctionOnSet(f, {}) = 0
  BY FS_EmptySet, SumUnfolds

(* Sums are the same when their elements are.                              *)
LEMMA SumSame ==
    ASSUME NEW S, IsFiniteSet(S), NEW f, NEW g, \A x \in S : f[x] \in Nat /\ g[x] = f[x]
    PROVE  SumFunctionOnSet(g, S) = SumFunctionOnSet(f, S)
  <1> DEFINE T == {U \in SUBSET S : SumFunctionOnSet(g, U) = SumFunctionOnSet(f, U)}
  <1>1. {} \in T
    BY SumNone
  <1>2. ASSUME NEW U \in SUBSET S, U \in T, NEW x \in S \ U PROVE U \cup {x} \in T
    <2>1. SumFunctionOnSet(f, U \cup {x}) = SumFunctionOnSet(f, U) + f[x]
      BY SumInsert
    <2>2. SumFunctionOnSet(g, U \cup {x}) = SumFunctionOnSet(g, U) + g[x]
      BY SumInsert
    <2> QED BY <1>2, <2>1, <2>2
  <1>3. S \in T
    <2>1. \A U \in SUBSET S : U \in T => \A x \in S \ U : U \cup {x} \in T
      BY <1>2
    <2> HIDE DEF T
    <2> QED BY <1>1, <2>1, OneByOne
  <1> QED BY <1>3

(* Sums are ordered when their elements are.                               *)
LEMMA SumMonotone ==
    ASSUME NEW S, IsFiniteSet(S), NEW f, NEW g,
           \A x \in S : f[x] \in Nat /\ g[x] \in Nat /\ f[x] <= g[x]
    PROVE  SumFunctionOnSet(f, S) <= SumFunctionOnSet(g, S)
  <1> DEFINE T == {U \in SUBSET S : SumFunctionOnSet(f, U) <= SumFunctionOnSet(g, U)}
  <1>1. {} \in T
    BY SumNone
  <1>2. ASSUME NEW U \in SUBSET S, U \in T, NEW x \in S \ U PROVE U \cup {x} \in T
    <2>1. SumFunctionOnSet(f, U \cup {x}) = SumFunctionOnSet(f, U) + f[x] /\ SumFunctionOnSet(f, U) \in Nat
      BY SumInsert
    <2>2. SumFunctionOnSet(g, U \cup {x}) = SumFunctionOnSet(g, U) + g[x] /\ SumFunctionOnSet(g, U) \in Nat
      BY SumInsert
    <2>3. SumFunctionOnSet(f, U) <= SumFunctionOnSet(g, U) /\ f[x] \in Nat /\ g[x] \in Nat /\ f[x] <= g[x]
      BY <1>2
    <2>4. SumFunctionOnSet(f, U \cup {x}) <= SumFunctionOnSet(g, U \cup {x})
      BY <2>1, <2>2, <2>3
    <2> QED BY <1>2, <2>4
  <1>3. S \in T
    <2>1. \A U \in SUBSET S : U \in T => \A x \in S \ U : U \cup {x} \in T
      BY <1>2
    <2> HIDE DEF T
    <2> QED BY <1>1, <2>1, OneByOne
  <1> QED BY <1>3

(* The sum of sums of two is the sum of their sums.                        *)
LEMMA SumPointwise ==
    ASSUME NEW S, IsFiniteSet(S), NEW f, NEW g, NEW h,
           \A x \in S : f[x] \in Nat /\ g[x] \in Nat /\ h[x] = f[x] + g[x]
    PROVE  SumFunctionOnSet(h, S) = SumFunctionOnSet(f, S) + SumFunctionOnSet(g, S)
  <1> DEFINE T == {U \in SUBSET S :
                      SumFunctionOnSet(h, U) = SumFunctionOnSet(f, U) + SumFunctionOnSet(g, U)}
  <1>1. {} \in T
    BY SumNone
  <1>2. ASSUME NEW U \in SUBSET S, U \in T, NEW x \in S \ U PROVE U \cup {x} \in T
    <2>1. SumFunctionOnSet(f, U \cup {x}) = SumFunctionOnSet(f, U) + f[x] /\ SumFunctionOnSet(f, U) \in Nat
      BY SumInsert
    <2>2. SumFunctionOnSet(g, U \cup {x}) = SumFunctionOnSet(g, U) + g[x] /\ SumFunctionOnSet(g, U) \in Nat
      BY SumInsert
    <2>3. \A y \in S : h[y] \in Nat
      OBVIOUS
    <2>4. SumFunctionOnSet(h, U \cup {x}) = SumFunctionOnSet(h, U) + h[x]
      BY <2>3, SumInsert
    <2>5. /\ SumFunctionOnSet(h, U) = SumFunctionOnSet(f, U) + SumFunctionOnSet(g, U)
          /\ f[x] \in Nat /\ g[x] \in Nat /\ h[x] = f[x] + g[x]
      BY <1>2
    <2>6. SumFunctionOnSet(h, U \cup {x}) =
             SumFunctionOnSet(f, U \cup {x}) + SumFunctionOnSet(g, U \cup {x})
      BY <2>1, <2>2, <2>4, <2>5
    <2> QED BY <1>2, <2>6
  <1>3. S \in T
    <2>1. \A U \in SUBSET S : U \in T => \A x \in S \ U : U \cup {x} \in T
      BY <1>2
    <2> HIDE DEF T
    <2> QED BY <1>1, <2>1, OneByOne
  <1> QED BY <1>3

(* Zeroes add up to zero.                                                  *)
LEMMA SumZero ==
    ASSUME NEW S, IsFiniteSet(S), NEW f, \A x \in S : f[x] = 0
    PROVE  SumFunctionOnSet(f, S) = 0
  <1>1. SumFunctionOnSet(f, S) = SumFunctionOnSet(f, S) + SumFunctionOnSet(f, S)
    <2>1. \A x \in S : f[x] \in Nat /\ f[x] = f[x] + f[x]
      OBVIOUS
    <2> QED BY <2>1, SumPointwise
  <1>2. SumFunctionOnSet(f, S) \in Nat
    BY SumType
  <1>3. \A t \in Nat : t = t + t => t = 0
    OBVIOUS
  <1> QED BY <1>1, <1>2, <1>3, Zenon

(* The sum over two sets apart.                                            *)
LEMMA SumUnion ==
    ASSUME NEW S, IsFiniteSet(S), NEW f, \A x \in S : f[x] \in Nat,
           NEW A \in SUBSET S, NEW B \in SUBSET S, A \cap B = {}
    PROVE  SumFunctionOnSet(f, A \cup B) = SumFunctionOnSet(f, A) + SumFunctionOnSet(f, B)
  <1> DEFINE T == {U \in SUBSET B :
                      SumFunctionOnSet(f, A \cup U) = SumFunctionOnSet(f, A) + SumFunctionOnSet(f, U)}
  <1>1. {} \in T
    <2>1. A \cup {} = A /\ SumFunctionOnSet(f, A) \in Nat
      BY SumType
    <2> QED BY <2>1, SumNone
  <1>2. ASSUME NEW U \in SUBSET B, U \in T, NEW x \in B \ U PROVE U \cup {x} \in T
    <2>1. /\ SumFunctionOnSet(f, U \cup {x}) = SumFunctionOnSet(f, U) + f[x]
          /\ SumFunctionOnSet(f, U) \in Nat /\ f[x] \in Nat
      BY SumInsert
    <2>2. SumFunctionOnSet(f, (A \cup U) \cup {x}) = SumFunctionOnSet(f, A \cup U) + f[x]
      <3> DEFINE V == A \cup U
      <3>1. V \in SUBSET S /\ x \in S \ V
        OBVIOUS
      <3> HIDE DEF V
      <3>2. SumFunctionOnSet(f, V \cup {x}) = SumFunctionOnSet(f, V) + f[x]
        BY <3>1, SumInsert
      <3> QED BY <3>2 DEF V
    <2>3. A \cup (U \cup {x}) = (A \cup U) \cup {x} /\ SumFunctionOnSet(f, A) \in Nat
      BY SumType
    <2>4. SumFunctionOnSet(f, A \cup U) = SumFunctionOnSet(f, A) + SumFunctionOnSet(f, U)
      BY <1>2
    <2>5. SumFunctionOnSet(f, A \cup (U \cup {x})) = SumFunctionOnSet(f, A \cup U) + f[x]
      BY <2>2, <2>3
    <2>6. SumFunctionOnSet(f, A \cup (U \cup {x})) =
             SumFunctionOnSet(f, A) + SumFunctionOnSet(f, U \cup {x})
      BY <2>1, <2>3, <2>4, <2>5
    <2> QED BY <1>2, <2>6
  <1>3. B \in T
    <2>1. \A U \in SUBSET B : U \in T => \A x \in B \ U : U \cup {x} \in T
      BY <1>2
    <2>2. IsFiniteSet(B)
      BY FS_Subset
    <2> HIDE DEF T
    <2>3. \A U \in SUBSET B : U \in T
      BY <1>1, <2>1, <2>2, OneByOne
    <2> QED BY <2>3
  <1> QED BY <1>3

(* The elements of a set B have names in R.                                *)
AreNamed(B, R, b) ==
    /\ \A r \in R : b[r] \in B /\ \A q \in R : b[q] = b[r] => q = r
    /\ \A y \in B : \E r \in R : y = b[r]

(* A function of the names that has the values of the elements.            *)
IsByName(g, R, f, b) == \A r \in R : f[b[r]] \in Nat /\ g[r] = f[b[r]]

(* A sum over other names of the elements.                                 *)
LEMMA SumRenamed ==
    ASSUME NEW R, IsFiniteSet(R), NEW B, NEW b, AreNamed(B, R, b),
           NEW f, NEW g, IsByName(g, R, f, b)
    PROVE  SumFunctionOnSet(g, R) = SumFunctionOnSet(f, B) /\ IsFiniteSet(B)
  <1> DEFINE Img(U) == {b[r] : r \in U}
             T == {U \in SUBSET R :
                      IsFiniteSet(Img(U)) /\ SumFunctionOnSet(g, U) = SumFunctionOnSet(f, Img(U))}
  <1>0. /\ \A r \in R : f[b[r]] \in Nat /\ g[r] = f[b[r]]
        /\ \A q, r \in R : b[q] = b[r] => q = r
        /\ Img(R) = B
    BY DEF AreNamed, IsByName
  <1>1. {} \in T
    <2>1. Img({}) = {}
      OBVIOUS
    <2> QED BY <2>1, SumNone, FS_EmptySet
  <1>2. ASSUME NEW U \in SUBSET R, U \in T, NEW x \in R \ U PROVE U \cup {x} \in T
    <2>1. SumFunctionOnSet(g, U \cup {x}) = SumFunctionOnSet(g, U) + g[x]
      <3>1. \A r \in R : g[r] \in Nat
        BY <1>0
      <3> QED BY <3>1, SumInsert
    <2>2. Img(U \cup {x}) = Img(U) \cup {b[x]} /\ b[x] \notin Img(U) /\ g[x] = f[b[x]]
      BY <1>0
    <2>3. IsFiniteSet(Img(U)) /\ SumFunctionOnSet(g, U) = SumFunctionOnSet(f, Img(U))
      BY <1>2
    <2>4. IsFiniteSet(Img(U) \cup {b[x]}) /\ \A y \in Img(U) \cup {b[x]} : f[y] \in Nat
      <3>1. IsFiniteSet(Img(U) \cup {b[x]})
        <4> HIDE DEF Img
        <4> QED BY <2>3, FS_AddElement
      <3> QED BY <1>0, <3>1
    <2>5. SumFunctionOnSet(f, Img(U) \cup {b[x]}) = SumFunctionOnSet(f, Img(U)) + f[b[x]]
      <3> HIDE DEF Img
      <3>1. Img(U) \in SUBSET (Img(U) \cup {b[x]}) /\ b[x] \in (Img(U) \cup {b[x]}) \ Img(U)
        BY <2>2
      <3> QED BY <2>4, <3>1, SumInsert
    <2> HIDE DEF Img
    <2> QED BY <2>1, <2>2, <2>3, <2>4, <2>5
  <1>3. R \in T
    <2>1. \A U \in SUBSET R : U \in T => \A x \in R \ U : U \cup {x} \in T
      BY <1>2
    <2> HIDE DEF T
    <2> QED BY <1>1, <2>1, OneByOne
  <1> QED BY <1>0, <1>3

(* The values of a table by line and by column, and their sums.            *)
IsTable(m, R, C, by_column) == \A r \in R, c \in C : m[r][c] \in Nat /\ by_column[c][r] = m[r][c]
AreSums(sums, R, m, C) == \A r \in R : sums[r] = SumFunctionOnSet(m[r], C)

(* The lines of a table add up to what its columns do.                     *)
LEMMA SumInterchange ==
    ASSUME NEW R, IsFiniteSet(R), NEW C, IsFiniteSet(C),
           NEW m, NEW by_column, IsTable(m, R, C, by_column),
           NEW lines, AreSums(lines, R, m, C), NEW columns, AreSums(columns, C, by_column, R)
    PROVE  SumFunctionOnSet(lines, R) = SumFunctionOnSet(columns, C)
  <1> DEFINE Column(U) == [c \in C |-> SumFunctionOnSet(by_column[c], U)]
             T == {U \in SUBSET R : SumFunctionOnSet(lines, U) = SumFunctionOnSet(Column(U), C)}
  <1>0. /\ \A r \in R : \A c \in C : m[r][c] \in Nat /\ by_column[c][r] = m[r][c]
        /\ \A r \in R : lines[r] = SumFunctionOnSet(m[r], C)
        /\ \A c \in C : columns[c] = SumFunctionOnSet(by_column[c], R)
    BY DEF IsTable, AreSums
  <1>1. {} \in T
    <2> DEFINE zero == [c \in C |-> 0]
    <2>1. Column({}) = zero
      BY SumNone
    <2>2. \A c \in C : zero[c] = 0
      OBVIOUS
    <2>3. SumFunctionOnSet(Column({}), C) = 0
      <3> HIDE DEF zero, Column
      <3> QED BY <2>1, <2>2, SumZero
    <2> HIDE DEF Column
    <2> QED BY <2>3, SumNone
  <1>2. ASSUME NEW U \in SUBSET R, U \in T, NEW x \in R \ U PROVE U \cup {x} \in T
    <2>1. SumFunctionOnSet(lines, U \cup {x}) = SumFunctionOnSet(lines, U) + lines[x]
      <3>1. \A r \in R : lines[r] \in Nat
        BY <1>0, SumType
      <3> QED BY <3>1, SumInsert
    <2>2. ASSUME NEW c \in C
          PROVE  /\ Column(U)[c] \in Nat /\ m[x][c] \in Nat
                 /\ Column(U \cup {x})[c] = Column(U)[c] + m[x][c]
      <3> DEFINE g == by_column[c]
      <3>1. (\A r \in R : g[r] \in Nat) /\ g[x] = m[x][c]
        BY <1>0
      <3> HIDE DEF g
      <3>2. SumFunctionOnSet(g, U \cup {x}) = SumFunctionOnSet(g, U) + g[x] /\ SumFunctionOnSet(g, U) \in Nat
        BY <3>1, SumInsert
      <3> QED BY <3>1, <3>2 DEF g
    <2> HIDE DEF Column
    <2>3. SumFunctionOnSet(Column(U \cup {x}), C) =
             SumFunctionOnSet(Column(U), C) + SumFunctionOnSet(m[x], C)
      <3> DEFINE f == Column(U)
                 g == m[x]
                 h == Column(U \cup {x})
      <3>1. \A c \in C : f[c] \in Nat /\ g[c] \in Nat /\ h[c] = f[c] + g[c]
        BY <2>2
      <3> HIDE DEF f, g, h
      <3>2. SumFunctionOnSet(h, C) = SumFunctionOnSet(f, C) + SumFunctionOnSet(g, C)
        BY <3>1, SumPointwise
      <3> QED BY <3>2 DEF f, g, h
    <2>4. lines[x] = SumFunctionOnSet(m[x], C)
      BY <1>0
    <2> QED BY <1>2, <2>1, <2>3, <2>4
  <1>3. R \in T
    <2>1. \A U \in SUBSET R : U \in T => \A x \in R \ U : U \cup {x} \in T
      BY <1>2
    <2> HIDE DEF T
    <2> QED BY <1>1, <2>1, OneByOne
  <1>4. SumFunctionOnSet(columns, C) = SumFunctionOnSet(Column(R), C)
    <2>1. ASSUME NEW c \in C PROVE Column(R)[c] = columns[c] /\ columns[c] \in Nat
      <3> DEFINE g == by_column[c]
      <3>1. \A r \in R : g[r] \in Nat
        BY <1>0
      <3> HIDE DEF g
      <3>2. SumFunctionOnSet(g, R) \in Nat
        BY <3>1, SumType
      <3> QED BY <1>0, <3>2 DEF g
    <2> HIDE DEF Column
    <2> QED BY <2>1, SumSame
  <1> QED BY <1>3, <1>4

(* A sum by groups.                                                        *)
LEMMA SumByGroup ==
    ASSUME NEW S, IsFiniteSet(S), NEW f, \A x \in S : f[x] \in Nat, NEW group,
           NEW P, IsFiniteSet(P), \A x \in S : group[x] \in P,
           NEW members, \A p \in P : members[p] = {x \in S : group[x] = p},
           NEW sums, \A p \in P : sums[p] = SumFunctionOnSet(f, members[p])
    PROVE  SumFunctionOnSet(sums, P) = SumFunctionOnSet(f, S)
  <1> DEFINE In(Q) == {x \in S : group[x] \in Q}
             T == {Q \in SUBSET P : SumFunctionOnSet(sums, Q) = SumFunctionOnSet(f, In(Q))}
  <1>1. {} \in T
    <2>1. In({}) = {}
      OBVIOUS
    <2> QED BY <2>1, SumNone
  <1>2. ASSUME NEW Q \in SUBSET P, Q \in T, NEW p \in P \ Q PROVE Q \cup {p} \in T
    <2>1. SumFunctionOnSet(sums, Q \cup {p}) = SumFunctionOnSet(sums, Q) + sums[p]
      <3>1. \A q \in P : sums[q] \in Nat
        <4>1. \A q \in P : members[q] \in SUBSET S
          OBVIOUS
        <4>2. \A U \in SUBSET S : SumFunctionOnSet(f, U) \in Nat
          BY SumType
        <4> QED BY <4>1, <4>2
      <3> QED BY <3>1, SumInsert
    <2> DEFINE one == members[p]
    <2>2. In(Q \cup {p}) = In(Q) \cup one /\ In(Q) \cap one = {} /\ In(Q) \in SUBSET S /\ one \in SUBSET S
      OBVIOUS
    <2>3. sums[p] = SumFunctionOnSet(f, one) /\ SumFunctionOnSet(sums, Q) = SumFunctionOnSet(f, In(Q))
      BY <1>2
    <2> HIDE DEF In, one
    <2>4. SumFunctionOnSet(f, In(Q) \cup one) = SumFunctionOnSet(f, In(Q)) + SumFunctionOnSet(f, one)
      BY <2>2, SumUnion
    <2> QED BY <2>1, <2>2, <2>3, <2>4
  <1>3. P \in T
    <2>1. \A Q \in SUBSET P : Q \in T => \A p \in P \ Q : Q \cup {p} \in T
      BY <1>2
    <2> HIDE DEF T
    <2> QED BY <1>1, <2>1, OneByOne
  <1>4. In(P) = S
    OBVIOUS
  <1> QED BY <1>3, <1>4

(* A sum of which one element is replaced by one that is greater by d.     *)
LEMMA SumIncremented ==
    ASSUME NEW S, IsFiniteSet(S), NEW f, NEW g, NEW x \in S, NEW d \in Nat,
           \A y \in S : f[y] \in Nat, g[x] = f[x] + d, \A y \in S \ {x} : g[y] = f[y]
    PROVE  SumFunctionOnSet(g, S) = SumFunctionOnSet(f, S) + d
  <1>1. \A y \in S : g[y] \in Nat
    OBVIOUS
  <1>2. SumFunctionOnSet(f, S) = f[x] + SumFunctionOnSet(f, S \ {x}) /\ SumFunctionOnSet(f, S \ {x}) \in Nat
    BY SumSplits, SumType
  <1>3. SumFunctionOnSet(g, S) = g[x] + SumFunctionOnSet(g, S \ {x})
    BY <1>1, SumSplits
  <1>4. SumFunctionOnSet(g, S \ {x}) = SumFunctionOnSet(f, S \ {x})
    <2>1. IsFiniteSet(S \ {x})
      BY FS_RemoveElement
    <2> QED BY <2>1, SumSame
  <1>5. f[x] \in Nat
    OBVIOUS
  <1> QED BY <1>2, <1>3, <1>4, <1>5

-----------------------------------------------------------------------------
(* The ring of a series                                                    *)

(* Numbers with the same remainder in two divisions have the same.         *)
LEMMA Remainder ==
    ASSUME NEW n \in Nat \ {0}, NEW a \in Nat, NEW q \in Nat, NEW r \in 0..n - 1, a = n * q + r
    PROVE  a % n = r
  <1>1. a % n \in 0..n - 1 /\ a = n * (a \div n) + (a % n) /\ a \div n \in Nat
    OBVIOUS
  <1>2. \A p \in Int, s \in 0..n - 1 : n * p + s = n * q + r => s = r
    OBVIOUS
  <1> QED BY <1>1, <1>2

(* The slot k days after another.                                          *)
LEMMA SlotAfter ==
    ASSUME NEW n \in Nat \ {0}, NEW a \in Nat, NEW k \in 1..n
    PROVE  /\ a % n \in 0..n - 1
           /\ (a + k) % n = IF (a % n) + k < n THEN (a % n) + k ELSE (a % n) + k - n
  <1> DEFINE q == a \div n
             r == a % n
  <1>1. r \in 0..n - 1 /\ a = n * q + r /\ q \in Nat
    OBVIOUS
  <1>2. n * (q + 1) = n * q + n
    <2> HIDE DEF q
    <2> QED BY <1>1
  <1> HIDE DEF q, r
  <1>3. CASE r + k < n
    <2>1. a + k = n * q + (r + k) /\ r + k \in 0..n - 1 /\ a + k \in Nat
      BY <1>1, <1>3
    <2>2. (a + k) % n = r + k
      BY <1>1, <2>1, Remainder
    <2> QED BY <1>1, <1>3, <2>2 DEF r
  <1>4. CASE ~(r + k < n)
    <2>1. a + k = n * (q + 1) + (r + k - n) /\ r + k - n \in 0..n - 1 /\ a + k \in Nat /\ q + 1 \in Nat
      BY <1>1, <1>2, <1>4
    <2>2. (a + k) % n = r + k - n
      BY <2>1, Remainder
    <2> QED BY <1>1, <1>4, <2>2 DEF r
  <1> QED BY <1>3, <1>4

(* A series reads each slot once, today's last.                            *)
LEMMA SlotsRead ==
    ASSUME ordinal \in Nat
    PROVE  /\ \A k \in 1..SeriesLength : (ordinal + k) % SeriesLength \in 0..SeriesLength - 1
           /\ \A j, k \in 1..SeriesLength :
                 (ordinal + j) % SeriesLength = (ordinal + k) % SeriesLength => j = k
           /\ {(ordinal + k) % SeriesLength : k \in 1..SeriesLength} = 0..SeriesLength - 1
           /\ (ordinal + SeriesLength) % SeriesLength = ordinal % SeriesLength
           /\ ordinal % SeriesLength \in 0..SeriesLength - 1
  <1> DEFINE n == SeriesLength
             r == ordinal % n
             slot(k) == (ordinal + k) % n
  <1>1. n \in Nat \ {0}
    BY SeriesAssumption
  <1> HIDE DEF n
  <1>2. r \in 0..n - 1
    BY <1>1, SlotAfter
  <1>3. \A k \in 1..n : slot(k) = IF r + k < n THEN r + k ELSE r + k - n
    BY <1>1, SlotAfter
  <1> HIDE DEF r, slot
  <1>4. \A k \in 1..n : slot(k) \in 0..n - 1
    BY <1>1, <1>2, <1>3
  <1>5. ASSUME NEW j \in 1..n, NEW k \in 1..n, slot(j) = slot(k) PROVE j = k
    BY <1>1, <1>2, <1>3, <1>5
  <1>6. ASSUME NEW s \in 0..n - 1 PROVE \E k \in 1..n : s = slot(k)
    <2>1. CASE s > r
      <3>1. s - r \in 1..n /\ slot(s - r) = s
        BY <1>1, <1>2, <1>3, <2>1
      <3> QED BY <3>1
    <2>2. CASE ~(s > r)
      <3>1. s - r + n \in 1..n /\ slot(s - r + n) = s
        BY <1>1, <1>2, <1>3, <2>2
      <3> QED BY <3>1
    <2> QED BY <2>1, <2>2
  <1>7. {slot(k) : k \in 1..n} = 0..n - 1
    BY <1>4, <1>6
  <1>8. slot(n) = r
    BY <1>1, <1>2, <1>3
  <1> QED BY <1>2, <1>4, <1>5, <1>7, <1>8 DEF n, r, slot

-----------------------------------------------------------------------------
(* Reading the statistics                                                  *)

Series == [counts : [1..SeriesLength -> Nat], total : Nat]

(* The total of a series is that of its counts.                            *)
Adds(series) == series.total = SumFunctionOnSet(series.counts, 1..SeriesLength)

LEMMA SeriesFinite ==
    SeriesLength \in Nat /\ IsFiniteSet(1..SeriesLength) /\ SeriesLength \in 1..SeriesLength
  <1>1. SeriesLength \in Nat \ {0}
    BY SeriesAssumption
  <1> QED BY <1>1, FS_Interval

(* The series of a version adds up to its slots, and ends with today's.    *)
LEMMA VersionSeries ==
    ASSUME ordinal \in Nat, NEW v, slots[v] \in [0..SeriesLength - 1 -> Nat]
    PROVE  /\ add_version(v) \in Series /\ Adds(add_version(v))
           /\ add_version(v).total = SumFunction(slots[v])
           /\ add_version(v).counts[SeriesLength] = slots[v][ordinal % SeriesLength]
  <1> DEFINE R == 1..SeriesLength
             b == [k \in R |-> (ordinal + k) % SeriesLength]
             g == [k \in R |-> slots[v][(ordinal + k) % SeriesLength]]
  <1>1. \A k \in R : b[k] \in 0..SeriesLength - 1 /\ g[k] = slots[v][b[k]] /\ g[k] \in Nat
    BY SlotsRead
  <1>2. \A j, k \in R : b[j] = b[k] => j = k
    BY SlotsRead
  <1>3. {b[k] : k \in R} = 0..SeriesLength - 1
    <2>1. {b[k] : k \in R} = {(ordinal + k) % SeriesLength : k \in R}
      OBVIOUS
    <2> QED BY <2>1, SlotsRead
  <1>4. IsFiniteSet(R)
    BY SeriesFinite
  <1>5. SumFunctionOnSet(g, R) = SumFunctionOnSet(slots[v], 0..SeriesLength - 1) /\ IsFiniteSet(0..SeriesLength - 1)
    <2> DEFINE B == 0..SeriesLength - 1
               f == slots[v]
    <2>1. \A y \in B : \E k \in R : y = b[k]
      <3> HIDE DEF R
      <3> QED BY <1>3
    <2>2. IsByName(g, R, f, b) /\ AreNamed(B, R, b)
      <3> HIDE DEF b, g, R
      <3> QED BY <1>1, <1>2, <2>1 DEF IsByName, AreNamed
    <2> HIDE DEF b, g, R, B, f
    <2>3. SumFunctionOnSet(g, R) = SumFunctionOnSet(f, B) /\ IsFiniteSet(B)
      BY <1>4, <2>2, SumRenamed
    <2> QED BY <2>3 DEF B, f
  <1>6. SumFunction(slots[v]) = SumFunctionOnSet(g, R) /\ SumFunction(slots[v]) \in Nat
    <2>1. DOMAIN slots[v] = 0..SeriesLength - 1
      OBVIOUS
    <2>2. SumFunctionOnSet(slots[v], 0..SeriesLength - 1) \in Nat
      <3>1. IsFiniteSet(0..SeriesLength - 1) /\ \A i \in 0..SeriesLength - 1 : slots[v][i] \in Nat
        BY <1>3, <1>5
      <3> QED BY <3>1, SumType
    <2> QED BY <1>3, <1>5, <2>1, <2>2 DEF SumFunction
  <1>7. g \in [R -> Nat]
    BY <1>1
  <1>8. g[SeriesLength] = slots[v][ordinal % SeriesLength]
    BY SeriesFinite, SlotsRead
  <1>9. add_version(v) = [counts |-> g, total |-> SumFunction(slots[v])]
    BY DEF add_version
  <1> HIDE DEF g
  <1> QED BY <1>6, <1>7, <1>8, <1>9 DEF Series, Adds

(* A function that adds one element to the values of another.              *)
Extends(g, f, A, z, value) ==
    z \notin A /\ (\A x \in A : f[x] \in Nat /\ g[x] = f[x]) /\ g[z] = value

(* When the elements of a sum that R names are put together in one.        *)
LEMMA SumGathered ==
    ASSUME NEW A, IsFiniteSet(A), NEW R, IsFiniteSet(R),
           NEW B, NEW b, AreNamed(B, R, b), A \cap B = {},
           NEW f, NEW h, IsByName(h, R, f, b),
           NEW z, NEW g, Extends(g, f, A, z, SumFunctionOnSet(h, R))
    PROVE  SumFunctionOnSet(g, A \cup {z}) = SumFunctionOnSet(f, A \cup B)
  <1>0. z \notin A /\ (\A x \in A : f[x] \in Nat /\ g[x] = f[x]) /\ g[z] = SumFunctionOnSet(h, R)
    BY DEF Extends
  <1>1. SumFunctionOnSet(h, R) = SumFunctionOnSet(f, B) /\ IsFiniteSet(B)
    BY SumRenamed
  <1>2. SumFunctionOnSet(f, A \cup B) = SumFunctionOnSet(f, A) + SumFunctionOnSet(f, B)
    <2>1. IsFiniteSet(A \cup B)
      BY <1>1, FS_Union
    <2>2. /\ \A x \in A \cup B : f[x] \in Nat
          /\ A \in SUBSET (A \cup B) /\ B \in SUBSET (A \cup B)
      BY <1>0 DEF AreNamed, IsByName
    <2> QED BY <2>1, <2>2, SumUnion
  <1>3. SumFunctionOnSet(g, A \cup {z}) = SumFunctionOnSet(g, A) + g[z]
    <2>1. IsFiniteSet(A \cup {z})
      BY FS_AddElement
    <2>2. SumFunctionOnSet(h, R) \in Nat
      <3>1. \A r \in R : h[r] \in Nat
        BY DEF IsByName
      <3> QED BY <3>1, SumType
    <2>3. /\ \A x \in A \cup {z} : g[x] \in Nat
          /\ A \in SUBSET (A \cup {z}) /\ z \in (A \cup {z}) \ A
      BY <1>0, <2>2
    <2> QED BY <2>1, <2>3, SumInsert
  <1>4. SumFunctionOnSet(g, A) = SumFunctionOnSet(f, A)
    BY <1>0, SumSame
  <1> QED BY <1>0, <1>1, <1>2, <1>3, <1>4

(* The first m of n numbers, followed by the sum of the others, h.         *)
Shortens(g, m, f, n, h) ==
    /\ \A i \in 1..n : f[i] \in Nat
    /\ \A i \in 1..n - m : h[i] = f[m + i]
    /\ (\A i \in 1..m : g[i] = f[i]) /\ g[m + 1] = SumFunctionOnSet(h, 1..n - m)

(* The first m of a list and the sum of the others add up to the list.     *)
LEMMA AddingUpTail ==
    ASSUME NEW n \in Nat, NEW m \in Nat, m < n, NEW f, NEW g, NEW h, Shortens(g, m, f, n, h)
    PROVE  SumFunctionOnSet(g, 1..m + 1) = SumFunctionOnSet(f, 1..n)
  <1> DEFINE A == 1..m
             R == 1..n - m
             b == [i \in R |-> m + i]
             B == m + 1..n
             z == m + 1
  <1>1. IsFiniteSet(A) /\ IsFiniteSet(R)
    BY FS_Interval
  <1>2. IsByName(h, R, f, b) /\ A \cap B = {}
    BY DEF IsByName, Shortens
  <1>3. Extends(g, f, A, z, SumFunctionOnSet(h, R))
    BY DEF Extends, Shortens
  <1>4. 1..m + 1 = A \cup {z} /\ 1..n = A \cup B
    OBVIOUS
  <1>5. ASSUME NEW y \in B PROVE \E r \in R : y = b[r]
    <2>1. y - m \in R /\ y = b[y - m]
      OBVIOUS
    <2> QED BY <2>1
  <1>6. AreNamed(B, R, b)
    BY <1>5 DEF AreNamed
  <1> HIDE DEF A, R, B, b, z
  <1>7. SumFunctionOnSet(g, A \cup {z}) = SumFunctionOnSet(f, A \cup B)
    BY <1>1, <1>2, <1>3, <1>6, SumGathered
  <1> QED BY <1>4, <1>7

(* The n series of a list add up to those of another.                      *)
AddUpTo(list, n, stats) ==
    /\ \A i \in 1..n : list[i] \in Series /\ Adds(list[i])
    /\ \A f, g :
          (\A i \in 1..Len(stats) : f[i] = stats[i].total) /\ (\A i \in 1..n : g[i] = list[i].total)
          => SumFunctionOnSet(g, 1..n) = SumFunctionOnSet(f, 1..Len(stats))
    /\ \A f, g :
          /\ \A i \in 1..Len(stats) : f[i] = stats[i].counts[SeriesLength]
          /\ \A i \in 1..n : g[i] = list[i].counts[SeriesLength]
          => SumFunctionOnSet(g, 1..n) = SumFunctionOnSet(f, 1..Len(stats))

(* Adding up the versions beyond the first ones changes no sum, and the    *)
(* total is still that of the counts.                                      *)
LEMMA FinalizeAdds ==
    ASSUME NEW stats \in Seq(Series), \A i \in 1..Len(stats) : Adds(stats[i])
    PROVE  \E n \in Nat : DOMAIN finalize(stats) = 1..n /\ AddUpTo(finalize(stats), n, stats)
  <1> DEFINE len == Len(stats)
             L == SeriesLength
  <1>1. len \in Nat /\ DOMAIN stats = 1..len /\ Kept \in Nat
    BY LenProperties, SeriesAssumption
  <1>2. \A i \in 1..len : stats[i] \in Series
    BY ElementOfSeq
  <1>3. \A i \in 1..len : /\ stats[i].total \in Nat /\ stats[i].counts \in [1..L -> Nat]
                          /\ stats[i].total = SumFunctionOnSet(stats[i].counts, 1..L)
    BY <1>2 DEF Series, Adds
  <1>4. L \in Nat /\ IsFiniteSet(1..L) /\ L \in 1..L
    BY SeriesFinite
  <1>5. CASE ~(len > Kept)
    <2>1. finalize(stats) = stats
      BY <1>5 DEF finalize
    <2>2. ASSUME NEW f, NEW g, \A i \in 1..len : f[i] \in Nat /\ g[i] = f[i]
          PROVE  SumFunctionOnSet(g, 1..len) = SumFunctionOnSet(f, 1..len)
      <3>1. IsFiniteSet(1..len)
        BY <1>1, FS_Interval
      <3> HIDE DEF len
      <3> QED BY <2>2, <3>1, SumSame
    <2> HIDE DEF len
    <2>3. \A f, g : (\A i \in 1..len : f[i] \in Nat /\ g[i] = f[i]) =>
              SumFunctionOnSet(g, 1..len) = SumFunctionOnSet(f, 1..len)
      BY <2>2
    <2>4. \A i \in 1..len : stats[i].counts[L] \in Nat
      BY <1>3, <1>4
    <2>5. \A f, g : (\A i \in 1..len : f[i] = stats[i].total) /\ (\A i \in 1..len : g[i] = stats[i].total)
                    => SumFunctionOnSet(g, 1..len) = SumFunctionOnSet(f, 1..len)
      BY <1>3, <2>3
    <2>6. \A f, g : (\A i \in 1..len : f[i] = stats[i].counts[L]) /\ (\A i \in 1..len : g[i] = stats[i].counts[L])
                    => SumFunctionOnSet(g, 1..len) = SumFunctionOnSet(f, 1..len)
      BY <2>3, <2>4
    <2>7. \A i \in 1..len : Adds(stats[i])
      BY DEF len
    <2>8. AddUpTo(stats, len, stats)
      BY <1>2, <2>5, <2>6, <2>7 DEF AddUpTo, len
    <2> QED BY <1>1, <2>1, <2>8
  <1>6. CASE len > Kept
    <2> DEFINE m == len - Kept
               others == SubSeq(stats, Kept + 1, len)
               head == SubSeq(stats, 1, Kept)
               all == [counts |-> [k \in 1..L |-> SumFunction([i \in DOMAIN others |-> others[i].counts[k]])],
                       total |-> SumFunction([i \in DOMAIN others |-> others[i].total])]
               fin == finalize(stats)
    <2>1. fin = Append(head, all)
      BY <1>6 DEF finalize
    <2>2. m \in Nat /\ Kept < len /\ \A i \in 1..m : Kept + i \in 1..len
      BY <1>1, <1>6
    <2>3. others \in Seq(Series) /\ Len(others) = m /\ \A i \in 1..m : others[i] = stats[Kept + i]
      <3>1. \A i \in Kept + 1..len : stats[i] \in Series
        BY <1>1, <1>2
      <3>2. /\ others \in Seq(Series)
            /\ Len(others) = IF Kept + 1 <= len THEN len - (Kept + 1) + 1 ELSE 0
            /\ \A i \in 1..len - (Kept + 1) + 1 : others[i] = stats[Kept + 1 + i - 1]
        <4>1. Kept + 1 \in Int /\ len \in Int
          BY <1>1
        <4> HIDE DEF len
        <4> QED BY <3>1, <4>1, SubSeqProperties
      <3> HIDE DEF len, others
      <3>3. len - (Kept + 1) + 1 = m /\ Kept + 1 <= len /\ \A i \in 1..m : Kept + 1 + i - 1 = Kept + i
        BY <1>1, <1>6
      <3> QED BY <3>2, <3>3
    <2>4. head \in Seq(Series) /\ Len(head) = Kept /\ \A i \in 1..Kept : head[i] = stats[i]
      <3>1. \A i \in 1..Kept : stats[i] \in Series
        BY <1>1, <1>2, <1>6
      <3>2. /\ head \in Seq(Series)
            /\ Len(head) = IF 1 <= Kept THEN Kept - 1 + 1 ELSE 0
            /\ \A i \in 1..Kept - 1 + 1 : head[i] = stats[1 + i - 1]
        <4>1. 1 \in Int /\ Kept \in Int
          BY <1>1
        <4> QED BY <3>1, <4>1, SubSeqProperties
      <3> HIDE DEF head
      <3>3. Kept - 1 + 1 = Kept /\ (~(1 <= Kept) => Kept = 0) /\ \A i \in 1..Kept : 1 + i - 1 = i
        BY <1>1
      <3> QED BY <3>2, <3>3
    <2>5. DOMAIN others = 1..m
      <3> HIDE DEF others, m
      <3> QED BY <2>3, LenProperties
    <2> HIDE DEF others, head
    <2>6. \A i \in 1..m : /\ others[i].total \in Nat /\ others[i].counts \in [1..L -> Nat]
                          /\ others[i].total = SumFunctionOnSet(others[i].counts, 1..L)
      BY <1>3, <2>2, <2>3
    <2>7. IsFiniteSet(1..m)
      BY <2>2, FS_Interval
    <2> DEFINE total == [i \in 1..m |-> others[i].total]
               count_(k) == [i \in 1..m |-> others[i].counts[k]]
    <2>8. all = [counts |-> [k \in 1..L |-> SumFunctionOnSet(count_(k), 1..m)],
                 total |-> SumFunctionOnSet(total, 1..m)]
      <3> HIDE DEF m, L
      <3>1. (\A k : DOMAIN count_(k) = 1..m) /\ DOMAIN total = 1..m
        OBVIOUS
      <3>2. all = [counts |-> [k \in 1..L |-> SumFunction(count_(k))], total |-> SumFunction(total)]
        BY <2>5
      <3> HIDE DEF count_, total, all
      <3> QED BY <3>1, <3>2 DEF SumFunction
    <2>9. SumFunctionOnSet(total, 1..m) \in Nat /\ \A k \in 1..L : SumFunctionOnSet(count_(k), 1..m) \in Nat
      <3>1. \A i \in 1..m : total[i] \in Nat
        BY <2>6
      <3>2. \A k \in 1..L : \A i \in 1..m : count_(k)[i] \in Nat
        BY <2>6
      <3> HIDE DEF total, count_, L, m
      <3>3. SumFunctionOnSet(total, 1..m) \in Nat
        BY <2>7, <3>1, SumType
      <3>4. ASSUME NEW k \in 1..L PROVE SumFunctionOnSet(count_(k), 1..m) \in Nat
        <4> DEFINE c == count_(k)
        <4>1. \A i \in 1..m : c[i] \in Nat
          BY <3>2
        <4> HIDE DEF c
        <4>2. SumFunctionOnSet(c, 1..m) \in Nat
          BY <2>7, <4>1, SumType
        <4> QED BY <4>2 DEF c
      <3> QED BY <3>3, <3>4
    <2>10. SumFunctionOnSet(total, 1..m) =
              SumFunctionOnSet([k \in 1..L |-> SumFunctionOnSet(count_(k), 1..m)], 1..L)
      <3> DEFINE R == 1..m
                 C == 1..L
                 lines == [i \in R |-> others[i].counts]
                 t == [k \in C |-> count_(k)]
                 columns == [k \in C |-> SumFunctionOnSet(count_(k), R)]
      <3>1. IsFiniteSet(R) /\ IsFiniteSet(C)
        BY <1>4, <2>7
      <3>2. IsTable(lines, R, C, t)
        BY <2>6 DEF IsTable
      <3>3. AreSums(total, R, lines, C)
        BY <2>6 DEF AreSums
      <3>4. AreSums(columns, C, t, R)
        BY DEF AreSums
      <3> HIDE DEF lines, total, count_, m, L, R, C, all, t, columns
      <3>5. SumFunctionOnSet(total, R) = SumFunctionOnSet(columns, C)
        BY <3>1, <3>2, <3>3, <3>4, SumInterchange
      <3> QED BY <3>5 DEF R, C, columns
    <2> HIDE DEF total, count_, all, L
    <2>11. all \in Series /\ Adds(all)
      <3>1. all.total = SumFunctionOnSet(total, 1..m)
            /\ all.counts = [k \in 1..L |-> SumFunctionOnSet(count_(k), 1..m)]
        BY <2>8
      <3>2. [k \in 1..L |-> SumFunctionOnSet(count_(k), 1..m)] \in [1..L -> Nat]
        BY <2>9
      <3>3. all \in Series
        BY <2>8, <2>9, <3>2 DEF Series, L
      <3> QED BY <2>10, <3>1, <3>3 DEF Adds, L
    <2>12. /\ DOMAIN fin = 1..Kept + 1
           /\ \A i \in 1..Kept : fin[i] = stats[i]
           /\ fin[Kept + 1] = all
      <3> HIDE DEF fin
      <3>1. /\ Append(head, all) \in Seq(Series) /\ Len(Append(head, all)) = Len(head) + 1
            /\ \A i \in 1..Len(head) : Append(head, all)[i] = head[i]
            /\ Append(head, all)[Len(head) + 1] = all
        BY <2>4, <2>11, AppendProperties
      <3>2. DOMAIN fin = 1..Len(fin)
        BY <2>1, <3>1, LenProperties
      <3> QED BY <1>1, <2>1, <2>4, <3>1, <3>2
    <2> HIDE DEF fin
    <2>13. \A i \in 1..Kept + 1 : fin[i] \in Series /\ Adds(fin[i])
      <3>1. \A i \in 1..Kept + 1 : i = Kept + 1 \/ (i \in 1..Kept /\ i \in 1..len)
        BY <1>1, <1>6
      <3>2. \A i \in 1..len : Adds(stats[i])
        OBVIOUS
      <3> HIDE DEF len
      <3> QED BY <1>2, <2>11, <2>12, <3>1, <3>2
    <2>14. ASSUME NEW f, NEW g, \A i \in 1..len : f[i] = stats[i].total,
                  \A i \in 1..Kept + 1 : g[i] = fin[i].total
           PROVE  SumFunctionOnSet(g, 1..Kept + 1) = SumFunctionOnSet(f, 1..len)
      <3>1. \A i \in 1..len : f[i] \in Nat
        BY <1>3, <2>14
      <3>2. \A i \in 1..m : total[i] = f[Kept + i]
        BY <2>2, <2>3, <2>14 DEF total
      <3>3. (\A i \in 1..Kept : g[i] = f[i]) /\ g[Kept + 1] = SumFunctionOnSet(total, 1..m)
        <4>1. Kept + 1 \in 1..Kept + 1 /\ \A i \in 1..Kept : i \in 1..Kept + 1 /\ i \in 1..len
          BY <1>1, <1>6
        <4> HIDE DEF len, m
        <4>2. all.total = SumFunctionOnSet(total, 1..m)
          BY <2>8
        <4> QED BY <2>12, <2>14, <4>1, <4>2
      <3>4. Shortens(g, Kept, f, len, total)
        BY <3>1, <3>2, <3>3 DEF Shortens
      <3> HIDE DEF len
      <3> QED BY <1>1, <2>2, <3>4, AddingUpTail
    <2>15. ASSUME NEW f, NEW g, \A i \in 1..len : f[i] = stats[i].counts[L],
                  \A i \in 1..Kept + 1 : g[i] = fin[i].counts[L]
           PROVE  SumFunctionOnSet(g, 1..Kept + 1) = SumFunctionOnSet(f, 1..len)
      <3>1. \A i \in 1..len : f[i] \in Nat
        BY <1>3, <1>4, <2>15
      <3> DEFINE h == count_(L)
      <3>2. \A i \in 1..m : h[i] = f[Kept + i]
        BY <2>2, <2>3, <2>15 DEF count_
      <3>3. (\A i \in 1..Kept : g[i] = f[i]) /\ g[Kept + 1] = SumFunctionOnSet(h, 1..m)
        <4>1. Kept + 1 \in 1..Kept + 1 /\ \A i \in 1..Kept : i \in 1..Kept + 1 /\ i \in 1..len
          BY <1>1, <1>6
        <4> HIDE DEF len, m
        <4>2. all.counts[L] = SumFunctionOnSet(count_(L), 1..m)
          BY <1>4, <2>8
        <4> QED BY <2>12, <2>15, <4>1, <4>2
      <3> HIDE DEF h
      <3>4. Shortens(g, Kept, f, len, h)
        BY <3>1, <3>2, <3>3 DEF Shortens
      <3> HIDE DEF len
      <3> QED BY <1>1, <2>2, <3>4, AddingUpTail
    <2>16. Kept + 1 \in Nat
      BY <1>1
    <2> HIDE DEF len
    <2>17. AddUpTo(fin, Kept + 1, stats)
      BY <2>13, <2>14, <2>15 DEF AddUpTo, len, L
    <2> QED BY <2>12, <2>16, <2>17 DEF fin
  <1> QED BY <1>5, <1>6

-----------------------------------------------------------------------------
(* The statistics of a package                                             *)

(* The versions of a package that have a row.                              *)
RowsOf(package) == {v \in present : Package[v] = package}

(* The rows of a package are listed, each once.                            *)
LEMMA RowsListed ==
    ASSUME present \subseteq Versions, NEW p
    PROVE  /\ RowsAmong(p)[Len(Order)] \in Seq(Versions)
           /\ AreNamed(RowsOf(p), DOMAIN RowsAmong(p)[Len(Order)], RowsAmong(p)[Len(Order)])
  <1> DEFINE n == Len(Order)
             S == {s \in Seq(Versions) : TRUE}
             Push(s, i) == IF Order[i] \in present /\ Package[Order[i]] = p THEN Append(s, Order[i]) ELSE s
             R(g) == [i \in 0..n |-> IF i = 0 THEN << >> ELSE Push(g[i - 1], i)]
             step == [i \in 1..n |-> [s \in S |-> Push(s, i)]]
             a == RowsAmong(p)
  <1>1. /\ n \in Nat /\ DOMAIN Order = 1..n /\ \A i \in 1..n : Order[i] \in Versions
        /\ \A v \in Versions : \E i \in 1..n : Order[i] = v
        /\ \A i, k \in 1..n : Order[i] = Order[k] => i = k
    BY OrderAssumption, LenProperties, ElementOfSeq
  <1>2. << >> \in S /\ \A s \in S : \A i \in 1..n : Push(s, i) \in S
    <2> HIDE DEF n
    <2>1. << >> \in S
      BY EmptySeq
    <2>2. \A s \in S : \A i \in 1..n : Append(s, Order[i]) \in S
      BY <1>1, AppendProperties
    <2> QED BY <2>1, <2>2
  <1>3. step \in [1..n -> [S -> S]]
    <2> HIDE DEF n, Push, S
    <2> QED BY <1>2
  <1>4. PICK f \in [0..n -> S] : IsLoop(f, n, << >>, step)
    <2> HIDE DEF n, step, S
    <2> QED BY <1>1, <1>2, <1>3, LoopExists
  <1>5. f = R(f)
    <2> HIDE DEF Push, S
    <2>1. f[0] = << >>
      BY <1>4 DEF IsLoop
    <2>2. ASSUME NEW i \in 1..n PROVE f[i] = Push(f[i - 1], i)
      <3> HIDE DEF n
      <3>1. i - 1 \in 0..n
        BY <1>1
      <3>2. f[i - 1] \in S /\ f[i] = step[i][f[i - 1]]
        BY <1>4, <3>1 DEF IsLoop
      <3> QED BY <3>2
    <2> HIDE DEF n
    <2>3. \A i \in 0..n : f[i] = IF i = 0 THEN << >> ELSE Push(f[i - 1], i)
      <3>1. \A i \in 0..n : i = 0 \/ i \in 1..n
        BY <1>1
      <3> QED BY <2>1, <2>2, <3>1
    <2> QED BY <2>3
  <1>6. a = R(a)
    <2>1. a = CHOOSE g : g = R(g)
      BY DEF RowsAmong
    <2> HIDE DEF R, a
    <2> QED BY <1>5, <2>1
  <1>7. a[0] = << >> /\ \A i \in 1..n : a[i] = Push(a[i - 1], i)
    <2> HIDE DEF n, a, Push
    <2> QED BY <1>1, <1>6
  <1> HIDE DEF a, R, step, S, n
  <1> DEFINE Among(i) == {v \in RowsOf(p) : \E j \in 1..i : Order[j] = v}
             T == {i \in 0..n : a[i] \in Seq(Versions) /\ ToSet(a[i]) = Among(i) /\ IsInjective(a[i])}
  <1>8. 0 \in T
    <2>1. Among(0) = {} /\ 0 \in 0..n
      BY <1>1
    <2>2. << >> \in Seq(Versions) /\ ToSet(<< >>) = {} /\ IsInjective(<< >>)
      BY EmptySeq DEF ToSet, IsInjective
    <2> QED BY <1>7, <2>1, <2>2
  <1>9. ASSUME NEW i \in 0..n, i < n, i \in T PROVE i + 1 \in T
    <2>1. /\ i + 1 \in 1..n /\ i + 1 \in 0..n /\ (i + 1) - 1 = i
          /\ \A j : j \in 1..(i + 1) <=> j \in 1..i \/ j = i + 1
          /\ \A j \in 1..i : j \in 1..n /\ j # i + 1
      BY <1>1, <1>9
    <2>2. a[i] \in Seq(Versions) /\ ToSet(a[i]) = Among(i) /\ IsInjective(a[i])
      BY <1>9
    <2>3. CASE Order[i + 1] \in RowsOf(p)
      <3>1. a[i + 1] = Append(a[i], Order[i + 1])
        BY <1>7, <2>1, <2>3 DEF RowsOf
      <3>2. Order[i + 1] \in Versions /\ Order[i + 1] \notin ToSet(a[i])
        BY <1>1, <2>1, <2>2
      <3>3. /\ a[i + 1] \in Seq(Versions) /\ ToSet(a[i + 1]) = ToSet(a[i]) \cup {Order[i + 1]}
            /\ IsInjective(a[i + 1])
        BY <2>2, <3>1, <3>2, PushElements
      <3>4. Among(i + 1) = Among(i) \cup {Order[i + 1]}
        BY <2>1, <2>3
      <3> QED BY <2>1, <2>2, <3>3, <3>4
    <2>4. CASE Order[i + 1] \notin RowsOf(p)
      <3>1. a[i + 1] = a[i]
        BY <1>7, <2>1, <2>4 DEF RowsOf
      <3>2. Among(i + 1) = Among(i)
        BY <2>1, <2>4
      <3> QED BY <2>1, <2>2, <3>1, <3>2
    <2> QED BY <2>3, <2>4
  <1>10. n \in T
    <2>1. \A i \in 0..n : i < n /\ i \in T => i + 1 \in T
      BY <1>9
    <2> HIDE DEF T
    <2>2. \A i \in 0..n : i \in T
      BY <1>1, <1>8, <2>1, UpTo
    <2> QED BY <1>1, <2>2
  <1>11. Among(n) = RowsOf(p)
    BY <1>1 DEF RowsOf
  <1>12. AreNamed(RowsOf(p), DOMAIN a[n], a[n])
    BY <1>10, <1>11 DEF AreNamed, ToSet, IsInjective
  <1> QED BY <1>10, <1>12 DEF a, n

(* What a list of series adds up to.                                       *)
Totals(list) == SumFunction([i \in DOMAIN list |-> list[i].total])
Lasts(list) == SumFunction([i \in DOMAIN list |-> list[i].counts[SeriesLength]])

(* The counts of the day.                                                  *)
TodaySlot == [v \in Versions |-> slots[v][ordinal % SeriesLength]]

(* The series of a package add up to the counters of its rows, and end     *)
(* with the slots of the day.                                              *)
LEMMA PackageAgrees ==
    ASSUME CountInv, present \subseteq Versions, NEW p
    PROVE  /\ \A i \in DOMAIN get_crate_dl_stats(p) :
                 get_crate_dl_stats(p)[i].total = SumFunction(get_crate_dl_stats(p)[i].counts)
           /\ Totals(get_crate_dl_stats(p)) = SumFunctionOnSet(count, RowsOf(p))
           /\ Lasts(get_crate_dl_stats(p)) = SumFunctionOnSet(TodaySlot, RowsOf(p))
  <1> DEFINE rows == RowsAmong(p)[Len(Order)]
             m == Len(rows)
             list == [i \in DOMAIN rows |-> add_version(rows[i])]
             stats == get_crate_dl_stats(p)
             here == RowsOf(p)
  <1>1. rows \in Seq(Versions) /\ AreNamed(here, DOMAIN rows, rows)
    BY RowsListed
  <1>2. stats = finalize(list)
    BY DEF get_crate_dl_stats
  <1> HIDE DEF rows, here, stats
  <1>3. m \in Nat /\ DOMAIN rows = 1..m /\ \A i \in 1..m : rows[i] \in Versions
    BY <1>1, LenProperties, ElementOfSeq
  <1>4. ASSUME NEW v \in Versions
        PROVE  /\ add_version(v) \in Series /\ Adds(add_version(v))
               /\ add_version(v).total = count[v]
               /\ add_version(v).counts[SeriesLength] = TodaySlot[v]
               /\ count[v] \in Nat /\ TodaySlot[v] \in Nat
    <2>1. ordinal \in Nat /\ slots[v] \in [0..SeriesLength - 1 -> Nat] /\ SumFunction(slots[v]) = count[v]
          /\ count[v] \in Nat
      BY DEF CountInv
    <2>2. ordinal % SeriesLength \in 0..SeriesLength - 1
      BY <2>1, SlotsRead
    <2>3. TodaySlot[v] = slots[v][ordinal % SeriesLength]
      BY DEF TodaySlot
    <2> QED BY <2>1, <2>2, <2>3, VersionSeries
  <1>5. /\ DOMAIN list = 1..m /\ \A i \in 1..m : list[i] = add_version(rows[i]) /\ list[i] \in Series
    BY <1>3, <1>4
  <1> HIDE DEF m, list
  <1>6. list \in Seq(Series) /\ Len(list) = m
    <2>1. list = [i \in 1..m |-> list[i]]
      BY <1>5 DEF list
    <2>2. list \in [1..m -> Series]
      BY <1>5, <2>1
    <2> QED BY <1>3, <2>2, IsASeq, LenProperties
  <1>7. PICK n \in Nat : DOMAIN stats = 1..n /\ AddUpTo(stats, n, list)
    <2>1. \A i \in 1..Len(list) : Adds(list[i])
      BY <1>3, <1>4, <1>5, <1>6
    <2> QED BY <1>2, <1>6, <2>1, FinalizeAdds
  <1>8. IsFiniteSet(1..m)
    BY <1>3, FS_Interval
  <1> DEFINE f == [i \in 1..m |-> list[i].total]
             g == [i \in 1..n |-> stats[i].total]
             d == [i \in 1..m |-> list[i].counts[SeriesLength]]
             e == [i \in 1..n |-> stats[i].counts[SeriesLength]]
  <1>9. IsByName(f, 1..m, count, rows) /\ IsByName(d, 1..m, TodaySlot, rows)
    BY <1>3, <1>4, <1>5 DEF IsByName
  <1>10. (\A i \in 1..Len(list) : f[i] = list[i].total /\ d[i] = list[i].counts[SeriesLength])
         /\ \A i \in 1..n : g[i] = stats[i].total /\ e[i] = stats[i].counts[SeriesLength]
    BY <1>6
  <1>11. Totals(stats) = SumFunctionOnSet(g, 1..n) /\ Lasts(stats) = SumFunctionOnSet(e, 1..n)
    <2>1. Totals(stats) = SumFunction(g) /\ Lasts(stats) = SumFunction(e) /\ DOMAIN g = 1..n /\ DOMAIN e = 1..n
      BY <1>7 DEF Totals, Lasts
    <2> HIDE DEF g, e
    <2> QED BY <2>1 DEF SumFunction
  <1> HIDE DEF f, g, d, e
  <1>12. SumFunctionOnSet(g, 1..n) = SumFunctionOnSet(f, 1..m)
         /\ SumFunctionOnSet(e, 1..n) = SumFunctionOnSet(d, 1..m)
    BY <1>6, <1>7, <1>10 DEF AddUpTo
  <1>13. SumFunctionOnSet(f, 1..m) = SumFunctionOnSet(count, here)
         /\ SumFunctionOnSet(d, 1..m) = SumFunctionOnSet(TodaySlot, here)
    BY <1>1, <1>3, <1>8, <1>9, SumRenamed
  <1>14. \A i \in DOMAIN stats : stats[i].total = SumFunction(stats[i].counts)
    <2> SUFFICES ASSUME NEW i \in 1..n PROVE stats[i].total = SumFunction(stats[i].counts)
      BY <1>7
    <2>1. stats[i] \in Series /\ Adds(stats[i])
      BY <1>7 DEF AddUpTo
    <2>2. DOMAIN stats[i].counts = 1..SeriesLength
      BY <2>1 DEF Series
    <2> QED BY <2>1, <2>2 DEF Adds, SumFunction
  <1> QED BY <1>11, <1>12, <1>13, <1>14 DEF stats, here

(* Why SeriesAgrees: the packages share out the rows.                      *)
LEMMA CountsAgree ==
    ASSUME CountInv, present \subseteq Versions
    PROVE  SeriesAgrees
  <1> DEFINE P == {Package[v] : v \in present}
             stats == [p \in P |-> get_crate_dl_stats(p)]
             members == [p \in P |-> RowsOf(p)]
             totals == [p \in P |-> Totals(stats[p])]
             lasts == [p \in P |-> Lasts(stats[p])]
             now == [v \in present |-> today[v]]
             counted == [v \in present |-> count[v]]
  <1>1. IsFiniteSet(present) /\ IsFiniteSet(P)
    <2>1. IsFiniteSet(present)
      BY VersionsAssumption, FS_Subset
    <2> DEFINE f == [v \in present |-> Package[v]]
    <2>2. f \in Surjection(present, P)
      BY DEF Surjection
    <2> HIDE DEF P, f
    <2> QED BY <2>1, <2>2, FS_Surjection
  <1>2. \A v \in present : count[v] \in Nat /\ TodaySlot[v] \in Nat /\ today[v] \in Nat /\ today[v] <= TodaySlot[v]
    <2>1. ordinal % SeriesLength \in 0..SeriesLength - 1
      BY SlotsRead DEF CountInv
    <2> QED BY <2>1 DEF CountInv, TodaySlot
  <1>3. \A p \in P : /\ \A i \in DOMAIN stats[p] : stats[p][i].total = SumFunction(stats[p][i].counts)
                     /\ totals[p] = SumFunctionOnSet(count, members[p])
                     /\ lasts[p] = SumFunctionOnSet(TodaySlot, members[p])
    BY PackageAgrees
  <1>4. (\A v \in present : Package[v] \in P) /\ \A p \in P : members[p] = {v \in present : Package[v] = p}
    BY DEF RowsOf
  <1>5. DOMAIN totals = P /\ DOMAIN lasts = P /\ DOMAIN now = present /\ DOMAIN counted = present
    OBVIOUS
  <1>6. SeriesAgrees <=>
           /\ SumFunction(totals) = SumFunction(counted)
           /\ \A p \in P : \A i \in DOMAIN stats[p] : stats[p][i].total = SumFunction(stats[p][i].counts)
           /\ SumFunction(lasts) >= SumFunction(now)
    BY DEF SeriesAgrees, total_downloads, Totals, Lasts
  <1>7. \A v \in present : counted[v] = count[v] /\ now[v] = today[v]
    OBVIOUS
  <1> HIDE DEF P, stats, members, totals, lasts, now, counted
  <1>8. SumFunctionOnSet(totals, P) = SumFunctionOnSet(count, present)
    BY <1>1, <1>2, <1>3, <1>4, SumByGroup
  <1>9. SumFunctionOnSet(lasts, P) = SumFunctionOnSet(TodaySlot, present)
    BY <1>1, <1>2, <1>3, <1>4, SumByGroup
  <1>10. SumFunctionOnSet(counted, present) = SumFunctionOnSet(count, present)
    BY <1>1, <1>2, <1>7, SumSame
  <1>11. SumFunctionOnSet(now, present) <= SumFunctionOnSet(TodaySlot, present)
    BY <1>1, <1>2, <1>7, SumMonotone
  <1>12. SumFunctionOnSet(now, present) \in Nat /\ SumFunctionOnSet(TodaySlot, present) \in Nat
    BY <1>1, <1>2, <1>7, SumType
  <1>13. SumFunctionOnSet(lasts, P) >= SumFunctionOnSet(now, present)
    BY <1>9, <1>11, <1>12
  <1> QED BY <1>3, <1>5, <1>6, <1>8, <1>10, <1>13 DEF SumFunction

-----------------------------------------------------------------------------
(* The counters                                                            *)

LEMMA SlotsFinite ==
    IsFiniteSet(0..SeriesLength - 1) /\ \A n \in Nat : n % SeriesLength \in 0..SeriesLength - 1
  <1>1. SeriesLength \in Nat \ {0}
    BY SeriesAssumption
  <1>2. 0 \in Int /\ SeriesLength - 1 \in Int
    BY <1>1
  <1> QED BY <1>1, <1>2, FS_Interval

LEMMA DownloadsType ==
    ASSUME NEW S, NEW events \in Seq(S), NEW v
    PROVE  DownloadsIn(events, v) \in Nat
  <1>1. IsFiniteSet(DOMAIN events)
    <2>1. DOMAIN events = 1..Len(events) /\ Len(events) \in Int /\ 1 \in Int
      BY LenProperties
    <2> QED BY <2>1, FS_Interval
  <1>2. {i \in DOMAIN events : events[i] = CrateDownload(v)} \in SUBSET DOMAIN events
    OBVIOUS
  <1>3. IsFiniteSet({i \in DOMAIN events : events[i] = CrateDownload(v)})
    BY <1>1, <1>2, FS_Subset
  <1> QED BY <1>3, FS_CardinalityType DEF DownloadsIn

(* At first there is nothing to add up.                                    *)
LEMMA NothingCounted ==
    ASSUME EventsInit, ordinal \in Nat
    PROVE  CountInv
  <1> DEFINE D == 0..SeriesLength - 1
             none == [i \in D |-> 0]
  <1>1. SumFunction(none) = 0
    <2>1. IsFiniteSet(D) /\ DOMAIN none = D /\ \A i \in D : none[i] = 0
      BY SlotsFinite
    <2> HIDE DEF D, none
    <2> QED BY <2>1, SumZero DEF SumFunction
  <1>2. /\ \A v \in Versions : slots[v] = none /\ count[v] = 0 /\ today[v] = 0
        /\ slots \in [Versions -> [D -> Nat]] /\ count \in [Versions -> Nat] /\ today \in [Versions -> Nat]
    BY DEF EventsInit, Zero
  <1>3. ordinal % SeriesLength \in D
    BY SlotsFinite
  <1>4. none[ordinal % SeriesLength] = 0
    BY <1>3
  <1> HIDE DEF none
  <1>5. \A v \in Versions : today[v] <= slots[v][ordinal % SeriesLength]
    BY <1>2, <1>4
  <1> QED BY <1>1, <1>2, <1>5 DEF CountInv

LEMMA CountsKept ==
    ASSUME CountInv, UNCHANGED <<count, slots, ordinal, today>>
    PROVE  CountInv'
  BY DEF CountInv

(* A download that is counted adds one to the counter of its version and   *)
(* one to the slot of the day.                                             *)
LEMMA CountedTwice ==
    ASSUME CountInv, NEW S, batch \in Seq(S), IncrementAll(Versions), UNCHANGED ordinal
    PROVE  CountInv'
  <1> DEFINE D == 0..SeriesLength - 1
             k == ordinal % SeriesLength
             more(v) == DownloadsIn(batch, v)
  <1>1. /\ ordinal \in Nat /\ k \in D
        /\ \A v \in Versions : /\ count[v] \in Nat /\ today[v] \in Nat /\ slots[v] \in [D -> Nat]
                               /\ SumFunction(slots[v]) = count[v] /\ today[v] <= slots[v][k]
    BY SlotsFinite DEF CountInv
  <1>2. \A v : more(v) \in Nat
    BY DownloadsType
  <1>3. /\ count' = [v \in Versions |-> count[v] + more(v)]
        /\ slots' = [v \in Versions |-> [slots[v] EXCEPT ![k] = @ + more(v)]]
        /\ today' = [v \in Versions |-> today[v] + more(v)]
    BY DEF IncrementAll
  <1> HIDE DEF more, k, D
  <1>4. ASSUME NEW v \in Versions
        PROVE  /\ slots'[v] \in [D -> Nat] /\ SumFunction(slots'[v]) = count'[v]
               /\ today'[v] <= slots'[v][k]
    <2> DEFINE f == slots[v]
               g == slots'[v]
               d == more(v)
    <2>1. d \in Nat /\ f \in [D -> Nat] /\ g = [f EXCEPT ![k] = @ + d]
      BY <1>1, <1>2, <1>3
    <2>2. count[v] = SumFunction(f) /\ count'[v] = count[v] + d /\ today'[v] = today[v] + d
          /\ today[v] \in Nat /\ today[v] <= f[k]
      BY <1>1, <1>3
    <2> HIDE DEF f, g, d
    <2>3. /\ DOMAIN g = D /\ DOMAIN f = D /\ g[k] = f[k] + d /\ \A i \in D \ {k} : g[i] = f[i]
          /\ \A i \in D : f[i] \in Nat
      BY <1>1, <2>1
    <2>4. SumFunctionOnSet(g, D) = SumFunctionOnSet(f, D) + d
      <3>1. IsFiniteSet(D)
        BY SlotsFinite DEF D
      <3>2. k \in D /\ d \in Nat
        BY <1>1, <2>1
      <3> QED BY <2>3, <3>1, <3>2, SumIncremented
    <2>5. SumFunction(g) = SumFunction(f) + d
      BY <2>3, <2>4 DEF SumFunction
    <2>6. today'[v] <= g[k]
      BY <1>1, <2>1, <2>2, <2>3
    <2>7. g \in [D -> Nat]
      BY <1>1, <2>1, <2>3
    <2> QED BY <2>2, <2>5, <2>6, <2>7 DEF g
  <1>5. /\ count' \in [Versions -> Nat] /\ today' \in [Versions -> Nat]
        /\ slots' \in [Versions -> [D -> Nat]]
    <2>1. \A v \in Versions : count[v] + more(v) \in Nat /\ today[v] + more(v) \in Nat
      BY <1>1, <1>2
    <2>2. slots' = [v \in Versions |-> slots'[v]]
      BY <1>3
    <2> QED BY <1>3, <1>4, <2>1, <2>2
  <1>6. ordinal' = ordinal /\ (ordinal % SeriesLength)' = k
    BY DEF k
  <1> QED BY <1>1, <1>4, <1>5, <1>6 DEF CountInv, D, k

LEMMA EventsCountStep ==
    ASSUME CountInv, NEW S, batch \in Seq(S), EventsNext
    PROVE  CountInv'
  <1>1. CASE \E r \in Requests : Begin(r) \/ RequestNext(r) \/ Disconnect(r)
    <2>1. UNCHANGED <<count, slots, ordinal, today>>
      BY <1>1 DEF Begin, RequestNext, Connect, ConnectTimesOut, authenticate_token, CheckCrateExists,
                  RemoveCrateVersion, ServeContent, Disconnect
    <2> QED BY <2>1, CountsKept
  <1>2. CASE Receive \/ HandlerTimesOut
    <2>1. UNCHANGED <<count, slots, ordinal, today>>
      BY <1>2 DEF Receive, HandlerTimesOut, GiveUp
    <2> QED BY <2>1, CountsKept
  <1>3. CASE events_handler_handle
    <2>1. ordinal' = ordinal /\ (IncrementAll(Versions) \/ UNCHANGED <<count, slots, today>>)
      BY <1>3 DEF events_handler_handle, HandleApplies, GiveUp
    <2> QED BY <2>1, CountedTwice, CountsKept
  <1>4. CASE NextDay
    <2>1. /\ ordinal' = (ordinal + 1) % DaysInYear /\ today' = Zero /\ UNCHANGED <<count, slots>>
      BY <1>4 DEF NextDay
    <2>2. ordinal' \in Nat
      <3>1. ordinal + 1 \in Nat /\ DaysInYear \in Nat \ {0}
        BY SeriesAssumption DEF CountInv
      <3> QED BY <2>1, <3>1
    <2>3. ordinal' % SeriesLength \in 0..SeriesLength - 1
      BY <2>2, SlotsFinite
    <2>4. \A v \in Versions : slots[v][ordinal' % SeriesLength] \in Nat /\ today'[v] = 0
      BY <2>1, <2>3 DEF CountInv, Zero
    <2>5. \A v \in Versions : today'[v] <= slots'[v][ordinal' % SeriesLength]
      BY <2>1, <2>4
    <2>6. today' \in [Versions -> Nat]
      BY <2>1 DEF Zero
    <2> QED BY <2>1, <2>2, <2>5, <2>6 DEF CountInv
  <1> QED BY <1>1, <1>2, <1>3, <1>4 DEF EventsNext, HandlerNext

-----------------------------------------------------------------------------
(* Where the downloads are                                                 *)

LEMMA NoDownloads == \A v : DownloadsIn(<< >>, v) = 0
  BY FS_EmptySet DEF DownloadsIn

(* The downloads of two lists, one after the other.                        *)
LEMMA DownloadsJoin ==
    ASSUME NEW S, NEW s \in Seq(S), NEW t \in Seq(S), NEW v
    PROVE  DownloadsIn(s \o t, v) = DownloadsIn(s, v) + DownloadsIn(t, v)
  <1> DEFINE e == CrateDownload(v)
             m == Len(s)
             n == Len(t)
             st == s \o t
             A == {i \in DOMAIN s : s[i] = e}
             B == {i \in DOMAIN t : t[i] = e}
             C == {i \in m + 1..m + n : st[i] = e}
             shift == [i \in B |-> m + i]
  <1>1. m \in Nat /\ n \in Nat /\ DOMAIN s = 1..m /\ DOMAIN t = 1..n
    BY LenProperties
  <1>2. /\ DOMAIN st = 1..m + n
        /\ \A i \in 1..m + n : st[i] = IF i <= m THEN s[i] ELSE t[i - m]
    BY ConcatProperties, LenProperties
  <1> HIDE DEF st, m, n, e
  <1>3. {i \in DOMAIN st : st[i] = e} = A \cup C /\ A \cap C = {}
    BY <1>1, <1>2
  <1>4. IsFiniteSet(A) /\ IsFiniteSet(B)
    <2>1. IsFiniteSet(1..m) /\ IsFiniteSet(1..n)
      BY <1>1, FS_Interval
    <2>2. A \in SUBSET (1..m) /\ B \in SUBSET (1..n)
      BY <1>1
    <2> HIDE DEF A, B
    <2> QED BY <2>1, <2>2, FS_Subset
  <1>5. shift \in Bijection(B, C)
    <2>1. \A i \in B : m + i \in C
      BY <1>1, <1>2
    <2>2. \A i, k \in B : m + i = m + k => i = k
      BY <1>1
    <2>3. ASSUME NEW k \in C PROVE k - m \in B /\ m + (k - m) = k
      BY <1>1, <1>2
    <2>4. \A k \in C : \E i \in B : shift[i] = k
      BY <2>3
    <2> HIDE DEF B, C
    <2> QED BY <2>1, <2>2, <2>4 DEF Bijection, Injection, Surjection, IsInjective
  <1> HIDE DEF A, B, C, shift
  <1>6. IsFiniteSet(C) /\ Cardinality(C) = Cardinality(B)
    <2>1. ExistsBijection(B, C)
      BY <1>5 DEF ExistsBijection
    <2> QED BY <1>4, <2>1, FS_Bijection
  <1>7. Cardinality(A \cup C) = Cardinality(A) + Cardinality(C)
    <2>1. Cardinality(A \cap C) = 0 /\ Cardinality(A) \in Nat /\ Cardinality(C) \in Nat
      BY <1>3, <1>4, <1>6, FS_EmptySet, FS_CardinalityType
    <2>2. Cardinality(A \cup C) = Cardinality(A) + Cardinality(C) - Cardinality(A \cap C)
      BY <1>4, <1>6, FS_Union
    <2> QED BY <2>1, <2>2
  <1> QED BY <1>3, <1>6, <1>7 DEF DownloadsIn, A, B, st, e

(* What an event that is sent adds to the downloads of a list.             *)
LEMMA DownloadsAppend ==
    ASSUME NEW S, NEW s \in Seq(S), NEW x \in S, NEW v
    PROVE  DownloadsIn(Append(s, x), v) =
              DownloadsIn(s, v) + IF x = CrateDownload(v) THEN 1 ELSE 0
  <1> DEFINE one == <<x>>
  <1>1. one \in Seq(S) /\ Append(s, x) = s \o one
    BY AppendIsConcat
  <1>2. DownloadsIn(one, v) = IF x = CrateDownload(v) THEN 1 ELSE 0
    <2>1. {i \in DOMAIN one : one[i] = CrateDownload(v)} = IF x = CrateDownload(v) THEN {1} ELSE {}
      OBVIOUS
    <2>2. Cardinality({1}) = 1 /\ Cardinality({}) = 0
      BY FS_EmptySet, FS_Singleton
    <2> HIDE DEF one
    <2> QED BY <2>1, <2>2 DEF DownloadsIn
  <1> HIDE DEF one
  <1> QED BY <1>1, <1>2, DownloadsJoin

(* A list cut in two.                                                      *)
LEMMA DownloadsCut ==
    ASSUME NEW S, NEW s \in Seq(S), NEW n \in 0..Len(s), NEW v
    PROVE  DownloadsIn(s, v) = DownloadsIn(SubSeq(s, 1, n), v) + DownloadsIn(SubSeq(s, n + 1, Len(s)), v)
  <1> DEFINE a == SubSeq(s, 1, n)
             b == SubSeq(s, n + 1, Len(s))
  <1>1. Len(s) \in Nat /\ n \in Nat /\ n <= Len(s) /\ \A i \in 1..Len(s) : s[i] \in S
    BY LenProperties, ElementOfSeq
  <1>2. a \in Seq(S) /\ Len(a) = n /\ \A i \in 1..n : a[i] = s[i]
    <2>1. \A i \in 1..n : s[i] \in S
      BY <1>1
    <2>2. /\ a \in Seq(S) /\ Len(a) = IF 1 <= n THEN n - 1 + 1 ELSE 0
          /\ \A i \in 1..n - 1 + 1 : a[i] = s[1 + i - 1]
      BY <2>1, SubSeqProperties, 1 \in Int, n \in Int
    <2> HIDE DEF a
    <2> QED BY <1>1, <2>2
  <1>3. b \in Seq(S) /\ Len(b) = Len(s) - n /\ \A i \in 1..Len(s) - n : b[i] = s[n + i]
    <2>1. \A i \in n + 1..Len(s) : s[i] \in S
      BY <1>1
    <2>2. /\ b \in Seq(S) /\ Len(b) = IF n + 1 <= Len(s) THEN Len(s) - (n + 1) + 1 ELSE 0
          /\ \A i \in 1..Len(s) - (n + 1) + 1 : b[i] = s[n + 1 + i - 1]
      BY <1>1, <2>1, SubSeqProperties, n + 1 \in Int, Len(s) \in Int
    <2> HIDE DEF b
    <2> QED BY <1>1, <2>2
  <1> HIDE DEF a, b
  <1>4. /\ a \o b \in Seq(S) /\ Len(a \o b) = Len(s)
        /\ \A i \in 1..Len(s) : (a \o b)[i] = s[i]
    <2>1. /\ a \o b \in Seq(S) /\ Len(a \o b) = Len(a) + Len(b)
          /\ \A i \in 1..Len(a) + Len(b) : (a \o b)[i] = IF i <= Len(a) THEN a[i] ELSE b[i - Len(a)]
      BY <1>2, <1>3, ConcatProperties
    <2>2. Len(a) + Len(b) = Len(s)
      BY <1>1, <1>2, <1>3
    <2>3. ASSUME NEW i \in 1..Len(s) PROVE (a \o b)[i] = s[i]
      <3>1. CASE i <= n
        BY <1>1, <1>2, <2>1, <2>2, <3>1
      <3>2. CASE ~(i <= n)
        <4>1. i - n \in 1..Len(s) - n /\ n + (i - n) = i
          BY <1>1, <3>2
        <4> QED BY <1>2, <1>3, <2>1, <2>2, <3>2, <4>1
      <3> QED BY <3>1, <3>2
    <2> QED BY <2>1, <2>2, <2>3
  <1>5. a \o b = s
    BY <1>4, SeqEqual
  <1>6. DownloadsIn(a \o b, v) = DownloadsIn(a, v) + DownloadsIn(b, v)
    BY <1>2, <1>3, DownloadsJoin
  <1> QED BY <1>5, <1>6 DEF a, b

LEMMA NothingServed == EventsInit => CountedOnce
  <1> SUFFICES ASSUME EventsInit PROVE CountedOnce
    OBVIOUS
  <1>1. \A v \in Versions : count[v] = 0 /\ served[v] = 0 /\ lost[v] = 0
    BY DEF EventsInit, Zero
  <1>2. served \in [Versions -> Nat] /\ lost \in [Versions -> Nat] /\ batch = << >> /\ channel = << >>
    BY DEF EventsInit, Zero
  <1> QED BY <1>1, <1>2, NoDownloads DEF CountedOnce

(* How many downloads are where, in numbers.                               *)
LEMMA Places ==
    ASSUME CountInv, CountedOnce, channel \in Seq(Event), batch \in Seq(Event)
    PROVE  \A v \in Versions :
              /\ count[v] \in Nat /\ lost[v] \in Nat /\ served[v] \in Nat
              /\ DownloadsIn(batch, v) \in Nat /\ DownloadsIn(channel, v) \in Nat
              /\ served[v] = count[v] + lost[v] + DownloadsIn(batch, v) + DownloadsIn(channel, v)
  BY DownloadsType DEF CountInv, CountedOnce

(* A download that is answered goes to the channel, any other event does   *)
(* not count.                                                              *)
LEMMA SendPlaces ==
    ASSUME CountInv, CountedOnce, channel \in Seq(Event), batch \in Seq(Event),
           NEW x \in Event, channel' = Append(channel, x), UNCHANGED <<batch, count, lost>>,
           served' = [v \in Versions |-> served[v] + IF x = CrateDownload(v) THEN 1 ELSE 0]
    PROVE  CountedOnce'
  <1>1. ASSUME NEW v \in Versions
        PROVE  served'[v] = (count[v] + lost[v] + DownloadsIn(batch, v) + DownloadsIn(channel', v))
    <2> DEFINE d == IF x = CrateDownload(v) THEN 1 ELSE 0
    <2>1. DownloadsIn(Append(channel, x), v) = DownloadsIn(channel, v) + d
      BY DownloadsAppend
    <2>2. served'[v] = served[v] + d /\ d \in Nat
      OBVIOUS
    <2>3. DownloadsIn(channel', v) = DownloadsIn(channel, v) + d
      BY <2>1
    <2>4. /\ count[v] \in Nat /\ lost[v] \in Nat /\ DownloadsIn(batch, v) \in Nat
          /\ DownloadsIn(channel, v) \in Nat
          /\ served[v] = count[v] + lost[v] + DownloadsIn(batch, v) + DownloadsIn(channel, v)
      BY Places
    <2> HIDE DEF d
    <2> QED BY <2>2, <2>3, <2>4
  <1>2. served' \in [Versions -> Nat]
    BY Places
  <1> QED BY <1>1, <1>2 DEF CountedOnce

(* A batch is cut off the channel.                                         *)
LEMMA ReceivePlaces ==
    ASSUME CountInv, CountedOnce, channel \in Seq(Event), batch \in Seq(Event), Receive
    PROVE  CountedOnce'
  <1> PICK n \in 0..Len(channel) :
        batch' = SubSeq(channel, 1, n) /\ channel' = SubSeq(channel, n + 1, Len(channel))
    <2>1. Len(channel) \in Nat
      BY LenProperties
    <2> DEFINE n == IF Len(channel) < BufferSize THEN Len(channel) ELSE BufferSize
    <2>2. n \in 0..Len(channel)
      BY <2>1, CapacityAssumption
    <2>3. batch' = SubSeq(channel, 1, n) /\ channel' = SubSeq(channel, n + 1, Len(channel))
      BY DEF Receive
    <2> HIDE DEF n
    <2> QED BY <2>2, <2>3
  <1>1. batch = << >> /\ UNCHANGED <<count, lost, served>>
    BY DEF Receive
  <1>2. ASSUME NEW v \in Versions
        PROVE  served[v] = count[v] + lost[v] + DownloadsIn(batch', v) + DownloadsIn(channel', v)
    <2>1. DownloadsIn(channel, v) = DownloadsIn(batch', v) + DownloadsIn(channel', v)
      BY DownloadsCut
    <2>2. batch' \in Seq(Event) /\ channel' \in Seq(Event)
      <3>1. \A i \in 1..Len(channel) : channel[i] \in Event
        BY ElementOfSeq
      <3>2. Len(channel) \in Nat
        BY LenProperties
      <3>3. 1 \in Int /\ n \in Int /\ n + 1 \in Int /\ Len(channel) \in Int
            /\ (\A i \in 1..n : channel[i] \in Event) /\ \A i \in n + 1..Len(channel) : channel[i] \in Event
        BY <3>1, <3>2
      <3> QED BY <3>3, SubSeqProperties
    <2>3. DownloadsIn(batch', v) \in Nat /\ DownloadsIn(channel', v) \in Nat
      BY <2>2, DownloadsType
    <2>4. DownloadsIn(batch, v) = 0
      BY <1>1, NoDownloads
    <2> QED BY <2>1, <2>3, <2>4, Places
  <1> QED BY <1>1, <1>2 DEF CountedOnce

(* A batch is counted, or given up.                                        *)
LEMMA HandlePlaces ==
    ASSUME CountInv, CountedOnce, channel \in Seq(Event), batch \in Seq(Event),
           batch' = << >>, UNCHANGED <<channel, served>>,
           (IncrementAll(Versions) /\ UNCHANGED lost) \/ GiveUp
    PROVE  CountedOnce'
  <1>1. CASE IncrementAll(Versions) /\ UNCHANGED lost
    <2>1. \A v \in Versions : count'[v] = count[v] + DownloadsIn(batch, v)
      BY <1>1 DEF IncrementAll
    <2>2. ASSUME NEW v \in Versions
          PROVE  served[v] = count'[v] + lost[v] + DownloadsIn(<< >>, v) + DownloadsIn(channel, v)
      BY <2>1, NoDownloads, Places
    <2> QED BY <1>1, <2>2 DEF CountedOnce
  <1>2. CASE GiveUp
    <2>1. lost' = [v \in Versions |-> lost[v] + DownloadsIn(batch, v)] /\ UNCHANGED count
      BY <1>2 DEF GiveUp
    <2>2. ASSUME NEW v \in Versions
          PROVE  served[v] = count[v] + lost'[v] + DownloadsIn(<< >>, v) + DownloadsIn(channel, v)
      BY <2>1, NoDownloads, Places
    <2>3. lost' \in [Versions -> Nat]
      BY <2>1, Places
    <2> QED BY <2>1, <2>2, <2>3 DEF CountedOnce
  <1> QED BY <1>1, <1>2

(* What is in the channel and in the batch is lost in a restart.           *)
LEMMA RestartPlaces ==
    ASSUME CountInv, CountedOnce, channel \in Seq(Event), batch \in Seq(Event),
           channel' = << >>, batch' = << >>, UNCHANGED <<count, served>>,
           lost' = [v \in Versions |-> lost[v] + DownloadsIn(channel \o batch, v)]
    PROVE  CountedOnce'
  <1>1. ASSUME NEW v \in Versions
        PROVE  /\ lost'[v] \in Nat
               /\ served[v] = count[v] + lost'[v] + DownloadsIn(<< >>, v) + DownloadsIn(<< >>, v)
    <2>1. DownloadsIn(channel \o batch, v) = DownloadsIn(channel, v) + DownloadsIn(batch, v)
      BY DownloadsJoin
    <2>2. lost'[v] = lost[v] + (DownloadsIn(channel, v) + DownloadsIn(batch, v))
      BY <2>1
    <2> QED BY <2>2, NoDownloads, Places
  <1>2. lost' \in [Versions -> Nat]
    <2>1. lost' = [v \in Versions |-> lost'[v]]
      OBVIOUS
    <2> QED BY <1>1, <2>1
  <1> QED BY <1>1, <1>2 DEF CountedOnce

LEMMA EventsPlacesStep ==
    ASSUME CountInv, CountedOnce, channel \in Seq(Event), batch \in Seq(Event),
           \A r \in Requests : requests[r].version \in Versions, EventsNext
    PROVE  CountedOnce'
  <1>1. ASSUME UNCHANGED <<channel, batch, count, served, lost>>
        PROVE  CountedOnce'
    BY <1>1 DEF CountedOnce
  <1>2. CASE \E r \in Requests : Begin(r) \/ Connect(r) \/ ConnectTimesOut(r) \/ CheckCrateExists(r)
                                   \/ RemoveCrateVersion(r) \/ Disconnect(r)
    BY <1>1, <1>2 DEF Begin, Connect, ConnectTimesOut, CheckCrateExists, RemoveCrateVersion, Disconnect
  <1>3. ASSUME NEW r \in Requests, authenticate_token(r) PROVE CountedOnce'
    <2>1. CASE UNCHANGED channel
      BY <1>1, <1>3, <2>1 DEF authenticate_token
    <2>2. CASE Send(TokenUse)
      <3>1. \A v : TokenUse # CrateDownload(v)
        BY DEF TokenUse, CrateDownload
      <3>2. served' = [v \in Versions |-> served[v] + IF TokenUse = CrateDownload(v) THEN 1 ELSE 0]
        <4>1. served \in [Versions -> Nat] /\ served' = served
          BY <1>3 DEF authenticate_token, CountedOnce
        <4> QED BY <3>1, <4>1
      <3>3. channel' = Append(channel, TokenUse) /\ TokenUse \in Event /\ UNCHANGED <<batch, count, lost>>
        BY <1>3, <2>2 DEF Send, Event, authenticate_token
      <3> QED BY <3>2, <3>3, SendPlaces
    <2> QED BY <1>3, <2>1, <2>2 DEF authenticate_token
  <1>4. ASSUME NEW r \in Requests, ServeContent(r) PROVE CountedOnce'
    <2> DEFINE w == requests[r].version
    <2>1. /\ w \in Versions /\ channel' = Append(channel, CrateDownload(w)) /\ CrateDownload(w) \in Event
          /\ served' = [served EXCEPT ![w] = @ + 1] /\ UNCHANGED <<batch, count, lost>>
      BY <1>4 DEF ServeContent, Send, Event
    <2>2. \A v : CrateDownload(w) = CrateDownload(v) <=> v = w
      BY DEF CrateDownload
    <2> HIDE DEF w
    <2>3. served' = [v \in Versions |-> served[v] + IF CrateDownload(w) = CrateDownload(v) THEN 1 ELSE 0]
      <3>1. served \in [Versions -> Nat]
        BY DEF CountedOnce
      <3>2. \A v \in Versions : served[v] \in Nat
        BY <3>1
      <3>3. \A v \in Versions : served'[v] = IF v = w THEN served[v] + 1 ELSE served[v]
        BY <2>1, <3>1
      <3>4. \A v \in Versions : served'[v] = served[v] + IF v = w THEN 1 ELSE 0
        BY <3>2, <3>3
      <3>5. served' = [v \in Versions |-> served'[v]]
        BY <2>1, <3>1
      <3> QED BY <2>2, <3>4, <3>5
    <2> QED BY <2>1, <2>3, SendPlaces
  <1>5. CASE events_handler_handle \/ HandlerTimesOut
    <2>1. /\ batch' = << >> /\ UNCHANGED <<channel, served>>
          /\ (IncrementAll(Versions) /\ UNCHANGED lost) \/ GiveUp
      BY <1>5 DEF events_handler_handle, HandlerTimesOut, HandleApplies
    <2> QED BY <2>1, HandlePlaces
  <1>6. CASE NextDay
    BY <1>1, <1>6 DEF NextDay
  <1> QED BY <1>2, <1>3, <1>4, <1>5, <1>6, ReceivePlaces DEF EventsNext, RequestNext, HandlerNext
=============================================================================
