---------------------------- MODULE GraphProofs -----------------------------
(***************************************************************************)
(* Proofs about the graph that Deps closes, for any dependencies, any      *)
(* registries and whatever they answer.                                    *)
(***************************************************************************)
EXTENDS Deps, FiniteSetTheorems, SequenceTheorems, VecLemmas, TLAPS

-----------------------------------------------------------------------------
(* Vectors                                                                 *)

LEMMA VectorIndices ==
    ASSUME NEW s, IsVector(s)
    PROVE  /\ Len(s) \in Nat /\ DOMAIN s = 1..Len(s)
           /\ \A x : x \in Range(s) <=> \E i \in DOMAIN s : x = s[i]
  <1>1. s \in Seq(Range(s))
    BY DEF IsVector
  <1>2. Len(s) \in Nat /\ DOMAIN s = 1..Len(s)
    <2> HIDE DEF Range
    <2> QED BY <1>1, LenProperties
  <1> QED BY <1>2 DEF Range

LEMMA MadeVector ==
    ASSUME NEW n \in Nat, NEW t, DOMAIN t = 1..n, t = [i \in DOMAIN t |-> t[i]]
    PROVE  IsVector(t) /\ Len(t) = n
  <1>1. t \in [1..n -> Range(t)]
    BY DEF Range
  <1>2. t \in Seq(Range(t))
    BY <1>1, SeqDef
  <1> QED BY <1>1, <1>2, LenProperties DEF IsVector

LEMMA AppendVector ==
    ASSUME NEW s, IsVector(s), NEW x
    PROVE  /\ IsVector(Append(s, x))
           /\ Len(s) \in Nat /\ DOMAIN s = 1..Len(s)
           /\ DOMAIN Append(s, x) = 1..(Len(s) + 1)
           /\ \A i \in DOMAIN s : Append(s, x)[i] = s[i]
           /\ Append(s, x)[Len(s) + 1] = x
  <1> DEFINE S == Range(s) \cup {x}
  <1>1. Len(s) \in Nat /\ DOMAIN s = 1..Len(s)
    BY VectorIndices
  <1>2. s \in Seq(S) /\ x \in S
    BY <1>1, SeqDef DEF IsVector, Range
  <1>3. /\ Append(s, x) \in Seq(S) /\ Len(Append(s, x)) = Len(s) + 1
        /\ \A i \in 1..Len(s) : Append(s, x)[i] = s[i]
        /\ Append(s, x)[Len(s) + 1] = x
    BY <1>2, AppendProperties
  <1>4. DOMAIN Append(s, x) = 1..(Len(s) + 1)
    BY <1>3, LenProperties
  <1>5. Append(s, x) = [i \in DOMAIN Append(s, x) |-> Append(s, x)[i]]
    <2>1. Append(s, x) \in [1..Len(Append(s, x)) -> S]
      <3> HIDE DEF S
      <3> QED BY <1>3, LenProperties
    <2> QED BY <2>1
  <1>6. Len(s) + 1 \in Nat
    BY <1>1
  <1>7. IsVector(Append(s, x))
    BY <1>4, <1>5, <1>6, MadeVector
  <1> QED BY <1>1, <1>3, <1>4, <1>7

LEMMA AppendRange ==
    ASSUME NEW s, IsVector(s), NEW x
    PROVE  IsVector(Append(s, x)) /\ Range(Append(s, x)) = Range(s) \cup {x}
  <1>1. /\ IsVector(Append(s, x)) /\ Len(s) \in Nat /\ DOMAIN s = 1..Len(s)
        /\ DOMAIN Append(s, x) = 1..(Len(s) + 1)
        /\ \A i \in DOMAIN s : Append(s, x)[i] = s[i]
        /\ Append(s, x)[Len(s) + 1] = x
    BY AppendVector
  <1>2. \A i : i \in 1..(Len(s) + 1) <=> i \in 1..Len(s) \/ i = Len(s) + 1
    BY <1>1
  <1> QED BY <1>1, <1>2 DEF Range

LEMMA ExceptVector ==
    ASSUME NEW s, IsVector(s), NEW k \in DOMAIN s, NEW x
    PROVE  /\ IsVector([s EXCEPT ![k] = x]) /\ DOMAIN [s EXCEPT ![k] = x] = DOMAIN s
           /\ [s EXCEPT ![k] = x][k] = x
           /\ \A i \in DOMAIN s : i # k => [s EXCEPT ![k] = x][i] = s[i]
  <1>1. Len(s) \in Nat /\ DOMAIN s = 1..Len(s)
    BY VectorIndices
  <1> DEFINE t == [s EXCEPT ![k] = x]
  <1>2. DOMAIN t = 1..Len(s) /\ t = [i \in DOMAIN t |-> t[i]]
    BY <1>1
  <1>3. IsVector(t)
    BY <1>1, <1>2, MadeVector
  <1> QED BY <1>3

LEMMA TailVector ==
    ASSUME NEW s, IsVector(s), s # << >>
    PROVE  /\ IsVector(Tail(s)) /\ Head(s) \in Range(s)
           /\ \A x : x \in Range(s) <=> x = Head(s) \/ x \in Range(Tail(s))
  <1>1. s \in Seq(Range(s)) /\ Len(s) \in Nat /\ DOMAIN s = 1..Len(s)
    BY VectorIndices DEF IsVector
  <1>2. Len(s) # 0
    <2> HIDE DEF Range
    <2> QED BY <1>1, EmptySeq
  <1>3. /\ Head(s) = s[1] /\ Tail(s) \in Seq(Range(s)) /\ Len(Tail(s)) = Len(s) - 1
        /\ \A i \in 1..Len(Tail(s)) : Tail(s)[i] = s[i + 1]
    <2> HIDE DEF Range
    <2> QED BY <1>1, <1>2, HeadTailProperties
  <1>4. DOMAIN Tail(s) = 1..(Len(s) - 1) /\ Tail(s) = [i \in DOMAIN Tail(s) |-> Tail(s)[i]]
    <2> HIDE DEF Range
    <2> QED BY <1>3, SeqDef, LenProperties
  <1>5. IsVector(Tail(s))
    <2>1. Len(s) - 1 \in Nat
      BY <1>1, <1>2
    <2> QED BY <2>1, <1>4, MadeVector
  <1>6. \A i \in 1..Len(s) : i = 1 \/ (i - 1 \in 1..(Len(s) - 1) /\ (i - 1) + 1 = i)
    BY <1>1
  <1>7. \A i \in 1..(Len(s) - 1) : i + 1 \in 1..Len(s)
    BY <1>1
  <1>8. \A x : x \in Range(s) <=> x = Head(s) \/ x \in Range(Tail(s))
    <2>1. 1 \in 1..Len(s)
      BY <1>1, <1>2
    <2>2. ASSUME NEW x \in Range(s) PROVE x = Head(s) \/ x \in Range(Tail(s))
      <3>1. PICK i \in 1..Len(s) : x = s[i]
        BY <1>1 DEF Range
      <3>2. CASE i - 1 \in 1..(Len(s) - 1) /\ (i - 1) + 1 = i
        <4>1. Tail(s)[i - 1] = s[i]
          BY <1>3, <3>2
        <4> QED BY <3>1, <3>2, <4>1, <1>4 DEF Range
      <3> QED BY <1>3, <1>6, <3>1, <3>2
    <2>3. ASSUME NEW x \in Range(Tail(s)) PROVE x \in Range(s)
      <3>1. PICK i \in 1..(Len(s) - 1) : x = Tail(s)[i]
        BY <1>4 DEF Range
      <3>2. x = s[i + 1] /\ i + 1 \in 1..Len(s)
        BY <1>3, <1>7, <3>1
      <3> QED BY <3>2, <1>1 DEF Range
    <2>4. Head(s) \in Range(s)
      BY <2>1, <1>1, <1>3 DEF Range
    <2> QED BY <2>2, <2>3, <2>4
  <1> QED BY <1>5, <1>8

LEMMA FrontVector ==
    ASSUME NEW s, IsVector(s), s # << >>
    PROVE  /\ IsVector(Front(s)) /\ Last(s) \in Range(s)
           /\ \A x : x \in Range(s) <=> x = Last(s) \/ x \in Range(Front(s))
  <1>1. s \in Seq(Range(s)) /\ Len(s) \in Nat /\ DOMAIN s = 1..Len(s)
    BY VectorIndices DEF IsVector
  <1>2. Len(s) # 0
    <2> HIDE DEF Range
    <2> QED BY <1>1, EmptySeq
  <1>3. /\ DOMAIN Front(s) = 1..(Len(s) - 1) /\ \A i \in 1..(Len(s) - 1) : Front(s)[i] = s[i]
        /\ Front(s) = [i \in DOMAIN Front(s) |-> Front(s)[i]]
    <2>1. \A i \in 1..(Len(s) - 1) : s[i] \in Range(s)
      BY <1>1 DEF Range
    <2>2. 1 \in Int /\ Len(s) - 1 \in Int
      BY <1>1
    <2>3. /\ Front(s) \in Seq(Range(s)) /\ Len(Front(s)) = Len(s) - 1
          /\ \A i \in 1..(Len(s) - 1) : Front(s)[i] = s[i]
      <3>1. /\ Front(s) \in Seq(Range(s))
            /\ Len(Front(s)) = IF 1 <= Len(s) - 1 THEN (Len(s) - 1) - 1 + 1 ELSE 0
            /\ \A i \in 1..((Len(s) - 1) - 1 + 1) : Front(s)[i] = s[1 + i - 1]
        <4> HIDE DEF Range
        <4> QED BY <2>1, <2>2, SubSeqProperties DEF Front
      <3>2. \A n \in Nat : n # 0 => /\ (IF 1 <= n - 1 THEN (n - 1) - 1 + 1 ELSE 0) = n - 1
                                    /\ (n - 1) - 1 + 1 = n - 1
                                    /\ \A i \in 1..(n - 1) : 1 + i - 1 = i
        OBVIOUS
      <3>3. /\ (IF 1 <= Len(s) - 1 THEN (Len(s) - 1) - 1 + 1 ELSE 0) = Len(s) - 1
            /\ (Len(s) - 1) - 1 + 1 = Len(s) - 1
            /\ \A i \in 1..(Len(s) - 1) : 1 + i - 1 = i
        <4> HIDE DEF Range
        <4> QED BY <1>1, <1>2, <3>2
      <3> HIDE DEF Range
      <3> QED BY <3>1, <3>3
    <2>4. DOMAIN Front(s) = 1..(Len(s) - 1) /\ Front(s) \in [1..(Len(s) - 1) -> Range(s)]
      <3> HIDE DEF Range
      <3> QED BY <2>3, LenProperties
    <2> QED BY <2>3, <2>4
  <1>4. IsVector(Front(s))
    <2>1. Len(s) - 1 \in Nat
      BY <1>1, <1>2
    <2> QED BY <2>1, <1>3, MadeVector
  <1>5. /\ Len(s) \in 1..Len(s) /\ Last(s) = s[Len(s)]
        /\ \A i \in 1..Len(s) : i = Len(s) \/ i \in 1..(Len(s) - 1)
        /\ \A i \in 1..(Len(s) - 1) : i \in 1..Len(s)
    <2>1. \A n \in Nat : n # 0 => /\ n \in 1..n /\ \A i \in 1..n : i = n \/ i \in 1..(n - 1)
                                  /\ \A i \in 1..(n - 1) : i \in 1..n
      OBVIOUS
    <2> QED BY <2>1, <1>1, <1>2 DEF Last
  <1> QED BY <1>1, <1>3, <1>4, <1>5 DEF Range

-----------------------------------------------------------------------------
(* What the loops over features and dependencies compute                   *)

(* Each round of Reaching adds what the features reached so far ask for.   *)
LEMMA ReachingSteps ==
    ASSUME NEW version, NEW from, NEW all, all = from \cup KnownFeatures(version), IsFiniteSet(all)
    PROVE  /\ Reaching(version, from)[0] = from
           /\ \A i \in 1..Cardinality(all) :
                 Reaching(version, from)[i] = Reaching(version, from)[i - 1] \cup
                     UNION {get_feature(version, f) : f \in Reaching(version, from)[i - 1]}
           /\ \A i \in 0..Cardinality(all) : Reaching(version, from)[i] \in SUBSET all
  <1> DEFINE n == Cardinality(all)
             S == SUBSET all
             More(A) == A \cup UNION {get_feature(version, f) : f \in A}
             R(g) == [i \in 0..n |-> IF i = 0 THEN from ELSE More(g[i - 1])]
             step == [i \in 1..n |-> [A \in S |-> More(A)]]
             a == Reaching(version, from)
  <1>1. n \in Nat
    BY FS_CardinalityType
  <1>2. from \in S /\ \A A \in S : More(A) \in S
    BY DEF get_feature, KnownFeatures
  <1>3. step \in [1..n -> [S -> S]]
    <2> HIDE DEF n, More, S
    <2> QED BY <1>2
  <1>4. PICK f \in [0..n -> S] : IsLoop(f, n, from, step)
    <2> HIDE DEF n, step, S
    <2> QED BY <1>1, <1>2, <1>3, LoopExists
  <1>5. f = R(f)
    <2> HIDE DEF More, S
    <2>1. f[0] = from
      BY <1>4 DEF IsLoop
    <2>2. ASSUME NEW i \in 1..n PROVE f[i] = More(f[i - 1])
      <3> HIDE DEF n
      <3>1. i - 1 \in 0..n
        BY <1>1
      <3>2. f[i - 1] \in S /\ f[i] = step[i][f[i - 1]]
        BY <1>4, <3>1 DEF IsLoop
      <3> QED BY <3>2
    <2> HIDE DEF n
    <2>3. \A i \in 0..n : f[i] = IF i = 0 THEN from ELSE More(f[i - 1])
      <3>1. \A i \in 0..n : i = 0 \/ i \in 1..n
        BY <1>1
      <3> QED BY <2>1, <2>2, <3>1
    <2> QED BY <2>3
  <1>6. a = R(a)
    <2>1. a = CHOOSE g : g = R(g)
      BY DEF Reaching
    <2> HIDE DEF R, a
    <2> QED BY <1>5, <2>1
  <1>7. a[0] = from /\ \A i \in 1..n : a[i] = More(a[i - 1])
    <2> HIDE DEF n, a, More
    <2> QED BY <1>1, <1>6
  <1> HIDE DEF a, R, step, More, S, n
  <1> DEFINE T == {i \in 0..n : a[i] \in S}
  <1>8. \A i \in 0..n : i \in T
    <2>1. 0 \in T
      BY <1>1, <1>2, <1>7
    <2>2. ASSUME NEW i \in 0..n, i < n, i \in T PROVE i + 1 \in T
      <3>1. i + 1 \in 1..n /\ i + 1 \in 0..n /\ (i + 1) - 1 = i
        BY <1>1, <2>2
      <3> QED BY <1>2, <1>7, <2>2, <3>1
    <2>3. \A i \in 0..n : i < n /\ i \in T => i + 1 \in T
      BY <2>2
    <2> HIDE DEF T
    <2> QED BY <1>1, <2>1, <2>3, UpTo
  <1> QED BY <1>7, <1>8 DEF a, More, S, n

(* After as many rounds as there are features nothing is left to reach: a  *)
(* round that adds nothing is followed by none that does, and otherwise    *)
(* each round adds one.                                                    *)
LEMMA ClosureCloses ==
    ASSUME NEW version, NEW from, IsFiniteSet(from), IsFiniteSet(KnownFeatures(version))
    PROVE  /\ from \subseteq FeatureClosure(version, from)
           /\ FeatureClosure(version, from) \subseteq from \cup KnownFeatures(version)
           /\ IsClosedSet(version, FeatureClosure(version, from))
           /\ IsFiniteSet(FeatureClosure(version, from))
  <1> DEFINE all == from \cup KnownFeatures(version)
             n == Cardinality(all)
             a == Reaching(version, from)
             T == {i \in 0..n : from \subseteq a[i] /\ (IsClosedSet(version, a[i]) \/ Cardinality(a[i]) >= i)}
  <1>1. IsFiniteSet(all)
    BY FS_Union
  <1>2. n \in Nat
    BY <1>1, FS_CardinalityType
  <1>3. /\ a[0] = from
        /\ \A i \in 1..n : a[i] = a[i - 1] \cup UNION {get_feature(version, f) : f \in a[i - 1]}
        /\ \A i \in 0..n : a[i] \in SUBSET all
    BY <1>1, ReachingSteps
  <1> HIDE DEF a
  <1>4. \A i \in 0..n : IsFiniteSet(a[i]) /\ Cardinality(a[i]) \in Nat
    <2> HIDE DEF n, all
    <2> QED BY <1>1, <1>3, FS_Subset, FS_CardinalityType
  <1>5. 0 \in T
    <2>1. 0 \in 0..n
      BY <1>2
    <2>2. Cardinality(a[0]) >= 0
      BY <1>4, <2>1
    <2> QED BY <1>3, <2>1, <2>2
  <1>6. ASSUME NEW i \in 0..n, i < n, i \in T PROVE i + 1 \in T
    <2>1. i + 1 \in 1..n /\ i + 1 \in 0..n /\ (i + 1) - 1 = i
      BY <1>2, <1>6
    <2>2. a[i + 1] = a[i] \cup UNION {get_feature(version, f) : f \in a[i]}
      BY <1>3, <2>1
    <2>3. CASE IsClosedSet(version, a[i])
      <3>1. a[i + 1] = a[i]
        BY <2>2, <2>3 DEF IsClosedSet
      <3> QED BY <1>6, <2>1, <2>3, <3>1
    <2>4. CASE ~IsClosedSet(version, a[i])
      <3>1. a[i] \subseteq a[i + 1] /\ a[i] # a[i + 1]
        BY <2>2, <2>4 DEF IsClosedSet
      <3>2. Cardinality(a[i]) >= i /\ from \subseteq a[i]
        BY <1>6, <2>4
      <3>3. Cardinality(a[i]) <= Cardinality(a[i + 1]) /\ Cardinality(a[i]) # Cardinality(a[i + 1])
        BY <1>4, <2>1, <3>1, FS_Subset
      <3>4. Cardinality(a[i]) \in Nat /\ Cardinality(a[i + 1]) \in Nat
        BY <1>4, <2>1
      <3>5. Cardinality(a[i + 1]) >= i + 1
        <4> HIDE DEF n
        <4> QED BY <3>2, <3>3, <3>4
      <3> QED BY <2>1, <3>1, <3>2, <3>5
    <2> QED BY <2>3, <2>4
  <1>7. n \in 0..n /\ n \in T
    <2>1. \A i \in 0..n : i < n /\ i \in T => i + 1 \in T
      BY <1>6
    <2> HIDE DEF T, n
    <2>2. \A i \in 0..n : i \in T
      BY <1>2, <1>5, <2>1, UpTo
    <2> QED BY <1>2, <2>2
  <1>8. IsClosedSet(version, a[n])
    <2>1. CASE Cardinality(a[n]) >= n
      <3>1. a[n] \in SUBSET all
        BY <1>3, <1>7
      <3>2. Cardinality(a[n]) = n
        <4>1. Cardinality(a[n]) <= Cardinality(all) /\ Cardinality(a[n]) \in Nat
          BY <1>1, <1>4, <1>7, <3>1, FS_Subset
        <4> QED BY <1>2, <2>1, <4>1
      <3>3. a[n] = all
        BY <1>1, <3>1, <3>2, FS_Subset
      <3> QED BY <3>3 DEF IsClosedSet, get_feature, KnownFeatures
    <2> QED BY <1>7, <2>1
  <1>9. FeatureClosure(version, from) = a[n]
    BY DEF FeatureClosure, a
  <1>10. from \subseteq a[n] /\ a[n] \in SUBSET all /\ IsFiniteSet(a[n])
    <2> HIDE DEF all, n
    <2> QED BY <1>3, <1>4, <1>7
  <1> QED BY <1>8, <1>9, <1>10

(* The features that a resolution activates are closed, so they hold the   *)
(* least ones that are.                                                    *)
LEMMA ActiveFeatures ==
    ASSUME NEW c, NEW s, IsResolution(c, s), IsListed(c.versions[s.version_index])
    PROVE  /\ LeastFeatures(c, s) \subseteq get_active_features(s, c.versions[s.version_index])
           /\ IsFiniteSet(get_active_features(s, c.versions[s.version_index]))
  <1> DEFINE version == c.versions[s.version_index]
             default == IF s.default_features THEN get_feature(version, <<"plain", "default">>) ELSE {}
             given == s.features \cup default
             active == FeatureClosure(version, given)
  <1>1. IsFiniteSet(s.features) /\ IsFiniteSet(KnownFeatures(version))
    BY DEF IsResolution, IsListed
  <1>2. default \subseteq KnownFeatures(version)
    BY DEF get_feature, KnownFeatures
  <1>3. IsFiniteSet(given)
    <2> HIDE DEF default
    <2>1. IsFiniteSet(default)
      BY <1>1, <1>2, FS_Subset
    <2> QED BY <1>1, <2>1, FS_Union
  <1>4. /\ given \subseteq active /\ active \subseteq given \cup KnownFeatures(version)
        /\ IsClosedSet(version, active) /\ IsFiniteSet(active)
    <2> HIDE DEF given, version
    <2> QED BY <1>1, <1>3, ClosureCloses
  <1>5. get_active_features(s, version) = active
    BY DEF get_active_features
  <1> HIDE DEF active
  <1>6. LeastFeatures(c, s) \subseteq active
    BY <1>2, <1>4 DEF LeastFeatures
  <1> QED BY <1>4, <1>5, <1>6

(* The active dependencies of a list, in a list.                           *)
LEMMA ActiveDeps ==
    ASSUME NEW deps, IsVector(deps), NEW targets, NEW features
    PROVE  /\ IsVector(active_deps(deps, targets, features))
           /\ \A x : x \in Range(active_deps(deps, targets, features)) <=>
                        x \in Range(deps) /\ is_active_for(x, targets, features)
  <1> DEFINE n == Len(deps)
             S == {s \in Seq(Range(deps)) : TRUE}
             Next(s, i) == IF is_active_for(deps[i], targets, features) THEN Append(s, deps[i]) ELSE s
             R(g) == [i \in 0..n |-> IF i = 0 THEN << >> ELSE Next(g[i - 1], i)]
             step == [i \in 1..n |-> [s \in S |-> Next(s, i)]]
             a == ActiveAmong(deps, targets, features)
  <1>1. n \in Nat /\ DOMAIN deps = 1..n /\ \A i \in 1..n : deps[i] \in Range(deps)
    BY VectorIndices
  <1>2. << >> \in S /\ \A s \in S : \A i \in 1..n : Next(s, i) \in S
    <2> HIDE DEF n
    <2>1. << >> \in S
      BY EmptySeq
    <2>2. \A s \in S : \A i \in 1..n : Append(s, deps[i]) \in S
      BY <1>1, AppendProperties
    <2> QED BY <2>1, <2>2
  <1>3. step \in [1..n -> [S -> S]]
    <2> HIDE DEF n, Next, S
    <2> QED BY <1>2
  <1>4. PICK f \in [0..n -> S] : IsLoop(f, n, << >>, step)
    <2> HIDE DEF n, step, S
    <2> QED BY <1>1, <1>2, <1>3, LoopExists
  <1>5. f = R(f)
    <2> HIDE DEF Next, S
    <2>1. f[0] = << >>
      BY <1>4 DEF IsLoop
    <2>2. ASSUME NEW i \in 1..n PROVE f[i] = Next(f[i - 1], i)
      <3> HIDE DEF n
      <3>1. i - 1 \in 0..n
        BY <1>1
      <3>2. f[i - 1] \in S /\ f[i] = step[i][f[i - 1]]
        BY <1>4, <3>1 DEF IsLoop
      <3> QED BY <3>2
    <2> HIDE DEF n
    <2>3. \A i \in 0..n : f[i] = IF i = 0 THEN << >> ELSE Next(f[i - 1], i)
      <3>1. \A i \in 0..n : i = 0 \/ i \in 1..n
        BY <1>1
      <3> QED BY <2>1, <2>2, <3>1
    <2> QED BY <2>3
  <1>6. a = R(a)
    <2>1. a = CHOOSE g : g = R(g)
      BY DEF ActiveAmong
    <2> HIDE DEF R, a
    <2> QED BY <1>5, <2>1
  <1>7. a[0] = << >> /\ \A i \in 1..n : a[i] = Next(a[i - 1], i)
    <2> HIDE DEF n, a, Next
    <2> QED BY <1>1, <1>6
  <1>8. active_deps(deps, targets, features) = a[n]
    BY DEF active_deps
  <1> HIDE DEF a, R, step, S, n
  <1> DEFINE Among(i) == {x \in Range(deps) : \E j \in 1..i : x = deps[j] /\ is_active_for(x, targets, features)}
             T == {i \in 0..n : IsVector(a[i]) /\ Range(a[i]) = Among(i)}
  <1>9. 0 \in T
    <2>1. Among(0) = {} /\ 0 \in 0..n
      BY <1>1
    <2>2. IsVector(<< >>) /\ Range(<< >>) = {}
      BY EmptySeq DEF IsVector, Range
    <2> QED BY <1>7, <2>1, <2>2
  <1>10. ASSUME NEW i \in 0..n, i < n, i \in T PROVE i + 1 \in T
    <2>1. /\ i + 1 \in 1..n /\ i + 1 \in 0..n /\ (i + 1) - 1 = i
          /\ \A j : j \in 1..(i + 1) <=> j \in 1..i \/ j = i + 1
      BY <1>1, <1>10
    <2>2. IsVector(a[i]) /\ Range(a[i]) = Among(i)
      BY <1>10
    <2>3. CASE is_active_for(deps[i + 1], targets, features)
      <3>1. a[i + 1] = Append(a[i], deps[i + 1])
        BY <1>7, <2>1, <2>3
      <3>2. IsVector(a[i + 1]) /\ Range(a[i + 1]) = Range(a[i]) \cup {deps[i + 1]}
        BY <2>2, <3>1, AppendRange
      <3>3. Among(i + 1) = Among(i) \cup {deps[i + 1]}
        BY <1>1, <2>1, <2>3
      <3> QED BY <2>1, <2>2, <3>2, <3>3
    <2>4. CASE ~is_active_for(deps[i + 1], targets, features)
      <3>1. a[i + 1] = a[i]
        BY <1>7, <2>1, <2>4
      <3>2. Among(i + 1) = Among(i)
        BY <2>1, <2>4
      <3> QED BY <2>1, <2>2, <3>1, <3>2
    <2> QED BY <2>3, <2>4
  <1>11. n \in T
    <2>1. \A i \in 0..n : i < n /\ i \in T => i + 1 \in T
      BY <1>10
    <2> HIDE DEF T
    <2>2. \A i \in 0..n : i \in T
      BY <1>1, <1>9, <2>1, UpTo
    <2> QED BY <1>1, <2>2
  <1>12. \A x : x \in Among(n) <=> x \in Range(deps) /\ is_active_for(x, targets, features)
    BY <1>1 DEF Range
  <1> QED BY <1>8, <1>11, <1>12

(* What a visit asks for, and nothing else.                                *)
LEMMA AskedDeps ==
    ASSUME NEW c, NEW r, NEW targets, IsCrate(c), r \in DOMAIN c.resolutions
    PROVE  LET deps == get_active_deps_in(c, r, targets)
               s == c.resolutions[r]
               version == c.versions[s.version_index]
               active == get_active_features(s, version)
           IN  /\ IsVector(deps)
               /\ \A x : x \in Range(deps) <=> \E dep \in Range(version.deps) :
                     /\ is_active_for(dep, targets, active)
                     /\ x = [dep |-> dep, features |-> SubFeatures(dep, active)]
  <1> DEFINE s == c.resolutions[r]
             version == c.versions[s.version_index]
             active == get_active_features(s, version)
             deps == active_deps(version.deps, targets, active)
             asked == get_active_deps_in(c, r, targets)
  <1>1. IsResolution(c, s) /\ IsListed(version)
    BY DEF IsCrate, IsResolution
  <1>2. /\ IsVector(deps)
        /\ \A x : x \in Range(deps) <=> x \in Range(version.deps) /\ is_active_for(x, targets, active)
    <2>1. IsVector(version.deps)
      BY <1>1 DEF IsListed
    <2> HIDE DEF version, active
    <2> QED BY <2>1, ActiveDeps
  <1>3. asked = [i \in DOMAIN deps |-> [dep |-> deps[i], features |-> SubFeatures(deps[i], active)]]
    BY DEF get_active_deps_in
  <1> HIDE DEF deps, asked
  <1>4. Len(deps) \in Nat /\ DOMAIN deps = 1..Len(deps)
    BY <1>2, VectorIndices
  <1>5. IsVector(asked)
    <2>1. DOMAIN asked = 1..Len(deps) /\ asked = [i \in DOMAIN asked |-> asked[i]]
      BY <1>3, <1>4
    <2> QED BY <1>4, <2>1, MadeVector
  <1> HIDE DEF active, version
  <1>6. \A x : x \in Range(asked) <=> \E dep \in Range(deps) : x = [dep |-> dep, features |-> SubFeatures(dep, active)]
    BY <1>3 DEF Range
  <1>7. \A x : x \in Range(asked) <=> \E dep \in Range(version.deps) :
                     /\ is_active_for(dep, targets, active)
                     /\ x = [dep |-> dep, features |-> SubFeatures(dep, active)]
    BY <1>2, <1>6
  <1> QED BY <1>5, <1>7 DEF asked, active, version

(* The features asked of a dependency.                                     *)
LEMMA SubFeaturesFinite ==
    ASSUME NEW dep, NEW active, IsFiniteSet(active)
    PROVE  IsFiniteSet(SubFeatures(dep, active))
  <1> DEFINE S == {f \in active : f[1] \in {"sub", "weak"} /\ f[2] = dep.name}
             T == SubFeatures(dep, active)
             g == [f \in S |-> <<"plain", f[3]>>]
  <1>1. IsFiniteSet(S)
    BY FS_Subset
  <1>2. T = {<<"plain", f[3]>> : f \in S}
    BY DEF SubFeatures
  <1>3. g \in Surjection(S, T)
    <2> HIDE DEF S, T
    <2> QED BY <1>2 DEF Surjection
  <1> QED
    <2> HIDE DEF S, T, g
    <2>1. IsFiniteSet(T)
      BY <1>1, <1>3, FS_Surjection
    <2> QED BY <2>1 DEF T

-----------------------------------------------------------------------------
(* What the operations on a crate find                                     *)

(* The version chosen is one that is required, and the highest.            *)
LEMMA BestIsHighest ==
    ASSUME NEW versions, IsVector(versions), \A i \in DOMAIN versions : versions[i].rank \in Nat,
           NEW req, NEW v, v = BestVersion(versions, req)
    PROVE  \/ v = 0
           \/ /\ v \in DOMAIN versions /\ v # 0 /\ versions[v].rank \in req
              /\ \A i \in DOMAIN versions : versions[i].rank \in req => versions[i].rank <= versions[v].rank
  <1> DEFINE matching == {i \in DOMAIN versions : versions[i].rank \in req}
             highest == {i \in matching : \A j \in matching : versions[j].rank <= versions[i].rank}
             n == Len(versions)
  <1>1. n \in Nat /\ DOMAIN versions = 1..n
    BY VectorIndices
  <1>2. matching \in SUBSET (0..n) /\ 0 \notin matching
    BY <1>1
  <1>3. SUFFICES ASSUME matching # {} PROVE v \in highest
    BY <1>2 DEF BestVersion
  <1>4. highest # {}
    <2> DEFINE f == [i \in matching |-> versions[i].rank]
    <2>1. f \in [matching -> Nat]
      OBVIOUS
    <2>2. PICK x \in matching : \A y \in matching : f[y] <= f[x]
      <3> HIDE DEF matching, f, n
      <3> QED BY <1>1, <1>2, <1>3, <2>1, GreatestExists
    <2> QED BY <2>2
  <1>5. highest \in SUBSET (0..n)
    BY <1>2
  <1>6. PICK x \in highest : \A y \in highest : x >= y
    <2> DEFINE f == [i \in highest |-> i]
    <2>1. f \in [highest -> Nat]
      BY <1>1, <1>5
    <2>2. PICK x \in highest : \A y \in highest : f[y] <= f[x]
      <3> HIDE DEF highest, f, n
      <3> QED BY <1>1, <1>4, <1>5, <2>1, GreatestExists
    <2>3. \A y \in highest : y \in Nat
      BY <1>1, <1>5
    <2> QED BY <2>2, <2>3
  <1>7. v = Max(highest)
    BY <1>3 DEF BestVersion
  <1> HIDE DEF highest
  <1> QED BY <1>6, <1>7 DEF Max

LEMMA ResolutionFound ==
    ASSUME NEW c, IsVector(c.resolutions), NEW v, NEW r, r = ResolutionOf(c, v), r # 0
    PROVE  r \in DOMAIN c.resolutions /\ c.resolutions[r].version_index = v
  <1> DEFINE I == {i \in 1..Len(c.resolutions) : c.resolutions[i].version_index = v}
  <1>1. r = IF I # {} THEN Min(I) ELSE 0
    BY DEF ResolutionOf, SelectInSeq
  <1>2. Len(c.resolutions) \in Nat /\ DOMAIN c.resolutions = 1..Len(c.resolutions)
    BY VectorIndices
  <1>3. I \in SUBSET Nat
    BY <1>2
  <1>4. r \in I
    <2> HIDE DEF I
    <2>1. I # {} /\ r = Min(I)
      BY <1>1
    <2>2. \E x \in I : \A y \in I : x <= y
      BY <1>3, <2>1, LeastExists
    <2> QED BY <2>1, <2>2 DEF Min
  <1> QED BY <1>2, <1>4

LEMMA CrateFound ==
    ASSUME NEW g, IsVector(g.crates), NEW dep, NEW k, k = get_crate(g, dep), k # 0
    PROVE  k \in DOMAIN g.crates /\ g.crates[k].registry = dep.registry /\ g.crates[k].name = dep.name
  <1> DEFINE I == {i \in 1..Len(g.crates) : g.crates[i].registry = dep.registry /\ g.crates[i].name = dep.name}
  <1>1. k = IF I # {} THEN Min(I) ELSE 0
    BY DEF get_crate, SelectInSeq
  <1>2. Len(g.crates) \in Nat /\ DOMAIN g.crates = 1..Len(g.crates)
    BY VectorIndices
  <1>3. I \in SUBSET Nat
    BY <1>2
  <1>4. k \in I
    <2> HIDE DEF I
    <2>1. I # {} /\ k = Min(I)
      BY <1>1
    <2>2. \E x \in I : \A y \in I : x <= y
      BY <1>3, <2>1, LeastExists
    <2> QED BY <2>1, <2>2 DEF Min
  <1> QED BY <1>2, <1>4

-----------------------------------------------------------------------------
(* How a graph grows                                                       *)

(* A crate keeps its versions, its resolutions stay where they are, and    *)
(* nothing is taken from any.                                              *)
ResolutionGrows(s, t) ==
    t.version_index = s.version_index /\ s.features \subseteq t.features /\ s.origins \subseteq t.origins

CrateGrows(c, d) ==
    /\ d.registry = c.registry /\ d.name = c.name /\ d.versions = c.versions
    /\ c.unresolved \subseteq d.unresolved
    /\ DOMAIN c.resolutions \subseteq DOMAIN d.resolutions
    /\ \A r \in DOMAIN c.resolutions : ResolutionGrows(c.resolutions[r], d.resolutions[r])

(* The resolutions that are new or have changed are dirty.                 *)
GraphGrows(g, h) ==
    /\ h.targets = g.targets /\ g.unknowns \subseteq h.unknowns
    /\ DOMAIN g.crates \subseteq DOMAIN h.crates
    /\ \A k \in DOMAIN g.crates : CrateGrows(g.crates[k], h.crates[k])
    /\ Range(g.dirty) \subseteq Range(h.dirty)
    /\ \A k \in DOMAIN h.crates : \A r \in DOMAIN h.crates[k].resolutions :
          \/ <<k, r>> \in Range(h.dirty)
          \/ /\ k \in DOMAIN g.crates /\ r \in DOMAIN g.crates[k].resolutions
             /\ h.crates[k].resolutions[r] = g.crates[k].resolutions[r]

(* What had its place in a crate keeps it.                                 *)
LEMMA PlaceKept ==
    ASSUME NEW c, NEW d, CrateGrows(c, d), NEW dep, NEW features, NEW origins,
           HasPlace(c, dep, features, origins)
    PROVE  HasPlace(d, dep, features, origins)
  <1>1. CASE dep.req \in c.unresolved
    BY <1>1 DEF CrateGrows, HasPlace
  <1>2. CASE dep.req \notin c.unresolved
    <2>1. PICK r \in DOMAIN c.resolutions :
            /\ c.versions[c.resolutions[r].version_index].rank \in dep.req
            /\ \A v \in Range(c.versions) :
                  v.rank \in dep.req => v.rank <= c.versions[c.resolutions[r].version_index].rank
            /\ features \subseteq c.resolutions[r].features /\ origins \subseteq c.resolutions[r].origins
      BY <1>2 DEF HasPlace, Range
    <2>2. r \in DOMAIN d.resolutions /\ ResolutionGrows(c.resolutions[r], d.resolutions[r])
      BY DEF CrateGrows
    <2>3. d.resolutions[r] \in Range(d.resolutions)
      BY <2>2 DEF Range
    <2> QED BY <2>1, <2>2, <2>3 DEF CrateGrows, ResolutionGrows, HasPlace
  <1> QED BY <1>1, <1>2

LEMMA ResolvedKept ==
    ASSUME NEW g, NEW h, GraphGrows(g, h), NEW dep, NEW features, NEW origins,
           IsResolved(g, dep, features, origins)
    PROVE  IsResolved(h, dep, features, origins)
  <1>1. CASE is_unknown(g, dep)
    BY <1>1 DEF GraphGrows, is_unknown, IsResolved
  <1>2. CASE ~is_unknown(g, dep)
    <2>1. PICK k \in DOMAIN g.crates :
            /\ g.crates[k].registry = dep.registry /\ g.crates[k].name = dep.name
            /\ HasPlace(g.crates[k], dep, features, origins)
      BY <1>2 DEF IsResolved, Range
    <2>2. k \in DOMAIN h.crates /\ CrateGrows(g.crates[k], h.crates[k])
      BY DEF GraphGrows
    <2>3. HasPlace(h.crates[k], dep, features, origins)
      BY <2>1, <2>2, PlaceKept
    <2>4. h.crates[k].registry = dep.registry /\ h.crates[k].name = dep.name
      BY <2>1, <2>2 DEF CrateGrows
    <2> QED BY <2>2, <2>3, <2>4 DEF IsResolved, Range
  <1> QED BY <1>1, <1>2

-----------------------------------------------------------------------------
(* What resolving a dependency in a crate does                             *)

(* The dependency has its place after it, and the resolution to visit, if  *)
(* any, is the only one that is new or has changed.                        *)
ResolvesIn(c, result, dep, features, origins) ==
    /\ IsCrate(result.crate) /\ CrateGrows(c, result.crate)
    /\ HasPlace(result.crate, dep, features, origins)
    /\ result.resolution # 0 => result.resolution \in DOMAIN result.crate.resolutions
    /\ \A r \in DOMAIN result.crate.resolutions :
          \/ r = result.resolution
          \/ r \in DOMAIN c.resolutions /\ result.crate.resolutions[r] = c.resolutions[r]

(* The place of a resolution of the version chosen.                        *)
LEMMA PlaceOfBest ==
    ASSUME NEW d, IsCrate(d), NEW dep, NEW features, NEW origins, NEW r \in DOMAIN d.resolutions,
           d.resolutions[r].version_index = BestVersion(d.versions, dep.req),
           BestVersion(d.versions, dep.req) # 0,
           features \subseteq d.resolutions[r].features, origins \subseteq d.resolutions[r].origins
    PROVE  HasPlace(d, dep, features, origins)
  <1> DEFINE v == BestVersion(d.versions, dep.req)
  <1>1. IsVector(d.versions) /\ \A i \in DOMAIN d.versions : d.versions[i].rank \in Nat
    BY DEF IsCrate, IsListed
  <1>2. /\ v \in DOMAIN d.versions /\ d.versions[v].rank \in dep.req
        /\ \A i \in DOMAIN d.versions : d.versions[i].rank \in dep.req => d.versions[i].rank <= d.versions[v].rank
    <2> HIDE DEF v
    <2>1. v = BestVersion(d.versions, dep.req) /\ v # 0
      BY DEF v
    <2> QED BY <1>1, <2>1, BestIsHighest
  <1>3. d.resolutions[r] \in Range(d.resolutions)
    BY DEF Range
  <1> QED BY <1>2, <1>3 DEF HasPlace, Range

LEMMA ReachedFields ==
    ASSUME NEW c, NEW s, IsResolution(c, s), NEW features, NEW origins
    PROVE  Reached(s, features, origins) =
              [version_index |-> s.version_index, default_features |-> s.default_features,
               features |-> s.features \cup features, origins |-> s.origins \cup origins]
  <1> DEFINE t == [s EXCEPT !.features = @ \cup features, !.origins = @ \cup origins]
  <1>1. /\ DOMAIN t = {"version_index", "default_features", "features", "origins"}
        /\ t = [x \in DOMAIN t |-> t[x]]
    BY DEF IsResolution
  <1>2. /\ t.version_index = s.version_index /\ t.default_features = s.default_features
        /\ t.features = s.features \cup features /\ t.origins = s.origins \cup origins
    BY DEF IsResolution
  <1>3. Reached(s, features, origins) = t
    BY DEF Reached
  <1> HIDE DEF t
  <1> QED BY <1>1, <1>2, <1>3

LEMMA NoVersion ==
    ASSUME NEW c, IsCrate(c), NEW dep, NEW features, NEW origins,
           BestVersion(c.versions, dep.req) = 0
    PROVE  ResolvesIn(c, resolve_in(c, dep, features, origins), dep, features, origins)
  <1> DEFINE d == [c EXCEPT !.unresolved = @ \cup {dep.req}]
  <1>1. resolve_in(c, dep, features, origins) = [crate |-> d, resolution |-> 0]
    BY DEF resolve_in
  <1>2. d = [registry |-> c.registry, name |-> c.name, versions |-> c.versions,
             resolutions |-> c.resolutions, unresolved |-> c.unresolved \cup {dep.req}]
    BY DEF IsCrate
  <1>3. IsCrate(d)
    BY <1>2 DEF IsCrate, IsResolution
  <1>4. CrateGrows(c, d)
    BY <1>2 DEF CrateGrows, ResolutionGrows
  <1>5. HasPlace(d, dep, features, origins)
    BY <1>2 DEF HasPlace
  <1> HIDE DEF d
  <1> QED BY <1>1, <1>2, <1>3, <1>4, <1>5 DEF ResolvesIn

LEMMA KnownResolution ==
    ASSUME NEW c, IsCrate(c), NEW dep, NEW features, IsFiniteSet(features), NEW origins,
           NEW v, v = BestVersion(c.versions, dep.req), v # 0,
           NEW r, r = ResolutionOf(c, v), r # 0
    PROVE  ResolvesIn(c, resolve_in(c, dep, features, origins), dep, features, origins)
  <1> DEFINE s == c.resolutions[r]
             t == [version_index |-> s.version_index, default_features |-> s.default_features,
                   features |-> s.features \cup features, origins |-> s.origins \cup origins]
             d == [registry |-> c.registry, name |-> c.name, versions |-> c.versions,
                   resolutions |-> [c.resolutions EXCEPT ![r] = t], unresolved |-> c.unresolved]
             result == resolve_in(c, dep, features, origins)
  <1>1. IsVector(c.resolutions) /\ r \in DOMAIN c.resolutions /\ s.version_index = v
    BY ResolutionFound DEF IsCrate
  <1>2. IsResolution(c, s)
    BY <1>1 DEF IsCrate
  <1>3. result.crate = d
    <2>1. result.crate = [c EXCEPT !.resolutions[r] = Reached(s, features, origins)]
      BY DEF resolve_in
    <2>2. Reached(s, features, origins) = t
      BY <1>2, ReachedFields
    <2> HIDE DEF s, t, result
    <2> QED BY <2>1, <2>2 DEF IsCrate
  <1>4. result.resolution = IF features \subseteq s.features /\ origins \subseteq s.origins THEN 0 ELSE r
    BY DEF resolve_in
  <1>5. /\ IsVector(d.resolutions) /\ DOMAIN d.resolutions = DOMAIN c.resolutions
        /\ d.resolutions[r] = t
        /\ \A i \in DOMAIN c.resolutions : i # r => d.resolutions[i] = c.resolutions[i]
    <2>1. d.resolutions = [c.resolutions EXCEPT ![r] = t]
      OBVIOUS
    <2> HIDE DEF d, t
    <2> QED BY <1>1, <2>1, ExceptVector
  <1>6. /\ d.registry = c.registry /\ d.name = c.name /\ d.versions = c.versions
        /\ d.unresolved = c.unresolved
        /\ d = [registry |-> d.registry, name |-> d.name, versions |-> d.versions,
                resolutions |-> d.resolutions, unresolved |-> d.unresolved]
    OBVIOUS
  <1>7. /\ t.version_index = s.version_index /\ t.features = s.features \cup features
        /\ t.origins = s.origins \cup origins
        /\ t = [version_index |-> t.version_index, default_features |-> t.default_features,
                features |-> t.features, origins |-> t.origins]
        /\ features \subseteq s.features /\ origins \subseteq s.origins => t = s
    BY <1>2 DEF IsResolution
  <1> HIDE DEF d, t, result
  <1>8. IsResolution(d, t)
    <2>1. IsFiniteSet(t.features)
      <3>1. IsFiniteSet(s.features)
        BY <1>2 DEF IsResolution
      <3> HIDE DEF s
      <3> QED BY <1>7, <3>1, FS_Union
    <2> QED BY <1>2, <1>6, <1>7, <2>1 DEF IsResolution
  <1>9. IsCrate(d)
    <2>1. \A i \in DOMAIN d.resolutions : IsResolution(d, d.resolutions[i])
      BY <1>5, <1>6, <1>8 DEF IsCrate, IsResolution
    <2> QED BY <1>5, <1>6, <2>1 DEF IsCrate
  <1>10. CrateGrows(c, d)
    <2>1. \A i \in DOMAIN c.resolutions : ResolutionGrows(c.resolutions[i], d.resolutions[i])
      BY <1>5, <1>7 DEF ResolutionGrows
    <2> QED BY <1>5, <1>6, <2>1 DEF CrateGrows
  <1>11. HasPlace(d, dep, features, origins)
    BY <1>1, <1>5, <1>6, <1>7, <1>9, PlaceOfBest
  <1>12. ResolvesIn(c, result, dep, features, origins)
    BY <1>1, <1>3, <1>4, <1>5, <1>7, <1>9, <1>10, <1>11 DEF ResolvesIn
  <1> QED BY <1>12 DEF result

LEMMA NewResolution ==
    ASSUME NEW c, IsCrate(c), NEW dep, IsDependency(dep), NEW features, IsFiniteSet(features), NEW origins,
           NEW v, v = BestVersion(c.versions, dep.req), v # 0, ResolutionOf(c, v) = 0
    PROVE  ResolvesIn(c, resolve_in(c, dep, features, origins), dep, features, origins)
  <1> DEFINE t == [version_index |-> v, default_features |-> dep.default_features,
                   features |-> dep.features \cup features, origins |-> origins]
             d == [registry |-> c.registry, name |-> c.name, versions |-> c.versions,
                   resolutions |-> Append(c.resolutions, t), unresolved |-> c.unresolved]
             result == resolve_in(c, dep, features, origins)
             n == Len(c.resolutions)
  <1>1. result = [crate |-> d, resolution |-> n + 1]
    BY DEF resolve_in, IsCrate
  <1>2. IsVector(c.resolutions) /\ v \in DOMAIN c.versions
    <2>1. IsVector(c.versions) /\ \A i \in DOMAIN c.versions : c.versions[i].rank \in Nat
      BY DEF IsCrate, IsListed
    <2> QED BY <2>1, BestIsHighest DEF IsCrate
  <1>3. /\ IsVector(d.resolutions) /\ n \in Nat /\ DOMAIN c.resolutions = 1..n
        /\ DOMAIN d.resolutions = 1..(n + 1) /\ d.resolutions[n + 1] = t
        /\ \A i \in 1..n : d.resolutions[i] = c.resolutions[i]
    <2>1. d.resolutions = Append(c.resolutions, t)
      OBVIOUS
    <2> HIDE DEF d, t
    <2> QED BY <1>2, <2>1, AppendVector
  <1>4. \A i : i \in 1..(n + 1) <=> i \in 1..n \/ i = n + 1
    BY <1>3
  <1>5. /\ d.registry = c.registry /\ d.name = c.name /\ d.versions = c.versions
        /\ d.unresolved = c.unresolved
        /\ d = [registry |-> d.registry, name |-> d.name, versions |-> d.versions,
                resolutions |-> d.resolutions, unresolved |-> d.unresolved]
    OBVIOUS
  <1>6. /\ t.version_index = v /\ t.features = dep.features \cup features /\ t.origins = origins
        /\ t = [version_index |-> t.version_index, default_features |-> t.default_features,
                features |-> t.features, origins |-> t.origins]
    OBVIOUS
  <1> HIDE DEF d, t, result, n
  <1>7. IsResolution(d, t)
    <2>1. IsFiniteSet(t.features)
      BY <1>6, FS_Union DEF IsDependency
    <2> QED BY <1>2, <1>5, <1>6, <2>1 DEF IsResolution
  <1>8. IsCrate(d)
    <2>1. \A i \in DOMAIN d.resolutions : IsResolution(d, d.resolutions[i])
      BY <1>3, <1>4, <1>5, <1>7 DEF IsCrate, IsResolution
    <2> QED BY <1>3, <1>5, <2>1 DEF IsCrate
  <1>9. CrateGrows(c, d)
    <2>1. \A i \in DOMAIN c.resolutions : i \in DOMAIN d.resolutions /\ ResolutionGrows(c.resolutions[i], d.resolutions[i])
      BY <1>3, <1>4 DEF ResolutionGrows
    <2> QED BY <1>5, <2>1 DEF CrateGrows
  <1>10. n + 1 \in DOMAIN d.resolutions
    BY <1>3, <1>4
  <1>11. HasPlace(d, dep, features, origins)
    BY <1>3, <1>5, <1>6, <1>8, <1>10, PlaceOfBest
  <1>12. ResolvesIn(c, result, dep, features, origins)
    BY <1>1, <1>3, <1>4, <1>8, <1>9, <1>10, <1>11 DEF ResolvesIn
  <1> QED BY <1>12 DEF result

LEMMA ResolveInCrate ==
    ASSUME NEW c, IsCrate(c), NEW dep, IsDependency(dep), NEW features, IsFiniteSet(features), NEW origins
    PROVE  ResolvesIn(c, resolve_in(c, dep, features, origins), dep, features, origins)
  <1> DEFINE v == BestVersion(c.versions, dep.req)
  <1>1. CASE v = 0
    BY <1>1, NoVersion
  <1>2. CASE v # 0 /\ ResolutionOf(c, v) # 0
    BY <1>2, KnownResolution
  <1>3. CASE v # 0 /\ ResolutionOf(c, v) = 0
    BY <1>3, NewResolution
  <1> QED BY <1>1, <1>2, <1>3

-----------------------------------------------------------------------------
(* What resolving a dependency does to the graph                           *)

(* The new crate is one of the vector of crates: it has the versions that  *)
(* were obtained, with their dependencies rewritten.                       *)
LEMMA RewrittenDeps ==
    ASSUME NEW deps, IsVector(deps), \A dep \in Range(deps) : IsDependency(dep), NEW registry
    PROVE  /\ IsVector(rewrite_builtin_deps(deps, registry))
           /\ \A dep \in Range(rewrite_builtin_deps(deps, registry)) : IsDependency(dep)
  <1> DEFINE new == rewrite_builtin_deps(deps, registry)
  <1>1. Len(deps) \in Nat /\ DOMAIN deps = 1..Len(deps)
    BY VectorIndices
  <1>2. DOMAIN new = 1..Len(deps) /\ new = [i \in DOMAIN new |-> new[i]]
    BY <1>1 DEF rewrite_builtin_deps
  <1>3. IsVector(new)
    BY <1>1, <1>2, MadeVector
  <1>4. \A dep, reg : IsDependency(dep) => IsDependency([dep EXCEPT !.registry = reg])
    <2> SUFFICES ASSUME NEW dep, NEW reg, IsDependency(dep)
                 PROVE  IsDependency([dep EXCEPT !.registry = reg])
      OBVIOUS
    <2> DEFINE d == [dep EXCEPT !.registry = reg]
    <2>1. /\ DOMAIN d = {"registry", "name", "req", "kind", "target", "optional", "default_features", "features"}
          /\ d = [x \in DOMAIN d |-> d[x]]
      BY DEF IsDependency
    <2>2. d.features = dep.features
      BY DEF IsDependency
    <2> HIDE DEF d
    <2>3. d = [registry |-> d.registry, name |-> d.name, req |-> d.req, kind |-> d.kind,
               target |-> d.target, optional |-> d.optional,
               default_features |-> d.default_features, features |-> d.features]
      BY <2>1
    <2>4. IsDependency(d)
      BY <2>2, <2>3 DEF IsDependency
    <2> QED BY <2>4 DEF d
  <1>5. ASSUME NEW i \in DOMAIN deps PROVE IsDependency(new[i])
    <2>1. IsDependency(deps[i])
      BY DEF Range
    <2>2. \/ new[i] = deps[i] \/ new[i] = [deps[i] EXCEPT !.registry = Builtin]
          \/ new[i] = [deps[i] EXCEPT !.registry = registry]
      BY DEF rewrite_builtin_deps
    <2> HIDE DEF new
    <2> QED BY <1>4, <2>1, <2>2
  <1> HIDE DEF new
  <1>6. \A dep \in Range(new) : IsDependency(dep)
    BY <1>1, <1>2, <1>5 DEF Range
  <1> QED BY <1>3, <1>6 DEF new

LEMMA NewCrateIsCrate ==
    ASSUME NEW dep, NEW versions, IsVector(versions), \A i \in DOMAIN versions : IsListed(versions[i])
    PROVE  /\ IsCrate(NewCrate(dep, versions)) /\ NewCrate(dep, versions).resolutions = << >>
           /\ NewCrate(dep, versions).registry = dep.registry /\ NewCrate(dep, versions).name = dep.name
  <1> DEFINE c == NewCrate(dep, versions)
             new == [i \in DOMAIN versions |->
                        [rank |-> versions[i].rank, features |-> versions[i].features,
                         is_outdated |-> versions[i].rank < Max(StableRanks(versions)),
                         deps |-> rewrite_builtin_deps(versions[i].deps, dep.registry)]]
  <1>1. c = [registry |-> dep.registry, name |-> dep.name, versions |-> new,
             resolutions |-> << >>, unresolved |-> {}]
    BY DEF NewCrate
  <1>2. Len(versions) \in Nat /\ DOMAIN versions = 1..Len(versions)
    BY VectorIndices
  <1>3. IsVector(new)
    <2>1. DOMAIN new = 1..Len(versions) /\ new = [i \in DOMAIN new |-> new[i]]
      BY <1>2
    <2> HIDE DEF new
    <2> QED BY <1>2, <2>1, MadeVector
  <1>4. ASSUME NEW i \in DOMAIN new PROVE IsListed(new[i])
    <2>1. /\ new[i].rank = versions[i].rank /\ new[i].features = versions[i].features
          /\ new[i].deps = rewrite_builtin_deps(versions[i].deps, dep.registry)
      OBVIOUS
    <2>2. IsListed(versions[i])
      OBVIOUS
    <2>3. IsVector(new[i].deps) /\ \A d \in Range(new[i].deps) : IsDependency(d)
      <3> HIDE DEF new
      <3> QED BY <2>1, <2>2, RewrittenDeps DEF IsListed
    <2> HIDE DEF new
    <2> QED BY <2>1, <2>2, <2>3 DEF IsListed, KnownFeatures
  <1>5. IsVector(<< >>) /\ DOMAIN << >> = {}
    BY EmptySeq DEF IsVector
  <1> HIDE DEF new, c
  <1>6. IsCrate(c)
    BY <1>1, <1>3, <1>4, <1>5 DEF IsCrate
  <1> QED BY <1>1, <1>6 DEF c

LEMMA PushDirty ==
    ASSUME NEW dirty, IsVector(dirty), NEW entry
    PROVE  /\ IsVector(push_dirty(dirty, entry))
           /\ Range(push_dirty(dirty, entry)) = Range(dirty) \cup {entry}
  <1>1. CASE \E i \in DOMAIN dirty : dirty[i] = entry
    BY <1>1 DEF push_dirty, Range
  <1>2. CASE ~\E i \in DOMAIN dirty : dirty[i] = entry
    <2>1. push_dirty(dirty, entry) = Append(dirty, entry)
      BY <1>2 DEF push_dirty
    <2> QED BY <2>1, AppendRange
  <1> QED BY <1>1, <1>2

LEMMA PlacesKept ==
    ASSUME NEW g, NEW h, GraphGrows(g, h), NEW place, IsPlace(g, place)
    PROVE  IsPlace(h, place)
  BY DEF GraphGrows, CrateGrows, IsPlace

LEMMA CrateGrowsTwice ==
    ASSUME NEW a, NEW b, NEW c, CrateGrows(a, b), CrateGrows(b, c)
    PROVE  CrateGrows(a, c)
  BY DEF CrateGrows, ResolutionGrows

LEMMA GraphGrowsTwice ==
    ASSUME NEW g, NEW h, NEW i, GraphGrows(g, h), GraphGrows(h, i)
    PROVE  GraphGrows(g, i)
  <1>1. \A k \in DOMAIN g.crates : CrateGrows(g.crates[k], i.crates[k])
    <2> TAKE k \in DOMAIN g.crates
    <2>1. CrateGrows(g.crates[k], h.crates[k]) /\ CrateGrows(h.crates[k], i.crates[k])
      BY DEF GraphGrows
    <2> QED BY <2>1, CrateGrowsTwice
  <1>2. ASSUME NEW k \in DOMAIN i.crates, NEW r \in DOMAIN i.crates[k].resolutions,
               <<k, r>> \notin Range(i.dirty)
        PROVE  /\ k \in DOMAIN g.crates /\ r \in DOMAIN g.crates[k].resolutions
               /\ i.crates[k].resolutions[r] = g.crates[k].resolutions[r]
    <2>1. /\ k \in DOMAIN h.crates /\ r \in DOMAIN h.crates[k].resolutions
          /\ i.crates[k].resolutions[r] = h.crates[k].resolutions[r]
      BY <1>2 DEF GraphGrows
    <2>2. <<k, r>> \notin Range(h.dirty)
      BY <1>2 DEF GraphGrows
    <2> QED BY <2>1, <2>2 DEF GraphGrows
  <1>3. /\ i.targets = g.targets /\ g.unknowns \subseteq i.unknowns
        /\ DOMAIN g.crates \subseteq DOMAIN i.crates /\ Range(g.dirty) \subseteq Range(i.dirty)
    BY DEF GraphGrows
  <1> QED BY <1>1, <1>2, <1>3 DEF GraphGrows

(* What a graph becomes when a dependency is resolved.                     *)
GraphResolves(g, h, dep, features, origins) ==
    IsGraph(h) /\ GraphGrows(g, h) /\ IsResolved(h, dep, features, origins)

LEMMA ResolveCrateResolves ==
    ASSUME NEW g, IsGraph(g), NEW dep, IsDependency(dep), NEW features, IsFiniteSet(features), NEW origins,
           NEW k \in DOMAIN g.crates, g.crates[k].registry = dep.registry, g.crates[k].name = dep.name
    PROVE  GraphResolves(g, ResolveCrate(g, k, dep, features, origins), dep, features, origins)
  <1> DEFINE result == resolve_in(g.crates[k], dep, features, origins)
             m == result.resolution
             d == result.crate
             h == ResolveCrate(g, k, dep, features, origins)
             dirty == IF m = 0 THEN g.dirty ELSE push_dirty(g.dirty, <<k, m>>)
             crates == [g.crates EXCEPT ![k] = d]
  <1>1. IsCrate(g.crates[k]) /\ IsVector(g.crates) /\ IsVector(g.dirty)
    BY DEF IsGraph
  <1>2. ResolvesIn(g.crates[k], result, dep, features, origins)
    BY <1>1, ResolveInCrate
  <1> HIDE DEF result
  <1>3. h = [targets |-> g.targets, crates |-> crates, unknowns |-> g.unknowns, dirty |-> dirty]
    <2> DEFINE i == [g EXCEPT !.crates[k] = d, !.dirty = dirty]
    <2>1. h = i
      BY DEF ResolveCrate, result
    <2>2. DOMAIN i = {"targets", "crates", "unknowns", "dirty"} /\ i = [x \in DOMAIN i |-> i[x]]
      BY DEF IsGraph
    <2>3. i.targets = g.targets /\ i.crates = crates /\ i.unknowns = g.unknowns /\ i.dirty = dirty
      <3> HIDE DEF d, dirty
      <3> QED BY DEF IsGraph
    <2> HIDE DEF i, h, crates, dirty
    <2> QED BY <2>1, <2>2, <2>3
  <1>4. /\ IsVector(crates) /\ DOMAIN crates = DOMAIN g.crates /\ crates[k] = d
        /\ \A i \in DOMAIN g.crates : i # k => crates[i] = g.crates[i]
    <2> HIDE DEF d
    <2> QED BY <1>1, ExceptVector
  <1>5. /\ IsVector(dirty)
        /\ Range(dirty) = IF m = 0 THEN Range(g.dirty) ELSE Range(g.dirty) \cup {<<k, m>>}
    <2> HIDE DEF m
    <2> QED BY <1>1, PushDirty
  <1>6. h.targets = g.targets /\ h.crates = crates /\ h.unknowns = g.unknowns /\ h.dirty = dirty
    <2> HIDE DEF h, crates, dirty
    <2> QED BY <1>3
  <1>7. /\ IsCrate(d) /\ CrateGrows(g.crates[k], d) /\ HasPlace(d, dep, features, origins)
        /\ m # 0 => m \in DOMAIN d.resolutions
        /\ \A r \in DOMAIN d.resolutions :
              \/ r = m
              \/ r \in DOMAIN g.crates[k].resolutions /\ d.resolutions[r] = g.crates[k].resolutions[r]
    BY <1>2 DEF ResolvesIn
  <1> HIDE DEF h, crates, dirty, m, d
  <1>8. \A i \in DOMAIN g.crates : CrateGrows(g.crates[i], crates[i])
    <2>1. \A c : CrateGrows(c, c)
      BY DEF CrateGrows, ResolutionGrows
    <2> QED BY <1>4, <1>7, <2>1
  <1>9. ASSUME NEW i \in DOMAIN crates, NEW r \in DOMAIN crates[i].resolutions, <<i, r>> \notin Range(dirty)
        PROVE  r \in DOMAIN g.crates[i].resolutions /\ crates[i].resolutions[r] = g.crates[i].resolutions[r]
    <2>1. CASE i # k
      BY <1>4, <2>1
    <2>2. CASE i = k
      <3>1. r # m \/ m = 0
        BY <1>5, <1>9, <2>2
      <3>2. r # 0
        <4>1. IsVector(d.resolutions) /\ r \in DOMAIN d.resolutions
          BY <1>4, <1>7, <1>9, <2>2 DEF IsCrate
        <4>2. Len(d.resolutions) \in Nat /\ DOMAIN d.resolutions = 1..Len(d.resolutions)
          BY <4>1, VectorIndices
        <4> QED BY <4>1, <4>2
      <3> QED BY <1>4, <1>7, <2>2, <3>1, <3>2
    <2> QED BY <2>1, <2>2
  <1>10. GraphGrows(g, h)
    BY <1>4, <1>5, <1>6, <1>8, <1>9 DEF GraphGrows
  <1>11. IsGraph(h)
    <2>1. h = [targets |-> h.targets, crates |-> h.crates, unknowns |-> h.unknowns, dirty |-> h.dirty]
      BY <1>3, <1>6
    <2>2. \A i \in DOMAIN h.crates : IsCrate(h.crates[i])
      BY <1>4, <1>6, <1>7 DEF IsGraph
    <2>3. ASSUME NEW i \in DOMAIN h.dirty PROVE IsPlace(h, h.dirty[i])
      <3>1. h.dirty[i] \in Range(dirty)
        BY <1>6 DEF Range
      <3>2. CASE h.dirty[i] \in Range(g.dirty)
        <4>1. IsPlace(g, h.dirty[i])
          BY <3>2 DEF IsGraph, Range
        <4> QED BY <1>10, <4>1, PlacesKept
      <3>3. CASE m # 0 /\ h.dirty[i] = <<k, m>>
        BY <1>4, <1>6, <1>7, <3>3 DEF IsPlace
      <3> QED BY <1>5, <3>1, <3>2, <3>3
    <2> QED BY <1>4, <1>5, <1>6, <2>1, <2>2, <2>3 DEF IsGraph
  <1>12. IsResolved(h, dep, features, origins)
    <2>1. h.crates[k] = d /\ d \in Range(h.crates)
      BY <1>4, <1>6 DEF Range
    <2>2. d.registry = dep.registry /\ d.name = dep.name
      BY <1>7 DEF CrateGrows
    <2> QED BY <1>7, <2>1, <2>2 DEF IsResolved
  <1>13. GraphResolves(g, h, dep, features, origins)
    BY <1>10, <1>11, <1>12 DEF GraphResolves
  <1> QED BY <1>13 DEF h

LEMMA ResolveNewResolves ==
    ASSUME NEW g, IsGraph(g), NEW dep, IsDependency(dep), NEW features, IsFiniteSet(features), NEW origins,
           NEW versions, IsVector(versions), \A i \in DOMAIN versions : IsListed(versions[i])
    PROVE  GraphResolves(g, ResolveNew(g, dep, features, origins, versions), dep, features, origins)
  <1> DEFINE c == NewCrate(dep, versions)
             crates == Append(g.crates, c)
             n == Len(g.crates)
             f == [g EXCEPT !.crates = Append(@, c)]
             h == ResolveCrate(f, n + 1, dep, features, origins)
  <1>1. IsCrate(c) /\ c.resolutions = << >> /\ c.registry = dep.registry /\ c.name = dep.name
    BY NewCrateIsCrate
  <1> HIDE DEF c
  <1>2. f = [targets |-> g.targets, crates |-> crates, unknowns |-> g.unknowns, dirty |-> g.dirty]
    <2>1. DOMAIN f = {"targets", "crates", "unknowns", "dirty"} /\ f = [x \in DOMAIN f |-> f[x]]
      BY DEF IsGraph
    <2>2. f.targets = g.targets /\ f.crates = crates /\ f.unknowns = g.unknowns /\ f.dirty = g.dirty
      BY DEF IsGraph
    <2> HIDE DEF f, crates
    <2> QED BY <2>1, <2>2
  <1>3. f.targets = g.targets /\ f.crates = crates /\ f.unknowns = g.unknowns /\ f.dirty = g.dirty
    <2> HIDE DEF f, crates
    <2> QED BY <1>2
  <1>4. /\ IsVector(crates) /\ n \in Nat /\ DOMAIN g.crates = 1..n /\ DOMAIN crates = 1..(n + 1)
        /\ crates[n + 1] = c /\ \A i \in 1..n : crates[i] = g.crates[i]
    <2>1. IsVector(g.crates)
      BY DEF IsGraph
    <2> QED BY <2>1, AppendVector
  <1>5. \A i : i \in 1..(n + 1) <=> i \in 1..n \/ i = n + 1
    BY <1>4
  <1> HIDE DEF f, crates, n
  <1>6. GraphGrows(g, f)
    <2>1. \A i \in DOMAIN g.crates : i \in DOMAIN f.crates /\ CrateGrows(g.crates[i], f.crates[i])
      BY <1>3, <1>4, <1>5 DEF CrateGrows, ResolutionGrows
    <2>2. ASSUME NEW k \in DOMAIN f.crates, NEW r \in DOMAIN f.crates[k].resolutions
          PROVE  /\ k \in DOMAIN g.crates /\ r \in DOMAIN g.crates[k].resolutions
                 /\ f.crates[k].resolutions[r] = g.crates[k].resolutions[r]
      <3>1. k # n + 1
        <4>1. DOMAIN << >> = {}
          OBVIOUS
        <4> QED BY <1>1, <1>3, <1>4, <4>1
      <3> QED BY <1>3, <1>4, <1>5, <3>1
    <2> QED BY <1>3, <2>1, <2>2 DEF GraphGrows
  <1>7. IsGraph(f)
    <2>1. f = [targets |-> f.targets, crates |-> f.crates, unknowns |-> f.unknowns, dirty |-> f.dirty]
      BY <1>2, <1>3
    <2>2. \A i \in DOMAIN f.crates : IsCrate(f.crates[i])
      BY <1>1, <1>3, <1>4, <1>5 DEF IsGraph
    <2>3. \A i \in DOMAIN f.dirty : IsPlace(f, f.dirty[i])
      BY <1>3, <1>6, PlacesKept DEF IsGraph
    <2>4. IsVector(f.dirty) /\ IsVector(f.crates)
      BY <1>3, <1>4 DEF IsGraph
    <2> QED BY <2>1, <2>2, <2>3, <2>4 DEF IsGraph
  <1>8. /\ n + 1 \in DOMAIN f.crates
        /\ f.crates[n + 1].registry = dep.registry /\ f.crates[n + 1].name = dep.name
    BY <1>1, <1>3, <1>4, <1>5
  <1>9. GraphResolves(f, h, dep, features, origins)
    <2> HIDE DEF h
    <2>1. h = ResolveCrate(f, n + 1, dep, features, origins)
      BY DEF h
    <2> QED BY <1>7, <1>8, <2>1, ResolveCrateResolves
  <1>10. ResolveNew(g, dep, features, origins, versions) = h
    BY DEF ResolveNew, f, n, c
  <1> HIDE DEF h
  <1> QED BY <1>6, <1>9, <1>10, GraphGrowsTwice DEF GraphResolves

LEMMA ResolveFailedResolves ==
    ASSUME NEW g, IsGraph(g), NEW dep, NEW features, NEW origins
    PROVE  GraphResolves(g, ResolveFailed(g, dep), dep, features, origins)
  <1> DEFINE h == ResolveFailed(g, dep)
             unknowns == g.unknowns \cup {<<dep.registry, dep.name>>}
  <1>1. h = [targets |-> g.targets, crates |-> g.crates, unknowns |-> unknowns, dirty |-> g.dirty]
    BY DEF ResolveFailed, IsGraph
  <1>2. h.targets = g.targets /\ h.crates = g.crates /\ h.unknowns = unknowns /\ h.dirty = g.dirty
    <2> HIDE DEF h
    <2> QED BY <1>1
  <1> HIDE DEF h
  <1>3. GraphGrows(g, h)
    BY <1>2 DEF GraphGrows, CrateGrows, ResolutionGrows
  <1>4. IsGraph(h)
    <2>1. h = [targets |-> h.targets, crates |-> h.crates, unknowns |-> h.unknowns, dirty |-> h.dirty]
      BY <1>1, <1>2
    <2> QED BY <1>2, <2>1 DEF IsGraph, IsPlace
  <1>5. IsResolved(h, dep, features, origins)
    BY <1>2 DEF IsResolved, is_unknown
  <1>6. GraphResolves(g, h, dep, features, origins)
    BY <1>3, <1>4, <1>5 DEF GraphResolves
  <1> QED BY <1>6 DEF h

LEMMA ResolveKnownResolves ==
    ASSUME NEW g, IsGraph(g), NEW dep, IsDependency(dep), ~NeedsVersions(g, dep),
           NEW features, IsFiniteSet(features), NEW origins
    PROVE  GraphResolves(g, ResolveKnown(g, dep, features, origins), dep, features, origins)
  <1>1. CASE is_unknown(g, dep)
    <2>1. ResolveKnown(g, dep, features, origins) = g
      BY <1>1 DEF ResolveKnown
    <2>2. GraphGrows(g, g)
      BY DEF GraphGrows, CrateGrows, ResolutionGrows
    <2> QED BY <1>1, <2>1, <2>2 DEF GraphResolves, IsResolved
  <1>2. CASE ~is_unknown(g, dep)
    <2> DEFINE k == get_crate(g, dep)
    <2>1. ResolveKnown(g, dep, features, origins) = ResolveCrate(g, k, dep, features, origins)
      BY <1>2 DEF ResolveKnown
    <2>2. k # 0
      BY <1>2 DEF NeedsVersions
    <2>3. k \in DOMAIN g.crates /\ g.crates[k].registry = dep.registry /\ g.crates[k].name = dep.name
      <3>1. IsVector(g.crates)
        BY DEF IsGraph
      <3> QED BY <2>2, <3>1, CrateFound
    <2> HIDE DEF k
    <2> QED BY <2>1, <2>3, ResolveCrateResolves
  <1> QED BY <1>1, <1>2

-----------------------------------------------------------------------------
(* What is left to resolve                                                 *)

(* What a need was asked with, when it has its place in the next graph.    *)
IsMet(g, h, ask) ==
    LET origins == IF ask.from = << >> THEN {Direct(ask.dep.kind)}
                   ELSE ChildOrigins(g.crates[ask.from[1]].resolutions[ask.from[2]].origins, ask.dep.kind)
    IN  origins = {} \/ IsResolved(h, ask.dep, ask.features, origins)

LEMMA NeedsKept ==
    ASSUME NEW g, NEW h, GraphGrows(g, h), NEW needs, AreNeeds(g, needs), needs # << >>
    PROVE  AreNeeds(h, Tail(needs))
  <1>1. IsVector(needs)
    BY DEF AreNeeds
  <1>2. IsVector(Tail(needs)) /\ \A x : x \in Range(needs) <=> x = Head(needs) \/ x \in Range(Tail(needs))
    BY <1>1, TailVector
  <1>3. ASSUME NEW i \in DOMAIN Tail(needs) PROVE IsNeed(h, Tail(needs)[i])
    <2>1. Tail(needs)[i] \in Range(Tail(needs))
      BY DEF Range
    <2>2. Tail(needs)[i] \in Range(needs)
      BY <1>2, <2>1
    <2>3. IsNeed(g, Tail(needs)[i])
      BY <2>2 DEF AreNeeds, Range
    <2> QED BY <2>3, PlacesKept DEF IsNeed
  <1> QED BY <1>2, <1>3 DEF AreNeeds

(* A resolution that is not dirty was visited before, with the features    *)
(* and the origins that it still has.                                      *)
LEMMA ClosingKept ==
    ASSUME NEW g, NEW h, GraphGrows(g, h), NEW needs, IsVector(needs), needs # << >>,
           IsClosing(g, needs), IsMet(g, h, Head(needs))
    PROVE  IsClosing(h, Tail(needs))
  <1> SUFFICES ASSUME NEW k \in DOMAIN h.crates, NEW r \in DOMAIN h.crates[k].resolutions,
                      <<k, r>> \notin Range(h.dirty)
               PROVE  IsVisited(h, Tail(needs), k, r)
    BY DEF IsClosing
  <1>1. /\ k \in DOMAIN g.crates /\ r \in DOMAIN g.crates[k].resolutions
        /\ h.crates[k].resolutions[r] = g.crates[k].resolutions[r]
        /\ h.crates[k].versions = g.crates[k].versions /\ h.targets = g.targets
    BY DEF GraphGrows, CrateGrows
  <1>2. <<k, r>> \notin Range(g.dirty)
    BY DEF GraphGrows
  <1>3. IsVisited(g, needs, k, r)
    BY <1>1, <1>2 DEF IsClosing
  <1> DEFINE s == g.crates[k].resolutions[r]
             version == g.crates[k].versions[s.version_index]
             active == get_active_features(s, version)
  <1>4. ASSUME NEW dep \in Range(version.deps), is_active_for(dep, g.targets, active),
               ChildOrigins(s.origins, dep.kind) # {}
        PROVE  \/ IsResolved(h, dep, SubFeatures(dep, active), ChildOrigins(s.origins, dep.kind))
               \/ Need(dep, SubFeatures(dep, active), <<k, r>>) \in Range(Tail(needs))
    <2> DEFINE need == Need(dep, SubFeatures(dep, active), <<k, r>>)
               origins == ChildOrigins(s.origins, dep.kind)
    <2>1. IsResolved(g, dep, SubFeatures(dep, active), origins) \/ need \in Range(needs)
      BY <1>3, <1>4 DEF IsVisited
    <2>2. CASE IsResolved(g, dep, SubFeatures(dep, active), origins)
      <3> HIDE DEF origins, active
      <3> QED BY <2>2, ResolvedKept DEF origins
    <2>3. CASE need = Head(needs)
      <3>1. need.from = <<k, r>> /\ need.dep = dep /\ need.features = SubFeatures(dep, active)
        BY DEF Need
      <3>2. need.from # << >> /\ need.from[1] = k /\ need.from[2] = r
        <4>1. \A place : place = <<k, r>> => place # << >> /\ place[1] = k /\ place[2] = r
          OBVIOUS
        <4> HIDE DEF need
        <4> QED BY <3>1, <4>1
      <3>3. IsMet(g, h, need)
        BY <2>3
      <3> HIDE DEF need
      <3>4. origins = {} \/ IsResolved(h, dep, SubFeatures(dep, active), origins)
        BY <3>1, <3>2, <3>3 DEF IsMet
      <3> QED BY <1>4, <3>4
    <2>4. need \in Range(needs) => need = Head(needs) \/ need \in Range(Tail(needs))
      BY TailVector
    <2> QED BY <2>1, <2>2, <2>3, <2>4
  <1> QED BY <1>1, <1>4 DEF IsVisited

LEMMA DirectsKept ==
    ASSUME NEW g, NEW h, GraphGrows(g, h), NEW needs, IsVector(needs), needs # << >>,
           NEW directs, AreDirects(g, needs, directs), IsMet(g, h, Head(needs))
    PROVE  AreDirects(h, Tail(needs), directs)
  <1> SUFFICES ASSUME NEW dep \in Range(directs)
               PROVE  \/ IsResolved(h, dep, {}, {Direct(dep.kind)})
                      \/ Need(dep, {}, << >>) \in Range(Tail(needs))
    BY DEF AreDirects
  <1> DEFINE need == Need(dep, {}, << >>)
  <1>1. IsResolved(g, dep, {}, {Direct(dep.kind)}) \/ need \in Range(needs)
    BY DEF AreDirects
  <1>2. CASE IsResolved(g, dep, {}, {Direct(dep.kind)})
    BY <1>2, ResolvedKept
  <1>3. CASE need = Head(needs)
    <2>1. need.from = << >> /\ need.dep = dep /\ need.features = {}
      BY DEF Need
    <2>2. IsMet(g, h, need)
      BY <1>3
    <2> HIDE DEF need
    <2> QED BY <2>1, <2>2 DEF IsMet
  <1>4. need \in Range(needs) => need = Head(needs) \/ need \in Range(Tail(needs))
    BY TailVector
  <1> QED BY <1>1, <1>2, <1>3, <1>4

-----------------------------------------------------------------------------
(* The steps of the worker on the graph                                    *)

LEMMA EmptyIsVector == IsVector(<< >>) /\ Range(<< >>) = {} /\ DOMAIN << >> = {}
  BY EmptySeq DEF IsVector, Range

LEMMA FirstGraph ==
    ASSUME NEW targets
    PROVE  IsGraph(NewGraph(targets)) /\ NewGraph(targets).crates = << >> /\ NewGraph(targets).dirty = << >>
  BY EmptyIsVector DEF NewGraph, IsGraph

(* Nothing is left of the analysis.                                        *)
LEMMA GraphForgotten ==
    ASSUME graph' = NewGraph({}), todo' = << >>, wpc' \notin {"resolve", "advise"}
    PROVE  GraphInv'
  <1>1. IsGraph(graph')
    BY FirstGraph
  <1>2. AreNeeds(graph', todo')
    BY EmptyIsVector DEF AreNeeds
  <1> QED BY <1>1, <1>2 DEF GraphInv

(* The graph is as it was.                                                 *)
LEMMA GraphLeft ==
    ASSUME GraphInv, UNCHANGED <<graph, todo>>,
           wpc' \in {"resolve", "advise"} => wpc' = wpc /\ current' = current
    PROVE  GraphInv'
  BY DEF GraphInv, ActiveDirects

(* The direct dependencies are the first to resolve, in a graph that has   *)
(* nothing.                                                                *)
LEMMA StartJobGraph ==
    ASSUME GraphInv, StartJob, jobs \in Seq(Versions), jobs # << >>
    PROVE  GraphInv'
  <1> DEFINE v == Head(jobs)
             directs == ActiveDirects(v)
             targets == IF Targets[v] = {} THEN {Host} ELSE Targets[v]
             needs == [i \in DOMAIN directs |-> Need(directs[i], {}, << >>)]
  <1>1. v \in Versions
    OBVIOUS
  <1>2. CASE v \notin present
    <2>1. graph' = NewGraph({}) /\ todo' = << >> /\ wpc' = "idle"
      BY <1>2 DEF StartJob, AbortRound, Forget
    <2> QED BY <2>1, GraphForgotten
  <1>3. CASE v \in present
    <2>1. wpc' = "resolve" /\ current' = v /\ graph' = NewGraph(targets) /\ todo' = needs
      BY <1>3 DEF StartJob
    <2>2. IsVector(directs) /\ \A dep \in Range(directs) : IsDependency(dep)
      <3>1. IsVector(Directs[v]) /\ \A dep \in Range(Directs[v]) : IsDependency(dep)
        BY <1>1, CatalogAssumption
      <3> HIDE DEF v
      <3>2. directs = active_deps(Directs[v], Targets[v], {})
        BY DEF ActiveDirects
      <3> HIDE DEF directs
      <3> QED BY <3>1, <3>2, ActiveDeps
    <2> HIDE DEF v, directs, targets
    <2>3. Len(directs) \in Nat /\ DOMAIN directs = 1..Len(directs)
      BY <2>2, VectorIndices
    <2>4. IsVector(needs)
      <3>1. DOMAIN needs = 1..Len(directs) /\ needs = [i \in DOMAIN needs |-> needs[i]]
        BY <2>3
      <3> HIDE DEF needs
      <3> QED BY <2>3, <3>1, MadeVector
    <2>5. AreNeeds(graph', needs)
      <3>1. ASSUME NEW i \in DOMAIN needs PROVE IsNeed(graph', needs[i])
        <4>1. directs[i] \in Range(directs)
          BY DEF Range
        <4>2. needs[i] = Need(directs[i], {}, << >>) /\ IsDependency(directs[i])
          BY <2>2, <4>1
        <4>3. IsFiniteSet({})
          BY FS_EmptySet
        <4> HIDE DEF needs
        <4> QED BY <4>2, <4>3 DEF IsNeed, Need
      <3> QED BY <2>4, <3>1 DEF AreNeeds
    <2>6. AreDirects(graph', needs, directs)
      BY DEF AreDirects, Range
    <2>7. IsGraph(graph') /\ IsClosing(graph', needs)
      <3>1. IsGraph(graph') /\ graph'.crates = << >>
        BY <2>1, FirstGraph
      <3> QED BY <3>1, EmptyIsVector DEF IsClosing
    <2> HIDE DEF needs
    <2>8. ActiveDirects(current)' = directs
      BY <2>1 DEF directs, ActiveDirects
    <2> QED BY <2>1, <2>5, <2>6, <2>7, <2>8 DEF GraphInv
  <1> QED BY <1>2, <1>3

(* Versions that were obtained are those of an index, or of the toolchain. *)
LEMMA VersionsListed ==
    ASSUME NEW reg, NEW name, get_dependency_versions(reg, name, TRUE)
    PROVE  /\ IsVector(VersionsOf(reg, name))
           /\ \A i \in DOMAIN VersionsOf(reg, name) : IsListed(VersionsOf(reg, name)[i])
  <1>1. CASE reg = Builtin
    <2> DEFINE version == [rank |-> 1, yanked |-> FALSE, pre |-> FALSE, features |-> << >>, deps |-> << >>]
    <2>1. VersionsOf(reg, name) = << version >>
      BY <1>1 DEF VersionsOf
    <2>2. IsListed(version)
      <3>1. KnownFeatures(version) = {}
        BY EmptyIsVector DEF KnownFeatures
      <3> QED BY <3>1, EmptyIsVector, FS_EmptySet DEF IsListed
    <2> HIDE DEF version
    <2>3. DOMAIN << version >> = 1..1 /\ << version >>[1] = version
      OBVIOUS
    <2>4. IsVector(<< version >>)
      BY DEF IsVector, Range
    <2> QED BY <2>1, <2>2, <2>3, <2>4
  <1>2. CASE reg # Builtin
    <2>1. Lists(reg, name)
      BY <1>2 DEF get_dependency_versions, get_dependency_info_git, get_dependency_info_sparse
    <2>2. VersionsOf(reg, name) = Catalog[reg][name]
      BY <1>2 DEF VersionsOf
    <2> QED BY <2>1, <2>2, CatalogAssumption DEF Lists, Range
  <1> QED BY <1>1, <1>2

LEMMA GraphStays ==
    ASSUME NEW g
    PROVE  GraphGrows(g, g)
  BY DEF GraphGrows, CrateGrows, ResolutionGrows

(* Whatever becomes of the first dependency to resolve, it is met.         *)
LEMMA FirstIsMet ==
    ASSUME GraphInv, ResolveNext
    PROVE  /\ IsGraph(graph') /\ GraphGrows(graph, graph')
           /\ (wpc' = "dead" \/ (wpc' = "resolve" /\ IsMet(graph, graph', Head(todo))))
  <1> DEFINE ask == Head(todo)
             origins == OriginsOf(ask)
  <1>1. IsGraph(graph) /\ IsVector(todo) /\ todo # << >> /\ wpc = "resolve"
    BY DEF GraphInv, AreNeeds, ResolveNext
  <1>2. IsDependency(ask.dep) /\ IsFiniteSet(ask.features)
    <2>1. ask \in Range(todo)
      BY <1>1, TailVector
    <2> HIDE DEF ask
    <2>2. IsNeed(graph, ask)
      BY <2>1 DEF GraphInv, AreNeeds, Range
    <2> QED BY <2>2 DEF IsNeed
  <1>3. ASSUME NEW h, origins = {} \/ IsResolved(h, ask.dep, ask.features, origins)
        PROVE  IsMet(graph, h, ask)
    <2> HIDE DEF ask
    <2> QED BY <1>3 DEF IsMet, OriginsOf
  <1>4. ASSUME GraphResolves(graph, graph', ask.dep, ask.features, origins)
        PROVE  IsGraph(graph') /\ GraphGrows(graph, graph') /\ IsMet(graph, graph', ask)
    <2> HIDE DEF ask, origins
    <2> QED BY <1>3, <1>4 DEF GraphResolves
  <1>5. CASE origins = {} /\ UNCHANGED <<wpc, graph, copies, faults>>
    <2> HIDE DEF ask, origins
    <2>1. IsMet(graph, graph', ask)
      BY <1>3, <1>5
    <2> QED BY <1>1, <1>5, <2>1, GraphStays DEF ask
  <1>6. CASE /\ origins # {} /\ ~NeedsVersions(graph, ask.dep)
             /\ graph' = ResolveKnown(graph, ask.dep, ask.features, origins)
             /\ UNCHANGED <<wpc, copies, faults>>
    <2> HIDE DEF ask, origins
    <2>1. GraphResolves(graph, graph', ask.dep, ask.features, origins)
      BY <1>1, <1>2, <1>6, ResolveKnownResolves
    <2> QED BY <1>1, <1>4, <1>6, <2>1 DEF ask
  <1>7. ASSUME NEW ok \in BOOLEAN, get_dependency_versions(ask.dep.registry, ask.dep.name, ok),
               ResolveWithVersions(ask, ok)
        PROVE  /\ IsGraph(graph') /\ GraphGrows(graph, graph')
               /\ (wpc' = "dead" \/ (wpc' = "resolve" /\ IsMet(graph, graph', ask)))
    <2> DEFINE versions == VersionsOf(ask.dep.registry, ask.dep.name)
    <2>1. CASE ~ok /\ graph' = ResolveFailed(graph, ask.dep) /\ UNCHANGED wpc
      <3> HIDE DEF ask, origins
      <3>1. GraphResolves(graph, graph', ask.dep, ask.features, origins)
        BY <1>1, <2>1, ResolveFailedResolves
      <3> QED BY <1>1, <1>4, <2>1, <3>1
    <2>2. CASE ok /\ graph' = ResolveNew(graph, ask.dep, ask.features, origins, versions) /\ UNCHANGED wpc
      <3> HIDE DEF ask, origins, versions
      <3>1. IsVector(versions) /\ \A i \in DOMAIN versions : IsListed(versions[i])
        <4>1. ok = TRUE
          BY <2>2
        <4> QED BY <1>7, <4>1, VersionsListed, Zenon DEF versions
      <3>2. GraphResolves(graph, graph', ask.dep, ask.features, origins)
        BY <1>1, <1>2, <2>2, <3>1, ResolveNewResolves
      <3> QED BY <1>1, <1>4, <2>2, <3>2
    <2>3. CASE wpc' = "dead" /\ UNCHANGED graph
      BY <1>1, <2>3, GraphStays
    <2>4. \/ ~ok /\ graph' = ResolveFailed(graph, ask.dep) /\ UNCHANGED wpc
          \/ ok /\ graph' = ResolveNew(graph, ask.dep, ask.features, origins, versions) /\ UNCHANGED wpc
          \/ wpc' = "dead" /\ UNCHANGED graph
      BY <1>7 DEF ResolveWithVersions
    <2> QED BY <2>1, <2>2, <2>3, <2>4
  <1>8. \/ origins = {} /\ UNCHANGED <<wpc, graph, copies, faults>>
        \/ /\ origins # {} /\ ~NeedsVersions(graph, ask.dep)
           /\ graph' = ResolveKnown(graph, ask.dep, ask.features, origins)
           /\ UNCHANGED <<wpc, copies, faults>>
        \/ \E ok \in BOOLEAN :
              /\ get_dependency_versions(ask.dep.registry, ask.dep.name, ok)
              /\ ResolveWithVersions(ask, ok)
    BY DEF ResolveNext
  <1> QED BY <1>5, <1>6, <1>7, <1>8

LEMMA ResolveNextGraph ==
    ASSUME GraphInv, ResolveNext
    PROVE  GraphInv'
  <1>1. /\ IsGraph(graph') /\ GraphGrows(graph, graph')
        /\ (wpc' = "dead" \/ (wpc' = "resolve" /\ IsMet(graph, graph', Head(todo))))
    BY FirstIsMet
  <1>2. wpc = "resolve" /\ todo # << >> /\ todo' = Tail(todo) /\ current' = current
    BY DEF ResolveNext
  <1>3. IsVector(todo) /\ AreNeeds(graph', Tail(todo))
    BY <1>1, <1>2, NeedsKept DEF GraphInv, AreNeeds
  <1>4. CASE wpc' = "dead"
    BY <1>1, <1>2, <1>3, <1>4 DEF GraphInv
  <1>5. CASE wpc' = "resolve" /\ IsMet(graph, graph', Head(todo))
    <2>1. IsClosing(graph', Tail(todo))
      BY <1>1, <1>2, <1>3, <1>5, ClosingKept DEF GraphInv
    <2>2. AreDirects(graph', Tail(todo), ActiveDirects(current))
      BY <1>1, <1>2, <1>3, <1>5, DirectsKept DEF GraphInv
    <2> QED BY <1>1, <1>2, <1>3, <1>5, <2>1, <2>2 DEF GraphInv, ActiveDirects
  <1> QED BY <1>1, <1>4, <1>5

(* The resolution that is visited asks for all that it still needs.        *)
LEMMA PopDirtyGraph ==
    ASSUME GraphInv, PopDirty
    PROVE  GraphInv'
  <1> DEFINE place == Last(graph.dirty)
             k == place[1]
             r == place[2]
             c == graph.crates[k]
             s == c.resolutions[r]
             version == c.versions[s.version_index]
             active == get_active_features(s, version)
             deps == get_active_deps_in(c, r, graph.targets)
             needs == [i \in DOMAIN deps |-> Need(deps[i].dep, deps[i].features, <<k, r>>)]
             dirty == Front(graph.dirty)
             h == [graph EXCEPT !.dirty = dirty]
  <1>1. /\ wpc = "resolve" /\ todo = << >> /\ graph.dirty # << >>
        /\ todo' = needs /\ graph' = h /\ wpc' = wpc /\ current' = current
    BY DEF PopDirty
  <1>2. IsGraph(graph) /\ IsVector(graph.dirty)
    BY DEF GraphInv, IsGraph
  <1>3. /\ IsVector(dirty) /\ place \in Range(graph.dirty)
        /\ \A x : x \in Range(graph.dirty) <=> x = place \/ x \in Range(dirty)
    BY <1>1, <1>2, FrontVector
  <1> HIDE DEF place, dirty
  <1>4. place = <<k, r>> /\ k \in DOMAIN graph.crates /\ r \in DOMAIN c.resolutions
    <2>1. IsPlace(graph, place)
      BY <1>2, <1>3 DEF IsGraph, Range
    <2> QED BY <2>1 DEF IsPlace
  <1>5. h = [targets |-> graph.targets, crates |-> graph.crates, unknowns |-> graph.unknowns, dirty |-> dirty]
    BY <1>2 DEF IsGraph
  <1>6. h.targets = graph.targets /\ h.crates = graph.crates /\ h.unknowns = graph.unknowns /\ h.dirty = dirty
    <2> HIDE DEF h
    <2> QED BY <1>5
  <1> HIDE DEF h
  <1>7. IsCrate(c) /\ IsResolution(c, s) /\ IsListed(version)
    <2>1. IsCrate(c)
      BY <1>2, <1>4 DEF IsGraph
    <2> QED BY <1>4, <2>1 DEF IsCrate, IsResolution
  <1>8. /\ IsVector(deps)
        /\ \A x : x \in Range(deps) <=> \E dep \in Range(version.deps) :
              /\ is_active_for(dep, graph.targets, active)
              /\ x = [dep |-> dep, features |-> SubFeatures(dep, active)]
    <2> HIDE DEF c
    <2> QED BY <1>4, <1>7, AskedDeps
  <1>9. IsFiniteSet(active)
    <2> HIDE DEF c, s
    <2> QED BY <1>7, ActiveFeatures
  <1> HIDE DEF c, k, r, s, version, active, deps
  <1>10. Len(deps) \in Nat /\ DOMAIN deps = 1..Len(deps)
    BY <1>8, VectorIndices
  <1>11. IsVector(needs)
    <2>1. DOMAIN needs = 1..Len(deps) /\ needs = [i \in DOMAIN needs |-> needs[i]]
      BY <1>10
    <2> HIDE DEF needs
    <2> QED BY <1>10, <2>1, MadeVector
  <1>12. \A x : x \in Range(needs) <=> \E dep \in Range(version.deps) :
              /\ is_active_for(dep, graph.targets, active)
              /\ x = Need(dep, SubFeatures(dep, active), <<k, r>>)
    <2>1. \A x : x \in Range(needs) <=> \E d \in Range(deps) : x = Need(d.dep, d.features, <<k, r>>)
      BY DEF Range
    <2>2. \A dep, features : LET d == [dep |-> dep, features |-> features]
                             IN  Need(d.dep, d.features, <<k, r>>) = Need(dep, features, <<k, r>>)
      OBVIOUS
    <2> HIDE DEF needs
    <2>3. ASSUME NEW x \in Range(needs)
          PROVE  \E dep \in Range(version.deps) :
                    /\ is_active_for(dep, graph.targets, active)
                    /\ x = Need(dep, SubFeatures(dep, active), <<k, r>>)
      <3>1. PICK d \in Range(deps) : x = Need(d.dep, d.features, <<k, r>>)
        BY <2>1
      <3>2. PICK dep \in Range(version.deps) :
              /\ is_active_for(dep, graph.targets, active)
              /\ d = [dep |-> dep, features |-> SubFeatures(dep, active)]
        BY <1>8
      <3> QED BY <2>2, <3>1, <3>2
    <2>4. ASSUME NEW dep \in Range(version.deps), is_active_for(dep, graph.targets, active)
          PROVE  Need(dep, SubFeatures(dep, active), <<k, r>>) \in Range(needs)
      <3> DEFINE d == [dep |-> dep, features |-> SubFeatures(dep, active)]
      <3>1. d \in Range(deps)
        BY <1>8, <2>4
      <3>2. Need(d.dep, d.features, <<k, r>>) = Need(dep, SubFeatures(dep, active), <<k, r>>)
        BY <2>2
      <3> HIDE DEF d
      <3> QED BY <2>1, <3>1, <3>2
    <2> QED BY <2>3, <2>4
  <1> HIDE DEF needs
  <1>13. IsPlace(h, <<k, r>>) /\ \A x : IsPlace(graph, x) => IsPlace(h, x)
    BY <1>4, <1>6 DEF IsPlace, c
  <1>14. AreNeeds(h, needs)
    <2>1. ASSUME NEW i \in DOMAIN needs PROVE IsNeed(h, needs[i])
      <3>1. needs[i] \in Range(needs)
        BY DEF Range
      <3>2. PICK dep \in Range(version.deps) : needs[i] = Need(dep, SubFeatures(dep, active), <<k, r>>)
        BY <1>12, <3>1
      <3>3. IsDependency(dep)
        BY <1>7 DEF IsListed
      <3>4. IsFiniteSet(SubFeatures(dep, active))
        BY <1>9, SubFeaturesFinite
      <3>5. \A d, f, p : LET need == Need(d, f, p) IN
                need.dep = d /\ need.features = f /\ need.from = p /\ need = Need(need.dep, need.features, need.from)
        BY DEF Need
      <3> QED BY <1>13, <3>2, <3>3, <3>4, <3>5 DEF IsNeed
    <2> QED BY <1>11, <2>1 DEF AreNeeds
  <1>15. IsGraph(h)
    <2>1. \A i \in DOMAIN dirty : IsPlace(h, dirty[i])
      <3> TAKE i \in DOMAIN dirty
      <3>1. dirty[i] \in Range(graph.dirty)
        BY <1>3 DEF Range
      <3>2. IsPlace(graph, dirty[i])
        BY <1>2, <3>1 DEF IsGraph, Range
      <3> QED BY <1>13, <3>2
    <2> QED BY <1>2, <1>3, <1>5, <1>6, <2>1 DEF IsGraph
  <1>16. \A dep, features, origins :
            IsResolved(graph, dep, features, origins) => IsResolved(h, dep, features, origins)
    BY <1>6 DEF IsResolved, is_unknown
  <1>17. Range(todo) = {}
    BY <1>1, EmptyIsVector
  <1>18. IsClosing(h, needs)
    <2> SUFFICES ASSUME NEW i \in DOMAIN graph.crates, NEW j \in DOMAIN graph.crates[i].resolutions,
                        <<i, j>> \notin Range(dirty)
                 PROVE  IsVisited(h, needs, i, j)
      BY <1>6 DEF IsClosing
    <2>1. CASE <<i, j>> = <<k, r>>
      <3>1. i = k /\ j = r
        BY <2>1
      <3> QED BY <1>6, <1>12, <3>1 DEF IsVisited, c, s, version, active
    <2>2. CASE <<i, j>> # <<k, r>>
      <3>1. <<i, j>> \notin Range(graph.dirty)
        BY <1>3, <1>4, <2>2
      <3>2. IsVisited(graph, todo, i, j)
        BY <1>1, <3>1 DEF GraphInv, IsClosing
      <3> QED BY <1>6, <1>16, <1>17, <3>2 DEF IsVisited
    <2> QED BY <2>1, <2>2
  <1>19. AreDirects(h, needs, ActiveDirects(current))
    BY <1>1, <1>16, <1>17 DEF GraphInv, AreDirects
  <1> QED BY <1>1, <1>14, <1>15, <1>18, <1>19 DEF GraphInv, ActiveDirects

(* Nothing is dirty and nothing is left to resolve: the graph is closed.   *)
LEMMA CloseEndsGraph ==
    ASSUME GraphInv, CloseEnds
    PROVE  GraphInv'
  BY DEF GraphInv, CloseEnds, ActiveDirects

(* A step that gives up a round, or ends a job, or leaves the graph as it  *)
(* is while the worker does something else.                                *)
LEMMA OtherStepsGraph ==
    ASSUME GraphInv,
           \/ Tick \/ check_crate \/ set_crate_deps_analysis \/ RecordTimesOut
           \/ get_crate_owners \/ send_email \/ JobEnds
           \/ precache_crate_io \/ TimePasses \/ AdvisoryPublished
    PROVE  GraphInv'
  <1>1. ASSUME AbortRound \/ EndJob PROVE GraphInv'
    <2>1. graph' = NewGraph({}) /\ todo' = << >> /\ wpc' \in {"idle", "job"}
      BY <1>1 DEF AbortRound, EndJob, Forget
    <2> QED BY <2>1, GraphForgotten
  <1>2. CASE Tick
    BY <1>2, GraphLeft DEF Tick
  <1>3. CASE check_crate
    <2>1. AbortRound \/ (wpc' = "record" /\ UNCHANGED <<graph, todo>>)
      BY <1>3 DEF check_crate
    <2> QED BY <1>1, <2>1, GraphLeft
  <1>4. CASE set_crate_deps_analysis
    <2>1. AbortRound \/ (graph' = NewGraph({}) /\ todo' = << >> /\ wpc' \in {"end", "owners"})
      BY <1>4 DEF set_crate_deps_analysis
    <2> QED BY <1>1, <2>1, GraphForgotten
  <1>5. CASE RecordTimesOut \/ JobEnds
    BY <1>1, <1>5 DEF RecordTimesOut, JobEnds
  <1>6. CASE get_crate_owners
    <2>1. AbortRound \/ (wpc' = "mail" /\ UNCHANGED <<graph, todo>>)
      BY <1>6 DEF get_crate_owners
    <2> QED BY <1>1, <2>1, GraphLeft
  <1>7. CASE send_email
    <2>1. AbortRound \/ (wpc' \in {"end", "mail"} /\ UNCHANGED <<graph, todo>>)
      BY <1>7 DEF send_email
    <2> QED BY <1>1, <2>1, GraphLeft
  <1>8. CASE precache_crate_io \/ TimePasses \/ AdvisoryPublished
    <2>1. UNCHANGED workerVars
      BY <1>8 DEF precache_crate_io, TimePasses, AnalysisExpires, CopyExpires, RustsecExpires, AdvisoryPublished
    <2> QED BY <2>1, GraphLeft DEF workerVars
  <1> QED BY <1>2, <1>3, <1>4, <1>5, <1>6, <1>7, <1>8

LEMMA DepsGraphStep ==
    ASSUME GraphInv, DepsNext, jobs \in Seq(Versions), wpc = "job" => jobs # << >>
    PROVE  GraphInv'
  <1>1. CASE StartJob
    <2>1. jobs # << >>
      BY <1>1 DEF StartJob
    <2> QED BY <1>1, <2>1, StartJobGraph
  <1> QED BY <1>1, ResolveNextGraph, PopDirtyGraph, CloseEndsGraph, OtherStepsGraph DEF DepsNext, WorkerNext

-----------------------------------------------------------------------------
(* What the invariant says when the advisories are asked for               *)

(* The features that the visits used hold the least ones that are closed,  *)
(* and what has its place with more features has it with fewer.            *)
LEMMA ClosedWhenDone == GraphInv => GraphIsClosed
  <1> SUFFICES ASSUME GraphInv, wpc = "advise"
               PROVE  /\ IsClosed(graph)
                      /\ \A dep \in Range(ActiveDirects(current)) : IsResolved(graph, dep, {}, {Direct(dep.kind)})
    BY DEF GraphIsClosed
  <1>1. IsGraph(graph) /\ Range(todo) = {} /\ Range(graph.dirty) = {}
    BY EmptyIsVector DEF GraphInv
  <1>2. \A dep \in Range(ActiveDirects(current)) : IsResolved(graph, dep, {}, {Direct(dep.kind)})
    BY <1>1 DEF GraphInv, AreDirects
  <1>3. ASSUME NEW k \in DOMAIN graph.crates, NEW i \in DOMAIN graph.crates[k].resolutions
        PROVE  ClosedAt(graph, graph.crates[k], graph.crates[k].resolutions[i])
    <2> DEFINE c == graph.crates[k]
               r == c.resolutions[i]
               version == c.versions[r.version_index]
               active == get_active_features(r, version)
               least == LeastFeatures(c, r)
    <2>1. IsVisited(graph, todo, k, i)
      BY <1>1 DEF GraphInv, IsClosing
    <2>2. IsResolution(c, r) /\ IsListed(version)
      BY <1>1 DEF IsGraph, IsCrate, IsResolution
    <2>3. least \subseteq active
      <3> HIDE DEF c, r
      <3> QED BY <2>2, ActiveFeatures
    <2> HIDE DEF least
    <2>4. ASSUME NEW dep \in Range(version.deps), is_active_for(dep, graph.targets, least),
                 ChildOrigins(r.origins, dep.kind) # {}
          PROVE  IsResolved(graph, dep, SubFeatures(dep, least), ChildOrigins(r.origins, dep.kind))
      <3>1. is_active_for(dep, graph.targets, active)
        <4> HIDE DEF active
        <4> QED BY <2>3, <2>4 DEF is_active_for
      <3>2. IsResolved(graph, dep, SubFeatures(dep, active), ChildOrigins(r.origins, dep.kind))
        BY <1>1, <2>1, <2>4, <3>1 DEF IsVisited
      <3>3. SubFeatures(dep, least) \subseteq SubFeatures(dep, active)
        <4> HIDE DEF active
        <4> QED BY <2>3 DEF SubFeatures
      <3> HIDE DEF active, r
      <3> QED BY <3>2, <3>3 DEF IsResolved, HasPlace
    <2> QED BY <2>4 DEF ClosedAt, least
  <1>4. IsClosed(graph)
    BY <1>3 DEF IsClosed, Range
  <1> QED BY <1>2, <1>4
=============================================================================
