------------------------------ MODULE VecLemmas ------------------------------
(***************************************************************************)
(* Facts about sequences used as the Vecs of the program, what `push` and  *)
(* `remove` do to their elements, and about the loops over them, modelled  *)
(* as recursive functions.                                                 *)
(***************************************************************************)
EXTENDS Integers, SequencesExt, SequenceTheorems, WellFoundedInduction, TLAPS

(* What Vec::remove does to the elements of a sequence.                    *)
LEMMA RemoveAtElements ==
    ASSUME NEW S, NEW s \in Seq(S), NEW i \in 1..Len(s)
    PROVE  /\ RemoveAt(s, i) \in Seq(S)
           /\ Len(RemoveAt(s, i)) = Len(s) - 1
           /\ \A k \in 1..(Len(s) - 1) :
                 RemoveAt(s, i)[k] = IF k < i THEN s[k] ELSE s[k + 1]
  <1> DEFINE a == SubSeq(s, 1, i - 1)
             b == SubSeq(s, i + 1, Len(s))
  <1>0. Len(s) \in Nat /\ \A k \in 1..Len(s) : s[k] \in S
    BY LenProperties, ElementOfSeq
  <1>1. /\ a \in Seq(S)
        /\ Len(a) = i - 1
        /\ \A k \in 1..(i - 1) : a[k] = s[k]
    <2>1. \A k \in 1..(i - 1) : s[k] \in S
      BY <1>0
    <2>2. /\ a \in Seq(S)
          /\ Len(a) = IF 1 <= i - 1 THEN i - 1 - 1 + 1 ELSE 0
          /\ \A k \in 1..(i - 1 - 1 + 1) : a[k] = s[1 + k - 1]
      BY <2>1, <1>0, SubSeqProperties, i - 1 \in Int, 1 \in Int
    <2> HIDE DEF a
    <2> QED BY <2>2, <1>0
  <1>2. /\ b \in Seq(S)
        /\ Len(b) = Len(s) - i
        /\ \A k \in 1..(Len(s) - i) : b[k] = s[k + i]
    <2>1. \A k \in (i + 1)..Len(s) : s[k] \in S
      BY <1>0
    <2>2. /\ b \in Seq(S)
          /\ Len(b) = IF i + 1 <= Len(s) THEN Len(s) - (i + 1) + 1 ELSE 0
          /\ \A k \in 1..(Len(s) - (i + 1) + 1) : b[k] = s[(i + 1) + k - 1]
      BY <2>1, <1>0, SubSeqProperties, i + 1 \in Int, Len(s) \in Int
    <2> HIDE DEF b
    <2> QED BY <2>2, <1>0
  <1> HIDE DEF a, b
  <1>3. /\ a \o b \in Seq(S)
        /\ Len(a \o b) = Len(a) + Len(b)
        /\ \A k \in 1..(Len(a) + Len(b)) :
              (a \o b)[k] = IF k <= Len(a) THEN a[k] ELSE b[k - Len(a)]
    BY <1>1, <1>2, ConcatProperties
  <1>4. ASSUME NEW k \in 1..(Len(s) - 1)
        PROVE  (a \o b)[k] = IF k < i THEN s[k] ELSE s[k + 1]
    <2>1. CASE k < i
      BY <2>1, <1>0, <1>1, <1>2, <1>3
    <2>2. CASE ~ (k < i)
      <3>1. (a \o b)[k] = b[k - (i - 1)]
        BY <2>2, <1>0, <1>1, <1>2, <1>3
      <3>2. b[k - (i - 1)] = s[k - (i - 1) + i]
        BY <2>2, <1>0, <1>2
      <3> QED BY <3>1, <3>2, <2>2
    <2> QED BY <2>1, <2>2
  <1>5. RemoveAt(s, i) = a \o b
    BY DEF RemoveAt, a, b
  <1> QED BY <1>0, <1>1, <1>2, <1>3, <1>4, <1>5

(* Removing an element of a sequence without repetitions removes it from   *)
(* the set of its elements, and leaves no repetition.                      *)
LEMMA RemoveAtInjective ==
    ASSUME NEW S, NEW s \in Seq(S), NEW i \in 1..Len(s), IsInjective(s)
    PROVE  /\ IsInjective(RemoveAt(s, i))
           /\ ToSet(RemoveAt(s, i)) = ToSet(s) \ {s[i]}
  <1> DEFINE t == RemoveAt(s, i)
  <1>1. /\ t \in Seq(S)
        /\ Len(t) = Len(s) - 1
        /\ \A k \in 1..(Len(s) - 1) : t[k] = IF k < i THEN s[k] ELSE s[k + 1]
    BY RemoveAtElements
  <1> HIDE DEF t
  <1>2. DOMAIN s = 1..Len(s) /\ DOMAIN t = 1..(Len(s) - 1) /\ Len(s) \in Nat
    BY <1>1, LenProperties
  <1>3. \A k, l \in 1..Len(s) : s[k] = s[l] => k = l
    BY <1>2 DEF IsInjective
  <1>4. IsInjective(t)
    <2> SUFFICES ASSUME NEW k \in 1..(Len(s) - 1), NEW l \in 1..(Len(s) - 1), t[k] = t[l]
                 PROVE  k = l
      BY <1>2 DEF IsInjective
    <2>1. t[k] = (IF k < i THEN s[k] ELSE s[k + 1]) /\ t[l] = (IF l < i THEN s[l] ELSE s[l + 1])
      BY <1>1
    <2>2. k \in 1..Len(s) /\ k + 1 \in 1..Len(s) /\ l \in 1..Len(s) /\ l + 1 \in 1..Len(s)
      BY <1>2
    <2>3. CASE k < i /\ l < i
      BY <2>1, <2>2, <2>3, <1>3
    <2>4. CASE k < i /\ ~ (l < i)
      <3>1. t[k] = s[k] /\ t[l] = s[l + 1]
        BY <2>1, <2>4
      <3>2. k # l + 1
        BY <1>2, <2>4
      <3> QED BY <3>1, <3>2, <2>2, <1>3
    <2>5. CASE ~ (k < i) /\ l < i
      <3>1. t[k] = s[k + 1] /\ t[l] = s[l]
        BY <2>1, <2>5
      <3>2. k + 1 # l
        BY <1>2, <2>5
      <3> QED BY <3>1, <3>2, <2>2, <1>3
    <2>6. CASE ~ (k < i) /\ ~ (l < i)
      <3>1. t[k] = s[k + 1] /\ t[l] = s[l + 1]
        BY <2>1, <2>6
      <3>2. k + 1 = l + 1
        BY <3>1, <2>2, <1>3
      <3> QED BY <3>2, k \in Int, l \in Int
    <2> QED BY <2>3, <2>4, <2>5, <2>6
  <1>5. ASSUME NEW k \in 1..(Len(s) - 1)
        PROVE  t[k] \in ToSet(s) \ {s[i]}
    <2>1. \E l \in 1..Len(s) : l # i /\ t[k] = s[l]
      <3>1. CASE k < i
        BY <3>1, <1>1, <1>2
      <3>2. CASE ~ (k < i)
        BY <3>2, <1>1, <1>2, k + 1 \in 1..Len(s), k + 1 # i
      <3> QED BY <3>1, <3>2
    <2> QED BY <2>1, <1>2, <1>3 DEF ToSet
  <1>6. ASSUME NEW k \in 1..Len(s), k # i
        PROVE  s[k] \in ToSet(t)
    <2>1. CASE k < i
      <3>1. k \in 1..(Len(s) - 1) /\ t[k] = s[k]
        BY <2>1, <1>1, <1>2
      <3> QED BY <3>1, <1>2 DEF ToSet
    <2>2. CASE k > i
      <3>1. k - 1 \in 1..(Len(s) - 1) /\ t[k - 1] = s[k]
        BY <2>2, <1>1, <1>2
      <3> QED BY <3>1, <1>2 DEF ToSet
    <2> QED BY <2>1, <2>2, <1>6
  <1>7. ToSet(t) = ToSet(s) \ {s[i]}
    BY <1>2, <1>5, <1>6 DEF ToSet
  <1> QED BY <1>4, <1>7 DEF t

(* What Vec::push does: one more element, and no repetition if it is new.  *)
LEMMA PushElements ==
    ASSUME NEW S, NEW s \in Seq(S), NEW e \in S
    PROVE  /\ Append(s, e) \in Seq(S)
           /\ ToSet(Append(s, e)) = ToSet(s) \cup {e}
           /\ IsInjective(s) /\ e \notin ToSet(s) => IsInjective(Append(s, e))
  <1> DEFINE t == Append(s, e)
  <1>1. /\ t \in Seq(S)
        /\ Len(t) = Len(s) + 1
        /\ \A k \in 1..Len(s) : t[k] = s[k]
        /\ t[Len(s) + 1] = e
    BY AppendProperties
  <1> HIDE DEF t
  <1>2. DOMAIN s = 1..Len(s) /\ DOMAIN t = 1..(Len(s) + 1) /\ Len(s) \in Nat
    BY <1>1, LenProperties
  <1>3. \A k \in 1..(Len(s) + 1) : k \in 1..Len(s) \/ k = Len(s) + 1
    BY <1>2
  <1>4. Len(s) + 1 \in 1..(Len(s) + 1) /\ \A k \in 1..Len(s) : k \in 1..(Len(s) + 1)
    BY <1>2
  <1>5. ToSet(t) = ToSet(s) \cup {e}
    BY <1>1, <1>2, <1>3, <1>4 DEF ToSet
  <1>6. ASSUME IsInjective(s), e \notin ToSet(s)
        PROVE  IsInjective(t)
    BY <1>1, <1>2, <1>3, <1>6 DEF IsInjective, ToSet
  <1> QED BY <1>1, <1>5, <1>6 DEF t

-----------------------------------------------------------------------------
(* Loops                                                                   *)

(* Induction up to a number, for a set that holds 0 and with a number the  *)
(* next one.                                                               *)
LEMMA UpTo ==
    ASSUME NEW n \in Nat, NEW T, 0 \in T, \A i \in 0..n : i < n /\ i \in T => i + 1 \in T
    PROVE  \A i \in 0..n : i \in T
  <1> DEFINE Out == {i \in 0..n : i \notin T}
  <1>1. SUFFICES ASSUME Out # {} PROVE FALSE
    OBVIOUS
  <1>2. Out \subseteq Nat
    OBVIOUS
  <1>3. PICK m \in Out : \A k \in Out : <<k, m>> \notin OpToRel(<, Nat)
    <2> HIDE DEF Out
    <2> QED BY <1>1, <1>2, WFMin, NatLessThanWellFounded, Zenon
  <1>4. \A k \in Out : ~(k < m)
    BY <1>2, <1>3, Zenon DEF OpToRel
  <1>5. m # 0 /\ m \in 0..n
    OBVIOUS
  <1>6. m - 1 \in 0..n /\ m - 1 < n /\ m - 1 < m /\ (m - 1) + 1 = m
    BY <1>5
  <1>7. m - 1 \in T
    BY <1>4, <1>6
  <1> QED BY <1>6, <1>7

(* Among some of the first numbers, one has the greatest value.            *)
LEMMA GreatestExists ==
    ASSUME NEW n \in Nat, NEW S \in SUBSET (0..n), S # {}, NEW f \in [S -> Nat]
    PROVE  \E x \in S : \A y \in S : f[y] <= f[x]
  <1> DEFINE Upto(i) == {x \in S : x <= i}
             T == {i \in 0..n : Upto(i) = {} \/ \E x \in Upto(i) : \A y \in Upto(i) : f[y] <= f[x]}
  <1>0. \A x \in S : x \in Nat /\ 0 <= x /\ x <= n /\ (x <= 0 => x = 0)
    OBVIOUS
  <1>1. 0 \in T
    <2>1. Upto(0) = {} \/ Upto(0) = {0}
      BY <1>0
    <2>2. 0 \in 0..n /\ \A x \in S : f[x] <= f[x]
      OBVIOUS
    <2> QED BY <2>1, <2>2
  <1>2. ASSUME NEW i \in 0..n, i < n, i \in T PROVE i + 1 \in T
    <2>1. i + 1 \in 0..n /\ \A x \in S : x <= i + 1 <=> x <= i \/ x = i + 1
      BY <1>2
    <2>2. CASE i + 1 \notin S
      <3>1. Upto(i + 1) = Upto(i)
        BY <2>1, <2>2
      <3> QED BY <1>2, <2>1, <3>1
    <2>3. CASE i + 1 \in S
      <3>1. Upto(i + 1) = Upto(i) \cup {i + 1} /\ f[i + 1] \in Nat
        BY <2>1, <2>3
      <3>2. CASE \A y \in Upto(i) : f[y] <= f[i + 1]
        BY <2>1, <3>1, <3>2
      <3>3. CASE \E y \in Upto(i) : ~(f[y] <= f[i + 1])
        <4>1. PICK x \in Upto(i) : \A y \in Upto(i) : f[y] <= f[x]
          BY <1>2, <3>3
        <4>2. PICK y \in Upto(i) : ~(f[y] <= f[i + 1])
          BY <3>3
        <4>3. f[y] \in Nat /\ f[x] \in Nat /\ f[y] <= f[x]
          BY <4>1
        <4>4. f[i + 1] <= f[x]
          BY <3>1, <4>2, <4>3
        <4> QED BY <2>1, <3>1, <4>1, <4>4
      <3> QED BY <3>2, <3>3
    <2> QED BY <2>2, <2>3
  <1>3. n \in T
    <2>1. \A i \in 0..n : i < n /\ i \in T => i + 1 \in T
      BY <1>2
    <2> HIDE DEF T
    <2>2. \A i \in 0..n : i \in T
      BY <1>1, <2>1, UpTo
    <2> QED BY <2>2
  <1>4. Upto(n) = S
    BY <1>0
  <1> QED BY <1>3, <1>4

(* Any numbers have a least one.                                           *)
LEMMA LeastExists ==
    ASSUME NEW S \in SUBSET Nat, S # {}
    PROVE  \E x \in S : \A y \in S : x <= y
  <1>1. PICK m \in S : \A k \in S : <<k, m>> \notin OpToRel(<, Nat)
    BY WFMin, NatLessThanWellFounded, Zenon
  <1>2. \A k \in S : ~(k < m)
    BY <1>1, Zenon DEF OpToRel
  <1> QED BY <1>2

(* Where a loop of n steps is, from where it started.                      *)
IsLoop(f, n, start, step) ==
    f[0] = start /\ \A i \in 1..n : f[i] = step[i][f[i - 1]]

(* Whatever a step does to a state, there is a function of the loop.       *)
LEMMA LoopExists ==
    ASSUME NEW n \in Nat, NEW S, NEW start \in S, NEW step \in [1..n -> [S -> S]]
    PROVE  \E f \in [0..n -> S] : IsLoop(f, n, start, step)
  <1> DEFINE T == {m \in 0..n : \E f \in [0..m -> S] : IsLoop(f, m, start, step)}
  <1>1. 0 \in T
    <2>1. [i \in 0..0 |-> start] \in [0..0 -> S] /\ IsLoop([i \in 0..0 |-> start], 0, start, step)
      BY DEF IsLoop
    <2> QED BY <2>1
  <1>2. ASSUME NEW m \in 0..n, m < n, m \in T
        PROVE  m + 1 \in T
    <2>1. PICK f \in [0..m -> S] : IsLoop(f, m, start, step)
      BY <1>2
    <2> DEFINE g == [i \in 0..(m + 1) |-> IF i \in 0..m THEN f[i] ELSE step[m + 1][f[m]]]
    <2>2. m + 1 \in 1..n /\ m + 1 \notin 0..m /\ m \in 0..m /\ f[m] \in S
      BY <1>2
    <2>3. g \in [0..(m + 1) -> S]
      BY <2>2
    <2>4. \A i \in 0..m : g[i] = f[i]
      BY <1>2
    <2>5. g[m + 1] = step[m + 1][f[m]]
      BY <2>2
    <2> HIDE DEF g
    <2>6. ASSUME NEW i \in 1..(m + 1) PROVE g[i] = step[i][g[i - 1]]
      <3>1. CASE i = m + 1
        BY <2>2, <2>4, <2>5, <3>1
      <3>2. CASE i # m + 1
        <4>1. i \in 1..m /\ i \in 0..m /\ i - 1 \in 0..m
          BY <1>2, <3>2
        <4> QED BY <4>1, <2>1, <2>4 DEF IsLoop
      <3> QED BY <3>1, <3>2
    <2>7. g[0] = start
      BY <2>1, <2>4, <1>2 DEF IsLoop
    <2>8. IsLoop(g, m + 1, start, step)
      BY <2>6, <2>7 DEF IsLoop
    <2> QED BY <2>2, <2>3, <2>8
  <1>3. n \in T
    <2> HIDE DEF T
    <2>1. \A i \in 0..n : i < n /\ i \in T => i + 1 \in T
      BY <1>2
    <2>2. \A i \in 0..n : i \in T
      BY <1>1, <2>1, UpTo
    <2> QED BY <2>2
  <1> QED BY <1>3
=============================================================================
