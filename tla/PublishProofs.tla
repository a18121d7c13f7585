--------------------------- MODULE PublishProofs ---------------------------
(***************************************************************************)
(* Proofs about Publish, for every set of users, versions, uploads and     *)
(* names, and for any number of failures.                                  *)
(***************************************************************************)
EXTENDS Publish, FiniteSetTheorems, SequenceTheorems, TLAPS

USE NoneAssumption

-----------------------------------------------------------------------------
(* Lemmas about Retained.                                                  *)

(* The positions of the elements of a set of indices are 1, 2, ... up to   *)
(* its cardinality, each taken once.                                       *)
LEMMA Positions ==
    ASSUME NEW n \in Nat, NEW K \in SUBSET (1..n)
    PROVE  /\ IsFiniteSet(K) /\ Cardinality(K) \in Nat
           /\ \A k \in K : Position(K, k) \in 1..Cardinality(K)
           /\ \A i \in 1..Cardinality(K) : \E k \in K : Position(K, k) = i
  <1>0. \A k \in K : k \in Nat
    OBVIOUS
  <1>1. IsFiniteSet(K) /\ Cardinality(K) \in Nat
    <2>1. IsFiniteSet(1..n)
      BY 1 \in Int, n \in Int, FS_Interval
    <2>2. IsFiniteSet(K)
      BY <2>1, FS_Subset
    <2> QED BY <2>2, FS_CardinalityType
  <1> DEFINE Upto(k) == {j \in K : j <= k}
             f == [k \in K |-> Position(K, k)]
  <1>2. \A k \in K : /\ IsFiniteSet(Upto(k)) /\ Cardinality(Upto(k)) \in Nat
                     /\ Cardinality(Upto(k)) <= Cardinality(K)
    BY <1>1, FS_Subset, FS_CardinalityType
  <1>3. ASSUME NEW k \in K, NEW l \in K, k < l
        PROVE  Cardinality(Upto(k)) < Cardinality(Upto(l))
    <2>0. k \in Nat /\ l \in Nat
      BY <1>0
    <2>1. Upto(k) \in SUBSET Upto(l) /\ l \in Upto(l) /\ l \notin Upto(k)
      <3>1. ASSUME NEW j \in K, j <= k PROVE j <= l
        BY <3>1, <1>3, <1>0, <2>0
      <3>2. l <= l /\ ~(l <= k)
        BY <1>3, <2>0
      <3> QED BY <3>1, <3>2
    <2> HIDE DEF Upto
    <2>2. /\ Cardinality(Upto(k)) <= Cardinality(Upto(l))
          /\ Cardinality(Upto(l)) = Cardinality(Upto(k)) => Upto(l) = Upto(k)
      BY <2>1, <1>2, FS_Subset
    <2> QED BY <2>1, <2>2, <1>2
  <1>4. \A k \in K : Cardinality(Upto(k)) >= 1
    <2> SUFFICES ASSUME NEW k \in K PROVE Cardinality(Upto(k)) >= 1
      OBVIOUS
    <2>1. k \in Upto(k)
      OBVIOUS
    <2> HIDE DEF Upto
    <2> QED BY <2>1, <1>2, FS_EmptySet
  <1>5. \A k \in K : Position(K, k) \in 1..Cardinality(K)
    BY <1>1, <1>2, <1>4 DEF Position
  <1>6. f \in Injection(K, 1..Cardinality(K))
    <2>1. f \in [K -> 1..Cardinality(K)]
      BY <1>5
    <2>2. ASSUME NEW k \in K, NEW l \in K, f[k] = f[l]
          PROVE  k = l
      <3>1. Cardinality(Upto(k)) = Cardinality(Upto(l))
        BY <2>2 DEF Position
      <3> HIDE DEF Upto
      <3> QED BY <3>1, <1>2, <1>3
    <2> QED BY <2>1, <2>2 DEF Injection, IsInjective
  <1>7. f \in Surjection(K, 1..Cardinality(K))
    <2>1. IsFiniteSet(1..Cardinality(K)) /\ Cardinality(1..Cardinality(K)) = Cardinality(K)
      BY <1>1, FS_Interval
    <2> HIDE DEF f
    <2> QED BY <2>1, <1>6, FS_Injection
  <1> QED BY <1>1, <1>5, <1>7 DEF Surjection

(* When all indices are kept, each keeps its position.                     *)
LEMMA AllPositions ==
    ASSUME NEW n \in Nat, NEW k \in 1..n
    PROVE  Position(1..n, k) = k
  <1>1. {j \in 1..n : j <= k} = 1..k
    OBVIOUS
  <1>2. Cardinality(1..k) = k
    <2>1. Cardinality(1..k) = IF 1 > k THEN 0 ELSE k - 1 + 1
      BY 1 \in Int, k \in Int, FS_Interval
    <2> QED BY <2>1
  <1> QED BY <1>1, <1>2 DEF Position

(* g holds some of the elements of f, each at most once.                   *)
SomeOf(g, f) ==
    \E e \in [DOMAIN g -> DOMAIN f] :
        /\ \A i \in DOMAIN g : g[i] = f[e[i]]
        /\ \A i, j \in DOMAIN g : e[i] = e[j] => i = j

(* The file of the retained lines holds some of the lines of the file,     *)
(* none of the removed version, and is the file itself when there was none *)
(* to remove (git.rs:241).                                                 *)
LEMMA RetainedLines ==
    ASSUME file \in Seq(Line), NEW c
    PROVE  /\ Retained(c) \in Seq(Line)
           /\ SomeOf(Retained(c), file)
           /\ \A i \in DOMAIN Retained(c) : Retained(c)[i].vers # calls[c].version
           /\ Lines(calls[c].version) = {} => Retained(c) = file
  <1> DEFINE K == Kept(c)
             n == Cardinality(K)
             r == Retained(c)
             e == [i \in 1..n |-> CHOOSE k \in K : Position(K, k) = i]
  <1>1. /\ Len(file) \in Nat /\ DOMAIN file = 1..Len(file)
        /\ \A i \in 1..Len(file) : file[i] \in Line
    BY LenProperties, ElementOfSeq
  <1>2. K \in SUBSET (1..Len(file))
    BY <1>1 DEF Kept
  <1>3. /\ n \in Nat
        /\ \A i \in 1..n : \E k \in K : Position(K, k) = i
    <2> HIDE DEF K
    <2> QED BY <1>1, <1>2, Positions
  <1>4. \A i \in 1..n : e[i] \in K /\ Position(K, e[i]) = i
    <2> HIDE DEF K
    <2> QED BY <1>3
  <1>5. r = [i \in 1..n |-> file[e[i]]]
    BY DEF Retained
  <1> HIDE DEF n, e, r
  <1>6. DOMAIN r = 1..n /\ \A i \in 1..n : r[i] = file[e[i]] /\ r[i] \in Line
    BY <1>1, <1>2, <1>4, <1>5
  <1>7. r \in Seq(Line)
    BY <1>3, <1>5, <1>6
  <1>8. SomeOf(r, file)
    <2>1. e \in [1..n -> 1..Len(file)]
      BY <1>2, <1>4 DEF e
    <2>2. \A i, j \in 1..n : e[i] = e[j] => i = j
      BY <1>4
    <2> QED BY <1>1, <1>6, <2>1, <2>2 DEF SomeOf
  <1>9. \A i \in DOMAIN r : r[i].vers # calls[c].version
    BY <1>4, <1>6 DEF Kept
  <1>10. ASSUME Lines(calls[c].version) = {} PROVE r = file
    <2>1. K = 1..Len(file)
      BY <1>1, <1>10 DEF Kept, Lines, LinesOf
    <2>2. n = Len(file)
      <3>1. Cardinality(1..Len(file)) = IF 1 > Len(file) THEN 0 ELSE Len(file) - 1 + 1
        BY <1>1, 1 \in Int, Len(file) \in Int, FS_Interval
      <3>2. n = Cardinality(1..Len(file))
        BY <2>1 DEF n
      <3> QED BY <3>1, <3>2, <1>1
    <2>3. \A i \in 1..n : e[i] = i
      BY <1>1, <1>4, <2>1, <2>2, AllPositions
    <2>4. \A i \in 1..Len(file) : r[i] = file[i]
      BY <1>6, <2>2, <2>3
    <2>5. Len(r) = Len(file)
      BY <1>3, <1>6, <1>7, <2>2, LenProperties
    <2> QED BY <2>4, <2>5, <1>7, SeqEqual
  <1> QED BY <1>7, <1>8, <1>9, <1>10 DEF r

(* The same of a file cut after some of these lines.                       *)
LEMMA CutLines ==
    ASSUME file \in Seq(Line), NEW c, NEW n \in 0..Len(Retained(c))
    PROVE  /\ SubSeq(Retained(c), 1, n) \in Seq(Line)
           /\ SomeOf(SubSeq(Retained(c), 1, n), file)
  <1> DEFINE r == Retained(c)
             q == SubSeq(r, 1, n)
  <1>1. /\ r \in Seq(Line) /\ SomeOf(r, file)
        /\ Len(r) \in Nat /\ DOMAIN r = 1..Len(r)
        /\ \A i \in 1..Len(r) : r[i] \in Line
    BY RetainedLines, LenProperties, ElementOfSeq
  <1> HIDE DEF r
  <1>2. /\ q \in Seq(Line)
        /\ Len(q) = IF 1 <= n THEN n - 1 + 1 ELSE 0
        /\ \A i \in 1..(n - 1 + 1) : q[i] = r[1 + i - 1]
    BY <1>1, SubSeqProperties, 1 \in Int, n \in Int DEF r
  <1> HIDE DEF q
  <1>3. /\ DOMAIN q = 1..n /\ n <= Len(r) /\ n \in Nat
        /\ \A i \in 1..n : q[i] = r[i]
    BY <1>1, <1>2, LenProperties DEF r
  <1>4. PICK e \in [1..Len(r) -> DOMAIN file] :
           /\ \A i \in 1..Len(r) : r[i] = file[e[i]]
           /\ \A i, j \in 1..Len(r) : e[i] = e[j] => i = j
    BY <1>1 DEF SomeOf
  <1> DEFINE g == [i \in 1..n |-> e[i]]
  <1>5. /\ g \in [1..n -> DOMAIN file]
        /\ \A i \in 1..n : q[i] = file[g[i]]
        /\ \A i, j \in 1..n : g[i] = g[j] => i = j
    <2>1. \A i \in 1..n : i \in 1..Len(r)
      BY <1>1, <1>3
    <2> QED BY <2>1, <1>3, <1>4
  <1> HIDE DEF g
  <1>6. SomeOf(q, file)
    BY <1>3, <1>5 DEF SomeOf
  <1> QED BY <1>2, <1>6 DEF q, r

-----------------------------------------------------------------------------
(* Types.                                                                  *)

(* What a request is, from what it asks.                                   *)
LEMMA CallTypes ==
    ASSUME TypeOK, NEW c \in Callers
    PROVE  /\ calls[c].op = "publish" => calls[c] \in PublishCall
           /\ calls[c].op = "remove" => calls[c] \in RemoveCall
           /\ calls[c].op \in {"publish", "remove"} <=> calls[c].at # "idle"
           /\ calls[c].at = "idle" => calls[c] = Idle
  <1>1. calls[c] \in Call
    BY DEF TypeOK
  <1>2. CASE calls[c] = Idle
    BY <1>2 DEF Idle
  <1>3. CASE calls[c] \in PublishCall
    <2>1. calls[c].op = "publish" /\ calls[c].at # "idle"
      BY <1>3 DEF PublishCall, Files
    <2> QED BY <1>3, <2>1
  <1>4. CASE calls[c] \in RemoveCall
    <2>1. calls[c].op = "remove" /\ calls[c].at # "idle"
      BY <1>4 DEF RemoveCall
    <2> QED BY <1>4, <2>1
  <1> QED BY <1>1, <1>2, <1>3, <1>4 DEF Call

LEMMA InitType == Init => TypeOK
  <1> SUFFICES ASSUME Init PROVE TypeOK
    OBVIOUS
  <1>1. file \in Seq(Line) /\ head \in Seq(Line)
    BY DEF Init
  <1>2. calls \in [Callers -> Call]
    BY DEF Init, Call
  <1>3. failures \in 0 .. MaxFailures
    BY MaxFailuresAssumption DEF Init
  <1>4. stored \in [Versions -> [Files -> Contents \cup {None}]]
    BY DEF Init
  <1> QED BY <1>1, <1>2, <1>3, <1>4 DEF Init, TypeOK

(* A request that goes on to a step of its kind.                           *)
LEMMA GotoType ==
    ASSUME TypeOK, NEW c \in Callers, NEW step, Goto(c, step),
           \/ calls[c].op = "publish" /\ step \in {"begin", "index", "commit", "docs"} \cup Files
           \/ calls[c].op = "remove" /\ step \in {"begin", "index", "commit", "close"}
    PROVE  calls' \in [Callers -> Call]
  <1>1. calls' = [calls EXCEPT ![c] = [calls[c] EXCEPT !.at = step]]
    BY DEF Goto
  <1>2. [calls[c] EXCEPT !.at = step] \in Call
    <2>1. CASE calls[c].op = "publish"
      <3>1. calls[c] \in PublishCall /\ step \in {"begin", "index", "commit", "docs"} \cup Files
        BY <2>1, CallTypes
      <3>2. [calls[c] EXCEPT !.at = step] \in PublishCall
        BY <3>1 DEF PublishCall
      <3> QED BY <3>2 DEF Call
    <2>2. CASE calls[c].op = "remove"
      <3>1. calls[c] \in RemoveCall /\ step \in {"begin", "index", "commit", "close"}
        BY <2>2, CallTypes
      <3>2. [calls[c] EXCEPT !.at = step] \in RemoveCall
        BY <3>1 DEF RemoveCall
      <3> QED BY <3>2 DEF Call
    <2> QED BY <2>1, <2>2
  <1>3. calls \in [Callers -> Call]
    BY DEF TypeOK
  <1> QED BY <1>1, <1>2, <1>3

(* A request that ends.                                                    *)
LEMMA AnswerType ==
    ASSUME TypeOK, NEW c \in Callers, Answer(c)
    PROVE  /\ calls' \in [Callers -> Call]
           /\ writer' \in Callers \cup {None} /\ lock' \in Callers \cup {None}
  BY DEF TypeOK, Answer, Free, Call

LEMMA NextType ==
    ASSUME TypeOK, [Next]_vars
    PROVE  TypeOK'
  <1>1. CASE UNCHANGED vars
    BY <1>1 DEF TypeOK, vars, dbVars, indexVars, ghostVars
  <1>2. ASSUME NEW c \in Callers, NEW n \in Names, NEW v \in Versions, RequestRemove(c, n, v)
        PROVE  TypeOK'
    <2>1. calls' \in [Callers -> Call]
      BY <1>2 DEF RequestRemove, TypeOK, Call, RemoveCall
    <2> QED BY <1>2, <2>1 DEF RequestRemove, TypeOK, dbVars, indexVars, ghostVars
  <1>3. ASSUME NEW c \in Callers, NEW n \in Names, NEW v \in Versions, NEW x \in Contents,
               RequestPublish(c, n, v, x)
        PROVE  TypeOK'
    <2>1. calls' \in [Callers -> Call]
      BY <1>3 DEF RequestPublish, TypeOK, Call, PublishCall
    <2> QED BY <1>3, <2>1 DEF RequestPublish, TypeOK, dbVars, indexVars, ghostVars
  <1>4. ASSUME NEW c \in Callers, Publishing(c)
        PROVE  TypeOK'
    <2>0. At(c, "publish", calls[c].at) => calls[c] \in PublishCall
      BY CallTypes DEF At
    <2>1. CASE publish_crate_version(c)
      <3>1. calls[c] \in PublishCall /\ calls' \in [Callers -> Call]
        BY <2>0, <2>1, GotoType DEF publish_crate_version, At, Files
      <3> QED BY <2>1, <3>1 DEF publish_crate_version, TypeOK, PublishCall, indexVars, ghostVars
    <2>2. CASE PublishRefused(c)
      BY <2>2, AnswerType DEF PublishRefused, TypeOK, ghostVars
    <2>3. ASSUME NEW p \in Files, store_crate(c, p)
          PROVE  TypeOK'
      <3>1. calls[c] \in PublishCall /\ calls' \in [Callers -> Call]
        BY <2>0, <2>3, GotoType DEF store_crate, At, NextPart, Files
      <3>2. stored' \in [Versions -> [Files -> Contents \cup {None}]]
        BY <2>3, <3>1 DEF store_crate, TypeOK, PublishCall
      <3> QED BY <2>3, <3>1, <3>2 DEF store_crate, TypeOK, dbVars, indexVars, ghostVars
    <2>4. CASE AppendLine(c)
      <3>1. calls[c] \in PublishCall /\ calls' \in [Callers -> Call]
        BY <2>0, <2>4, GotoType DEF AppendLine, At
      <3>2. build_index_data(calls[c]) \in Line
        BY <3>1 DEF build_index_data, Line, PublishCall
      <3>3. file' \in Seq(Line)
        BY <2>4, <3>2, AppendProperties DEF AppendLine, TypeOK
      <3> QED BY <2>4, <3>1, <3>3 DEF AppendLine, TypeOK, dbVars, ghostVars
    <2>5. CASE commit_changes(c, "publish", "docs")
      <3>1. calls' \in [Callers -> Call]
        BY <2>5, GotoType DEF commit_changes, At
      <3>2. Overtaken(c) \subseteq Versions
        BY <2>0, <2>5 DEF commit_changes, At, PublishCall, Overtaken
      <3> QED BY <2>5, <3>1, <3>2 DEF commit_changes, TypeOK, dbVars
    <2>6. CASE queue(c)
      <3>1. calls[c].version \in Versions
        BY <2>0, <2>6 DEF queue, At, PublishCall
      <3> QED BY <2>6, <3>1, AnswerType DEF queue, TypeOK, ghostVars
    <2> QED BY <1>4, <2>1, <2>2, <2>3, <2>4, <2>5, <2>6 DEF Publishing
  <1>5. ASSUME NEW c \in Callers, Removing(c)
        PROVE  TypeOK'
    <2>0. At(c, "remove", calls[c].at) => calls[c] \in RemoveCall
      BY CallTypes DEF At
    <2>1. CASE remove_crate_version(c)
      <3>1. calls[c] \in RemoveCall /\ calls' \in [Callers -> Call]
        BY <2>0, <2>1, GotoType DEF remove_crate_version, At
      <3> QED BY <2>1, <3>1 DEF remove_crate_version, TypeOK, RemoveCall, indexVars
    <2>2. CASE RemoveRefused(c)
      BY <2>2, AnswerType DEF RemoveRefused, TypeOK, ghostVars
    <2>3. CASE RewriteFile(c)
      <3>1. calls' \in [Callers -> Call]
        BY <2>3, GotoType DEF RewriteFile, At
      <3>2. file' \in Seq(Line)
        BY <2>3, RetainedLines DEF RewriteFile, TypeOK
      <3> QED BY <2>3, <3>1, <3>2 DEF RewriteFile, TypeOK, dbVars, ghostVars
    <2>4. CASE commit_changes(c, "remove", "close")
      <3>1. calls' \in [Callers -> Call]
        BY <2>4, GotoType DEF commit_changes, At
      <3>2. Overtaken(c) \subseteq Versions
        BY <2>0, <2>4 DEF commit_changes, At, RemoveCall, Overtaken
      <3> QED BY <2>4, <3>1, <3>2 DEF commit_changes, TypeOK, dbVars
    <2>5. CASE NothingToCommit(c)
      BY <2>5, AnswerType DEF NothingToCommit, TypeOK, ghostVars
    <2>6. CASE CloseRemoval(c)
      BY <2>6, AnswerType DEF CloseRemoval, TypeOK, ghostVars
    <2> QED BY <1>5, <2>1, <2>2, <2>3, <2>4, <2>5, <2>6 DEF Removing
  <1>6. ASSUME NEW c \in Callers, NEW v \in Versions,
               yank_crate_version(c, v) \/ unyank_crate_version(c, v)
        PROVE  TypeOK'
    BY <1>6 DEF yank_crate_version, unyank_crate_version, TypeOK, indexVars, ghostVars
  <1>7. ASSUME NEW c \in Callers, NEW b \in Removable, set_crate_can_remove(c, b)
        PROVE  TypeOK'
    BY <1>7, RemovableAssumption DEF set_crate_can_remove, TypeOK, indexVars, ghostVars
  <1>8. ASSUME NEW c \in Callers, PoolTimedOut(c)
        PROVE  TypeOK'
    BY <1>8, AnswerType DEF PoolTimedOut, TypeOK, ghostVars
  <1>9. ASSUME NEW c \in Callers, NEW what, MayFail(what), Fail(c)
        PROVE  /\ calls' \in [Callers -> Call]
               /\ writer' \in Callers \cup {None} /\ lock' \in Callers \cup {None}
               /\ failures' \in 0 .. MaxFailures
    BY <1>9, AnswerType, MaxFailuresAssumption DEF MayFail, Fail, TypeOK
  <1>10. ASSUME NEW c \in Callers,
                StorageFails(c) \/ GitFails(c) \/ ClientLeaves(c)
         PROVE  TypeOK'
    BY <1>9, <1>10 DEF StorageFails, GitFails, ClientLeaves, TypeOK, ghostVars
  <1>11. ASSUME NEW c \in Callers, RewriteCut(c)
         PROVE  TypeOK'
    <2>1. file' \in Seq(Line)
      BY <1>11, CutLines DEF RewriteCut, TypeOK
    <2> QED BY <1>9, <1>11, <2>1 DEF RewriteCut, TypeOK, ghostVars
  <1>12. ASSUME NEW f \in orphans, OrphanEnds(f)
         PROVE  TypeOK'
    BY <1>12 DEF OrphanEnds, TypeOK, dbVars, ghostVars
  <1> QED
    BY <1>1, <1>2, <1>3, <1>4, <1>5, <1>6, <1>7, <1>8, <1>10, <1>11, <1>12 DEF Next

-----------------------------------------------------------------------------
(* Who holds the write connection and the mutex.                           *)

(* A request that ends keeps neither.                                      *)
LEMMA AnswerHolder ==
    ASSUME TypeOK, HolderInv, NEW c \in Callers, Answer(c)
    PROVE  HolderInv'
  <1>1. calls' = [calls EXCEPT ![c] = Idle] /\ calls \in [Callers -> Call]
    BY DEF Answer, TypeOK
  <1>2. SUFFICES ASSUME NEW d \in Callers
        PROVE  /\ writer' = d <=> calls'[d].op = "remove" /\ calls'[d].at \in {"index", "commit", "close"}
               /\ lock' = d <=> calls'[d].at = "commit"
    BY DEF HolderInv
  <1>3. CASE d = c
    BY <1>1, <1>3 DEF Answer, Free, Idle
  <1>4. CASE d # c
    BY <1>1, <1>4 DEF Answer, Free, HolderInv
  <1> QED BY <1>3, <1>4

LEMMA NextHolder ==
    ASSUME TypeOK, HolderInv, [Next]_vars
    PROVE  HolderInv'
  <1>0. calls \in [Callers -> Call]
    BY DEF TypeOK
  <1>1. CASE UNCHANGED vars
    BY <1>1 DEF HolderInv, vars, dbVars, indexVars
  <1>2. ASSUME NEW c \in Callers, NEW n \in Names, NEW v \in Versions, RequestRemove(c, n, v)
        PROVE  HolderInv'
    BY <1>0, <1>2, CallTypes DEF RequestRemove, HolderInv, dbVars, indexVars
  <1>3. ASSUME NEW c \in Callers, NEW n \in Names, NEW v \in Versions, NEW x \in Contents,
               RequestPublish(c, n, v, x)
        PROVE  HolderInv'
    BY <1>0, <1>3, CallTypes DEF RequestPublish, HolderInv, dbVars, indexVars
  <1>4. ASSUME NEW c \in Callers, Publishing(c)
        PROVE  HolderInv'
    <2>1. CASE publish_crate_version(c)
      BY <1>0, <2>1 DEF publish_crate_version, Goto, At, HolderInv, indexVars
    <2>2. CASE PublishRefused(c)
      BY <2>2, AnswerHolder DEF PublishRefused
    <2>3. ASSUME NEW p \in Files, store_crate(c, p)
          PROVE  HolderInv'
      BY <1>0, <2>3 DEF store_crate, Goto, At, NextPart, Files, HolderInv, dbVars, indexVars
    <2>4. CASE AppendLine(c)
      BY <1>0, <2>4 DEF AppendLine, Goto, At, HolderInv, dbVars
    <2>5. CASE commit_changes(c, "publish", "docs")
      BY <1>0, <2>5 DEF commit_changes, Goto, At, HolderInv, dbVars
    <2>6. CASE queue(c)
      BY <2>6, AnswerHolder DEF queue
    <2> QED BY <1>4, <2>1, <2>2, <2>3, <2>4, <2>5, <2>6 DEF Publishing
  <1>5. ASSUME NEW c \in Callers, Removing(c)
        PROVE  HolderInv'
    <2>1. CASE remove_crate_version(c)
      BY <1>0, <2>1 DEF remove_crate_version, Goto, At, HolderInv, indexVars
    <2>2. CASE RemoveRefused(c)
      BY <2>2, AnswerHolder DEF RemoveRefused
    <2>3. CASE RewriteFile(c)
      BY <1>0, <2>3 DEF RewriteFile, Goto, At, HolderInv, dbVars
    <2>4. CASE commit_changes(c, "remove", "close")
      BY <1>0, <2>4 DEF commit_changes, Goto, At, HolderInv, dbVars
    <2>5. CASE NothingToCommit(c)
      BY <2>5, AnswerHolder DEF NothingToCommit
    <2>6. CASE CloseRemoval(c)
      BY <2>6, AnswerHolder DEF CloseRemoval
    <2> QED BY <1>5, <2>1, <2>2, <2>3, <2>4, <2>5, <2>6 DEF Removing
  <1>6. ASSUME NEW c \in Callers, NEW v \in Versions,
               yank_crate_version(c, v) \/ unyank_crate_version(c, v)
        PROVE  HolderInv'
    BY <1>6 DEF yank_crate_version, unyank_crate_version, HolderInv, indexVars
  <1>7. ASSUME NEW c \in Callers, NEW b \in Removable, set_crate_can_remove(c, b)
        PROVE  HolderInv'
    BY <1>7 DEF set_crate_can_remove, HolderInv, indexVars
  <1>8. ASSUME NEW c \in Callers,
               \/ PoolTimedOut(c)
               \/ StorageFails(c) \/ GitFails(c) \/ RewriteCut(c) \/ ClientLeaves(c)
        PROVE  HolderInv'
    BY <1>8, AnswerHolder DEF PoolTimedOut, StorageFails, GitFails, RewriteCut, ClientLeaves, Fail
  <1>9. ASSUME NEW f \in orphans, OrphanEnds(f)
        PROVE  HolderInv'
    BY <1>9 DEF OrphanEnds, HolderInv, dbVars
  <1> QED BY <1>1, <1>2, <1>3, <1>4, <1>5, <1>6, <1>7, <1>8, <1>9 DEF Next

-----------------------------------------------------------------------------
(* What a removal has established.                                         *)

LEMMA AnswerRemoval ==
    ASSUME TypeOK, RemovalInv, NEW c \in Callers, Answer(c), UNCHANGED removed
    PROVE  \A d \in Callers : writer' = d => calls'[d].version \in removed'
  BY DEF TypeOK, RemovalInv, Answer, Free

LEMMA NextRemoval ==
    ASSUME TypeOK, HolderInv, RemovalInv, [Next]_vars
    PROVE  RemovalInv'
  <1>0. calls \in [Callers -> Call] /\ rows \in [Versions -> {"absent", "live", "yanked"}]
    BY DEF TypeOK
  <1>1. CASE UNCHANGED vars
    BY <1>1 DEF RemovalInv, ghostVars, vars, dbVars
  <1>2. ASSUME NEW c \in Callers, NEW n \in Names, NEW v \in Versions, RequestRemove(c, n, v)
        PROVE  RemovalInv'
    BY <1>0, <1>2, CallTypes DEF RequestRemove, HolderInv, RemovalInv, ghostVars, dbVars
  <1>3. ASSUME NEW c \in Callers, NEW n \in Names, NEW v \in Versions, NEW x \in Contents,
               RequestPublish(c, n, v, x)
        PROVE  RemovalInv'
    BY <1>0, <1>3, CallTypes DEF RequestPublish, HolderInv, RemovalInv, ghostVars, dbVars
  <1>4. ASSUME NEW c \in Callers, Publishing(c)
        PROVE  RemovalInv'
    <2>1. CASE publish_crate_version(c)
      <3>1. calls[c].name \in Names
        BY <2>1, CallTypes DEF publish_crate_version, At, PublishCall
      <3> QED BY <1>0, <2>1, <3>1 DEF publish_crate_version, Goto, RemovalInv, ghostVars
    <2>2. CASE PublishRefused(c)
      BY <2>2, AnswerRemoval DEF PublishRefused, RemovalInv, ghostVars
    <2>3. ASSUME NEW p \in Files, store_crate(c, p)
          PROVE  RemovalInv'
      BY <1>0, <2>3 DEF store_crate, Goto, RemovalInv, ghostVars, dbVars
    <2>4. CASE AppendLine(c)
      BY <1>0, <2>4 DEF AppendLine, Goto, RemovalInv, ghostVars, dbVars
    <2>5. CASE commit_changes(c, "publish", "docs")
      BY <1>0, <2>5 DEF commit_changes, Goto, RemovalInv, ghostVars, dbVars
    <2>6. CASE queue(c)
      BY <2>6, AnswerRemoval DEF queue, RemovalInv, ghostVars
    <2> QED BY <1>4, <2>1, <2>2, <2>3, <2>4, <2>5, <2>6 DEF Publishing
  <1>5. ASSUME NEW c \in Callers, Removing(c)
        PROVE  RemovalInv'
    <2>1. CASE remove_crate_version(c)
      BY <1>0, <2>1 DEF remove_crate_version, Goto, RemovalInv, ghostVars
    <2>2. CASE RemoveRefused(c)
      BY <2>2, AnswerRemoval DEF RemoveRefused, RemovalInv, ghostVars
    <2>3. CASE RewriteFile(c)
      BY <1>0, <2>3 DEF RewriteFile, Goto, RemovalInv, ghostVars, dbVars
    <2>4. CASE commit_changes(c, "remove", "close")
      BY <1>0, <2>4 DEF commit_changes, Goto, RemovalInv, ghostVars, dbVars
    <2>5. CASE NothingToCommit(c)
      BY <2>5, AnswerRemoval DEF NothingToCommit, RemovalInv, ghostVars
    <2>6. CASE CloseRemoval(c)
      BY <1>0, <2>6, AnswerRemoval DEF CloseRemoval, RemovalInv, ghostVars
    <2> QED BY <1>5, <2>1, <2>2, <2>3, <2>4, <2>5, <2>6 DEF Removing
  <1>6. ASSUME NEW c \in Callers, NEW v \in Versions,
               yank_crate_version(c, v) \/ unyank_crate_version(c, v)
        PROVE  RemovalInv'
    BY <1>6 DEF yank_crate_version, unyank_crate_version, Transaction, RemovalInv, ghostVars
  <1>7. ASSUME NEW c \in Callers, NEW b \in Removable, set_crate_can_remove(c, b)
        PROVE  RemovalInv'
    BY <1>7 DEF set_crate_can_remove, RemovalInv, ghostVars
  <1>8. ASSUME NEW c \in Callers,
               \/ PoolTimedOut(c)
               \/ StorageFails(c) \/ GitFails(c) \/ RewriteCut(c) \/ ClientLeaves(c)
        PROVE  RemovalInv'
    BY <1>8, AnswerRemoval
       DEF PoolTimedOut, StorageFails, GitFails, RewriteCut, ClientLeaves, Fail, RemovalInv, ghostVars
  <1>9. ASSUME NEW f \in orphans, OrphanEnds(f)
        PROVE  RemovalInv'
    BY <1>9 DEF OrphanEnds, RemovalInv, dbVars, ghostVars
  <1> QED BY <1>1, <1>2, <1>3, <1>4, <1>5, <1>6, <1>7, <1>8, <1>9 DEF Next

-----------------------------------------------------------------------------
(* What an upload has established.                                         *)

(* Failures are counted, and removals remembered for ever.                 *)
LEMMA Monotone ==
    ASSUME TypeOK, [Next]_vars
    PROVE  /\ failures' = 0 => failures = 0
           /\ removed \subseteq removed' /\ overtaken \subseteq overtaken'
  <1>0. failures \in Nat
    BY MaxFailuresAssumption DEF TypeOK
  <1>1. CASE UNCHANGED vars
    BY <1>1 DEF vars, ghostVars
  <1>2. ASSUME NEW c \in Callers, NEW n \in Names, NEW v \in Versions,
               RequestRemove(c, n, v) \/ \E x \in Contents : RequestPublish(c, n, v, x)
        PROVE  UNCHANGED <<failures, removed, overtaken>>
    BY <1>2 DEF RequestRemove, RequestPublish, ghostVars
  <1>3. ASSUME NEW c \in Callers, Publishing(c)
        PROVE  UNCHANGED <<failures, removed>> /\ overtaken \subseteq overtaken'
    BY <1>3 DEF Publishing, publish_crate_version, PublishRefused, store_crate, AppendLine,
                commit_changes, queue, ghostVars
  <1>4. ASSUME NEW c \in Callers, Removing(c)
        PROVE  UNCHANGED failures /\ removed \subseteq removed' /\ overtaken \subseteq overtaken'
    BY <1>4 DEF Removing, remove_crate_version, RemoveRefused, RewriteFile, commit_changes,
                NothingToCommit, CloseRemoval, ghostVars
  <1>5. ASSUME NEW c \in Callers,
               \/ \E v \in Versions : yank_crate_version(c, v) \/ unyank_crate_version(c, v)
               \/ \E b \in Removable : set_crate_can_remove(c, b)
               \/ PoolTimedOut(c)
        PROVE  UNCHANGED <<failures, removed, overtaken>>
    BY <1>5 DEF yank_crate_version, unyank_crate_version, set_crate_can_remove, PoolTimedOut,
                ghostVars
  <1>6. ASSUME NEW c \in Callers,
               StorageFails(c) \/ GitFails(c) \/ RewriteCut(c) \/ ClientLeaves(c)
        PROVE  failures' = failures + 1 /\ UNCHANGED <<removed, overtaken>>
    BY <1>6 DEF StorageFails, GitFails, RewriteCut, ClientLeaves, Fail, ghostVars
  <1>7. ASSUME NEW f \in orphans, OrphanEnds(f)
        PROVE  UNCHANGED <<failures, removed, overtaken>>
    BY <1>7 DEF OrphanEnds, ghostVars
  <1> QED BY <1>0, <1>1, <1>2, <1>3, <1>4, <1>5, <1>6, <1>7 DEF Next

(* Only a commit lets a removal overtake the publish of its version.       *)
LEMMA OvertakenGrows ==
    ASSUME [Next]_vars
    PROVE  overtaken' = overtaken \/ \E c \in Callers : overtaken' = overtaken \cup Overtaken(c)
  BY DEF Next, vars, ghostVars, RequestRemove, RequestPublish, Publishing, Removing,
         publish_crate_version, PublishRefused, store_crate, AppendLine, commit_changes, queue,
         remove_crate_version, RemoveRefused, RewriteFile, NothingToCommit, CloseRemoval,
         yank_crate_version, unyank_crate_version, set_crate_can_remove, PoolTimedOut,
         StorageFails, GitFails, RewriteCut, ClientLeaves, OrphanEnds

(* Lines that go away take nothing from a version.                         *)
LEMMA SomeLines ==
    ASSUME NEW v \in Versions, Sound(v),
           file' = file \/ SomeOf(file', file),
           stored'[v] = stored[v], rows'[v] = "absent" => rows[v] = "absent"
    PROVE  Sound(v)' /\ (Lines(v) = {} => Lines(v)' = {})
  <1>1. CASE file' = file
    BY <1>1 DEF Sound, SoundIn, Lines, LinesOf
  <1>2. CASE SomeOf(file', file)
    <2>1. PICK e \in [DOMAIN file' -> DOMAIN file] :
             /\ \A i \in DOMAIN file' : file'[i] = file[e[i]]
             /\ \A i, j \in DOMAIN file' : e[i] = e[j] => i = j
      BY <1>2 DEF SomeOf
    <2>2. \A i \in Lines(v)' : i \in DOMAIN file' /\ e[i] \in Lines(v)
      BY <2>1 DEF Lines, LinesOf
    <2> QED BY <2>1, <2>2 DEF LinesOf, Lines, Sound, SoundIn
  <1> QED BY <1>1, <1>2

(* A step that adds no line of the version, touches none of its files, and *)
(* lets no publish of it go on.                                            *)
LEMMA UploadFrame ==
    ASSUME NEW v \in Versions, UploadInv(v),
           Sound(v)', Lines(v) = {} => Lines(v)' = {},
           stored'[v] = stored[v], rows'[v] = "absent" <=> rows[v] = "absent",
           \A c \in Callers : Pending(c, v)' => calls'[c] = calls[c]
    PROVE  UploadInv(v)'
  <1>1. \A c \in Callers : Pending(c, v)' => Pending(c, v) /\ calls'[c] = calls[c]
    BY DEF Pending
  <1>2. rows'[v] = "absent" => Lines(v)' = {}
    BY DEF UploadInv, ListedInv, Lines, Sound
  <1>3. ASSUME NEW c \in Callers, Pending(c, v)'
        PROVE  /\ rows'[v] # "absent"
               /\ Lines(v)' = {}
               /\ \A p \in Written(calls'[c].at) : stored'[v][p] = calls'[c].content
    BY <1>1, <1>3 DEF UploadInv, ListedInv, Lines, Sound
  <1>4. \A c, d \in Callers : Pending(c, v)' /\ Pending(d, v)' => c = d
    BY <1>1 DEF UploadInv, ListedInv, Lines, Sound
  <1> QED BY <1>2, <1>3, <1>4 DEF UploadInv, ListedInv, Lines, Sound

(* The same when lines may go away.                                        *)
LEMMA UploadQuiet ==
    ASSUME NEW v \in Versions, UploadInv(v),
           file' = file \/ SomeOf(file', file),
           stored'[v] = stored[v], rows'[v] = "absent" <=> rows[v] = "absent",
           \A c \in Callers : Pending(c, v)' => calls'[c] = calls[c]
    PROVE  UploadInv(v)'
  <1>1. Sound(v)
    BY DEF UploadInv, ListedInv, Lines, Sound
  <1> QED BY <1>1, SomeLines, UploadFrame

(* A request that ends is no longer a publish that is pending, and leaves  *)
(* the others as they were.                                                *)
LEMMA AnswerPending ==
    ASSUME TypeOK, NEW c \in Callers, Answer(c)
    PROVE  \A d \in Callers, v \in Versions : Pending(d, v)' => calls'[d] = calls[d]
  <1>1. calls' = [calls EXCEPT ![c] = Idle] /\ calls \in [Callers -> Call]
    BY DEF Answer, TypeOK
  <1> QED BY <1>1 DEF Pending, Idle

(* Neither is one that goes on to a step that is not one of an upload.     *)
LEMMA GotoPending ==
    ASSUME TypeOK, NEW c \in Callers, NEW step, Goto(c, step), step \notin Files \cup {"index"}
    PROVE  \A d \in Callers, v \in Versions : Pending(d, v)' => calls'[d] = calls[d]
  <1>1. calls' = [calls EXCEPT ![c].at = step] /\ calls \in [Callers -> Call]
    BY DEF Goto, TypeOK
  <1> QED BY <1>1 DEF Pending

(* The transaction of a publish finds nothing of the version               *)
(* (packages.rs:168): nobody is publishing it and it is not listed.        *)
LEMMA PublishUpload ==
    ASSUME TypeOK, RemovalInv, NEW v \in Versions, UploadInv(v),
           NEW c \in Callers, publish_crate_version(c)
    PROVE  UploadInv(v)'
  <1> DEFINE u == calls[c].version
  <1>1. /\ calls \in [Callers -> Call] /\ rows \in [Versions -> {"absent", "live", "yanked"}]
        /\ calls[c] \in PublishCall /\ u \in Versions /\ calls[c].name \in Names
    BY CallTypes DEF TypeOK, publish_crate_version, At, PublishCall
  <1>2. /\ calls' = [calls EXCEPT ![c].at = "data"] /\ rows' = [rows EXCEPT ![u] = "live"]
        /\ stored' = stored /\ file' = file
    BY DEF publish_crate_version, Goto, indexVars
  <1>3. rows[u] = "absent"
    BY <1>1 DEF publish_crate_version, CanPublish, VersionExists, RemovalInv
  <1>4. CASE u # v
    <2>1. \A d \in Callers : Pending(d, v)' => calls'[d] = calls[d]
      BY <1>1, <1>2, <1>4 DEF Pending, PublishCall
    <2>2. rows'[v] = rows[v]
      BY <1>1, <1>2, <1>4
    <2> QED BY <1>2, <2>1, <2>2, UploadQuiet
  <1>5. CASE u = v
    <2>1. rows'[v] # "absent" /\ Lines(v)' = {} /\ Sound(v)'
      BY <1>1, <1>2, <1>3, <1>5 DEF UploadInv, ListedInv, Lines, LinesOf, Sound, SoundIn
    <2>2. \A d \in Callers : Pending(d, v)' => d = c
      BY <1>1, <1>2, <1>3, <1>5 DEF Pending, UploadInv, ListedInv, Lines, Sound
    <2>3. calls'[c].at = "data" /\ Written("data") = {}
      BY <1>1, <1>2 DEF Written, PublishCall
    <2> QED BY <2>1, <2>2, <2>3 DEF UploadInv, ListedInv, Lines, Sound
  <1> QED BY <1>4, <1>5

(* A file is written before the line exists (application.rs:450).          *)
LEMMA StoreUpload ==
    ASSUME TypeOK, NEW v \in Versions, UploadInv(v),
           NEW c \in Callers, NEW p \in Files, store_crate(c, p)
    PROVE  UploadInv(v)'
  <1> DEFINE u == calls[c].version
             next == NextPart(p)
  <1>1. /\ calls \in [Callers -> Call] /\ calls[c] \in PublishCall /\ u \in Versions
        /\ stored \in [Versions -> [Files -> Contents \cup {None}]]
    BY CallTypes DEF TypeOK, store_crate, At, PublishCall
  <1>2. /\ calls' = [calls EXCEPT ![c].at = next]
        /\ stored' = [stored EXCEPT ![u][p] = calls[c].content]
        /\ rows' = rows /\ file' = file /\ calls[c].at = p /\ calls[c].op = "publish"
    BY DEF store_crate, Goto, At, dbVars, indexVars
  <1>3. CASE u # v
    <2>1. \A d \in Callers : Pending(d, v)' => calls'[d] = calls[d]
      BY <1>1, <1>2, <1>3 DEF Pending, PublishCall
    <2>2. stored'[v] = stored[v]
      BY <1>1, <1>2, <1>3
    <2> QED BY <1>2, <2>1, <2>2, UploadQuiet
  <1>4. CASE u = v
    <2>1. Pending(c, v)
      BY <1>2, <1>4 DEF Pending
    <2>2. rows'[v] # "absent" /\ Lines(v)' = {} /\ Sound(v)'
      BY <1>2, <2>1 DEF UploadInv, ListedInv, Lines, LinesOf, Sound, SoundIn
    <2>3. \A d \in Callers : Pending(d, v)' => d = c
      BY <1>1, <1>2, <2>1 DEF Pending, UploadInv, ListedInv, Lines, Sound
    <2>4. calls'[c].at = next /\ calls'[c].content = calls[c].content
      BY <1>1, <1>2 DEF PublishCall
    <2>5. \A q \in Written(next) : q = p \/ q \in Written(p)
      BY DEF NextPart, Written, Files
    <2>6. \A q \in Written(p) : stored[v][q] = calls[c].content
      BY <1>2, <2>1 DEF UploadInv, ListedInv, Lines, Sound
    <2>7. \A q \in Written(next) : stored'[v][q] = calls[c].content
      <3>1. Written(p) \subseteq Files
        BY DEF Written, Files
      <3>2. stored'[v] = [stored[v] EXCEPT ![p] = calls[c].content] /\ stored[v] \in [Files -> Contents \cup {None}]
        BY <1>1, <1>2, <1>4
      <3> QED BY <2>5, <2>6, <3>1, <3>2
    <2> QED BY <2>2, <2>3, <2>4, <2>7 DEF UploadInv, ListedInv, Lines, Sound
  <1> QED BY <1>3, <1>4

(* The line is the only one of its version, and its files are there.       *)
LEMMA AppendUpload ==
    ASSUME TypeOK, NEW v \in Versions, UploadInv(v),
           NEW c \in Callers, AppendLine(c)
    PROVE  UploadInv(v)'
  <1> DEFINE u == calls[c].version
             n == Len(file)
             l == build_index_data(calls[c])
  <1>1. /\ calls \in [Callers -> Call] /\ calls[c] \in PublishCall /\ u \in Versions
        /\ calls[c].at = "index" /\ calls[c].op = "publish" /\ file \in Seq(Line)
    BY CallTypes DEF TypeOK, AppendLine, At, PublishCall
  <1>2. /\ calls' = [calls EXCEPT ![c].at = "commit"] /\ file' = Append(file, l)
        /\ rows' = rows /\ stored' = stored
    BY DEF AppendLine, Goto, dbVars
  <1>3. l.vers = u /\ l.cksum = calls[c].content /\ l \in Line
    BY <1>1 DEF build_index_data, Line, PublishCall
  <1>4. /\ n \in Nat /\ DOMAIN file = 1..n /\ DOMAIN file' = 1..(n + 1)
        /\ file'[n + 1] = l /\ \A i \in 1..n : file'[i] = file[i]
    <2>1. /\ file' \in Seq(Line) /\ Len(file') = n + 1
          /\ file'[n + 1] = l /\ \A i \in 1..n : file'[i] = file[i]
      BY <1>1, <1>2, <1>3, AppendProperties
    <2> HIDE DEF l
    <2> QED BY <1>1, <2>1, LenProperties
  <1> HIDE DEF l, n
  <1>5. \A d \in Callers : Pending(d, v)' => calls'[d] = calls[d]
    BY GotoPending DEF AppendLine, Files
  <1>6. CASE u # v
    <2>1. \A i \in Lines(v)' : i \in Lines(v) /\ file'[i] = file[i]
      <3>1. \A i \in 1..(n + 1) : i \in 1..n \/ i = n + 1
        BY <1>4
      <3> QED BY <1>3, <1>4, <1>6, <3>1 DEF Lines, LinesOf
    <2>2. Sound(v)' /\ (Lines(v) = {} => Lines(v)' = {})
      BY <1>2, <2>1 DEF LinesOf, UploadInv, ListedInv, Lines, Sound, SoundIn
    <2> QED BY <1>2, <1>5, <2>2, UploadFrame
  <1>7. CASE u = v
    <2>1. Pending(c, v)
      BY <1>1, <1>7 DEF Pending
    <2>2. \A d \in Callers : ~Pending(d, v)'
      BY <1>1, <1>2, <1>5, <2>1 DEF Pending, UploadInv, ListedInv, Lines, Sound, Files
    <2>3. rows[v] # "absent" /\ \A p \in Files : stored[v][p] = calls[c].content
      <3>1. Written(calls[c].at) = Files
        BY <1>1 DEF Written
      <3> QED BY <2>1, <3>1 DEF UploadInv, ListedInv, Lines, Sound
    <2>4. \A i \in Lines(v)' : i = n + 1
      <3>1. Lines(v) = {}
        BY <2>1 DEF UploadInv, ListedInv, Lines, Sound
      <3>2. \A i \in 1..(n + 1) : i \in 1..n \/ i = n + 1
        BY <1>4
      <3> QED BY <1>4, <3>1, <3>2 DEF Lines, LinesOf
    <2>5. Sound(v)'
      BY <1>2, <1>3, <1>4, <2>3, <2>4 DEF LinesOf, Lines, Sound, SoundIn
    <2> QED BY <1>2, <2>2, <2>3, <2>5 DEF UploadInv, ListedInv, Lines, Sound
  <1> QED BY <1>6, <1>7

(* The removal closes when its version has no line and no publish left.    *)
LEMMA CloseUpload ==
    ASSUME TypeOK, HolderInv, RemovalInv, CleanInv, NEW v \in Versions, UploadInv(v),
           v \notin removed \/ (failures = 0 /\ v \notin overtaken),
           NEW c \in Callers, CloseRemoval(c)
    PROVE  UploadInv(v)'
  <1> DEFINE w == calls[c].version
  <1>1. /\ rows \in [Versions -> {"absent", "live", "yanked"}] /\ w \in Versions
        /\ rows' = [rows EXCEPT ![w] = "absent"] /\ stored' = stored /\ file' = file
        /\ calls[c].at = "close" /\ calls[c].op = "remove" /\ writer = c
    BY CallTypes DEF TypeOK, HolderInv, CloseRemoval, At, RemoveCall
  <1>2. \A d \in Callers : Pending(d, v)' => calls'[d] = calls[d]
    BY AnswerPending DEF CloseRemoval
  <1>3. CASE w # v
    <2>1. rows'[v] = rows[v]
      BY <1>1, <1>3
    <2> QED BY <1>1, <1>2, <2>1, UploadQuiet
  <1>4. CASE w = v
    <2>1. failures = 0 /\ v \notin overtaken
      BY <1>1, <1>4 DEF RemovalInv
    <2>2. Lines(v) = {} /\ \A d \in Callers : ~Pending(d, v)
      BY <1>1, <1>4, <2>1 DEF CleanInv
    <2>3. Lines(v)' = {} /\ \A d \in Callers : ~Pending(d, v)'
      BY <1>1, <1>2, <2>2 DEF Lines, LinesOf, Pending
    <2> QED BY <2>3 DEF UploadInv, ListedInv, Lines, Sound, SoundIn
  <1> QED BY <1>3, <1>4

LEMMA NextUpload ==
    ASSUME IInv, [Next]_vars, NEW v \in Versions,
           v \notin removed' \/ (failures' = 0 /\ v \notin overtaken')
    PROVE  UploadInv(v)'
  <1>0. /\ TypeOK /\ HolderInv /\ RemovalInv /\ CleanInv
        /\ v \notin removed \/ (failures = 0 /\ v \notin overtaken)
        /\ UploadInv(v)
    BY Monotone DEF IInv
  <1>1. CASE UNCHANGED vars
    BY <1>0, <1>1, UploadQuiet DEF vars, dbVars, indexVars
  <1>2. ASSUME NEW c \in Callers, NEW n \in Names, NEW u \in Versions,
               RequestRemove(c, n, u) \/ \E x \in Contents : RequestPublish(c, n, u, x)
        PROVE  UploadInv(v)'
    <2>1. \A d \in Callers : Pending(d, v)' => calls'[d] = calls[d]
      BY <1>0, <1>2 DEF RequestRemove, RequestPublish, Pending, Files, TypeOK
    <2>2. UNCHANGED <<stored, rows, file>>
      BY <1>2 DEF RequestRemove, RequestPublish, dbVars, indexVars
    <2> QED BY <1>0, <2>1, <2>2, UploadQuiet
  <1>3. ASSUME NEW c \in Callers, Publishing(c)
        PROVE  UploadInv(v)'
    <2>1. CASE publish_crate_version(c)
      BY <1>0, <2>1, PublishUpload
    <2>2. CASE PublishRefused(c)
      BY <1>0, <2>2, AnswerPending, UploadQuiet DEF PublishRefused
    <2>3. ASSUME NEW p \in Files, store_crate(c, p)
          PROVE  UploadInv(v)'
      BY <1>0, <2>3, StoreUpload
    <2>4. CASE AppendLine(c)
      BY <1>0, <2>4, AppendUpload
    <2>5. CASE commit_changes(c, "publish", "docs")
      <3>1. \A d \in Callers : Pending(d, v)' => calls'[d] = calls[d]
        BY <1>0, <2>5, GotoPending DEF commit_changes, Files
      <3> QED BY <1>0, <2>5, <3>1, UploadQuiet DEF commit_changes, dbVars
    <2>6. CASE queue(c)
      BY <1>0, <2>6, AnswerPending, UploadQuiet DEF queue
    <2> QED BY <1>3, <2>1, <2>2, <2>3, <2>4, <2>5, <2>6 DEF Publishing
  <1>4. ASSUME NEW c \in Callers, Removing(c)
        PROVE  UploadInv(v)'
    <2>1. CASE remove_crate_version(c)
      <3>1. \A d \in Callers : Pending(d, v)' => calls'[d] = calls[d]
        BY <1>0, <2>1 DEF remove_crate_version, At, Goto, Pending, TypeOK
      <3> QED BY <1>0, <2>1, <3>1, UploadQuiet DEF remove_crate_version, indexVars
    <2>2. CASE RemoveRefused(c)
      BY <1>0, <2>2, AnswerPending, UploadQuiet DEF RemoveRefused
    <2>3. CASE RewriteFile(c)
      <3>1. \A d \in Callers : Pending(d, v)' => calls'[d] = calls[d]
        BY <1>0, <2>3, GotoPending DEF RewriteFile, Files
      <3>2. SomeOf(file', file)
        BY <1>0, <2>3, RetainedLines DEF RewriteFile, TypeOK
      <3> QED BY <1>0, <2>3, <3>1, <3>2, UploadQuiet DEF RewriteFile, dbVars
    <2>4. CASE commit_changes(c, "remove", "close")
      <3>1. \A d \in Callers : Pending(d, v)' => calls'[d] = calls[d]
        BY <1>0, <2>4, GotoPending DEF commit_changes, Files
      <3> QED BY <1>0, <2>4, <3>1, UploadQuiet DEF commit_changes, dbVars
    <2>5. CASE NothingToCommit(c)
      BY <1>0, <2>5, AnswerPending, UploadQuiet DEF NothingToCommit
    <2>6. CASE CloseRemoval(c)
      BY <1>0, <2>6, CloseUpload
    <2> QED BY <1>4, <2>1, <2>2, <2>3, <2>4, <2>5, <2>6 DEF Removing
  <1>5. ASSUME NEW c \in Callers, NEW u \in Versions,
               yank_crate_version(c, u) \/ unyank_crate_version(c, u)
        PROVE  UploadInv(v)'
    <2>1. rows'[v] = "absent" <=> rows[v] = "absent"
      BY <1>0, <1>5 DEF yank_crate_version, unyank_crate_version, TypeOK
    <2> QED BY <1>0, <1>5, <2>1, UploadQuiet
            DEF yank_crate_version, unyank_crate_version, indexVars
  <1>6. ASSUME NEW c \in Callers, NEW b \in Removable, set_crate_can_remove(c, b)
        PROVE  UploadInv(v)'
    BY <1>0, <1>6, UploadQuiet DEF set_crate_can_remove, indexVars
  <1>7. ASSUME NEW c \in Callers, PoolTimedOut(c) \/ StorageFails(c) \/ GitFails(c) \/ ClientLeaves(c)
        PROVE  UploadInv(v)'
    <2>1. Answer(c) /\ UNCHANGED <<rows, stored, file>>
      BY <1>7 DEF PoolTimedOut, StorageFails, GitFails, ClientLeaves, Fail
    <2> QED BY <1>0, <2>1, AnswerPending, UploadQuiet
  <1>8. ASSUME NEW c \in Callers, RewriteCut(c)
        PROVE  UploadInv(v)'
    <2>1. Answer(c) /\ UNCHANGED <<rows, stored>>
      BY <1>8 DEF RewriteCut, Fail
    <2>2. SomeOf(file', file)
      BY <1>0, <1>8, CutLines DEF RewriteCut, TypeOK
    <2> QED BY <1>0, <2>1, <2>2, AnswerPending, UploadQuiet
  <1>9. ASSUME NEW f \in orphans, OrphanEnds(f)
        PROVE  UploadInv(v)'
    <2>1. UNCHANGED <<rows, stored, file, calls>>
      BY <1>9 DEF OrphanEnds, dbVars
    <2> QED BY <1>0, <2>1, UploadQuiet
  <1> QED BY <1>1, <1>2, <1>3, <1>4, <1>5, <1>6, <1>7, <1>8, <1>9 DEF Next

-----------------------------------------------------------------------------
(* What may be committed.                                                  *)

(* A file that lists a version is not affected by a request which cannot   *)
(* publish it again and which does not remove it.                          *)
LEMMA ListedFrame ==
    ASSUME NEW f, NEW v \in Versions, ListedInv(f, v),
           LinesOf(f, v) # {} =>
              /\ stored'[v] = stored[v]
              /\ rows'[v] = "absent" => rows[v] = "absent"
              /\ \A c \in Callers : Pending(c, v)' => Pending(c, v)
    PROVE  ListedInv(f, v)'
  <1>1. LinesOf(f, v)' = LinesOf(f, v)
    BY DEF LinesOf
  <1>2. CASE LinesOf(f, v) = {}
    BY <1>1, <1>2 DEF ListedInv, SoundIn
  <1>3. CASE LinesOf(f, v) # {}
    BY <1>1, <1>3 DEF ListedInv, SoundIn
  <1> QED BY <1>2, <1>3

(* Nothing takes the row or the files of such a version away.              *)
LEMMA NextListed ==
    ASSUME IInv, [Next]_vars, NEW f, NEW v \in Versions, v \notin removed, ListedInv(f, v)
    PROVE  ListedInv(f, v)'
  <1>0. /\ TypeOK /\ HolderInv /\ RemovalInv /\ calls \in [Callers -> Call]
        /\ rows \in [Versions -> {"absent", "live", "yanked"}]
    BY DEF IInv, TypeOK
  <1> SUFFICES ASSUME LinesOf(f, v) # {}
               PROVE  /\ stored'[v] = stored[v]
                      /\ rows'[v] = "absent" => rows[v] = "absent"
                      /\ \A c \in Callers : Pending(c, v)' => Pending(c, v)
    BY ListedFrame
  <1>a. rows[v] # "absent" /\ \A c \in Callers : ~Pending(c, v)
    BY DEF ListedInv
  <1> DEFINE Same == /\ stored'[v] = stored[v] /\ rows'[v] # "absent"
                     /\ \A c \in Callers : ~Pending(c, v)'
  <1>b. SUFFICES Same
    OBVIOUS
  <1>1. CASE UNCHANGED vars
    BY <1>1, <1>a DEF vars, dbVars, Pending
  <1>2. ASSUME NEW c \in Callers, NEW n \in Names, NEW u \in Versions,
               RequestRemove(c, n, u) \/ \E x \in Contents : RequestPublish(c, n, u, x)
        PROVE  Same
    BY <1>0, <1>2, <1>a DEF RequestRemove, RequestPublish, Pending, Files, dbVars
  <1>3. ASSUME NEW c \in Callers, Answer(c)
        PROVE  \A d \in Callers : ~Pending(d, v)'
    BY <1>0, <1>3, <1>a, AnswerPending DEF Pending
  <1>4. ASSUME NEW c \in Callers, Publishing(c)
        PROVE  Same
    <2>1. CASE publish_crate_version(c)
      <3>1. calls[c] \in PublishCall
        BY <1>0, <2>1, CallTypes DEF publish_crate_version, At
      <3>2. calls[c].version # v
        BY <1>0, <1>a, <2>1, <3>1
           DEF publish_crate_version, CanPublish, VersionExists, RemovalInv, PublishCall
      <3> QED BY <1>0, <1>a, <2>1, <3>1, <3>2 DEF publish_crate_version, Goto, Pending, PublishCall
    <2>2. CASE PublishRefused(c) \/ queue(c)
      BY <1>3, <1>a, <2>2 DEF PublishRefused, queue
    <2>3. ASSUME NEW p \in Files, store_crate(c, p)
          PROVE  Same
      <3>1. calls[c] \in PublishCall /\ calls[c].version # v
        BY <1>0, <1>a, <2>3, CallTypes DEF store_crate, At, Pending
      <3> QED BY <1>0, <1>a, <2>3, <3>1 DEF store_crate, Goto, Pending, PublishCall, dbVars, TypeOK
    <2>4. CASE AppendLine(c) \/ commit_changes(c, "publish", "docs")
      <3>1. \A d \in Callers : ~Pending(d, v)'
        BY <1>0, <1>a, <2>4, GotoPending DEF AppendLine, commit_changes, Files, Pending
      <3> QED BY <1>a, <2>4, <3>1 DEF AppendLine, commit_changes, dbVars
    <2> QED BY <1>4, <2>1, <2>2, <2>3, <2>4 DEF Publishing
  <1>5. ASSUME NEW c \in Callers, Removing(c)
        PROVE  Same
    <2>1. CASE remove_crate_version(c)
      BY <1>0, <1>a, <2>1 DEF remove_crate_version, At, Goto, Pending
    <2>2. CASE RemoveRefused(c) \/ NothingToCommit(c)
      BY <1>3, <1>a, <2>2 DEF RemoveRefused, NothingToCommit
    <2>3. CASE RewriteFile(c) \/ commit_changes(c, "remove", "close")
      <3>1. \A d \in Callers : ~Pending(d, v)'
        BY <1>0, <1>a, <2>3, GotoPending DEF RewriteFile, commit_changes, Files, Pending
      <3> QED BY <1>a, <2>3, <3>1 DEF RewriteFile, commit_changes, dbVars
    <2>4. CASE CloseRemoval(c)
      <3>1. calls[c].version \in removed
        BY <1>0, <2>4 DEF CloseRemoval, At, HolderInv, RemovalInv
      <3> QED BY <1>0, <1>3, <1>a, <2>4, <3>1 DEF CloseRemoval
    <2> QED BY <1>5, <2>1, <2>2, <2>3, <2>4 DEF Removing
  <1>6. ASSUME NEW c \in Callers, NEW u \in Versions,
               yank_crate_version(c, u) \/ unyank_crate_version(c, u)
        PROVE  Same
    BY <1>0, <1>6, <1>a DEF yank_crate_version, unyank_crate_version, Pending
  <1>7. ASSUME NEW c \in Callers, NEW b \in Removable, set_crate_can_remove(c, b)
        PROVE  Same
    BY <1>7, <1>a DEF set_crate_can_remove, Pending
  <1>8. ASSUME NEW c \in Callers,
               \/ PoolTimedOut(c)
               \/ StorageFails(c) \/ GitFails(c) \/ RewriteCut(c) \/ ClientLeaves(c)
        PROVE  Same
    BY <1>3, <1>8, <1>a DEF PoolTimedOut, StorageFails, GitFails, RewriteCut, ClientLeaves, Fail
  <1>9. ASSUME NEW g \in orphans, OrphanEnds(g)
        PROVE  Same
    BY <1>9, <1>a DEF OrphanEnds, dbVars, Pending
  <1> QED BY <1>1, <1>2, <1>4, <1>5, <1>6, <1>7, <1>8, <1>9 DEF Next

(* Whatever is committed, or may be, was the file or could be already      *)
(* (git.rs:255, utils/mod.rs:54).                                          *)
LEMMA NextCommits ==
    ASSUME TypeOK, [Next]_vars
    PROVE  Commits' \subseteq Commits \cup {file}
  <1>1. CASE UNCHANGED vars
    BY <1>1 DEF Commits, vars, indexVars
  <1>2. ASSUME NEW c \in Callers, NEW n \in Names, NEW u \in Versions,
               RequestRemove(c, n, u) \/ \E x \in Contents : RequestPublish(c, n, u, x)
        PROVE  UNCHANGED <<head, orphans>>
    BY <1>2 DEF RequestRemove, RequestPublish, indexVars
  <1>3. ASSUME NEW c \in Callers, Publishing(c)
        PROVE  head' \in {head, file} /\ UNCHANGED orphans
    BY <1>3 DEF Publishing, publish_crate_version, PublishRefused, store_crate, AppendLine,
                commit_changes, queue, indexVars
  <1>4. ASSUME NEW c \in Callers, Removing(c)
        PROVE  head' \in {head, file} /\ UNCHANGED orphans
    BY <1>4 DEF Removing, remove_crate_version, RemoveRefused, RewriteFile, commit_changes,
                NothingToCommit, CloseRemoval, indexVars
  <1>5. ASSUME NEW c \in Callers,
               \/ \E v \in Versions : yank_crate_version(c, v) \/ unyank_crate_version(c, v)
               \/ \E b \in Removable : set_crate_can_remove(c, b)
               \/ PoolTimedOut(c) \/ StorageFails(c) \/ GitFails(c) \/ RewriteCut(c)
        PROVE  head' \in {head, file} /\ UNCHANGED orphans
    BY <1>5 DEF yank_crate_version, unyank_crate_version, set_crate_can_remove, PoolTimedOut,
                StorageFails, GitFails, RewriteCut, indexVars
  <1>6. ASSUME NEW c \in Callers, ClientLeaves(c)
        PROVE  orphans' \subseteq orphans \cup {file} /\ UNCHANGED head
    BY <1>6 DEF ClientLeaves
  <1>7. ASSUME NEW f \in orphans, OrphanEnds(f)
        PROVE  head' \in {head, f, file} /\ orphans' \subseteq orphans
    BY <1>7 DEF OrphanEnds
  <1> QED BY <1>1, <1>2, <1>3, <1>4, <1>5, <1>6, <1>7 DEF Next, Commits

LEMMA CommitsListed ==
    ASSUME IInv, [Next]_vars, NEW v \in Versions, v \notin removed', NEW f \in Commits'
    PROVE  ListedInv(f, v)'
  <1>1. v \notin removed
    BY Monotone DEF IInv
  <1>2. f \in Commits \cup {file}
    BY NextCommits DEF IInv
  <1>3. CASE f \in Commits
    <2>1. ListedInv(f, v)
      BY <1>1, <1>3 DEF IInv
    <2> QED BY <1>1, <2>1, NextListed
  <1>4. CASE f = file
    <2>1. ListedInv(f, v)
      BY <1>1, <1>4 DEF IInv, UploadInv, ListedInv, LinesOf, SoundIn
    <2> QED BY <1>1, <2>1, NextListed
  <1> QED BY <1>2, <1>3, <1>4

-----------------------------------------------------------------------------
(* What holds until something fails.                                       *)

(* A step that leaves the index alone, lets no removal go on, and no       *)
(* publish begin while there is one.                                       *)
LEMMA CleanQuiet ==
    ASSUME TypeOK, HolderInv, CleanInv, failures' = 0 => failures = 0,
           UNCHANGED <<file, head, orphans>>, overtaken \subseteq overtaken',
           lock' = None => lock = None \/ head = file,
           \A c \in Callers : writer' = c =>
              /\ calls'[c].at \in {"commit", "close"} => writer = c /\ calls'[c] = calls[c]
              /\ \A d \in Callers, v \in Versions : Pending(d, v)' => Pending(d, v)
    PROVE  CleanInv'
  <1> SUFFICES ASSUME failures' = 0 PROVE CleanInv'
    BY DEF CleanInv
  <1>1. failures = 0
    OBVIOUS
  <1>2. orphans' = {} /\ (lock' = None => head' = file')
    BY <1>1 DEF CleanInv
  <1>3. ASSUME NEW c \in Callers, NEW v, writer' = c, calls'[c].at \in {"commit", "close"},
               calls'[c].version = v, v \notin overtaken'
        PROVE  /\ Lines(v)' = {}
               /\ calls'[c].at = "close" \/ file' # head' => \A d \in Callers : ~Pending(d, v)'
    <2>1. /\ writer = c /\ calls'[c] = calls[c] /\ calls[c].at \in {"commit", "close"}
          /\ calls[c].version = v /\ v \notin overtaken
      BY <1>3
    <2>2. v \in Versions
      BY <2>1, CallTypes DEF HolderInv, RemoveCall
    <2>3. \A d \in Callers : Pending(d, v)' => Pending(d, v)
      BY <1>3, <2>2
    <2>4. Lines(v) = {} /\ Lines(v)' = Lines(v)
      BY <1>1, <2>1 DEF CleanInv, Lines, LinesOf
    <2>5. calls[c].at = "close" \/ file # head => \A d \in Callers : ~Pending(d, v)
      BY <1>1, <2>1 DEF CleanInv
    <2> QED BY <2>1, <2>3, <2>4, <2>5
  <1> QED BY <1>2, <1>3 DEF CleanInv, Lines, LinesOf, Pending

(* A request that ends, with nothing to commit if it held the mutex.       *)
LEMMA AnswerClean ==
    ASSUME TypeOK, HolderInv, CleanInv, NEW c \in Callers, Answer(c),
           UNCHANGED <<file, head, orphans, overtaken, failures>>, calls[c].at = "commit" => head = file
    PROVE  CleanInv'
  <1>1. calls' = [calls EXCEPT ![c] = Idle] /\ calls \in [Callers -> Call]
    BY DEF Answer, TypeOK
  <1>2. lock' = None => lock = None \/ head = file
    BY DEF Answer, Free, HolderInv
  <1>3. ASSUME NEW d \in Callers, writer' = d
        PROVE  writer = d /\ calls'[d] = calls[d]
    BY <1>1, <1>3 DEF Answer, Free
  <1>4. \A d \in Callers, v \in Versions : Pending(d, v)' => Pending(d, v)
    BY AnswerPending DEF Pending
  <1> QED BY <1>2, <1>3, <1>4, CleanQuiet

(* The appended line is not one of a version whose removal closes.         *)
LEMMA AppendClean ==
    ASSUME TypeOK, HolderInv, CleanInv, NEW c \in Callers, AppendLine(c)
    PROVE  CleanInv'
  <1> SUFFICES ASSUME failures = 0 PROVE CleanInv'
    BY DEF CleanInv, AppendLine
  <1> DEFINE l == build_index_data(calls[c])
  <1>1. /\ calls \in [Callers -> Call] /\ calls[c] \in PublishCall
        /\ calls[c].at = "index" /\ calls[c].op = "publish" /\ file \in Seq(Line)
        /\ calls' = [calls EXCEPT ![c].at = "commit"] /\ file' = Append(file, l)
        /\ lock = None /\ lock' = c /\ writer' = writer /\ head' = head
        /\ UNCHANGED <<orphans, overtaken>>
    BY CallTypes DEF TypeOK, AppendLine, At, Goto, dbVars, ghostVars
  <1>2. l.vers = calls[c].version /\ l \in Line
    BY <1>1 DEF build_index_data, Line, PublishCall
  <1>3. /\ DOMAIN file' = 1..(Len(file) + 1) /\ DOMAIN file = 1..Len(file) /\ Len(file) \in Nat
        /\ file'[Len(file) + 1] = l /\ \A i \in 1..Len(file) : file'[i] = file[i]
    <2> HIDE DEF l
    <2>1. /\ file' \in Seq(Line) /\ Len(file') = Len(file) + 1
          /\ file'[Len(file) + 1] = l /\ \A i \in 1..Len(file) : file'[i] = file[i]
      BY <1>1, <1>2, AppendProperties
    <2> QED BY <1>1, <2>1, LenProperties
  <1> HIDE DEF l
  <1>4. \A d \in Callers, v \in Versions : Pending(d, v)' => Pending(d, v)
    BY GotoPending DEF AppendLine, Files, Pending
  <1>5. ASSUME NEW d \in Callers, NEW v, writer' = d, calls'[d].at \in {"commit", "close"},
               calls'[d].version = v, v \notin overtaken'
        PROVE  Lines(v)' = {} /\ \A e \in Callers : ~Pending(e, v)'
    <2>1. writer = d /\ calls[d].op = "remove" /\ calls'[d] = calls[d]
      BY <1>1, <1>5 DEF HolderInv
    <2>2. calls[d].at = "close" /\ calls[d].version = v /\ v \in Versions
      BY <1>1, <1>5, <2>1, CallTypes DEF HolderInv, RemoveCall
    <2>3. Lines(v) = {} /\ \A e \in Callers : ~Pending(e, v)
      BY <1>1, <1>5, <2>1, <2>2 DEF CleanInv
    <2>4. l.vers # v
      BY <1>1, <1>2, <2>3 DEF Pending
    <2>5. \A i \in 1..(Len(file) + 1) : i \in 1..Len(file) \/ i = Len(file) + 1
      BY <1>3
    <2>6. Lines(v)' = {}
      BY <1>3, <2>3, <2>4, <2>5 DEF Lines, LinesOf
    <2> QED BY <1>4, <2>2, <2>3, <2>6
  <1>6. lock' # None /\ orphans' = {}
    BY <1>1 DEF CleanInv
  <1> QED BY <1>5, <1>6 DEF CleanInv, Lines, LinesOf, Pending

(* A removal that has something to commit removed a line, so that no       *)
(* publish of its version is left.                                         *)
LEMMA RewriteClean ==
    ASSUME IInv, NEW c \in Callers, RewriteFile(c)
    PROVE  CleanInv'
  <1> SUFFICES ASSUME failures = 0 PROVE CleanInv'
    BY DEF CleanInv, RewriteFile
  <1>0. TypeOK /\ HolderInv /\ CleanInv
    BY DEF IInv
  <1>a. PICK w \in Versions : calls[c].version = w
    BY <1>0, CallTypes DEF RewriteFile, At, RemoveCall
  <1>1. /\ calls \in [Callers -> Call] /\ writer = c
        /\ calls' = [calls EXCEPT ![c].at = "commit"] /\ file' = Retained(c)
        /\ lock = None /\ lock' = c /\ writer' = writer /\ head' = head /\ head = file
        /\ UNCHANGED <<orphans, overtaken>>
    BY <1>0 DEF TypeOK, HolderInv, CleanInv, RewriteFile, At, Goto, dbVars, indexVars, ghostVars
  <1>2. calls'[c].version = w
    <2>1. calls[c] \in RemoveCall
      BY <1>0, CallTypes DEF RewriteFile, At
    <2> QED BY <1>a, <1>1, <2>1 DEF RemoveCall
  <1>3. \A d \in Callers, v \in Versions : Pending(d, v)' => Pending(d, v)
    BY <1>0, GotoPending DEF RewriteFile, Files, Pending
  <1>4. Lines(w)' = {}
    BY <1>0, <1>a, <1>1, RetainedLines DEF TypeOK, Lines, LinesOf
  <1>5. w \notin overtaken => (file' # head' => \A d \in Callers : ~Pending(d, w))
    <2>1. file' # head' => Lines(w) # {}
      BY <1>0, <1>a, <1>1, RetainedLines DEF TypeOK
    <2>2. w \notin overtaken => UploadInv(w)
      BY <1>1 DEF IInv
    <2> QED BY <2>1, <2>2 DEF UploadInv, ListedInv, Lines, Sound
  <1>6. ASSUME NEW d \in Callers, NEW v, writer' = d, calls'[d].at \in {"commit", "close"},
               calls'[d].version = v, v \notin overtaken'
        PROVE  /\ Lines(v)' = {}
               /\ calls'[d].at = "close" \/ file' # head' => \A e \in Callers : ~Pending(e, v)'
    <2>1. d = c /\ v = w /\ w \notin overtaken
      BY <1>1, <1>2, <1>6
    <2>2. calls'[c].at = "commit"
      <3>1. calls[c] \in RemoveCall
        BY <1>0, CallTypes DEF RewriteFile, At
      <3> QED BY <1>1, <3>1 DEF RemoveCall
    <2>3. Lines(v)' = {}
      BY <1>4, <2>1
    <2>4. \A e \in Callers : Pending(e, v)' => Pending(e, w)
      BY <1>1, <1>3, <2>1
    <2> QED BY <1>5, <2>1, <2>2, <2>3, <2>4
  <1>7. lock' # None /\ orphans' = {}
    BY <1>0, <1>1 DEF CleanInv
  <1> QED BY <1>6, <1>7 DEF CleanInv, Lines, LinesOf, Pending

(* A commit, of a publish or of a removal.  One of the lines of the last   *)
(* commit lets a removal through that took no line away: its version is    *)
(* overtaken, unless nobody publishes it.                                  *)
LEMMA CommitClean ==
    ASSUME TypeOK, HolderInv, CleanInv, NEW c \in Callers,
           commit_changes(c, "publish", "docs") \/ commit_changes(c, "remove", "close")
    PROVE  CleanInv'
  <1> SUFFICES ASSUME failures = 0 PROVE CleanInv'
    BY DEF CleanInv, commit_changes
  <1>1. /\ calls \in [Callers -> Call] /\ calls[c].at = "commit" /\ lock = c
        /\ file' = file /\ head' = file /\ writer' = writer /\ orphans' = orphans
        /\ overtaken' = overtaken \cup Overtaken(c)
    BY DEF TypeOK, HolderInv, commit_changes, At, dbVars
  <1>a. file # head \/ Reordered
    BY DEF commit_changes, GitCommits
  <1>2. \A d \in Callers, v \in Versions : Pending(d, v)' => Pending(d, v)
    BY GotoPending DEF commit_changes, Files, Pending
  <1>3. \A d \in Callers : calls'[d].version = calls[d].version
    <2>1. \/ calls' = [calls EXCEPT ![c].at = "docs"] /\ calls[c] \in PublishCall
          \/ calls' = [calls EXCEPT ![c].at = "close"] /\ calls[c] \in RemoveCall
      BY CallTypes DEF commit_changes, Goto, At
    <2> QED BY <1>1, <2>1 DEF PublishCall, RemoveCall
  <1>4. ASSUME NEW d \in Callers, NEW v, writer' = d, calls'[d].at \in {"commit", "close"},
               calls'[d].version = v, v \notin overtaken'
        PROVE  Lines(v)' = {} /\ \A e \in Callers : ~Pending(e, v)'
    <2>1. writer = d /\ calls[d].op = "remove" /\ calls[d].version = v
      BY <1>1, <1>3, <1>4 DEF HolderInv
    <2>2. v \in Versions
      BY <2>1, CallTypes DEF RemoveCall
    <2>3. calls[d].at \in {"commit", "close"} /\ (calls[d].at = "commit" => d = c)
      <3>1. d # c => calls'[d] = calls[d]
        BY <1>1 DEF commit_changes, Goto
      <3> QED BY <1>1, <1>4, <3>1 DEF HolderInv
    <2>4. Lines(v) = {} /\ \A e \in Callers : ~Pending(e, v)
      <3>1. v \notin overtaken /\ v \notin Overtaken(c)
        BY <1>1, <1>4
      <3>2. /\ Lines(v) = {}
            /\ calls[d].at = "close" \/ file # head => \A e \in Callers : ~Pending(e, v)
        BY <2>1, <2>3, <3>1 DEF CleanInv
      <3>3. CASE calls[d].at = "close" \/ file # head
        BY <3>2, <3>3
      <3>4. CASE calls[d].at = "commit" /\ Reordered
        BY <2>1, <2>3, <3>1, <3>2, <3>4 DEF Overtaken
      <3> QED BY <1>a, <2>3, <3>3, <3>4
    <2>5. Lines(v)' = Lines(v)
      BY <1>1 DEF Lines, LinesOf
    <2> QED BY <1>2, <2>2, <2>4, <2>5
  <1>5. head' = file' /\ orphans' = {}
    BY <1>1 DEF CleanInv
  <1> QED BY <1>4, <1>5 DEF CleanInv, Lines, LinesOf, Pending

LEMMA NextClean ==
    ASSUME IInv, [Next]_vars
    PROVE  CleanInv'
  <1>0. /\ TypeOK /\ HolderInv /\ RemovalInv /\ CleanInv
        /\ calls \in [Callers -> Call] /\ failures \in Nat
    BY MaxFailuresAssumption DEF IInv, TypeOK
  <1>1. CASE UNCHANGED vars
    BY <1>1, <1>0 DEF vars, dbVars, indexVars, ghostVars, CleanInv, Lines, LinesOf, Pending
  <1>2. ASSUME NEW c \in Callers, NEW n \in Names, NEW u \in Versions,
               RequestRemove(c, n, u) \/ \E x \in Contents : RequestPublish(c, n, u, x)
        PROVE  CleanInv'
    <2>1. /\ UNCHANGED <<writer, file, head, orphans, lock, overtaken, failures>> /\ calls[c].at = "idle"
          /\ \A d \in Callers \ {c} : calls'[d] = calls[d]
      BY <1>0, <1>2 DEF RequestRemove, RequestPublish, dbVars, indexVars, ghostVars
    <2>2. \A d \in Callers, v \in Versions : Pending(d, v)' => Pending(d, v)
      BY <1>0, <1>2 DEF RequestRemove, RequestPublish, Pending, Files
    <2>3. \A d \in Callers : writer = d => d # c
      BY <1>0, <2>1 DEF HolderInv
    <2> QED BY <1>0, <2>1, <2>2, <2>3, CleanQuiet
  <1>3. ASSUME NEW c \in Callers, Publishing(c)
        PROVE  CleanInv'
    <2>1. CASE publish_crate_version(c)
      <3>1. UNCHANGED <<writer, file, head, orphans, lock, overtaken, failures>> /\ writer \notin Callers
        BY <2>1 DEF publish_crate_version, indexVars, ghostVars
      <3> QED BY <1>0, <3>1, CleanQuiet
    <2>2. CASE PublishRefused(c)
      BY <1>0, <2>2, AnswerClean DEF PublishRefused, At, ghostVars
    <2>3. ASSUME NEW p \in Files, store_crate(c, p)
          PROVE  CleanInv'
      <3>1. /\ UNCHANGED <<writer, file, head, orphans, lock, overtaken, failures>>
            /\ calls[c] \in PublishCall /\ calls[c].at = p
            /\ calls' = [calls EXCEPT ![c].at = NextPart(p)]
        BY <1>0, <2>3, CallTypes DEF store_crate, Goto, At, dbVars, indexVars, ghostVars
      <3>2. \A d \in Callers, v \in Versions : Pending(d, v)' => Pending(d, v)
        BY <1>0, <3>1 DEF Pending, PublishCall
      <3>3. \A d \in Callers : writer = d => d # c /\ calls'[d] = calls[d]
        BY <1>0, <3>1 DEF HolderInv, PublishCall
      <3> QED BY <1>0, <3>1, <3>2, <3>3, CleanQuiet
    <2>4. CASE AppendLine(c)
      BY <1>0, <2>4, AppendClean
    <2>5. CASE commit_changes(c, "publish", "docs")
      BY <1>0, <2>5, CommitClean
    <2>6. CASE queue(c)
      BY <1>0, <2>6, AnswerClean DEF queue, At, ghostVars
    <2> QED BY <1>3, <2>1, <2>2, <2>3, <2>4, <2>5, <2>6 DEF Publishing
  <1>4. ASSUME NEW c \in Callers, Removing(c)
        PROVE  CleanInv'
    <2>1. CASE remove_crate_version(c)
      <3>1. UNCHANGED <<file, head, orphans, lock, overtaken, failures>> /\ writer' = c
        BY <2>1 DEF remove_crate_version, indexVars, ghostVars
      <3>2. calls'[c].at = "index"
        <4>1. calls[c] \in RemoveCall
          BY <1>0, <2>1, CallTypes DEF remove_crate_version, At
        <4> QED BY <1>0, <2>1, <4>1 DEF remove_crate_version, Goto, RemoveCall
      <3>3. \A d \in Callers, v \in Versions : Pending(d, v)' => Pending(d, v)
        BY <1>0, <2>1 DEF remove_crate_version, Goto, At, Pending
      <3> QED BY <1>0, <3>1, <3>2, <3>3, CleanQuiet
    <2>2. CASE RemoveRefused(c)
      BY <1>0, <2>2, AnswerClean DEF RemoveRefused, At, ghostVars
    <2>3. CASE RewriteFile(c)
      BY <2>3, RewriteClean
    <2>4. CASE commit_changes(c, "remove", "close")
      BY <1>0, <2>4, CommitClean
    <2>5. CASE NothingToCommit(c)
      BY <1>0, <2>5, AnswerClean DEF NothingToCommit, ghostVars
    <2>6. CASE CloseRemoval(c)
      BY <1>0, <2>6, AnswerClean DEF CloseRemoval, At, ghostVars
    <2> QED BY <1>4, <2>1, <2>2, <2>3, <2>4, <2>5, <2>6 DEF Removing
  <1>5. ASSUME NEW c \in Callers,
               \/ \E v \in Versions : yank_crate_version(c, v) \/ unyank_crate_version(c, v)
               \/ \E b \in Removable : set_crate_can_remove(c, b)
        PROVE  CleanInv'
    <2>1. UNCHANGED <<writer, file, head, orphans, lock, calls, overtaken, failures>>
      BY <1>5 DEF yank_crate_version, unyank_crate_version, set_crate_can_remove, indexVars, ghostVars
    <2> QED BY <1>0, <2>1, CleanQuiet DEF Pending
  <1>6. ASSUME NEW c \in Callers, PoolTimedOut(c)
        PROVE  CleanInv'
    BY <1>0, <1>6, AnswerClean DEF PoolTimedOut, ghostVars
  <1>7. ASSUME NEW c \in Callers,
               StorageFails(c) \/ GitFails(c) \/ RewriteCut(c) \/ ClientLeaves(c)
        PROVE  CleanInv'
    BY <1>0, <1>7 DEF StorageFails, GitFails, RewriteCut, ClientLeaves, Fail, CleanInv
  <1>8. ASSUME NEW f \in orphans, OrphanEnds(f)
        PROVE  CleanInv'
    BY <1>0, <1>8 DEF OrphanEnds, CleanInv
  <1> QED BY <1>1, <1>2, <1>3, <1>4, <1>5, <1>6, <1>7, <1>8 DEF Next

-----------------------------------------------------------------------------
(* What the storage holds.                                                 *)

(* A step which takes no file away, queues no job and lets no publish pass *)
(* a file.                                                                 *)
LEMMA StorageQuiet ==
    ASSUME StorageInv, stored' = stored, jobs' = jobs,
           \A c \in Callers :
              \/ calls'[c] = calls[c]
              \/ calls'[c].op # "publish"
              \/ calls'[c].at \in {"begin", "data"}
              \/ /\ calls[c].op = "publish" /\ calls[c].at \in {"index", "commit"}
                 /\ calls'[c].version = calls[c].version
    PROVE  StorageInv'
  <1>1. JobHasCrate'
    BY DEF StorageInv, JobHasCrate
  <1>2. ASSUME NEW c \in Callers, calls'[c].op = "publish", calls'[c].at # "begin",
               NEW p \in Written(calls'[c].at)
        PROVE  stored'[calls'[c].version][p] # None
    <2>1. CASE calls'[c] = calls[c]
      BY <1>2, <2>1 DEF StorageInv
    <2>2. CASE calls'[c].at = "data"
      BY <1>2, <2>2 DEF Written
    <2>3. CASE /\ calls[c].op = "publish" /\ calls[c].at \in {"index", "commit"}
               /\ calls'[c].version = calls[c].version
      <3>1. p \in Written(calls[c].at)
        BY <1>2, <2>3 DEF Written, Files
      <3> QED BY <2>3, <3>1 DEF StorageInv
    <2> QED BY <1>2, <2>1, <2>2, <2>3
  <1> QED BY <1>1, <1>2 DEF StorageInv

(* A request that ends.                                                    *)
LEMMA AnswerStorage ==
    ASSUME TypeOK, StorageInv, NEW c \in Callers, Answer(c), stored' = stored, jobs' = jobs
    PROVE  StorageInv'
  <1>1. \A d \in Callers : calls'[d] = calls[d] \/ calls'[d].op # "publish"
    BY DEF Answer, TypeOK, Idle
  <1> QED BY <1>1, StorageQuiet

LEMMA StoreStorage ==
    ASSUME TypeOK, StorageInv, NEW c \in Callers, NEW q \in Files, store_crate(c, q)
    PROVE  StorageInv'
  <1>1. /\ calls[c] \in PublishCall /\ calls[c].at = q /\ calls[c].op = "publish"
        /\ calls' = [calls EXCEPT ![c].at = NextPart(q)] /\ jobs' = jobs
        /\ stored' = [stored EXCEPT ![calls[c].version][q] = calls[c].content]
    BY CallTypes DEF store_crate, Goto, At
  <1>2. calls \in [Callers -> Call] /\ jobs \subseteq Versions
    BY DEF TypeOK
  <1>3. stored \in [Versions -> [Files -> Contents \cup {None}]]
    BY DEF TypeOK
  <1>4. calls[c].version \in Versions /\ calls[c].content # None
    BY <1>1 DEF PublishCall
  <1>5. /\ \A v \in Versions, p \in Files : stored[v][p] # None => stored'[v][p] # None
        /\ stored'[calls[c].version][q] # None
    BY <1>1, <1>3, <1>4
  <1>6. JobHasCrate'
    BY <1>1, <1>2, <1>5 DEF StorageInv, JobHasCrate
  <1>7. ASSUME NEW d \in Callers, calls'[d].op = "publish", calls'[d].at # "begin",
               NEW p \in Written(calls'[d].at)
        PROVE  stored'[calls'[d].version][p] # None
    <2>1. p \in Files
      BY DEF Written, Files
    <2>2. CASE d = c
      <3>1. calls'[c].at = NextPart(q) /\ calls'[c].version = calls[c].version
        BY <1>1, <1>2 DEF PublishCall
      <3>2. p = q \/ p \in Written(q)
        BY <1>7, <2>2, <3>1 DEF NextPart, Written, Files
      <3>3. CASE p \in Written(q)
        <4>1. stored[calls[c].version][p] # None
          BY <1>1, <3>3 DEF StorageInv, Files
        <4> QED BY <1>4, <1>5, <2>1, <2>2, <3>1, <4>1
      <3> QED BY <1>5, <2>2, <3>1, <3>2, <3>3
    <2>3. CASE d # c
      <3>1. calls'[d] = calls[d]
        BY <1>1, <1>2, <2>3
      <3>2. stored[calls[d].version][p] # None
        BY <1>7, <3>1 DEF StorageInv
      <3>3. calls[d].version \in Versions
        BY <1>7, <3>1, CallTypes DEF PublishCall
      <3> QED BY <1>5, <2>1, <3>1, <3>2, <3>3
    <2> QED BY <2>2, <2>3
  <1> QED BY <1>6, <1>7 DEF StorageInv

(* A job is queued once its publish is past all the files.                 *)
LEMMA QueueStorage ==
    ASSUME TypeOK, StorageInv, NEW c \in Callers, queue(c)
    PROVE  StorageInv'
  <1>1. /\ calls[c].op = "publish" /\ calls[c].at = "docs" /\ stored' = stored
        /\ jobs' = jobs \cup {calls[c].version} /\ calls' = [calls EXCEPT ![c] = Idle]
    BY DEF queue, At, Answer
  <1>2. \A p \in Files : stored[calls[c].version][p] # None
    BY <1>1 DEF StorageInv, Written
  <1>3. JobHasCrate'
    BY <1>1, <1>2 DEF StorageInv, JobHasCrate
  <1>4. \A d \in Callers : calls'[d] = calls[d] \/ calls'[d].op # "publish"
    BY <1>1 DEF TypeOK, Idle
  <1> QED BY <1>1, <1>3, <1>4 DEF StorageInv

LEMMA NextStorage ==
    ASSUME TypeOK, StorageInv, [Next]_vars
    PROVE  StorageInv'
  <1>0. calls \in [Callers -> Call]
    BY DEF TypeOK
  <1>1. CASE UNCHANGED vars
    BY <1>1, StorageQuiet DEF vars
  <1>2. ASSUME NEW c \in Callers, NEW n \in Names, NEW u \in Versions,
               RequestRemove(c, n, u) \/ \E x \in Contents : RequestPublish(c, n, u, x)
        PROVE  StorageInv'
    <2>1. \A d \in Callers : calls'[d] = calls[d] \/ calls'[d].at = "begin"
      BY <1>0, <1>2 DEF RequestRemove, RequestPublish
    <2> QED BY <1>2, <2>1, StorageQuiet DEF RequestRemove, RequestPublish
  <1>3. ASSUME NEW c \in Callers, Publishing(c)
        PROVE  StorageInv'
    <2>1. CASE publish_crate_version(c)
      <3>1. calls[c] \in PublishCall
        BY <2>1, CallTypes DEF publish_crate_version, At
      <3>2. \A d \in Callers : calls'[d] = calls[d] \/ calls'[d].at = "data"
        BY <1>0, <2>1, <3>1 DEF publish_crate_version, Goto, PublishCall
      <3> QED BY <2>1, <3>2, StorageQuiet DEF publish_crate_version
    <2>2. CASE PublishRefused(c)
      BY <2>2, AnswerStorage DEF PublishRefused
    <2>3. ASSUME NEW p \in Files, store_crate(c, p)
          PROVE  StorageInv'
      BY <2>3, StoreStorage
    <2>4. CASE AppendLine(c) \/ commit_changes(c, "publish", "docs")
      <3>1. /\ calls[c] \in PublishCall /\ calls[c].op = "publish"
            /\ calls[c].at \in {"index", "commit"}
            /\ stored' = stored /\ jobs' = jobs
        BY <2>4, CallTypes DEF AppendLine, commit_changes, At
      <3>2. \A d \in Callers : calls'[d] = calls[d] \/ (d = c /\ calls'[d].version = calls[d].version)
        BY <1>0, <2>4, <3>1 DEF AppendLine, commit_changes, Goto, PublishCall
      <3> QED BY <3>1, <3>2, StorageQuiet
    <2>5. CASE queue(c)
      BY <2>5, QueueStorage
    <2> QED BY <1>3, <2>1, <2>2, <2>3, <2>4, <2>5 DEF Publishing
  <1>4. ASSUME NEW c \in Callers, Removing(c)
        PROVE  StorageInv'
    <2>1. CASE remove_crate_version(c) \/ RewriteFile(c) \/ commit_changes(c, "remove", "close")
      <3>1. /\ calls[c] \in RemoveCall /\ calls[c].op = "remove"
            /\ stored' = stored /\ jobs' = jobs
        BY <2>1, CallTypes DEF remove_crate_version, RewriteFile, commit_changes, At
      <3>2. \A d \in Callers : calls'[d] = calls[d] \/ calls'[d].op = "remove"
        BY <1>0, <2>1, <3>1 DEF remove_crate_version, RewriteFile, commit_changes, Goto, RemoveCall
      <3> QED BY <3>1, <3>2, StorageQuiet
    <2>2. CASE RemoveRefused(c) \/ NothingToCommit(c) \/ CloseRemoval(c)
      BY <2>2, AnswerStorage DEF RemoveRefused, NothingToCommit, CloseRemoval
    <2> QED BY <1>4, <2>1, <2>2 DEF Removing
  <1>5. ASSUME NEW c \in Callers,
               \/ \E v \in Versions : yank_crate_version(c, v) \/ unyank_crate_version(c, v)
               \/ \E b \in Removable : set_crate_can_remove(c, b)
        PROVE  StorageInv'
    <2>1. UNCHANGED <<stored, jobs, calls>>
      BY <1>5 DEF yank_crate_version, unyank_crate_version, set_crate_can_remove
    <2> QED BY <2>1, StorageQuiet
  <1>6. ASSUME NEW c \in Callers,
               \/ PoolTimedOut(c) \/ StorageFails(c) \/ GitFails(c) \/ RewriteCut(c)
               \/ ClientLeaves(c)
        PROVE  StorageInv'
    BY <1>6, AnswerStorage DEF PoolTimedOut, StorageFails, GitFails, RewriteCut, ClientLeaves, Fail
  <1>7. ASSUME NEW f \in orphans, OrphanEnds(f)
        PROVE  StorageInv'
    BY <1>7, StorageQuiet DEF OrphanEnds
  <1> QED BY <1>1, <1>2, <1>3, <1>4, <1>5, <1>6, <1>7 DEF Next

-----------------------------------------------------------------------------
(* The theorems.                                                           *)

LEMMA InitInv == Init => IInv
  <1> SUFFICES ASSUME Init PROVE IInv
    OBVIOUS
  <1>1. TypeOK
    BY InitType
  <1>2. /\ \A c \in Callers : calls[c].op = "none" /\ calls[c].at = "idle"
        /\ \A v \in Versions : rows[v] = "absent"
        /\ writer = None /\ lock = None /\ file = head /\ orphans = {} /\ DOMAIN file = {}
    BY DEF Init, Idle
  <1>3. HolderInv /\ RemovalInv /\ CleanInv
    BY <1>2 DEF HolderInv, RemovalInv, CleanInv
  <1>4. \A v \in Versions : UploadInv(v)
    BY <1>2 DEF UploadInv, ListedInv, Lines, LinesOf, Sound, SoundIn, Pending
  <1>5. \A v \in Versions, f \in Commits : ListedInv(f, v)
    BY <1>2 DEF Commits, ListedInv, LinesOf, SoundIn, Pending
  <1>6. StorageInv
    BY <1>2 DEF Init, StorageInv, JobHasCrate
  <1> QED BY <1>1, <1>3, <1>4, <1>5, <1>6 DEF IInv

LEMMA NextInv ==
    ASSUME IInv, [Next]_vars
    PROVE  IInv'
  <1>1. TypeOK' /\ HolderInv' /\ RemovalInv' /\ StorageInv'
    BY NextType, NextHolder, NextRemoval, NextStorage DEF IInv
  <1>2. CleanInv'
    BY NextClean
  <1>3. \A v \in Versions :
           v \notin removed' \/ (failures' = 0 /\ v \notin overtaken') => UploadInv(v)'
    BY NextUpload
  <1>4. \A v \in Versions : v \notin removed' => \A f \in Commits' : ListedInv(f, v)'
    BY CommitsListed
  <1> QED BY <1>1, <1>2, <1>3, <1>4 DEF IInv

(* The inductive invariant: what the step of each request says of the      *)
(* database, the storage and the index holds after any interleaving of     *)
(* publishes, removals, yanks and failures (application.rs:433 and 542).   *)
THEOREM Invariance == Spec => []IInv
  <1> QED BY InitInv, NextInv, PTL DEF Spec

(* Every variable keeps its type.                                          *)
THEOREM TypeCorrect == Spec => []TypeOK
  <1>1. IInv => TypeOK
    BY DEF IInv
  <1> QED BY <1>1, Invariance, PTL

(* Whatever fails, a version that was never to be removed is listed at     *)
(* most once, with a row and with the files of the listed upload           *)
(* (application.rs:433).                                                   *)
THEOREM NeverRemovedSound == Spec => []NeverRemovedIsSound
  <1>1. IInv => NeverRemovedIsSound
    BY DEF IInv, UploadInv, ListedInv, Lines, Sound, NeverRemovedIsSound
  <1> QED BY <1>1, Invariance, PTL

(* Until something fails, the same holds of every version, those that are  *)
(* removed and published again included, unless its removal came before    *)
(* its line and was let through by the order of the features of another    *)
(* version (application.rs:433 and 542, git.rs:229).                       *)
THEOREM CleanSound == Spec => [](failures = 0 => IndexIsSound)
  <1>1. IInv => (failures = 0 => IndexIsSound)
    BY DEF IInv, UploadInv, ListedInv, Sound, IndexIsSound
  <1> QED BY <1>1, Invariance, PTL

(* When no upload has several features, the same holds of every version    *)
(* without exception: their order is all that lets such a removal through. *)
THEOREM OneOrderSound ==
    Spec => [](ManyFeatures = {} /\ failures = 0 => \A v \in Versions : Sound(v))
  <1> DEFINE NoneOvertaken == ManyFeatures = {} => overtaken = {}
  <1>1. Init => NoneOvertaken
    BY DEF Init
  <1>2. NoneOvertaken /\ [Next]_vars => NoneOvertaken'
    <2> SUFFICES ASSUME ManyFeatures = {}, overtaken = {}, [Next]_vars PROVE overtaken' = {}
      OBVIOUS
    <2>1. \A c : Overtaken(c) = {}
      BY DEF Overtaken, Reordered
    <2> QED BY <2>1, OvertakenGrows
  <1>3. IInv /\ NoneOvertaken =>
           (ManyFeatures = {} /\ failures = 0 => \A v \in Versions : Sound(v))
    BY DEF IInv, UploadInv, ListedInv, Sound
  <1> HIDE DEF NoneOvertaken
  <1> QED BY <1>1, <1>2, <1>3, Invariance, PTL DEF Spec

(* Until something fails, the file of a package is the one of the last     *)
(* commit whenever nobody holds the mutex of the index (git.rs:200).       *)
THEOREM CleanHead == Spec => [](failures = 0 => HeadIsFile)
  <1>1. IInv => (failures = 0 => HeadIsFile)
    BY DEF IInv, CleanInv, HeadIsFile
  <1> QED BY <1>1, Invariance, PTL

(* The same of the last commit, which a git command that outlived its      *)
(* request may have made (git.rs:255, utils/mod.rs:54).                    *)
THEOREM CommitsSound == Spec => []CommitsAreSound
  <1>1. IInv => CommitsAreSound
    BY DEF IInv, Commits, ListedInv, CommitsAreSound
  <1> QED BY <1>1, Invariance, PTL

(* Whatever fails and whoever else publishes or removes it, a version has  *)
(* all its files in the storage once its documentation is queued           *)
(* (application.rs:478).                                                   *)
THEOREM JobsHaveCrates == Spec => []JobHasCrate
  <1>1. IInv => JobHasCrate
    BY DEF IInv, StorageInv
  <1> QED BY <1>1, Invariance, PTL
=============================================================================
