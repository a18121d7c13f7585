------------------------ MODULE WorkersManagerProofs ------------------------
(***************************************************************************)
(* Proofs about WorkersManager, for every set of workers, requesters and   *)
(* jobs, whatever the descriptors and the selectors are.                   *)
(***************************************************************************)
EXTENDS WorkersManager, VecLemmas

USE NoneAssumption

(* The inductive invariant holds initially.                                *)
LEMMA InitInv == Init => IInv
  <1> SUFFICES ASSUME Init PROVE IInv
    OBVIOUS
  <1>1. /\ <<>> \in Seq(Workers) /\ <<>> \in Seq(Requesters)
        /\ DOMAIN <<>> = {}
    OBVIOUS
  <1>2. TypeOK
    BY <1>1 DEF Init, TypeOK
  <1>3. VecInv /\ SleepingIsQueued
    BY <1>1 DEF Init, VecInv, SleepingIsQueued, IsInjective, ToSet, Registered
  <1>4. LeaseInv
    BY <1>1 DEF Init, LeaseInv, ExclusiveCheckout, ToSet, Registered
  <1> QED BY <1>2, <1>3, <1>4 DEF IInv

(* None is never in the Vec.                                               *)
LEMMA NoneNotRegistered == TypeOK => None \notin Registered
  BY LenProperties DEF TypeOK, Registered, ToSet

(* A node connects.                                                        *)
LEMMA RegisterInv ==
    ASSUME IInv, NEW w \in Workers, RegisterWorker(w)
    PROVE  IInv'
  <1> USE DEF IInv, RegisterWorker
  <1>1. w \notin ToSet(workers)
    BY DEF VecInv, Registered
  <1>2. /\ workers' \in Seq(Workers)
        /\ ToSet(workers') = ToSet(workers) \cup {w}
        /\ IsInjective(workers')
    BY <1>1, PushElements DEF TypeOK, VecInv
  <1>3. TypeOK'
    BY <1>2 DEF TypeOK
  <1>4. VecInv'
    BY <1>2 DEF TypeOK, VecInv, Registered
  <1>5. LeaseInv'
    BY <1>1, <1>2 DEF TypeOK, VecInv, LeaseInv, ExclusiveCheckout, Registered, InUse
  <1>6. SleepingIsQueued'
    BY DEF SleepingIsQueued
  <1> QED BY <1>3, <1>4, <1>5, <1>6

(* A node leaves, held or not.                                             *)
LEMMA RemoveInv ==
    ASSUME IInv, NEW w \in Workers, RemoveWorker(w)
    PROVE  IInv'
  <1> USE DEF IInv, RemoveWorker
  <1>1. PICK i \in DOMAIN workers : workers[i] = w /\ workers' = RemoveAt(workers, i)
    OBVIOUS
  <1>2. /\ workers' \in Seq(Workers)
        /\ ToSet(workers') = ToSet(workers) \ {w}
        /\ IsInjective(workers')
    BY <1>1, LenProperties, RemoveAtElements, RemoveAtInjective DEF TypeOK, VecInv
  <1>3. TypeOK'
    BY <1>2 DEF TypeOK
  <1>4. VecInv'
    BY <1>2 DEF TypeOK, VecInv, Registered
  <1>5. LeaseInv'
    BY <1>2 DEF TypeOK, VecInv, LeaseInv, ExclusiveCheckout, Registered, InUse
  <1>6. SleepingIsQueued'
    BY DEF SleepingIsQueued
  <1> QED BY <1>3, <1>4, <1>5, <1>6

(* A task that holds nothing and checks out an available worker: used for  *)
(* get_worker_for and for poll.                                            *)
LEMMA TryGetFoundInv ==
    ASSUME IInv, NEW r \in Requesters, NEW j \in Jobs, NEW next \in {"resolved", "using"},
           pc[r] \in {"idle", "waiting"}, TryGetFound(r, j, next), UNCHANGED queue
    PROVE  IInv'
  <1> USE DEF IInv
  <1>1. PICK i \in DOMAIN workers :
           /\ state[workers[i]] = "Available"
           /\ state' = [state EXCEPT ![workers[i]] = j]
           /\ checkout' = [checkout EXCEPT ![r] = workers[i]]
    BY DEF TryGetFound, Usable, InUse
  <1> DEFINE w == workers[i]
  <1>2. w \in Workers /\ w \in ToSet(workers)
    BY LenProperties, ElementOfSeq DEF TypeOK, ToSet
  <1> HIDE DEF w
  <1>3. /\ state[w] = "Available"
        /\ state' = [state EXCEPT ![w] = j]
        /\ checkout' = [checkout EXCEPT ![r] = w]
    BY <1>1 DEF w
  <1>4. /\ pc' = [pc EXCEPT ![r] = next]
        /\ job' = [job EXCEPT ![r] = j]
        /\ workers' = workers /\ seen' = seen /\ queue' = queue
    BY DEF TryGetFound
  <1>5. \A s \in Requesters : checkout[s] # w
    BY <1>2, <1>3 DEF TypeOK, LeaseInv, Registered, InUse
  <1>6. TypeOK'
    BY <1>2, <1>3, <1>4 DEF TypeOK
  <1>7. VecInv'
    BY <1>2, <1>3, <1>4 DEF TypeOK, VecInv, Registered
  <1>8. LeaseInv'
    <2> USE <1>2, <1>3, <1>4, <1>5 DEF TypeOK, LeaseInv, Registered, InUse
    <2>1. ASSUME NEW s \in Requesters
          PROVE  /\ checkout'[s] # None <=> pc'[s] \in {"resolved", "using"}
                 /\ pc'[s] # "idle" => job'[s] \in Jobs
                 /\ checkout'[s] # None => checkout'[s] \in seen'
                 /\ checkout'[s] \in Registered' => state'[checkout'[s]] = InUse(job'[s])
      BY <2>1 DEF VecInv
    <2>2. ExclusiveCheckout'
      BY DEF ExclusiveCheckout
    <2>3. ASSUME NEW v \in Workers, state'[v] \in Jobs
          PROVE  \E s \in Requesters : checkout'[s] = v
      <3>1. CASE v = w
        BY <3>1
      <3>2. CASE v # w
        <4>1. PICK s \in Requesters : checkout[s] = v
          BY <2>3, <3>2
        <4>2. s # r
          BY <4>1
        <4> QED BY <4>1, <4>2
      <3> QED BY <3>1, <3>2
    <2> QED BY <2>1, <2>2, <2>3
  <1>9. SleepingIsQueued'
    BY <1>4 DEF SleepingIsQueued, TypeOK
  <1> QED BY <1>6, <1>7, <1>8, <1>9

(* A request for which no worker matches: the task is idle again.          *)
LEMMA TryGetErrorInv ==
    ASSUME IInv, NEW r \in Requesters, NEW j \in Jobs,
           pc[r] \in {"idle", "waiting"}, TryGetError(r, j), UNCHANGED queue
    PROVE  IInv'
  <1> USE DEF IInv, TryGetError
  <1>1. TypeOK' /\ VecInv' /\ SleepingIsQueued'
    BY DEF TypeOK, VecInv, SleepingIsQueued, Registered
  <1>2. LeaseInv'
    BY NoneNotRegistered DEF TypeOK, LeaseInv, ExclusiveCheckout, Registered, InUse
  <1> QED BY <1>1, <1>2

(* get_worker_for, with its three outcomes.                                *)
LEMMA GetWorkerForInv ==
    ASSUME IInv, NEW r \in Requesters, NEW j \in Jobs, GetWorkerFor(r, j)
    PROVE  IInv'
  <1> USE DEF GetWorkerFor
  <1>1. CASE TryGetFound(r, j, "resolved")
    BY <1>1, TryGetFoundInv
  <1>2. CASE TryGetError(r, j)
    BY <1>2, TryGetErrorInv
  <1>3. CASE /\ TryGetBusy(j)
             /\ pc' = [pc EXCEPT ![r] = "waiting"]
             /\ job' = [job EXCEPT ![r] = j]
             /\ UNCHANGED <<workers, state, checkout, seen>>
    <2>1. TypeOK' /\ VecInv' /\ SleepingIsQueued'
      BY <1>3 DEF IInv, TypeOK, VecInv, SleepingIsQueued, Registered
    <2>2. LeaseInv'
      BY <1>3, NoneNotRegistered DEF IInv, TypeOK, LeaseInv, ExclusiveCheckout, Registered, InUse
    <2> QED BY <2>1, <2>2 DEF IInv
  <1> QED BY <1>1, <1>2, <1>3

(* The first or a later poll of a waiter.                                  *)
LEMMA PollInv ==
    ASSUME IInv, NEW r \in Requesters, Poll(r)
    PROVE  IInv'
  <1>0. TypeOK /\ VecInv /\ LeaseInv /\ SleepingIsQueued
    BY DEF IInv
  <1>1. CASE /\ pc[r] = "resolved"
             /\ pc' = [pc EXCEPT ![r] = "using"]
             /\ UNCHANGED <<workers, state, queue, job, checkout, seen>>
    <2>1. TypeOK' /\ VecInv' /\ SleepingIsQueued'
      BY <1>0, <1>1 DEF TypeOK, VecInv, SleepingIsQueued, Registered
    <2>2. LeaseInv'
      BY <1>0, <1>1 DEF TypeOK, LeaseInv, ExclusiveCheckout, Registered, InUse
    <2> QED BY <2>1, <2>2 DEF IInv
  <1>2. CASE pc[r] = "waiting" /\ ~ (pc[r] = "resolved")
    <2>0. job[r] \in Jobs
      BY <1>0, <1>2 DEF LeaseInv
    <2>1. CASE TryGetFound(r, job[r], "using") /\ UNCHANGED queue
      BY <1>2, <2>0, <2>1, TryGetFoundInv
    <2>2. CASE TryGetError(r, job[r]) /\ UNCHANGED queue
      BY <1>2, <2>0, <2>2, TryGetErrorInv
    <2>3. CASE /\ TryGetBusy(job[r])
               /\ queue' = Append(queue, r)
               /\ pc' = [pc EXCEPT ![r] = "sleeping"]
               /\ UNCHANGED <<workers, state, job, checkout, seen>>
      <3>1. r \notin ToSet(queue)
        BY <1>0, <1>2 DEF SleepingIsQueued
      <3>2. /\ queue' \in Seq(Requesters)
            /\ ToSet(queue') = ToSet(queue) \cup {r}
            /\ IsInjective(queue')
        BY <1>0, <2>3, <3>1, PushElements DEF TypeOK, SleepingIsQueued
      <3>3. TypeOK' /\ VecInv'
        BY <1>0, <2>3, <3>2 DEF TypeOK, VecInv, Registered
      <3>4. SleepingIsQueued'
        BY <1>0, <2>3, <3>2 DEF TypeOK, SleepingIsQueued
      <3>5. LeaseInv'
        BY <1>0, <1>2, <2>3 DEF TypeOK, LeaseInv, ExclusiveCheckout, Registered, InUse
      <3> QED BY <3>3, <3>4, <3>5 DEF IInv
    <2> QED BY <1>2, <2>1, <2>2, <2>3 DEF Poll
  <1> QED BY <1>1, <1>2 DEF Poll

(* The effect of put_worker_back on the queue: r is idle, and at most one  *)
(* task, taken off the queue, is to poll again.                            *)
LEMMA WakeForEffect ==
    ASSUME IInv, NEW r \in Requesters, NEW w, pc[r] = "using", WakeFor(r, w)
    PROVE  /\ queue' \in Seq(Requesters)
           /\ pc' \in [Requesters -> {"idle", "resolved", "waiting", "sleeping", "using"}]
           /\ pc'[r] = "idle"
           /\ \A s \in Requesters \ {r} :
                 pc'[s] = pc[s] \/ (pc[s] = "sleeping" /\ pc'[s] = "waiting")
           /\ IsInjective(queue')
           /\ \A s \in Requesters : pc'[s] = "sleeping" <=> s \in ToSet(queue')
  <1>0. TypeOK /\ SleepingIsQueued
    BY DEF IInv
  <1>1. CASE pc' = [pc EXCEPT ![r] = "idle"] /\ UNCHANGED queue
    BY <1>0, <1>1 DEF TypeOK, SleepingIsQueued
  <1>2. ASSUME NEW i \in DOMAIN queue,
               pc' = [pc EXCEPT ![r] = "idle", ![queue[i]] = "waiting"],
               queue' = RemoveAt(queue, i)
        PROVE  /\ queue' \in Seq(Requesters)
               /\ pc' \in [Requesters -> {"idle", "resolved", "waiting", "sleeping", "using"}]
               /\ pc'[r] = "idle"
               /\ \A s \in Requesters \ {r} :
                     pc'[s] = pc[s] \/ (pc[s] = "sleeping" /\ pc'[s] = "waiting")
               /\ IsInjective(queue')
               /\ \A s \in Requesters : pc'[s] = "sleeping" <=> s \in ToSet(queue')
    <2> DEFINE q == queue[i]
    <2>1. q \in Requesters /\ q \in ToSet(queue) /\ i \in 1..Len(queue)
      BY <1>0, LenProperties, ElementOfSeq DEF TypeOK, ToSet
    <2>2. /\ queue' \in Seq(Requesters)
          /\ ToSet(queue') = ToSet(queue) \ {q}
          /\ IsInjective(queue')
      BY <1>0, <1>2, <2>1, RemoveAtElements, RemoveAtInjective DEF TypeOK, SleepingIsQueued
    <2> HIDE DEF q
    <2>3. pc' = [pc EXCEPT ![r] = "idle", ![q] = "waiting"]
      BY <1>2 DEF q
    <2>4. pc[q] = "sleeping" /\ q # r
      BY <1>0, <2>1 DEF SleepingIsQueued
    <2> QED BY <1>0, <2>1, <2>2, <2>3, <2>4 DEF TypeOK, SleepingIsQueued
  <1> QED BY <1>1, <1>2 DEF WakeFor

(* A checkout is dropped, of a worker still present or already gone.       *)
LEMMA PutWorkerBackInv ==
    ASSUME IInv, NEW r \in Requesters, PutWorkerBack(r)
    PROVE  IInv'
  <1> DEFINE w == checkout[r]
  <1>0. TypeOK /\ VecInv /\ LeaseInv /\ SleepingIsQueued /\ pc[r] = "using"
    BY DEF IInv, PutWorkerBack
  <1>1. w \in Workers /\ w # None
    BY <1>0 DEF TypeOK, LeaseInv
  <1>2. /\ checkout' = [checkout EXCEPT ![r] = None]
        /\ job' = [job EXCEPT ![r] = None]
        /\ workers' = workers /\ seen' = seen
    BY DEF PutWorkerBack
  <1>3. CASE w \in Registered /\ state' = [state EXCEPT ![w] = "Available"] /\ WakeFor(r, w)
    <2> HIDE DEF w
    <2>1. /\ queue' \in Seq(Requesters)
          /\ pc' \in [Requesters -> {"idle", "resolved", "waiting", "sleeping", "using"}]
          /\ pc'[r] = "idle"
          /\ \A s \in Requesters \ {r} :
                pc'[s] = pc[s] \/ (pc[s] = "sleeping" /\ pc'[s] = "waiting")
          /\ IsInjective(queue')
          /\ \A s \in Requesters : pc'[s] = "sleeping" <=> s \in ToSet(queue')
      BY <1>0, <1>3, WakeForEffect
    <2>2. TypeOK'
      BY <1>0, <1>1, <1>2, <1>3, <2>1 DEF TypeOK
    <2>3. VecInv'
      BY <1>0, <1>1, <1>2, <1>3 DEF TypeOK, VecInv, Registered
    <2>4. SleepingIsQueued'
      BY <2>1 DEF SleepingIsQueued
    <2>5. \A s \in Requesters \ {r} : checkout[s] # w
      BY <1>0, <1>1 DEF LeaseInv, ExclusiveCheckout, w
    <2>6. ASSUME NEW s \in Requesters
          PROVE  /\ checkout'[s] # None <=> pc'[s] \in {"resolved", "using"}
                 /\ pc'[s] # "idle" => job'[s] \in Jobs
                 /\ checkout'[s] # None => checkout'[s] \in seen'
                 /\ checkout'[s] \in Registered' => state'[checkout'[s]] = InUse(job'[s])
      <3>1. CASE s = r
        BY <3>1, NoneNotRegistered, <1>0, <1>2, <2>1 DEF TypeOK, Registered
      <3>2. CASE s # r
        BY <3>2, <1>0, <1>2, <1>3, <2>1, <2>5 DEF TypeOK, LeaseInv, Registered, InUse
      <3> QED BY <3>1, <3>2
    <2>7. ExclusiveCheckout'
      BY <1>0, <1>2 DEF TypeOK, LeaseInv, ExclusiveCheckout
    <2>8. ASSUME NEW v \in Workers, state'[v] \in Jobs
          PROVE  \E s \in Requesters : checkout'[s] = v
      <3>1. v # w /\ state[v] \in Jobs
        BY <2>8, <1>0, <1>1, <1>3 DEF TypeOK
      <3>2. PICK s \in Requesters : checkout[s] = v
        BY <1>0, <3>1 DEF LeaseInv
      <3>3. s # r
        BY <3>1, <3>2 DEF w
      <3> QED BY <1>0, <1>2, <3>2, <3>3 DEF TypeOK
    <2>9. LeaseInv'
      BY <2>6, <2>7, <2>8 DEF LeaseInv
    <2> QED BY <2>2, <2>3, <2>4, <2>9 DEF IInv
  <1>4. CASE w \notin Registered /\ pc' = [pc EXCEPT ![r] = "idle"] /\ UNCHANGED <<state, queue>>
    <2>1. TypeOK' /\ VecInv' /\ SleepingIsQueued'
      BY <1>0, <1>2, <1>4 DEF TypeOK, VecInv, SleepingIsQueued, Registered
    <2>2. ASSUME NEW v \in Workers, state'[v] \in Jobs
          PROVE  \E s \in Requesters : checkout'[s] = v
      <3>1. v \in Registered /\ state[v] \in Jobs
        BY <2>2, <1>0, <1>4 DEF VecInv, TypeOK
      <3>2. PICK s \in Requesters : checkout[s] = v
        BY <1>0, <3>1 DEF LeaseInv
      <3>3. s # r
        BY <1>4, <3>1, <3>2
      <3> QED BY <1>0, <1>2, <3>2, <3>3 DEF TypeOK
    <2>3. ExclusiveCheckout'
      BY <1>0, <1>2 DEF TypeOK, LeaseInv, ExclusiveCheckout
    <2>4. ASSUME NEW s \in Requesters
          PROVE  /\ checkout'[s] # None <=> pc'[s] \in {"resolved", "using"}
                 /\ pc'[s] # "idle" => job'[s] \in Jobs
                 /\ checkout'[s] # None => checkout'[s] \in seen'
                 /\ checkout'[s] \in Registered' => state'[checkout'[s]] = InUse(job'[s])
      <3>1. CASE s = r
        BY <3>1, NoneNotRegistered, <1>0, <1>2, <1>4 DEF TypeOK, Registered
      <3>2. CASE s # r
        BY <3>2, <1>0, <1>2, <1>4 DEF TypeOK, LeaseInv, Registered, InUse
      <3> QED BY <3>1, <3>2
    <2>5. LeaseInv'
      BY <2>2, <2>3, <2>4 DEF LeaseInv
    <2> QED BY <2>1, <2>5 DEF IInv
  <1> QED BY <1>3, <1>4 DEF PutWorkerBack

-----------------------------------------------------------------------------
(* The theorems.                                                           *)

(* The inductive invariant, by one lemma for each method of the manager.   *)
THEOREM Invariance == Spec => []IInv
  <1>1. IInv /\ [Next]_vars => IInv'
    <2> SUFFICES ASSUME IInv, [Next]_vars PROVE IInv'
      OBVIOUS
    <2>1. ASSUME NEW w \in Workers, RegisterWorker(w) PROVE IInv'
      BY <2>1, RegisterInv
    <2>2. ASSUME NEW w \in Workers, RemoveWorker(w) PROVE IInv'
      BY <2>2, RemoveInv
    <2>3. ASSUME NEW r \in Requesters, NEW j \in Jobs, GetWorkerFor(r, j) PROVE IInv'
      BY <2>3, GetWorkerForInv
    <2>4. ASSUME NEW r \in Requesters, Poll(r) PROVE IInv'
      BY <2>4, PollInv
    <2>5. ASSUME NEW r \in Requesters, PutWorkerBack(r) PROVE IInv'
      BY <2>5, PutWorkerBackInv
    <2>6. CASE UNCHANGED vars
      BY <2>6 DEF vars, IInv, TypeOK, VecInv, LeaseInv, ExclusiveCheckout,
                  SleepingIsQueued, Registered, InUse
    <2> QED BY <2>1, <2>2, <2>3, <2>4, <2>5, <2>6 DEF Next
  <1> QED BY InitInv, <1>1, PTL DEF Spec

(* Every variable keeps its type.                                          *)
THEOREM TypeCorrect == Spec => []TypeOK
  <1>1. IInv => TypeOK
    BY DEF IInv
  <1> QED BY <1>1, Invariance, PTL

(* The state of the Vec agrees with the checkouts that are out.            *)
THEOREM Consistency == Spec => []CheckoutConsistent
  <1>1. IInv => CheckoutConsistent
    <2> SUFFICES ASSUME TypeOK, VecInv, LeaseInv
                 PROVE  CheckoutConsistent
      BY DEF IInv
    <2>1. ASSUME NEW w \in Workers, NEW j \in Jobs, state[w] = InUse(j)
          PROVE  /\ w \in Registered
                 /\ \E r \in Requesters : checkout[r] = w /\ job[r] = j
      BY <2>1 DEF VecInv, LeaseInv, InUse
    <2>2. ASSUME NEW w \in Workers, NEW j \in Jobs, w \in Registered,
                 NEW r \in Requesters, checkout[r] = w, job[r] = j
          PROVE  state[w] = InUse(j)
      BY <2>2 DEF LeaseInv, InUse
    <2> QED BY <2>1, <2>2 DEF CheckoutConsistent, VecInv
  <1> QED BY <1>1, Invariance, PTL

(* No two tasks hold the same worker.                                      *)
THEOREM Exclusion == Spec => []ExclusiveCheckout
  <1>1. IInv => ExclusiveCheckout
    BY DEF IInv, LeaseInv
  <1> QED BY <1>1, Invariance, PTL

(* The queue and the sleeping tasks are in step.                           *)
THEOREM QueueConsistency == Spec => []SleepingIsQueued
  <1>1. IInv => SleepingIsQueued
    BY DEF IInv
  <1> QED BY <1>1, Invariance, PTL

(* With one requester no request ever waits: whenever it is idle it holds  *)
(* nothing, so every worker of the Vec is available, and get_worker_for    *)
(* finds one or fails.                                                     *)
THEOREM SingleRequester ==
    ASSUME \A r, s \in Requesters : r = s
    PROVE  Spec => []NeverSleeps
  <1>1. Init => NeverSleeps
    BY DEF Init, NeverSleeps
  <1>2. IInv /\ NeverSleeps /\ [Next]_vars => NeverSleeps'
    <2> SUFFICES ASSUME IInv, NeverSleeps, [Next]_vars PROVE NeverSleeps'
      OBVIOUS
    <2> USE DEF NeverSleeps
    <2>0. TypeOK /\ VecInv /\ LeaseInv
      BY DEF IInv
    <2>1. ASSUME NEW w \in Workers, RegisterWorker(w) \/ RemoveWorker(w) PROVE NeverSleeps'
      BY <2>1 DEF RegisterWorker, RemoveWorker
    <2>2. ASSUME NEW r \in Requesters, NEW j \in Jobs, GetWorkerFor(r, j) PROVE NeverSleeps'
      <3>1. pc[r] = "idle" /\ checkout[r] = None
        BY <2>0, <2>2 DEF GetWorkerFor, LeaseInv
      <3>2. \A w \in Registered : state[w] = "Available"
        <4> SUFFICES ASSUME NEW w \in Registered, state[w] # "Available" PROVE FALSE
          OBVIOUS
        <4>1. w \in Workers
          BY <2>0, LenProperties, ElementOfSeq DEF TypeOK, Registered, ToSet
        <4>2. state[w] \in Jobs
          BY <2>0, <4>1 DEF TypeOK, VecInv
        <4>3. PICK s \in Requesters : checkout[s] = w
          BY <2>0, <4>1, <4>2 DEF LeaseInv
        <4> QED BY <3>1, <4>1, <4>3
      <3>3. ~ TryGetBusy(j)
        BY <3>2 DEF TryGetBusy, Usable
      <3> QED BY <2>0, <2>2, <3>3 DEF GetWorkerFor, TryGetFound, TryGetError, TypeOK
    <2>3. ASSUME NEW r \in Requesters, Poll(r) PROVE NeverSleeps'
      BY <2>0, <2>3 DEF Poll, TypeOK
    <2>4. ASSUME NEW r \in Requesters, PutWorkerBack(r) PROVE NeverSleeps'
      <3>1. DOMAIN queue = {}
        OBVIOUS
      <3>2. ~ \E i \in DOMAIN queue : TRUE
        BY <3>1
      <3> QED BY <2>0, <2>4, <3>2 DEF PutWorkerBack, WakeFor, TypeOK
    <2>5. CASE UNCHANGED vars
      BY <2>5 DEF vars
    <2> QED BY <2>1, <2>2, <2>3, <2>4, <2>5 DEF Next
  <1> QED BY <1>1, <1>2, Invariance, PTL DEF Spec

(* A worker that left never comes back.                                    *)
THEOREM NoResurrection == Spec => RemovedStaysRemoved
  <1>1. IInv /\ [Next]_vars => [\A w \in seen : state[w] = "Absent" => state'[w] = "Absent"]_vars
    <2> SUFFICES ASSUME IInv, Next, NEW v \in seen, state[v] = "Absent"
                 PROVE  state'[v] = "Absent"
      OBVIOUS
    <2>0. TypeOK /\ VecInv /\ LeaseInv /\ v \in Workers
      BY DEF IInv, TypeOK
    <2>1. ASSUME NEW w \in Workers, RegisterWorker(w) \/ RemoveWorker(w) PROVE state'[v] = "Absent"
      BY <2>0, <2>1 DEF RegisterWorker, RemoveWorker, TypeOK
    <2>2. ASSUME NEW r \in Requesters, NEW j \in Jobs, NEW next, TryGetFound(r, j, next)
          PROVE  state'[v] = "Absent"
      BY <2>0, <2>2, LenProperties, ElementOfSeq DEF TryGetFound, Usable, TypeOK
    <2>3. ASSUME NEW r \in Requesters, NEW j \in Jobs, GetWorkerFor(r, j) PROVE state'[v] = "Absent"
      BY <2>2, <2>3 DEF GetWorkerFor, TryGetError
    <2>4. ASSUME NEW r \in Requesters, Poll(r) PROVE state'[v] = "Absent"
      <3>1. pc[r] = "waiting" => job[r] \in Jobs
        BY <2>0 DEF LeaseInv
      <3> QED BY <3>1, <2>2, <2>4 DEF Poll, TryGetError
    <2>5. ASSUME NEW r \in Requesters, PutWorkerBack(r) PROVE state'[v] = "Absent"
      BY <2>0, <2>5 DEF PutWorkerBack, VecInv, TypeOK
    <2> QED BY <2>1, <2>3, <2>4, <2>5 DEF Next
  <1> QED BY <1>1, Invariance, PTL DEF Spec, RemovedStaysRemoved

-----------------------------------------------------------------------------
(* The manager implements WorkerPool.                                      *)

(* The holder of a worker is the one task whose checkout designates it.    *)
LEMMA HolderIs ==
    ASSUME TypeOK, ExclusiveCheckout, NEW w \in Workers
    PROVE  /\ \A r \in Requesters : HolderOf(w) = r <=> checkout[r] = w
           /\ HolderOf(w) = None <=> \A r \in Requesters : checkout[r] # w
           /\ HolderOf(w) \in Requesters \cup {None}
  <1>1. CASE \E r \in Requesters : checkout[r] = w
    <2>1. HolderOf(w) \in Requesters /\ checkout[HolderOf(w)] = w
      BY <1>1 DEF HolderOf
    <2> QED BY <2>1 DEF ExclusiveCheckout
  <1>2. CASE ~ \E r \in Requesters : checkout[r] = w
    BY <1>2 DEF HolderOf
  <1> QED BY <1>1, <1>2

(* The same of the state after a step.                                     *)
LEMMA HolderIsPrimed ==
    ASSUME TypeOK', ExclusiveCheckout', NEW w \in Workers
    PROVE  /\ \A r \in Requesters : HolderOf(w)' = r <=> checkout'[r] = w
           /\ HolderOf(w)' = None <=> \A r \in Requesters : checkout'[r] # w
  <1>1. CASE \E r \in Requesters : checkout'[r] = w
    <2>1. HolderOf(w)' \in Requesters /\ checkout'[HolderOf(w)'] = w
      BY <1>1 DEF HolderOf
    <2> QED BY <2>1, NoneAssumption DEF ExclusiveCheckout
  <1>2. CASE ~ \E r \in Requesters : checkout'[r] = w
    BY <1>2, NoneAssumption DEF HolderOf
  <1> QED BY <1>1, <1>2

(* A step that hands a free, present worker to a task that has none is a   *)
(* lease of the pool.                                                      *)
LEMMA FoundAcquires ==
    ASSUME IInv, IInv', NEW r \in Requesters, NEW j \in Jobs, NEW next \in {"resolved", "using"},
           pc[r] \in {"idle", "waiting"}, TryGetFound(r, j, next)
    PROVE  Pool!PoolNext
  <1>0. TypeOK /\ VecInv /\ LeaseInv /\ ExclusiveCheckout /\ TypeOK' /\ ExclusiveCheckout'
    BY DEF IInv, LeaseInv
  <1>1. PICK i \in DOMAIN workers :
           /\ state[workers[i]] = "Available"
           /\ checkout' = [checkout EXCEPT ![r] = workers[i]]
    BY DEF TryGetFound, Usable
  <1>2. PICK w \in Workers : w = workers[i] /\ w \in Registered
    BY <1>0, LenProperties, ElementOfSeq DEF TypeOK, ToSet, Registered
  <1>3. state[w] = "Available" /\ checkout' = [checkout EXCEPT ![r] = w]
    BY <1>1, <1>2
  <1>4. checkout[r] = None /\ \A s \in Requesters : checkout[s] # w
    <2>1. checkout[r] = None
      BY <1>0 DEF LeaseInv
    <2>2. ASSUME NEW s \in Requesters, checkout[s] = w PROVE FALSE
      <3>1. state[w] = job[s]
        BY <1>0, <1>2, <2>2 DEF LeaseInv, InUse
      <3>2. checkout[s] # None
        BY <2>2, NoneAssumption
      <3>3. job[s] \in Jobs
        BY <1>0, <3>2 DEF LeaseInv
      <3> QED BY <1>3, <3>1, <3>3, NoneAssumption
    <2> QED BY <2>1, <2>2
  <1>5. \A v \in Workers : HolderOf(v)' = IF v = w THEN r ELSE HolderOf(v)
    <2> TAKE v \in Workers
    <2>1. CASE v = w
      <3>1. checkout'[r] = w
        BY <1>0, <1>3 DEF TypeOK
      <3>2. HolderOf(v)' = r
        BY <1>0, <2>1, <3>1, HolderIsPrimed
      <3> QED BY <2>1, <3>2
    <2>2. CASE v # w
      <3>1. \A s \in Requesters : checkout'[s] = v <=> checkout[s] = v
        BY <1>0, <1>2, <1>3, <1>4, <2>2 DEF TypeOK
      <3>2. CASE \E s \in Requesters : checkout[s] = v
        <4>1. PICK s \in Requesters : checkout[s] = v /\ checkout'[s] = v
          BY <3>1, <3>2
        <4>2. HolderOf(v) = s /\ HolderOf(v)' = s
          BY <1>0, <4>1, HolderIs, HolderIsPrimed
        <4> QED BY <2>2, <4>2
      <3>3. CASE \A s \in Requesters : checkout[s] # v
        <4>1. HolderOf(v) = None /\ HolderOf(v)' = None
          BY <3>1, <3>3 DEF HolderOf
        <4> QED BY <2>2, <4>1
      <3> QED BY <3>2, <3>3
    <2> QED BY <2>1, <2>2
  <1>6. Registered' = Registered /\ seen' = seen
    BY DEF TryGetFound, Registered
  <1>7. Pool!Acquire(r, w)
    <2>1. HolderOf(w) = None /\ \A v \in Workers : HolderOf(v) # r
      BY <1>0, <1>2, <1>4, HolderIs
    <2> QED BY <1>2, <1>5, <1>6, <2>1 DEF Pool!Acquire
  <1> QED BY <1>2, <1>7 DEF Pool!PoolNext

(* A step that changes no checkout and no membership is a stutter of the   *)
(* pool.                                                                   *)
LEMMA QuietStutters ==
    ASSUME UNCHANGED <<workers, checkout, seen>>
    PROVE  UNCHANGED Pool!poolVars
  BY DEF Pool!poolVars, HolderOf, Registered

(* WorkersManager implements WorkerPool under the mapping of Pool.         *)
THEOREM Refinement == Spec => ImplementsPool
  <1>1. Init => Pool!PoolInit
    <2> SUFFICES ASSUME Init PROVE Pool!PoolInit
      OBVIOUS
    <2>1. Registered = {}
      BY DEF Init, Registered, ToSet
    <2>2. \A w \in Workers : HolderOf(w) = None
      BY DEF Init, HolderOf
    <2> QED BY <2>1, <2>2 DEF Init, Pool!PoolInit
  <1>2. IInv /\ IInv' /\ [Next]_vars => [Pool!PoolNext]_(Pool!poolVars)
    <2> SUFFICES ASSUME IInv, IInv', [Next]_vars
                 PROVE  Pool!PoolNext \/ UNCHANGED Pool!poolVars
      OBVIOUS
    <2>0. TypeOK /\ VecInv /\ LeaseInv /\ ExclusiveCheckout /\ TypeOK' /\ ExclusiveCheckout'
      BY DEF IInv, LeaseInv
    <2>1. ASSUME NEW w \in Workers, RegisterWorker(w) PROVE Pool!PoolNext
      <3>1. Registered' = Registered \cup {w}
        BY <2>0, <2>1, PushElements DEF RegisterWorker, Registered, TypeOK
      <3>2. \A v \in Workers : HolderOf(v)' = HolderOf(v)
        BY <2>1 DEF RegisterWorker, HolderOf
      <3>3. Pool!Join(w)
        BY <2>0, <2>1, <3>1, <3>2 DEF RegisterWorker, VecInv, Pool!Join
      <3> QED BY <3>3 DEF Pool!PoolNext
    <2>2. ASSUME NEW w \in Workers, RemoveWorker(w) PROVE Pool!PoolNext
      <3>1. PICK i \in DOMAIN workers : workers[i] = w /\ workers' = RemoveAt(workers, i)
        BY <2>2 DEF RemoveWorker
      <3>2. i \in 1..Len(workers) /\ w \in Registered
        BY <2>0, <3>1, LenProperties DEF TypeOK, Registered, ToSet
      <3>3. Registered' = Registered \ {w}
        BY <2>0, <3>1, <3>2, RemoveAtInjective DEF TypeOK, VecInv, Registered
      <3>4. \A v \in Workers : HolderOf(v)' = HolderOf(v)
        BY <2>2 DEF RemoveWorker, HolderOf
      <3>5. Pool!Leave(w)
        BY <2>0, <2>2, <3>2, <3>3, <3>4 DEF RemoveWorker, VecInv, Pool!Leave
      <3> QED BY <3>5 DEF Pool!PoolNext
    <2>3. ASSUME NEW r \in Requesters, NEW j \in Jobs, GetWorkerFor(r, j)
          PROVE  Pool!PoolNext \/ UNCHANGED Pool!poolVars
      <3>1. CASE TryGetFound(r, j, "resolved")
        BY <2>3, <3>1, FoundAcquires DEF GetWorkerFor
      <3>2. CASE ~ TryGetFound(r, j, "resolved")
        BY <2>3, <3>2, QuietStutters DEF GetWorkerFor, TryGetError
      <3> QED BY <3>1, <3>2
    <2>4. ASSUME NEW r \in Requesters, Poll(r)
          PROVE  Pool!PoolNext \/ UNCHANGED Pool!poolVars
      <3>1. CASE pc[r] = "waiting" /\ TryGetFound(r, job[r], "using")
        <4>1. job[r] \in Jobs
          BY <2>0, <3>1 DEF LeaseInv
        <4> QED BY <3>1, <4>1, FoundAcquires
      <3>2. CASE ~ (pc[r] = "waiting" /\ TryGetFound(r, job[r], "using"))
        BY <2>4, <3>2, QuietStutters DEF Poll, TryGetError
      <3> QED BY <3>1, <3>2
    <2>5. ASSUME NEW r \in Requesters, PutWorkerBack(r) PROVE Pool!PoolNext
      <3>1. PICK w \in Workers : w = checkout[r] /\ w # None
        BY <2>0, <2>5, NoneAssumption DEF PutWorkerBack, TypeOK, LeaseInv
      <3>2. /\ checkout' = [checkout EXCEPT ![r] = None]
            /\ Registered' = Registered /\ seen' = seen
        BY <2>5 DEF PutWorkerBack, Registered
      <3>3. HolderOf(w) = r
        BY <2>0, <3>1, HolderIs
      <3>4. HolderOf(w)' = None
        <4>1. \A s \in Requesters : checkout'[s] # w
          BY <2>0, <3>1, <3>2 DEF TypeOK, ExclusiveCheckout
        <4> QED BY <2>0, <4>1, HolderIsPrimed
      <3>5. \A v \in Workers : v # w => HolderOf(v)' = HolderOf(v)
        <4> SUFFICES ASSUME NEW v \in Workers, v # w PROVE HolderOf(v)' = HolderOf(v)
          OBVIOUS
        <4>1. \A s \in Requesters : checkout'[s] = v <=> checkout[s] = v
          BY <2>0, <3>1, <3>2 DEF TypeOK
        <4>2. CASE \E s \in Requesters : checkout[s] = v
          <5>1. PICK s \in Requesters : checkout[s] = v /\ checkout'[s] = v
            BY <4>1, <4>2
          <5> QED BY <2>0, <5>1, HolderIs, HolderIsPrimed
        <4>3. CASE \A s \in Requesters : checkout[s] # v
          BY <4>1, <4>3 DEF HolderOf
        <4> QED BY <4>2, <4>3
      <3>6. Pool!Release(r, w)
        BY <3>1, <3>2, <3>3, <3>4, <3>5 DEF Pool!Release
      <3> QED BY <3>1, <3>6 DEF Pool!PoolNext
    <2>6. CASE UNCHANGED vars
      BY <2>6, QuietStutters DEF vars
    <2> QED BY <2>1, <2>2, <2>3, <2>4, <2>5, <2>6 DEF Next
  <1> QED BY <1>1, <1>2, Invariance, PTL DEF Spec, ImplementsPool, Pool!PoolSpec
=============================================================================
