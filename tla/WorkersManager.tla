--------------------------- MODULE WorkersManager ---------------------------
(***************************************************************************)
(* The pool of connected worker nodes of the master                        *)
(* (src/src/model/worker.rs, WorkersManager, WorkerWaiter and              *)
(* WorkerCheckout).                                                        *)
(*                                                                         *)
(* A requester is a task of the master that runs                           *)
(*     let checkout = manager.get_worker_for(selector, job)?.await?        *)
(* uses the checkout and drops it.  Each method holds the write lock of    *)
(* `inner` for its whole body, so each is one action; the calls of         *)
(* different tasks, and the two halves get_worker_for and poll of one      *)
(* request, interleave.  The events that the methods send to listeners are *)
(* added by WorkerEvents.                                                  *)
(***************************************************************************)
EXTENDS Naturals, SequencesExt, WorkerSelector

CONSTANTS Workers,     \* the identifiers nodes may connect with
          Requesters,  \* the tasks that check workers out
          Jobs,        \* the identifiers of the jobs
          Descriptor,  \* the descriptor each worker registers with
          Spec_of,     \* the specification of each job
          None         \* no worker, no job

ASSUME DescriptorAssumption == Descriptor \in [Workers -> WorkerDescriptor]
ASSUME SpecAssumption == Spec_of \in [Jobs -> DocGenJobSpec]
ASSUME NoneAssumption == /\ None \notin Workers
                         /\ None \notin Requesters
                         /\ None \notin Jobs
                         /\ {"Absent", "Available"} \cap Jobs = {}

VARIABLES
    workers,   \* inner.workers: the identifiers, in the order of the Vec
    state,     \* the state of each worker: not in the Vec, Available, InUse(job)
    queue,     \* inner.queue: the tasks whose wakers are stored, in order
    pc,        \* where each requester is in its request
    job,       \* the job of its request
    checkout,  \* the worker its WorkerCheckout designates
    seen       \* the identifiers used so far

vars == <<workers, state, queue, pc, job, checkout, seen>>

-----------------------------------------------------------------------------

(* What the Vec says of a worker in use; in the mutated form, not for what.*)
InUse_Unnamed(j) == "InUse"
InUse(j) == j
Registered == ToSet(workers)

Matches(w, j) == matches(Descriptor[w], get_worker_selector(Spec_of[j]))

(* A mutated form: the state of the worker is not looked at.               *)
Usable_AnyState(w, j) == Matches(w, j)

(* A worker that try_get_worker_for may check out.                         *)
Usable(w, j) == Matches(w, j) /\ state[w] = "Available"

TypeOK ==
    /\ workers \in Seq(Workers)
    /\ state \in [Workers -> {"Absent", "Available"} \cup Jobs]
    /\ queue \in Seq(Requesters)
    /\ pc \in [Requesters -> {"idle", "resolved", "waiting", "sleeping", "using"}]
    /\ job \in [Requesters -> Jobs \cup {None}]
    /\ checkout \in [Requesters -> Workers \cup {None}]
    /\ seen \in SUBSET Workers

Init ==
    /\ workers = <<>>
    /\ state = [w \in Workers |-> "Absent"]
    /\ queue = <<>>
    /\ pc = [r \in Requesters |-> "idle"]
    /\ job = [r \in Requesters |-> None]
    /\ checkout = [r \in Requesters |-> None]
    /\ seen = {}

-----------------------------------------------------------------------------

(* A mutated form: a node that connects again keeps its identifier.        *)
RegisterWorker_Reconnects(w) ==
    /\ \A i \in DOMAIN workers : workers[i] # w
    /\ workers' = Append(workers, w)
    /\ state' = [state EXCEPT ![w] = "Available"]
    /\ seen' = seen \cup {w}
    /\ UNCHANGED <<queue, pc, job, checkout>>

(* A node connects.  Its identifier is a random token drawn when its       *)
(* process starts, and a process connects once.  Nobody in the queue is    *)
(* woken.                                                                  *)
RegisterWorker(w) ==
    /\ w \notin seen
    /\ workers' = Append(workers, w)
    /\ state' = [state EXCEPT ![w] = "Available"]
    /\ seen' = seen \cup {w}
    /\ UNCHANGED <<queue, pc, job, checkout>>

(* Its connection ends.  A checkout of it stays with its requester; nobody *)
(* in the queue is woken.  Identifiers are unique in the Vec, so `retain`  *)
(* drops one entry.                                                        *)
RemoveWorker(w) ==
    /\ \E i \in DOMAIN workers : workers[i] = w /\ workers' = RemoveAt(workers, i)
    /\ state' = [state EXCEPT ![w] = "Absent"]
    /\ UNCHANGED <<queue, pc, job, checkout, seen>>

(* try_get_worker_for finds the first usable worker of the Vec and checks  *)
(* it out for r, which goes on to `next`.                                  *)
TryGetFound(r, j, next) ==
    /\ \E i \in DOMAIN workers :
          /\ Usable(workers[i], j)
          /\ \A k \in 1..(i - 1) : ~ Usable(workers[k], j)
          /\ state' = [state EXCEPT ![workers[i]] = InUse(j)]
          /\ checkout' = [checkout EXCEPT ![r] = workers[i]]
    /\ pc' = [pc EXCEPT ![r] = next]
    /\ job' = [job EXCEPT ![r] = j]
    /\ UNCHANGED <<workers, seen>>

(* No worker matches, available or not: NoMatchingWorkerError.             *)
TryGetError(r, j) ==
    /\ \A w \in Registered : ~ Matches(w, j)
    /\ pc' = [pc EXCEPT ![r] = "idle"]
    /\ job' = [job EXCEPT ![r] = None]
    /\ UNCHANGED <<workers, state, checkout, seen>>

(* Some worker matches, and every one that does is in use.                 *)
TryGetBusy(j) ==
    /\ \E w \in Registered : Matches(w, j)
    /\ \A w \in Registered : ~ Usable(w, j)

(* get_worker_for: the error is returned at once; otherwise the caller has *)
(* a WorkerWaiter, with or without a worker.                               *)
GetWorkerFor(r, j) ==
    /\ pc[r] = "idle"
    /\ \/ TryGetFound(r, j, "resolved")
       \/ TryGetError(r, j)
       \/ /\ TryGetBusy(j)
          /\ pc' = [pc EXCEPT ![r] = "waiting"]
          /\ job' = [job EXCEPT ![r] = j]
          /\ UNCHANGED <<workers, state, checkout, seen>>
    /\ UNCHANGED queue

(* WorkerWaiter::poll, first call or after a wake.                         *)
Poll(r) ==
    \/ /\ pc[r] = "resolved"
       /\ pc' = [pc EXCEPT ![r] = "using"]
       /\ UNCHANGED <<workers, state, queue, job, checkout, seen>>
    \/ /\ pc[r] = "waiting"
       /\ \/ TryGetFound(r, job[r], "using") /\ UNCHANGED queue
          \/ TryGetError(r, job[r]) /\ UNCHANGED queue
          \/ /\ TryGetBusy(job[r])
             /\ queue' = Append(queue, r)
             /\ pc' = [pc EXCEPT ![r] = "sleeping"]
             /\ UNCHANGED <<workers, state, job, checkout, seen>>

(* A mutated form: the woken request stays in the queue.                   *)
WakeFor_KeepsEntry(r, w) ==
    /\ \/ /\ \A i \in DOMAIN queue : ~ Matches(w, job[queue[i]])
          /\ pc' = [pc EXCEPT ![r] = "idle"]
       \/ \E i \in DOMAIN queue :
             /\ Matches(w, job[queue[i]])
             /\ pc' = [pc EXCEPT ![r] = "idle", ![queue[i]] = "waiting"]
    /\ UNCHANGED queue

(* The first queued request that worker w can serve leaves the queue and   *)
(* its task is woken; the worker is not reserved for it.                   *)
WakeFor(r, w) ==
    \/ /\ \A i \in DOMAIN queue : ~ Matches(w, job[queue[i]])
       /\ pc' = [pc EXCEPT ![r] = "idle"]
       /\ UNCHANGED queue
    \/ \E i \in DOMAIN queue :
          /\ Matches(w, job[queue[i]])
          /\ \A k \in 1..(i - 1) : ~ Matches(w, job[queue[k]])
          /\ pc' = [pc EXCEPT ![r] = "idle", ![queue[i]] = "waiting"]
          /\ queue' = RemoveAt(queue, i)

(* A mutated form: the worker is put back without looking it up.           *)
PutWorkerBack_NoLookup(r) ==
    /\ pc[r] = "using"
    /\ state' = [state EXCEPT ![checkout[r]] = "Available"]
    /\ WakeFor(r, checkout[r])
    /\ checkout' = [checkout EXCEPT ![r] = None]
    /\ job' = [job EXCEPT ![r] = None]
    /\ UNCHANGED <<workers, seen>>

(* A mutated form: the worker is never marked available again.             *)
PutWorkerBack_StillInUse(r) ==
    /\ pc[r] = "using"
    /\ WakeFor(r, checkout[r])
    /\ checkout' = [checkout EXCEPT ![r] = None]
    /\ job' = [job EXCEPT ![r] = None]
    /\ UNCHANGED <<workers, state, seen>>

(* put_worker_back, when the checkout is dropped.  A worker removed in the *)
(* meantime does not come back.                                            *)
PutWorkerBack(r) ==
    /\ pc[r] = "using"
    /\ LET w == checkout[r]
       IN  IF w \in Registered
           THEN /\ state' = [state EXCEPT ![w] = "Available"]
                /\ WakeFor(r, w)
           ELSE /\ pc' = [pc EXCEPT ![r] = "idle"]
                /\ UNCHANGED <<state, queue>>
    /\ checkout' = [checkout EXCEPT ![r] = None]
    /\ job' = [job EXCEPT ![r] = None]
    /\ UNCHANGED <<workers, seen>>

Next ==
    \/ \E w \in Workers : RegisterWorker(w) \/ RemoveWorker(w)
    \/ \E r \in Requesters : \/ \E j \in Jobs : GetWorkerFor(r, j)
                             \/ Poll(r)
                             \/ PutWorkerBack(r)

Spec == Init /\ [][Next]_vars

-----------------------------------------------------------------------------
(* Properties.                                                             *)

(* The Vec holds each identifier once, and says InUse(job) of exactly the  *)
(* workers that some requester holds for that job: no worker is lost in    *)
(* use, none is handed out twice, whatever order connections end and       *)
(* checkouts are dropped in (checkout, put_worker_back, remove_worker).    *)
CheckoutConsistent ==
    /\ IsInjective(workers)
    /\ \A w \in Workers : w \in Registered <=> state[w] # "Absent"
    /\ \A w \in Workers, j \in Jobs :
          state[w] = InUse(j) <=> /\ w \in Registered
                                  /\ \E r \in Requesters : checkout[r] = w /\ job[r] = j

(* Two tasks never hold the same worker, registered or already gone: the   *)
(* receiver of its updates moves with the checkout.                        *)
ExclusiveCheckout ==
    \A r, s \in Requesters :
        r # s /\ checkout[r] # None => checkout[r] # checkout[s]

(* The queue holds the sleeping tasks, each once: put_worker_back never    *)
(* wakes a task that is not asleep, no sleeping task has lost its entry.   *)
SleepingIsQueued ==
    /\ IsInjective(queue)
    /\ \A r \in Requesters : pc[r] = "sleeping" <=> r \in ToSet(queue)

(* A program with a single requester, as the shipped one is (the           *)
(* documentation worker is the only caller of get_worker_for), never       *)
(* sleeps on the queue: its request is answered at the first poll.         *)
NeverSleeps == queue = <<>> /\ \A r \in Requesters : pc[r] \notin {"waiting", "sleeping"}

(* A worker whose connection ended never re-enters the pool: the late drop *)
(* of its checkout does not resurrect it (put_worker_back looks it up      *)
(* first).                                                                 *)
RemovedStaysRemoved ==
    [][\A w \in seen : state[w] = "Absent" => state'[w] = "Absent"]_vars

(* The manager is a pool of leases: WorkerPool with the holder of a worker *)
(* read off the checkouts.                                                 *)
HolderOf(w) ==
    IF \E r \in Requesters : checkout[r] = w
    THEN CHOOSE r \in Requesters : checkout[r] = w
    ELSE None

Pool == INSTANCE WorkerPool WITH present <- Registered,
                                 left <- seen \ Registered,
                                 holder <- [w \in Workers |-> HolderOf(w)]
ImplementsPool == Pool!PoolSpec

(* The inductive invariant behind these properties: what the entries of    *)
(* the Vec, the checkouts and the progress of the requests say of each     *)
(* other.                                                                  *)
VecInv ==
    /\ IsInjective(workers)
    /\ \A w \in Workers : w \in Registered <=> state[w] # "Absent"
    /\ Registered \subseteq seen

LeaseInv ==
    /\ \A r \in Requesters : checkout[r] # None <=> pc[r] \in {"resolved", "using"}
    /\ \A r \in Requesters : pc[r] # "idle" => job[r] \in Jobs
    /\ \A r \in Requesters : checkout[r] # None => checkout[r] \in seen
    /\ ExclusiveCheckout
    /\ \A r \in Requesters : checkout[r] \in Registered => state[checkout[r]] = InUse(job[r])
    /\ \A w \in Workers : state[w] \in Jobs => \E r \in Requesters : checkout[r] = w

IInv == TypeOK /\ VecInv /\ LeaseInv /\ SleepingIsQueued
=============================================================================
