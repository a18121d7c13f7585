----------------------------- MODULE WorkerPool -----------------------------
(***************************************************************************)
(* What the manager of workers promises to the tasks of the master: a pool *)
(* of leases.  Workers join and leave at any time; a task may take a lease *)
(* on a present worker that nobody holds, keeps it even when the worker    *)
(* leaves, and gives it back once.  WorkersManager implements it.          *)
(***************************************************************************)
CONSTANTS Workers, Requesters, None

VARIABLES present,  \* the workers in the pool
          left,     \* those that left it, for good
          holder    \* the task that holds each worker, None when free

poolVars == <<present, left, holder>>

PoolTypeOK ==
    /\ present \in SUBSET Workers
    /\ left \in SUBSET Workers
    /\ holder \in [Workers -> Requesters \cup {None}]

PoolInit == present = {} /\ left = {} /\ holder = [w \in Workers |-> None]

Join(w) ==
    /\ w \notin present \cup left
    /\ present' = present \cup {w}
    /\ UNCHANGED <<left, holder>>

Leave(w) ==
    /\ w \in present
    /\ present' = present \ {w}
    /\ left' = left \cup {w}
    /\ UNCHANGED holder

Acquire(r, w) ==
    /\ w \in present
    /\ holder[w] = None
    /\ \A v \in Workers : holder[v] # r
    /\ holder' = [holder EXCEPT ![w] = r]
    /\ UNCHANGED <<present, left>>

Release(r, w) ==
    /\ holder[w] = r
    /\ holder' = [holder EXCEPT ![w] = None]
    /\ UNCHANGED <<present, left>>

PoolNext ==
    \E w \in Workers : \/ Join(w)
                       \/ Leave(w)
                       \/ \E r \in Requesters : Acquire(r, w) \/ Release(r, w)

PoolSpec == PoolInit /\ [][PoolNext]_poolVars
=============================================================================
