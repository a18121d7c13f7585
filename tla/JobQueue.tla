------------------------------ MODULE JobQueue ------------------------------
(***************************************************************************)
(* What the table of documentation jobs promises to those who read it: a   *)
(* queue.  A job is added behind the others, unless one is queued for the  *)
(* same thing; the first of the queue is started, or fails before it is;   *)
(* a started job ends once, and no job changes after its end.              *)
(* DocsGenerator implements it, under crashes and failed transactions.     *)
(***************************************************************************)
EXTENDS Naturals, Sequences

CONSTANT Docs   \* what jobs document

VARIABLE jobs   \* by id: what each job documents, and its state

Queued == {i \in DOMAIN jobs : jobs[i].state = "Queued"}
First(i) == i \in Queued /\ \A k \in Queued : i <= k
Becomes(i, s) == jobs' = [jobs EXCEPT ![i].state = s]

QueueInit == jobs = <<>>

Enqueue(d) ==
    /\ \A i \in Queued : jobs[i].doc # d
    /\ jobs' = Append(jobs, [doc |-> d, state |-> "Queued"])

Start(i) == First(i) /\ Becomes(i, "Working")
Reject(i) == First(i) /\ Becomes(i, "Failure")
Finish(i) == jobs[i].state = "Working" /\ (Becomes(i, "Success") \/ Becomes(i, "Failure"))

QueueNext ==
    \/ \E d \in Docs : Enqueue(d)
    \/ \E i \in DOMAIN jobs : Start(i) \/ Reject(i) \/ Finish(i)

QueueSpec == QueueInit /\ [][QueueNext]_jobs
=============================================================================
