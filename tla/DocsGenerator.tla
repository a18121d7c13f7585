--------------------------- MODULE DocsGenerator ---------------------------
(***************************************************************************)
(* The generation of documentation: the handlers that request it, the      *)
(* table of jobs, the documentation worker of the master                   *)
(* (src/src/services/docs.rs), the connections to the worker nodes         *)
(* (src/src/routes.rs) and the nodes themselves (src/src/worker.rs), with  *)
(* crashes and restarts of the master.                                     *)
(*                                                                         *)
(* The pool of nodes is the abstract WorkerPool, which WorkersManager      *)
(* implements; its one requester is the documentation worker, for which a  *)
(* request is answered at once (NeverSleeps in WorkersManager).            *)
(*                                                                         *)
(* The database survives a crash: versions, targets, docs, jobs; so does   *)
(* the storage: rendered.  The write pool has one connection, so each      *)
(* write transaction is one action.  One package is modelled.              *)
(***************************************************************************)
EXTENDS Naturals, FiniteSets, SequencesExt

CONSTANTS Versions,       \* the versions of the package
          Targets,        \* the known targets
          DefaultTarget,  \* the host of the master, when a package names no target
          Handlers,       \* the requests the master serves concurrently
          Workers,        \* the worker nodes
          Serves,         \* the targets whose jobs select each worker (WorkerSelector!matches)
          None,           \* no worker
          MaxJobs,        \* bound: requests start while so few jobs may exist
          MaxCrashes,     \* bound: crashes of the master
          MaxFaults       \* bound: failed transactions, storage calls, cut requests

ASSUME TargetsAssumption == DefaultTarget \in Targets
ASSUME ServesAssumption == Serves \in [Workers -> SUBSET Targets]
ASSUME NoneAssumption == None \notin Workers /\ None # "docs"
ASSUME BoundsAssumption == MaxJobs \in Nat /\ MaxCrashes \in Nat /\ MaxFaults \in Nat

VARIABLES
    versions,  \* PackageVersion: the versions present
    targets,   \* Package.targets
    docs,      \* PackageVersionDocs: the row of each version and target
    jobs,      \* DocGenJob: what each job documents and its state, by id
    rendered,  \* the documentation in the storage
    server,    \* "down", "scanning" and "launching" (in launch), "up"
    pending,   \* what each request, and launch, has committed and must queue
    storing,   \* the publish requests that are writing to storage and index
    dropped,   \* ghost: what was committed and never queued
    pc,        \* where the documentation worker is
    cur,       \* the id of its job, 0 for none
    result,    \* the final state it is about to write
    present, left, holder,  \* the pool of workers (WorkerPool)
    link,      \* the connection of each worker, as the master sees it
    job_channel,     \* from the documentation worker to the connection
    ws_down, ws_up,  \* the two directions of the web socket
    update_channel,  \* from the connection to the documentation worker
    running,   \* the job each node is generating, 0 for none
    exited,    \* the nodes whose process ended
    crashes, faults  \* how much of the bounds is used

dbVars == <<versions, targets, docs, jobs>>
requestVars == <<pending, storing, dropped>>
dwVars == <<pc, cur, result>>
poolVars == <<present, left, holder>>
connVars == <<link, job_channel, ws_down, ws_up, update_channel>>
nodeVars == <<running, exited, rendered>>
boundVars == <<crashes, faults>>
vars == <<dbVars, requestVars, dwVars, poolVars, connVars, nodeVars, server, boundVars>>

Pool == INSTANCE WorkerPool WITH Requesters <- {"docs"}

-----------------------------------------------------------------------------

Docs == Versions \X Targets
Tasks == Handlers \cup {"launch"}
DocGenJobState == {"Queued", "Working", "Success", "Failure"}
is_final(s) == s \in {"Success", "Failure"}

(* A row: absent, or the values of (isAttempted, isPresent):               *)
(* missing (F,F), attempted (T,F), present (T,T).                          *)
DocsRow == {"absent", "missing", "attempted", "present"}

DocGenJob == [doc : Docs, state : DocGenJobState]
DocGenJobUpdate == [job_id : Nat, state : {"Success", "Failure"}]

TypeOK ==
    /\ versions \subseteq Versions /\ targets \subseteq Targets
    /\ docs \in [Docs -> DocsRow]
    /\ jobs \in Seq(DocGenJob)
    /\ rendered \subseteq Docs /\ dropped \subseteq Docs
    /\ server \in {"down", "scanning", "launching", "up"}
    /\ pending \in [Tasks -> SUBSET Docs]
    /\ storing \subseteq Handlers
    /\ pc \in {"off", "idle", "check", "remote", "start", "send", "recv", "update",
               "local", "generate", "local_update", "fail"}
    /\ cur \in 0..Len(jobs)
    /\ result \in {"Success", "Failure"}
    /\ Pool!PoolTypeOK
    /\ link \in [Workers -> {"fresh", "up", "no_updates", "no_jobs", "timed_out", "gone"}]
    /\ job_channel \in [Workers -> Seq(1..Len(jobs))]
    /\ ws_down \in [Workers -> Seq(1..Len(jobs))]
    /\ ws_up \in [Workers -> Seq(DocGenJobUpdate)]
    /\ update_channel \in [Workers -> Seq(DocGenJobUpdate)]
    /\ running \in [Workers -> 0..Len(jobs)]
    /\ exited \subseteq Workers
    /\ crashes \in 0..MaxCrashes /\ faults \in 0..MaxFaults

Init ==
    /\ versions = {} /\ targets = {}
    /\ docs = [d \in Docs |-> "absent"]
    /\ jobs = <<>>
    /\ rendered = {} /\ dropped = {}
    /\ server = "down"
    /\ pending = [t \in Tasks |-> {}]
    /\ storing = {}
    /\ pc = "off" /\ cur = 0 /\ result = "Failure"
    /\ Pool!PoolInit
    /\ link = [w \in Workers |-> "fresh"]
    /\ job_channel = [w \in Workers |-> <<>>]
    /\ ws_down = [w \in Workers |-> <<>>]
    /\ ws_up = [w \in Workers |-> <<>>]
    /\ update_channel = [w \in Workers |-> <<>>]
    /\ running = [w \in Workers |-> 0]
    /\ exited = {}
    /\ crashes = 0 /\ faults = 0

-----------------------------------------------------------------------------
(* Requests of the users.                                                  *)

(* The targets documented for every version: the default one when the      *)
(* package names none.                                                     *)
DocTargets == IF targets = {} THEN {DefaultTarget} ELSE targets

(* set_crate_documentation(.., false, false): the documentation must be    *)
(* generated, whatever the row said.                                       *)
SetMissing(ds) == docs' = [d \in Docs |-> IF d \in ds THEN "missing" ELSE docs[d]]

(* Request h commits its transaction: ds are missing, and it must queue    *)
(* them.                                                                   *)
Commits(h, ds) ==
    /\ SetMissing(ds)
    /\ pending' = [pending EXCEPT ![h] = ds]
    /\ dropped' = dropped \ ds
    /\ UNCHANGED <<jobs, dwVars, poolVars, connVars, nodeVars, server, boundVars>>

InBounds(n) ==
    Len(jobs) + MapThenSumSet(LAMBDA t : Cardinality(pending[t]), Tasks) + n <= MaxJobs

(* The master starts h when it is not busy with another request.           *)
Accepts(h, ds) == server = "up" /\ pending[h] = {} /\ InBounds(Cardinality(ds))

(* publish_crate_version: the version is new; the crate goes to the        *)
(* storage and the index before anything is queued.                        *)
Publish(h, v) ==
    LET ds == {v} \X DocTargets
    IN  /\ Accepts(h, ds)
        /\ v \notin versions
        /\ versions' = versions \cup {v}
        /\ Commits(h, ds)
        /\ storing' = storing \cup {h}
        /\ UNCHANGED targets

Store(h) ==
    /\ h \in storing
    /\ storing' = storing \ {h}
    /\ UNCHANGED <<dbVars, pending, dropped, dwVars, poolVars, connVars, nodeVars, server, boundVars>>

(* regen_crate_version_doc, asked by a manager of the package.             *)
Regen(h, v) ==
    LET ds == {v} \X DocTargets
    IN  /\ Accepts(h, ds)
        /\ v \in versions
        /\ Commits(h, ds)
        /\ UNCHANGED <<versions, targets, storing>>

(* set_crate_targets: the added targets are documented for all versions.   *)
SetTargets(h, ts) ==
    LET ds == versions \X (ts \ targets)
    IN  /\ Accepts(h, ds)
        /\ ts # targets
        /\ targets' = ts
        /\ Commits(h, ds)
        /\ UNCHANGED <<versions, storing>>

(* remove_crate_version: the rows of the documentation go with the         *)
(* version, the jobs and the files stay.                                   *)
RemoveVersion(v) ==
    /\ server = "up"
    /\ v \in versions
    /\ versions' = versions \ {v}
    /\ docs' = [d \in Docs |-> IF d[1] = v THEN "absent" ELSE docs[d]]
    /\ UNCHANGED <<targets, jobs, requestVars, dwVars, poolVars, connVars, nodeVars, server, boundVars>>

(* A mutated form: any earlier job of the same thing counts.               *)
CreateJob_AnyState(d) ==
    jobs' = IF \E i \in DOMAIN jobs : jobs[i].doc = d
            THEN jobs
            ELSE Append(jobs, [doc |-> d, state |-> "Queued"])

(* create_docgen_job: a job queued for the same thing is not duplicated.   *)
CreateJob(d) ==
    jobs' = IF \E i \in DOMAIN jobs : jobs[i].doc = d /\ jobs[i].state = "Queued"
            THEN jobs
            ELSE Append(jobs, [doc |-> d, state |-> "Queued"])

(* The next call of queue() by a request or by launch.                     *)
Queue(t) ==
    /\ t \notin storing
    /\ \E d \in pending[t] :
          /\ CreateJob(d)
          /\ pending' = [pending EXCEPT ![t] = @ \ {d}]
    /\ UNCHANGED <<versions, targets, docs, storing, dropped, dwVars, poolVars, connVars,
                   nodeVars, server, boundVars>>

(* The storage, the index or the database refuses, or the client closes    *)
(* its connection and the server drops the handler: nothing more is queued.*)
RequestFails(h) ==
    /\ faults < MaxFaults
    /\ pending[h] # {}
    /\ dropped' = dropped \cup pending[h]
    /\ pending' = [pending EXCEPT ![h] = {}]
    /\ storing' = storing \ {h}
    /\ faults' = faults + 1
    /\ UNCHANGED <<dbVars, dwVars, poolVars, connVars, nodeVars, server, crashes>>

-----------------------------------------------------------------------------
(* Start and end of the master.                                            *)

(* launch starts the documentation worker before it looks for what is      *)
(* undocumented; requests and nodes are served when it is over.            *)
Launch ==
    /\ server = "down"
    /\ server' = "scanning"
    /\ pc' = "idle"
    /\ UNCHANGED <<dbVars, requestVars, cur, result, poolVars, connVars, nodeVars, boundVars>>

(* A mutated form: only what has no row at all.                            *)
Undocumented_NoRow == {d \in versions \X DocTargets : docs[d] = "absent"}

(* get_undocumented_crates: neither present nor attempted.                 *)
Undocumented == {d \in versions \X DocTargets : docs[d] \in {"absent", "missing"}}

LaunchScan ==
    /\ server = "scanning"
    /\ SetMissing(Undocumented)
    /\ pending' = [pending EXCEPT !["launch"] = Undocumented]
    /\ dropped' = dropped \ (versions \X DocTargets)
    /\ server' = "launching"
    /\ UNCHANGED <<versions, targets, jobs, storing, dwVars, poolVars, connVars, nodeVars, boundVars>>

LaunchReady ==
    /\ server = "launching" /\ pending["launch"] = {}
    /\ server' = "up"
    /\ UNCHANGED <<dbVars, requestVars, dwVars, poolVars, connVars, nodeVars, boundVars>>

(* The process of the master ends: every task, channel and connection of   *)
(* it goes.  The nodes are left with a closed web socket.                  *)
Stops ==
    /\ server' = "down"
    /\ dropped' = dropped \cup UNION {pending[t] : t \in Tasks}
    /\ pending' = [t \in Tasks |-> {}]
    /\ storing' = {}
    /\ pc' = "off" /\ cur' = 0 /\ result' = "Failure"
    /\ present' = {} /\ left' = left \cup present /\ holder' = [w \in Workers |-> None]
    /\ link' = [w \in Workers |-> IF link[w] = "fresh" THEN "fresh" ELSE "gone"]
    /\ job_channel' = [w \in Workers |-> <<>>]
    /\ update_channel' = [w \in Workers |-> <<>>]
    /\ ws_up' = [w \in Workers |-> <<>>]
    /\ UNCHANGED <<dbVars, ws_down, nodeVars>>

Crash ==
    /\ server # "down" /\ crashes < MaxCrashes
    /\ crashes' = crashes + 1
    /\ Stops
    /\ UNCHANGED faults

(* An error in launch is returned by main: the process ends.               *)
LaunchFails ==
    /\ server \in {"scanning", "launching"} /\ faults < MaxFaults
    /\ faults' = faults + 1
    /\ Stops
    /\ UNCHANGED crashes

-----------------------------------------------------------------------------
(* The documentation worker: one job at a time.                            *)

Goto(label) == pc' = label

(* update_job: the job and its row change in one transaction.              *)
UpdateJob(id, s) ==
    /\ jobs' = [jobs EXCEPT ![id].state = s]
    /\ docs' = [docs EXCEPT ![jobs[id].doc] = IF s = "Success" THEN "present" ELSE "attempted"]
    /\ UNCHANGED <<versions, targets>>

(* A transaction of the documentation worker that fails and rolls back.    *)
DbFails ==
    /\ faults < MaxFaults
    /\ faults' = faults + 1
    /\ UNCHANGED <<dbVars, crashes>>

(* The WorkerCheckout is dropped, if there is one.                         *)
DropCheckout ==
    IF \E w \in Workers : holder[w] = "docs"
    THEN \E w \in Workers : Pool!Release("docs", w)
    ELSE UNCHANGED poolVars

(* A mutated form: no ORDER BY.                                            *)
GetNextJob_AnyOrder ==
    /\ pc = "idle"
    /\ \E i \in DOMAIN jobs : jobs[i].state = "Queued" /\ cur' = i
    /\ Goto("check")
    /\ UNCHANGED <<dbVars, requestVars, result, poolVars, connVars, nodeVars, server, boundVars>>

(* get_next_job: the queued job with the lowest id.                        *)
GetNextJob ==
    /\ pc = "idle"
    /\ \E i \in DOMAIN jobs : /\ jobs[i].state = "Queued"
                              /\ \A k \in 1..(i - 1) : jobs[k].state # "Queued"
                              /\ cur' = i
    /\ Goto("check")
    /\ UNCHANGED <<dbVars, requestVars, result, poolVars, connVars, nodeVars, server, boundVars>>

(* has_workers: the only thing that decides between the two ways.          *)
HasWorkers ==
    /\ pc = "check"
    /\ Goto(IF present # {} THEN "remote" ELSE "local")
    /\ UNCHANGED <<dbVars, requestVars, cur, result, poolVars, connVars, nodeVars, server, boundVars>>

Selected(w) == jobs[cur].doc[2] \in Serves[w]

(* get_worker_for, then await: the nodes may have left since has_workers.  *)
CheckoutWorker ==
    /\ pc = "remote"
    /\ \/ /\ \E w \in Workers : Selected(w) /\ Pool!Acquire("docs", w)
          /\ Goto("start")
       \/ /\ \A w \in present : ~ Selected(w)
          /\ Goto("fail")
          /\ UNCHANGED poolVars
    /\ UNCHANGED <<dbVars, requestVars, cur, result, connVars, nodeVars, server, boundVars>>

StartJob(from, next) ==
    /\ pc = from
    /\ \/ /\ UpdateJob(cur, "Working")
          /\ Goto(next)
          /\ UNCHANGED <<poolVars, boundVars>>
       \/ DbFails /\ DropCheckout /\ Goto("fail")
    /\ UNCHANGED <<requestVars, cur, result, connVars, nodeVars, server>>

RemoteStart == StartJob("start", "send")
LocalStart == StartJob("local", "generate")

(* Which ends of the channels of w still exist.  In the mutated forms, a   *)
(* clone of updated_sender outlives the connection, and an empty channel   *)
(* reads as a closed one (try_recv).                                       *)
JobReceiverAlive(w) == link[w] \in {"up", "no_updates", "timed_out"}
UpdateSenderAlive_Cloned(w) == link[w] # "fresh"
UpdateSenderAlive_TryRecv(w) == FALSE
UpdateSenderAlive(w) == link[w] \in {"up", "no_jobs", "timed_out"}

SendJob ==
    /\ pc = "send"
    /\ \E w \in Workers :
          /\ holder[w] = "docs"
          /\ IF JobReceiverAlive(w)
             THEN /\ job_channel' = [job_channel EXCEPT ![w] = Append(@, cur)]
                  /\ Goto("recv")
                  /\ UNCHANGED poolVars
             ELSE /\ DropCheckout /\ Goto("fail")
                  /\ UNCHANGED job_channel
    /\ UNCHANGED <<dbVars, requestVars, cur, result, link, ws_down, ws_up, update_channel,
                   nodeVars, server, boundVars>>

(* recv: an update, whatever job it names, or the end of the channel.      *)
RecvUpdate ==
    /\ pc = "recv"
    /\ \E w \in Workers :
          /\ holder[w] = "docs"
          /\ \/ /\ update_channel[w] # <<>>
                /\ update_channel' = [update_channel EXCEPT ![w] = Tail(@)]
                /\ result' = Head(update_channel[w]).state
                /\ Goto("update")
                /\ UNCHANGED poolVars
             \/ /\ update_channel[w] = <<>> /\ ~ UpdateSenderAlive(w)
                /\ DropCheckout /\ Goto("fail")
                /\ UNCHANGED <<update_channel, result>>
    /\ UNCHANGED <<dbVars, requestVars, cur, link, job_channel, ws_down, ws_up,
                   nodeVars, server, boundVars>>

(* A mutated form: an error after the commit fails the job.                *)
FinishJob_ErrorAfterCommit ==
    /\ pc \in {"update", "local_update"}
    /\ DropCheckout
    /\ UpdateJob(cur, result)
    /\ \/ Goto("idle") /\ cur' = 0
       \/ Goto("fail") /\ UNCHANGED cur
    /\ result' = "Failure"
    /\ UNCHANGED <<requestVars, connVars, nodeVars, server, boundVars>>

(* The result is written; nodes send final states only.  If it cannot be   *)
(* written, the job is failed.                                             *)
FinishJob ==
    /\ pc \in {"update", "local_update"}
    /\ DropCheckout
    /\ \/ /\ UpdateJob(cur, result)
          /\ Goto("idle") /\ cur' = 0
          /\ UNCHANGED boundVars
       \/ DbFails /\ Goto("fail") /\ UNCHANGED cur
    /\ result' = "Failure"
    /\ UNCHANGED <<requestVars, connVars, nodeVars, server>>

(* A mutated form: the upload may fail unnoticed.                          *)
Generates_Unnoticed(d, s) == rendered' = rendered \cup {d} \/ UNCHANGED rendered

(* generate_doc_for_job, in the master: the pages are in the storage when  *)
(* it succeeds, and may be when it fails.                                  *)
Generates(d, s) ==
    \/ rendered' = rendered \cup {d}
    \/ s = "Failure" /\ UNCHANGED rendered

Generate ==
    /\ pc = "generate"
    /\ \E s \in {"Success", "Failure"} :
          /\ Generates(jobs[cur].doc, s)
          /\ result' = s
          /\ \/ Goto("local_update")
             \/ s = "Failure" /\ Goto("fail")
    /\ UNCHANGED <<dbVars, requestVars, cur, poolVars, connVars, running, exited, server, boundVars>>

(* A mutated form: the error is only logged.                               *)
FailJob_LogsOnly ==
    /\ pc = "fail"
    /\ Goto("idle") /\ cur' = 0
    /\ UNCHANGED <<dbVars, requestVars, result, poolVars, connVars, nodeVars, server, boundVars>>

(* docs_worker_on_job after an error; the error of this update is logged   *)
(* and the worker goes on.                                                 *)
FailJob ==
    /\ pc = "fail"
    /\ \/ UpdateJob(cur, "Failure") /\ UNCHANGED boundVars
       \/ DbFails
    /\ Goto("idle") /\ cur' = 0
    /\ UNCHANGED <<requestVars, result, poolVars, connVars, nodeVars, server>>

-----------------------------------------------------------------------------
(* The connections, on the master's side.                                  *)

(* The handshake, then register_worker.                                    *)
Connect(w) ==
    /\ server = "up" /\ link[w] = "fresh" /\ w \notin exited
    /\ link' = [link EXCEPT ![w] = "up"]
    /\ Pool!Join(w)
    /\ UNCHANGED <<dbVars, requestVars, dwVars, job_channel, ws_down, ws_up, update_channel,
                   nodeVars, server, boundVars>>

JobBridge(w) ==
    /\ link[w] = "up" /\ job_channel[w] # <<>>
    /\ job_channel' = [job_channel EXCEPT ![w] = Tail(@)]
    /\ ws_down' = [ws_down EXCEPT ![w] = Append(@, Head(job_channel[w]))]
    /\ UNCHANGED <<dbVars, requestVars, dwVars, poolVars, link, ws_up, update_channel,
                   nodeVars, server, boundVars>>

WsDispatcher(w) ==
    /\ link[w] = "up" /\ ws_up[w] # <<>>
    /\ ws_up' = [ws_up EXCEPT ![w] = Tail(@)]
    /\ update_channel' = [update_channel EXCEPT ![w] = Append(@, Head(ws_up[w]))]
    /\ UNCHANGED <<dbVars, requestVars, dwVars, poolVars, link, job_channel, ws_down,
                   nodeVars, server, boundVars>>

(* One of the three futures of select_all ends: what it owned is dropped.  *)
(* The dispatcher owned updated_sender: the socket ended or failed.  The   *)
(* bridge owned job_receiver: a job could not be sent and is lost.  The    *)
(* health check owned neither.                                             *)
ConnectionEnds(w) ==
    /\ link[w] = "up"
    /\ \/ link' = [link EXCEPT ![w] = "no_updates"] /\ UNCHANGED job_channel
       \/ /\ job_channel[w] # <<>>
          /\ link' = [link EXCEPT ![w] = "no_jobs"]
          /\ job_channel' = [job_channel EXCEPT ![w] = <<>>]
       \/ link' = [link EXCEPT ![w] = "timed_out"] /\ UNCHANGED job_channel
    /\ UNCHANGED <<dbVars, requestVars, dwVars, poolVars, ws_down, ws_up, update_channel,
                   nodeVars, server, boundVars>>

(* remove_worker, and the two other futures are dropped.                   *)
RemoveWorker(w) ==
    /\ link[w] \in {"no_updates", "no_jobs", "timed_out"}
    /\ link' = [link EXCEPT ![w] = "gone"]
    /\ Pool!Leave(w)
    /\ job_channel' = [job_channel EXCEPT ![w] = <<>>]
    /\ ws_up' = [ws_up EXCEPT ![w] = <<>>]
    /\ UNCHANGED <<dbVars, requestVars, dwVars, ws_down, update_channel,
                   nodeVars, server, boundVars>>

-----------------------------------------------------------------------------
(* The nodes.                                                              *)

(* main_loop receives a job: it replaces the current one.                  *)
NodeReceive(w) ==
    /\ w \notin exited /\ ws_down[w] # <<>>
    /\ running' = [running EXCEPT ![w] = Head(ws_down[w])]
    /\ ws_down' = [ws_down EXCEPT ![w] = Tail(@)]
    /\ UNCHANGED <<dbVars, requestVars, dwVars, poolVars, link, job_channel, ws_up,
                   update_channel, exited, rendered, server, boundVars>>

(* A mutated form: a node also reports its progress.                       *)
NodeFinish_Progress(w) ==
    /\ running[w] # 0 /\ w \notin exited
    /\ ws_up' = [ws_up EXCEPT ![w] = Append(@, [job_id |-> running[w], state |-> "Working"])]
    /\ UNCHANGED <<dbVars, requestVars, dwVars, poolVars, link, job_channel, ws_down,
                   update_channel, nodeVars, server, boundVars>>

(* worker_on_job: generate, and send one update with the final state.  It  *)
(* goes nowhere when the socket is closed.                                 *)
NodeFinish(w) ==
    /\ running[w] # 0 /\ w \notin exited
    /\ \E s \in {"Success", "Failure"} :
          /\ Generates(jobs[running[w]].doc, s)
          /\ ws_up' = IF link[w] = "gone" THEN ws_up
                      ELSE [ws_up EXCEPT ![w] = Append(@, [job_id |-> running[w], state |-> s])]
    /\ running' = [running EXCEPT ![w] = 0]
    /\ UNCHANGED <<dbVars, requestVars, dwVars, poolVars, link, job_channel, ws_down,
                   update_channel, exited, server, boundVars>>

(* The process of the node ends: its socket does, or anything kills it.    *)
NodeExit(w) ==
    /\ link[w] # "fresh" /\ w \notin exited
    /\ exited' = exited \cup {w}
    /\ running' = [running EXCEPT ![w] = 0]
    /\ ws_down' = [ws_down EXCEPT ![w] = <<>>]
    /\ UNCHANGED <<dbVars, requestVars, dwVars, poolVars, link, job_channel, ws_up,
                   update_channel, rendered, server, boundVars>>

-----------------------------------------------------------------------------

Request ==
    \E h \in Handlers : \/ \E v \in Versions : Publish(h, v) \/ Regen(h, v)
                        \/ \E ts \in SUBSET Targets : SetTargets(h, ts)
                        \/ Store(h) \/ RequestFails(h)

DocsWorker ==
    \/ GetNextJob \/ HasWorkers \/ CheckoutWorker \/ RemoteStart \/ LocalStart
    \/ SendJob \/ RecvUpdate \/ FinishJob \/ Generate \/ FailJob

Connection(w) ==
    Connect(w) \/ JobBridge(w) \/ WsDispatcher(w) \/ ConnectionEnds(w) \/ RemoveWorker(w)

Node(w) == NodeReceive(w) \/ NodeFinish(w) \/ NodeExit(w)

Next ==
    \/ Request
    \/ \E v \in Versions : RemoveVersion(v)
    \/ \E t \in Tasks : Queue(t)
    \/ Launch \/ LaunchScan \/ LaunchReady \/ Crash \/ LaunchFails
    \/ DocsWorker
    \/ \E w \in Workers : Connection(w) \/ Node(w)

Spec == Init /\ [][Next]_vars

(* Tasks of the runtime are scheduled; a socket whose node is gone is      *)
(* noticed (by its end or the heartbeat), and a node that generates ends.  *)
(* Nothing makes users ask, nodes connect or live connections end.         *)
Fairness ==
    /\ WF_vars(DocsWorker)
    /\ \A t \in Tasks : WF_vars(Queue(t))
    /\ \A h \in Handlers : WF_vars(Store(h))
    /\ WF_vars(Launch \/ LaunchScan \/ LaunchReady)
    /\ \A w \in Workers : /\ WF_vars(JobBridge(w))
                          /\ WF_vars(WsDispatcher(w))
                          /\ WF_vars(RemoveWorker(w))
                          /\ WF_vars(w \in exited /\ ConnectionEnds(w))
                          /\ WF_vars(NodeReceive(w))
                          /\ WF_vars(NodeFinish(w))

FairSpec == Spec /\ Fairness

-----------------------------------------------------------------------------
(* Properties.                                                             *)

(* The places between SendJob and RecvUpdate where a job of node w can be, *)
(* the nearest to the node first on each side.                             *)
JobIds(updates) == [i \in DOMAIN updates |-> updates[i].job_id]
InFlight(w) ==
    job_channel[w] \o ws_down[w] \o (IF running[w] = 0 THEN <<>> ELSE <<running[w]>>)
        \o JobIds(ws_up[w]) \o JobIds(update_channel[w])

(* docs_worker_execute_job_remote writes the state of any update to the    *)
(* job it waits for and never reads job_id, and a node abandons its        *)
(* current job when it receives another.  Both are right because a live    *)
(* connection carries the job the documentation worker waits for, once,    *)
(* and nothing else: no answer of an earlier job is ever left in a channel *)
(* that goes back to the pool.                                             *)
OneJobInFlight ==
    \A w \in Workers :
        link[w] = "up" =>
            IF holder[w] = "docs" /\ pc = "recv"
            THEN InFlight(w) = <<cur>> \/ (w \in exited /\ InFlight(w) = <<>>)
            ELSE InFlight(w) = <<>>

(* Whatever is recorded as generated is in the storage, under crashes,     *)
(* lost nodes and failed transactions (update_job, generate_doc_for_job).  *)
SuccessIsRendered ==
    /\ \A i \in DOMAIN jobs : jobs[i].state = "Success" => jobs[i].doc \in rendered
    /\ \A d \in Docs : docs[d] = "present" => d \in rendered

(* A documentation that must be generated is not forgotten: while the      *)
(* master serves, a missing row has a queued job or a request about to     *)
(* queue it, unless the request was cut short.  The handlers commit the    *)
(* row and queue the job in separate transactions, between which the       *)
(* documentation worker runs jobs of the same row.                         *)
MissingIsQueued ==
    server \in {"launching", "up"} =>
        \A d \in Docs :
            docs[d] = "missing" =>
                \/ d \in dropped
                \/ \E t \in Tasks : d \in pending[t]
                \/ \E i \in DOMAIN jobs : jobs[i].doc = d /\ jobs[i].state = "Queued"

(* Jobs start in the order of their ids, and no two queued jobs document   *)
(* the same thing: a job that failed to start is retried before the later  *)
(* ones (create_docgen_job, get_next_docgen_job, docs_worker_on_job).      *)
QueueInOrder ==
    \A i, k \in DOMAIN jobs :
        i < k /\ jobs[i].state = "Queued" =>
            jobs[k].state = "Queued" /\ jobs[k].doc # jobs[i].doc

(* While the master serves, a job said to be Working is the one the        *)
(* documentation worker is on: "The worker is working on this job"         *)
(* (model/docs.rs, DocGenJobState).                                        *)
WorkingIsWorkedOn ==
    server = "up" => \A i \in DOMAIN jobs : jobs[i].state = "Working" => cur = i

(* The inductive invariant, in parts.  The documentation worker runs       *)
(* exactly while the master does, and nothing is asked before it has       *)
(* looked for what is undocumented.                                        *)
ServerInv ==
    /\ server = "down" <=> pc = "off"
    /\ server \in {"down", "scanning"} => \A t \in Tasks : pending[t] = {}

(* The job at work is Queued, and the first to be, until it is started,    *)
(* then Working until its result is written; a Success about to be written *)
(* has its pages in the storage.                                           *)
JobInv ==
    /\ cur = 0 <=> pc \in {"off", "idle"}
    /\ pc \in {"check", "remote", "start", "local"} => jobs[cur].state = "Queued"
    /\ pc \in {"send", "recv", "update", "generate", "local_update"} => jobs[cur].state = "Working"
    /\ pc = "fail" => jobs[cur].state \in {"Queued", "Working"}
    /\ cur # 0 /\ jobs[cur].state = "Queued" => \A k \in 1..(cur - 1) : jobs[k].state # "Queued"
    /\ result = "Success" => pc \in {"update", "local_update"} /\ jobs[cur].doc \in rendered

(* The documentation worker holds one node, from its check-out to its      *)
(* result; the pool has the nodes whose connection is not removed.         *)
CheckoutInv ==
    /\ \A v, w \in Workers : holder[v] = "docs" /\ holder[w] = "docs" => v = w
    /\ pc \in {"start", "send", "recv", "update"} <=> \E w \in Workers : holder[w] = "docs"
    /\ \A w \in Workers : holder[w] = "docs" => link[w] # "fresh"
    /\ present = {w \in Workers : link[w] \in {"up", "no_updates", "no_jobs", "timed_out"}}
    /\ left = {w \in Workers : link[w] = "gone"}

(* Where the one job of a connection may be, the nearest to the node last. *)
Idles(w) ==
    /\ job_channel[w] = <<>> /\ ws_down[w] = <<>> /\ running[w] = 0
    /\ ws_up[w] = <<>> /\ update_channel[w] = <<>>

Carries(w, id) ==
    \/ /\ job_channel[w] = <<id>> /\ ws_down[w] = <<>> /\ running[w] = 0
       /\ ws_up[w] = <<>> /\ update_channel[w] = <<>>
    \/ /\ job_channel[w] = <<>> /\ ws_down[w] = <<id>> /\ running[w] = 0
       /\ ws_up[w] = <<>> /\ update_channel[w] = <<>>
    \/ /\ job_channel[w] = <<>> /\ ws_down[w] = <<>> /\ running[w] = id
       /\ ws_up[w] = <<>> /\ update_channel[w] = <<>>
    \/ /\ job_channel[w] = <<>> /\ ws_down[w] = <<>> /\ running[w] = 0
       /\ Len(ws_up[w]) = 1 /\ ws_up[w][1].job_id = id /\ update_channel[w] = <<>>
    \/ /\ job_channel[w] = <<>> /\ ws_down[w] = <<>> /\ running[w] = 0
       /\ ws_up[w] = <<>> /\ Len(update_channel[w]) = 1 /\ update_channel[w][1].job_id = id

Awaited(w) == holder[w] = "docs" /\ pc = "recv"

(* A connection that has not begun carries nothing, and a live one the job *)
(* that is awaited from it, unless its node lost it by exiting.  Even from *)
(* a connection that has ended, an update left is the one that is awaited. *)
ChannelInv ==
    \A w \in Workers :
        /\ link[w] = "fresh" => Idles(w)
        /\ link[w] = "up" =>
              IF Awaited(w) THEN Carries(w, cur) \/ (w \in exited /\ Idles(w)) ELSE Idles(w)
        /\ update_channel[w] # <<>> =>
              Awaited(w) /\ Len(update_channel[w]) = 1 /\ update_channel[w][1].job_id = cur

(* An update that says Success is about pages that are in the storage.     *)
Answers ==
    {u \in [job_id : DOMAIN jobs, state : {"Success", "Failure"}] :
        u.state = "Success" => jobs[u.job_id].doc \in rendered}

AnswersInv ==
    /\ ws_up \in [Workers -> Seq(Answers)]
    /\ update_channel \in [Workers -> Seq(Answers)]

(* Whether the master serves or not, a missing row is queued, about to be, *)
(* or known to be forgotten.                                               *)
MissingInv ==
    \A d \in Docs :
        docs[d] = "missing" =>
            \/ d \in dropped
            \/ \E t \in Tasks : d \in pending[t]
            \/ \E i \in DOMAIN jobs : jobs[i].doc = d /\ jobs[i].state = "Queued"

(* Up to the first crash and the first failure.                            *)
WorkingInv ==
    crashes = 0 /\ faults = 0 => \A i \in DOMAIN jobs : jobs[i].state = "Working" => cur = i

IInv ==
    /\ TypeOK
    /\ ServerInv /\ JobInv /\ CheckoutInv
    /\ ChannelInv /\ AnswersInv
    /\ QueueInOrder /\ MissingInv /\ SuccessIsRendered /\ WorkingInv

(* A finished job never changes again, though the documentation worker     *)
(* writes Failure over the state of a job after any error.                 *)
FinalIsForever ==
    [][\A i \in DOMAIN jobs : is_final(jobs[i].state) => jobs'[i] = jobs[i]]_vars

(* However requests, the documentation worker, crashes and failed          *)
(* transactions interleave, the table of jobs is a queue: it implements    *)
(* JobQueue.  The worker reads the first job in one transaction, starts it *)
(* in another much later, and writes its end in a third, with jobs queued  *)
(* in between and an error of any of the three that fails the job          *)
(* (get_next_docgen_job, update_docgen_job, docs_worker_on_job).           *)
Table == INSTANCE JobQueue
TableIsAQueue == Table!QueueSpec

(* Without crashes and failed transactions, every queued job ends, though  *)
(* nodes leave at any moment of it.                                        *)
EveryJobEnds ==
    \A i \in 1..MaxJobs :
        (i \in DOMAIN jobs /\ jobs[i].state = "Queued")
            ~> (i \in DOMAIN jobs /\ is_final(jobs[i].state))

(* With them, the documentation worker still comes back for the next job,  *)
(* and no job stays in the queue.                                          *)
WorkerComesBack ==
    /\ cur # 0 ~> cur = 0
    /\ \A i \in 1..MaxJobs :
          (i \in DOMAIN jobs /\ jobs[i].state = "Queued")
              ~> (i \in DOMAIN jobs /\ jobs[i].state # "Queued")
=============================================================================
