----------------------------- MODULE DocsProofs -----------------------------
(***************************************************************************)
(* Proofs about DocsGenerator, for any versions, targets, requests and     *)
(* nodes, whatever the order of the steps, the crashes of the master and   *)
(* the failures.                                                           *)
(***************************************************************************)
EXTENDS DocsGenerator, Integers, SequenceTheorems, TLAPS

USE TargetsAssumption, NoneAssumption, BoundsAssumption

-----------------------------------------------------------------------------
(* The jobs                                                                *)

(* What a transaction on the jobs may do: add some, and change states.     *)
JobsKept ==
    /\ jobs' \in Seq(DocGenJob) /\ Len(jobs) <= Len(jobs')
    /\ \A i \in 1..Len(jobs) : jobs'[i].doc = jobs[i].doc

LEMMA UpdateJobKeeps ==
    ASSUME jobs \in Seq(DocGenJob), NEW id \in 1..Len(jobs), NEW s \in DocGenJobState, UpdateJob(id, s)
    PROVE  /\ JobsKept /\ Len(jobs') = Len(jobs)
           /\ jobs'[id].state = s
           /\ \A i \in 1..Len(jobs) : i # id => jobs'[i] = jobs[i]
  <1>1. jobs' = [jobs EXCEPT ![id] = [jobs[id] EXCEPT !.state = s]]
    BY DEF UpdateJob
  <1>2. jobs[id] \in DocGenJob
    BY ElementOfSeq
  <1>3. [jobs[id] EXCEPT !.state = s] \in DocGenJob
    BY <1>2 DEF DocGenJob
  <1>4. /\ [jobs[id] EXCEPT !.state = s].doc = jobs[id].doc
        /\ [jobs[id] EXCEPT !.state = s].state = s
    BY <1>2 DEF DocGenJob
  <1>5. /\ jobs' \in Seq(DocGenJob) /\ Len(jobs') = Len(jobs)
        /\ \A i \in 1..Len(jobs) : jobs'[i] = IF i = id THEN [jobs[id] EXCEPT !.state = s] ELSE jobs[i]
    BY <1>1, <1>3, ExceptSeq
  <1>6. Len(jobs) \in Nat
    BY LenProperties
  <1>7. jobs'[id].state = s /\ \A i \in 1..Len(jobs) : jobs'[i].doc = jobs[i].doc
    BY <1>4, <1>5
  <1> QED BY <1>5, <1>6, <1>7 DEF JobsKept

LEMMA CreateJobKeeps ==
    ASSUME jobs \in Seq(DocGenJob), NEW d \in Docs, CreateJob(d)
    PROVE  /\ JobsKept
           /\ \A i \in 1..Len(jobs) : jobs'[i] = jobs[i]
           /\ \E i \in 1..Len(jobs') : jobs'[i].doc = d /\ jobs'[i].state = "Queued"
           /\ \A k \in 1..Len(jobs') :
                 k \notin 1..Len(jobs) =>
                     /\ k = Len(jobs) + 1
                     /\ jobs'[k].doc = d /\ jobs'[k].state = "Queued"
                     /\ \A i \in 1..Len(jobs) : jobs[i].doc # d \/ jobs[i].state # "Queued"
  <1> DEFINE job == [doc |-> d, state |-> "Queued"]
  <1>0. job \in DocGenJob
    BY DEF DocGenJob, DocGenJobState
  <1>1. DOMAIN jobs = 1..Len(jobs) /\ Len(jobs) \in Nat
    BY LenProperties
  <1>2. CASE \E i \in DOMAIN jobs : jobs[i].doc = d /\ jobs[i].state = "Queued"
    <2>1. jobs' = jobs
      BY <1>2 DEF CreateJob
    <2>2. JobsKept
      BY <1>1, <2>1 DEF JobsKept
    <2> QED BY <1>1, <1>2, <2>1, <2>2
  <1>3. CASE ~ \E i \in DOMAIN jobs : jobs[i].doc = d /\ jobs[i].state = "Queued"
    <2>1. jobs' = Append(jobs, job)
      BY <1>3 DEF CreateJob
    <2> HIDE DEF job
    <2>2. /\ jobs' \in Seq(DocGenJob) /\ Len(jobs') = Len(jobs) + 1
          /\ \A i \in 1..Len(jobs) : jobs'[i] = jobs[i]
          /\ jobs'[Len(jobs) + 1] = job
      BY <1>0, <2>1, AppendProperties
    <2> QED BY <1>1, <1>3, <2>2 DEF JobsKept, job
  <1> QED BY <1>2, <1>3

(* What is about the jobs, and what names them, stays well-formed as jobs  *)
(* are added and pages are rendered.                                       *)
LEMMA ChannelsGrow ==
    ASSUME jobs \in Seq(DocGenJob), JobsKept, NEW channel \in [Workers -> Seq(1..Len(jobs))]
    PROVE  channel \in [Workers -> Seq(1..Len(jobs'))]
  <1>1. 1..Len(jobs) \subseteq 1..Len(jobs')
    BY LenProperties DEF JobsKept
  <1>2. \A w \in Workers : channel[w] \in Seq(1..Len(jobs'))
    BY <1>1, SeqMonotonic
  <1> QED BY <1>2

LEMMA AnswersGrow ==
    ASSUME jobs \in Seq(DocGenJob), JobsKept, rendered \subseteq rendered'
    PROVE  /\ Answers \subseteq Answers'
           /\ \A channel \in [Workers -> Seq(Answers)] : channel \in [Workers -> Seq(Answers')]
  <1>0. DOMAIN jobs = 1..Len(jobs) /\ DOMAIN jobs' = 1..Len(jobs') /\ Len(jobs) \in Nat /\ Len(jobs') \in Nat
    BY LenProperties DEF JobsKept
  <1>1. Answers \subseteq Answers'
    BY <1>0 DEF Answers, JobsKept
  <1>2. ASSUME NEW channel \in [Workers -> Seq(Answers)]
        PROVE  channel \in [Workers -> Seq(Answers')]
    <2>1. \A w \in Workers : channel[w] \in Seq(Answers')
      BY <1>1, SeqMonotonic
    <2> QED BY <2>1
  <1> QED BY <1>1, <1>2

(* An update names a job and a final state.                                *)
LEMMA AnswerType ==
    ASSUME jobs \in Seq(DocGenJob)
    PROVE  /\ Answers \subseteq DocGenJobUpdate
           /\ \A channel \in [Workers -> Seq(Answers)] : channel \in [Workers -> Seq(DocGenJobUpdate)]
  <1>1. Answers \subseteq DocGenJobUpdate
    BY LenProperties DEF Answers, DocGenJobUpdate
  <1>2. ASSUME NEW channel \in [Workers -> Seq(Answers)]
        PROVE  channel \in [Workers -> Seq(DocGenJobUpdate)]
    <2>1. \A w \in Workers : channel[w] \in Seq(DocGenJobUpdate)
      BY <1>1, SeqMonotonic
    <2> QED BY <2>1
  <1> QED BY <1>1, <1>2

-----------------------------------------------------------------------------
(* The initial states                                                      *)

LEMMA InitInvariant == Init => IInv
  <1> SUFFICES ASSUME Init PROVE IInv
    OBVIOUS
  <1>1. jobs = << >> /\ Len(jobs) = 0 /\ DOMAIN jobs = {} /\ jobs \in Seq(DocGenJob)
    BY DEF Init
  <1>2. \A S : << >> \in Seq(S)
    OBVIOUS
  <1>3. TypeOK
    BY <1>1, <1>2 DEF Init, TypeOK, DocsRow, Pool!PoolInit, Pool!PoolTypeOK
  <1>4. ServerInv /\ JobInv /\ CheckoutInv
    BY <1>1 DEF Init, ServerInv, JobInv, CheckoutInv, Pool!PoolInit
  <1>5. ChannelInv /\ AnswersInv
    BY <1>2 DEF Init, ChannelInv, AnswersInv, Idles
  <1>6. QueueInOrder /\ MissingInv /\ SuccessIsRendered /\ WorkingInv
    BY <1>1 DEF Init, QueueInOrder, MissingInv, SuccessIsRendered, WorkingInv
  <1> QED BY <1>3, <1>4, <1>5, <1>6 DEF IInv
-----------------------------------------------------------------------------
(* The requests, and the launch of the master                              *)

(* A step that leaves the jobs, the documentation worker, the pool, the    *)
(* connections and the nodes alone.                                        *)
LEMMA RequestStep ==
    ASSUME IInv, UNCHANGED <<jobs, dwVars, poolVars, connVars, nodeVars>>,
           versions' \subseteq Versions, targets' \subseteq Targets,
           docs' \in [Docs -> DocsRow], \A d \in Docs : docs'[d] = "present" => docs[d] = "present",
           dropped' \subseteq Docs, pending' \in [Tasks -> SUBSET Docs], storing' \subseteq Handlers,
           server' \in {"down", "scanning", "launching", "up"},
           UNCHANGED crashes, faults' \in 0..MaxFaults, faults <= faults',
           ServerInv', MissingInv'
    PROVE  IInv'
  <1> USE DEF dwVars, poolVars, connVars, nodeVars
  <1>1. TypeOK'
    BY DEF IInv, TypeOK, Pool!PoolTypeOK, DocGenJob, DocGenJobUpdate
  <1>2. JobInv' /\ CheckoutInv'
    BY DEF IInv, JobInv, CheckoutInv
  <1>3. ChannelInv'
    BY DEF IInv, ChannelInv, Awaited, Carries, Idles
  <1>4. AnswersInv' /\ QueueInOrder'
    BY DEF IInv, AnswersInv, Answers, QueueInOrder
  <1>5. SuccessIsRendered'
    BY DEF IInv, SuccessIsRendered
  <1>6. WorkingInv'
    BY DEF IInv, WorkingInv, TypeOK
  <1> QED BY <1>1, <1>2, <1>3, <1>4, <1>5, <1>6 DEF IInv

(* A request commits what is missing and must queue it.                    *)
LEMMA CommitsStep ==
    ASSUME IInv, NEW h \in Handlers, NEW ds \in SUBSET Docs,
           pending[h] = {}, server = "up", Commits(h, ds),
           versions' \subseteq Versions, targets' \subseteq Targets, storing' \subseteq Handlers
    PROVE  IInv'
  <1> USE DEF Commits, IInv, boundVars
  <1>1. docs' \in [Docs -> DocsRow] /\ \A d \in Docs : docs'[d] = "present" => docs[d] = "present"
    BY DEF SetMissing, TypeOK, DocsRow
  <1>2. pending' \in [Tasks -> SUBSET Docs] /\ dropped' \subseteq Docs
    BY DEF TypeOK, Tasks
  <1>3. ServerInv'
    BY DEF ServerInv, dwVars
  <1>4. ASSUME NEW d \in Docs, docs'[d] = "missing"
        PROVE  \/ d \in dropped'
               \/ \E t \in Tasks : d \in pending'[t]
               \/ \E i \in DOMAIN jobs' : jobs'[i].doc = d /\ jobs'[i].state = "Queued"
    <2>1. CASE d \in ds
      BY <2>1 DEF TypeOK, Tasks
    <2>2. CASE d \notin ds
      <3>1. docs[d] = "missing"
        BY <1>4, <2>2 DEF SetMissing
      <3>2. \A t \in Tasks : d \in pending[t] => d \in pending'[t]
        BY DEF TypeOK
      <3> QED BY <2>2, <3>1, <3>2 DEF MissingInv
    <2> QED BY <2>1, <2>2
  <1>5. MissingInv'
    BY <1>4 DEF MissingInv
  <1>6. faults \in 0..MaxFaults /\ server \in {"down", "scanning", "launching", "up"}
    BY DEF TypeOK
  <1>7. faults <= faults'
    BY <1>6
  <1> HIDE DEF IInv
  <1> QED BY <1>1, <1>2, <1>3, <1>5, <1>6, <1>7, RequestStep

LEMMA DocTargetsType == TypeOK => DocTargets \subseteq Targets
  BY DEF TypeOK, DocTargets

LEMMA PublishStep ==
    ASSUME IInv, NEW h \in Handlers, NEW v \in Versions, Publish(h, v)
    PROVE  IInv'
  <1>1. {v} \X DocTargets \in SUBSET Docs
    BY DocTargetsType DEF IInv, Docs
  <1>2. versions' \subseteq Versions /\ targets' \subseteq Targets /\ storing' \subseteq Handlers
    BY DEF Publish, IInv, TypeOK
  <1> QED BY <1>1, <1>2, CommitsStep DEF Publish, Accepts

LEMMA RegenStep ==
    ASSUME IInv, NEW h \in Handlers, NEW v \in Versions, Regen(h, v)
    PROVE  IInv'
  <1>1. {v} \X DocTargets \in SUBSET Docs
    BY DocTargetsType DEF IInv, Docs
  <1>2. versions' \subseteq Versions /\ targets' \subseteq Targets /\ storing' \subseteq Handlers
    BY DEF Regen, IInv, TypeOK
  <1> QED BY <1>1, <1>2, CommitsStep DEF Regen, Accepts

LEMMA SetTargetsStep ==
    ASSUME IInv, NEW h \in Handlers, NEW ts \in SUBSET Targets, SetTargets(h, ts)
    PROVE  IInv'
  <1>1. versions \X (ts \ targets) \in SUBSET Docs
    BY DEF IInv, TypeOK, Docs
  <1>2. versions' \subseteq Versions /\ targets' \subseteq Targets /\ storing' \subseteq Handlers
    BY DEF SetTargets, IInv, TypeOK
  <1> QED BY <1>1, <1>2, CommitsStep DEF SetTargets, Accepts

LEMMA StoreStep ==
    ASSUME IInv, NEW h \in Handlers, Store(h)
    PROVE  IInv'
  <1>1. ServerInv' /\ MissingInv'
    BY DEF Store, IInv, ServerInv, MissingInv, dbVars, dwVars
  <1>2. UNCHANGED <<versions, targets, docs, jobs, pending, dropped, server, crashes, faults>>
    BY DEF Store, dbVars, boundVars
  <1>3. /\ versions \subseteq Versions /\ targets \subseteq Targets /\ docs \in [Docs -> DocsRow]
        /\ dropped \subseteq Docs /\ pending \in [Tasks -> SUBSET Docs]
        /\ server \in {"down", "scanning", "launching", "up"} /\ faults \in 0..MaxFaults
    BY DEF IInv, TypeOK
  <1>4. storing' \subseteq Handlers /\ faults <= faults
    BY <1>3 DEF Store, IInv, TypeOK
  <1> QED BY <1>1, <1>2, <1>3, <1>4, RequestStep DEF Store

LEMMA RequestFailsStep ==
    ASSUME IInv, NEW h \in Handlers, RequestFails(h)
    PROVE  IInv'
  <1> USE DEF RequestFails, IInv, TypeOK, dbVars
  <1>1. pending' \in [Tasks -> SUBSET Docs] /\ dropped' \subseteq Docs
    BY DEF Tasks
  <1>2. ServerInv'
    BY DEF ServerInv, dwVars
  <1>3. MissingInv'
    BY DEF MissingInv, Tasks
  <1> QED BY <1>1, <1>2, <1>3, RequestStep

LEMMA RemoveVersionStep ==
    ASSUME IInv, NEW v \in Versions, RemoveVersion(v)
    PROVE  IInv'
  <1>1. docs' \in [Docs -> DocsRow] /\ \A d \in Docs : docs'[d] \in {"absent", docs[d]}
    BY DEF RemoveVersion, IInv, TypeOK, DocsRow
  <1>2. UNCHANGED <<server, pc, pending, storing, dropped, jobs, targets, crashes, faults>>
    BY DEF RemoveVersion, requestVars, dwVars, boundVars
  <1>3. ServerInv'
    BY <1>2 DEF IInv, ServerInv
  <1>4. MissingInv'
    BY <1>1, <1>2 DEF IInv, MissingInv
  <1>5. versions' \subseteq Versions
    BY DEF RemoveVersion, IInv, TypeOK
  <1> QED BY <1>1, <1>2, <1>3, <1>4, <1>5, RequestStep DEF RemoveVersion, IInv, TypeOK

LEMMA LaunchScanStep == IInv /\ LaunchScan => IInv'
  <1> SUFFICES ASSUME IInv, LaunchScan PROVE IInv'
    OBVIOUS
  <1> USE DEF LaunchScan, IInv, boundVars
  <1>1. versions \X DocTargets \subseteq Docs /\ Undocumented \subseteq Docs
    BY DocTargetsType DEF TypeOK, Docs, Undocumented
  <1>2. docs' \in [Docs -> DocsRow] /\ \A d \in Docs : docs'[d] = "present" => docs[d] = "present"
    BY DEF SetMissing, TypeOK, DocsRow
  <1>3. pending' \in [Tasks -> SUBSET Docs] /\ dropped' \subseteq Docs
    BY <1>1 DEF TypeOK, Tasks
  <1>4. ServerInv'
    BY DEF ServerInv, dwVars
  <1>5. ASSUME NEW d \in Docs, docs'[d] = "missing"
        PROVE  \/ d \in dropped'
               \/ \E t \in Tasks : d \in pending'[t]
               \/ \E i \in DOMAIN jobs' : jobs'[i].doc = d /\ jobs'[i].state = "Queued"
    <2>1. CASE d \in Undocumented
      BY <2>1 DEF TypeOK, Tasks
    <2>2. CASE d \notin Undocumented
      <3>1. docs[d] = "missing" /\ d \notin versions \X DocTargets
        BY <1>5, <2>2 DEF SetMissing, Undocumented
      <3>2. d \in dropped \/ \E i \in DOMAIN jobs : jobs[i].doc = d /\ jobs[i].state = "Queued"
        BY <3>1 DEF MissingInv, ServerInv
      <3> QED BY <3>1, <3>2
    <2> QED BY <2>1, <2>2
  <1>6. MissingInv'
    BY <1>5 DEF MissingInv
  <1> QED BY <1>2, <1>3, <1>4, <1>6, RequestStep DEF TypeOK

LEMMA LaunchReadyStep == IInv /\ LaunchReady => IInv'
  <1> SUFFICES ASSUME IInv, LaunchReady PROVE IInv'
    OBVIOUS
  <1> USE DEF LaunchReady, IInv, dbVars, requestVars, boundVars
  <1>1. ServerInv' /\ MissingInv'
    BY DEF ServerInv, MissingInv, dwVars
  <1> QED BY <1>1, RequestStep DEF TypeOK

LEMMA LaunchStep == IInv /\ Launch => IInv'
  <1> SUFFICES ASSUME IInv, Launch PROVE IInv'
    OBVIOUS
  <1> USE DEF Launch, IInv, dbVars, requestVars, poolVars, connVars, nodeVars, boundVars
  <1>1. pc = "off" /\ cur = 0 /\ result = "Failure"
    BY DEF ServerInv, JobInv, TypeOK
  <1>2. TypeOK'
    BY DEF TypeOK, Pool!PoolTypeOK, DocGenJob, DocGenJobUpdate
  <1>3. ServerInv' /\ JobInv' /\ CheckoutInv'
    BY <1>1 DEF ServerInv, JobInv, CheckoutInv
  <1>4. ChannelInv'
    BY <1>1 DEF ChannelInv, Awaited, Carries, Idles
  <1>5. AnswersInv' /\ QueueInOrder' /\ MissingInv' /\ SuccessIsRendered' /\ WorkingInv'
    BY DEF AnswersInv, Answers, QueueInOrder, MissingInv, SuccessIsRendered, WorkingInv
  <1> QED BY <1>2, <1>3, <1>4, <1>5

(* A job is queued behind the others, if none is queued for the same.      *)
LEMMA QueueStep ==
    ASSUME IInv, NEW t \in Tasks, Queue(t)
    PROVE  IInv'
  <1>0. PICK d \in pending[t] : CreateJob(d) /\ pending' = [pending EXCEPT ![t] = @ \ {d}]
    BY DEF Queue
  <1>1. /\ UNCHANGED <<versions, targets, docs, storing, dropped, pc, cur, result>>
        /\ UNCHANGED <<present, left, holder, link, job_channel, ws_down, ws_up, update_channel>>
        /\ UNCHANGED <<running, exited, rendered, server, crashes, faults>>
    BY DEF Queue, dwVars, poolVars, connVars, nodeVars, boundVars
  <1>2. d \in Docs /\ jobs \in Seq(DocGenJob) /\ cur \in 0..Len(jobs)
    BY DEF IInv, TypeOK
  <1>3. JobsKept
    BY <1>0, <1>2, CreateJobKeeps
  <1>4. \A i \in 1..Len(jobs) : jobs'[i] = jobs[i]
    BY <1>0, <1>2, CreateJobKeeps
  <1>5. \E i \in 1..Len(jobs') : jobs'[i].doc = d /\ jobs'[i].state = "Queued"
    BY <1>0, <1>2, CreateJobKeeps
  <1>6. \A k \in 1..Len(jobs') :
           k \notin 1..Len(jobs) =>
               /\ k = Len(jobs) + 1
               /\ jobs'[k].doc = d /\ jobs'[k].state = "Queued"
               /\ \A i \in 1..Len(jobs) : jobs[i].doc # d \/ jobs[i].state # "Queued"
    BY <1>0, <1>2, CreateJobKeeps
  <1>7. DOMAIN jobs = 1..Len(jobs) /\ DOMAIN jobs' = 1..Len(jobs') /\ Len(jobs) \in Nat /\ Len(jobs') \in Nat
    BY <1>2, <1>3, LenProperties DEF JobsKept
  <1>8. \A id \in 1..Len(jobs) : id \in 1..Len(jobs')
    BY <1>3, <1>7 DEF JobsKept
  <1>9. TypeOK'
    <2>1. pending' \in [Tasks -> SUBSET Docs]
      BY <1>0 DEF IInv, TypeOK
    <2>2. cur' \in 0..Len(jobs') /\ running' \in [Workers -> 0..Len(jobs')]
      <3>1. 0..Len(jobs) \subseteq 0..Len(jobs')
        BY <1>3, <1>7 DEF JobsKept
      <3> QED BY <1>1, <3>1 DEF IInv, TypeOK
    <2>3. job_channel' \in [Workers -> Seq(1..Len(jobs'))] /\ ws_down' \in [Workers -> Seq(1..Len(jobs'))]
      BY <1>1, <1>2, <1>3, ChannelsGrow DEF IInv, TypeOK
    <2> QED BY <1>1, <1>3, <2>1, <2>2, <2>3 DEF IInv, TypeOK, JobsKept, Pool!PoolTypeOK, DocGenJobUpdate
  <1>10. ServerInv' /\ CheckoutInv'
    <2>1. server \notin {"down", "scanning"}
      BY DEF IInv, ServerInv
    <2> QED BY <1>1, <2>1 DEF IInv, ServerInv, CheckoutInv
  <1>11. JobInv'
    <2>1. cur # 0 => jobs'[cur] = jobs[cur] /\ \A k \in 1..(cur - 1) : jobs'[k] = jobs[k]
      BY <1>2, <1>4, <1>7
    <2>2. pc \notin {"off", "idle"} => cur # 0
      BY DEF IInv, JobInv
    <2> QED BY <1>1, <2>1, <2>2 DEF IInv, JobInv
  <1>12. ChannelInv'
    BY <1>1 DEF IInv, ChannelInv, Awaited, Carries, Idles
  <1>13. AnswersInv'
    BY <1>1, <1>2, <1>3, AnswersGrow DEF IInv, AnswersInv
  <1>14. QueueInOrder'
    <2>1. ASSUME NEW i \in 1..Len(jobs'), NEW k \in 1..Len(jobs'), i < k, jobs'[i].state = "Queued"
          PROVE  jobs'[k].state = "Queued" /\ jobs'[k].doc # jobs'[i].doc
      <3>1. i \in 1..Len(jobs)
        <4>1. CASE k \in 1..Len(jobs)
          BY <1>7, <2>1, <4>1
        <4>2. CASE k \notin 1..Len(jobs)
          BY <1>6, <1>7, <2>1, <4>2
        <4> QED BY <4>1, <4>2
      <3>2. jobs'[i] = jobs[i]
        BY <1>4, <3>1
      <3>3. CASE k \in 1..Len(jobs)
        BY <1>4, <1>7, <2>1, <3>1, <3>2, <3>3 DEF IInv, QueueInOrder
      <3>4. CASE k \notin 1..Len(jobs)
        BY <1>6, <2>1, <3>1, <3>2, <3>4
      <3> QED BY <3>3, <3>4
    <2> QED BY <1>7, <2>1 DEF QueueInOrder
  <1>15. MissingInv'
    <2>1. ASSUME NEW x \in Docs, docs[x] = "missing"
          PROVE  \/ x \in dropped
                 \/ \E s \in Tasks : x \in pending'[s]
                 \/ \E i \in DOMAIN jobs' : jobs'[i].doc = x /\ jobs'[i].state = "Queued"
      <3>1. CASE x = d
        BY <1>5, <1>7, <3>1
      <3>2. CASE x # d
        <4>1. \A s \in Tasks : x \in pending[s] => x \in pending'[s]
          BY <1>0, <3>2 DEF IInv, TypeOK
        <4>2. \A i \in DOMAIN jobs : i \in DOMAIN jobs' /\ jobs'[i] = jobs[i]
          BY <1>4, <1>7, <1>8
        <4> QED BY <2>1, <4>1, <4>2 DEF IInv, MissingInv
      <3> QED BY <3>1, <3>2
    <2> QED BY <1>1, <2>1 DEF MissingInv
  <1>16. \A i \in DOMAIN jobs' : (i \in DOMAIN jobs /\ jobs'[i] = jobs[i]) \/ jobs'[i].state = "Queued"
    BY <1>4, <1>6, <1>7
  <1>17. SuccessIsRendered' /\ WorkingInv'
    BY <1>1, <1>16 DEF IInv, SuccessIsRendered, WorkingInv
  <1> QED BY <1>9, <1>10, <1>11, <1>12, <1>13, <1>14, <1>15, <1>17 DEF IInv

(* The end of the master takes every task and every channel with it.       *)
LEMMA StopsStep ==
    ASSUME IInv, Stops, crashes' \in 0..MaxCrashes, faults' \in 0..MaxFaults,
           ~ (crashes' = 0 /\ faults' = 0)
    PROVE  IInv'
  <1> USE DEF Stops, IInv, dbVars, nodeVars
  <1>1. \A S : << >> \in Seq(S)
    OBVIOUS
  <1>2. [w \in Workers |-> << >>] \in [Workers -> Seq(1..Len(jobs))]
    BY <1>1
  <1>3. TypeOK'
    BY <1>1, <1>2 DEF TypeOK, Pool!PoolTypeOK, DocGenJob, DocGenJobUpdate, Tasks
  <1>4. ServerInv' /\ JobInv'
    BY DEF ServerInv, JobInv
  <1>5. CheckoutInv'
    BY DEF CheckoutInv, TypeOK
  <1>6. ChannelInv'
    BY DEF ChannelInv, Idles, TypeOK
  <1>7. AnswersInv' /\ QueueInOrder'
    BY <1>1 DEF AnswersInv, QueueInOrder
  <1>8. MissingInv'
    BY DEF MissingInv
  <1>9. SuccessIsRendered' /\ WorkingInv'
    BY DEF SuccessIsRendered, WorkingInv
  <1> QED BY <1>3, <1>4, <1>5, <1>6, <1>7, <1>8, <1>9

LEMMA CrashStep == IInv /\ Crash => IInv'
  BY StopsStep DEF Crash, IInv, TypeOK

LEMMA LaunchFailsStep == IInv /\ LaunchFails => IInv'
  BY StopsStep DEF LaunchFails, IInv, TypeOK

-----------------------------------------------------------------------------
(* The documentation worker                                                *)

(* The job at work changes its state, and its row with it, in one          *)
(* transaction: the queue keeps its order, and what is missing was not     *)
(* about it.                                                               *)
LEMMA JobWritten ==
    ASSUME IInv, cur # 0, NEW s \in DocGenJobState \ {"Queued"}, UpdateJob(cur, s),
           UNCHANGED <<pending, dropped, rendered>>,
           s = "Success" => jobs[cur].doc \in rendered
    PROVE  /\ JobsKept /\ Len(jobs') = Len(jobs) /\ docs' \in [Docs -> DocsRow]
           /\ jobs'[cur].state = s
           /\ \A i \in 1..Len(jobs) : i # cur => jobs'[i] = jobs[i]
           /\ QueueInOrder' /\ MissingInv' /\ SuccessIsRendered'
  <1>1. jobs \in Seq(DocGenJob) /\ cur \in 1..Len(jobs)
    BY DEF IInv, TypeOK
  <1>2. /\ JobsKept /\ Len(jobs') = Len(jobs)
        /\ jobs'[cur].state = s
        /\ \A i \in 1..Len(jobs) : i # cur => jobs'[i] = jobs[i]
    BY <1>1, UpdateJobKeeps
  <1>3. DOMAIN jobs = 1..Len(jobs) /\ DOMAIN jobs' = 1..Len(jobs) /\ Len(jobs) \in Nat
    BY <1>1, <1>2, LenProperties DEF JobsKept
  <1>4. jobs[cur].doc \in Docs
    <2>1. jobs[cur] \in DocGenJob
      BY <1>1, ElementOfSeq
    <2> QED BY <2>1 DEF DocGenJob
  <1>5. \A d \in Docs : docs'[d] = IF d = jobs[cur].doc
                                   THEN IF s = "Success" THEN "present" ELSE "attempted"
                                   ELSE docs[d]
    BY <1>4 DEF UpdateJob, IInv, TypeOK
  <1>6. docs' \in [Docs -> DocsRow]
    BY <1>4 DEF UpdateJob, IInv, TypeOK, DocsRow
  <1>7. QueueInOrder'
    <2>1. ASSUME NEW i \in 1..Len(jobs), NEW k \in 1..Len(jobs), i < k, jobs'[i].state = "Queued"
          PROVE  jobs'[k].state = "Queued" /\ jobs'[k].doc # jobs'[i].doc
      <3>1. i # cur /\ jobs'[i] = jobs[i]
        BY <1>2, <2>1
      <3>2. jobs[k].state = "Queued" /\ jobs[k].doc # jobs[i].doc
        BY <1>3, <2>1, <3>1 DEF IInv, QueueInOrder
      <3>3. k # cur
        <4>1. SUFFICES ASSUME k = cur PROVE FALSE
          OBVIOUS
        <4>2. \A j \in 1..(cur - 1) : jobs[j].state # "Queued"
          BY <3>2, <4>1 DEF IInv, JobInv
        <4>3. i \in 1..(cur - 1)
          BY <1>1, <2>1, <4>1
        <4> QED BY <2>1, <3>1, <4>2, <4>3
      <3> QED BY <1>2, <3>1, <3>2, <3>3
    <2> QED BY <1>3, <2>1 DEF QueueInOrder
  <1>8. MissingInv'
    <2>1. ASSUME NEW d \in Docs, docs'[d] = "missing", NEW i \in DOMAIN jobs,
                 jobs[i].doc = d, jobs[i].state = "Queued"
          PROVE  i \in DOMAIN jobs' /\ jobs'[i] = jobs[i]
      BY <1>2, <1>3, <1>5, <2>1
    <2> QED BY <1>5, <2>1 DEF IInv, MissingInv
  <1>9. SuccessIsRendered'
    <2>1. \A i \in DOMAIN jobs' : jobs'[i].state = "Success" => jobs'[i].doc \in rendered
      BY <1>1, <1>2, <1>3 DEF IInv, SuccessIsRendered, JobsKept
    <2>2. \A d \in Docs : docs'[d] = "present" => d \in rendered
      BY <1>5 DEF IInv, SuccessIsRendered
    <2> QED BY <2>1, <2>2 DEF SuccessIsRendered
  <1> QED BY <1>2, <1>6, <1>7, <1>8, <1>9

(* The documentation worker gives back the node it held, and holds none.   *)
LEMMA DropCheckoutFrees ==
    ASSUME IInv, DropCheckout
    PROVE  /\ UNCHANGED <<present, left>> /\ Pool!PoolTypeOK'
           /\ \A w \in Workers : holder'[w] # "docs"
  <1>1. CASE \E w \in Workers : holder[w] = "docs"
    <2>1. PICK w \in Workers : Pool!Release("docs", w)
      BY <1>1 DEF DropCheckout
    <2> QED BY <2>1 DEF Pool!Release, IInv, TypeOK, Pool!PoolTypeOK, CheckoutInv
  <1>2. CASE ~ \E w \in Workers : holder[w] = "docs"
    BY <1>2 DEF DropCheckout, poolVars, IInv, TypeOK, Pool!PoolTypeOK
  <1> QED BY <1>1, <1>2

(* While the documentation worker awaits no update, every channel is quiet.*)
LEMMA DocsWorkerStep ==
    ASSUME IInv, pc \notin {"off", "recv"}, pc' \notin {"off", "recv"},
           pc' \in {"off", "idle", "check", "remote", "start", "send", "recv", "update",
                    "local", "generate", "local_update", "fail"},
           UNCHANGED <<versions, targets, requestVars, connVars, running, exited, server, crashes>>,
           faults' \in 0..MaxFaults, cur' \in 0..Len(jobs), result' \in {"Success", "Failure"},
           JobsKept, Len(jobs') = Len(jobs), docs' \in [Docs -> DocsRow],
           rendered \subseteq rendered', rendered' \subseteq Docs, Pool!PoolTypeOK',
           JobInv', CheckoutInv', QueueInOrder', MissingInv', SuccessIsRendered', WorkingInv'
    PROVE  IInv'
  <1> USE DEF requestVars, connVars
  <1>1. TypeOK'
    BY DEF IInv, TypeOK, Pool!PoolTypeOK, JobsKept, DocGenJobUpdate
  <1>2. ServerInv'
    BY DEF IInv, ServerInv
  <1>3. ChannelInv'
    BY DEF IInv, ChannelInv, Awaited, Idles
  <1>4. AnswersInv'
    BY AnswersGrow DEF IInv, TypeOK, AnswersInv
  <1> QED BY <1>1, <1>2, <1>3, <1>4 DEF IInv

LEMMA GetNextJobStep == IInv /\ GetNextJob => IInv'
  <1> SUFFICES ASSUME IInv, GetNextJob PROVE IInv'
    OBVIOUS
  <1> USE DEF dbVars, boundVars
  <1>1. PICK i \in DOMAIN jobs : /\ jobs[i].state = "Queued"
                                 /\ \A k \in 1..(i - 1) : jobs[k].state # "Queued"
                                 /\ cur' = i
    BY DEF GetNextJob
  <1>2. pc = "idle" /\ pc' = "check" /\ UNCHANGED <<jobs, docs, rendered, result, poolVars, link>>
    BY DEF GetNextJob, Goto, nodeVars, connVars
  <1>3. i \in 1..Len(jobs) /\ i # 0 /\ Len(jobs) \in Nat /\ i \in 0..Len(jobs)
    BY LenProperties DEF IInv, TypeOK
  <1>4. JobInv'
    BY <1>1, <1>2, <1>3 DEF IInv, JobInv
  <1>5. CheckoutInv'
    BY <1>2 DEF IInv, CheckoutInv, poolVars
  <1>6. QueueInOrder' /\ MissingInv' /\ SuccessIsRendered'
    BY <1>2 DEF GetNextJob, requestVars, IInv, QueueInOrder, MissingInv, SuccessIsRendered
  <1>7. WorkingInv'
    <2>1. cur = 0
      BY <1>2 DEF IInv, JobInv
    <2>2. \A k \in DOMAIN jobs : k # 0
      BY LenProperties DEF IInv, TypeOK
    <2> QED BY <1>2, <2>1, <2>2 DEF GetNextJob, IInv, WorkingInv
  <1>8. JobsKept /\ Pool!PoolTypeOK'
    BY <1>2 DEF IInv, TypeOK, JobsKept, Pool!PoolTypeOK, poolVars
  <1> QED BY <1>1, <1>2, <1>3, <1>4, <1>5, <1>6, <1>7, <1>8, DocsWorkerStep
          DEF GetNextJob, IInv, TypeOK, nodeVars

(* A step in which the documentation worker goes on with its job and       *)
(* writes nothing.                                                         *)
LEMMA GoesOn ==
    ASSUME IInv, pc \notin {"off", "recv"}, pc' \notin {"off", "recv"},
           pc' \in {"off", "idle", "check", "remote", "start", "send", "recv", "update",
                    "local", "generate", "local_update", "fail"},
           UNCHANGED <<dbVars, requestVars, cur, connVars, nodeVars, server, boundVars>>,
           UNCHANGED result, Pool!PoolTypeOK', JobInv', CheckoutInv'
    PROVE  IInv'
  <1> USE DEF dbVars, requestVars, nodeVars, boundVars
  <1>1. JobsKept
    BY DEF JobsKept, IInv, TypeOK
  <1>2. QueueInOrder' /\ MissingInv' /\ SuccessIsRendered' /\ WorkingInv'
    BY DEF IInv, QueueInOrder, MissingInv, SuccessIsRendered, WorkingInv
  <1> QED BY <1>1, <1>2, DocsWorkerStep DEF IInv, TypeOK

LEMMA HasWorkersStep == IInv /\ HasWorkers => IInv'
  <1> SUFFICES ASSUME IInv, HasWorkers PROVE IInv'
    OBVIOUS
  <1>1. /\ pc = "check" /\ pc' \in {"remote", "local"}
        /\ UNCHANGED <<jobs, rendered, result, cur, present, left, holder, link>>
    BY DEF HasWorkers, Goto, dbVars, nodeVars, connVars, poolVars
  <1>2. JobInv' /\ CheckoutInv' /\ Pool!PoolTypeOK'
    BY <1>1 DEF IInv, TypeOK, JobInv, CheckoutInv, Pool!PoolTypeOK
  <1> QED BY <1>1, <1>2, GoesOn DEF HasWorkers

LEMMA CheckoutWorkerStep == IInv /\ CheckoutWorker => IInv'
  <1> SUFFICES ASSUME IInv, CheckoutWorker PROVE IInv'
    OBVIOUS
  <1>1. pc = "remote" /\ UNCHANGED <<jobs, rendered, result, cur, link>>
    BY DEF CheckoutWorker, dbVars, nodeVars, connVars
  <1>2. CASE pc' = "start"
    <2>1. PICK w \in Workers : Pool!Acquire("docs", w)
      BY <1>2 DEF CheckoutWorker, Goto
    <2>2. Pool!PoolTypeOK'
      BY <2>1 DEF IInv, TypeOK, Pool!PoolTypeOK, Pool!Acquire
    <2>3. JobInv'
      BY <1>1, <1>2 DEF IInv, JobInv
    <2>4. CheckoutInv'
      BY <1>1, <1>2, <2>1 DEF IInv, TypeOK, Pool!PoolTypeOK, CheckoutInv, Pool!Acquire
    <2> QED BY <1>1, <1>2, <2>2, <2>3, <2>4, GoesOn DEF CheckoutWorker
  <1>3. CASE pc' # "start"
    <2>1. pc' = "fail" /\ UNCHANGED <<present, left, holder>>
      BY <1>3 DEF CheckoutWorker, Goto, poolVars
    <2>2. JobInv' /\ CheckoutInv' /\ Pool!PoolTypeOK'
      BY <1>1, <2>1 DEF IInv, TypeOK, JobInv, CheckoutInv, Pool!PoolTypeOK
    <2> QED BY <1>1, <2>1, <2>2, GoesOn DEF CheckoutWorker
  <1> QED BY <1>2, <1>3

LEMMA SendJobStep == IInv /\ SendJob => IInv'
  <1> SUFFICES ASSUME IInv, SendJob PROVE IInv'
    OBVIOUS
  <1>1. PICK w \in Workers :
          /\ holder[w] = "docs"
          /\ IF JobReceiverAlive(w)
             THEN /\ job_channel' = [job_channel EXCEPT ![w] = Append(@, cur)]
                  /\ Goto("recv")
                  /\ UNCHANGED poolVars
             ELSE /\ DropCheckout /\ Goto("fail")
                  /\ UNCHANGED job_channel
    BY DEF SendJob
  <1>2. pc = "send" /\ UNCHANGED <<jobs, docs, rendered, running, result, cur, link>>
    BY DEF SendJob, dbVars, nodeVars
  <1>3. CASE ~ JobReceiverAlive(w)
    <2>1. pc' = "fail" /\ UNCHANGED <<present, left>> /\ Pool!PoolTypeOK' /\ \A v \in Workers : holder'[v] # "docs"
      BY <1>1, <1>3, DropCheckoutFrees DEF Goto
    <2>2. JobInv' /\ CheckoutInv'
      BY <1>2, <2>1 DEF IInv, JobInv, CheckoutInv
    <2>3. UNCHANGED connVars
      BY <1>1, <1>3 DEF SendJob, connVars
    <2> QED BY <1>2, <2>1, <2>2, <2>3, GoesOn DEF SendJob
  <1>4. CASE JobReceiverAlive(w)
    <2>1. pc' = "recv" /\ UNCHANGED <<present, left, holder>>
      BY <1>1, <1>4 DEF Goto, poolVars
    <2>2. job_channel' = [job_channel EXCEPT ![w] = Append(@, cur)]
      BY <1>1, <1>4
    <2>3. cur \in 1..Len(jobs) /\ jobs \in Seq(DocGenJob)
      BY <1>2 DEF IInv, TypeOK, JobInv
    <2>4. Append(job_channel[w], cur) \in Seq(1..Len(jobs))
      BY <2>3, AppendProperties DEF IInv, TypeOK
    <2>5. TypeOK'
      <3>1. job_channel' \in [Workers -> Seq(1..Len(jobs))]
        BY <2>2, <2>4 DEF IInv, TypeOK
      <3> QED BY <1>2, <2>1, <3>1 DEF SendJob, dbVars, requestVars, boundVars, nodeVars, IInv, TypeOK,
                                      Pool!PoolTypeOK, DocGenJob, DocGenJobUpdate
    <2>6. ServerInv' /\ JobInv' /\ CheckoutInv'
      BY <1>2, <2>1 DEF SendJob, requestVars, IInv, ServerInv, JobInv, CheckoutInv
    <2>7. ChannelInv'
      <3>1. \A v \in Workers : link[v] \in {"fresh", "up"} => Idles(v)
        BY <1>2 DEF IInv, ChannelInv, Awaited
      <3>2. \A v \in Workers : update_channel'[v] = << >>
        BY <1>2 DEF SendJob, IInv, ChannelInv, Awaited
      <3>3. link[w] = "up" => Carries(w, cur)'
        <4>1. SUFFICES ASSUME link[w] = "up" PROVE Carries(w, cur)'
          OBVIOUS
        <4>2. job_channel'[w] = Append(<< >>, cur)
          BY <2>2, <3>1, <4>1 DEF Idles, IInv, TypeOK
        <4>3. job_channel'[w] = <<cur>>
          BY <2>3, <4>2
        <4> QED BY <1>2, <3>1, <4>1, <4>3 DEF SendJob, nodeVars, Idles, Carries
      <3>4. ASSUME NEW v \in Workers, v # w
            PROVE  (Idles(v) => Idles(v)') /\ holder[v] # "docs"
        <4>1. job_channel'[v] = job_channel[v]
          BY <2>2, <3>4 DEF IInv, TypeOK
        <4>2. holder[v] # "docs"
          BY <1>1, <3>4 DEF IInv, CheckoutInv
        <4> QED BY <1>2, <4>1, <4>2 DEF SendJob, nodeVars, Idles
      <3>5. link[w] # "fresh"
        BY <1>1 DEF IInv, CheckoutInv
      <3> QED BY <1>1, <1>2, <2>1, <3>1, <3>2, <3>3, <3>4, <3>5 DEF ChannelInv, Awaited
    <2>8. AnswersInv'
      BY <1>2 DEF SendJob, IInv, AnswersInv, Answers
    <2>9. QueueInOrder' /\ MissingInv' /\ SuccessIsRendered' /\ WorkingInv'
      BY <1>2 DEF SendJob, requestVars, boundVars, IInv, QueueInOrder, MissingInv, SuccessIsRendered, WorkingInv
    <2> QED BY <2>5, <2>6, <2>7, <2>8, <2>9 DEF IInv
  <1> QED BY <1>3, <1>4

LEMMA RecvUpdateStep == IInv /\ RecvUpdate => IInv'
  <1> SUFFICES ASSUME IInv, RecvUpdate PROVE IInv'
    OBVIOUS
  <1>1. PICK w \in Workers :
          /\ holder[w] = "docs"
          /\ \/ /\ update_channel[w] # <<>>
                /\ update_channel' = [update_channel EXCEPT ![w] = Tail(@)]
                /\ result' = Head(update_channel[w]).state
                /\ Goto("update")
                /\ UNCHANGED poolVars
             \/ /\ update_channel[w] = <<>> /\ ~ UpdateSenderAlive(w)
                /\ DropCheckout /\ Goto("fail")
                /\ UNCHANGED <<update_channel, result>>
    BY DEF RecvUpdate
  <1>2. /\ pc = "recv"
        /\ UNCHANGED <<versions, targets, docs, jobs, pending, storing, dropped, cur>>
        /\ UNCHANGED <<link, job_channel, ws_down, ws_up, running, exited, rendered>>
        /\ UNCHANGED <<server, crashes, faults>>
    BY DEF RecvUpdate, dbVars, requestVars, nodeVars, boundVars
  <1>3. \A v \in Workers : v # w => ~ Awaited(v) /\ update_channel[v] = << >> /\ (link[v] \in {"fresh", "up"} => Idles(v))
    BY <1>1 DEF IInv, CheckoutInv, ChannelInv, Awaited
  <1>4. link[w] # "fresh" /\ Awaited(w)
    BY <1>1, <1>2 DEF IInv, CheckoutInv, Awaited
  <1>5. ServerInv' /\ QueueInOrder' /\ MissingInv' /\ SuccessIsRendered' /\ WorkingInv'
    <2>1. pc' # "off"
      BY <1>1 DEF Goto
    <2> QED BY <1>2, <2>1 DEF IInv, ServerInv, QueueInOrder, MissingInv, SuccessIsRendered, WorkingInv
  <1>6. CASE update_channel[w] # << >>
    <2>1. /\ update_channel' = [update_channel EXCEPT ![w] = Tail(@)]
          /\ result' = Head(update_channel[w]).state
          /\ pc' = "update" /\ UNCHANGED <<present, left, holder>>
      BY <1>1, <1>6 DEF Goto, poolVars
    <2>2. Len(update_channel[w]) = 1 /\ update_channel[w][1].job_id = cur
      BY <1>6 DEF IInv, ChannelInv
    <2>3. update_channel[w] \in Seq(Answers)
      BY DEF IInv, AnswersInv
    <2>4. Head(update_channel[w]) \in Answers /\ Head(update_channel[w]) = update_channel[w][1]
      BY <1>6, <2>3, HeadTailProperties
    <2>5. Tail(update_channel[w]) \in Seq(Answers) /\ Len(Tail(update_channel[w])) = 0
      BY <1>6, <2>2, <2>3, HeadTailProperties
    <2>6. Tail(update_channel[w]) = << >>
      BY <2>5, EmptySeq
    <2>7. update_channel' \in [Workers -> Seq(Answers)]
      BY <2>1, <2>5 DEF IInv, AnswersInv
    <2>8. \A v \in Workers : update_channel'[v] = << >>
      BY <1>3, <2>1, <2>6 DEF IInv, AnswersInv
    <2>9. result' \in {"Success", "Failure"} /\ (result' = "Success" => jobs[cur].doc \in rendered)
      BY <2>1, <2>2, <2>4 DEF Answers
    <2>10. TypeOK'
      <3>1. update_channel' \in [Workers -> Seq(DocGenJobUpdate)]
        BY <2>7, AnswerType DEF IInv, TypeOK
      <3> QED BY <1>2, <2>1, <2>9, <3>1 DEF IInv, TypeOK, Pool!PoolTypeOK, DocGenJob, DocGenJobUpdate
    <2>11. JobInv' /\ CheckoutInv'
      BY <1>2, <2>1, <2>9 DEF IInv, JobInv, CheckoutInv
    <2>12. ChannelInv'
      <3>1. link[w] = "up" => /\ job_channel[w] = << >> /\ ws_down[w] = << >>
                              /\ running[w] = 0 /\ ws_up[w] = << >>
        BY <1>4, <1>6 DEF IInv, ChannelInv, Carries, Idles
      <3> QED BY <1>2, <1>3, <1>4, <2>1, <2>8, <3>1 DEF ChannelInv, Awaited, Idles
    <2>13. AnswersInv'
      BY <1>2, <2>7 DEF IInv, AnswersInv, Answers
    <2> QED BY <1>5, <2>10, <2>11, <2>12, <2>13 DEF IInv
  <1>7. CASE update_channel[w] = << >>
    <2>1. /\ DropCheckout /\ pc' = "fail" /\ ~ UpdateSenderAlive(w)
          /\ UNCHANGED <<update_channel, result>>
      BY <1>1, <1>7 DEF Goto
    <2>2. UNCHANGED <<present, left>> /\ Pool!PoolTypeOK' /\ \A v \in Workers : holder'[v] # "docs"
      BY <2>1, DropCheckoutFrees
    <2>3. TypeOK'
      BY <1>2, <2>1, <2>2 DEF IInv, TypeOK, DocGenJob, DocGenJobUpdate
    <2>4. JobInv' /\ CheckoutInv'
      BY <1>2, <2>1, <2>2 DEF IInv, JobInv, CheckoutInv
    <2>5. ChannelInv'
      BY <1>2, <1>3, <1>4, <1>7, <2>1 DEF ChannelInv, Awaited, Idles, UpdateSenderAlive
    <2>6. AnswersInv'
      BY <1>2, <2>1 DEF IInv, AnswersInv, Answers
    <2> QED BY <1>5, <2>3, <2>4, <2>5, <2>6 DEF IInv
  <1> QED BY <1>6, <1>7

(* A transaction that fails changes nothing but the bound.                 *)
LEMMA DbFailsKeeps ==
    ASSUME IInv, DbFails, UNCHANGED <<pending, dropped, rendered>>
    PROVE  /\ JobsKept /\ Len(jobs') = Len(jobs) /\ docs' \in [Docs -> DocsRow]
           /\ UNCHANGED <<versions, targets, jobs, crashes>>
           /\ faults' \in 0..MaxFaults
           /\ QueueInOrder' /\ MissingInv' /\ SuccessIsRendered' /\ WorkingInv'
  <1> USE DEF DbFails, dbVars
  <1>1. JobsKept /\ Len(jobs') = Len(jobs) /\ docs' \in [Docs -> DocsRow]
    BY DEF IInv, TypeOK, JobsKept
  <1>2. faults' \in 0..MaxFaults /\ faults' # 0
    BY DEF IInv, TypeOK
  <1>3. QueueInOrder' /\ MissingInv' /\ SuccessIsRendered' /\ WorkingInv'
    BY <1>2 DEF IInv, QueueInOrder, MissingInv, SuccessIsRendered, WorkingInv
  <1> QED BY <1>1, <1>2, <1>3

LEMMA StartJobStep ==
    ASSUME IInv, NEW from, NEW next, StartJob(from, next),
           <<from, next>> \in {<<"start", "send">>, <<"local", "generate">>}
    PROVE  IInv'
  <1>0. \/ from = "start" /\ next = "send"
        \/ from = "local" /\ next = "generate"
    OBVIOUS
  <1>1. /\ pc = from /\ cur # 0 /\ result = "Failure" /\ jobs[cur].state = "Queued"
        /\ cur \in 1..Len(jobs)
    BY <1>0 DEF StartJob, IInv, TypeOK, JobInv
  <1>2. UNCHANGED <<pending, dropped, storing, rendered, cur, result, link, exited, running, server>>
    BY DEF StartJob, requestVars, connVars, nodeVars
  <1>3. CASE UpdateJob(cur, "Working") /\ Goto(next) /\ UNCHANGED <<poolVars, boundVars>>
    <2>1. pc' = next /\ UNCHANGED <<present, left, holder, crashes, faults, versions, targets>>
      BY <1>3 DEF Goto, poolVars, boundVars, UpdateJob
    <2>2. /\ JobsKept /\ Len(jobs') = Len(jobs) /\ docs' \in [Docs -> DocsRow]
          /\ jobs'[cur].state = "Working"
          /\ \A i \in 1..Len(jobs) : i # cur => jobs'[i] = jobs[i]
          /\ QueueInOrder' /\ MissingInv' /\ SuccessIsRendered'
      BY <1>1, <1>2, <1>3, JobWritten DEF DocGenJobState
    <2>3. DOMAIN jobs = 1..Len(jobs) /\ DOMAIN jobs' = 1..Len(jobs)
      BY <2>2, LenProperties DEF IInv, TypeOK, JobsKept
    <2>4. JobInv'
      BY <1>0, <1>1, <1>2, <2>1, <2>2 DEF JobInv
    <2>5. CheckoutInv' /\ Pool!PoolTypeOK'
      BY <1>0, <1>1, <1>2, <2>1 DEF IInv, TypeOK, CheckoutInv, Pool!PoolTypeOK
    <2>6. WorkingInv'
      BY <1>2, <2>1, <2>2, <2>3 DEF IInv, WorkingInv
    <2> QED BY <1>0, <1>1, <1>2, <2>1, <2>2, <2>4, <2>5, <2>6, DocsWorkerStep DEF StartJob, IInv, TypeOK
  <1>4. CASE DbFails /\ DropCheckout /\ Goto("fail")
    <2>1. UNCHANGED <<present, left>> /\ Pool!PoolTypeOK' /\ \A w \in Workers : holder'[w] # "docs"
      BY <1>4, DropCheckoutFrees
    <2>2. /\ JobsKept /\ Len(jobs') = Len(jobs) /\ docs' \in [Docs -> DocsRow]
          /\ UNCHANGED <<versions, targets, jobs, crashes>>
          /\ faults' \in 0..MaxFaults
          /\ QueueInOrder' /\ MissingInv' /\ SuccessIsRendered' /\ WorkingInv'
      BY <1>2, <1>4, DbFailsKeeps
    <2>3. JobInv' /\ CheckoutInv'
      BY <1>0, <1>1, <1>2, <1>4, <2>1, <2>2 DEF Goto, IInv, JobInv, CheckoutInv
    <2> QED BY <1>0, <1>1, <1>2, <1>4, <2>1, <2>2, <2>3, DocsWorkerStep DEF StartJob, Goto, IInv, TypeOK
  <1> QED BY <1>3, <1>4 DEF StartJob

LEMMA FinishJobStep == IInv /\ FinishJob => IInv'
  <1> SUFFICES ASSUME IInv, FinishJob PROVE IInv'
    OBVIOUS
  <1>1. /\ pc \in {"update", "local_update"} /\ cur # 0 /\ jobs[cur].state = "Working"
        /\ (result = "Success" => jobs[cur].doc \in rendered)
        /\ result \in {"Success", "Failure"} /\ cur \in 1..Len(jobs)
    BY DEF FinishJob, IInv, TypeOK, JobInv
  <1>2. /\ UNCHANGED <<pending, dropped, storing, rendered, link, exited, running, server>>
        /\ result' = "Failure"
    BY DEF FinishJob, requestVars, connVars, nodeVars
  <1>3. UNCHANGED <<present, left>> /\ Pool!PoolTypeOK' /\ \A w \in Workers : holder'[w] # "docs"
    BY DropCheckoutFrees DEF FinishJob
  <1>4. CASE UpdateJob(cur, result) /\ Goto("idle") /\ cur' = 0 /\ UNCHANGED boundVars
    <2>1. pc' = "idle" /\ cur' = 0 /\ UNCHANGED <<crashes, faults, versions, targets>>
      BY <1>4 DEF Goto, boundVars, UpdateJob
    <2>2. /\ JobsKept /\ Len(jobs') = Len(jobs) /\ docs' \in [Docs -> DocsRow]
          /\ jobs'[cur].state = result
          /\ \A i \in 1..Len(jobs) : i # cur => jobs'[i] = jobs[i]
          /\ QueueInOrder' /\ MissingInv' /\ SuccessIsRendered'
      BY <1>1, <1>2, <1>4, JobWritten DEF DocGenJobState
    <2>3. DOMAIN jobs = 1..Len(jobs) /\ DOMAIN jobs' = 1..Len(jobs) /\ Len(jobs) \in Nat
      BY <2>2, LenProperties DEF IInv, TypeOK, JobsKept
    <2>4. JobInv' /\ CheckoutInv'
      BY <1>1, <1>2, <1>3, <2>1 DEF IInv, JobInv, CheckoutInv
    <2>5. WorkingInv'
      BY <1>1, <2>1, <2>2, <2>3 DEF IInv, WorkingInv
    <2>6. cur' \in 0..Len(jobs)
      BY <2>1, <2>3
    <2> QED BY <1>1, <1>2, <1>3, <2>1, <2>2, <2>4, <2>5, <2>6, DocsWorkerStep DEF FinishJob, IInv, TypeOK
  <1>5. CASE DbFails /\ Goto("fail") /\ UNCHANGED cur
    <2>1. /\ JobsKept /\ Len(jobs') = Len(jobs) /\ docs' \in [Docs -> DocsRow]
          /\ UNCHANGED <<versions, targets, jobs, crashes>>
          /\ faults' \in 0..MaxFaults
          /\ QueueInOrder' /\ MissingInv' /\ SuccessIsRendered' /\ WorkingInv'
      BY <1>2, <1>5, DbFailsKeeps
    <2>2. JobInv' /\ CheckoutInv'
      BY <1>1, <1>2, <1>3, <1>5, <2>1 DEF Goto, IInv, JobInv, CheckoutInv
    <2> QED BY <1>1, <1>2, <1>3, <1>5, <2>1, <2>2, DocsWorkerStep DEF FinishJob, Goto, IInv, TypeOK
  <1> QED BY <1>4, <1>5 DEF FinishJob

LEMMA FailJobStep == IInv /\ FailJob => IInv'
  <1> SUFFICES ASSUME IInv, FailJob PROVE IInv'
    OBVIOUS
  <1>1. pc = "fail" /\ cur # 0 /\ result = "Failure" /\ cur \in 1..Len(jobs)
    BY DEF FailJob, IInv, TypeOK, JobInv
  <1>2. /\ UNCHANGED <<pending, dropped, storing, rendered, result, present, left, holder>>
        /\ UNCHANGED <<link, exited, running, server>>
        /\ pc' = "idle" /\ cur' = 0
    BY DEF FailJob, Goto, requestVars, poolVars, connVars, nodeVars
  <1>3. JobInv' /\ CheckoutInv' /\ Pool!PoolTypeOK' /\ cur' \in 0..Len(jobs)
    <2>1. Len(jobs) \in Nat
      BY LenProperties DEF IInv, TypeOK
    <2> QED BY <1>1, <1>2, <2>1 DEF IInv, TypeOK, JobInv, CheckoutInv, Pool!PoolTypeOK
  <1>4. CASE UpdateJob(cur, "Failure") /\ UNCHANGED boundVars
    <2>1. UNCHANGED <<crashes, faults, versions, targets>>
      BY <1>4 DEF boundVars, UpdateJob
    <2>2. /\ JobsKept /\ Len(jobs') = Len(jobs) /\ docs' \in [Docs -> DocsRow]
          /\ jobs'[cur].state = "Failure"
          /\ \A i \in 1..Len(jobs) : i # cur => jobs'[i] = jobs[i]
          /\ QueueInOrder' /\ MissingInv' /\ SuccessIsRendered'
      BY <1>1, <1>2, <1>4, JobWritten DEF DocGenJobState
    <2>3. DOMAIN jobs = 1..Len(jobs) /\ DOMAIN jobs' = 1..Len(jobs)
      BY <2>2, LenProperties DEF IInv, TypeOK, JobsKept
    <2>4. WorkingInv'
      BY <2>1, <2>2, <2>3 DEF IInv, WorkingInv
    <2> QED BY <1>1, <1>2, <1>3, <2>1, <2>2, <2>4, DocsWorkerStep DEF FailJob, IInv, TypeOK
  <1>5. CASE DbFails
    <2>1. /\ JobsKept /\ Len(jobs') = Len(jobs) /\ docs' \in [Docs -> DocsRow]
          /\ UNCHANGED <<versions, targets, jobs, crashes>>
          /\ faults' \in 0..MaxFaults
          /\ QueueInOrder' /\ MissingInv' /\ SuccessIsRendered' /\ WorkingInv'
      BY <1>2, <1>5, DbFailsKeeps
    <2> QED BY <1>1, <1>2, <1>3, <2>1, DocsWorkerStep DEF FailJob, IInv, TypeOK
  <1> QED BY <1>4, <1>5 DEF FailJob

(* Whatever has its pages in the storage keeps them.                       *)
LEMMA GeneratesKeeps ==
    ASSUME IInv, NEW d \in Docs, NEW s \in {"Success", "Failure"}, Generates(d, s)
    PROVE  /\ rendered \subseteq rendered' /\ rendered' \subseteq Docs
           /\ s = "Success" => d \in rendered'
  BY DEF Generates, IInv, TypeOK

LEMMA GenerateStep == IInv /\ Generate => IInv'
  <1> SUFFICES ASSUME IInv, Generate PROVE IInv'
    OBVIOUS
  <1>1. PICK s \in {"Success", "Failure"} :
          /\ Generates(jobs[cur].doc, s)
          /\ result' = s
          /\ \/ Goto("local_update")
             \/ s = "Failure" /\ Goto("fail")
    BY DEF Generate
  <1>2. /\ pc = "generate" /\ cur # 0 /\ cur \in 1..Len(jobs) /\ jobs \in Seq(DocGenJob)
        /\ jobs[cur].state = "Working"
    BY DEF Generate, IInv, TypeOK, JobInv
  <1>3. /\ UNCHANGED <<docs, jobs, pending, dropped, cur, present, left, holder, link, crashes, faults>>
        /\ pc' \in {"local_update", "fail"}
    BY <1>1 DEF Generate, Goto, dbVars, requestVars, poolVars, connVars, boundVars
  <1>4. jobs[cur].doc \in Docs
    <2>1. jobs[cur] \in DocGenJob
      BY <1>2, ElementOfSeq
    <2> QED BY <2>1 DEF DocGenJob
  <1>5. /\ rendered \subseteq rendered' /\ rendered' \subseteq Docs
        /\ s = "Success" => jobs[cur].doc \in rendered'
    BY <1>1, <1>4, GeneratesKeeps
  <1>6. JobInv'
    BY <1>1, <1>2, <1>3, <1>5 DEF Goto, IInv, JobInv
  <1>7. CheckoutInv' /\ Pool!PoolTypeOK'
    BY <1>2, <1>3 DEF IInv, TypeOK, CheckoutInv, Pool!PoolTypeOK
  <1>8. QueueInOrder' /\ MissingInv' /\ SuccessIsRendered' /\ WorkingInv'
    BY <1>3, <1>5 DEF IInv, QueueInOrder, MissingInv, SuccessIsRendered, WorkingInv
  <1>9. JobsKept
    BY <1>2, <1>3 DEF JobsKept
  <1> QED BY <1>1, <1>2, <1>3, <1>5, <1>6, <1>7, <1>8, <1>9, DocsWorkerStep
          DEF Generate, dbVars, boundVars, IInv, TypeOK

-----------------------------------------------------------------------------
(* The connections and the nodes                                           *)

(* What ChannelInv says of one node.                                       *)
ConnectionInv(w) ==
    /\ link[w] = "fresh" => Idles(w)
    /\ link[w] = "up" =>
          IF Awaited(w) THEN Carries(w, cur) \/ (w \in exited /\ Idles(w)) ELSE Idles(w)
    /\ update_channel[w] # <<>> =>
          Awaited(w) /\ Len(update_channel[w]) = 1 /\ update_channel[w][1].job_id = cur

(* A step of one connection, or of one node.                               *)
LEMMA ConnectionStep ==
    ASSUME IInv, NEW w \in Workers,
           UNCHANGED <<dbVars, requestVars, dwVars, holder, server, boundVars>>,
           rendered \subseteq rendered', rendered' \subseteq Docs, Pool!PoolTypeOK', CheckoutInv',
           link' \in [Workers -> {"fresh", "up", "no_updates", "no_jobs", "timed_out", "gone"}],
           job_channel' \in [Workers -> Seq(1..Len(jobs))],
           ws_down' \in [Workers -> Seq(1..Len(jobs))],
           running' \in [Workers -> 0..Len(jobs)], exited' \subseteq Workers,
           ws_up' \in [Workers -> Seq(Answers')], update_channel' \in [Workers -> Seq(Answers')],
           \A v \in Workers :
              v # w => /\ link'[v] = link[v] /\ job_channel'[v] = job_channel[v]
                       /\ ws_down'[v] = ws_down[v] /\ running'[v] = running[v]
                       /\ ws_up'[v] = ws_up[v] /\ update_channel'[v] = update_channel[v]
                       /\ v \in exited' <=> v \in exited,
           ConnectionInv(w)'
    PROVE  IInv'
  <1> USE DEF dbVars, requestVars, dwVars, boundVars
  <1>1. jobs' \in Seq(DocGenJob)
    BY DEF IInv, TypeOK
  <1>2. ws_up' \in [Workers -> Seq(DocGenJobUpdate)] /\ update_channel' \in [Workers -> Seq(DocGenJobUpdate)]
    <2>1. Answers' \subseteq DocGenJobUpdate
      BY <1>1, LenProperties DEF Answers, DocGenJobUpdate
    <2>2. \A v \in Workers : ws_up'[v] \in Seq(DocGenJobUpdate) /\ update_channel'[v] \in Seq(DocGenJobUpdate)
      BY <2>1, SeqMonotonic
    <2> QED BY <2>2
  <1>3. TypeOK'
    BY <1>1, <1>2 DEF IInv, TypeOK
  <1>4. ServerInv' /\ JobInv'
    BY DEF IInv, ServerInv, JobInv
  <1>5. ChannelInv'
    <2>1. ASSUME NEW v \in Workers, v # w
          PROVE  ConnectionInv(v)'
      <3>1. ConnectionInv(v)
        BY DEF IInv, ChannelInv, ConnectionInv
      <3> QED BY <2>1, <3>1 DEF ConnectionInv, Idles, Carries, Awaited
    <2> QED BY <2>1 DEF ChannelInv, ConnectionInv
  <1>6. AnswersInv'
    BY DEF AnswersInv
  <1>7. QueueInOrder' /\ MissingInv' /\ SuccessIsRendered' /\ WorkingInv'
    BY DEF IInv, QueueInOrder, MissingInv, SuccessIsRendered, WorkingInv
  <1> QED BY <1>3, <1>4, <1>5, <1>6, <1>7 DEF IInv

LEMMA ConnectStep ==
    ASSUME IInv, NEW w \in Workers, Connect(w)
    PROVE  IInv'
  <1>1. /\ link[w] = "fresh" /\ link' = [link EXCEPT ![w] = "up"]
        /\ UNCHANGED <<holder, left, pc, cur, jobs, rendered, job_channel, ws_down, ws_up>>
        /\ UNCHANGED <<update_channel, running, exited>>
        /\ present' = present \cup {w}
    BY DEF Connect, Pool!Join, dbVars, dwVars, nodeVars
  <1>2. link' \in [Workers -> {"fresh", "up", "no_updates", "no_jobs", "timed_out", "gone"}]
    BY <1>1 DEF IInv, TypeOK
  <1>3. CheckoutInv' /\ Pool!PoolTypeOK'
    <2>1. \A v \in Workers : link'[v] = IF v = w THEN "up" ELSE link[v]
      BY <1>1 DEF IInv, TypeOK
    <2>2. /\ present' = {v \in Workers : link'[v] \in {"up", "no_updates", "no_jobs", "timed_out"}}
          /\ left' = {v \in Workers : link'[v] = "gone"}
      BY <1>1, <2>1 DEF IInv, CheckoutInv
    <2>3. \A v \in Workers : holder[v] = "docs" => link'[v] # "fresh"
      BY <2>1 DEF IInv, CheckoutInv
    <2>4. CheckoutInv'
      BY <1>1, <2>2, <2>3 DEF IInv, CheckoutInv
    <2> QED BY <1>1, <2>4 DEF IInv, TypeOK, Pool!PoolTypeOK
  <1>4. ConnectionInv(w)'
    BY <1>1 DEF IInv, TypeOK, CheckoutInv, ChannelInv, ConnectionInv, Awaited, Idles
  <1>5. ws_up' \in [Workers -> Seq(Answers')] /\ update_channel' \in [Workers -> Seq(Answers')]
    BY <1>1 DEF IInv, AnswersInv, Answers
  <1> QED BY <1>1, <1>2, <1>3, <1>4, <1>5, ConnectionStep DEF Connect, IInv, TypeOK

(* The job moves: of all the places of the connection, it is in one only.  *)
LEMMA JobBridgeStep ==
    ASSUME IInv, NEW w \in Workers, JobBridge(w)
    PROVE  IInv'
  <1>1. /\ link[w] = "up" /\ job_channel[w] # << >>
        /\ job_channel' = [job_channel EXCEPT ![w] = Tail(@)]
        /\ ws_down' = [ws_down EXCEPT ![w] = Append(@, Head(job_channel[w]))]
        /\ UNCHANGED <<present, left, holder, pc, cur, jobs, rendered, link, ws_up, update_channel, running, exited>>
    BY DEF JobBridge, dbVars, dwVars, poolVars, nodeVars
  <1>2. /\ Awaited(w) /\ job_channel[w] = <<cur>> /\ ws_down[w] = << >>
        /\ running[w] = 0 /\ ws_up[w] = << >> /\ update_channel[w] = << >>
    BY <1>1 DEF IInv, ChannelInv, Carries, Idles
  <1>3. cur \in 1..Len(jobs)
    BY <1>2 DEF IInv, TypeOK, JobInv, Awaited
  <1>4. Head(job_channel[w]) = cur /\ Tail(job_channel[w]) = << >>
    BY <1>2, <1>3
  <1>5. Append(ws_down[w], Head(job_channel[w])) = <<cur>> /\ <<cur>> \in Seq(1..Len(jobs))
    BY <1>2, <1>3, <1>4
  <1>6. job_channel' \in [Workers -> Seq(1..Len(jobs))] /\ ws_down' \in [Workers -> Seq(1..Len(jobs))]
    <2>1. << >> \in Seq(1..Len(jobs))
      BY EmptySeq
    <2> QED BY <1>1, <1>4, <1>5, <2>1 DEF IInv, TypeOK
  <1>7. CheckoutInv' /\ Pool!PoolTypeOK'
    BY <1>1 DEF IInv, TypeOK, CheckoutInv, Pool!PoolTypeOK
  <1>8. ConnectionInv(w)'
    <2>1. job_channel'[w] = << >> /\ ws_down'[w] = <<cur>>
      BY <1>1, <1>4, <1>5 DEF IInv, TypeOK
    <2> QED BY <1>1, <1>2, <2>1 DEF ConnectionInv, Carries, Awaited
  <1>9. ws_up' \in [Workers -> Seq(Answers')] /\ update_channel' \in [Workers -> Seq(Answers')]
    BY <1>1 DEF IInv, AnswersInv, Answers
  <1> QED BY <1>1, <1>6, <1>7, <1>8, <1>9, ConnectionStep DEF JobBridge, IInv, TypeOK

LEMMA WsDispatcherStep ==
    ASSUME IInv, NEW w \in Workers, WsDispatcher(w)
    PROVE  IInv'
  <1>1. /\ link[w] = "up" /\ ws_up[w] # << >>
        /\ ws_up' = [ws_up EXCEPT ![w] = Tail(@)]
        /\ update_channel' = [update_channel EXCEPT ![w] = Append(@, Head(ws_up[w]))]
        /\ UNCHANGED <<present, left, holder, pc, cur, jobs, rendered, link, job_channel, ws_down, running, exited>>
    BY DEF WsDispatcher, dbVars, dwVars, poolVars, nodeVars
  <1>2. /\ Awaited(w) /\ job_channel[w] = << >> /\ ws_down[w] = << >>
        /\ running[w] = 0 /\ Len(ws_up[w]) = 1 /\ ws_up[w][1].job_id = cur
        /\ update_channel[w] = << >>
    BY <1>1 DEF IInv, ChannelInv, Carries, Idles
  <1>3. ws_up[w] \in Seq(Answers) /\ update_channel[w] \in Seq(Answers)
    BY DEF IInv, AnswersInv
  <1>4. Head(ws_up[w]) \in Answers /\ Head(ws_up[w]) = ws_up[w][1]
    BY <1>1, <1>3, HeadTailProperties
  <1>5. Tail(ws_up[w]) \in Seq(Answers) /\ Tail(ws_up[w]) = << >>
    <2>1. Tail(ws_up[w]) \in Seq(Answers) /\ Len(Tail(ws_up[w])) = 0
      BY <1>1, <1>2, <1>3, HeadTailProperties
    <2> QED BY <2>1, EmptySeq
  <1>6. /\ Append(update_channel[w], Head(ws_up[w])) \in Seq(Answers)
        /\ Len(Append(update_channel[w], Head(ws_up[w]))) = 1
        /\ Append(update_channel[w], Head(ws_up[w]))[1] = ws_up[w][1]
    <2>1. Len(update_channel[w]) = 0
      BY <1>2, EmptySeq
    <2> QED BY <1>3, <1>4, <2>1, AppendProperties
  <1>7. ws_up' \in [Workers -> Seq(Answers')] /\ update_channel' \in [Workers -> Seq(Answers')]
    <2>1. Answers' = Answers
      BY <1>1 DEF Answers
    <2> QED BY <1>1, <1>5, <1>6, <2>1 DEF IInv, AnswersInv
  <1>8. CheckoutInv' /\ Pool!PoolTypeOK'
    BY <1>1 DEF IInv, TypeOK, CheckoutInv, Pool!PoolTypeOK
  <1>9. ConnectionInv(w)'
    <2>1. /\ ws_up'[w] = << >> /\ Len(update_channel'[w]) = 1
          /\ update_channel'[w][1].job_id = cur
      BY <1>1, <1>2, <1>5, <1>6 DEF IInv, TypeOK
    <2> QED BY <1>1, <1>2, <2>1 DEF ConnectionInv, Carries, Awaited
  <1> QED BY <1>1, <1>7, <1>8, <1>9, ConnectionStep DEF WsDispatcher, IInv, TypeOK

LEMMA ConnectionEndsStep ==
    ASSUME IInv, NEW w \in Workers, ConnectionEnds(w)
    PROVE  IInv'
  <1>1. PICK l \in {"no_updates", "no_jobs", "timed_out"} : link' = [link EXCEPT ![w] = l]
    BY DEF ConnectionEnds
  <1>2. /\ link[w] = "up"
        /\ UNCHANGED <<present, left, holder, pc, cur, jobs, rendered, ws_down, ws_up, update_channel, running, exited>>
    BY DEF ConnectionEnds, dbVars, dwVars, poolVars, nodeVars
  <1>3. link' \in [Workers -> {"fresh", "up", "no_updates", "no_jobs", "timed_out", "gone"}]
    BY <1>1 DEF IInv, TypeOK
  <1>4. /\ job_channel' \in [Workers -> Seq(1..Len(jobs))]
        /\ \A v \in Workers : v # w => job_channel'[v] = job_channel[v]
    <2>1. << >> \in Seq(1..Len(jobs))
      BY EmptySeq
    <2>2. job_channel' = job_channel \/ job_channel' = [job_channel EXCEPT ![w] = << >>]
      BY DEF ConnectionEnds
    <2>3. job_channel \in [Workers -> Seq(1..Len(jobs))]
      BY DEF IInv, TypeOK
    <2> QED BY <1>2, <2>1, <2>2, <2>3
  <1>5. CheckoutInv' /\ Pool!PoolTypeOK'
    BY <1>1, <1>2 DEF IInv, TypeOK, CheckoutInv, Pool!PoolTypeOK
  <1>6. ConnectionInv(w)'
    BY <1>1, <1>2 DEF IInv, TypeOK, ChannelInv, ConnectionInv, Awaited
  <1>7. ws_up' \in [Workers -> Seq(Answers')] /\ update_channel' \in [Workers -> Seq(Answers')]
    BY <1>2 DEF IInv, AnswersInv, Answers
  <1>8. running \in [Workers -> 0..Len(jobs)] /\ exited \subseteq Workers /\ rendered \subseteq Docs
    BY DEF IInv, TypeOK
  <1>9. ws_down \in [Workers -> Seq(1..Len(jobs))]
    BY DEF IInv, TypeOK
  <1> QED BY <1>1, <1>2, <1>3, <1>4, <1>5, <1>6, <1>7, <1>8, <1>9, ConnectionStep
          DEF ConnectionEnds

LEMMA RemoveWorkerStep ==
    ASSUME IInv, NEW w \in Workers, RemoveWorker(w)
    PROVE  IInv'
  <1>1. /\ link[w] \in {"no_updates", "no_jobs", "timed_out"}
        /\ link' = [link EXCEPT ![w] = "gone"]
        /\ present' = present \ {w} /\ left' = left \cup {w}
        /\ UNCHANGED <<holder, pc, cur, jobs, rendered, ws_down, update_channel, running, exited>>
        /\ job_channel' = [job_channel EXCEPT ![w] = << >>]
        /\ ws_up' = [ws_up EXCEPT ![w] = << >>]
    BY DEF RemoveWorker, Pool!Leave, dbVars, dwVars, nodeVars
  <1>2. link' \in [Workers -> {"fresh", "up", "no_updates", "no_jobs", "timed_out", "gone"}]
    BY <1>1 DEF IInv, TypeOK
  <1>3. job_channel' \in [Workers -> Seq(1..Len(jobs))]
    <2>1. << >> \in Seq(1..Len(jobs))
      BY EmptySeq
    <2> QED BY <1>1, <2>1 DEF IInv, TypeOK
  <1>4. CheckoutInv' /\ Pool!PoolTypeOK'
    <2>1. \A v \in Workers : link'[v] = IF v = w THEN "gone" ELSE link[v]
      BY <1>1 DEF IInv, TypeOK
    <2>2. /\ present' = {v \in Workers : link'[v] \in {"up", "no_updates", "no_jobs", "timed_out"}}
          /\ left' = {v \in Workers : link'[v] = "gone"}
      BY <1>1, <2>1 DEF IInv, CheckoutInv
    <2>3. \A v \in Workers : holder[v] = "docs" => link'[v] # "fresh"
      BY <2>1 DEF IInv, CheckoutInv
    <2>4. CheckoutInv'
      BY <1>1, <2>2, <2>3 DEF IInv, CheckoutInv
    <2> QED BY <1>1, <2>4 DEF IInv, TypeOK, Pool!PoolTypeOK
  <1>5. ConnectionInv(w)'
    BY <1>1 DEF IInv, TypeOK, ChannelInv, ConnectionInv, Awaited
  <1>6. ws_up' \in [Workers -> Seq(Answers')] /\ update_channel' \in [Workers -> Seq(Answers')]
    <2>1. Answers' = Answers /\ << >> \in Seq(Answers)
      BY <1>1, EmptySeq DEF Answers
    <2> QED BY <1>1, <2>1 DEF IInv, AnswersInv
  <1> QED BY <1>1, <1>2, <1>3, <1>4, <1>5, <1>6, ConnectionStep DEF RemoveWorker, IInv, TypeOK

LEMMA NodeReceiveStep ==
    ASSUME IInv, NEW w \in Workers, NodeReceive(w)
    PROVE  IInv'
  <1>1. /\ w \notin exited /\ ws_down[w] # << >>
        /\ running' = [running EXCEPT ![w] = Head(ws_down[w])]
        /\ ws_down' = [ws_down EXCEPT ![w] = Tail(@)]
        /\ UNCHANGED <<present, left, holder, pc, cur, jobs, rendered, link, job_channel, ws_up, update_channel, exited>>
    BY DEF NodeReceive, dbVars, dwVars, poolVars
  <1>2. ws_down[w] \in Seq(1..Len(jobs)) /\ Len(jobs) \in Nat
    BY LenProperties DEF IInv, TypeOK
  <1>3. Head(ws_down[w]) \in 1..Len(jobs) /\ Tail(ws_down[w]) \in Seq(1..Len(jobs))
    BY <1>1, <1>2, HeadTailProperties
  <1>4. running' \in [Workers -> 0..Len(jobs)] /\ ws_down' \in [Workers -> Seq(1..Len(jobs))]
    <2>1. Head(ws_down[w]) \in 0..Len(jobs)
      BY <1>2, <1>3
    <2> QED BY <1>1, <1>3, <2>1 DEF IInv, TypeOK
  <1>5. CheckoutInv' /\ Pool!PoolTypeOK'
    BY <1>1 DEF IInv, TypeOK, CheckoutInv, Pool!PoolTypeOK
  <1>6. ConnectionInv(w)'
    <2>1. link[w] # "fresh"
      BY <1>1 DEF IInv, ChannelInv, Idles
    <2>2. CASE link[w] = "up"
      <3>1. /\ Awaited(w) /\ job_channel[w] = << >> /\ ws_down[w] = <<cur>>
            /\ ws_up[w] = << >> /\ update_channel[w] = << >>
        BY <1>1, <2>2 DEF IInv, ChannelInv, Carries, Idles
      <3>2. Head(ws_down[w]) = cur /\ Tail(ws_down[w]) = << >>
        BY <3>1
      <3>3. running'[w] = cur /\ ws_down'[w] = << >>
        BY <1>1, <3>2 DEF IInv, TypeOK
      <3> QED BY <1>1, <2>2, <3>1, <3>3 DEF ConnectionInv, Carries, Awaited
    <2>3. CASE link[w] # "up"
      BY <1>1, <2>1, <2>3 DEF IInv, ChannelInv, ConnectionInv, Awaited
    <2> QED BY <2>2, <2>3
  <1>7. ws_up' \in [Workers -> Seq(Answers')] /\ update_channel' \in [Workers -> Seq(Answers')]
    BY <1>1 DEF IInv, AnswersInv, Answers
  <1> QED BY <1>1, <1>4, <1>5, <1>6, <1>7, ConnectionStep DEF NodeReceive, IInv, TypeOK

LEMMA NodeFinishStep ==
    ASSUME IInv, NEW w \in Workers, NodeFinish(w)
    PROVE  IInv'
  <1>1. PICK s \in {"Success", "Failure"} :
          /\ Generates(jobs[running[w]].doc, s)
          /\ ws_up' = IF link[w] = "gone" THEN ws_up
                      ELSE [ws_up EXCEPT ![w] = Append(@, [job_id |-> running[w], state |-> s])]
    BY DEF NodeFinish
  <1>2. /\ running[w] # 0 /\ w \notin exited /\ running' = [running EXCEPT ![w] = 0]
        /\ UNCHANGED <<present, left, holder, pc, cur, docs, jobs, link, job_channel, ws_down, update_channel, exited>>
    BY DEF NodeFinish, dbVars, dwVars, poolVars
  <1>3. running[w] \in 1..Len(jobs) /\ jobs \in Seq(DocGenJob) /\ DOMAIN jobs = 1..Len(jobs) /\ Len(jobs) \in Nat
    BY <1>2, LenProperties DEF IInv, TypeOK
  <1>4. jobs[running[w]].doc \in Docs
    <2>1. jobs[running[w]] \in DocGenJob
      BY <1>3, ElementOfSeq
    <2> QED BY <2>1 DEF DocGenJob
  <1>5. /\ rendered \subseteq rendered' /\ rendered' \subseteq Docs
        /\ s = "Success" => jobs[running[w]].doc \in rendered'
    BY <1>1, <1>4, GeneratesKeeps
  <1> DEFINE u == [job_id |-> running[w], state |-> s]
  <1>6. u \in Answers' /\ u.job_id = running[w]
    BY <1>2, <1>3, <1>5 DEF Answers
  <1>7. JobsKept
    BY <1>2, <1>3 DEF JobsKept
  <1>8. ws_up \in [Workers -> Seq(Answers')] /\ update_channel' \in [Workers -> Seq(Answers')]
    BY <1>2, <1>3, <1>5, <1>7, AnswersGrow DEF IInv, AnswersInv
  <1> HIDE DEF u
  <1>9. ws_up[w] \in Seq(Answers') /\ Append(ws_up[w], u) \in Seq(Answers')
    BY <1>6, <1>8, AppendProperties
  <1>10. ws_up' = ws_up \/ (link[w] # "gone" /\ ws_up' = [ws_up EXCEPT ![w] = Append(@, u)])
    BY <1>1 DEF u
  <1>11. ws_up' \in [Workers -> Seq(Answers')] /\ \A v \in Workers : v # w => ws_up'[v] = ws_up[v]
    BY <1>8, <1>9, <1>10
  <1>12. running' \in [Workers -> 0..Len(jobs)]
    BY <1>2, <1>3 DEF IInv, TypeOK
  <1>13. CheckoutInv' /\ Pool!PoolTypeOK'
    BY <1>2 DEF IInv, TypeOK, CheckoutInv, Pool!PoolTypeOK
  <1>14. ConnectionInv(w)'
    <2>1. link[w] # "fresh"
      BY <1>2 DEF IInv, ChannelInv, Idles
    <2>2. CASE link[w] = "up"
      <3>1. /\ Awaited(w) /\ job_channel[w] = << >> /\ ws_down[w] = << >> /\ running[w] = cur
            /\ ws_up[w] = << >> /\ update_channel[w] = << >>
        BY <1>2, <2>2 DEF IInv, ChannelInv, Carries, Idles
      <3>2. ws_up'[w] = Append(ws_up[w], u)
        BY <1>1, <1>8, <2>2 DEF u
      <3>3. Len(ws_up'[w]) = 1 /\ ws_up'[w][1] = u
        <4>1. Len(ws_up[w]) = 0
          BY <3>1, EmptySeq
        <4> QED BY <1>6, <1>9, <3>2, <4>1, AppendProperties
      <3>4. running'[w] = 0
        BY <1>2 DEF IInv, TypeOK
      <3> QED BY <1>2, <1>6, <2>2, <3>1, <3>3, <3>4 DEF ConnectionInv, Carries, Awaited
    <2>3. CASE link[w] # "up"
      BY <1>2, <2>1, <2>3 DEF IInv, ChannelInv, ConnectionInv, Awaited
    <2> QED BY <2>2, <2>3
  <1> QED BY <1>2, <1>5, <1>8, <1>11, <1>12, <1>13, <1>14, ConnectionStep DEF NodeFinish, IInv, TypeOK

LEMMA NodeExitStep ==
    ASSUME IInv, NEW w \in Workers, NodeExit(w)
    PROVE  IInv'
  <1>1. /\ link[w] # "fresh" /\ exited' = exited \cup {w}
        /\ running' = [running EXCEPT ![w] = 0] /\ ws_down' = [ws_down EXCEPT ![w] = << >>]
        /\ UNCHANGED <<present, left, holder, pc, cur, jobs, rendered, link, job_channel, ws_up, update_channel>>
    BY DEF NodeExit, dbVars, dwVars, poolVars
  <1>2. running' \in [Workers -> 0..Len(jobs)] /\ ws_down' \in [Workers -> Seq(1..Len(jobs))]
    <2>1. << >> \in Seq(1..Len(jobs)) /\ 0 \in 0..Len(jobs)
      BY EmptySeq, LenProperties DEF IInv, TypeOK
    <2> QED BY <1>1, <2>1 DEF IInv, TypeOK
  <1>3. CheckoutInv' /\ Pool!PoolTypeOK'
    BY <1>1 DEF IInv, TypeOK, CheckoutInv, Pool!PoolTypeOK
  <1>4. ConnectionInv(w)'
    <2>1. running'[w] = 0 /\ ws_down'[w] = << >> /\ w \in exited'
      BY <1>1 DEF IInv, TypeOK
    <2> QED BY <1>1, <2>1 DEF IInv, ChannelInv, ConnectionInv, Carries, Idles, Awaited
  <1>5. ws_up' \in [Workers -> Seq(Answers')] /\ update_channel' \in [Workers -> Seq(Answers')]
    BY <1>1 DEF IInv, AnswersInv, Answers
  <1> QED BY <1>1, <1>2, <1>3, <1>4, <1>5, ConnectionStep DEF NodeExit, IInv, TypeOK

-----------------------------------------------------------------------------
(* The invariant                                                           *)

LEMMA StutterStep == IInv /\ UNCHANGED vars => IInv'
  <1> SUFFICES ASSUME IInv, UNCHANGED vars PROVE IInv'
    OBVIOUS
  <1> USE DEF vars, dbVars, requestVars, dwVars, poolVars, connVars, nodeVars, boundVars
  <1>1. ServerInv' /\ MissingInv'
    BY DEF IInv, ServerInv, MissingInv
  <1> QED BY <1>1, RequestStep DEF IInv, TypeOK

LEMMA NextInvariant == IInv /\ [Next]_vars => IInv'
  <1> SUFFICES ASSUME IInv, [Next]_vars PROVE IInv'
    OBVIOUS
  <1>1. CASE Request
    BY <1>1, PublishStep, RegenStep, SetTargetsStep, StoreStep, RequestFailsStep DEF Request
  <1>2. CASE \E v \in Versions : RemoveVersion(v)
    BY <1>2, RemoveVersionStep
  <1>3. CASE \E t \in Tasks : Queue(t)
    BY <1>3, QueueStep
  <1>4. CASE Launch \/ LaunchScan \/ LaunchReady \/ Crash \/ LaunchFails
    BY <1>4, LaunchStep, LaunchScanStep, LaunchReadyStep, CrashStep, LaunchFailsStep
  <1>5. CASE DocsWorker
    <2>1. CASE RemoteStart \/ LocalStart
      BY <2>1, StartJobStep DEF RemoteStart, LocalStart
    <2>2. CASE ~ (RemoteStart \/ LocalStart)
      BY <1>5, <2>2, GetNextJobStep, HasWorkersStep, CheckoutWorkerStep, SendJobStep, RecvUpdateStep,
         FinishJobStep, GenerateStep, FailJobStep DEF DocsWorker
    <2> QED BY <2>1, <2>2
  <1>6. ASSUME NEW w \in Workers, Connection(w) PROVE IInv'
    BY <1>6, ConnectStep, JobBridgeStep, WsDispatcherStep, ConnectionEndsStep, RemoveWorkerStep DEF Connection
  <1>7. ASSUME NEW w \in Workers, Node(w) PROVE IInv'
    BY <1>7, NodeReceiveStep, NodeFinishStep, NodeExitStep DEF Node
  <1>8. CASE UNCHANGED vars
    BY <1>8, StutterStep
  <1> QED BY <1>1, <1>2, <1>3, <1>4, <1>5, <1>6, <1>7, <1>8 DEF Next

(* Every part of the invariant holds in every reachable state.             *)
THEOREM Invariance == Spec => []IInv
  BY InitInvariant, NextInvariant, PTL DEF Spec

(* Every variable has its type, in every reachable state.                  *)
THEOREM TypeCorrect == Spec => []TypeOK
  BY Invariance, PTL DEF IInv

(* Jobs start in the order of their ids, and no two queued jobs document   *)
(* the same thing: update_job only ever starts the first one, so that a    *)
(* job queued behind it is never overtaken.                                *)
THEOREM InOrder == Spec => []QueueInOrder
  BY Invariance, PTL DEF IInv

(* What is recorded as generated has its pages in the storage, after any   *)
(* crash, lost node and failed transaction.                                *)
THEOREM Rendered == Spec => []SuccessIsRendered
  BY Invariance, PTL DEF IInv

(* A documentation committed as missing is not forgotten before its job is *)
(* queued, unless the request is cut short.                                *)
THEOREM MissingQueued == Spec => []MissingIsQueued
  <1>1. IInv => MissingIsQueued
    BY DEF IInv, MissingInv, MissingIsQueued
  <1> QED BY <1>1, Invariance, PTL

(* Until the first crash of the master and the first failed transaction,   *)
(* a job said to be Working is the one the documentation worker is on.     *)
THEOREM WorkedOn == Spec => [](crashes = 0 /\ faults = 0 => WorkingIsWorkedOn)
  <1>1. IInv => (crashes = 0 /\ faults = 0 => WorkingIsWorkedOn)
    BY DEF IInv, WorkingInv, WorkingIsWorkedOn
  <1> QED BY <1>1, Invariance, PTL

(* The ids of no update, and of one.                                       *)
LEMMA JobIdsOfNone == JobIds(<< >>) = << >>
  BY DEF JobIds

LEMMA JobIdsOfOne ==
    ASSUME NEW S, NEW updates \in Seq(S), Len(updates) = 1
    PROVE  JobIds(updates) = <<updates[1].job_id>>
  <1>1. DOMAIN updates = 1..1
    BY LenProperties
  <1> QED BY <1>1 DEF JobIds

LEMMA IdlesInFlight ==
    ASSUME NEW w \in Workers, Idles(w)
    PROVE  InFlight(w) = << >>
  <1>1. << >> \in Seq({})
    BY EmptySeq
  <1>2. << >> \o << >> = << >>
    BY <1>1, ConcatEmptySeq
  <1> QED BY <1>2, JobIdsOfNone DEF Idles, InFlight

LEMMA CarriesInFlight ==
    ASSUME IInv, NEW w \in Workers, NEW id \in 1..Len(jobs), Carries(w, id)
    PROVE  InFlight(w) = <<id>>
  <1>1. << >> \in Seq(Nat) /\ <<id>> \in Seq(Nat)
    BY LenProperties DEF IInv, TypeOK
  <1>2. << >> \o << >> = << >> /\ << >> \o <<id>> = <<id>> /\ <<id>> \o << >> = <<id>>
    BY <1>1, ConcatEmptySeq
  <1>3. id # 0
    BY LenProperties DEF IInv, TypeOK
  <1>4. ws_up[w] \in Seq(Answers) /\ update_channel[w] \in Seq(Answers)
    BY DEF IInv, AnswersInv
  <1>5. /\ Len(ws_up[w]) = 1 => JobIds(ws_up[w]) = <<ws_up[w][1].job_id>>
        /\ Len(update_channel[w]) = 1 => JobIds(update_channel[w]) = <<update_channel[w][1].job_id>>
    BY <1>4, JobIdsOfOne
  <1>6. \/ /\ job_channel[w] = <<id>> /\ ws_down[w] = << >> /\ running[w] = 0
           /\ JobIds(ws_up[w]) = << >> /\ JobIds(update_channel[w]) = << >>
        \/ /\ job_channel[w] = << >> /\ ws_down[w] = <<id>> /\ running[w] = 0
           /\ JobIds(ws_up[w]) = << >> /\ JobIds(update_channel[w]) = << >>
        \/ /\ job_channel[w] = << >> /\ ws_down[w] = << >> /\ running[w] = id
           /\ JobIds(ws_up[w]) = << >> /\ JobIds(update_channel[w]) = << >>
        \/ /\ job_channel[w] = << >> /\ ws_down[w] = << >> /\ running[w] = 0
           /\ JobIds(ws_up[w]) = <<id>> /\ JobIds(update_channel[w]) = << >>
        \/ /\ job_channel[w] = << >> /\ ws_down[w] = << >> /\ running[w] = 0
           /\ JobIds(ws_up[w]) = << >> /\ JobIds(update_channel[w]) = <<id>>
    BY <1>5, JobIdsOfNone DEF Carries
  <1> QED BY <1>2, <1>3, <1>6 DEF InFlight

(* Between a node and the documentation worker there is the job that is    *)
(* awaited from it and nothing else, so that the update received is never  *)
(* the answer to an earlier job.                                           *)
THEOREM OneInFlight == Spec => []OneJobInFlight
  <1>1. ASSUME IInv, NEW w \in Workers, link[w] = "up"
        PROVE  IF holder[w] = "docs" /\ pc = "recv"
               THEN InFlight(w) = <<cur>> \/ (w \in exited /\ InFlight(w) = <<>>)
               ELSE InFlight(w) = <<>>
    <2>1. CASE Awaited(w)
      <3>1. cur \in 1..Len(jobs)
        BY <1>1, <2>1, LenProperties DEF Awaited, IInv, TypeOK, JobInv
      <3>2. Carries(w, cur) \/ (w \in exited /\ Idles(w))
        BY <1>1, <2>1 DEF IInv, ChannelInv
      <3> QED BY <1>1, <2>1, <3>1, <3>2, IdlesInFlight, CarriesInFlight DEF Awaited
    <2>2. CASE ~ Awaited(w)
      <3>1. Idles(w)
        BY <1>1, <2>2 DEF IInv, ChannelInv
      <3> QED BY <2>2, <3>1, IdlesInFlight DEF Awaited
    <2> QED BY <2>1, <2>2
  <1>2. IInv => OneJobInFlight
    BY <1>1 DEF OneJobInFlight
  <1> QED BY <1>2, Invariance, PTL

-----------------------------------------------------------------------------
(* The table of jobs is a queue                                            *)

(* Every step adds a job, starts or fails the first of the queue, ends the *)
(* started one, or leaves the table alone.                                 *)
LEMMA UpdateIsAStep ==
    ASSUME IInv, cur # 0, NEW s \in DocGenJobState \ {"Queued"}, UpdateJob(cur, s),
           \/ jobs[cur].state = "Queued" /\ s \in {"Working", "Failure"}
           \/ jobs[cur].state = "Working" /\ s \in {"Success", "Failure"}
    PROVE  Table!QueueNext
  <1>1. cur \in 1..Len(jobs) /\ DOMAIN jobs = 1..Len(jobs)
    BY LenProperties DEF IInv, TypeOK
  <1>2. Table!Becomes(cur, s)
    BY DEF UpdateJob, Table!Becomes
  <1>3. CASE jobs[cur].state = "Queued" /\ s \in {"Working", "Failure"}
    <2>1. \A k \in DOMAIN jobs : jobs[k].state = "Queued" => cur <= k
      <3>1. \A k \in 1..(cur - 1) : jobs[k].state # "Queued"
        BY <1>3 DEF IInv, JobInv
      <3>2. Len(jobs) \in Nat
        BY LenProperties DEF IInv, TypeOK
      <3> QED BY <1>1, <3>1, <3>2
    <2>2. Table!First(cur)
      BY <1>1, <1>3, <2>1 DEF Table!First, Table!Queued
    <2>3. Table!Start(cur) \/ Table!Reject(cur)
      BY <1>2, <1>3, <2>2 DEF Table!Start, Table!Reject
    <2> QED BY <1>1, <2>3 DEF Table!QueueNext
  <1>4. CASE jobs[cur].state = "Working" /\ s \in {"Success", "Failure"}
    <2>1. Table!Finish(cur)
      BY <1>2, <1>4 DEF Table!Finish
    <2> QED BY <1>1, <2>1 DEF Table!QueueNext
  <1> QED BY <1>3, <1>4

LEMMA QueueIsAStep ==
    ASSUME IInv, NEW t \in Tasks, Queue(t)
    PROVE  Table!QueueNext \/ UNCHANGED jobs
  <1>1. PICK d \in pending[t] : CreateJob(d)
    BY DEF Queue
  <1>2. d \in Docs
    BY DEF IInv, TypeOK
  <1>3. CASE \E i \in DOMAIN jobs : jobs[i].doc = d /\ jobs[i].state = "Queued"
    BY <1>1, <1>3 DEF CreateJob
  <1>4. CASE ~ \E i \in DOMAIN jobs : jobs[i].doc = d /\ jobs[i].state = "Queued"
    <2>1. Table!Enqueue(d)
      BY <1>1, <1>4 DEF CreateJob, Table!Enqueue, Table!Queued
    <2> QED BY <1>2, <2>1 DEF Table!QueueNext
  <1> QED BY <1>3, <1>4

LEMMA DocsWorkerIsAStep ==
    ASSUME IInv, DocsWorker
    PROVE  Table!QueueNext \/ UNCHANGED jobs
  <1>1. CASE GetNextJob \/ HasWorkers \/ CheckoutWorker \/ SendJob \/ RecvUpdate \/ Generate
    BY <1>1 DEF GetNextJob, HasWorkers, CheckoutWorker, SendJob, RecvUpdate, Generate, dbVars
  <1>2. CASE RemoteStart \/ LocalStart
    <2>1. cur # 0 /\ jobs[cur].state = "Queued"
      BY <1>2 DEF RemoteStart, LocalStart, StartJob, IInv, JobInv
    <2>2. UpdateJob(cur, "Working") \/ UNCHANGED jobs
      BY <1>2 DEF RemoteStart, LocalStart, StartJob, DbFails, dbVars
    <2> QED BY <2>1, <2>2, UpdateIsAStep DEF DocGenJobState
  <1>3. CASE FinishJob
    <2>1. cur # 0 /\ jobs[cur].state = "Working" /\ result \in {"Success", "Failure"}
      BY <1>3 DEF FinishJob, IInv, TypeOK, JobInv
    <2>2. UpdateJob(cur, result) \/ UNCHANGED jobs
      BY <1>3 DEF FinishJob, DbFails, dbVars
    <2> QED BY <2>1, <2>2, UpdateIsAStep DEF DocGenJobState
  <1>4. CASE FailJob
    <2>1. cur # 0 /\ jobs[cur].state \in {"Queued", "Working"}
      BY <1>4 DEF FailJob, IInv, JobInv
    <2>2. UpdateJob(cur, "Failure") \/ UNCHANGED jobs
      BY <1>4 DEF FailJob, DbFails, dbVars
    <2> QED BY <2>1, <2>2, UpdateIsAStep DEF DocGenJobState
  <1> QED BY <1>1, <1>2, <1>3, <1>4 DEF DocsWorker

LEMMA NextIsAStep == IInv /\ [Next]_vars => [Table!QueueNext]_jobs
  <1> SUFFICES ASSUME IInv, [Next]_vars PROVE Table!QueueNext \/ UNCHANGED jobs
    OBVIOUS
  <1> USE DEF dbVars
  <1>1. CASE Request
    BY <1>1 DEF Request, Publish, Regen, SetTargets, Commits, Store, RequestFails
  <1>2. CASE \E v \in Versions : RemoveVersion(v)
    BY <1>2 DEF RemoveVersion
  <1>3. CASE \E t \in Tasks : Queue(t)
    BY <1>3, QueueIsAStep
  <1>4. CASE Launch \/ LaunchScan \/ LaunchReady \/ Crash \/ LaunchFails
    BY <1>4 DEF Launch, LaunchScan, LaunchReady, Crash, LaunchFails, Stops
  <1>5. CASE DocsWorker
    BY <1>5, DocsWorkerIsAStep
  <1>6. CASE \E w \in Workers : Connection(w) \/ Node(w)
    BY <1>6 DEF Connection, Connect, JobBridge, WsDispatcher, ConnectionEnds, RemoveWorker,
                Node, NodeReceive, NodeFinish, NodeExit
  <1>7. CASE UNCHANGED vars
    BY <1>7 DEF vars
  <1> QED BY <1>1, <1>2, <1>3, <1>4, <1>5, <1>6, <1>7 DEF Next

(* The requests, the documentation worker, the crashes and the failures of *)
(* DocsGenerator implement JobQueue: a job read in one transaction is      *)
(* still the first of the queue when another starts it, and one that has   *)
(* its final state is not written again by the error path.                 *)
THEOREM IsAQueue == Spec => TableIsAQueue
  <1>1. Init => Table!QueueInit
    BY DEF Init, Table!QueueInit
  <1> QED BY <1>1, NextIsAStep, Invariance, PTL DEF Spec, TableIsAQueue, Table!QueueSpec

(* A finished job never changes again: in the queue that the table is, no  *)
(* step takes a job that has ended.                                        *)
THEOREM FinalForever == Spec => FinalIsForever
  <1>1. ASSUME IInv, [Table!QueueNext]_jobs, NEW i \in DOMAIN jobs, is_final(jobs[i].state)
        PROVE  jobs'[i] = jobs[i]
    <2>1. jobs \in Seq(DocGenJob) /\ i \in 1..Len(jobs)
      BY <1>1, LenProperties DEF IInv, TypeOK
    <2>2. jobs[i].state \in {"Success", "Failure"}
      BY <1>1 DEF is_final
    <2>3. ASSUME NEW d \in Docs, Table!Enqueue(d) PROVE jobs'[i] = jobs[i]
      <3>1. [doc |-> d, state |-> "Queued"] \in DocGenJob
        BY DEF DocGenJob, DocGenJobState
      <3> QED BY <2>1, <2>3, <3>1, AppendProperties DEF Table!Enqueue
    <2>4. ASSUME NEW k \in DOMAIN jobs, Table!Start(k) \/ Table!Reject(k) \/ Table!Finish(k)
          PROVE  jobs'[i] = jobs[i]
      <3>1. k # i
        BY <2>2, <2>4 DEF Table!Start, Table!Reject, Table!Finish, Table!First, Table!Queued
      <3>2. PICK s : jobs' = [jobs EXCEPT ![k].state = s]
        BY <2>4 DEF Table!Start, Table!Reject, Table!Finish, Table!Becomes
      <3> QED BY <3>1, <3>2
    <2> QED BY <1>1, <2>3, <2>4 DEF Table!QueueNext
  <1>2. IInv /\ [Table!QueueNext]_jobs => [\A i \in DOMAIN jobs : is_final(jobs[i].state) => jobs'[i] = jobs[i]]_vars
    BY <1>1
  <1> QED BY <1>2, NextIsAStep, Invariance, PTL DEF Spec, FinalIsForever
=============================================================================
