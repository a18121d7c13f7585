--------------------------- MODULE ServicesProofs ---------------------------
(***************************************************************************)
(* Proofs about Services, for any requests, versions, dependencies,        *)
(* registries and advisories, any capacity of the channel and any number   *)
(* of faults and restarts.                                                 *)
(***************************************************************************)
EXTENDS Services, GraphProofs, EventsProofs

USE VersionsAssumption, RequestsAssumption, CapacityAssumption

-----------------------------------------------------------------------------
(* The initial states                                                      *)

LEMMA InitInvariant == Init => IInv
  <1> SUFFICES ASSUME Init PROVE IInv
    OBVIOUS
  <1> PICK start \in Starts :
        /\ EventsInit /\ DepsInit
        /\ writer = NoOne /\ readers = {}
        /\ present = start.present
        /\ requests = [r \in Requests |->
                         Request(start.asks[r], IF r \in start.requests THEN "idle" ELSE "done")]
        /\ wpc = start.worker /\ published = start.published
        /\ ordinal = start.ordinal /\ days = start.days /\ faults = start.faults
    BY DEF Init
  <1>1. requests \in [Requests -> Asked]
    <2>1. \A r \in Requests : start.asks[r] \in Asks
      BY StartsAssumption
    <2>2. \A ask \in Asks : Request(ask, "idle") \in Asked /\ Request(ask, "done") \in Asked
      BY DEF Asks, Request, Asked, Steps
    <2> QED BY <2>1, <2>2
  <1>2. QueueInv
    BY <1>1, StartsAssumption DEF QueueInv, EventsTypeOK, EventsInit
  <1>3. jobs \in Seq(Versions) /\ wpc # "job"
    BY DEF DepsInit
  <1>4. DepsTypeOK
    BY StartsAssumption DEF DepsTypeOK, DepsInit, Range
  <1>5. MailInv
    BY DEF MailInv, DepsInit, NoFlags, FlagSet, Told
  <1>6. GraphInv
    <2>1. IsGraph(graph) /\ AreNeeds(graph, todo) /\ wpc \notin {"resolve", "advise"}
      BY FirstGraph, EmptyIsVector DEF DepsInit, AreNeeds
    <2> QED BY <2>1 DEF GraphInv
  <1>7. CountInv /\ CountedOnce
    BY StartsAssumption, NothingCounted, NothingServed
  <1> QED BY <1>2, <1>3, <1>4, <1>5, <1>6, <1>7 DEF IInv, WorkerInv

-----------------------------------------------------------------------------
(* The requests and the events                                             *)

(* A request that goes on keeps the type of the requests.                  *)
LEMMA GotoType ==
    ASSUME requests \in [Requests -> Asked], NEW r \in Requests, NEW pc \in Steps, Goto(r, pc)
    PROVE  /\ requests' \in [Requests -> Asked]
           /\ requests'[r].pc = pc
           /\ \A s \in Requests \ {r} : requests'[s] = requests[s]
  BY DEF Goto, Asked

(* A request that goes on only changes what it holds itself, and holds     *)
(* nothing but at the steps of its transaction.                            *)
LEMMA RequestGoesOn ==
    ASSUME QueueInv, NEW r \in Requests, NEW pc \in Steps, Goto(r, pc),
           batch' = batch, present' \subseteq present,
           channel' \in Seq(Event), Len(channel') <= Capacity,
           writer' \in {writer, r, NoOne}, readers' \subseteq readers \cup {r},
           r = writer' \/ r \in readers' => pc \in {"authenticate", "work"}
    PROVE  QueueInv'
  <1>1. requests' \in [Requests -> Asked] /\ requests'[r].pc = pc
        /\ \A s \in Requests \ {r} : requests'[s] = requests[s]
    BY GotoType DEF QueueInv
  <1>2. \A s \in Requests : s = writer' \/ s \in readers' => requests'[s].pc \in {"authenticate", "work"}
    <2> SUFFICES ASSUME NEW s \in Requests, s # r, s = writer' \/ s \in readers'
                 PROVE  requests'[s].pc \in {"authenticate", "work"}
      BY <1>1
    <2>1. s = writer \/ s \in readers
      OBVIOUS
    <2> QED BY <2>1, <1>1 DEF QueueInv, EventsTypeOK
  <1>3. /\ writer' \in Requests \cup {NoOne} /\ readers' \subseteq Requests
        /\ present' \subseteq Versions /\ Len(batch') <= BufferSize /\ batch' \in Seq(Event)
    BY DEF QueueInv, EventsTypeOK
  <1> QED BY <1>1, <1>2, <1>3 DEF QueueInv, EventsTypeOK

(* Only a request whose step is authenticate or work holds a connection.   *)
LEMMA RequestStep ==
    ASSUME QueueInv, NEW r \in Requests, Begin(r) \/ RequestNext(r) \/ Disconnect(r)
    PROVE  QueueInv'
  <1>1. requests[r] \in Asked /\ channel \in Seq(Event) /\ Len(channel) <= Capacity
    BY DEF QueueInv, EventsTypeOK
  <1>2. r = writer \/ r \in readers => requests[r].pc \in {"authenticate", "work"}
    BY DEF QueueInv, EventsTypeOK
  <1>3. ASSUME NEW event \in Event, Send(event)
        PROVE  channel' \in Seq(Event) /\ Len(channel') <= Capacity
    BY <1>1, <1>3 DEF Send
  <1>4. CASE Begin(r)
    BY <1>1, <1>2, <1>4, RequestGoesOn DEF Begin, At, Steps
  <1>5. CASE Connect(r)
    <2>1. Goto(r, "authenticate") /\ UNCHANGED <<channel, batch, present>>
      BY <1>5 DEF Connect
    <2>2. writer' \in {writer, r, NoOne} /\ readers' \subseteq readers \cup {r}
      BY <1>5 DEF Connect, acquire_read, acquire_write
    <2> QED BY <1>1, <2>1, <2>2, RequestGoesOn DEF Steps
  <1>6. CASE ConnectTimesOut(r)
    <2>1. /\ requests[r].pc = "connect" /\ Goto(r, "done")
          /\ UNCHANGED <<channel, batch, writer, readers, present>>
      BY <1>6 DEF ConnectTimesOut, At
    <2> QED BY <1>1, <1>2, <2>1, RequestGoesOn DEF Steps
  <1>7. CASE authenticate_token(r)
    <2>1. Goto(r, "work") /\ UNCHANGED <<batch, writer, readers, present>>
      BY <1>7 DEF authenticate_token
    <2>2. channel' \in Seq(Event) /\ Len(channel') <= Capacity
      BY <1>1, <1>3, <1>7 DEF authenticate_token, Event
    <2> QED BY <2>1, <2>2, RequestGoesOn DEF Steps
  <1>8. ASSUME Release(r)
        PROVE  writer' \in {writer, NoOne} /\ readers' \subseteq readers /\ r # writer' /\ r \notin readers'
    BY <1>8 DEF Release
  <1>9. CASE CheckCrateExists(r)
    <2>1. PICK pc \in Steps : Goto(r, pc)
      BY <1>9 DEF CheckCrateExists, Steps
    <2>2. Release(r) /\ UNCHANGED <<channel, batch, present>>
      BY <1>9 DEF CheckCrateExists
    <2> QED BY <1>1, <1>8, <2>1, <2>2, RequestGoesOn
  <1>10. CASE RemoveCrateVersion(r)
    <2>1. Goto(r, "done") /\ Release(r) /\ present' \subseteq present /\ UNCHANGED <<channel, batch>>
      BY <1>10 DEF RemoveCrateVersion
    <2> QED BY <1>1, <1>8, <2>1, RequestGoesOn DEF Steps
  <1>11. CASE ServeContent(r)
    <2>1. /\ requests[r].pc = "serve" /\ Goto(r, "done")
          /\ UNCHANGED <<batch, writer, readers, present>>
      BY <1>11 DEF ServeContent, At
    <2>2. CrateDownload(requests[r].version) \in Event
      BY <1>1 DEF Event, Asked
    <2>3. channel' \in Seq(Event) /\ Len(channel') <= Capacity
      BY <1>3, <1>11, <2>2 DEF ServeContent
    <2> QED BY <1>2, <2>1, <2>3, RequestGoesOn DEF Steps
  <1>12. CASE Disconnect(r)
    <2>1. Goto(r, "done") /\ Release(r) /\ UNCHANGED <<channel, batch, present>>
      BY <1>12 DEF Disconnect
    <2> QED BY <1>1, <1>8, <2>1, RequestGoesOn DEF Steps
  <1> QED BY <1>4, <1>5, <1>6, <1>7, <1>9, <1>10, <1>11, <1>12 DEF RequestNext

(* A batch is cut off the front of the channel, and is cleared whatever    *)
(* comes of it.                                                            *)
LEMMA HandlerStep ==
    ASSUME QueueInv, HandlerNext
    PROVE  QueueInv'
  <1>1. CASE Receive
    <2> DEFINE n == IF Len(channel) < BufferSize THEN Len(channel) ELSE BufferSize
    <2>1. channel \in Seq(Event) /\ Len(channel) \in Nat /\ Len(channel) <= Capacity
      BY DEF QueueInv, EventsTypeOK
    <2>2. n \in 0..Len(channel) /\ n <= BufferSize
      BY <2>1
    <2>3. batch' = SubSeq(channel, 1, n) /\ channel' = SubSeq(channel, n + 1, Len(channel))
          /\ UNCHANGED <<requests, writer, readers, present>>
      BY <1>1 DEF Receive
    <2> HIDE DEF n
    <2>4. batch' \in Seq(Event) /\ Len(batch') = n
      BY <2>1, <2>2, <2>3
    <2>5. channel' \in Seq(Event) /\ Len(channel') = Len(channel) - n
      BY <2>1, <2>2, <2>3
    <2> QED BY <2>1, <2>2, <2>3, <2>4, <2>5 DEF QueueInv, EventsTypeOK
  <1>2. CASE events_handler_handle \/ HandlerTimesOut
    <2>1. batch' = << >> /\ UNCHANGED <<requests, channel, writer, readers, present>>
      BY <1>2 DEF events_handler_handle, HandlerTimesOut
    <2> QED BY <2>1 DEF QueueInv, EventsTypeOK
  <1> QED BY <1>1, <1>2 DEF HandlerNext

LEMMA EventsStep == QueueInv /\ EventsNext => QueueInv'
  <1> SUFFICES ASSUME QueueInv, EventsNext PROVE QueueInv'
    OBVIOUS
  <1>1. CASE NextDay
    BY <1>1 DEF NextDay, QueueInv, EventsTypeOK
  <1> QED BY <1>1, RequestStep, HandlerStep DEF EventsNext

-----------------------------------------------------------------------------
(* The worker of the dependencies                                          *)

(* A step after which no mail is left to send, and that loses those of the *)
(* version at work only if it is set apart.                                *)
LEMMA NoMailLeft ==
    ASSUME MailInv, UNCHANGED <<analysis, told>>, mails' = << >>, found' \in FlagSet,
           unsent \subseteq unsent', mails # << >> => current \in unsent'
    PROVE  MailInv'
  BY DEF MailInv, Told

(* What gives up a round, or ends a job, keeps nothing of the analysis.    *)
LEMMA RoundEnds ==
    ASSUME DepsTypeOK, jobs \in Seq(Versions), AbortRound \/ EndJob,
           db' \subseteq published', faults' \in 0..MaxFaults
    PROVE  /\ jobs' \in Seq(Versions) /\ (wpc' = "job" => jobs' # << >>) /\ DepsTypeOK'
           /\ mails' = << >> /\ found' \in FlagSet
  <1>1. current' = NoOne /\ mails' = << >> /\ found' = NoFlags
    BY DEF AbortRound, EndJob, Forget
  <1>2. wpc' \in {"idle", "job"} /\ (wpc' = "job" => jobs' # << >>)
    BY DEF AbortRound, EndJob
  <1>3. jobs' = << >> \/ jobs' = jobs
    BY DEF AbortRound, EndJob
  <1>4. jobs' \in Seq(Versions)
    BY <1>3, Zenon, EmptySeq
  <1>5. Range(jobs') \subseteq Versions
    BY <1>4 DEF Range
  <1>6. found' \in FlagSet
    BY <1>1 DEF NoFlags, FlagSet
  <1>7. DepsTypeOK'
    BY <1>1, <1>2, <1>5 DEF DepsTypeOK
  <1> QED BY <1>1, <1>2, <1>4, <1>6, <1>7

(* A fault is one more, as long as there are not MaxFaults.                *)
LEMMA Faults ==
    ASSUME faults \in 0..MaxFaults, Fault \/ NoFault
    PROVE  faults' \in 0..MaxFaults
  BY DepsAssumption DEF Fault, NoFault

(* The copies may be updated or not, and nothing else changes.             *)
LEMMA CopiesFaults ==
    ASSUME faults \in 0..MaxFaults, NEW reg, NEW name, NEW ok \in BOOLEAN,
           get_dependency_versions(reg, name, ok)
    PROVE  faults' \in 0..MaxFaults
  <1>1. Fault \/ NoFault
    BY DEF get_dependency_versions, get_dependency_info_git, get_dependency_info_sparse
  <1> QED BY <1>1, Faults

LEMMA AdvisoriesType ==
    ASSUME faults \in 0..MaxFaults, db \subseteq published, NEW ok \in BOOLEAN, update_data(ok)
    PROVE  faults' \in 0..MaxFaults /\ db' \subseteq published
  <1>1. Fault \/ NoFault
    BY DEF update_data
  <1>2. db' \subseteq published
    BY DEF update_data
  <1> QED BY <1>1, <1>2, Faults

(* The steps that leave the mails, the flags and what was said of them.    *)
LEMMA QuietStep ==
    ASSUME MailInv, UNCHANGED <<told, mails, unsent>>, found' \in FlagSet,
           mails # << >> => UNCHANGED <<current, found>>,
           analysis' \in [Versions -> [recent : BOOLEAN, outdated : BOOLEAN, cves : BOOLEAN]],
           \A v \in Versions : /\ analysis'[v].outdated = analysis[v].outdated
                              /\ analysis'[v].cves = analysis[v].cves
    PROVE  MailInv'
  BY DEF MailInv, Told

LEMMA TickStep ==
    ASSUME IInv, Tick
    PROVE  WorkerInv'
  <1>1. get_unanalyzed_crates \subseteq Versions /\ get_unanalyzed_crates # {}
    BY DEF get_unanalyzed_crates, Heads, IInv, QueueInv, EventsTypeOK, Tick
  <1>2. /\ IsFiniteSet(get_unanalyzed_crates)
        /\ Cardinality(get_unanalyzed_crates) \in Nat \ {0}
    BY <1>1, VersionsAssumption, FS_Subset, FS_CardinalityType, FS_EmptySet
  <1>3. jobs' \in [1..Cardinality(get_unanalyzed_crates) -> get_unanalyzed_crates]
    BY DEF Tick, SetToSeqs
  <1>4. jobs' \in Seq(Versions) /\ Range(jobs') \subseteq Versions
    BY <1>1, <1>2, <1>3 DEF Range
  <1>5. jobs' # << >>
    BY <1>2, <1>3
  <1>6. DepsTypeOK'
    BY <1>4 DEF Tick, dataVars, IInv, WorkerInv, DepsTypeOK
  <1>7. MailInv'
    BY QuietStep DEF Tick, IInv, WorkerInv, MailInv
  <1> QED BY <1>4, <1>5, <1>6, <1>7 DEF WorkerInv

LEMMA StartJobStep ==
    ASSUME IInv, StartJob
    PROVE  WorkerInv'
  <1>1. wpc = "job" /\ jobs # << >> /\ mails = << >> /\ UNCHANGED <<dataVars, analysis, faults, told, unsent>>
    BY DEF StartJob, IInv, WorkerInv, DepsTypeOK
  <1>2. CASE Head(jobs) \in present
    <2>1. /\ wpc' = "resolve" /\ jobs' = Tail(jobs) /\ current' = Head(jobs)
          /\ UNCHANGED <<found, mails>>
      BY <1>2 DEF StartJob
    <2>2. current' \in Versions /\ current' # NoOne
      BY <1>2, <2>1, VersionsAssumption DEF IInv, QueueInv, EventsTypeOK
    <2>3. jobs' \in Seq(Versions) /\ Range(jobs') \subseteq Versions
      BY <1>1, <2>1 DEF IInv, WorkerInv, Range
    <2>4. DepsTypeOK'
      BY <1>1, <2>1, <2>2, <2>3 DEF IInv, WorkerInv, DepsTypeOK, dataVars
    <2>5. MailInv'
      BY <1>1, <2>1, QuietStep DEF IInv, WorkerInv, MailInv
    <2> QED BY <2>1, <2>3, <2>4, <2>5 DEF WorkerInv
  <1>3. CASE Head(jobs) \notin present
    <2>1. AbortRound
      BY <1>3 DEF StartJob
    <2>2. db' \subseteq published' /\ faults' \in 0..MaxFaults
      BY <1>1 DEF IInv, WorkerInv, DepsTypeOK, dataVars
    <2> QED BY <1>1, <2>1, <2>2, RoundEnds, NoMailLeft DEF IInv, WorkerInv
  <1> QED BY <1>2, <1>3

(* The steps that build the graph.                                         *)
LEMMA GraphStep ==
    ASSUME WorkerInv, ResolveNext \/ PopDirty \/ CloseEnds
    PROVE  WorkerInv'
  <1>1. /\ wpc = "resolve" /\ mails = << >>
        /\ UNCHANGED <<jobs, current, found, mails, db, published, analysis, told, unsent>>
    BY DEF ResolveNext, PopDirty, CloseEnds, dataVars, WorkerInv, DepsTypeOK
  <1>2. wpc' \in {"resolve", "dead", "advise"} /\ faults' \in 0..MaxFaults
    <2>0. faults \in 0..MaxFaults
      BY DEF WorkerInv, DepsTypeOK
    <2>1. CASE ResolveNext
      <3> DEFINE ask == Head(todo)
      <3>1. CASE UNCHANGED <<wpc, faults>>
        BY <1>1, <2>0, <3>1
      <3>2. CASE \E ok \in BOOLEAN :
                   /\ get_dependency_versions(ask.dep.registry, ask.dep.name, ok)
                   /\ ResolveWithVersions(ask, ok)
        <4>1. PICK ok \in BOOLEAN :
                   /\ get_dependency_versions(ask.dep.registry, ask.dep.name, ok)
                   /\ ResolveWithVersions(ask, ok)
          BY <3>2
        <4>2. faults' \in 0..MaxFaults
          BY <2>0, <4>1, CopiesFaults
        <4>3. wpc' \in {"resolve", "dead"}
          BY <1>1, <4>1 DEF ResolveWithVersions
        <4> QED BY <4>2, <4>3
      <3> QED BY <2>1, <3>1, <3>2 DEF ResolveNext
    <2>2. CASE PopDirty \/ CloseEnds
      BY <1>1, <2>0, <2>2 DEF PopDirty, CloseEnds
    <2> QED BY <2>1, <2>2
  <1>3. DepsTypeOK'
    BY <1>1, <1>2 DEF WorkerInv, DepsTypeOK
  <1>4. MailInv'
    BY <1>1, QuietStep DEF WorkerInv, MailInv
  <1> QED BY <1>1, <1>2, <1>3, <1>4 DEF WorkerInv

LEMMA CheckCrateStep ==
    ASSUME WorkerInv, check_crate
    PROVE  WorkerInv'
  <1>0. wpc = "advise" /\ mails = << >> /\ faults \in 0..MaxFaults /\ db \subseteq published
    BY DEF check_crate, WorkerInv, DepsTypeOK
  <1>1. PICK ok \in BOOLEAN :
         /\ IF ResolvedVersions(graph) = {} THEN ok = TRUE /\ UNCHANGED <<rustsec, db, faults>>
            ELSE update_data(ok)
         /\ IF ok
            THEN /\ found' = [outdated |-> HasOutdated(graph, Directs[current]),
                              cves |-> Vulnerable(graph, db')]
                 /\ wpc' = "record"
                 /\ UNCHANGED <<jobs, current, graph, todo, mails>>
            ELSE AbortRound
    BY DEF check_crate
  <1>2. UNCHANGED <<copies, published, precached, analysis, told, unsent>>
    BY DEF check_crate
  <1>3. faults' \in 0..MaxFaults /\ db' \subseteq published'
    BY <1>0, <1>1, <1>2, AdvisoriesType
  <1>4. CASE ok
    <2>1. found' \in FlagSet
      <3>1. HasOutdated(graph, Directs[current]) \in BOOLEAN
        BY Zenon DEF HasOutdated
      <3>2. Vulnerable(graph, db') \in BOOLEAN
        BY Zenon DEF Vulnerable
      <3>3. found' = [outdated |-> HasOutdated(graph, Directs[current]), cves |-> Vulnerable(graph, db')]
        BY <1>1, <1>4
      <3>4. \A o, c \in BOOLEAN : [outdated |-> o, cves |-> c] \in FlagSet
        BY DEF FlagSet
      <3> QED BY <3>1, <3>2, <3>3, <3>4, Zenon
    <2>2. wpc' = "record" /\ UNCHANGED <<jobs, current, mails>>
      BY <1>1, <1>4
    <2>3. DepsTypeOK'
      BY <1>0, <1>3, <2>2 DEF WorkerInv, DepsTypeOK
    <2>4. MailInv'
      BY <1>0, <1>2, <2>1, <2>2, QuietStep DEF WorkerInv, MailInv
    <2> QED BY <2>2, <2>3, <2>4 DEF WorkerInv
  <1>5. CASE ~ok
    <2>1. AbortRound
      BY <1>1, <1>5
    <2> QED BY <1>0, <1>2, <1>3, <2>1, RoundEnds, NoMailLeft DEF WorkerInv
  <1> QED BY <1>4, <1>5

(* Each flag that changed is mailed, or none of those to be notified did.  *)
LEMMA NotificationsType ==
    ASSUME NEW v
    PROVE  /\ Notifications(v) \in {<< >>, <<"outdated">>, <<"cves">>, <<"outdated", "cves">>}
           /\ Notifications(v) \in {<< >>, <<"cves">>} /\ NotifyOutdated => ~Changed(v, "outdated")
           /\ Notifications(v) \in {<< >>, <<"outdated">>} /\ NotifyCves => ~Changed(v, "cves")
  <1> DEFINE o == IF Changed(v, "outdated") THEN <<"outdated">> ELSE << >>
             c == IF Changed(v, "cves") THEN <<"cves">> ELSE << >>
  <1>1. ChangedKinds(v) = o \o c
    BY DEF ChangedKinds
  <1>2. CASE Changed(v, "outdated") /\ Changed(v, "cves")
    <2>1. <<"outdated">> \o <<"cves">> = <<"outdated", "cves">>
      <3> DEFINE s == <<"outdated">>  t == <<"cves">>
                    Names == {"outdated", "cves"}  u == <<"outdated", "cves">>
      <3>1. s \in Seq(Names) /\ t \in Seq(Names) /\ u \in Seq(Names)
            /\ Len(s) = 1 /\ Len(t) = 1 /\ Len(u) = 2 /\ s[1] = "outdated" /\ t[1] = "cves"
            /\ u[1] = "outdated" /\ u[2] = "cves"
        OBVIOUS
      <3> HIDE DEF s, t, u, Names
      <3>2. /\ s \o t \in Seq(Names) /\ Len(s \o t) = Len(s) + Len(t)
            /\ \A i \in 1..Len(s) + Len(t) :
                  (s \o t)[i] = IF i <= Len(s) THEN s[i] ELSE t[i - Len(s)]
        BY <3>1, ConcatProperties, Zenon
      <3>3. Len(s \o t) = 2 /\ (s \o t)[1] = u[1] /\ (s \o t)[2] = u[2]
        BY <3>1, <3>2
      <3>4. \A i \in 1..2 : (s \o t)[i] = u[i]
        BY <3>3
      <3>5. s \o t = u
        BY <3>1, <3>2, <3>3, <3>4, SeqEqual
      <3> QED BY <3>5 DEF s, t, u
    <2>2. ChangedKinds(v) = <<"outdated", "cves">>
      BY <1>1, <1>2, <2>1
    <2> QED BY <1>2, <2>2 DEF Notifications
  <1>3. CASE Changed(v, "outdated") /\ ~Changed(v, "cves")
    <2>1. ChangedKinds(v) = <<"outdated">>
      BY <1>1, <1>3
    <2> QED BY <1>3, <2>1 DEF Notifications
  <1>4. CASE ~Changed(v, "outdated") /\ Changed(v, "cves")
    <2>1. ChangedKinds(v) = <<"cves">>
      BY <1>1, <1>4
    <2> QED BY <1>4, <2>1 DEF Notifications
  <1>5. CASE ~Changed(v, "outdated") /\ ~Changed(v, "cves")
    BY <1>5 DEF Notifications
  <1> QED BY <1>2, <1>3, <1>4, <1>5

LEMMA RecordStep ==
    ASSUME WorkerInv, set_crate_deps_analysis
    PROVE  WorkerInv'
  <1>1. /\ wpc = "record" /\ mails = << >> /\ UNCHANGED <<dataVars, faults, told, unsent>>
        /\ current \in Versions
    BY DEF set_crate_deps_analysis, WorkerInv, DepsTypeOK
  <1>2. CASE current \in present
    <2>1. /\ analysis' = [analysis EXCEPT ![current] =
                             [recent |-> TRUE, outdated |-> found.outdated, cves |-> found.cves]]
          /\ mails' = Notifications(current)
          /\ IF mails' = << >> THEN wpc' = "end" ELSE wpc' = "owners"
          /\ UNCHANGED <<jobs, current, found>>
      BY <1>2 DEF set_crate_deps_analysis
    <2>2. DepsTypeOK'
      BY <1>1, <2>1 DEF WorkerInv, DepsTypeOK, dataVars
    <2>3. MailInv'
      <3>1. /\ analysis'[current].outdated = found.outdated
            /\ analysis'[current].cves = found.cves
            /\ \A v \in Versions \ {current} : analysis'[v] = analysis[v]
            /\ analysis' \in [Versions -> [recent : BOOLEAN, outdated : BOOLEAN, cves : BOOLEAN]]
        BY <1>1, <2>1 DEF WorkerInv, MailInv, FlagSet
      <3>2. /\ mails' \in {<< >>, <<"outdated">>, <<"cves">>, <<"outdated", "cves">>}
            /\ mails' \in {<< >>, <<"cves">>} /\ NotifyOutdated => found.outdated = analysis[current].outdated
            /\ mails' \in {<< >>, <<"outdated">>} /\ NotifyCves => found.cves = analysis[current].cves
        BY <2>1, NotificationsType DEF Changed
      <3>3. \A v \in Versions \ unsent : Told(v)
        BY <1>1 DEF WorkerInv, MailInv
      <3>4. ASSUME NEW v \in Versions \ unsent, v # current \/ mails' = << >>
            PROVE  Told(v)'
        <4>1. CASE v # current
          BY <1>1, <3>1, <3>3, <3>4, <4>1 DEF Told
        <4>2. CASE v = current /\ mails' = << >>
          BY <1>1, <3>1, <3>2, <3>3, <4>2 DEF Told
        <4> QED BY <3>4, <4>1, <4>2
      <3>5. current \notin unsent =>
              /\ mails' = <<"cves">> /\ NotifyOutdated =>
                    told'[current].outdated = analysis'[current].outdated
              /\ mails' = <<"outdated">> /\ NotifyCves =>
                    told'[current].cves = analysis'[current].cves
        BY <1>1, <3>1, <3>2, <3>3 DEF Told
      <3>6. told' \in [Versions -> FlagSet] /\ found' \in FlagSet
        BY <1>1, <2>1 DEF WorkerInv, MailInv
      <3> QED BY <1>1, <2>1, <3>1, <3>2, <3>4, <3>5, <3>6 DEF MailInv
    <2> QED BY <2>1, <2>2, <2>3 DEF WorkerInv
  <1>3. CASE current \notin present
    <2>1. AbortRound /\ UNCHANGED analysis
      BY <1>3 DEF set_crate_deps_analysis
    <2>2. db' \subseteq published' /\ faults' \in 0..MaxFaults
      BY <1>1 DEF WorkerInv, DepsTypeOK, dataVars
    <2> QED BY <1>1, <2>1, <2>2, RoundEnds, NoMailLeft DEF WorkerInv
  <1> QED BY <1>2, <1>3

LEMMA OwnersStep ==
    ASSUME WorkerInv, get_crate_owners
    PROVE  WorkerInv'
  <1>1. /\ wpc = "owners" /\ UNCHANGED <<dataVars, analysis, faults, told>>
    BY DEF get_crate_owners
  <1>2. db' \subseteq published' /\ faults' \in 0..MaxFaults
    BY <1>1 DEF WorkerInv, DepsTypeOK, dataVars
  <1>3. CASE wpc' = "mail" /\ UNCHANGED <<jobs, current, graph, todo, found, mails, unsent>>
    <2>1. DepsTypeOK'
      BY <1>1, <1>2, <1>3 DEF WorkerInv, DepsTypeOK
    <2>2. MailInv'
      BY <1>1, <1>3, QuietStep DEF WorkerInv, MailInv
    <2> QED BY <1>3, <2>1, <2>2 DEF WorkerInv
  <1>4. CASE AbortRound /\ unsent' = unsent \cup {current}
    BY <1>1, <1>2, <1>4, RoundEnds, NoMailLeft DEF WorkerInv
  <1> QED BY <1>3, <1>4 DEF get_crate_owners

LEMMA MailStep ==
    ASSUME WorkerInv, send_email
    PROVE  WorkerInv'
  <1>1. /\ wpc = "mail" /\ mails # << >> /\ UNCHANGED <<dataVars, analysis>>
        /\ faults' \in 0..MaxFaults
    BY Faults DEF send_email, WorkerInv, DepsTypeOK
  <1>2. db' \subseteq published'
    BY <1>1 DEF WorkerInv, DepsTypeOK, dataVars
  <1>3. CASE NoFault
             /\ told' = [told EXCEPT ![current][Head(mails)] = found[Head(mails)]]
             /\ mails' = Tail(mails)
             /\ (IF mails' = << >> THEN wpc' = "end" ELSE UNCHANGED wpc)
             /\ UNCHANGED <<jobs, current, graph, todo, found, unsent>>
    <2>1. DepsTypeOK'
      BY <1>1, <1>2, <1>3 DEF WorkerInv, DepsTypeOK
    <2>2. MailInv'
      <3>1. /\ current \in Versions
            /\ found.outdated = analysis[current].outdated /\ found.cves = analysis[current].cves
        BY <1>1 DEF WorkerInv, MailInv
      <3>2. CASE mails = <<"outdated", "cves">>
        <4>1. Head(mails) = "outdated" /\ mails' = <<"cves">>
          BY <1>3, <3>2
        <4>2. told' = [told EXCEPT ![current]["outdated"] = found["outdated"]]
          BY <1>3, <4>1
        <4>3. /\ told' \in [Versions -> FlagSet] /\ told'[current].outdated = analysis[current].outdated
              /\ \A v \in Versions \ {current} : told'[v] = told[v]
          BY <3>1, <4>2 DEF WorkerInv, MailInv, FlagSet
        <4>4. \A v \in Versions \ unsent : v # current => Told(v)'
          BY <1>1, <4>3 DEF WorkerInv, MailInv, Told
        <4>5. mails' # << >> /\ mails' # <<"outdated">>
          BY <4>1
        <4> QED BY <1>1, <1>3, <3>1, <4>1, <4>3, <4>4, <4>5 DEF WorkerInv, MailInv
      <3>3. CASE mails = <<"outdated">>
        <4>1. Head(mails) = "outdated" /\ mails' = << >>
          BY <1>3, <3>3
        <4>2. told' = [told EXCEPT ![current]["outdated"] = found["outdated"]]
          BY <1>3, <4>1
        <4> QED BY <1>1, <1>3, <3>1, <3>3, <4>1, <4>2 DEF WorkerInv, MailInv, FlagSet, Told
      <3>4. CASE mails = <<"cves">>
        <4>1. Head(mails) = "cves" /\ mails' = << >>
          BY <1>3, <3>4
        <4>2. told' = [told EXCEPT ![current]["cves"] = found["cves"]]
          BY <1>3, <4>1
        <4> QED BY <1>1, <1>3, <3>1, <3>4, <4>1, <4>2 DEF WorkerInv, MailInv, FlagSet, Told
      <3> QED BY <1>1, <3>2, <3>3, <3>4 DEF WorkerInv, MailInv
    <2> QED BY <1>1, <1>3, <2>1, <2>2 DEF WorkerInv
  <1>4. CASE AbortRound /\ unsent' = unsent \cup {current} /\ UNCHANGED told
    BY <1>1, <1>2, <1>4, RoundEnds, NoMailLeft DEF WorkerInv
  <1> QED BY <1>3, <1>4 DEF send_email

LEMMA EndsStep ==
    ASSUME WorkerInv, RecordTimesOut \/ JobEnds
    PROVE  WorkerInv'
  <1>1. /\ wpc \in {"record", "end"} /\ mails = << >> /\ (AbortRound \/ EndJob)
        /\ UNCHANGED <<dataVars, analysis, faults, told, unsent>>
    BY DEF RecordTimesOut, JobEnds, WorkerInv, DepsTypeOK
  <1>2. db' \subseteq published' /\ faults' \in 0..MaxFaults
    BY <1>1 DEF WorkerInv, DepsTypeOK, dataVars
  <1>3. /\ jobs' \in Seq(Versions) /\ (wpc' = "job" => jobs' # << >>) /\ DepsTypeOK'
        /\ mails' = << >> /\ found' \in FlagSet
    BY <1>1, <1>2, RoundEnds DEF WorkerInv
  <1>4. MailInv'
    BY <1>1, <1>3, NoMailLeft DEF WorkerInv
  <1> QED BY <1>3, <1>4 DEF WorkerInv

(* What happens around the worker.                                         *)
LEMMA AroundStep ==
    ASSUME WorkerInv, precache_crate_io \/ TimePasses \/ AdvisoryPublished
    PROVE  WorkerInv'
  <1>1. UNCHANGED <<workerVars, told, unsent>>
    BY DEF precache_crate_io, TimePasses, AnalysisExpires, CopyExpires, RustsecExpires, AdvisoryPublished
  <1>2. /\ analysis' \in [Versions -> [recent : BOOLEAN, outdated : BOOLEAN, cves : BOOLEAN]]
        /\ \A v \in Versions : /\ analysis'[v].outdated = analysis[v].outdated
                              /\ analysis'[v].cves = analysis[v].cves
    <2>1. CASE \E v \in Versions : AnalysisExpires(v)
      <3>1. PICK v \in Versions : analysis' = [analysis EXCEPT ![v].recent = FALSE]
        BY <2>1 DEF AnalysisExpires
      <3>2. analysis \in [Versions -> [recent : BOOLEAN, outdated : BOOLEAN, cves : BOOLEAN]]
        BY DEF WorkerInv, MailInv
      <3> QED BY <3>1, <3>2
    <2>2. CASE UNCHANGED analysis
      BY <2>2 DEF WorkerInv, MailInv
    <2> QED BY <2>1, <2>2 DEF precache_crate_io, TimePasses, CopyExpires, RustsecExpires, AdvisoryPublished
  <1>3. MailInv'
    BY <1>1, <1>2, QuietStep DEF workerVars, WorkerInv, MailInv
  <1>4. faults' \in 0..MaxFaults /\ db' \subseteq published'
    <2>0. faults \in 0..MaxFaults /\ db \subseteq published
      BY DEF WorkerInv, DepsTypeOK
    <2>1. CASE precache_crate_io
      <3>1. UNCHANGED <<db, published>> /\ (Fault \/ NoFault)
        BY <2>1 DEF precache_crate_io, get_dependency_info_git
      <3> QED BY <2>0, <3>1, Faults
    <2>2. CASE TimePasses
      BY <2>0, <2>2 DEF TimePasses, AnalysisExpires, CopyExpires, RustsecExpires, dataVars
    <2>3. CASE AdvisoryPublished
      BY <2>0, <2>3 DEF AdvisoryPublished
    <2> QED BY <2>1, <2>2, <2>3
  <1>5. DepsTypeOK'
    BY <1>1, <1>4 DEF workerVars, WorkerInv, DepsTypeOK
  <1> QED BY <1>1, <1>3, <1>5 DEF workerVars, WorkerInv

LEMMA DepsStep ==
    ASSUME IInv, DepsNext
    PROVE  WorkerInv'
  <1>1. WorkerInv
    BY DEF IInv
  <1>2. CASE WorkerNext
    BY <1>1, <1>2, TickStep, StartJobStep, GraphStep, CheckCrateStep, RecordStep, OwnersStep,
       MailStep, EndsStep DEF WorkerNext
  <1>3. CASE precache_crate_io \/ TimePasses \/ AdvisoryPublished
    BY <1>1, <1>3, AroundStep
  <1> QED BY <1>2, <1>3 DEF DepsNext

-----------------------------------------------------------------------------
(* A restart                                                               *)

LEMMA RestartStep ==
    ASSUME IInv, Restart
    PROVE  IInv'
  <1>1. QueueInv'
    <2>1. requests' \in [Requests -> Asked]
      <3>1. requests \in [Requests -> Asked]
        BY DEF IInv, QueueInv
      <3>2. \A r \in Requests : [requests[r] EXCEPT !.pc = "done"] \in Asked
        BY <3>1 DEF Asked, Steps
      <3> QED BY <3>1, <3>2 DEF Restart
    <2>2. /\ channel' = << >> /\ batch' = << >> /\ writer' = NoOne /\ readers' = {}
          /\ present' = present
      BY DEF Restart
    <2> QED BY <2>1, <2>2 DEF IInv, QueueInv, EventsTypeOK
  <1>5. CountInv' /\ CountedOnce'
    BY CountsKept, RestartPlaces DEF Restart, IInv, QueueInv
  <1>0. GraphInv'
    <2>1. CASE wpc = "off"
      <3>1. UNCHANGED workerVars
        BY <2>1 DEF Restart
      <3> QED BY <3>1, GraphLeft DEF IInv, workerVars
    <2>2. CASE wpc # "off"
      <3>1. graph' = NewGraph({}) /\ todo' = << >> /\ wpc' = "idle"
        BY <2>2 DEF Restart, AbortRound, Forget
      <3> QED BY <3>1, GraphForgotten
    <2> QED BY <2>1, <2>2
  <1>2. /\ UNCHANGED <<published, analysis, told>> /\ db' = {} /\ faults' \in 0..MaxFaults
        /\ unsent' = IF mails = << >> THEN unsent ELSE unsent \cup {current}
    BY Faults DEF Restart, IInv, WorkerInv, DepsTypeOK
  <1>3. CASE wpc = "off"
    <2>1. UNCHANGED workerVars
      BY <1>3 DEF Restart
    <2>2. mails = << >>
      BY <1>3 DEF IInv, WorkerInv, DepsTypeOK
    <2>3. DepsTypeOK'
      BY <1>2, <2>1 DEF IInv, WorkerInv, DepsTypeOK, workerVars
    <2>4. MailInv'
      BY <1>2, <2>1, <2>2, QuietStep DEF IInv, WorkerInv, MailInv, workerVars
    <2> QED BY <1>0, <1>1, <1>5, <2>1, <2>3, <2>4 DEF IInv, WorkerInv, workerVars
  <1>4. CASE wpc # "off"
    <2>1. AbortRound
      BY <1>4 DEF Restart
    <2>2. /\ jobs' \in Seq(Versions) /\ (wpc' = "job" => jobs' # << >>) /\ DepsTypeOK'
          /\ mails' = << >> /\ found' \in FlagSet
      BY <1>2, <2>1, RoundEnds DEF IInv, WorkerInv
    <2>3. MailInv'
      BY <1>2, <2>2, NoMailLeft DEF IInv, WorkerInv
    <2> QED BY <1>0, <1>1, <1>5, <2>2, <2>3 DEF IInv, WorkerInv
  <1> QED BY <1>3, <1>4

-----------------------------------------------------------------------------
(* The theorems                                                            *)

(* The invariant holds, with any interleaving of the requests, the handler *)
(* of the events and the worker, whatever fails, and over restarts         *)
(* (application.rs:132, services/deps.rs:106).                             *)
THEOREM Invariance == Spec => []IInv
  <1>1. IInv /\ [Next]_vars => IInv'
    <2> SUFFICES ASSUME IInv, [Next]_vars PROVE IInv'
      OBVIOUS
    <2>1. CASE EventsNext /\ UNCHANGED depsVars
      <3>1. QueueInv'
        BY <2>1, EventsStep DEF IInv
      <3>2. WorkerInv'
        BY <2>1 DEF depsVars, workerVars, dataVars, IInv, WorkerInv, DepsTypeOK, MailInv, Told
      <3>3. GraphInv'
        BY <2>1, GraphLeft DEF depsVars, workerVars, IInv
      <3>4. CountInv' /\ CountedOnce'
        <4>1. \A r \in Requests : requests[r].version \in Versions
          BY DEF IInv, QueueInv, Asked
        <4> QED BY <2>1, <4>1, EventsCountStep, EventsPlacesStep DEF IInv, QueueInv
      <3> QED BY <3>1, <3>2, <3>3, <3>4 DEF IInv
    <2>2. CASE DepsNext /\ UNCHANGED <<eventVars, writer, readers, present>>
      <3>1. QueueInv'
        BY <2>2 DEF eventVars, IInv, QueueInv, EventsTypeOK
      <3>2. GraphInv'
        BY <2>2, DepsGraphStep DEF IInv, WorkerInv
      <3>3. CountInv' /\ CountedOnce'
        BY <2>2, CountsKept DEF eventVars, IInv, CountedOnce
      <3> QED BY <2>2, <3>1, <3>2, <3>3, DepsStep DEF IInv
    <2>3. CASE Restart
      BY <2>3, RestartStep
    <2>4. CASE UNCHANGED vars
      <3>1. QueueInv' /\ WorkerInv'
        BY <2>4 DEF vars, eventVars, depsVars, workerVars, dataVars, IInv, QueueInv, EventsTypeOK,
                    WorkerInv, DepsTypeOK, MailInv, Told
      <3>2. GraphInv'
        BY <2>4, GraphLeft DEF vars, depsVars, workerVars, IInv
      <3>3. CountInv' /\ CountedOnce'
        BY <2>4, CountsKept DEF vars, eventVars, IInv, CountedOnce
      <3> QED BY <3>1, <3>2, <3>3 DEF IInv
    <2> QED BY <2>1, <2>2, <2>3, <2>4 DEF Next
  <1> QED BY InitInvariant, <1>1, PTL DEF Spec

(* A connection is only held by a request in its transaction, and there    *)
(* are never more events than there is room for (utils/db.rs:22,           *)
(* application.rs:61).                                                     *)
THEOREM TypeCorrect == Spec => []TypeOK
  <1>1. IInv => TypeOK
    BY DEF IInv, QueueInv, WorkerInv, TypeOK
  <1> QED BY Invariance, <1>1, PTL

(* Between two rounds the owners of a version know of its flags, those to  *)
(* be notified, unless a mail of it could not be sent                      *)
(* (services/deps.rs:144).                                                 *)
THEOREM Mailed == Spec => []ChangesAreMailed
  <1>1. IInv => ChangesAreMailed
    <2> SUFFICES ASSUME IInv, wpc = "idle", NEW v \in present \ unsent PROVE Told(v)
      BY DEF ChangesAreMailed
    <2>1. mails = << >> /\ v \in Versions \ unsent
      BY DEF IInv, QueueInv, EventsTypeOK, WorkerInv, DepsTypeOK
    <2> QED BY <2>1 DEF IInv, WorkerInv, MailInv
  <1> QED BY Invariance, <1>1, PTL

(* Whenever the advisories are asked for, every dependency that is active  *)
(* has its place in the graph, with the features and the origins that      *)
(* reach it, whatever the indices list, in whatever order the dirty        *)
(* resolutions are visited and whichever registry failed                   *)
(* (model/deps.rs:232).                                                    *)
THEOREM Closed == Spec => []GraphIsClosed
  <1>1. IInv => GraphIsClosed
    BY ClosedWhenDone DEF IInv
  <1> QED BY Invariance, <1>1, PTL

(* The series of the packages add up to the downloads of the registry, and *)
(* their last day holds the downloads counted today, for any versions and  *)
(* packages, however many versions a package has beyond those listed one   *)
(* by one, any length of the series and of the year, whatever days pass    *)
(* and over restarts (packages.rs:667, stats.rs:86).                       *)
THEOREM SeriesAgree == Spec => []SeriesAgrees
  <1>1. IInv => SeriesAgrees
    BY CountsAgree DEF IInv, QueueInv, EventsTypeOK
  <1> QED BY Invariance, <1>1, PTL

(* Every download that was answered is in exactly one place: the counter   *)
(* of its version, the channel, the batch, or what a failed batch or a     *)
(* restart lost; none is counted twice, and a batch is counted or given up *)
(* as a whole.  It is why DownloadsCounted only has to wait for the        *)
(* channel and the batch to empty (application.rs:188).                    *)
THEOREM NoneCountedTwice == Spec => []CountedOnce
  <1> QED BY Invariance, PTL DEF IInv
=============================================================================
