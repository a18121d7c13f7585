------------------------------ MODULE Services ------------------------------
(***************************************************************************)
(* The tasks that share the database of the registry, at work together:    *)
(* the requests, the handler of the events (AppEvents) and the worker of   *)
(* the dependencies (Deps).  A restart of the process keeps the database   *)
(* and the data directory, and nothing else.                               *)
(***************************************************************************)
EXTENDS AppEvents, Deps

CONSTANT Starts  \* the situations in which the process is looked at

ASSUME StartsAssumption ==
    \A start \in Starts :
        /\ start.present \subseteq Versions /\ start.asks \in [Requests -> Asks]
        /\ start.faults \in 0..MaxFaults /\ start.ordinal \in Nat

vars == <<eventVars, depsVars, writer, readers, present>>

(* The situations differ by the versions published, what the requests may  *)
(* ask, whether the analyses are activated, the advisories, the day, and   *)
(* how many days may pass and faults happen.                               *)
Init ==
    \E start \in Starts :
        /\ EventsInit /\ DepsInit
        /\ writer = NoOne /\ readers = {}
        /\ present = start.present
        /\ requests = [r \in Requests |->
                         Request(start.asks[r], IF r \in start.requests THEN "idle" ELSE "done")]
        /\ wpc = start.worker /\ published = start.published
        /\ ordinal = start.ordinal /\ days = start.days /\ faults = start.faults

(* Requests are dropped, events not handled are lost, a mail to be sent is *)
(* not; what the tasks knew of the copies on disk is forgotten.  A worker  *)
(* that was dead starts again.                                             *)
Restart ==
    /\ Fault
    /\ requests' = [r \in Requests |->
                      IF At(r, "idle") THEN requests[r] ELSE [requests[r] EXCEPT !.pc = "done"]]
    /\ channel' = << >> /\ batch' = << >>
    /\ lost' = [v \in Versions |-> lost[v] + DownloadsIn(channel \o batch, v)]
    /\ writer' = NoOne /\ readers' = {}
    /\ IF wpc = "off" THEN UNCHANGED workerVars ELSE AbortRound
    /\ unsent' = IF mails = << >> THEN unsent ELSE unsent \cup {current}
    /\ copies' = [s \in Sources |-> [copies[s] EXCEPT !.recent = FALSE]]
    /\ rustsec' = [rustsec EXCEPT !.recent = FALSE]
    /\ db' = {} /\ precached' = FALSE
    /\ UNCHANGED <<count, slots, ordinal, days, served, today, present, analysis, published, told>>

Next ==
    \/ EventsNext /\ UNCHANGED depsVars
    \/ DepsNext /\ UNCHANGED <<eventVars, writer, readers, present>>
    \/ Restart

Spec == Init /\ [][Next]_vars /\ EventsFairness /\ DepsFairness

(* The types, the connections and the channel: a connection is held by a   *)
(* request in its transaction, no more events are kept than there is room  *)
(* for (utils/db.rs:22, application.rs:61).                                *)
TypeOK ==
    /\ EventsTypeOK
    /\ DepsTypeOK

-----------------------------------------------------------------------------
(* The inductive invariant                                                 *)

Steps == {"idle", "connect", "authenticate", "work", "serve", "done"}
Asked == [op : {"download", "remove"}, version : Versions, token : BOOLEAN, pc : Steps]

(* The requests and the queues of events, with their types.                *)
QueueInv ==
    /\ requests \in [Requests -> Asked]
    /\ channel \in Seq(Event) /\ batch \in Seq(Event)
    /\ EventsTypeOK

FlagSet == [outdated : BOOLEAN, cves : BOOLEAN]

(* What the owners of a version still have to be told is in the mails of   *)
(* the version at work, which then has the flags that were found.          *)
MailInv ==
    /\ analysis \in [Versions -> [recent : BOOLEAN, outdated : BOOLEAN, cves : BOOLEAN]]
    /\ told \in [Versions -> FlagSet] /\ found \in FlagSet
    /\ mails \in {<< >>, <<"outdated">>, <<"cves">>, <<"outdated", "cves">>}
    /\ \A v \in Versions \ unsent : v # current \/ mails = << >> => Told(v)
    /\ mails # << >> =>
          /\ current \in Versions
          /\ found.outdated = analysis[current].outdated /\ found.cves = analysis[current].cves
          /\ current \notin unsent =>
                /\ mails = <<"cves">> /\ NotifyOutdated =>
                      told[current].outdated = analysis[current].outdated
                /\ mails = <<"outdated">> /\ NotifyCves =>
                      told[current].cves = analysis[current].cves

(* The worker, which has a job to take whenever it is about to take one.   *)
WorkerInv == jobs \in Seq(Versions) /\ (wpc = "job" => jobs # << >>) /\ DepsTypeOK /\ MailInv

IInv == QueueInv /\ CountInv /\ CountedOnce /\ WorkerInv /\ GraphInv
=============================================================================
