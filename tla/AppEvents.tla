----------------------------- MODULE AppEvents ------------------------------
(***************************************************************************)
(* The events of the application and the counters of downloads             *)
(* (src/src/application.rs, src/src/model/stats.rs, the counters of        *)
(* src/src/services/database/packages.rs).                                 *)
(*                                                                         *)
(* A request with a token sends the use of the token to a bounded channel  *)
(* in the middle of its transaction, a download sends itself once it was   *)
(* served.  One task takes the events off the channel in batches, each     *)
(* applied in one write transaction.                                       *)
(***************************************************************************)
EXTENDS Database, Integers, Sequences, SequencesExt

CONSTANTS Requests,      \* the requests served concurrently
          Capacity,      \* the capacity of the channel (64)
          BufferSize,    \* the most events of a batch (16)
          SeriesLength,  \* the days of a series (90)
          DaysInYear,    \* how many days pass before ordinal0 is 0 again
          Kept           \* how many versions a series lists before "Others" (4)

ASSUME RequestsAssumption == NoOne \notin Requests
ASSUME CapacityAssumption == Capacity \in Nat \ {0} /\ BufferSize \in Nat \ {0}
ASSUME SeriesAssumption == SeriesLength \in Nat \ {0} /\ DaysInYear \in Nat \ {0} /\ Kept \in Nat

VARIABLES
    requests,  \* what each request asks and where it is
    channel,   \* the events sent and not received
    batch,     \* the events received and not handled
    count,     \* PackageVersion.downloadCount
    slots,     \* PackageVersion.downloads, one slot for each day of the series
    ordinal,   \* the day of the year
    days,      \* bound: how many days may still pass
    served,    \* ghost: how many downloads of a version were answered
    lost,      \* ghost: how many of them were in a batch given up
    today      \* ghost: how many were counted today

eventVars == <<requests, channel, batch, count, slots, ordinal, days, served, lost, today>>

TokenUse == [kind |-> "TokenUse"]
CrateDownload(v) == [kind |-> "CrateDownload", version |-> v]
Event == {TokenUse} \cup {CrateDownload(v) : v \in Versions}

Zero == [v \in Versions |-> 0]

Asks == [op : {"download", "remove"}, version : Versions, token : BOOLEAN]

Request(ask, pc) == [op |-> ask.op, version |-> ask.version, token |-> ask.token, pc |-> pc]

EventsInit ==
    /\ channel = << >> /\ batch = << >>
    /\ count = Zero /\ served = Zero /\ lost = Zero /\ today = Zero
    /\ slots = [v \in Versions |-> [i \in 0..SeriesLength - 1 |-> 0]]

-----------------------------------------------------------------------------
(* Requests                                                                *)

At(r, pc) == requests[r].pc = pc
Goto(r, pc) == requests' = [requests EXCEPT ![r].pc = pc]

(* A slot of the channel is free, or the sender waits.                     *)
Send(event) == Len(channel) < Capacity /\ channel' = Append(channel, event)

(* A request arrives.                                                      *)
Begin(r) ==
    /\ At(r, "idle")
    /\ Goto(r, "connect")
    /\ UNCHANGED <<channel, batch, count, slots, ordinal, days, served, lost, today, writer, readers, present>>

(* A download runs in a read transaction, a removal in a write one.        *)
Connect(r) ==
    /\ At(r, "connect")
    /\ \/ requests[r].op = "download" /\ acquire_read(r) /\ UNCHANGED writer
       \/ requests[r].op = "remove" /\ acquire_write(r) /\ UNCHANGED readers
    /\ Goto(r, "authenticate")
    /\ UNCHANGED <<channel, batch, count, slots, ordinal, days, served, lost, today, present>>

ConnectTimesOut(r) ==
    /\ At(r, "connect")
    /\ IF requests[r].op = "download" THEN ReadTimesOut ELSE WriteTimesOut
    /\ Goto(r, "done")
    /\ UNCHANGED <<channel, batch, count, slots, ordinal, days, served, lost, today, writer, readers, present>>

(* A mutated form: the channel has no bound, and a send never waits.       *)
X_authenticate_token_Unbounded(r) ==
    /\ At(r, "authenticate")
    /\ IF requests[r].token THEN channel' = Append(channel, TokenUse) ELSE UNCHANGED channel
    /\ Goto(r, "work")
    /\ UNCHANGED <<batch, count, slots, ordinal, days, served, lost, today, writer, readers, present>>

(* The use of a token is sent before the transaction goes on; a cookie, or *)
(* a public download, leaves no trace.                                     *)
authenticate_token(r) ==
    /\ At(r, "authenticate")
    /\ IF requests[r].token THEN Send(TokenUse) ELSE UNCHANGED channel
    /\ Goto(r, "work")
    /\ UNCHANGED <<batch, count, slots, ordinal, days, served, lost, today, writer, readers, present>>

(* The transaction of a download only checks that the version exists.      *)
CheckCrateExists(r) ==
    /\ At(r, "work") /\ requests[r].op = "download"
    /\ Release(r)
    /\ Goto(r, IF requests[r].version \in present THEN "serve" ELSE "done")
    /\ UNCHANGED <<channel, batch, count, slots, ordinal, days, served, lost, today, present>>

(* The row goes, with its counters.                                        *)
RemoveCrateVersion(r) ==
    /\ At(r, "work") /\ requests[r].op = "remove"
    /\ present' = present \ {requests[r].version}
    /\ Release(r)
    /\ Goto(r, "done")
    /\ UNCHANGED <<channel, batch, count, slots, ordinal, days, served, lost, today>>

(* The content was read: the download is answered once its event is sent.  *)
ServeContent(r) ==
    /\ At(r, "serve")
    /\ Send(CrateDownload(requests[r].version))
    /\ served' = [served EXCEPT ![requests[r].version] = @ + 1]
    /\ Goto(r, "done")
    /\ UNCHANGED <<batch, count, slots, ordinal, days, lost, today, writer, readers, present>>

(* The client leaves: its request is dropped where it waits, and what it   *)
(* holds is given back.                                                    *)
Disconnect(r) ==
    /\ requests[r].pc \in {"connect", "authenticate", "serve"}
    /\ Release(r)
    /\ Goto(r, "done")
    /\ UNCHANGED <<channel, batch, count, slots, ordinal, days, served, lost, today, present>>

-----------------------------------------------------------------------------
(* The handler of the events                                               *)

(* At most BufferSize of the events there are, oldest first.               *)
Receive ==
    /\ batch = << >> /\ channel # << >>
    /\ LET n == IF Len(channel) < BufferSize THEN Len(channel) ELSE BufferSize
       IN  /\ batch' = SubSeq(channel, 1, n)
           /\ channel' = SubSeq(channel, n + 1, Len(channel))
    /\ UNCHANGED <<requests, count, slots, ordinal, days, served, lost, today, writer, readers, present>>

DownloadsIn(events, v) == Cardinality({i \in DOMAIN events : events[i] = CrateDownload(v)})

(* The batch is given up with every download in it.                        *)
GiveUp ==
    /\ lost' = [v \in Versions |-> lost[v] + DownloadsIn(batch, v)]
    /\ UNCHANGED <<count, slots, today>>

(* Of each download, the counter of the version and the slot of the day    *)
(* take one more; a slot is never emptied.                                 *)
IncrementAll(versions) ==
    /\ count' = [v \in Versions |->
                    count[v] + IF v \in versions THEN DownloadsIn(batch, v) ELSE 0]
    /\ slots' = [v \in Versions |->
                    [slots[v] EXCEPT ![ordinal % SeriesLength] =
                        @ + IF v \in versions THEN DownloadsIn(batch, v) ELSE 0]]
    /\ today' = [v \in Versions |->
                    today[v] + IF v \in versions THEN DownloadsIn(batch, v) ELSE 0]

(* One transaction for the whole batch: an event of a version that is no   *)
(* more fails, and the others are rolled back with it.                     *)
HandleApplies ==
    IF \A v \in Versions : DownloadsIn(batch, v) > 0 => v \in present
    THEN IncrementAll(Versions) /\ UNCHANGED lost
    ELSE GiveUp

(* Without the transaction, the events of the other versions are kept.     *)
X_events_handler_handle_NoRollback ==
    /\ batch # << >>
    /\ writer = NoOne
    /\ IF \A v \in Versions : DownloadsIn(batch, v) > 0 => v \in present
       THEN IncrementAll(Versions) /\ UNCHANGED lost
       ELSE /\ IncrementAll(present)
            /\ lost' = [v \in Versions |-> lost[v] + DownloadsIn(batch, v)]
    /\ batch' = << >>
    /\ UNCHANGED <<requests, channel, ordinal, days, served, writer, readers, present>>

(* The handler takes the write connection, and nothing makes it wait       *)
(* before it gives it back; the batch is cleared whatever comes of it.     *)
events_handler_handle ==
    /\ batch # << >>
    /\ writer = NoOne
    /\ HandleApplies
    /\ batch' = << >>
    /\ UNCHANGED <<requests, channel, ordinal, days, served, writer, readers, present>>

X_HandlerTimesOut_Retries ==
    /\ batch # << >>
    /\ WriteTimesOut
    /\ UNCHANGED <<eventVars, writer, readers, present>>

HandlerTimesOut ==
    /\ batch # << >>
    /\ WriteTimesOut
    /\ GiveUp
    /\ batch' = << >>
    /\ UNCHANGED <<requests, channel, ordinal, days, served, writer, readers, present>>

NextDay ==
    /\ days > 0 /\ days' = days - 1
    /\ ordinal' = (ordinal + 1) % DaysInYear
    /\ today' = Zero
    /\ UNCHANGED <<requests, channel, batch, count, slots, served, lost, writer, readers, present>>

-----------------------------------------------------------------------------
(* Reading the statistics                                                  *)

X_add_version_FromToday(v) ==
    [counts |-> [k \in 1..SeriesLength |-> slots[v][(ordinal + k - 1) % SeriesLength]],
     total |-> SumFunction(slots[v])]

(* The slots are read from the one after today's, round to today's.        *)
add_version(v) ==
    [counts |-> [k \in 1..SeriesLength |-> slots[v][(ordinal + k) % SeriesLength]],
     total |-> SumFunction(slots[v])]

(* Beyond the first ones, the versions are added up into one.              *)
finalize(stats) ==
    LET others == SubSeq(stats, Kept + 1, Len(stats))
        all    == [counts |-> [k \in 1..SeriesLength |->
                                 SumFunction([i \in DOMAIN others |-> others[i].counts[k]])],
                   total |-> SumFunction([i \in DOMAIN others |-> others[i].total])]
    IN  IF Len(stats) > Kept THEN Append(SubSeq(stats, 1, Kept), all) ELSE stats

(* The rows of a package, in the order of semver: the first n of Order     *)
(* give the n-th list.                                                     *)
RowsAmong(package) ==
    LET listed[n \in 0..Len(Order)] ==
            IF n = 0 THEN << >>
            ELSE IF Order[n] \in present /\ Package[Order[n]] = package
                 THEN Append(listed[n - 1], Order[n])
            ELSE listed[n - 1]
    IN  listed

get_crate_dl_stats(package) ==
    LET rows == RowsAmong(package)[Len(Order)]
    IN  finalize([i \in DOMAIN rows |-> add_version(rows[i])])

total_downloads == SumFunction([v \in present |-> count[v]])

-----------------------------------------------------------------------------

RequestNext(r) ==
    \/ Connect(r) \/ ConnectTimesOut(r) \/ authenticate_token(r)
    \/ CheckCrateExists(r) \/ RemoveCrateVersion(r) \/ ServeContent(r)

HandlerNext == Receive \/ events_handler_handle \/ HandlerTimesOut

EventsNext ==
    \/ \E r \in Requests : Begin(r) \/ RequestNext(r) \/ Disconnect(r)
    \/ HandlerNext
    \/ NextDay

(* A request goes on as soon as it can; whoever waits for a connection is  *)
(* given it or refused; the handler is a task that only ever waits for     *)
(* events and for the write connection.                                    *)
EventsFairness ==
    /\ \A r \in Requests : WF_<<eventVars, writer, readers, present>>(RequestNext(r))
    /\ WF_<<eventVars, writer, readers, present>>(HandlerNext)

-----------------------------------------------------------------------------
(* Properties                                                              *)

EventsTypeOK ==
    /\ writer \in Requests \cup {NoOne} /\ readers \subseteq Requests
    /\ present \subseteq Versions
    /\ Len(channel) <= Capacity /\ Len(batch) <= BufferSize
    /\ \A r \in Requests : (r = writer \/ r \in readers)
                           => requests[r].pc \in {"authenticate", "work"}

(* The series of all the packages add up to the downloads of the registry, *)
(* versions beyond the first ones included, whatever days passed, and the  *)
(* last day of the series holds the downloads counted today: the slot that *)
(* is written is the one that is read last, over the end of a year too     *)
(* (packages.rs:667, stats.rs:86).                                         *)
SeriesAgrees ==
    LET packages == {Package[v] : v \in present}
        stats    == [p \in packages |-> get_crate_dl_stats(p)]
        total(p) == SumFunction([i \in DOMAIN stats[p] |-> stats[p][i].total])
        last(p)  == SumFunction([i \in DOMAIN stats[p] |-> stats[p][i].counts[SeriesLength]])
    IN  /\ SumFunction([p \in packages |-> total(p)]) = total_downloads
        /\ \A p \in packages : \A i \in DOMAIN stats[p] : stats[p][i].total = SumFunction(stats[p][i].counts)
        /\ SumFunction([p \in packages |-> last(p)]) >= SumFunction([v \in present |-> today[v]])

(* Why: the slots of a version add up to its total, and the slot of the    *)
(* day has at least the downloads counted today.                           *)
CountInv ==
    /\ ordinal \in Nat
    /\ count \in [Versions -> Nat] /\ today \in [Versions -> Nat]
    /\ slots \in [Versions -> [0..SeriesLength - 1 -> Nat]]
    /\ \A v \in Versions :
          /\ SumFunction(slots[v]) = count[v]
          /\ today[v] <= slots[v][ordinal % SeriesLength]

(* Every request is answered or gone in the end, although it may hold the  *)
(* only write connection, or the last read one, while it waits for a slot  *)
(* of the channel that the handler only frees once it has the write        *)
(* connection (application.rs:886).                                        *)
RequestsAnswered ==
    \A r \in Requests : requests[r].pc # "idle" ~> At(r, "done")

(* In the end every download that was answered is counted exactly once,    *)
(* or was in a batch given up as a whole: none is counted twice or in part *)
(* of a batch (application.rs:188).                                        *)
DownloadsCounted ==
    <>[](\A v \in present : count[v] + lost[v] = served[v])

(* Why: a download that was answered is in one place, the counter, the     *)
(* channel, the batch or what was given up, and once, also when versions   *)
(* are removed, batches rolled back and the process starts again.          *)
CountedOnce ==
    /\ served \in [Versions -> Nat] /\ lost \in [Versions -> Nat]
    /\ \A v \in Versions :
          served[v] = count[v] + lost[v] + DownloadsIn(batch, v) + DownloadsIn(channel, v)
=============================================================================
