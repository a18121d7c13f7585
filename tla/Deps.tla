-------------------------------- MODULE Deps --------------------------------
(***************************************************************************)
(* The worker that analyses the dependencies of the head of each crate     *)
(* (src/src/services/deps.rs), with its copies of the indices of other     *)
(* registries, the advisories of RustSec (src/src/services/rustsec.rs),    *)
(* the flags of the versions (src/src/services/database/packages.rs) and   *)
(* the mails to the owners (src/src/services/emails.rs).                   *)
(*                                                                         *)
(* Each time the worker asks the index of a registry, the advisories, the  *)
(* database or the mail server is a step; a copy is updated and read under *)
(* its mutex, in the same step.                                            *)
(***************************************************************************)
EXTENDS Database, DepsGraph, Integers

CONSTANTS
    Deprecated,      \* the packages that are deprecated
    Unlisted,        \* the versions that are yanked or pre-releases
    Targets,         \* the targets of each version
    Host,            \* the target of this host
    Directs,         \* the dependencies of each version, as in the index
    Protocol,        \* "git" or "sparse" for each registry of the configuration
    CratesIo,        \* one of them, with the git protocol
    Catalog,         \* for each registry and crate, the versions that it lists
    Advisories,
    NotifyOutdated,  \* deps_notify_outdated
    NotifyCves,      \* deps_notify_cves
    MaxFaults        \* bound: how many times something external fails

ASSUME DepsAssumption ==
    /\ CratesIo \in DOMAIN Protocol /\ Protocol[CratesIo] = "git"
    /\ \A reg \in DOMAIN Protocol : Protocol[reg] \in {"git", "sparse"}
    /\ MaxFaults \in Nat

(* What the indices list, here and elsewhere, is made of versions and      *)
(* dependencies (IndexCrateMetadata of model/cargo.rs).                    *)
ASSUME CatalogAssumption ==
    /\ \A reg \in DOMAIN Catalog : \A name \in DOMAIN Catalog[reg] :
          /\ IsVector(Catalog[reg][name])
          /\ \A version \in Range(Catalog[reg][name]) : IsListed(version)
    /\ \A v \in Versions :
          IsVector(Directs[v]) /\ \A dep \in Range(Directs[v]) : IsDependency(dep)

VARIABLES
    wpc,        \* where the worker is
    jobs,       \* the versions left in its round
    current,    \* the version it works on
    graph,      \* the graph of the dependencies of that version
    todo,       \* the dependencies left to resolve before a dirty one is popped
    found,      \* what the analysis found: has_outdated, has_cves
    mails,      \* the mails left to send
    analysis,   \* depsLastCheck (recent or not), depsHasOutdated, depsHasCVEs
    copies,     \* the copies of the indices: on disk, and touched recently or not
    rustsec,    \* the copy of the advisories: on disk, touched recently or not
    db,         \* the advisories in memory
    published,  \* the advisories that RustSec has published
    precached,  \* whether the task that caches crates.io has ended
    faults,     \* bound: how many faults there were
    told,       \* ghost: the flags that the owners were last told of
    unsent      \* ghost: the versions for which a mail could not be sent

workerVars == <<wpc, jobs, current, graph, todo, found, mails>>
dataVars == <<copies, rustsec, db, published, precached>>
depsVars == <<workerVars, dataVars, analysis, faults, told, unsent>>

(* A git index is copied whole, a sparse one crate by crate.               *)
Source(reg, name) == IF Protocol[reg] = "git" THEN <<reg>> ELSE <<reg, name>>

Sources == UNION {{Source(reg, name) : name \in DOMAIN Catalog[reg]} : reg \in DOMAIN Protocol}

NoFlags == [outdated |-> FALSE, cves |-> FALSE]

(* The worker does nothing when deps_stale_analysis is not positive.       *)
DepsInit ==
    /\ wpc \in {"idle", "off"}
    /\ jobs = << >> /\ current = NoOne /\ graph = NewGraph({}) /\ todo = << >>
    /\ found = NoFlags /\ mails = << >>
    /\ analysis = [v \in Versions |-> [recent |-> FALSE, outdated |-> FALSE, cves |-> FALSE]]
    /\ copies = [s \in Sources |-> [dir |-> "absent", recent |-> FALSE]]
    /\ rustsec = [dir |-> "absent", recent |-> FALSE]
    /\ db = {} /\ published \in SUBSET Advisories
    /\ precached = FALSE
    /\ told = [v \in Versions |-> NoFlags] /\ unsent = {}

Fault == faults < MaxFaults /\ faults' = faults + 1
NoFault == faults' = faults

-----------------------------------------------------------------------------
(* The copies of the indices                                               *)

Lists(reg, name) == reg \in DOMAIN Catalog /\ name \in DOMAIN Catalog[reg]

(* A copy of a git index that is recent is read as it is; an older one is  *)
(* updated first.  A clone that fails leaves its directory behind, and     *)
(* nothing can be fetched into it.  The crate may not be in the index.     *)
get_dependency_info_git(reg, name, ok) ==
    LET copy == copies[<<reg>>]
    IN  \/ /\ copy.recent /\ NoFault /\ UNCHANGED copies
           /\ ok = Lists(reg, name)
        \/ /\ ~copy.recent /\ copy.dir # "broken" /\ NoFault
           /\ copies' = [copies EXCEPT ![<<reg>>] = [dir |-> "present", recent |-> TRUE]]
           /\ ok = Lists(reg, name)
        \/ /\ ~copy.recent /\ copy.dir # "broken" /\ Fault
           /\ copies' = [copies EXCEPT ![<<reg>>].dir = IF @ = "absent" THEN "broken" ELSE @]
           /\ ok = FALSE
        \/ /\ ~copy.recent /\ copy.dir = "broken" /\ NoFault /\ UNCHANGED copies
           /\ ok = FALSE

(* The copy of a crate of a sparse index is only written once it was       *)
(* obtained and understood.                                                *)
get_dependency_info_sparse(reg, name, ok) ==
    \/ /\ Lists(reg, name) /\ copies[<<reg, name>>].recent /\ NoFault /\ UNCHANGED copies
       /\ ok = TRUE
    \/ /\ Lists(reg, name) /\ ~copies[<<reg, name>>].recent /\ NoFault
       /\ copies' = [copies EXCEPT ![<<reg, name>>] = [dir |-> "present", recent |-> TRUE]]
       /\ ok = TRUE
    \/ /\ Lists(reg, name) /\ ~copies[<<reg, name>>].recent /\ Fault /\ UNCHANGED copies
       /\ ok = FALSE
    \/ /\ ~Lists(reg, name) /\ NoFault /\ UNCHANGED copies
       /\ ok = FALSE

(* Whether the versions of a crate were obtained: from the index of this   *)
(* registry, the toolchain, a registry of the configuration, or not at all *)
(* from another.                                                           *)
get_dependency_versions(reg, name, ok) ==
    CASE reg = NoRegistry -> ok = Lists(reg, name) /\ NoFault /\ UNCHANGED copies
      [] reg = Builtin    -> ok = TRUE /\ NoFault /\ UNCHANGED copies
      [] reg \in DOMAIN Protocol ->
             IF Protocol[reg] = "git" THEN get_dependency_info_git(reg, name, ok)
             ELSE get_dependency_info_sparse(reg, name, ok)
      [] OTHER            -> ok = FALSE /\ NoFault /\ UNCHANGED copies

VersionsOf(reg, name) ==
    IF reg = Builtin
    THEN << [rank |-> 1, yanked |-> FALSE, pre |-> FALSE, features |-> << >>, deps |-> << >>] >>
    ELSE Catalog[reg][name]

-----------------------------------------------------------------------------
(* The advisories                                                          *)

(* A range has a version that fixes it, or a last one, or no end (0).      *)
InRange(range, rank) ==
    /\ rank >= range.introduced
    /\ CASE range.fixed # 0         -> rank < range.fixed
         [] range.fixed = 0 /\ range.last_affected # 0 -> rank <= range.last_affected
         [] OTHER                   -> TRUE

affects(advisory, rank) ==
    rank \in advisory.versions \/ \E range \in advisory.ranges : InRange(range, rank)

(* The advisories in memory are cleared and read again when the copy was   *)
(* updated; those that cannot be read are skipped, and when the directory  *)
(* cannot be, there are none until the next update.                        *)
X_update_data_CloneOnly(ok) ==
    \/ /\ rustsec.recent /\ NoFault /\ UNCHANGED <<rustsec, db>>
       /\ ok = TRUE
    \/ /\ ~rustsec.recent /\ NoFault
       /\ rustsec' = [dir |-> "present", recent |-> TRUE]
       /\ db' = IF rustsec.dir = "absent" THEN published ELSE db
       /\ ok = TRUE

update_data(ok) ==
    \/ /\ rustsec.recent /\ NoFault /\ UNCHANGED <<rustsec, db>>
       /\ ok = TRUE
    \/ /\ ~rustsec.recent /\ rustsec.dir # "broken" /\ NoFault
       /\ rustsec' = [dir |-> "present", recent |-> TRUE]
       /\ db' = published
       /\ ok = TRUE
    \/ /\ ~rustsec.recent /\ rustsec.dir # "broken" /\ Fault
       /\ rustsec' = [dir |-> "present", recent |-> TRUE]
       /\ \/ db' \in (SUBSET published) \ {published} /\ ok = TRUE
          \/ db' = {} /\ ok = FALSE
    \/ /\ ~rustsec.recent /\ rustsec.dir # "broken" /\ Fault
       /\ rustsec' = [rustsec EXCEPT !.dir = IF @ = "absent" THEN "broken" ELSE @]
       /\ UNCHANGED db
       /\ ok = FALSE
    \/ /\ ~rustsec.recent /\ rustsec.dir = "broken" /\ NoFault /\ UNCHANGED <<rustsec, db>>
       /\ ok = FALSE

(* An advisory is against the crates of a name, whatever their registry.   *)
Vulnerable(g, advisories) ==
    \E v \in ResolvedVersions(g), a \in advisories : a.name = v.name /\ affects(a, v.rank)

-----------------------------------------------------------------------------
(* A round of the worker                                                   *)

Position(v) == SelectInSeq(Order, LAMBDA w : w = v)

(* The highest version of each package, yanked ones and pre-releases aside.*)
Heads ==
    {v \in present \ Unlisted :
        \A w \in present \ Unlisted : Package[w] = Package[v] => Position(v) <= Position(w)}

get_unanalyzed_crates ==
    {v \in Heads : Package[v] \notin Deprecated /\ ~analysis[v].recent}

(* The jobs come in the order of a hash map.                               *)
X_Tick_OneJob ==
    /\ wpc = "idle" /\ get_unanalyzed_crates # {}
    /\ Cardinality(readers) < MaxReaders
    /\ \E v \in get_unanalyzed_crates : jobs' = <<v>>
    /\ wpc' = "job"
    /\ UNCHANGED <<current, graph, todo, found, mails, dataVars, analysis, faults, told, unsent>>

Tick ==
    /\ wpc = "idle" /\ get_unanalyzed_crates # {}
    /\ Cardinality(readers) < MaxReaders
    /\ jobs' \in SetToSeqs(get_unanalyzed_crates)
    /\ wpc' = "job"
    /\ UNCHANGED <<current, graph, todo, found, mails, dataVars, analysis, faults, told, unsent>>

(* Whatever fails ends the round: the worker waits for the next tick, and  *)
(* keeps nothing of the analysis.                                          *)
Forget ==
    /\ current' = NoOne /\ graph' = NewGraph({}) /\ todo' = << >>
    /\ found' = NoFlags /\ mails' = << >>

AbortRound == wpc' = "idle" /\ jobs' = << >> /\ Forget

EndJob == wpc' = (IF jobs = << >> THEN "idle" ELSE "job") /\ jobs' = jobs /\ Forget

(* The dependencies that are active for the targets of the version, by     *)
(* which a version without target has none that is for a target, although  *)
(* its graph is that of the host.                                          *)
ActiveDirects(v) == active_deps(Directs[v], Targets[v], {})

(* The version is looked up in the index, where every version with a row   *)
(* has its line here: one left without it by a failed publish (see         *)
(* Publish) would abort its round each time, and the heads behind it.      *)
StartJob ==
    /\ wpc = "job"
    /\ LET v == Head(jobs)
       IN  IF v \in present
           THEN /\ wpc' = "resolve" /\ jobs' = Tail(jobs) /\ current' = v
                /\ graph' = NewGraph(IF Targets[v] = {} THEN {Host} ELSE Targets[v])
                /\ todo' = [i \in DOMAIN ActiveDirects(v) |-> Need(ActiveDirects(v)[i], {}, << >>)]
                /\ UNCHANGED <<found, mails>>
           ELSE AbortRound
    /\ UNCHANGED <<dataVars, analysis, faults, told, unsent>>

(* The origins are those that the dependant has by now.                    *)
OriginsOf(ask) ==
    IF ask.from = << >> THEN {Direct(ask.dep.kind)}
    ELSE ChildOrigins(graph.crates[ask.from[1]].resolutions[ask.from[2]].origins, ask.dep.kind)

(* A new crate with no version that is stable kills the worker's task:     *)
(* nothing restarts it.                                                    *)
ResolveWithVersions(ask, ok) ==
    LET dep      == ask.dep
        versions == VersionsOf(dep.registry, dep.name)
    IN  \/ ~ok /\ graph' = ResolveFailed(graph, dep) /\ UNCHANGED wpc
        \/ /\ ok /\ StableRanks(versions) # {} /\ UNCHANGED wpc
           /\ graph' = ResolveNew(graph, dep, ask.features, OriginsOf(ask), versions)
        \/ ok /\ StableRanks(versions) = {} /\ wpc' = "dead" /\ UNCHANGED graph

ResolveNext ==
    /\ wpc = "resolve" /\ todo # << >>
    /\ todo' = Tail(todo)
    /\ LET ask == Head(todo)
       IN  \/ /\ OriginsOf(ask) = {}
              /\ UNCHANGED <<wpc, graph, copies, faults>>
           \/ /\ OriginsOf(ask) # {} /\ ~NeedsVersions(graph, ask.dep)
              /\ graph' = ResolveKnown(graph, ask.dep, ask.features, OriginsOf(ask))
              /\ UNCHANGED <<wpc, copies, faults>>
           \/ /\ OriginsOf(ask) # {} /\ NeedsVersions(graph, ask.dep)
              /\ \E ok \in BOOLEAN :
                   /\ get_dependency_versions(ask.dep.registry, ask.dep.name, ok)
                   /\ ResolveWithVersions(ask, ok)
    /\ UNCHANGED <<jobs, current, found, mails, rustsec, db, published, precached, analysis, told, unsent>>

(* The last dirty resolution is visited first.                             *)
PopDirty ==
    /\ wpc = "resolve" /\ todo = << >> /\ graph.dirty # << >>
    /\ LET k    == Last(graph.dirty)[1]
           r    == Last(graph.dirty)[2]
           deps == get_active_deps_in(graph.crates[k], r, graph.targets)
       IN  todo' = [i \in DOMAIN deps |-> Need(deps[i].dep, deps[i].features, <<k, r>>)]
    /\ graph' = [graph EXCEPT !.dirty = Front(@)]
    /\ UNCHANGED <<wpc, jobs, current, found, mails, dataVars, analysis, faults, told, unsent>>

CloseEnds ==
    /\ wpc = "resolve" /\ todo = << >> /\ graph.dirty = << >>
    /\ wpc' = "advise"
    /\ UNCHANGED <<jobs, current, graph, todo, found, mails, dataVars, analysis, faults, told, unsent>>

(* The advisories are asked for each version in the graph, so not at all   *)
(* when there is none.                                                     *)
check_crate ==
    /\ wpc = "advise"
    /\ \E ok \in BOOLEAN :
         /\ IF ResolvedVersions(graph) = {} THEN ok = TRUE /\ UNCHANGED <<rustsec, db, faults>>
            ELSE update_data(ok)
         /\ IF ok
            THEN /\ found' = [outdated |-> HasOutdated(graph, Directs[current]),
                              cves |-> Vulnerable(graph, db')]
                 /\ wpc' = "record"
                 /\ UNCHANGED <<jobs, current, graph, todo, mails>>
            ELSE AbortRound
    /\ UNCHANGED <<copies, published, precached, analysis, told, unsent>>

-----------------------------------------------------------------------------
(* The result of an analysis                                               *)

Changed(v, kind) == found[kind] # analysis[v][kind]

ChangedKinds(v) ==
    (IF Changed(v, "outdated") THEN << "outdated" >> ELSE << >>)
    \o (IF Changed(v, "cves") THEN << "cves" >> ELSE << >>)

X_Notifications_OutdatedOnly(v) ==
    IF Changed(v, "outdated") /\ NotifyOutdated THEN ChangedKinds(v) ELSE << >>

(* Each flag that changed, when one that changed is to be notified.        *)
Notifications(v) ==
    IF (Changed(v, "outdated") /\ NotifyOutdated) \/ (Changed(v, "cves") /\ NotifyCves)
    THEN ChangedKinds(v)
    ELSE << >>

(* One transaction reads the old flags and writes the new ones; the graph  *)
(* is of no more use.                                                      *)
set_crate_deps_analysis ==
    /\ wpc = "record" /\ writer = NoOne
    /\ IF current \in present
       THEN /\ analysis' = [analysis EXCEPT ![current] =
                               [recent |-> TRUE, outdated |-> found.outdated, cves |-> found.cves]]
            /\ graph' = NewGraph({}) /\ todo' = << >>
            /\ mails' = Notifications(current)
            /\ IF mails' = << >> THEN wpc' = "end" ELSE wpc' = "owners"
            /\ UNCHANGED <<jobs, current, found>>
       ELSE AbortRound /\ UNCHANGED analysis
    /\ UNCHANGED <<dataVars, faults, told, unsent>>

RecordTimesOut ==
    /\ wpc = "record" /\ WriteTimesOut
    /\ AbortRound
    /\ UNCHANGED <<dataVars, analysis, faults, told, unsent>>

(* The owners are read in a transaction of their own, and their mail may   *)
(* fail: nothing will say again what changed.                              *)
get_crate_owners ==
    /\ wpc = "owners"
    /\ \/ Cardinality(readers) < MaxReaders /\ wpc' = "mail"
          /\ UNCHANGED <<jobs, current, graph, todo, found, mails, unsent>>
       \/ ReadTimesOut /\ AbortRound /\ unsent' = unsent \cup {current}
    /\ UNCHANGED <<dataVars, analysis, faults, told>>

send_email ==
    /\ wpc = "mail"
    /\ \/ /\ NoFault
          /\ told' = [told EXCEPT ![current][Head(mails)] = found[Head(mails)]]
          /\ mails' = Tail(mails)
          /\ IF mails' = << >> THEN wpc' = "end" ELSE UNCHANGED wpc
          /\ UNCHANGED <<jobs, current, graph, todo, found, unsent>>
       \/ Fault /\ AbortRound /\ unsent' = unsent \cup {current} /\ UNCHANGED told
    /\ UNCHANGED <<dataVars, analysis>>

JobEnds ==
    /\ wpc = "end"
    /\ EndJob
    /\ UNCHANGED <<dataVars, analysis, faults, told, unsent>>
-----------------------------------------------------------------------------
(* The rest                                                                *)

(* At launch, a task of its own copies the index of crates.io.             *)
precache_crate_io ==
    /\ ~precached /\ precached' = TRUE
    /\ \E ok \in BOOLEAN : get_dependency_info_git(CratesIo, "rand", ok)
    /\ UNCHANGED <<workerVars, rustsec, db, published, analysis, told, unsent>>

(* Time passes at any moment, but is only seen by who asks for it: what    *)
(* the worker reads once in a while may as well become old just before.    *)
AnalysisExpires(v) ==
    /\ wpc = "idle"
    /\ v \in present /\ analysis[v].recent
    /\ analysis' = [analysis EXCEPT ![v].recent = FALSE]
    /\ UNCHANGED <<workerVars, dataVars, faults, told, unsent>>

CopyExpires(s) ==
    /\ wpc = "resolve" /\ todo # << >>
    /\ copies[s].recent
    /\ copies' = [copies EXCEPT ![s].recent = FALSE]
    /\ UNCHANGED <<workerVars, rustsec, db, published, precached, analysis, faults, told, unsent>>

RustsecExpires ==
    /\ wpc = "advise"
    /\ rustsec.recent
    /\ rustsec' = [rustsec EXCEPT !.recent = FALSE]
    /\ UNCHANGED <<workerVars, copies, db, published, precached, analysis, faults, told, unsent>>

AdvisoryPublished ==
    /\ wpc = "advise"
    /\ \E a \in Advisories \ published : published' = published \cup {a}
    /\ UNCHANGED <<workerVars, copies, rustsec, db, precached, analysis, faults, told, unsent>>

WorkerNext ==
    \/ Tick \/ StartJob \/ ResolveNext \/ PopDirty \/ CloseEnds \/ check_crate
    \/ set_crate_deps_analysis \/ RecordTimesOut \/ get_crate_owners \/ send_email \/ JobEnds

TimePasses ==
    \/ \E v \in Versions : AnalysisExpires(v)
    \/ \E s \in Sources : CopyExpires(s)
    \/ RustsecExpires

DepsNext == WorkerNext \/ precache_crate_io \/ TimePasses \/ AdvisoryPublished

(* A step of ResolveNext, which can always be taken when there is          *)
(* something to resolve, whatever it comes to.                             *)
Resolves == wpc = "resolve" /\ todo # << >> /\ todo' = Tail(todo)

(* The worker is a task that only waits for ticks, for answers, for its    *)
(* mutexes and for connections; time passes.                               *)
DepsFairness ==
    /\ WF_todo(Resolves)
    /\ WF_depsVars(\/ Tick \/ StartJob \/ PopDirty \/ CloseEnds \/ check_crate
                   \/ set_crate_deps_analysis \/ RecordTimesOut \/ get_crate_owners \/ send_email \/ JobEnds)
    /\ SF_depsVars(RustsecExpires)
    /\ \A v \in Versions : SF_depsVars(AnalysisExpires(v))

-----------------------------------------------------------------------------
(* Properties                                                              *)

DepsTypeOK ==
    /\ wpc \in {"off", "dead", "idle", "job", "resolve", "advise", "record", "owners", "mail", "end"}
    /\ current \in Versions \cup {NoOne} /\ Range(jobs) \subseteq Versions
    /\ current = NoOne <=> wpc \in {"off", "idle", "job"}
    /\ mails # << >> <=> wpc \in {"owners", "mail"}
    /\ db \subseteq published /\ faults \in 0..MaxFaults

(* When the advisories are asked for, every dependency that is active has  *)
(* its place in the graph: each direct one, and each one of a version in   *)
(* the graph with the features and the origins that reach it, those added  *)
(* after the version was first visited included, whichever registry failed *)
(* (model/deps.rs:232).                                                    *)
GraphIsClosed ==
    wpc = "advise" =>
        /\ IsClosed(graph)
        /\ \A dep \in Range(ActiveDirects(current)) : IsResolved(graph, dep, {}, {Direct(dep.kind)})

(* Why: while a graph is being closed, what was reached and has no place   *)
(* is among the dirty resolutions or what is left to resolve.              *)
GraphInv ==
    /\ IsGraph(graph) /\ AreNeeds(graph, todo)
    /\ wpc \in {"resolve", "advise"} =>
          /\ IsClosing(graph, todo)
          /\ AreDirects(graph, todo, ActiveDirects(current))
    /\ wpc = "advise" => todo = << >> /\ graph.dirty = << >>

(* What stops the worker for ever: a dependency with no stable version, or *)
(* a copy of the advisories that could not be cloned.                      *)
Stopped == wpc \in {"off", "dead"} \/ rustsec.dir = "broken"

(* A head whose analysis is not recent is analysed in the end, or is no    *)
(* more a head, although each failure, of another crate too, ends a round  *)
(* (services/deps.rs:112).                                                 *)
HeadsAreAnalysed ==
    \A v \in Versions :
        v \in get_unanalyzed_crates ~> (v \notin get_unanalyzed_crates \/ Stopped)

(* The owners of a version were told of its flags, those to be notified.   *)
Told(v) ==
    /\ NotifyOutdated => told[v].outdated = analysis[v].outdated
    /\ NotifyCves => told[v].cves = analysis[v].cves

(* Between two rounds the owners were told of the flags as they are, those *)
(* to be notified, unless a mail of their version could not be sent, even  *)
(* when the worker was stopped between the record and the mail             *)
(* (services/deps.rs:144).                                                 *)
ChangesAreMailed ==
    wpc = "idle" => \A v \in present \ unsent : Told(v)

(* The versions that an advisory exposes, from the catalog alone: a direct *)
(* dependency that is always active and that only it can resolve to.       *)
IsExposed(v, a) ==
    \E dep \in Range(ActiveDirects(v)) :
        /\ dep.name = a.name /\ Lists(dep.registry, dep.name)
        /\ LET ranks == {c.rank : c \in Range(Catalog[dep.registry][dep.name])} \cap dep.req
           IN  ranks # {} /\ affects(a, Max(ranks))

(* Once an advisory against a dependency of a head is published, the head  *)
(* ends up flagged for good, although flags flip while a registry or the   *)
(* advisories cannot be read (rustsec.rs:113, services/deps.rs:311).       *)
FlagsFollowAdvisories ==
    \A v \in Versions, a \in Advisories :
        IsExposed(v, a) =>
            (<>[](/\ v \in Heads /\ Package[v] \notin Deprecated /\ a \in published
                  /\ ~Stopped /\ \A s \in Sources : copies[s].dir # "broken")
             => <>[]analysis[v].cves)
=============================================================================
