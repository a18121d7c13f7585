# Verification of Cratery

TLA+ specifications of [Cratery](../src/README.md), a private cargo registry written in
Rust, their model-checking configurations and their machine-checked proofs.  Paths below are
relative to the repository; the Rust sources are in `src/`.  `PROJECT.json` lists the
components, the runs, the mutated forms each property rejects, the lines each definition
translates, the hazards and the theorems.

## The system

One *master* process serves the registry.  It keeps a SQLite database (one connection for
writers, so write transactions are serialised; a pool of readers), a storage of crate files
and documentation pages, and a git repository that is the cargo index.  Any number of *worker
node* processes may connect to it by web socket to generate documentation.

| Component | State | Operations | Interacts with |
|---|---|---|---|
| Pool of worker nodes (`model/worker.rs`, `WorkersManager`) | a Vec of workers (available, or in use for a job), a queue of wakers, listeners | `register_worker`, `remove_worker`, `get_worker_for` and `WorkerWaiter::poll`, drop of `WorkerCheckout` (`put_worker_back`) | the documentation worker checks nodes out; the connections register and remove them |
| Documentation generation (`services/docs.rs`, `services/database/jobs.rs`) | tables `DocGenJob` and `PackageVersionDocs`; one task that runs jobs | `queue`, `get_next_job`, `update_job`, local and remote execution | requests queue jobs; pool, connections and nodes execute them; storage keeps the pages |
| Connections to nodes (`routes.rs`, `worker_connect_handle_inner`) | three futures, two channels and a web socket for each node | handshake, job bridge, dispatch of updates, heartbeat check, removal | pool, documentation worker, node |
| Worker node (`worker.rs`) | the current job | receive, generate, answer, heartbeat | web socket, storage |
| Launch (`application.rs`, `main.rs`) | none of its own | migration, services, scan for undocumented crates, routes | everything |
| Publishing, removing, yanking (`application.rs`, `services/database/packages.rs`, `services/storage.rs`, `services/index/git.rs`) | tables `Package`, `PackageVersion`, `PackageOwner`; crate files; index files | publish, remove, yank, owners, targets, capabilities | database, then storage, then index, then the queue of jobs: four steps that are not one transaction |
| Users, tokens and owners (`services/database/users.rs`, `admin.rs`, `model/auth.rs`) | `RegistryUser`, `RegistryUserToken`, `RegistryGlobalToken`, `PackageOwner`; the cookies in the browsers | login, update, deactivate, reactivate, delete, tokens, owners | every request is authenticated with a cookie or a token, then authorised |
| Application events (`application.rs`, `model/mod.rs`) | a channel of 64 events, a batch of at most 16 | send the use of a token or a download, handle a batch in one transaction | senders may hold a connection of the database, the handler needs the one for writes |
| Download statistics (`model/stats.rs`, `services/database/packages.rs`) | a ring of 90 daily counts and a total for each version | increment, read as series | the handler of the events increments |
| Dependency analysis (`services/deps.rs`, `model/deps.rs`) | one task with its round and the graph it builds; the flags of each version; copies of the indices of other registries | rounds over the heads that were not analysed lately, closure of the dependencies, record, mails | index, other registries, advisories, database, mail |
| Advisories (`services/rustsec.rs`, `model/osv.rs`) | a copy of RustSec's repository, the advisories in memory | clone or fetch and load again, look up | dependency analysis |
| Database pool and transactions (`utils/db.rs`, `services/database/mod.rs`, `utils/shared.rs`) | who holds the write connection and the read ones | acquire or be refused, commit, roll back | every operation |
| Helpers (`utils/concurrent.rs`), configuration, migrations, crate metadata, mails, errors | none that changes after the launch | | see *Not modelled* |

### What is hard

* **Interleavings.** Nodes connect and leave at any step of the documentation worker.  The
  handlers of requests commit a transaction, then write files, then the index, then queue jobs;
  the documentation worker runs between any two of them.
* **Ownership of channels.** The documentation worker waits for an answer with no timeout.  It
  goes on only because the connection, however it ends, drops the sending half of the channel.
* **Correlation.** An answer is applied to the job the worker waits for; its `job_id` is never
  read.  That is right only if no earlier answer can be left in a channel.
* **Crashes.** Jobs and rows are in the database, the queue of requests in memory.
* **Partial failure.** Every transaction, file and index write may fail after earlier ones
  succeeded; a handler is also dropped when its client closes its connection.
* **Locks held while waiting.** Events are sent on bounded channels while a mutex or the write
  connection is held.
* **Old credentials.** A cookie is never invalidated: it outlives the renaming, the demotion and
  the deletion of its user, who may come back under the same email.
* **What is as fresh as the last attempt.** Advisories and indices are copies on disk, refreshed
  when they are read, and any refresh may fail; whatever fails ends the round of the worker.
* **A graph that grows while it is visited.** A crate reached again brings features and origins
  to versions that were visited before.

What makes each component correct, and where it could go wrong, is in the *hazards* of
`PROJECT.json`, each with the properties that would catch it.

## Modules

| Module | Models |
|---|---|
| `WorkerSelector` | the matching of nodes to the selector of a job: pure operators |
| `WorkersManager` | the pool, for any number of requesters |
| `WorkerPool` | what the pool promises: leases on workers that come and go (abstract) |
| `DocsGenerator` | documentation generation: requests, tables, documentation worker, connections, nodes, launch, crashes; built on `WorkerPool` |
| `JobQueue` | what the table of jobs promises: a queue whose first job is started, and ends once (abstract) |
| `Publish` | publish, remove, yank over the database, the storage and the git index |
| `Accounts` | users, cookies, tokens, and the owners of a package |
| `Database` | the connections and the rows of versions, as the tasks that share them see them |
| `AppEvents` | requests that send events, the channel, the batches, the counters of downloads |
| `DepsGraph` | the graph of the dependencies: pure operators, and what a closed graph is |
| `Deps` | the worker of the dependencies, its copies, the advisories, the flags and the mails; uses `DepsGraph` |
| `Services` | `AppEvents` and `Deps` composed over one `Database`, with restarts of the process |
| `MCWorkersManager`, `MCDocsGenerator`, `MCPublish`, `MCAccounts`, `MCServices` | instances for TLC |
| `VecLemmas` | lemmas on sequences used as Rust vectors, on numbers and on functions that follow a loop |
| `WorkersManagerProofs` | the theorems about `WorkersManager` |
| `DocsProofs` | the theorems about `DocsGenerator` |
| `PublishProofs` | the theorems about `Publish` |
| `AccountsProofs` | the theorems about `Accounts` |
| `GraphProofs` | the lemmas about `DepsGraph`, and what the steps of `Deps` do to the graph |
| `EventsProofs` | lemmas on sums over finite sets, and what the steps of `AppEvents` do to the counters |
| `ServicesProofs` | the theorems about `Services` |

Definitions named `X_Something` before a definition `X` are mutated forms of it: a plausible
slip in the code.  They are never used by a specification; each property of a passing run is
violated when one of them takes the place of the definition (`mutants` in `PROJECT.json`).

### WorkersManager

Every method of `WorkersManager` holds the write lock for its whole body, so each is one
action.  `workers`, `state` and `queue` are the two Vecs of `inner`; the state of a worker is a
function of its identifier, `Absent` when it has no entry.  `pc`, `job` and `checkout` are the
progress of each task in `get_worker_for(..)?.await?` and what its `WorkerCheckout` designates.
`GetWorkerFor` and `Poll` are two actions because `get_worker_for` returns a future: other tasks
run between the two.  `TryGetFound`, `TryGetError` and `TryGetBusy` are the three results of
`try_get_worker_for`, which takes the *first* usable worker of the Vec.  `PutWorkerBack` is the
drop of a checkout: it looks the worker up and wakes the first queued request that the worker
matches, in the same critical section.  Identifiers are random tokens drawn at the start of the
node's process, which connects once: `seen` keeps them from being used again.

`WorkerPool` is the abstraction: workers join, leave for good, are leased and released.
`ImplementsPool` maps `present` to the entries of the Vec, `left` to the identifiers that no
longer have one, `holder` to the checkouts.

### DocsGenerator

One package, its versions and its targets.  The tables, and the pages in the storage, survive a
crash (`versions`, `targets`, `docs`, `jobs`, `rendered`).  A row of `PackageVersionDocs` is one
of `absent`, `missing` (not attempted, not present), `attempted`, `present`.

* A *request* (`Publish`, `Regen`, `SetTargets`) is its transaction, followed by one `Queue` per
  row; `Publish` has `Store` (crate file and index) in between.  `RequestFails` ends it early.
* The *documentation worker* has one action per await of `docs_worker_on_job`, named after
  the call: `GetNextJob`, `HasWorkers`, `CheckoutWorker`, `RemoteStart`, `SendJob`, `RecvUpdate`,
  `FinishJob`, or `LocalStart`, `Generate`, `FinishJob`; `FailJob` is the path of all errors.
* A *connection* is `JobBridge`, `WsDispatcher`, and `ConnectionEnds`, which has a disjunct for
  each future of `select_all`, because they differ in what they own: the end of the dispatcher
  drops `updated_sender`, that of the bridge drops `job_receiver`, that of the health check
  neither.  `RemoveWorker` is `remove_worker` and the drop of the two others.
* A *node* receives (replacing its current job), finishes with one final update, or exits.
* `Crash` ends the master at any step; `Launch` starts the documentation worker *before*
  `LaunchScan`, as `Application::launch` does.

`JobQueue` is the abstraction of the table: `Enqueue` unless the same pages are queued, `Start`
or `Reject` of the first that is queued, `Finish` of one that was started.  The worker does each
of these as a read in one transaction and a write in a later one, with other jobs queued and
errors handled in between; `TableIsAQueue` says that no interleaving shows.

The pool is used through `WorkerPool`'s actions `Join`, `Leave`, `Acquire`, `Release`, with the
documentation worker as the only requester.  This is the composition that the theorems
`Refinement` and `SingleRequester` of `WorkersManagerProofs` justify: the manager implements
these leases, and with one requester a request is answered at its first poll.

Left out of it: the listeners of job events, the log files, `docs_gen_mock` (a test setting),
and more than one package (jobs of different packages share nothing but the queue).

### Publish

One package, under any spelling of its name (`Names`, one of them `Lowercase`).  `package`,
`owners`, `canRemove`, `rows` are the tables, `writer` the holder of the one write connection
when a transaction spans several steps, `stored` the three files of each version, `file` and
`head` the package's file of the index in the working tree and in the last commit, `orphans` the
files that git commands left behind may still commit, `lock` the mutex of `GitIndex`.  `calls` is
the request each user has in progress and the step it is at.

A line is what it lists (version, checksum, yanked), not its bytes.  The bytes matter in one
place.  A removal parses the lines it keeps and serialises them again (`src/services/index/git.rs:229`);
their features are a `HashMap` (`src/model/cargo.rs:364`), which comes out in any order, so a
file of the same lines may or may not be new to git.  `ManyFeatures` are the uploads with several
features, and a file with one of their lines is possibly `Reordered`.

* `publish_crate_version` is the transaction; `store_crate` one write to the storage;
  `AppendLine` and `commit_changes` the two halves of the index, between which the mutex is
  held; `queue` the jobs, whose life is in `DocsGenerator`.
* `remove_crate_version` opens its transaction and keeps the write connection; `RewriteFile` and
  `commit_changes` change the index under the mutex; `CloseRemoval` commits.
* `NothingToCommit`: git refuses a commit that changes no byte, the command exits with an error,
  and the transaction is rolled back.  When a removal overlaps the publish of the same version,
  and comes before its line, this is what rolls the removal back; without it the line comes after
  the row is gone (the mutated form `GitCommits_Empty`).  It does so only if no line was
  reordered: with another listed version of several features, both `NothingToCommit` and
  `commit_changes` are possible, and after the second the line comes without its row.  The ghost
  `overtaken` records the versions this happened to, which are what `IndexIsSound` leaves out.
* `yank_crate_version`, `unyank_crate_version`, `set_crate_can_remove` are one transaction each.
* `PoolTimedOut` is the wait for the write connection; `StorageFails`, `GitFails` (before or
  after git has committed), `RewriteCut` (a file left truncated) and `ClientLeaves` (the handler
  is dropped) end a request at its step.  A git command is not killed when its request is dropped
  (`src/utils/mod.rs:54`): `ClientLeaves` may leave one among `orphans`, and `OrphanEnds` is its
  end, at any later moment and without the mutex: it commits what its request had added, or what
  the present holder of the mutex has written since, or fails.

`Retained` gives the lines that stay by their positions (`Kept`, `Position`) and not with the
recursive `SelectSeq`, so that the proofs can reason about it.

Left out: readers; the users who may only read (their requests are refused before anything
changes); several packages, whose files are committed together (`git add .`) but share nothing else.  The line
of a publish and its end are two writes in the code and one here.

### Accounts

Every operation is one write transaction on the one write connection, so it is one action; a
refused one rolls back and is no step.  What makes the interleavings is what clients hold between
two operations: `cookies` keeps every cookie handed out, for ever, `tokens` and `globals` are the
rows of the two tables of tokens.  `Authentications` is the set of what requests can be
authenticated as: by a cookie, whose *email* is looked up and whose *uid* is used, by a token,
whose row is joined to an active user, or by a global token, which is nobody.  `users`, `email`,
`login`, `active`, `admins` are the columns of `RegistryUser`; identifiers come from
`AUTOINCREMENT` (`nextId`) and are not used again.

`login_with_email` is the end of the OAuth exchange, whose outcome is an email: the first user is
an admin, a new one takes the part of the email before `@` or a generated login.  Update,
deactivation, reactivation and deletion check that an admin asks and, where the code does, that
it does not name itself.  A deletion takes the tokens and the ownerships, and is refused by the
foreign keys when the user has published or has triggered a job (`references`).  `owners` counts the rows of `PackageOwner` for each user,
because nothing in the schema makes them unique.  `add_crate_owners` and `remove_crate_owners`
follow the loops of the code over the list of the request (`Adding`, `Removing`: what the first
`n` emails of it lead to), comparing with the rows read before the loop.

### Database, AppEvents, Deps, Services

`Database` has the write connection (`writer`), the read ones (`readers`) and the versions that
have a row (`present`).  Who waits for a connection in use may be refused it after a while.

`AppEvents`: a *request* is a download or a removal.  It takes a connection (`Connect`), sends
the use of its token if it has one (`authenticate_token`: it waits for a slot of the channel,
connection in hand), then does its work; a download sends itself once it was served, without a
connection.  `Disconnect` is a client that leaves, at any step.  The *handler* takes a batch off
the channel (`Receive`), waits for the write connection, and applies the batch in one transaction
(`events_handler_handle`), or is refused (`HandlerTimesOut`); an event of a version that was
removed fails the whole batch, which is cleared either way.  `increment_crate_version_dl_count`
writes the ring that `get_crate_dl_stats` reads: both are modelled with the day of the year they
are computed from.  The rows of a package are listed in the order of their versions, which
is what `finalize` sorts them to before it adds up those beyond the first ones.

`DepsGraph` translates `DepsGraph` of the code: a crate of the graph has its versions and its
resolutions, a resolution has a version, features and origins, and is *dirty* until its own
dependencies were asked for.  Features are plain, `dep:x`, `x/y` and `x?/y`.  `IsClosed` is the
reference: it says of a graph, without the order of the visits, that each active dependency of
each resolution has its place (`HasPlace`: the highest version that is required, with the features
and the origins asked).  The loop over the features (`Reaching`) is a recursive function of the
number of rounds; `IsClosed` takes the *least* closed set instead (`LeastFeatures`).  What an index
may answer is `IsListed`; that every registry answers with such versions is `CatalogAssumption`.

`Deps`: a *round* is `Tick`, which lists the heads whose analysis is not recent, then for each
`StartJob`, `ResolveNext` (one question to a registry), `PopDirty`, `CloseEnds`, `check_crate`
(the advisories), `set_crate_deps_analysis` (one transaction), `get_crate_owners` (another),
`send_email`, `JobEnds`.  Whatever fails is `AbortRound`.  A clone that fails leaves a directory
in which nothing can be fetched (`broken`); a fetch that fails leaves the copy as it was.
Expiries are placed where they are read: an analysis, a copy or the advisories become old just
before the worker looks, which is the only moment that tells.

`Services` composes them: the requests, the handler and the worker take turns on one database.
`Restart` keeps the database and the directories, drops the requests, the events and the round,
and forgets what is recent.  The inductive invariant of the whole is there (`QueueInv`,
`WorkerInv`, with `GraphInv` of `Deps` and `CountInv` and `CountedOnce` of
`AppEvents`).

## Runs

| Run | Instance | Shows |
|---|---|---|
| `manager` | 3 nodes with different descriptors, 3 jobs whose selectors match different nodes, 3 requesters; 64 226 states | the invariants of the pool, no resurrection, the refinement of `WorkerPool` |
| `manager_single` | the same with 1 requester; deadlock checked | nobody ever sleeps on the queue |
| `docs_requests` | 1 version, 2 targets, 2 concurrent requests, 1 node, 2 jobs, no failure; 116 871 states | tables, channels and storage agree; the table is a queue; every queued job ends |
| `docs_recovery` | 1 version, 1 target, 1 request, 1 node, 1 crash, 1 fault; 106 500 states | the same across a crash and a failed step, with the inductive invariant of the proofs; the documentation worker comes back |
| `docs_stuck` | 1 crash | expected violation: a job `Working` that nobody works on |
| `registry` | 2 users (one admin), 2 versions, 1 content of several features, no failure; deadlock checked; 116 689 states | whatever overlaps, the index lists sound versions only, but for those of `overtaken`; both protocols see the same; requests are answered; nothing stays half published; the inductive invariant of the proofs |
| `registry_failures` | 2 users (both admins), 2 versions, 1 content of one feature at most, one failure of any kind at any step; 242 585 states up to the symmetry of users and versions | a version that nobody removes stays sound, in the file and in the commits, git commands left behind included; documentation is queued after the files are stored; the inductive invariant of the proofs |
| `registry_name` | a name with an uppercase letter | expected violation: the second version is refused |
| `registry_yank` | as `registry` | expected violation: the index does not know of yanks |
| `accounts` | 3 emails, 3 logins, 3 rows, 1 token at a time; 172 475 states up to symmetry | names stay unique, an active admin remains, no credential acts as somebody else, no request on owners leaves none |
| `accounts_owners` | 2 emails, and lists that may name an email twice | expected violation: the last owner is removed |
| `services` | 6 versions of 4 packages, 3 requests, 3 registries and one unknown, 1 advisory, 1 fault or restart, from 6 situations; 23 840 states | graphs are closed, changes are mailed, heads get analysed, flags follow the advisories, counts and series agree, requests end; the inductive invariant of the proofs |

`manager` does not check deadlock: a requester whose matching nodes all left sleeps until one of
them is put back, which may never happen.  The `docs_*` runs and `services` do
not: when the bounded requests are served and the bounded days have passed, the system rests.

**Bounds.** Three requesters are needed for a wake-up to compete with a new request while a
third one sleeps; three descriptors make the first usable node differ from the first matching
one, and one job match nothing.  In `DocsGenerator`, `MaxJobs` stops new requests when the jobs
that exist or may be queued reach it: two are enough for an answer of one to meet the other, for
two requests to name the same row, and for two jobs of the same row to follow each other.
Republishing a removed version is reached with one version.  `MaxCrashes` and `MaxFaults` bound
crashes and failed steps (transactions, storage, index, dropped handlers).  In `Publish` two
users are enough for a publish to overlap a publish or a removal of the same version or of the
other one.  In `registry` the one content has several features, so that whichever version is
listed may come out in another order.  One content tells whether a file or a line is there, not
whose upload it is of: the theorems are about any contents, and both instances were also checked
with two (5 344 005 states for the invariants of `registry`, 3 701 970 for `registry_failures`),
which takes longer than the runs kept here.  Users make any number of requests; `MaxFailures`
bounds the failures.  One failure is either a command left behind or one that fails, so the runs
do not see a second command refused because a first one holds git's own lock; the theorems have
no such bound.

In `Accounts`, `MaxUsers` rows let a deleted user come back under a new identifier while another
one is there; all emails give the same login, so that a new user finds its login taken; one
token at a time is enough, since tokens do not see each other.  The lists of `accounts` name each
email at most once, those of `accounts_owners` may name one twice: that is what makes the
difference.  The emails are symmetric, and so are the logins that no email gives.

In `services` the channel and a batch have two places for three requests, so that a sender waits
in its transaction; one read connection makes the worker be refused it; the series has 3 days
and the year 5, which 3 does not divide, as 90 does not divide 365; `Kept` is 1 so that "Others"
is met with two versions.  One fault is a clone, a fetch, a load or a mail that fails, or a
restart.  The product of all concerns at once is out of reach, so `Starts` gives six situations,
each with the actors that meet in it: three requests with the handler; downloads over the end of
a year; a head removed while it is analysed; an advisory published later, with no fault (the one
from which `FlagsFollowAdvisories` has to go from false to true); two heads, with a reader and a
fault; two heads one of which has a dependency with no stable version, with a fault.  The graph
of `a2` has a feature of a feature, a crate reached by two paths with different kinds and
features, a cycle through a `dev` dependency, a yanked version and a registry nobody configured.

**Fairness.** Weak fairness of every task that the runtime schedules: the documentation worker,
the requests already accepted, launch (the process is restarted by its supervisor), the two
forwarding futures and the removal of a connection, a node's reception and generation.  A
connection whose node has exited ends: its socket closes, or the heartbeat times out after
150 ms.  Nothing obliges users to make requests, nodes to connect, live connections to end.
It is assumed that listeners read their events: `send_event` waits for them while it holds their
mutex (listed as a hazard).  In `Publish` the fairness of a request is strong: the mutex of the
runtime and the pool of connections serve those that wait in their order of arrival.
`PoolTimedOut` is not fair: nobody's answer depends on being refused the connection.  In
`services` the requests that began, the handler and the worker are tasks: weak fairness is enough,
since who waits for a connection in use is served or refused.  `Resolves` states the
fairness of `ResolveNext` without its outcome: while something is left to resolve a step can
always be taken.  `AnalysisExpires` and `RustsecExpires` are strongly fair because time passes
whatever happens, and these actions are only enabled where their clocks are read.  Nothing
obliges advisories to be published, clients to leave, the process to restart or anything to fail.

### Disagreements

* `docs_stuck`: a crash of the master while a job runs leaves it `Working` for ever.  The
  job's row says attempted, so the scan at launch skips it, and only queued jobs are picked.  The
  enumeration says of `Working` "The worker is working on this job" (`src/model/docs.rs:32`).
  In `docs_requests`, without crash, that sentence is an invariant (`WorkingIsWorkedOn`).
* `registry_name`: `publish_crate_version` compares the stored name of the package, which keeps its
  case, with the lowercase one, to "check this is the same package"
  (`src/services/database/packages.rs:198`).  A package first published as `Foo` refuses its own
  second version.
* `registry_yank`: the field of the index line that tells "whether this version has been yanked"
  (`src/model/cargo.rs:365`) is false for ever: a yank only changes the database.

* `accounts_owners`: `add_crate_owners` compares each email of the list with the rows read before
  the loop (`src/services/database/packages.rs:712`), so an email given twice makes two rows;
  `remove_crate_owners` then counts two owners where there is one, and its `DELETE` takes both.
  The package has no owner, though the code says "cannot remove the last one"
  (`src/services/database/packages.rs:745`).

Weaknesses that contradict no text are in the hazards or in the definitions that show them.

*Publishing*: a publish that fails after its
transaction leaves a version that can neither be published again nor, as long as no other line
changes, removed, and that ends every round of the dependency analysis at its turn
(`src/services/deps.rs:304`); a removal that overlaps a publish of the same version leaves its
line in the index without its row after a failed git command, and with nothing failing when
another listed version has several features (`overtaken`); a removal cut short leaves the file of
the package truncated; a git command outlives its request and the mutex.

*Dependency analysis*: a dependency with no stable version kills the task of the worker, which
nothing restarts (`ResolveWithVersions`, the situation of `b1`; `Stopped` excludes it from the
liveness properties); a clone that fails leaves a directory that is never cloned again, of an
index or of the advisories (`broken`); a directory of advisories that cannot be listed leaves
none in memory until the next refresh that finds it old (`update_data`); the flags of the direct
dependencies are read from the crates of the graph *by position*, and the two lists differ when a
dependency is inactive, repeated or unknown (`IsOutdated`); advisories match any crate of
the name, of whatever registry (`Vulnerable`); when a version is reached again,
the `default-features` and `features` of the second dependant are ignored (`resolve_in`); a flag that goes back to false is
mailed as news too, and a mail that fails is never sent again (`unsent`).

*Statistics*: a slot of the ring is never set back to zero, so it accumulates over the years,
and at the end of a year the days that are read are not those that were written, since 365 is
not a multiple of 90 (`SeriesAgrees` states what remains true).

## Proofs

`WorkersManagerProofs` proves for all sets of nodes, requesters and jobs, all descriptors and
all specifications of jobs, from the assumptions on constants in `WorkersManager` alone:

* `Invariance`: `Spec => []IInv`.  `CheckoutConsistent` is not inductive: that a worker in use is
  held by *someone* needs the link between `pc`, `job` and `checkout` (`LeaseInv`), that an entry
  is unique needs that identifiers come from outside `seen` (`VecInv`), and that the queue holds
  the sleepers needs that each is in it once (`SleepingIsQueued`).  `IInv` is their conjunction
  with the types; it is also an invariant of the run `manager`.
* `TypeCorrect`, `Consistency`, `Exclusion`, `QueueConsistency`: its consequences.
* `NoResurrection`: the action property, from the same invariant.
* `SingleRequester`: with at most one requester the queue stays empty.  When the one requester
  asks, no worker is in use, since a worker in use has a holder, which could only be itself.
* `Refinement`: every step of the manager is a step of `WorkerPool` or a stutter.

`VecLemmas` proves what `Vec::push` and `Vec::remove` do to the elements of a sequence without
duplicates, and what the proofs about loops need: a function that follows a loop exists and does
what its step says (`LoopExists`), and induction up to a number (`UpTo`), which is derived from the
well-foundedness of `<` on the naturals.

`DocsProofs` proves for all sets of versions, targets and nodes, any number of jobs, crashes and
failures, from the assumptions on constants in `DocsGenerator` and `WorkerPool` alone:

* `Invariance`: `Spec => []IInv`.  What the properties say of the table rests on where the job at
  work is.  `JobInv` ties the step of the documentation worker to the state of its job, and says
  that a job picked but not started is still the first that is queued: jobs are only added behind,
  and nobody else ends one.  `CheckoutInv` ties that step to the node it holds, and the pool to
  the connections.  `ChannelInv` says where the job of a connection may be (`Carries`: in one of
  the five places between the worker and the node, and nowhere else) and that a live connection
  nobody waits for carries nothing (`Idles`).  It must also speak of the connections that have
  ended, because an update may be left in the channel of one: that one is always the update the
  worker waits for, which is why an answer may be applied without reading its `job_id`.
  `AnswersInv` says that a Success on its way is about pages in the storage, `MissingInv` what a
  row that misses its pages waits for, `ServerInv` what is up together.
* `TypeCorrect`, `InOrder`, `Rendered`, `MissingQueued`, `OneInFlight`, `FinalForever`: its
  consequences.
* `WorkedOn`: a job `Working` is the one at work, up to the first crash and the first failure.  After
  a crash it is false, which `docs_stuck` shows; after a failed transaction the job may be left
  `Working` too.
* `IsAQueue`: every step is a step of `JobQueue` or leaves the table as it is.  `QueueInOrder` and
  `JobInv` make the job that is started, or rejected, the first of the queue; `FinalForever` follows
  from it.

`IInv` was also checked with 2 nodes and 1 failure (3 962 931 states), which takes longer than the
runs kept here.

`PublishProofs` proves for all sets of users, versions, contents and names, whatever may fail and
however often, from the assumptions on constants in `Publish` alone:

* `Invariance`: `Spec => []IInv`.  That the index is sound says nothing of the requests in
  progress, so it is not inductive.  `UploadInv` adds, for a version, that an upload that its
  transaction let through and that has no line yet (`Pending`) is the only one, that there is no
  line, and that the files it has passed are its own: that is why the line it appends is the only
  one and matches the files.  `HolderInv` ties the write connection and the mutex to the steps of
  the requests; `CleanInv` says that, until something fails, a removal which commits has removed
  a line, so that the publish of that line is over and cannot append another before the row goes,
  unless the version is in `overtaken`.  That part needs that `Retained` is the file itself when
  no line is removed (`RetainedLines`): what is left to commit then is only an order.  After a
  failure the invariant keeps `UploadInv` for the versions that no removal was let through for.
  For the same versions `ListedInv` holds of all that may be committed (`Commits`: the last commit
  and `orphans`).  Each of these was the file once (`CommitsListed`), and a version that such a
  file lists, and that nobody removes, keeps its row and its files.  `StorageInv`, for
  `JobHasCrate`, holds whatever fails: the files that a publish is past (`Written`) are in the
  storage, because a file may be replaced but is never deleted.
* `TypeCorrect`, `NeverRemovedSound`, `CommitsSound`, `CleanSound`, `CleanHead`, `JobsHaveCrates`:
  its consequences.  `registry` checks `IndexIsSound` and `HeadIsFile` where nothing fails;
  `CleanSound` and `CleanHead` prove them up to the first failure, whatever `Failures` is.
* `OneOrderSound`: when no upload has several features, nothing is ever `overtaken`, and until the
  first failure every listed version is sound, without exception.

`AccountsProofs` proves for all sets of emails and logins, all lists of owners and any number of
users and tokens:

* `Invariance`: `Spec => []IInv`, the conjunction of `UsersInv` and `OwnersInv`, with one lemma for
  each operation on users.  The core of the first is `ActingUser`: what a request acts as is gone, or is the active user of the email that was
  checked.  For a cookie it needs that emails are unique and that a cookie names the row it was made
  for or none (`CookiesConsistent`), which in turn needs that identifiers are below `nextId`.
  From it, an admin who asks is active and an admin, and never the target of what could take that
  away: so `AdminRemains`.
* `UniqueNames`, `AnAdminRemains`, `NoImpersonation`: its consequences.
* `OwnersStay`: no request about owners leaves the package without any, if no list names an
  email twice (`ListsNameOnce`).  Then each owner has one row (`OwnersListedOnce`), and the rows
  counted before the loop of a removal are those it takes from, one at a time (`RemovingRows`).
  The hypothesis is the one that `accounts_owners` shows to be needed.

`ServicesProofs` proves for any requests, versions, dependencies, registries, advisories and
capacities, any number of faults and restarts, from the assumptions on constants in `Database`,
`AppEvents`, `Deps` and `Services`:

* `Invariance`: `Spec => []IInv`.  `ChangesAreMailed` speaks of the moments between two rounds;
  to be inductive it must say what is owed within one.  `MailInv` says that the versions which are
  not at work are told of, and that at the version at work a flag which is not in the mails left
  was told already, or is not to be notified, and that what the mails will say is what was
  recorded.
* `TypeCorrect` (a connection is held by a request in its transaction, the queues keep to their
  bounds, the worker has a version exactly when it works) and `Mailed`: its consequences.
* `Closed`: when the advisories are asked for, the graph is closed, for every catalog that
  `CatalogAssumption` allows and every order of failures.  `GraphInv` says that while a graph is
  being closed, a resolution is dirty, or was visited (`IsVisited`): each thing it asks for has
  its place or is still to be resolved.  Nothing is lost on the way because graphs only grow
  (`GraphGrows`): crates, resolutions, their features and origins stay, and a resolution that is not
  dirty has not changed.  So a place stays a place (`PlaceKept`, `ResolvedKept`), and a resolution
  that takes new features or origins is visited again, which makes the order of the visits irrelevant.
  Each way to resolve (`resolve_in` of a known version, of a new one, a crate that is new, unknown or
  known to fail) gives what was asked its place (`ResolveCrateResolves` and the lemmas after it).
* `SeriesAgree`: the series of the packages and the counters of the registry tell the same, and the
  last day of the series holds what was counted today.  `CountInv` says of each version that its
  slots add up to its counter, and that the slot of the day holds at least what was counted today:
  at least, because a slot is never emptied.  The rest is about reading: the series reads each slot
  once and today's last, wherever the day is in the ring (`SlotsRead`); the rows of a package are
  listed once each (`RowsListed`); adding up those beyond the first ones changes no sum, and its
  total is still that of its counts (`FinalizeAdds`); the packages share out the rows (`SumByGroup`).
* `NoneCountedTwice`: `CountedOnce`, the conjunct of `IInv` that says where a download that was
  answered is: in the counter of its version, the channel, the batch, or among those that a failed
  batch or a restart lost, and in one of them only.  It is the safety half of `DownloadsCounted`,
  which then only waits for the channel and the batch to empty.  Its proof counts the events of
  lists that are appended to, cut and joined (`DownloadsAppend`, `DownloadsCut`, `DownloadsJoin`).

`EventsProofs` proves what these need of sums.  The library's `SumFunctionOnSet` is recursive over
the subsets of a set, of which it takes an element by `CHOOSE`; it is shown to be defined for every
finite set (`SumExists`, by induction on the cardinality) and to take out any element (`SumSplits`),
from which follow sums of two functions, over two sets, by other names, by lines or columns, by
groups.  What holds of the empty set and of one more element holds of a finite set (`OneByOne`,
derived from the well-foundedness of strict inclusion).

`GraphProofs` also proves the two loops correct.  `ClosureCloses`: the closure of features runs as
many rounds as there may be features; a round that adds nothing is the last, and otherwise each
adds one, so by cardinality the result is closed.  What the code considers active therefore contains
`LeastFeatures`, by which `IsClosed` is stated.  `ActiveDeps`: the filter keeps exactly the active
dependencies.

**What stays with TLC.**  Liveness (`EveryJobEnds`, `WorkerComesBack`, `EveryCallAnswers`,
`AcceptedIsListed`, `HeadsAreAnalysed`, `FlagsFollowAdvisories`, `DownloadsCounted`,
`RequestsAnswered`), as the proof system has no rule for fairness.  The findings, which are
refutations.  Every invariant and every safety property of the steps that a passing run checks is
a theorem.

## Not modelled

* *Listeners* of the pool and of the jobs: nothing in the registry depends on what they see.  That
  `send_event` waits for one that stops reading is a hazard without a property.
* *Helpers* (`utils/concurrent.rs`): a window over independent futures; who uses it does not see
  the order.
* *Migrations*: run once, in one transaction, before anything else.  What could be wrong is in the
  text of the SQL.
* *Configuration*, *errors*, *hashes*, *signals*, *generated names*: values and formatting.
* *OSV documents*, *Cargo.toml*, *semver*: the modules take what parsing yields; versions are
  ranks, requirements are sets of ranks.
* *The analysis that a page asks for*: the same closure and the same copies as the worker's, under
  the same mutexes; it records nothing.
* *A row without its line* in the dependency analysis: `StartJob` finds a version in the database,
  where the code reads the index, and fails.  Such a row fails every round at its turn.
* *A deletion that leaves a package without owner*: `OwnersRemain` speaks of the requests about
  owners, as the text it quotes does.
* *Git's own work* (remotes, packs), *mail transport*, *the web application*, *encryption of
  cookies*.

## Plan

What is left, in this order:

1. `Publish`: the lists of owners of `Accounts` (an owner removed while it publishes), the line
   cut before its end.
2. `Listeners`: the events of the pool and of the jobs, their order, and a listener that stops.
3. `Heartbeat`: the codes and the two timers of a connection.
