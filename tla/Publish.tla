------------------------------ MODULE Publish ------------------------------
(***************************************************************************)
(* Publishing, removing and yanking the versions of one package, over the  *)
(* three places that hold them: the database                               *)
(* (src/src/services/database/packages.rs), the storage                    *)
(* (src/src/services/storage.rs) and the git index                         *)
(* (src/src/services/index/git.rs), as src/src/application.rs orders them. *)
(*                                                                         *)
(* The package is every spelling of one lowercase name.  The pool has one  *)
(* write connection: a transaction that only touches the database is one   *)
(* action, the one of a removal holds the connection while it works on the *)
(* index.  The index is behind a mutex, held from the change of the file   *)
(* to the commit.  Git and the storage are external.  A refused request    *)
(* changes nothing, so only the refusals of publish and remove, which a    *)
(* caller waits for, are steps.                                            *)
(*                                                                         *)
(* A line of the index is what it lists, not its bytes: its features are a *)
(* HashMap, which comes out in any order each time the line is written, so *)
(* that a file of the same lines may or may not be new to git.             *)
(***************************************************************************)
EXTENDS Integers, Sequences, FiniteSets

CONSTANTS Callers,      \* the users, each with at most one request in progress
          Admins,       \* those with the role admin
          Versions,
          Contents,     \* what an upload holds, as told apart by its checksum
          ManyFeatures, \* those with several features
          Names,        \* the spellings of the name of the package
          Lowercase,    \* the one in lowercase
          None,         \* no name, no content, no caller
          Removable,    \* the values the managers give to canRemove
          Failures,     \* what may fail: "storage", "git", "client" (it disconnects)
          MaxFailures   \* bound: how often one of them fails

ASSUME AdminsAssumption == Admins \subseteq Callers
ASSUME LowercaseAssumption == Lowercase \in Names
ASSUME ManyFeaturesAssumption == ManyFeatures \subseteq Contents
ASSUME NoneAssumption == None \notin Callers \cup Contents \cup Names
ASSUME RemovableAssumption == Removable \subseteq BOOLEAN
ASSUME FailuresAssumption == Failures \subseteq {"storage", "git", "client"}
ASSUME MaxFailuresAssumption == MaxFailures \in Nat

VARIABLES
    package,    \* Package.name, None before the first publish
    owners,     \* PackageOwner
    canRemove,  \* Package.canRemove
    rows,       \* PackageVersion: "absent", "live" or "yanked"
    writer,     \* who holds the write connection across steps
    stored,     \* the files of each version in the storage
    file,       \* the lines of the package's file in the working tree of the index
    head,       \* the same file in the last commit
    orphans,    \* what the git commands left behind by their request may commit
    lock,       \* who holds the mutex of the index
    jobs,       \* the versions whose documentation was queued by a publish
    calls,      \* the request of each caller
    removed,    \* ghost: the versions whose removal was let through
    overtaken,  \* ghost: those removed before they were listed, all the same
    failures    \* how much of MaxFailures is used

dbVars == <<package, owners, canRemove, rows, writer>>
indexVars == <<file, head, orphans, lock>>
ghostVars == <<removed, overtaken>>
vars == <<dbVars, stored, indexVars, jobs, calls, ghostVars, failures>>

-----------------------------------------------------------------------------

(* The files of a version.                                                 *)
Files == {"data", "metadata", "readme"}

Line == [vers : Versions, cksum : Contents, yanked : {FALSE}]

(* The lines of a version in a file.                                       *)
LinesOf(f, v) == {i \in DOMAIN f : f[i].vers = v}
Lines(v) == LinesOf(file, v)

(* The line of an upload.                                                  *)
build_index_data(k) == [vers |-> k.version, cksum |-> k.content, yanked |-> FALSE]

Idle == [at |-> "idle", op |-> "none", name |-> None, version |-> None, content |-> None]

PublishCall ==
    [at : {"begin", "index", "commit", "docs"} \cup Files, op : {"publish"},
     name : Names, version : Versions, content : Contents]

RemoveCall ==
    [at : {"begin", "index", "commit", "close"}, op : {"remove"},
     name : Names, version : Versions, content : {None}]

Call == {Idle} \cup PublishCall \cup RemoveCall

TypeOK ==
    /\ package \in Names \cup {None}
    /\ owners \subseteq Callers
    /\ canRemove \in BOOLEAN
    /\ rows \in [Versions -> {"absent", "live", "yanked"}]
    /\ writer \in Callers \cup {None}
    /\ stored \in [Versions -> [Files -> Contents \cup {None}]]
    /\ file \in Seq(Line)
    /\ head \in Seq(Line)
    /\ orphans \subseteq Seq(Line)
    /\ lock \in Callers \cup {None}
    /\ jobs \subseteq Versions
    /\ calls \in [Callers -> Call]
    /\ removed \subseteq Versions
    /\ overtaken \subseteq Versions
    /\ failures \in 0 .. MaxFailures

Init ==
    /\ package = None
    /\ owners = {}
    /\ canRemove = FALSE
    /\ rows = [v \in Versions |-> "absent"]
    /\ writer = None
    /\ stored = [v \in Versions |-> [p \in Files |-> None]]
    /\ file = <<>>
    /\ head = <<>>
    /\ orphans = {}
    /\ lock = None
    /\ jobs = {}
    /\ calls = [c \in Callers |-> Idle]
    /\ removed = {}
    /\ overtaken = {}
    /\ failures = 0

-----------------------------------------------------------------------------

At(c, op, step) == calls[c].op = op /\ calls[c].at = step
Goto(c, step) == calls' = [calls EXCEPT ![c].at = step]

Free(holder, c) == IF holder = c THEN None ELSE holder

(* The request ends: its transaction is rolled back, its guards dropped.   *)
Answer(c) ==
    /\ calls' = [calls EXCEPT ![c] = Idle]
    /\ writer' = Free(writer, c)
    /\ lock' = Free(lock, c)

check_is_crate_manager(c, n) == c \in Admins \/ (n = package /\ c \in owners)

(* A transaction of the database alone, for a manager of the package.      *)
Transaction(c) ==
    /\ calls[c].at = "idle"
    /\ writer = None
    /\ package # None
    /\ check_is_crate_manager(c, package)

(* A publish that its transaction let through and that has no line yet,    *)
(* and the files it has written.                                           *)
Pending(c, v) ==
    /\ calls[c].op = "publish"
    /\ calls[c].version = v
    /\ calls[c].at \in Files \cup {"index"}

-----------------------------------------------------------------------------
(* Publish.                                                                *)

RequestPublish(c, n, v, x) ==
    /\ calls[c].at = "idle"
    /\ calls' = [calls EXCEPT ![c] = [at |-> "begin", op |-> "publish",
                                      name |-> n, version |-> v, content |-> x]]
    /\ UNCHANGED <<dbVars, stored, indexVars, jobs, ghostVars, failures>>

(* A mutated form: the index is asked, not the database.                   *)
VersionExists_Index(n, v) == n = package /\ \E i \in DOMAIN file : file[i].vers = v

VersionExists(n, v) == n = package /\ rows[v] # "absent"

(* The package is registered and is not the one that is published.         *)
OtherPackage(n) == package # None /\ package # Lowercase

(* The last conjunct is the foreign key of PackageVersion.package.         *)
CanPublish(c, n, v) ==
    /\ ~VersionExists(n, v)
    /\ ~OtherPackage(n)
    /\ package # None => check_is_crate_manager(c, n) /\ n = package

publish_crate_version(c) ==
    LET n == calls[c].name
        v == calls[c].version
    IN /\ At(c, "publish", "begin")
       /\ writer = None
       /\ CanPublish(c, n, v)
       /\ package' = n
       /\ owners' = IF package = None THEN {c} ELSE owners
       /\ rows' = [rows EXCEPT ![v] = "live"]
       /\ Goto(c, "data")
       /\ UNCHANGED <<canRemove, writer, stored, indexVars, jobs, ghostVars, failures>>

PublishRefused(c) ==
    /\ At(c, "publish", "begin")
    /\ writer = None
    /\ ~CanPublish(c, calls[c].name, calls[c].version)
    /\ Answer(c)
    /\ UNCHANGED <<package, owners, canRemove, rows, stored, file, head, orphans, jobs, ghostVars, failures>>

(* store_crate writes the files in this order.                             *)
NextPart(p) == CASE p = "data" -> "metadata"
                 [] p = "metadata" -> "readme"
                 [] p = "readme" -> "index"

(* One write of store_crate.                                               *)
store_crate(c, p) ==
    /\ At(c, "publish", p)
    /\ stored' = [stored EXCEPT ![calls[c].version][p] = calls[c].content]
    /\ Goto(c, NextPart(p))
    /\ UNCHANGED <<dbVars, indexVars, jobs, ghostVars, failures>>

(* The mutex is taken and the line is appended to the file.                *)
AppendLine(c) ==
    /\ At(c, "publish", "index")
    /\ lock = None
    /\ lock' = c
    /\ file' = Append(file, build_index_data(calls[c]))
    /\ Goto(c, "commit")
    /\ UNCHANGED <<dbVars, stored, head, orphans, jobs, ghostVars, failures>>

(* A mutated form: empty commits are allowed.                              *)
GitCommits_Empty == TRUE

(* A file of the lines of the last commit that may differ in its bytes.    *)
Reordered == file = head /\ \E i \in DOMAIN file : file[i].cksum \in ManyFeatures

(* git commit fails when there is nothing to commit, byte for byte.        *)
GitCommits == file # head \/ Reordered

(* The version that a request removes while its publish has yet to list    *)
(* it, when only the order of another line lets the commit through.        *)
Overtaken(c) ==
    {v \in {calls[c].version} : Reordered /\ \E d \in Callers : Pending(d, v)}

(* A mutated form: git commit without git add.                             *)
commit_changes_NotAdded(c, op, next) ==
    /\ At(c, op, "commit")
    /\ GitCommits
    /\ lock' = None
    /\ overtaken' = overtaken \cup Overtaken(c)
    /\ Goto(c, next)
    /\ UNCHANGED <<dbVars, stored, file, head, orphans, jobs, removed, failures>>

(* A mutated form: a publish keeps the mutex until its jobs are queued.    *)
commit_changes_Locked(c, op, next) ==
    /\ At(c, op, "commit")
    /\ GitCommits
    /\ head' = file
    /\ lock' = IF op = "publish" THEN c ELSE None
    /\ overtaken' = overtaken \cup Overtaken(c)
    /\ Goto(c, next)
    /\ UNCHANGED <<dbVars, stored, file, orphans, jobs, removed, failures>>

commit_changes(c, op, next) ==
    /\ At(c, op, "commit")
    /\ GitCommits
    /\ head' = file
    /\ lock' = None
    /\ overtaken' = overtaken \cup Overtaken(c)
    /\ Goto(c, next)
    /\ UNCHANGED <<dbVars, stored, file, orphans, jobs, removed, failures>>

(* The last step: one job for each target, in transactions of their own.   *)
queue(c) ==
    /\ At(c, "publish", "docs")
    /\ writer = None
    /\ jobs' = jobs \cup {calls[c].version}
    /\ Answer(c)
    /\ UNCHANGED <<package, owners, canRemove, rows, stored, file, head, orphans, ghostVars, failures>>

Publishing(c) ==
    \/ publish_crate_version(c)
    \/ PublishRefused(c)
    \/ \E p \in Files : store_crate(c, p)
    \/ AppendLine(c)
    \/ commit_changes(c, "publish", "docs")
    \/ queue(c)

-----------------------------------------------------------------------------
(* Remove.                                                                 *)

RequestRemove(c, n, v) ==
    /\ calls[c].at = "idle"
    /\ calls' = [calls EXCEPT ![c] = [at |-> "begin", op |-> "remove",
                                      name |-> n, version |-> v, content |-> None]]
    /\ UNCHANGED <<dbVars, stored, indexVars, jobs, ghostVars, failures>>

(* canRemove is looked up by the lowercase name.                           *)
CanRemove(c, n, v) ==
    /\ package # None
    /\ check_is_crate_manager(c, n)
    /\ n = Lowercase /\ canRemove
    /\ VersionExists(n, v)

(* The rows are deleted in a transaction that stays open.                  *)
remove_crate_version(c) ==
    /\ At(c, "remove", "begin")
    /\ writer = None
    /\ CanRemove(c, calls[c].name, calls[c].version)
    /\ writer' = c
    /\ removed' = removed \cup {calls[c].version}
    /\ Goto(c, "index")
    /\ UNCHANGED <<package, owners, canRemove, rows, stored, indexVars, jobs, overtaken, failures>>

RemoveRefused(c) ==
    /\ At(c, "remove", "begin")
    /\ writer = None
    /\ ~CanRemove(c, calls[c].name, calls[c].version)
    /\ Answer(c)
    /\ UNCHANGED <<package, owners, canRemove, rows, stored, file, head, orphans, jobs, ghostVars, failures>>

(* A mutated form: the version is kept, and the others removed.            *)
Kept_Inverted(c) == {i \in DOMAIN file : file[i].vers = calls[c].version}

(* The lines that stay, and the file of these lines in their order.        *)
Kept(c) == {i \in DOMAIN file : file[i].vers # calls[c].version}

Position(K, k) == Cardinality({j \in K : j <= k})

Retained(c) ==
    [i \in 1 .. Cardinality(Kept(c)) |->
        file[CHOOSE k \in Kept(c) : Position(Kept(c), k) = i]]

(* The file is read, truncated and written back, all under the mutex.      *)
RewriteFile(c) ==
    /\ At(c, "remove", "index")
    /\ lock = None
    /\ lock' = c
    /\ file' = Retained(c)
    /\ Goto(c, "commit")
    /\ UNCHANGED <<dbVars, stored, head, orphans, jobs, ghostVars, failures>>

(* The version was not in the index, and the other lines came out in their *)
(* old orders: the transaction is rolled back.                             *)
NothingToCommit(c) ==
    /\ calls[c].at = "commit"
    /\ file = head
    /\ Answer(c)
    /\ UNCHANGED <<package, owners, canRemove, rows, stored, file, head, orphans, jobs, ghostVars, failures>>

(* The transaction is committed.                                           *)
CloseRemoval(c) ==
    /\ At(c, "remove", "close")
    /\ rows' = [rows EXCEPT ![calls[c].version] = "absent"]
    /\ Answer(c)
    /\ UNCHANGED <<package, owners, canRemove, stored, file, head, orphans, jobs, ghostVars, failures>>

Removing(c) ==
    \/ remove_crate_version(c)
    \/ RemoveRefused(c)
    \/ RewriteFile(c)
    \/ commit_changes(c, "remove", "close")
    \/ NothingToCommit(c)
    \/ CloseRemoval(c)

-----------------------------------------------------------------------------
(* Transactions of the database alone.                                     *)

yank_crate_version(c, v) ==
    /\ Transaction(c)
    /\ rows[v] = "live"
    /\ rows' = [rows EXCEPT ![v] = "yanked"]
    /\ UNCHANGED <<package, owners, canRemove, writer, stored, indexVars, jobs, calls, ghostVars, failures>>

unyank_crate_version(c, v) ==
    /\ Transaction(c)
    /\ rows[v] = "yanked"
    /\ rows' = [rows EXCEPT ![v] = "live"]
    /\ UNCHANGED <<package, owners, canRemove, writer, stored, indexVars, jobs, calls, ghostVars, failures>>

set_crate_can_remove(c, b) ==
    /\ Transaction(c)
    /\ canRemove' = b
    /\ UNCHANGED <<package, owners, rows, writer, stored, indexVars, jobs, calls, ghostVars, failures>>

-----------------------------------------------------------------------------
(* Failures.                                                               *)

(* The pool of write connections times out while another request holds it. *)
PoolTimedOut(c) ==
    /\ calls[c].at \in {"begin", "docs"}
    /\ writer # None
    /\ Answer(c)
    /\ UNCHANGED <<package, owners, canRemove, rows, stored, file, head, orphans, jobs, ghostVars, failures>>

MayFail(what) == what \in Failures /\ failures < MaxFailures
Fail(c) == Answer(c) /\ failures' = failures + 1

(* A mutated form: the error is only logged.                               *)
StorageFails_Ignored(c) ==
    /\ MayFail("storage")
    /\ calls[c].at \in Files
    /\ Goto(c, NextPart(calls[c].at))
    /\ failures' = failures + 1
    /\ UNCHANGED <<dbVars, stored, indexVars, jobs, ghostVars>>

(* A write to the storage fails, all its retries included.                 *)
StorageFails(c) ==
    /\ MayFail("storage")
    /\ calls[c].at \in Files
    /\ Fail(c)
    /\ UNCHANGED <<package, owners, canRemove, rows, stored, file, head, orphans, jobs, ghostVars>>

(* A git command fails: add or commit (as when a command left behind holds *)
(* git's own lock), or, once the commit is done, update-server-info or     *)
(* push.                                                                   *)
GitFails(c) ==
    /\ MayFail("git")
    /\ calls[c].at = "commit"
    /\ Fail(c)
    /\ head' \in {head, file}
    /\ UNCHANGED <<package, owners, canRemove, rows, stored, file, orphans, jobs, ghostVars>>

(* The client leaves a removal between the truncation of the file and the  *)
(* last of its lines.                                                      *)
RewriteCut(c) ==
    /\ MayFail("client")
    /\ At(c, "remove", "index")
    /\ lock = None
    /\ \E i \in 0 .. Len(Retained(c)) : file' = SubSeq(Retained(c), 1, i)
    /\ Fail(c)
    /\ UNCHANGED <<package, owners, canRemove, rows, stored, head, orphans, jobs, ghostVars>>

(* The client closes the connection and the handler is dropped, with its   *)
(* guards, but the git command it waits for is not killed.                 *)
ClientLeaves(c) ==
    /\ MayFail("client")
    /\ calls[c].at # "idle"
    /\ orphans' \in {orphans, IF calls[c].at = "commit" THEN orphans \cup {file} ELSE orphans}
    /\ Fail(c)
    /\ UNCHANGED <<package, owners, canRemove, rows, stored, file, head, jobs, ghostVars>>

(* Such a command ends: it has committed what its own request had added,   *)
(* or what the one that holds the mutex has added since, or it has failed. *)
OrphanEnds(f) ==
    /\ orphans' = orphans \ {f}
    /\ head' \in {head, f} \cup (IF lock = None THEN {} ELSE {file})
    /\ UNCHANGED <<dbVars, stored, file, lock, jobs, calls, ghostVars, failures>>

-----------------------------------------------------------------------------

Next ==
    \/ \E c \in Callers :
          \/ \E n \in Names, v \in Versions :
                \/ RequestRemove(c, n, v)
                \/ \E x \in Contents : RequestPublish(c, n, v, x)
          \/ Publishing(c)
          \/ Removing(c)
          \/ \E v \in Versions : yank_crate_version(c, v) \/ unyank_crate_version(c, v)
          \/ \E b \in Removable : set_crate_can_remove(c, b)
          \/ PoolTimedOut(c)
          \/ StorageFails(c)
          \/ GitFails(c)
          \/ RewriteCut(c)
          \/ ClientLeaves(c)
    \/ \E f \in orphans : OrphanEnds(f)

Spec == Init /\ [][Next]_vars

(* The runtime polls every request.  The pool of connections and the mutex *)
(* serve those that wait in their order of arrival: a request that finds   *)
(* them free again and again is served (strong fairness).                  *)
Fairness == \A c \in Callers : SF_vars(Publishing(c) \/ Removing(c))

FairSpec == Spec /\ Fairness

-----------------------------------------------------------------------------
(* Properties.                                                             *)

Listed(v) == Lines(v) # {}

(* What cargo needs of a version that a file of the index lists: one line, *)
(* a row for the download, and files which all come from the upload that   *)
(* is listed.                                                              *)
SoundIn(f, v) ==
    \A i, j \in LinesOf(f, v) :
        /\ i = j
        /\ rows[v] # "absent"
        /\ \A p \in Files : stored[v][p] = f[i].cksum

Sound(v) == SoundIn(file, v)

(* Whatever publishes, removals and yanks overlap, the index lists a       *)
(* version at most once, and every listed version can be downloaded with   *)
(* the checksum of its line (the orders of application.rs:433 and 542).    *)
(* Not so a version whose removal came before its line and went through    *)
(* all the same, because another line came out in another order.           *)
IndexIsSound == \A v \in Versions \ overtaken : Sound(v)

(* The same whatever fails, for a version that was never to be removed: a  *)
(* publish that was cut short leaves no line without its files, and        *)
(* publishing again replaces nothing.                                      *)
NeverRemovedIsSound == \A v \in Versions \ removed : Sound(v)

(* The same of what git clients fetch: a commit may be late or never done, *)
(* or be made by a command that outlived its request and the mutex         *)
(* (utils/mod.rs:54), after others have worked on the file.                *)
CommitsAreSound == \A v \in Versions \ removed : SoundIn(head, v)

(* When nobody works on the index, cargo sees the same versions through    *)
(* the sparse protocol (the file) and through git (the last commit).       *)
HeadIsFile == lock = None => head = file

(* A documentation job is queued once all the files of its version are     *)
(* stored: the worker that builds it downloads them.                       *)
JobHasCrate == \A v \in jobs : \A p \in Files : stored[v][p] # None

(* A removal waits for the mutex while it holds the write connection, and  *)
(* a publish takes both: every request is answered all the same, and none  *)
(* has to be refused the connection for it.                                *)
EveryCallAnswers == \A c \in Callers : calls[c].at # "idle" ~> calls[c].at = "idle"

(* When nothing fails, a version that the database accepted is listed by   *)
(* the index, unless it is removed: there is no half published version.    *)
AcceptedIsListed == \A v \in Versions : rows[v] = "live" ~> Listed(v) \/ rows[v] = "absent"

Written(step) == CASE step = "data" -> {}
                   [] step = "metadata" -> {"data"}
                   [] step = "readme" -> {"data", "metadata"}
                   [] OTHER -> Files

(* The files that a publish is past are in the storage, whoever else       *)
(* publishes or removes the version: a file is replaced, never deleted.    *)
StorageInv ==
    /\ JobHasCrate
    /\ \A c \in Callers : calls[c].op = "publish" /\ calls[c].at # "begin" =>
          \A p \in Written(calls[c].at) : stored[calls[c].version][p] # None

(* A file lists no version without a row, nor one that is being published. *)
ListedInv(f, v) ==
    /\ rows[v] = "absent" => LinesOf(f, v) = {}
    /\ \A c \in Callers : Pending(c, v) => LinesOf(f, v) = {}
    /\ SoundIn(f, v)

(* One request at most publishes a version, and has written its own files. *)
UploadInv(v) ==
    /\ ListedInv(file, v)
    /\ \A c \in Callers : Pending(c, v) =>
          /\ rows[v] # "absent"
          /\ \A p \in Written(calls[c].at) : stored[v][p] = calls[c].content
    /\ \A c, d \in Callers : Pending(c, v) /\ Pending(d, v) => c = d

(* The write connection is kept by removals only, the mutex from the       *)
(* change of the file to its commit.                                       *)
HolderInv ==
    \A c \in Callers :
        /\ writer = c <=> calls[c].op = "remove" /\ calls[c].at \in {"index", "commit", "close"}
        /\ lock = c <=> calls[c].at = "commit"

RemovalInv ==
    /\ package = None => \A v \in Versions : rows[v] = "absent"
    /\ \A c \in Callers : writer = c => calls[c].version \in removed

(* Until something fails, a removal that commits took a line away, so that *)
(* the publish of that line is over, unless it is one of overtaken.        *)
CleanInv ==
    failures = 0 =>
        /\ orphans = {}
        /\ lock = None => head = file
        /\ \A c \in Callers : writer = c /\ calls[c].version \notin overtaken =>
              /\ calls[c].at \in {"commit", "close"} => Lines(calls[c].version) = {}
              /\ calls[c].at = "close" \/ (calls[c].at = "commit" /\ file # head)
                    => \A d \in Callers : ~Pending(d, calls[c].version)

(* What may be listed, now or by a commit to come.                         *)
Commits == {head} \cup orphans

(* The inductive invariant from which the safety properties follow: it     *)
(* links the step of every request of application.rs:433 and 542 to what   *)
(* the database, the storage and the index hold.                           *)
IInv ==
    /\ TypeOK
    /\ HolderInv
    /\ RemovalInv
    /\ CleanInv
    /\ StorageInv
    /\ \A v \in Versions :
          v \notin removed \/ (failures = 0 /\ v \notin overtaken) => UploadInv(v)
    /\ \A v \in Versions \ removed, f \in Commits : ListedInv(f, v)

(* What the comment "check this is the same package" says                  *)
(* (packages.rs:198): a new version of the registered package, published   *)
(* under its name by a manager, is not refused as another package.         *)
SamePackageIsAccepted ==
    [][\A c \in Callers :
          /\ At(c, "publish", "begin") /\ calls'[c] = Idle
          /\ writer = None
          /\ calls[c].name = package
          /\ check_is_crate_manager(c, package)
          => rows[calls[c].version] # "absent"]_vars

(* What the comment of IndexCrateMetadata.yanked says, "whether this       *)
(* version has been yanked" (cargo.rs:365): when no request is in          *)
(* progress, the line of a listed version tells whether it is yanked.      *)
YankedIsInIndex ==
    (\A c \in Callers : calls[c].at = "idle") =>
        \A i \in DOMAIN file : file[i].yanked = (rows[file[i].vers] = "yanked")
=============================================================================
