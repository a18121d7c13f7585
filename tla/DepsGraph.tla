----------------------------- MODULE DepsGraph ------------------------------
(***************************************************************************)
(* The closure of the dependencies of a crate: DepsGraph of                *)
(* src/src/model/deps.rs, with what it asks of a crate in the index        *)
(* (src/src/model/cargo.rs).                                               *)
(*                                                                         *)
(* A version is its rank in the order of semver, a requirement the set of  *)
(* ranks that it matches.  A feature is one of                             *)
(*     <<"plain", f>>    <<"dep", crate>>      for f       dep:crate       *)
(*     <<"sub", crate, f>>  <<"weak", crate, f>>  crate/f  crate?/f        *)
(* and the features, the origins, the unknowns and the unresolved          *)
(* requirements, vectors filled by push_if_not_present, are sets.          *)
(***************************************************************************)
EXTENDS Naturals, Sequences, SequencesExt

CONSTANTS NoRegistry,      \* the registry of a dependency in the same registry
          Builtin,         \* the registry of core, alloc and std
          BuiltinCrates,
          NoTarget         \* the target of a dependency for every target

Kinds == {"Normal", "Dev", "Build"}

-----------------------------------------------------------------------------
(* What an index says                                                      *)

IsVector(s) == s \in Seq(Range(s))

IsDependency(dep) ==
    /\ dep = [registry |-> dep.registry, name |-> dep.name, req |-> dep.req, kind |-> dep.kind,
              target |-> dep.target, optional |-> dep.optional,
              default_features |-> dep.default_features, features |-> dep.features]
    /\ IsFiniteSet(dep.features)

KnownFeatures(version) == UNION {version.features[f] : f \in DOMAIN version.features}

IsListed(version) ==
    /\ version.rank \in Nat /\ IsFiniteSet(KnownFeatures(version))
    /\ IsVector(version.deps) /\ \A dep \in Range(version.deps) : IsDependency(dep)

-----------------------------------------------------------------------------
(* Dependencies and features                                               *)

(* A dependency for a target must be for one of the targets by its name: a *)
(* cfg(...) target is the name of none.  An optional one is activated by   *)
(* dep:name or name/feature, which name?/feature does not.                 *)
is_active_for(dep, targets, features) ==
    /\ dep.target \in targets \cup {NoTarget}
    /\ dep.optional => \E f \in features : f[1] \in {"dep", "sub"} /\ f[2] = dep.name

(* Those of a list that are active, in its order: the first n give the     *)
(* n-th list.                                                              *)
ActiveAmong(deps, targets, features) ==
    LET active[n \in 0..Len(deps)] ==
            IF n = 0 THEN << >>
            ELSE IF is_active_for(deps[n], targets, features) THEN Append(active[n - 1], deps[n])
            ELSE active[n - 1]
    IN  active

active_deps(deps, targets, features) == ActiveAmong(deps, targets, features)[Len(deps)]

get_feature(version, f) == IF f \in DOMAIN version.features THEN version.features[f] ELSE {}

(* The features reached from some, after as many rounds as there may be    *)
(* features.                                                               *)
Reaching(version, from) ==
    LET reached[n \in 0..Cardinality(from \cup KnownFeatures(version))] ==
            IF n = 0 THEN from
            ELSE reached[n - 1] \cup UNION {get_feature(version, f) : f \in reached[n - 1]}
    IN  reached

FeatureClosure(version, from) ==
    Reaching(version, from)[Cardinality(from \cup KnownFeatures(version))]

get_active_features(resolution, version) ==
    FeatureClosure(version,
        resolution.features \cup
        IF resolution.default_features THEN get_feature(version, <<"plain", "default">>) ELSE {})

(* The features that active ones ask of a dependency.                      *)
SubFeatures(dep, active) ==
    {<<"plain", f[3]>> : f \in {f \in active : f[1] \in {"sub", "weak"} /\ f[2] = dep.name}}

-----------------------------------------------------------------------------
(* Origins                                                                 *)

DevOrigins == {"DirectDev", "DevNormalIndirect", "DevBuildIndirect"}
BuildOrigins == {"DirectBuild", "BuildIndirect", "DevBuildIndirect"}

Direct(kind) == "Direct" \o kind

(* The origin of a dependency that a crate of some origin depends on; the  *)
(* dev-dependencies of dependencies are dropped.                           *)
child_of_kind(origin, kind) ==
    LET build == kind = "Build" \/ origin \in BuildOrigins
    IN  CASE origin \in DevOrigins /\ build   -> "DevBuildIndirect"
          [] origin \in DevOrigins /\ ~build  -> "DevNormalIndirect"
          [] origin \notin DevOrigins /\ build  -> "BuildIndirect"
          [] OTHER                            -> "NormalIndirect"

ChildOrigins(origins, kind) ==
    IF kind = "Dev" THEN {} ELSE {child_of_kind(o, kind) : o \in origins}

-----------------------------------------------------------------------------
(* Crates in the graph                                                     *)

(* The ranks of the versions that are neither yanked nor pre-releases.     *)
StableRanks(versions) ==
    {versions[i].rank : i \in {i \in DOMAIN versions : ~versions[i].yanked /\ ~versions[i].pre}}

(* The dependencies in the same registry are those of the parent's, and    *)
(* the built-in crates are in a registry of their own.                     *)
rewrite_builtin_deps(deps, registry) ==
    [i \in DOMAIN deps |->
        CASE deps[i].registry # NoRegistry   -> deps[i]
          [] deps[i].name \in BuiltinCrates  -> [deps[i] EXCEPT !.registry = Builtin]
          [] OTHER                           -> [deps[i] EXCEPT !.registry = registry]]

(* The last version is the maximum of the stable ones: none is a panic, so *)
(* this is only asked when there is one.                                   *)
NewCrate(dep, versions) ==
    [registry |-> dep.registry, name |-> dep.name,
     versions |-> [i \in DOMAIN versions |->
                     [rank |-> versions[i].rank, features |-> versions[i].features,
                      is_outdated |-> versions[i].rank < Max(StableRanks(versions)),
                      deps |-> rewrite_builtin_deps(versions[i].deps, dep.registry)]],
     resolutions |-> << >>, unresolved |-> {}]

(* The last of the versions with the highest rank that a requirement       *)
(* matches, yanked or not; 0 when there is none.                           *)
BestVersion(versions, req) ==
    LET matching == {i \in DOMAIN versions : versions[i].rank \in req}
        highest  == {i \in matching : \A j \in matching : versions[j].rank <= versions[i].rank}
    IN  IF matching = {} THEN 0 ELSE Max(highest)

ResolutionOf(c, version_index) ==
    SelectInSeq(c.resolutions, LAMBDA r : r.version_index = version_index)

(* A resolution that is reached again, with features and origins.          *)
Reached(s, features, origins) ==
    [s EXCEPT !.features = @ \cup features, !.origins = @ \cup origins]

X_resolve_in_FeaturesOnly(c, dep, features, origins) ==
    LET v == BestVersion(c.versions, dep.req)
        r == ResolutionOf(c, v)
    IN  CASE v = 0 -> [crate |-> [c EXCEPT !.unresolved = @ \cup {dep.req}], resolution |-> 0]
          [] v # 0 /\ r # 0 ->
               [crate |-> [c EXCEPT !.resolutions[r] = Reached(c.resolutions[r], features, origins)],
                resolution |-> IF features \subseteq c.resolutions[r].features THEN 0 ELSE r]
          [] OTHER ->
               [crate |-> [c EXCEPT !.resolutions = Append(@,
                             [version_index |-> v, default_features |-> dep.default_features,
                              features |-> dep.features \cup features, origins |-> origins])],
                resolution |-> Len(c.resolutions) + 1]

(* Resolves a version of a crate for a dependency.  A version resolved     *)
(* before takes the new origins and the features asked of it by the        *)
(* features of the dependant, not those of the dependency itself.  The     *)
(* result names the resolution to visit, 0 when nothing changed.           *)
resolve_in(c, dep, features, origins) ==
    LET v == BestVersion(c.versions, dep.req)
        r == ResolutionOf(c, v)
    IN  CASE v = 0 -> [crate |-> [c EXCEPT !.unresolved = @ \cup {dep.req}], resolution |-> 0]
          [] v # 0 /\ r # 0 ->
               [crate |-> [c EXCEPT !.resolutions[r] = Reached(c.resolutions[r], features, origins)],
                resolution |-> IF /\ features \subseteq c.resolutions[r].features
                                  /\ origins \subseteq c.resolutions[r].origins THEN 0 ELSE r]
          [] OTHER ->
               [crate |-> [c EXCEPT !.resolutions = Append(@,
                             [version_index |-> v, default_features |-> dep.default_features,
                              features |-> dep.features \cup features, origins |-> origins])],
                resolution |-> Len(c.resolutions) + 1]

(* The active dependencies of a resolution, with the features asked of     *)
(* each, in the order of the index.                                        *)
get_active_deps_in(c, r, targets) ==
    LET version == c.versions[c.resolutions[r].version_index]
        active  == get_active_features(c.resolutions[r], version)
        deps    == active_deps(version.deps, targets, active)
    IN  [i \in DOMAIN deps |-> [dep |-> deps[i], features |-> SubFeatures(deps[i], active)]]

-----------------------------------------------------------------------------
(* The graph                                                               *)

NewGraph(targets) == [targets |-> targets, crates |-> << >>, unknowns |-> {}, dirty |-> << >>]

get_crate(graph, dep) ==
    SelectInSeq(graph.crates, LAMBDA c : c.registry = dep.registry /\ c.name = dep.name)

is_unknown(graph, dep) == <<dep.registry, dep.name>> \in graph.unknowns

push_dirty(dirty, entry) == IF \E i \in DOMAIN dirty : dirty[i] = entry THEN dirty ELSE Append(dirty, entry)

(* The versions of a crate are only asked for the first time.              *)
NeedsVersions(graph, dep) == get_crate(graph, dep) = 0 /\ ~is_unknown(graph, dep)

(* The graph with crate number k resolved for a dependency.                *)
ResolveCrate(graph, k, dep, features, origins) ==
    LET result == resolve_in(graph.crates[k], dep, features, origins)
    IN  [graph EXCEPT !.crates[k] = result.crate,
                      !.dirty = IF result.resolution = 0 THEN @
                                ELSE push_dirty(@, <<k, result.resolution>>)]

(* Resolves a dependency whose crate is in the graph or known to fail.     *)
ResolveKnown(graph, dep, features, origins) ==
    IF is_unknown(graph, dep) THEN graph
    ELSE ResolveCrate(graph, get_crate(graph, dep), dep, features, origins)

(* Resolves a dependency whose crate is new, with the versions obtained.   *)
ResolveNew(graph, dep, features, origins, versions) ==
    ResolveCrate([graph EXCEPT !.crates = Append(@, NewCrate(dep, versions))],
                 Len(graph.crates) + 1, dep, features, origins)

(* A crate whose versions could not be obtained is left out.               *)
ResolveFailed(graph, dep) ==
    [graph EXCEPT !.unknowns = @ \cup {<<dep.registry, dep.name>>}]

-----------------------------------------------------------------------------
(* The analysis of a graph                                                 *)

(* The i-th direct dependency is paired with the i-th crate of the graph,  *)
(* whichever that is, and looked at if that has a resolution of its kind.  *)
IsOutdated(graph, directs, i) ==
    LET c == graph.crates[i]
        r == SelectInSeq(c.resolutions, LAMBDA s : Direct(directs[i].kind) \in s.origins)
    IN  r # 0 /\ c.versions[c.resolutions[r].version_index].is_outdated

HasOutdated(graph, directs) ==
    \E i \in DOMAIN directs : i \in DOMAIN graph.crates /\ IsOutdated(graph, directs, i)

(* Each version in the graph, by the name of its crate.                    *)
ResolvedVersions(graph) ==
    UNION {{[name |-> c.name, rank |-> c.versions[c.resolutions[r].version_index].rank] :
               r \in DOMAIN c.resolutions} : c \in Range(graph.crates)}

-----------------------------------------------------------------------------
(* What a closed graph is                                                  *)

(* A crate has a place for a dependency with features and origins: its     *)
(* highest version that is required has them, or is known not to exist.    *)
HasPlace(c, dep, features, origins) ==
    \/ dep.req \in c.unresolved
    \/ \E s \in Range(c.resolutions) :
         /\ c.versions[s.version_index].rank \in dep.req
         /\ \A v \in Range(c.versions) :
                v.rank \in dep.req => v.rank <= c.versions[s.version_index].rank
         /\ features \subseteq s.features /\ origins \subseteq s.origins

IsResolved(graph, dep, features, origins) ==
    \/ is_unknown(graph, dep)
    \/ \E c \in Range(graph.crates) :
         c.registry = dep.registry /\ c.name = dep.name /\ HasPlace(c, dep, features, origins)

(* What a resolution asks of a dependency of its version, said directly:   *)
(* features are the least set that holds the given ones and is closed.     *)
IsClosedSet(version, S) == \A f \in S : get_feature(version, f) \subseteq S

LeastFeatures(c, r) ==
    LET version == c.versions[r.version_index]
        all     == r.features \cup {<<"plain", "default">>}
                   \cup KnownFeatures(version)
        given   == r.features \cup
                   IF r.default_features THEN get_feature(version, <<"plain", "default">>) ELSE {}
        closed  == {S \in SUBSET all : given \subseteq S /\ IsClosedSet(version, S)}
    IN  {f \in all : \A S \in closed : f \in S}

ClosedAt(graph, c, r) ==
    \A dep \in Range(c.versions[r.version_index].deps) :
        LET active == LeastFeatures(c, r)
        IN  is_active_for(dep, graph.targets, active) /\ ChildOrigins(r.origins, dep.kind) # {}
            => IsResolved(graph, dep, SubFeatures(dep, active), ChildOrigins(r.origins, dep.kind))

IsClosed(graph) ==
    \A c \in Range(graph.crates) : \A r \in Range(c.resolutions) : ClosedAt(graph, c, r)

-----------------------------------------------------------------------------
(* What a graph is while it is being closed                                *)

IsResolution(c, s) ==
    /\ s = [version_index |-> s.version_index, default_features |-> s.default_features,
            features |-> s.features, origins |-> s.origins]
    /\ s.version_index \in DOMAIN c.versions /\ IsFiniteSet(s.features)

IsCrate(c) ==
    /\ c = [registry |-> c.registry, name |-> c.name, versions |-> c.versions,
            resolutions |-> c.resolutions, unresolved |-> c.unresolved]
    /\ IsVector(c.versions) /\ \A i \in DOMAIN c.versions : IsListed(c.versions[i])
    /\ IsVector(c.resolutions) /\ \A r \in DOMAIN c.resolutions : IsResolution(c, c.resolutions[r])

(* Where the resolutions of a graph are.                                   *)
IsPlace(g, place) ==
    \E k \in DOMAIN g.crates : \E r \in DOMAIN g.crates[k].resolutions : place = <<k, r>>

IsGraph(g) ==
    /\ g = [targets |-> g.targets, crates |-> g.crates, unknowns |-> g.unknowns, dirty |-> g.dirty]
    /\ IsVector(g.crates) /\ \A k \in DOMAIN g.crates : IsCrate(g.crates[k])
    /\ IsVector(g.dirty) /\ \A i \in DOMAIN g.dirty : IsPlace(g, g.dirty[i])

(* A dependency to resolve, direct or of a resolution.                     *)
Need(dep, features, from) == [dep |-> dep, features |-> features, from |-> from]

IsNeed(g, need) ==
    /\ need = Need(need.dep, need.features, need.from)
    /\ IsDependency(need.dep) /\ IsFiniteSet(need.features)
    /\ (need.from = << >> \/ IsPlace(g, need.from))

AreNeeds(g, needs) == IsVector(needs) /\ \A i \in DOMAIN needs : IsNeed(g, needs[i])

(* What a resolution asks for has its place, or is still to be resolved.   *)
IsVisited(g, needs, k, r) ==
    LET c       == g.crates[k]
        s       == c.resolutions[r]
        version == c.versions[s.version_index]
        active  == get_active_features(s, version)
    IN  \A dep \in Range(version.deps) :
            is_active_for(dep, g.targets, active) /\ ChildOrigins(s.origins, dep.kind) # {} =>
                \/ IsResolved(g, dep, SubFeatures(dep, active), ChildOrigins(s.origins, dep.kind))
                \/ Need(dep, SubFeatures(dep, active), <<k, r>>) \in Range(needs)

(* Each resolution that is not dirty was visited.                          *)
IsClosing(g, needs) ==
    \A k \in DOMAIN g.crates : \A r \in DOMAIN g.crates[k].resolutions :
        <<k, r>> \in Range(g.dirty) \/ IsVisited(g, needs, k, r)

(* Each direct dependency has its place, or is still to be resolved.       *)
AreDirects(g, needs, directs) ==
    \A dep \in Range(directs) :
        IsResolved(g, dep, {}, {Direct(dep.kind)}) \/ Need(dep, {}, << >>) \in Range(needs)
=============================================================================
