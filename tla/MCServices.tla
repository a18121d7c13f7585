----------------------------- MODULE MCServices -----------------------------
(***************************************************************************)
(* An instance of Services for TLC.                                        *)
(***************************************************************************)
EXTENDS Services

CONSTANTS a1, a2, a3, b1, c1, d1, r1, r2, r3, pa, pb, pc, pd, Linux, Crates, Sparse, Elsewhere, x, y, z, w, q, core

MCOrder == <<a3, a2, a1, b1, c1, d1>>
MCPackage == (a1 :> pa) @@ (a2 :> pa) @@ (a3 :> pa) @@ (b1 :> pb) @@ (c1 :> pc) @@ (d1 :> pd)
MCTargets == [v \in Versions |-> IF v = a2 THEN {Linux} ELSE {}]

Plain(f) == <<"plain", f>>
Base(name, registry) ==
    [name |-> name, registry |-> registry, req |-> {1}, kind |-> "Normal", target |-> NoTarget,
     optional |-> FALSE, default_features |-> FALSE, features |-> {}]
Stable(rank, features, deps) ==
    [rank |-> rank, yanked |-> FALSE, pre |-> FALSE, features |-> features, deps |-> deps]

(* a2 asks for y at its highest version, for x with its default features,  *)
(* and when it is tested for z of a registry that nobody configured; a1    *)
(* for one that its targets exclude and for x of the sparse registry; b1   *)
(* for q of this registry, which only has pre-releases.                    *)
MCDirects ==
    (a2 :> << [Base(y, Sparse) EXCEPT !.req = {1, 2}, !.kind = "Build"],
              [Base(x, Crates) EXCEPT !.default_features = TRUE],
              [Base(z, Elsewhere) EXCEPT !.kind = "Dev"] >>)
    @@ (a1 :> << [Base(w, Crates) EXCEPT !.target = Linux], Base(x, Crates) >>)
    @@ (b1 :> << Base(q, NoRegistry) >>) @@ [v \in {a3, c1, d1} |-> << >>]

(* x 1 reaches z through the feature of a feature, and the feature that z  *)
(* must have for w with it; y 2 asks for x too, at build time, which       *)
(* reaches all of it again.                                                *)
CratesIndex ==
    (x :> << Stable(1, (Plain("default") :> {Plain("f")}) @@ (Plain("f") :> {<<"sub", z, "g">>}),
                    << [Base(z, NoRegistry) EXCEPT !.optional = TRUE] >>),
             Stable(2, << >>, << >>) >>)
    @@ (z :> << Stable(1, Plain("g") :> {<<"dep", w>>},
                       << [Base(w, NoRegistry) EXCEPT !.optional = TRUE],
                          [Base(x, NoRegistry) EXCEPT !.kind = "Dev"] >>) >>)
    @@ (w :> << Stable(1, << >>, << Base(core, NoRegistry) >>),
                [Stable(1, << >>, << >>) EXCEPT !.yanked = TRUE, !.deps = << Base(core, NoRegistry) >>] >>)

SparseIndex ==
    y :> << [Stable(2, << >>, << [Base(x, Crates) EXCEPT !.features = {}] >>) EXCEPT !.yanked = TRUE],
            Stable(1, << >>, << >>) >>

LocalIndex == q :> << [Stable(1, << >>, << >>) EXCEPT !.pre = TRUE] >>

MCCatalog == (Crates :> CratesIndex) @@ (Sparse :> SparseIndex) @@ (NoRegistry :> LocalIndex)
MCProtocol == (Crates :> "git") @@ (Sparse :> "sparse")

MCAdvisories ==
    {[name |-> x, ranges |-> {[introduced |-> 1, fixed |-> 2, last_affected |-> 0]}, versions |-> {}]}

MCAsk(op, v, token) == [op |-> op, version |-> v, token |-> token]

MCAsks == (r1 :> MCAsk("download", a1, FALSE)) @@ (r2 :> MCAsk("remove", a2, TRUE)) @@ (r3 :> MCAsk("download", a2, TRUE))

MCStart(versions, those, worker) ==
    [present |-> versions, requests |-> those, asks |-> MCAsks, worker |-> worker,
     published |-> MCAdvisories, ordinal |-> 0, days |-> 0, faults |-> MaxFaults]

(* Requests of every kind; downloads over the end of a year, and a restart;*)
(* the head is removed while it is analysed; an analysis with a fault or a *)
(* restart; two heads, with a reader; a crate whose dependency has no      *)
(* stable version.                                                         *)
MCStarts ==
    {MCStart({a1, a2}, {r1, r2, r3}, "off"),
     [MCStart({a1, a2}, {r1, r3}, "off") EXCEPT !.ordinal = 3, !.days = 2, !.faults = 0],
     MCStart({a1, a2, a3, d1}, {r2}, "idle"),
     [MCStart({a2}, {}, "idle") EXCEPT !.published = {}, !.faults = 0],
     MCStart({a1, c1}, {r1}, "idle"),
     MCStart({a1, b1}, {}, "idle")}
=============================================================================
