--------------------------- MODULE WorkerSelector ---------------------------
(***************************************************************************)
(* How a documentation job is matched with a worker node                   *)
(* (src/src/model/worker.rs and src/src/model/docs.rs).  Targets and       *)
(* capabilities are the strings of the code, kept as opaque values; an     *)
(* Option is a set with at most one element, the Vecs that are only        *)
(* searched are sets.                                                      *)
(***************************************************************************)
CONSTANTS Targets,      \* the target triples that occur
          Capabilities  \* the capabilities that nodes declare and crates require

Option(S) == {{}} \cup {{x} : x \in S}

(* What a node says of itself in the first message of its connection.      *)
WorkerDescriptor == [toolchain_host                 : Targets,
                     toolchain_installed_targets    : SUBSET Targets,
                     toolchain_installable_targets  : SUBSET Targets,
                     capabilities                   : SUBSET Capabilities]

(* What a job requires of the node that executes it.                       *)
Selector == [toolchain_host             : Option(Targets),
             toolchain_installed_target : Option(Targets),
             toolchain_available_target : Option(Targets),
             capabilities               : SUBSET Capabilities]

(* The part of a documentation job that selects a node.                    *)
DocGenJobSpec == [target       : Targets,
                  use_native   : BOOLEAN,
                  capabilities : SUBSET Capabilities]

new_native_target(target) ==
    [toolchain_host |-> {target}, toolchain_installed_target |-> {},
     toolchain_available_target |-> {}, capabilities |-> {}]

new_available_target(target) ==
    [toolchain_host |-> {}, toolchain_installed_target |-> {},
     toolchain_available_target |-> {target}, capabilities |-> {}]

get_worker_selector(job) ==
    [(IF job.use_native THEN new_native_target(job.target)
                        ELSE new_available_target(job.target))
        EXCEPT !.capabilities = job.capabilities]

match_host(worker, selector) ==
    selector.toolchain_host \subseteq {worker.toolchain_host}

match_installed_target(worker, selector) ==
    selector.toolchain_installed_target \subseteq worker.toolchain_installed_targets

match_available_target(worker, selector) ==
    selector.toolchain_available_target
        \subseteq worker.toolchain_installed_targets \cup worker.toolchain_installable_targets

matches(worker, selector) ==
    /\ match_host(worker, selector)
    /\ match_installed_target(worker, selector)
    /\ match_available_target(worker, selector)
    /\ selector.capabilities \subseteq worker.capabilities
=============================================================================
