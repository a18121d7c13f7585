-------------------------- MODULE MCWorkersManager --------------------------
(***************************************************************************)
(* Instances of WorkersManager for TLC: three nodes with different         *)
(* descriptors, and jobs whose selectors match one, two or none of them.   *)
(***************************************************************************)
EXTENDS WorkersManager

CONSTANTS linux, windows, gpu

(* w1 builds for linux only, w2 also has windows installed, w3 is a native *)
(* windows node with a capability.                                         *)
CONSTANTS w1, w2, w3

MCDescriptor ==
    (w1 :> [toolchain_host |-> linux, toolchain_installed_targets |-> {linux},
            toolchain_installable_targets |-> {}, capabilities |-> {}]) @@
    (w2 :> [toolchain_host |-> linux, toolchain_installed_targets |-> {linux},
            toolchain_installable_targets |-> {windows}, capabilities |-> {}]) @@
    (w3 :> [toolchain_host |-> windows, toolchain_installed_targets |-> {windows},
            toolchain_installable_targets |-> {}, capabilities |-> {gpu}])

(* j1 needs a linux host, j2 the windows target on any node, j3 the        *)
(* windows target and the capability.                                      *)
CONSTANTS j1, j2, j3

MCSpec_of ==
    (j1 :> [target |-> linux, use_native |-> TRUE, capabilities |-> {}]) @@
    (j2 :> [target |-> windows, use_native |-> FALSE, capabilities |-> {}]) @@
    (j3 :> [target |-> windows, use_native |-> FALSE, capabilities |-> {gpu}])
=============================================================================
