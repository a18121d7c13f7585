----------------------------- MODULE MCPublish -----------------------------
(***************************************************************************)
(* Instances of Publish for TLC.                                           *)
(***************************************************************************)
EXTENDS Publish, TLC

(* In the run of the failures, which checks invariants only, every user is *)
(* an admin: the users and the versions are only told apart.               *)
MCSymmetry == Permutations(Callers) \cup Permutations(Versions)
=============================================================================
