-------------------------- MODULE MCDocsGenerator --------------------------
(***************************************************************************)
(* Instances of DocsGenerator for TLC.                                     *)
(***************************************************************************)
EXTENDS DocsGenerator

CONSTANTS t1, t2, w1, w2

(* w1 takes the jobs of both targets, w2 those of t1 only.                 *)
MCServes == [w \in Workers |-> IF w = w1 THEN Targets ELSE {t1}]
=============================================================================
