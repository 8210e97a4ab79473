---------------------------- MODULE MCWheelCache ----------------------------
(***************************************************************************)
(* Instance of WheelCache for TLC: two sets of FlashInfer's wheels, both   *)
(* of one version, and three of vLLM's, each of a version of its own.      *)
(***************************************************************************)
EXTENDS WheelCache

MCMaxSets == [c \in Components |-> IF c = "flashinfer" THEN 2 ELSE 3]
MCVersionOf ==
  [c \in Components |-> [s \in Sets(c) |-> IF c = "flashinfer" /\ s = 2 THEN 1 ELSE s]]
=============================================================================
