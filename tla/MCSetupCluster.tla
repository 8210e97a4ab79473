-------------------------- MODULE MCSetupCluster --------------------------
(***************************************************************************)
(* Instances of SetupCluster for TLC: one terminal on the head, or two     *)
(* machines that list the same nodes in opposite orders.                   *)
(***************************************************************************)
EXTENDS SetupCluster

CONSTANTS h1, h2

\* One terminal.
MCOneFile == [h \in Heads |-> "state1"]
MCOneOrder == [h \in Heads |-> [i \in Nodes |-> i]]

\* Two machines, each its own head: node 1 first, or the last node first.
MCTwoFiles == [h \in Heads |-> IF h = h1 THEN "state1" ELSE "state2"]
MCTwoOrders == [h \in Heads |-> [i \in Nodes |-> IF h = h1 THEN i ELSE NNodes + 1 - i]]
=============================================================================
