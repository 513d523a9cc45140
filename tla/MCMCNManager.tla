---------------------------- MODULE MCMCNManager ----------------------------
(***************************************************************************)
(* Instances of MCNManager for TLC. The configurations choose the agents   *)
(* and networks; the cluster of each agent is fixed here.                  *)
(***************************************************************************)
EXTENDS MCNManager

CONSTANTS c1, c2, a1, a2

(* One agent in each cluster.                                              *)
OnePerCluster == [a \in Agents |-> IF a = a1 THEN c1 ELSE c2]
=============================================================================
