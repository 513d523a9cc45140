--------------------------- MODULE MCClusterMesh ---------------------------
(***************************************************************************)
(* Instances of ClusterMesh for TLC.                                       *)
(***************************************************************************)
EXTENDS ClusterMesh

CONSTANTS c1, c2, a1, a2, x1, x2, y1

(* One agent in each cluster.                                              *)
OnePerCluster == [a \in Agents |-> IF a = a1 THEN c1 ELSE c2]

(* Both agents in c1: a rolling update.                                    *)
RollingUpdate == [a \in Agents |-> c1]

(* Nodes x1 and x2 are in c1, y1 is in c2.                                 *)
NodePlacement == [n \in Nodes |-> IF n = y1 THEN c2 ELSE c1]
=============================================================================
