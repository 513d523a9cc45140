------------------------ MODULE MCClusterAllocation ------------------------
(***************************************************************************)
(* Instances of ClusterAllocation for TLC.                                 *)
(***************************************************************************)
EXTENDS ClusterAllocation

CONSTANTS c1, c2

(* All VTEP CIDRs and ASNs are left to the operators.                      *)
NoVteps == [c \in Clusters |-> NoVtep]
NoASNs == [c \in Clusters |-> 0]

(* The users have chosen the ASNs.                                         *)
GivenASNs == [c \in Clusters |-> IF c = c1 THEN ASNMin ELSE ASNMin + 1]

(* c2's Skynet asks for what c1 would be given: VTEP CIDR 0.               *)
FirstVtepForC2 == [c \in Clusters |-> IF c = c2 THEN 0 ELSE NoVtep]

(* The same subnet, written with bits of a host.                           *)
FirstVtepRespelled == [c \in Clusters |-> IF c = c2 THEN VtepMax + 1 ELSE NoVtep]
=============================================================================
