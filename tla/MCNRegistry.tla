---------------------------- MODULE MCNRegistry ----------------------------
(***************************************************************************)
(* What the MultiClusterNetwork registry on the broker promises to the     *)
(* clusters, independently of how the agents reach it: a network has one   *)
(* VNI and one topology from its creation to its removal, every cluster    *)
(* adds and removes only itself, joining is refused once deletion has been *)
(* requested, and a network disappears only when nobody is left in it.     *)
(*                                                                         *)
(* MCNManager refines this specification: there the same changes are made  *)
(* by agents that read an object, edit a private copy and write the copy   *)
(* back.                                                                   *)
(***************************************************************************)
CONSTANTS Clusters,     \* cluster identifiers
          Networks,     \* MultiClusterNetwork names
          Vnis,         \* VXLAN network identifiers that may be handed out
          Topologies,   \* accepted values of spec.topology
          NoMCN         \* the registry has no object of that name

VARIABLE broker         \* broker[n]: the MultiClusterNetwork n, or NoMCN

(* A MultiClusterNetwork. The finalizers "<clusterID>.multicluster.ovn.org" *)
(* are represented by the clusters that own them.                           *)
MCN == [vni : Vnis, topology : Topologies,
        finalizers : SUBSET Clusters, deleting : BOOLEAN]

Init == broker = [n \in Networks |-> NoMCN]

Create(c, n) ==
  /\ broker[n] = NoMCN
  /\ \E v \in Vnis, t \in Topologies :
       broker' = [broker EXCEPT ![n] = [vni |-> v, topology |-> t,
                                        finalizers |-> {c}, deleting |-> FALSE]]

Join(c, n) ==
  /\ broker[n] # NoMCN
  /\ ~broker[n].deleting
  /\ broker' = [broker EXCEPT ![n].finalizers = @ \cup {c}]

Leave(c, n) ==
  /\ broker[n] # NoMCN
  /\ c \in broker[n].finalizers
  /\ LET rest == broker[n].finalizers \ {c}
     IN broker' = [broker EXCEPT ![n] =
                     IF broker[n].deleting /\ rest = {}
                       THEN NoMCN
                       ELSE [broker[n] EXCEPT !.finalizers = rest]]

RequestDelete(n) ==
  /\ broker[n] # NoMCN
  /\ broker' = [broker EXCEPT ![n] =
                  IF broker[n].finalizers = {}
                    THEN NoMCN
                    ELSE [broker[n] EXCEPT !.deleting = TRUE]]

Next ==
  \E n \in Networks :
    \/ \E c \in Clusters : Create(c, n) \/ Join(c, n) \/ Leave(c, n)
    \/ RequestDelete(n)

Spec == Init /\ [][Next]_broker
=============================================================================
