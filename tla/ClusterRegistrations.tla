------------------------ MODULE ClusterRegistrations ------------------------
(***************************************************************************)
(* What the operators and agents of the clusters promise together about    *)
(* the identities, VTEP subnet and ASN, of clusters that are installed one *)
(* after the other: a table on the broker in which a cluster is entered in *)
(* one step under an identity that differs in both parts from those of all *)
(* others, and a record of it in each cluster that is made once.           *)
(*                                                                         *)
(* ClusterAllocation implements this specification with three lists of the *)
(* broker's objects, a Deployment, an agent and a syncer, and the API      *)
(* server's check of resourceVersions.                                     *)
(***************************************************************************)
CONSTANTS Clusters,  \* cluster identifiers
          Subnets,   \* VTEP subnets of the pool
          ASNs,      \* ASNs of the pool
          None       \* no identity

VARIABLES recorded,   \* recorded[c]: the identity in c's Skynet status
          registered  \* registered[c]: the identity in c's entry on the broker

Identity == [subnet : Subnets, asn : ASNs]

Init == /\ recorded = [c \in Clusters |-> None]
        /\ registered = [c \in Clusters |-> None]

(* No other cluster is registered with either part of the identity.        *)
Free(c, i) ==
  \A d \in Clusters \ {c} :
    registered[d] # None => registered[d].subnet # i.subnet /\ registered[d].asn # i.asn

Record(c) ==
  /\ recorded[c] = None
  /\ \E i \in Identity : Free(c, i) /\ recorded' = [recorded EXCEPT ![c] = i]
  /\ UNCHANGED registered

Register(c) ==
  /\ \E i \in Identity : Free(c, i) /\ registered' = [registered EXCEPT ![c] = i]
  /\ UNCHANGED recorded

Next == \E c \in Clusters : Record(c) \/ Register(c)

Spec == Init /\ [][Next]_<<recorded, registered>>
=============================================================================
