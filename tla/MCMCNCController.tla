--------------------------- MODULE MCMCNCController --------------------------
(***************************************************************************)
(* Instances of MCNCController for TLC.                                    *)
(***************************************************************************)
EXTENDS MCNCController

CONSTANTS c1, c2, a1, a2, n1, n2, u1, u2, u3, m1, m2, Layer2, Layer3

AgentClusters == [a \in Agents |-> IF a = a1 THEN c1 ELSE c2]

(* m1 is in the first cluster; so is m2 unless there are two.              *)
OneCluster == [m \in Connects |-> a1]
OneConnectEach == [m \in Connects |-> IF m = m1 THEN a1 ELSE a2]

(* The users' CUDNs; only the last has a transport.                        *)
CudnsOfUsers ==
  [u \in Cudns |-> [topology |-> Layer3, terminating |-> FALSE,
                    vni |-> IF u = u3 THEN OtherTransport ELSE NoVni]]
FirstName == [n \in Networks |-> u1]

(* Specs that create network n, or join it by name, and connect the user's *)
(* CUDN u, or one of that name that the agent creates.                     *)
Create(n, u) == [join |-> NoName, create |-> n, topology |-> Layer3,
                 local |-> u, own |-> NoName, cudnTopology |-> Layer3]
Join(n, u) == [Create(n, u) EXCEPT !.join = n, !.create = NoName]
CreateOwn(n, u) == [Create(n, u) EXCEPT !.local = NoName, !.own = u]

ForEach(S1, S2) == [m \in Connects |-> IF m = m1 THEN {S1} ELSE {S2}]

(* Two clusters, one network: c1 creates it and connects a CUDN of the     *)
(* user, c2 joins it by name.                                              *)
JoinByName == ForEach(Create(n1, u1), Join(n1, u1))

(* Two clusters that may both create n1.                                   *)
BothCreate == ForEach(Create(n1, u1), Create(n1, u1))

(* Two CUDNs that are connected to two networks; the agent creates one.    *)
TwoNetworks == ForEach(Create(n1, u1), Create(n2, u2))
TwoNetworksOwn == ForEach(CreateOwn(n1, u1), Create(n2, u2))

(* Two MCNCs that connect two CUDNs to the same network.                   *)
Siblings == ForEach(Create(n1, u1), Create(n1, u2))

OwnCudn == ForEach(CreateOwn(n1, u1), CreateOwn(n1, u1))

(* Specs that a user may replace by one another: they connect u1 to either *)
(* network, or u2 to n2 by a spec that names n1 as well; one names none,   *)
(* one has a createMultiClusterNetwork without a name next to a name to    *)
(* join, and one refers to a CUDN that has another transport.              *)
Edited == [m \in Connects |->
  {Create(n1, u1), Create(n2, u1), [Join(n2, u2) EXCEPT !.create = n1],
   [Create(n2, u2) EXCEPT !.create = NoName],
   [Join(n1, u2) EXCEPT !.create = Unnamed], Create(n1, u3)}]

(* Moves from one network to the other.                                   *)
LocalMoves == [m \in Connects |-> {Create(n1, u1), Create(n2, u1)}]
OwnMoves == [m \in Connects |-> {CreateOwn(n1, u1), CreateOwn(n2, u1)}]

(* An MCNC that names its network in both ways, and a CUDN of either kind. *)
BothWays == ForEach([CreateOwn(n1, u2) EXCEPT !.local = u1, !.join = n2], Create(n2, u1))

(* A CUDN of another topology than the network.                            *)
OtherTopology == ForEach([CreateOwn(n1, u1) EXCEPT !.topology = Layer2], Create(n1, u1))

(* How often users create or edit each MCNC.                               *)
Once == [m \in Connects |-> 1]
Twice == [m \in Connects |-> 2]
ThreeTimes == [m \in Connects |-> 3]
=============================================================================
