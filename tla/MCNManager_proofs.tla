-------------------------- MODULE MCNManager_proofs --------------------------
(***************************************************************************)
(* Machine-checked proofs about MCNManager, for any sets of clusters,      *)
(* agents and networks and any VNI range, with API faults and crashes.     *)
(***************************************************************************)
EXTENDS MCNManager, WellFoundedInduction, TLAPS

(* findNextAvailableVNI returns a free VNI of the range whenever there is  *)
(* one.                                                                    *)
LEMMA LowestFreeVni ==
  ASSUME NEW taken, ~(Vnis \subseteq taken)
  PROVE  FindNextAvailableVNI(taken) \in Vnis \ taken
<1> DEFINE Free == Vnis \ taken
<1>1. Free \subseteq Nat /\ Free # {}
  BY ConstantsAssumption DEF Vnis
<1>2. PICK v \in Free : \A u \in Free : <<u, v>> \notin OpToRel(<, Nat)
  BY <1>1, NatLessThanWellFounded, WFMin
<1>3. \A u \in Free : v <= u
  <2> TAKE u \in Free
  <2>1. u \in Nat /\ v \in Nat
    BY <1>1
  <2>2. ~(u < v)
    BY <1>2, <2>1 DEF OpToRel
  <2> QED
    BY <2>1, <2>2
<1> QED
  BY <1>3 DEF FindNextAvailableVNI

-----------------------------------------------------------------------------
(* Type correctness *)

(* Replies(r) offers only r and the lost reply.                            *)
LEMMA RepliesAreResults ==
  ASSUME NEW r \in {"joined", "left"}, NEW s \in Replies(r)
  PROVE  s \in Results
BY DEF Replies, Results

(* Editing the finalizers of an object yields an object.                   *)
LEMMA FinalizerEdits ==
  ASSUME NEW m \in MCNObject, NEW c \in Clusters
  PROVE  /\ [m EXCEPT !.finalizers = @ \cup {c}] \in MCNObject
         /\ [m EXCEPT !.finalizers = @ \ {c}] \in MCNObject
BY DEF MCNObject

(* So does marking it for deletion.                                        *)
LEMMA DeletionMark ==
  ASSUME NEW m \in MCNObject
  PROVE  [m EXCEPT !.deleting = TRUE] \in MCNObject
BY DEF MCNObject

(* Outdate leaves fresh a function to Booleans.                            *)
LEMMA OutdateType ==
  ASSUME TypeOK, NEW n, NEW writers, Outdate(n, writers)
  PROVE  fresh' \in [Agents -> BOOLEAN]
BY DEF Outdate, TypeOK

(* The object createNewMCN is about to create is well formed.              *)
LEMMA NewObject ==
  ASSUME TypeOK, NEW a \in Agents, AllocateVNI(a), ~(Vnis \subseteq AllocatedVnis)
  PROVE  \E new \in MCNObject :
           /\ new.vni \notin AllocatedVnis
           /\ new.finalizers = {ClusterOf[a]} /\ ~new.deleting
           /\ copy' = [copy EXCEPT ![a] = new]
           /\ pc' = [pc EXCEPT ![a] = "create"]
<1> DEFINE new == [vni |-> FindNextAvailableVNI(AllocatedVnis),
                   topology |-> topo[a],
                   finalizers |-> {ClusterOf[a]}, deleting |-> FALSE]
<1>1. new \in MCNObject /\ new.vni \notin AllocatedVnis
  BY LowestFreeVni, ConstantsAssumption DEF MCNObject, TypeOK
<1>2. copy' = [copy EXCEPT ![a] = new] /\ pc' = [pc EXCEPT ![a] = "create"]
  BY DEF AllocateVNI
<1>3. new.finalizers = {ClusterOf[a]} /\ ~new.deleting
  OBVIOUS
<1> QED
  BY <1>1, <1>2, <1>3

(* Each step keeps the types. The write-backs need CopyInv: what they      *)
(* write is an object and not NoMCN.                                       *)
LEMMA TypeInductive == TypeOK /\ CopyInv /\ [Next]_mcnVars => TypeOK'
<1> SUFFICES ASSUME TypeOK, CopyInv, [Next]_mcnVars PROVE TypeOK'
  OBVIOUS
<1> USE ConstantsAssumption
<1>1. ASSUME NEW a \in Agents, NEW n \in Networks,
             NEW t \in Topologies \cup {NoTopology}, CreateOrJoinMCN(a, n, t)
      PROVE  TypeOK'
  BY <1>1 DEF CreateOrJoinMCN, CallSteps, TypeOK
<1>2. ASSUME NEW a \in Agents, NEW n \in Networks, LeaveMCN(a, n)
      PROVE  TypeOK'
  BY <1>2 DEF LeaveMCN, CallSteps, TypeOK
<1>3. ASSUME NEW a \in Agents, JoinExistingMCN(a)
      PROVE  TypeOK'
  BY <1>3 DEF JoinExistingMCN, CallSteps, Results, TypeOK
<1>4. ASSUME NEW a \in Agents, GetMCN(a) \/ ReGetMCN(a)
      PROVE  TypeOK'
  BY <1>3, <1>4 DEF GetMCN, ReGetMCN, CallSteps, Results, TypeOK
<1>5. ASSUME NEW a \in Agents, AllocateVNI(a)
      PROVE  TypeOK'
  <2>1. CASE Vnis \subseteq AllocatedVnis
    BY <1>5, <2>1 DEF AllocateVNI, Results, TypeOK
  <2>2. CASE ~(Vnis \subseteq AllocatedVnis)
    BY <1>5, <2>2, NewObject DEF AllocateVNI, CallSteps, TypeOK
  <2> QED
    BY <2>1, <2>2
<1>6. ASSUME NEW a \in Agents, CreateMCN(a)
      PROVE  TypeOK'
  <2>1. fresh' \in [Agents -> BOOLEAN]
    BY <1>6, OutdateType DEF CreateMCN, TypeOK
  <2>2. pc' \in [Agents -> {"idle"} \cup CallSteps \cup Results]
    BY <1>6, RepliesAreResults DEF CreateMCN, CallSteps, Results, TypeOK
  <2>3. broker' \in [Networks -> MCNObject \cup {NoMCN}]
    BY <1>6 DEF CreateMCN, TypeOK
  <2> QED
    BY <1>6, <2>1, <2>2, <2>3 DEF CreateMCN, TypeOK
<1>7. ASSUME NEW a \in Agents, JoinMCN(a)
      PROVE  TypeOK'
  <2>1. fresh' \in [Agents -> BOOLEAN]
    BY <1>7, OutdateType DEF JoinMCN, TypeOK
  <2>2. pc' \in [Agents -> {"idle"} \cup CallSteps \cup Results]
    BY <1>7, RepliesAreResults DEF JoinMCN, CallSteps, Results, TypeOK
  <2>3. [copy[a] EXCEPT !.finalizers = @ \cup {ClusterOf[a]}] \in MCNObject
    BY <1>7, FinalizerEdits DEF JoinMCN, CopyInv, CopyFitsCall, TypeOK
  <2>4. /\ broker' \in [Networks -> MCNObject \cup {NoMCN}]
        /\ copy' \in [Agents -> MCNObject \cup {NoMCN}]
    BY <1>7, <2>3 DEF JoinMCN, TypeOK
  <2> QED
    BY <1>7, <2>1, <2>2, <2>4 DEF JoinMCN, TypeOK
<1>8. ASSUME NEW a \in Agents, GetMCNToLeave(a)
      PROVE  TypeOK'
  BY <1>8 DEF GetMCNToLeave, CallSteps, Results, TypeOK
<1>9. ASSUME NEW a \in Agents, RemoveFinalizer(a)
      PROVE  TypeOK'
  <2>1. fresh' \in [Agents -> BOOLEAN]
    BY <1>9, OutdateType DEF RemoveFinalizer, TypeOK
  <2>2. pc' \in [Agents -> {"idle"} \cup CallSteps \cup Results]
    BY <1>9, RepliesAreResults DEF RemoveFinalizer, CallSteps, Results, TypeOK
  <2>3. [copy[a] EXCEPT !.finalizers = @ \ {ClusterOf[a]}] \in MCNObject
    BY <1>9, FinalizerEdits DEF RemoveFinalizer, CopyInv, CopyFitsCall, TypeOK
  <2>4. /\ broker' \in [Networks -> MCNObject \cup {NoMCN}]
        /\ copy' \in [Agents -> MCNObject \cup {NoMCN}]
    BY <1>9, <2>3 DEF RemoveFinalizer, TypeOK
  <2> QED
    BY <1>9, <2>1, <2>2, <2>4 DEF RemoveFinalizer, TypeOK
<1>10. ASSUME NEW a \in Agents, CallFails(a)
       PROVE  TypeOK'
  BY <1>10 DEF CallFails, Results, TypeOK
<1>11. ASSUME NEW a \in Agents, Return(a) \/ Crash(a)
       PROVE  TypeOK'
  BY <1>11 DEF Return, Crash, Forget, TypeOK
<1>12. ASSUME NEW n \in Networks, DeleteMCN(n)
       PROVE  TypeOK'
  <2>1. fresh' \in [Agents -> BOOLEAN]
    BY <1>12, OutdateType DEF DeleteMCN
  <2>2. broker' \in [Networks -> MCNObject \cup {NoMCN}]
    BY <1>12, DeletionMark DEF DeleteMCN, TypeOK
  <2> QED
    BY <1>12, <2>1, <2>2 DEF DeleteMCN, TypeOK
<1>13. CASE UNCHANGED mcnVars
  BY <1>13 DEF mcnVars, TypeOK
<1> QED
  BY <1>1, <1>2, <1>4, <1>5, <1>6, <1>7, <1>8, <1>9, <1>10, <1>11, <1>12, <1>13
  DEF Next, ManagerStep

-----------------------------------------------------------------------------
(* The copies in the agents' hands *)

(* A step that writes no object and gives agent a, at most, the object it  *)
(* just read keeps every current copy current.                             *)
LEMMA ReadsKeepFresh ==
  ASSUME TypeOK, FreshIsCurrent, NEW a \in Agents, broker' = broker,
         \A b \in Agents \ {a} : net'[b] = net[b] /\ copy'[b] = copy[b]
                                 /\ fresh'[b] = fresh[b],
         fresh'[a] => copy'[a] = broker[net'[a]] /\ copy'[a] # NoMCN
  PROVE  FreshIsCurrent'
BY DEF FreshIsCurrent

(* A write of object n leaves only the writer, if anybody, with a current  *)
(* copy of it.                                                             *)
LEMMA WritesKeepFresh ==
  ASSUME TypeOK, FreshIsCurrent, NEW n \in Networks, NEW writers,
         Outdate(n, writers), net' = net,
         \A m \in Networks \ {n} : broker'[m] = broker[m],
         \A b \in Agents \ writers : copy'[b] = copy[b],
         \A b \in writers : copy'[b] = broker'[net[b]] /\ copy'[b] # NoMCN
  PROVE  FreshIsCurrent'
BY DEF FreshIsCurrent, Outdate, TypeOK

(* Each step keeps CopyInv, part by part.                                  *)
LEMMA CopyInductive == TypeOK /\ CopyInv /\ [Next]_mcnVars => CopyInv'
<1> SUFFICES ASSUME TypeOK, CopyInv, [Next]_mcnVars PROVE CopyInv'
  OBVIOUS
<1>0. FreshIsCurrent /\ CopyFitsCall /\ TopologyChecked
  BY DEF CopyInv
<1> USE ConstantsAssumption
<1>1. ASSUME NEW a \in Agents, NEW n \in Networks,
             NEW t \in Topologies \cup {NoTopology}, CreateOrJoinMCN(a, n, t)
      PROVE  CopyInv'
  BY <1>0, <1>1
  DEF CreateOrJoinMCN, CopyInv, FreshIsCurrent, CopyFitsCall, TopologyChecked, TypeOK
<1>2. ASSUME NEW a \in Agents, NEW n \in Networks, LeaveMCN(a, n)
      PROVE  CopyInv'
  BY <1>0, <1>2
  DEF LeaveMCN, CopyInv, FreshIsCurrent, CopyFitsCall, TopologyChecked, TypeOK
<1>3. ASSUME NEW a \in Agents, GetMCN(a) \/ ReGetMCN(a)
      PROVE  CopyInv'
  <2>1. CASE JoinExistingMCN(a)
    <3>1. FreshIsCurrent'
      BY <1>0, <2>1, ReadsKeepFresh DEF JoinExistingMCN, TypeOK
    <3> QED
      BY <1>0, <2>1, <3>1
      DEF JoinExistingMCN, CopyInv, CopyFitsCall, TopologyChecked, TypeOK
  <2>2. CASE ~JoinExistingMCN(a)
    BY <1>0, <1>3, <2>2
    DEF GetMCN, ReGetMCN, CopyInv, FreshIsCurrent, CopyFitsCall, TopologyChecked, TypeOK
  <2> QED
    BY <2>1, <2>2
<1>4. ASSUME NEW a \in Agents, AllocateVNI(a)
      PROVE  CopyInv'
  <2>1. CASE Vnis \subseteq AllocatedVnis
    BY <1>0, <1>4, <2>1
    DEF AllocateVNI, CopyInv, FreshIsCurrent, CopyFitsCall, TopologyChecked, TypeOK
  <2>2. CASE ~(Vnis \subseteq AllocatedVnis)
    <3>1. ~fresh[a]
      BY <1>0, <1>4 DEF CopyFitsCall, AllocateVNI
    <3>2. FreshIsCurrent'
      BY <1>0, <1>4, <2>2, <3>1, NewObject, ReadsKeepFresh DEF AllocateVNI, TypeOK
    <3>3. CopyFitsCall'
      BY <1>0, <1>4, <2>2, <3>1, NewObject DEF AllocateVNI, CopyFitsCall, TypeOK
    <3> QED
      BY <1>0, <1>4, <3>2, <3>3 DEF AllocateVNI, CopyInv, TopologyChecked
  <2> QED
    BY <2>1, <2>2
<1>5. ASSUME NEW a \in Agents, CreateMCN(a)
      PROVE  CopyInv'
  <2>1. CASE broker' = broker /\ fresh' = fresh
    BY <1>0, <1>5, <2>1
    DEF CreateMCN, CopyInv, FreshIsCurrent, CopyFitsCall, TopologyChecked, TypeOK
  <2>2. CASE /\ broker' = [broker EXCEPT ![net[a]] = copy[a]]
             /\ copy[a].topology \in Topologies
             /\ Outdate(net[a], {a})
             /\ \E r \in Replies("joined") : pc' = [pc EXCEPT ![a] = r]
    <3>1. copy[a] # NoMCN /\ net' = net /\ copy' = copy
      BY <1>0, <1>5 DEF CreateMCN, CopyFitsCall
    <3>2. FreshIsCurrent'
      BY <1>0, <2>2, <3>1, WritesKeepFresh DEF TypeOK
    <3>3. CopyFitsCall'
      BY <1>0, <2>2, <3>1 DEF CopyFitsCall, Replies, Outdate, TypeOK
    <3>4. TopologyChecked'
      BY <1>0, <2>2 DEF TopologyChecked, TypeOK
    <3> QED
      BY <3>2, <3>3, <3>4 DEF CopyInv
  <2> QED
    BY <1>5, <2>1, <2>2 DEF CreateMCN
<1>6. ASSUME NEW a \in Agents, JoinMCN(a)
      PROVE  CopyInv'
  <2>1. CASE ~(fresh[a] /\ ~copy[a].deleting)
    BY <1>0, <1>6, <2>1
    DEF JoinMCN, CopyInv, FreshIsCurrent, CopyFitsCall, TopologyChecked, TypeOK
  <2>2. CASE fresh[a] /\ ~copy[a].deleting
    <3> DEFINE joined == [copy[a] EXCEPT !.finalizers = @ \cup {ClusterOf[a]}]
    <3>1. copy[a] \in MCNObject /\ copy[a] = broker[net[a]] /\ net' = net
      BY <1>0, <1>6, <2>2 DEF JoinMCN, FreshIsCurrent, CopyFitsCall, TypeOK
    <3>2. /\ joined \in MCNObject
          /\ joined # NoMCN
          /\ joined.topology = copy[a].topology
      BY <3>1, FinalizerEdits DEF TypeOK, MCNObject
    <3>3. /\ broker' = [broker EXCEPT ![net[a]] = joined]
          /\ copy' = [copy EXCEPT ![a] = joined]
          /\ Outdate(net[a], {a})
          /\ \E r \in Replies("joined") : pc' = [pc EXCEPT ![a] = r]
      BY <1>6, <2>2 DEF JoinMCN
    <3> HIDE DEF joined
    <3>4. FreshIsCurrent'
      BY <1>0, <3>1, <3>2, <3>3, WritesKeepFresh DEF TypeOK
    <3>5. CopyFitsCall'
      BY <1>0, <3>1, <3>2, <3>3 DEF CopyFitsCall, Replies, Outdate, TypeOK
    <3>6. TopologyChecked'
      BY <1>0, <3>1, <3>2, <3>3 DEF TopologyChecked, TypeOK
    <3> QED
      BY <3>4, <3>5, <3>6 DEF CopyInv
  <2> QED
    BY <2>1, <2>2
<1>7. ASSUME NEW a \in Agents, GetMCNToLeave(a)
      PROVE  CopyInv'
  <2>1. FreshIsCurrent'
    BY <1>0, <1>7, ReadsKeepFresh DEF GetMCNToLeave, FreshIsCurrent, TypeOK
  <2> QED
    BY <1>0, <1>7, <2>1
    DEF GetMCNToLeave, CopyInv, CopyFitsCall, TopologyChecked, TypeOK
<1>8. ASSUME NEW a \in Agents, RemoveFinalizer(a)
      PROVE  CopyInv'
  <2>1. CASE ~fresh[a]
    BY <1>0, <1>8, <2>1
    DEF RemoveFinalizer, CopyInv, FreshIsCurrent, CopyFitsCall, TopologyChecked, TypeOK
  <2>2. CASE fresh[a]
    <3> DEFINE left == [copy[a] EXCEPT !.finalizers = @ \ {ClusterOf[a]}]
               gone == left.deleting /\ left.finalizers = {}
    <3>1. copy[a] \in MCNObject /\ copy[a] = broker[net[a]] /\ net' = net
      BY <1>0, <1>8, <2>2 DEF RemoveFinalizer, FreshIsCurrent, CopyFitsCall, TypeOK
    <3>2. /\ left \in MCNObject
          /\ left # NoMCN
          /\ left.topology = copy[a].topology
      BY <3>1, FinalizerEdits DEF TypeOK, MCNObject
    <3>3. /\ broker' = [broker EXCEPT ![net[a]] = IF gone THEN NoMCN ELSE left]
          /\ copy' = [copy EXCEPT ![a] = left]
          /\ Outdate(net[a], IF gone THEN {} ELSE {a})
          /\ \E r \in Replies("left") : pc' = [pc EXCEPT ![a] = r]
      BY <1>8, <2>2 DEF RemoveFinalizer
    <3> HIDE DEF left, gone
    <3>4. FreshIsCurrent'
      BY <1>0, <3>1, <3>2, <3>3 DEF FreshIsCurrent, Outdate, TypeOK
    <3>5. CopyFitsCall'
      BY <1>0, <3>1, <3>2, <3>3 DEF CopyFitsCall, Replies, Outdate, TypeOK
    <3>6. TopologyChecked'
      BY <1>0, <3>1, <3>2, <3>3 DEF TopologyChecked, TypeOK
    <3> QED
      BY <3>4, <3>5, <3>6 DEF CopyInv
  <2> QED
    BY <2>1, <2>2
<1>9. ASSUME NEW a \in Agents, CallFails(a) \/ Return(a) \/ Crash(a)
      PROVE  CopyInv'
  BY <1>0, <1>9
  DEF CallFails, Return, Crash, Forget, CopyInv, FreshIsCurrent, CopyFitsCall,
      TopologyChecked, TypeOK
<1>10. ASSUME NEW n \in Networks, DeleteMCN(n)
       PROVE  CopyInv'
  <2>1. FreshIsCurrent'
    BY <1>0, <1>10 DEF DeleteMCN, FreshIsCurrent, Outdate, TypeOK
  <2>2. CopyFitsCall'
    BY <1>0, <1>10 DEF DeleteMCN, CopyFitsCall, Outdate, TypeOK
  <2>3. TopologyChecked'
    <3>1. [broker[n] EXCEPT !.deleting = TRUE].topology = broker[n].topology
      BY <1>10 DEF DeleteMCN, TypeOK, MCNObject
    <3> QED
      BY <1>0, <1>10, <3>1 DEF DeleteMCN, TopologyChecked, TypeOK
  <2> QED
    BY <2>1, <2>2, <2>3 DEF CopyInv
<1>11. CASE UNCHANGED mcnVars
  BY <1>0, <1>11
  DEF mcnVars, CopyInv, FreshIsCurrent, CopyFitsCall, TopologyChecked
<1> QED
  BY <1>1, <1>2, <1>3, <1>4, <1>5, <1>6, <1>7, <1>8, <1>9, <1>10, <1>11
  DEF Next, ManagerStep

(* Type correctness: every object on the broker has a VNI of the range and *)
(* finalizers of known clusters, and every agent is at a known call.       *)
THEOREM TypeCorrect == Spec => []TypeOK
<1>1. Init => TypeOK /\ CopyInv
  BY ConstantsAssumption
  DEF Init, TypeOK, CopyInv, FreshIsCurrent, CopyFitsCall, TopologyChecked
<1>2. TypeOK /\ CopyInv /\ [Next]_mcnVars => (TypeOK /\ CopyInv)'
  BY TypeInductive, CopyInductive
<1> QED
  BY <1>1, <1>2, PTL DEF Spec

(* Between two calls no agent holds a copy that passes for current and is  *)
(* not, nor one that its next write should not be made from.               *)
THEOREM CopiesCorrect == Spec => []CopyInv
<1>1. Init => TypeOK /\ CopyInv
  BY ConstantsAssumption
  DEF Init, TypeOK, CopyInv, FreshIsCurrent, CopyFitsCall, TopologyChecked
<1>2. TypeOK /\ CopyInv /\ [Next]_mcnVars => (TypeOK /\ CopyInv)'
  BY TypeInductive, CopyInductive
<1> QED
  BY <1>1, <1>2, PTL DEF Spec

-----------------------------------------------------------------------------
(* What a step does to the broker *)

(* The only changes to the broker's objects are the registry's: made by an *)
(* agent at the call that makes them, or by a deletion.                    *)
RegistryStep ==
  \/ \E a \in Agents :
       \/ pc[a] = "create" /\ Registry!Create(ClusterOf[a], net[a])
       \/ pc[a] = "join" /\ Registry!Join(ClusterOf[a], net[a])
       \/ pc[a] = "leave" /\ Registry!Leave(ClusterOf[a], net[a])
  \/ \E n \in Networks : Registry!RequestDelete(n)

(* An object that an agent holds with the current resourceVersion is what  *)
(* the broker has, so that writing it back overwrites nobody's change.     *)
LEMMA StepOnBroker ==
  ASSUME TypeOK, CopyInv, [Next]_mcnVars
  PROVE  broker' = broker \/ RegistryStep
<1>0. FreshIsCurrent /\ CopyFitsCall
  BY DEF CopyInv
<1>1. ASSUME NEW a \in Agents, CreateMCN(a)
      PROVE  broker' = broker \/ RegistryStep
  <2>1. CASE broker' # broker
    <3>1. /\ pc[a] = "create"
          /\ broker[net[a]] = NoMCN
          /\ broker' = [broker EXCEPT ![net[a]] = copy[a]]
          /\ copy[a].topology \in Topologies
      BY <1>1, <2>1 DEF CreateMCN
    <3>2. /\ copy[a] = [vni |-> copy[a].vni, topology |-> copy[a].topology,
                        finalizers |-> {ClusterOf[a]}, deleting |-> FALSE]
          /\ copy[a].vni \in Vnis
      BY <1>0, <3>1 DEF CopyFitsCall, TypeOK, MCNObject
    <3>3. Registry!Create(ClusterOf[a], net[a])
      BY <3>1, <3>2 DEF Registry!Create
    <3> QED
      BY <3>1, <3>3 DEF RegistryStep
  <2> QED
    BY <2>1
<1>2. ASSUME NEW a \in Agents, JoinMCN(a)
      PROVE  broker' = broker \/ RegistryStep
  <2>1. CASE broker' # broker
    <3>1. /\ pc[a] = "join" /\ fresh[a] /\ ~copy[a].deleting
          /\ broker' = [broker EXCEPT ![net[a]] =
                          [copy[a] EXCEPT !.finalizers = @ \cup {ClusterOf[a]}]]
      BY <1>2, <2>1 DEF JoinMCN
    <3>2. copy[a] = broker[net[a]] /\ copy[a] # NoMCN
      BY <1>0, <3>1 DEF FreshIsCurrent
    <3>3. Registry!Join(ClusterOf[a], net[a])
      BY <3>1, <3>2 DEF Registry!Join
    <3> QED
      BY <3>1, <3>3 DEF RegistryStep
  <2> QED
    BY <2>1
<1>3. ASSUME NEW a \in Agents, RemoveFinalizer(a)
      PROVE  broker' = broker \/ RegistryStep
  <2>1. CASE broker' # broker
    <3> DEFINE left == [copy[a] EXCEPT !.finalizers = @ \ {ClusterOf[a]}]
               rest == copy[a].finalizers \ {ClusterOf[a]}
    <3>1. /\ pc[a] = "leave" /\ fresh[a]
          /\ broker' = [broker EXCEPT ![net[a]] =
                          IF left.deleting /\ left.finalizers = {}
                            THEN NoMCN ELSE left]
      BY <1>3, <2>1 DEF RemoveFinalizer
    <3>2. /\ copy[a] = broker[net[a]] /\ copy[a] # NoMCN
          /\ ClusterOf[a] \in copy[a].finalizers
          /\ copy[a] \in MCNObject
      BY <1>0, <3>1 DEF FreshIsCurrent, CopyFitsCall, TypeOK
    <3>3. /\ left.deleting = copy[a].deleting /\ left.finalizers = rest
          /\ left = [copy[a] EXCEPT !.finalizers = rest]
      BY <3>2 DEF MCNObject
    <3> HIDE DEF left
    <3>4. Registry!Leave(ClusterOf[a], net[a])
      BY <3>1, <3>2, <3>3 DEF Registry!Leave
    <3> QED
      BY <3>1, <3>4 DEF RegistryStep
  <2> QED
    BY <2>1
<1>4. ASSUME NEW n \in Networks, DeleteMCN(n)
      PROVE  RegistryStep
  <2>1. Registry!RequestDelete(n)
    BY <1>4 DEF DeleteMCN, Registry!RequestDelete
  <2> QED
    BY <2>1 DEF RegistryStep
<1>5. CASE UNCHANGED mcnVars
  BY <1>5 DEF mcnVars
<1> QED
  BY <1>1, <1>2, <1>3, <1>4, <1>5
  DEF Next, ManagerStep, CreateOrJoinMCN, LeaveMCN, GetMCN, ReGetMCN,
      JoinExistingMCN, AllocateVNI, GetMCNToLeave, CallFails, Return, Crash, Forget

(* The manager implements the abstract registry: reading an object,        *)
(* editing a private copy and writing the copy back has, for every         *)
(* interleaving, crash and lost reply, the effect of an atomic create,     *)
(* join or leave.                                                          *)
THEOREM ManagerImplementsRegistry == Spec => RegistrySpec
<1>1. Init => Registry!Init
  BY DEF Init, Registry!Init
<1>2. ASSUME TypeOK, CopyInv, [Next]_mcnVars
      PROVE  [Registry!Next]_broker
  <2>1. CASE RegistryStep
    BY <1>2, <2>1, ConstantsAssumption DEF RegistryStep, Registry!Next, TypeOK
  <2> QED
    BY <1>2, <2>1, StepOnBroker
<1> QED
  BY <1>1, <1>2, TypeCorrect, CopiesCorrect, PTL
  DEF Spec, RegistrySpec, Registry!Spec

(* A network keeps its VNI and its topology for as long as it exists.      *)
THEOREM VniIsStable == Spec => VniStable
<1>1. ASSUME TypeOK, CopyInv, [Next]_mcnVars
      PROVE  [KeepsVni]_mcnVars
  <2>1. ASSUME NEW a \in Agents, Registry!Create(ClusterOf[a], net[a])
        PROVE  KeepsVni
    BY <1>1, <2>1 DEF KeepsVni, Registry!Create, TypeOK
  <2>2. ASSUME NEW a \in Agents, Registry!Join(ClusterOf[a], net[a])
        PROVE  KeepsVni
    BY <1>1, <2>2 DEF KeepsVni, Registry!Join, TypeOK, MCNObject
  <2>3. ASSUME NEW a \in Agents, Registry!Leave(ClusterOf[a], net[a])
        PROVE  KeepsVni
    BY <1>1, <2>3 DEF KeepsVni, Registry!Leave, TypeOK, MCNObject
  <2>4. ASSUME NEW n \in Networks, Registry!RequestDelete(n)
        PROVE  KeepsVni
    BY <1>1, <2>4 DEF KeepsVni, Registry!RequestDelete, TypeOK, MCNObject
  <2>5. CASE broker' = broker
    BY <2>5 DEF KeepsVni
  <2> QED
    BY <1>1, <2>1, <2>2, <2>3, <2>4, <2>5, StepOnBroker DEF RegistryStep
<1> QED
  BY <1>1, TypeCorrect, CopiesCorrect, PTL DEF Spec, VniStable

(* Each step changes the membership of the calling agent's cluster only.   *)
LEMMA MembershipStep ==
  ASSUME TypeOK, CopyInv, [Next]_mcnVars
  PROVE  MembershipIsOwn
<1>1. ASSUME NEW a \in Agents, pc[a] = "create",
             Registry!Create(ClusterOf[a], net[a])
      PROVE  MembershipIsOwn
  BY <1>1, ConstantsAssumption
  DEF MembershipIsOwn, Members, Registry!Create, TypeOK, MCNObject
<1>2. ASSUME NEW a \in Agents, pc[a] = "join",
             Registry!Join(ClusterOf[a], net[a])
      PROVE  MembershipIsOwn
  BY <1>2, ConstantsAssumption
  DEF MembershipIsOwn, Members, Registry!Join, TypeOK, MCNObject
<1>3. ASSUME NEW a \in Agents, pc[a] = "leave",
             Registry!Leave(ClusterOf[a], net[a])
      PROVE  MembershipIsOwn
  BY <1>3, ConstantsAssumption
  DEF MembershipIsOwn, Members, Registry!Leave, TypeOK, MCNObject
<1>4. ASSUME NEW n \in Networks, Registry!RequestDelete(n)
      PROVE  MembershipIsOwn
  BY <1>4, ConstantsAssumption
  DEF MembershipIsOwn, Members, Registry!RequestDelete, TypeOK, MCNObject
<1>5. CASE broker' = broker
  BY <1>5 DEF MembershipIsOwn, Members
<1> QED
  BY <1>1, <1>2, <1>3, <1>4, <1>5, StepOnBroker DEF RegistryStep
(* A cluster enters or leaves a network only by a call of its own agents.  *)
THEOREM MembershipOwned == Spec => OwnMembershipOnly
<1>1. TypeOK /\ CopyInv /\ [Next]_mcnVars => [MembershipIsOwn]_mcnVars
  BY MembershipStep
<1> QED
  BY <1>1, TypeCorrect, CopiesCorrect, PTL DEF Spec, OwnMembershipOnly

-----------------------------------------------------------------------------
(* What a successful join guarantees *)

(* An agent that holds the result of a call does not change it.            *)
LEMMA ResultKept ==
  ASSUME TypeOK, [Next]_mcnVars, NEW a \in Agents,
         pc[a] \in {"joined", "left"}, pc'[a] = pc[a]
  PROVE  net'[a] = net[a] /\ copy'[a] = copy[a]
<1>1. ASSUME NEW b \in Agents, ManagerStep(b)
      PROVE  net'[a] = net[a] /\ copy'[a] = copy[a]
  BY <1>1
  DEF ManagerStep, GetMCN, ReGetMCN, JoinExistingMCN, AllocateVNI, CreateMCN, JoinMCN,
      GetMCNToLeave, RemoveFinalizer, CallFails, CallSteps, TypeOK
<1> QED
  BY <1>1
  DEF Next, CreateOrJoinMCN, LeaveMCN, Return, Crash, Forget, DeleteMCN, mcnVars, TypeOK

(* At the moment CreateOrJoinMCN succeeds, the cluster is a member and the *)
(* object returned has the network's VNI and topology.                     *)
LEMMA JoinSucceeds ==
  ASSUME TypeOK, CopyInv, [Next]_mcnVars, NEW a \in Agents,
         pc[a] # "joined", pc'[a] = "joined"
  PROVE  /\ ClusterOf[a] \in Members(net[a])'
         /\ broker'[net'[a]].vni = copy'[a].vni
         /\ broker'[net'[a]].topology = copy'[a].topology
<1>1. ASSUME NEW b \in Agents, b # a, ManagerStep(b)
      PROVE  FALSE
  BY <1>1
  DEF ManagerStep, GetMCN, ReGetMCN, JoinExistingMCN, AllocateVNI, CreateMCN, JoinMCN,
      GetMCNToLeave, RemoveFinalizer, CallFails, TypeOK
<1>2. ManagerStep(a)
  BY <1>1
  DEF Next, CreateOrJoinMCN, LeaveMCN, Return, Crash, Forget, DeleteMCN, mcnVars, TypeOK
<1>3. CASE JoinExistingMCN(a)
  BY <1>3 DEF JoinExistingMCN, Members, TypeOK
<1>4. CASE CreateMCN(a)
  BY <1>4 DEF CreateMCN, CopyInv, CopyFitsCall, Members, TypeOK
<1>5. CASE JoinMCN(a)
  <2> DEFINE joined == [copy[a] EXCEPT !.finalizers = @ \cup {ClusterOf[a]}]
  <2>1. copy[a] \in MCNObject /\ pc[a] = "join"
    BY <1>5 DEF JoinMCN, CopyInv, CopyFitsCall, TypeOK
  <2>2. /\ joined # NoMCN /\ joined.vni = copy[a].vni /\ joined.topology = copy[a].topology
        /\ ClusterOf[a] \in joined.finalizers
    BY <2>1, FinalizerEdits, ConstantsAssumption DEF MCNObject
  <2>3. /\ broker' = [broker EXCEPT ![net[a]] = joined]
        /\ copy' = [copy EXCEPT ![a] = joined] /\ net' = net
    BY <1>5 DEF JoinMCN, TypeOK
  <2> HIDE DEF joined
  <2> QED
    BY <2>2, <2>3 DEF Members, TypeOK
<1> QED
  BY <1>2, <1>3, <1>4, <1>5, RepliesAreResults
  DEF ManagerStep, GetMCN, ReGetMCN, AllocateVNI, GetMCNToLeave, RemoveFinalizer,
      CallFails, Replies, TypeOK

(* For the only agent of a cluster, the network it has joined stays on the *)
(* broker with the VNI and topology it was told and with the cluster as a  *)
(* member, for as long as it acts on the result.                           *)
THEOREM JoinedStaysMember == Spec => []JoinedIsMember
<1>1. Init => JoinedIsMember
  BY DEF Init, JoinedIsMember
<1>2. ASSUME TypeOK, CopyInv, JoinedIsMember, [Next]_mcnVars
      PROVE  JoinedIsMember'
  <2> SUFFICES ASSUME NEW a \in Agents, pc'[a] = "joined", OnlyAgent(a)
               PROVE  /\ ClusterOf[a] \in Members(net[a])'
                      /\ broker'[net'[a]].vni = copy'[a].vni
                      /\ broker'[net'[a]].topology = copy'[a].topology
    BY DEF JoinedIsMember, OnlyAgent
  <2>1. CASE pc[a] # "joined"
    BY <1>2, <2>1, JoinSucceeds
  <2>2. CASE pc[a] = "joined"
    <3>1. /\ net'[a] = net[a] /\ copy'[a] = copy[a] /\ net[a] \in Networks
          /\ broker[net[a]] # NoMCN /\ broker[net[a]] \in MCNObject
          /\ ClusterOf[a] \in broker[net[a]].finalizers
          /\ broker[net[a]].vni = copy[a].vni /\ broker[net[a]].topology = copy[a].topology
      BY <1>2, <2>2, ResultKept DEF JoinedIsMember, Members, TypeOK
    <3> DEFINE Kept == /\ broker'[net[a]] # NoMCN
                       /\ ClusterOf[a] \in broker'[net[a]].finalizers
                       /\ broker'[net[a]].vni = broker[net[a]].vni
                       /\ broker'[net[a]].topology = broker[net[a]].topology
    <3>2. ASSUME NEW b \in Agents, Registry!Create(ClusterOf[b], net[b])
          PROVE  Kept
      BY <1>2, <3>1, <3>2 DEF Registry!Create, TypeOK
    <3>3. ASSUME NEW b \in Agents, Registry!Join(ClusterOf[b], net[b])
          PROVE  Kept
      BY <1>2, <3>1, <3>3, ConstantsAssumption DEF Registry!Join, TypeOK, MCNObject
    <3>4. ASSUME NEW b \in Agents, pc[b] = "leave",
                 Registry!Leave(ClusterOf[b], net[b])
          PROVE  Kept
      <4>1. ClusterOf[b] # ClusterOf[a]
        BY <2>2, <3>4 DEF OnlyAgent
      <4> QED
        BY <1>2, <3>1, <3>4, <4>1, ConstantsAssumption
        DEF Registry!Leave, TypeOK, MCNObject
    <3>5. ASSUME NEW n \in Networks, Registry!RequestDelete(n)
          PROVE  Kept
      BY <1>2, <3>1, <3>5, ConstantsAssumption
      DEF Registry!RequestDelete, TypeOK, MCNObject
    <3>6. Kept
      BY <1>2, <3>1, <3>2, <3>3, <3>4, <3>5, StepOnBroker DEF RegistryStep
    <3> QED
      BY <3>1, <3>6 DEF Members
  <2> QED
    BY <2>1, <2>2
<1> QED
  BY <1>1, <1>2, TypeCorrect, CopiesCorrect, PTL DEF Spec

-----------------------------------------------------------------------------
(* What a successful leave guarantees *)

(* At the moment LeaveMCN succeeds, the cluster is no member.              *)
LEMMA LeaveSucceeds ==
  ASSUME TypeOK, CopyInv, [Next]_mcnVars, NEW a \in Agents,
         pc[a] # "left", pc'[a] = "left"
  PROVE  ClusterOf[a] \notin Members(net[a])'
<1>1. ASSUME NEW b \in Agents, b # a, ManagerStep(b)
      PROVE  FALSE
  BY <1>1
  DEF ManagerStep, GetMCN, ReGetMCN, JoinExistingMCN, AllocateVNI, CreateMCN, JoinMCN,
      GetMCNToLeave, RemoveFinalizer, CallFails, TypeOK
<1>2. ManagerStep(a)
  BY <1>1
  DEF Next, CreateOrJoinMCN, LeaveMCN, Return, Crash, Forget, DeleteMCN, mcnVars, TypeOK
<1>3. CASE GetMCNToLeave(a)
  BY <1>3 DEF GetMCNToLeave, Members, TypeOK
<1>4. CASE RemoveFinalizer(a)
  <2> DEFINE left == [copy[a] EXCEPT !.finalizers = @ \ {ClusterOf[a]}]
             gone == left.deleting /\ left.finalizers = {}
  <2>1. copy[a] \in MCNObject /\ net[a] \in Networks
    BY <1>4 DEF RemoveFinalizer, CopyInv, CopyFitsCall, TypeOK
  <2>2. ClusterOf[a] \notin left.finalizers
    BY <2>1 DEF MCNObject
  <2>3. broker' = [broker EXCEPT ![net[a]] = IF gone THEN NoMCN ELSE left] /\ net' = net
    BY <1>4 DEF RemoveFinalizer, TypeOK
  <2> HIDE DEF left, gone
  <2> QED
    BY <2>1, <2>2, <2>3 DEF Members, TypeOK
<1> QED
  BY <1>2, <1>3, <1>4, RepliesAreResults
  DEF ManagerStep, GetMCN, ReGetMCN, JoinExistingMCN, AllocateVNI, CreateMCN, JoinMCN,
      CallFails, Replies, TypeOK

(* A cluster whose only agent was told that it left a network is not a     *)
(* member, for as long as the agent acts on the result: only that agent    *)
(* could bring it back, and it is not in a call.                           *)
THEOREM LeftStaysOutside == Spec => []LeftIsNoMember
<1>1. Init => LeftIsNoMember
  BY DEF Init, LeftIsNoMember
<1>2. ASSUME TypeOK, CopyInv, LeftIsNoMember, [Next]_mcnVars
      PROVE  LeftIsNoMember'
  <2> SUFFICES ASSUME NEW a \in Agents, pc'[a] = "left", OnlyAgent(a)
               PROVE  ClusterOf[a] \notin Members(net[a])'
    BY DEF LeftIsNoMember, OnlyAgent
  <2>1. CASE pc[a] # "left"
    BY <1>2, <2>1, LeaveSucceeds
  <2>2. CASE pc[a] = "left"
    <3>1. net'[a] = net[a] /\ net[a] \in Networks /\ ClusterOf[a] \in Clusters
      BY <1>2, <2>2, ResultKept, ConstantsAssumption DEF TypeOK
    <3>2. ClusterOf[a] \notin Members(net[a])
      BY <1>2, <2>2 DEF LeftIsNoMember
    <3>3. \A b \in Agents : ClusterOf[b] = ClusterOf[a] => pc[b] \notin {"create", "join"}
      BY <2>2 DEF OnlyAgent
    <3>4. MembershipIsOwn
      BY <1>2, MembershipStep
    <3>5. \A n \in Networks : ClusterOf[a] \in Members(n)' => ClusterOf[a] \in Members(n)
      BY <3>1, <3>3, <3>4 DEF MembershipIsOwn
    <3> QED
      BY <3>1, <3>2, <3>5 DEF Members
  <2> QED
    BY <2>1, <2>2
<1> QED
  BY <1>1, <1>2, TypeCorrect, CopiesCorrect, PTL DEF Spec

-----------------------------------------------------------------------------
(* Unique VNIs *)

(* A step that creates no network takes no VNI into use.                   *)
LEMMA NoCreation ==
  ASSUME TypeOK, CopyInv, VniUnique, KeepsVni,
         \A n \in Networks : broker[n] = NoMCN => broker'[n] = NoMCN
  PROVE  VniUnique' /\ AllocatedVnis' \subseteq AllocatedVnis
BY DEF VniUnique, KeepsVni, AllocatedVnis

(* AllocateVNI and createNewMCN keep VNIs unique, and the VNIs about to be *)
(* used free, in every step from a state with at most one agent between    *)
(* them.                                                                   *)
LEMMA SerialStep ==
  ASSUME TypeOK, CopyInv, AtMostOneCreating, VniUnique, PendingVniFree,
         [Next]_mcnVars, [KeepsVni]_mcnVars
  PROVE  VniUnique' /\ PendingVniFree'
<1>1. CASE \E a \in Agents : CreateMCN(a) /\ broker' # broker
  <2>1. PICK a \in Agents : CreateMCN(a) /\ broker' # broker
    BY <1>1
  <2>2. /\ pc[a] = "create" /\ broker[net[a]] = NoMCN
        /\ broker' = [broker EXCEPT ![net[a]] = copy[a]]
        /\ copy[a] # NoMCN /\ copy' = copy
        /\ copy[a].vni \notin AllocatedVnis
    BY <2>1 DEF CreateMCN, CopyInv, CopyFitsCall, PendingVniFree
  <2>3. VniUnique'
    BY <2>2 DEF VniUnique, AllocatedVnis, TypeOK
  <2>4. \A b \in Agents : pc'[b] # "create"
    BY <2>1, <2>2 DEF AtMostOneCreating, CreateMCN, Replies, TypeOK
  <2> QED
    BY <2>3, <2>4 DEF PendingVniFree
<1>2. CASE \A a \in Agents : ~(CreateMCN(a) /\ broker' # broker)
  <2>1. \A n \in Networks : broker[n] = NoMCN => broker'[n] = NoMCN
    <3>1. ASSUME NEW a \in Agents, JoinMCN(a) \/ RemoveFinalizer(a),
                 broker' # broker
          PROVE  broker[net[a]] # NoMCN
                   /\ \A n \in Networks \ {net[a]} : broker'[n] = broker[n]
      BY <3>1 DEF JoinMCN, RemoveFinalizer, CopyInv, FreshIsCurrent, TypeOK
    <3>2. ASSUME NEW n \in Networks, DeleteMCN(n)
          PROVE  broker[n] # NoMCN
                   /\ \A m \in Networks \ {n} : broker'[m] = broker[m]
      BY <3>2 DEF DeleteMCN, TypeOK
    <3> QED
      BY <1>2, <3>1, <3>2
      DEF Next, ManagerStep, CreateOrJoinMCN, LeaveMCN, GetMCN, ReGetMCN,
          JoinExistingMCN, AllocateVNI, GetMCNToLeave, CallFails, Return, Crash,
          Forget, mcnVars
  <2>2. KeepsVni
    BY DEF KeepsVni, mcnVars
  <2>3. VniUnique' /\ AllocatedVnis' \subseteq AllocatedVnis
    BY <2>1, <2>2, NoCreation
  <2>4. ASSUME NEW a \in Agents, pc'[a] = "create"
        PROVE  copy'[a].vni \notin AllocatedVnis
    <3>1. CASE AllocateVNI(a)
      <4>1. ~(Vnis \subseteq AllocatedVnis)
        BY <2>4, <3>1 DEF AllocateVNI, TypeOK
      <4> QED
        BY <3>1, <4>1, NewObject DEF TypeOK
    <3>2. CASE ~AllocateVNI(a)
      <4>1. ASSUME NEW b \in Agents, ManagerStep(b)
            PROVE  pc[a] = "create" /\ copy'[a] = copy[a]
        <5>1. CASE b = a
          BY <2>4, <3>2, <4>1, <5>1, RepliesAreResults
          DEF ManagerStep, GetMCN, ReGetMCN, JoinExistingMCN, CreateMCN, JoinMCN,
              GetMCNToLeave, RemoveFinalizer, CallFails, Results, TypeOK
        <5>2. CASE b # a
          BY <2>4, <4>1, <5>2
          DEF ManagerStep, GetMCN, ReGetMCN, JoinExistingMCN, AllocateVNI, CreateMCN,
              JoinMCN, GetMCNToLeave, RemoveFinalizer, CallFails, TypeOK
        <5> QED
          BY <5>1, <5>2
      <4>2. pc[a] = "create" /\ copy'[a] = copy[a]
        BY <2>4, <4>1
        DEF Next, CreateOrJoinMCN, LeaveMCN, Return, Crash, Forget, DeleteMCN, mcnVars,
            TypeOK
      <4> QED
        BY <4>2 DEF PendingVniFree
    <3> QED
      BY <3>1, <3>2
  <2> QED
    BY <2>3, <2>4 DEF PendingVniFree
<1> QED
  BY <1>1, <1>2

(* If no two agents ever are between AllocateVNI's list and the create at  *)
(* the same time, no two networks share a VNI.                             *)
THEOREM SerialCreationIsUnique == Spec => VniUniqueIfSerial
<1>1. Init => VniUnique /\ PendingVniFree
  BY DEF Init, VniUnique, PendingVniFree
<1>2. TypeOK /\ CopyInv /\ AtMostOneCreating /\ (VniUnique /\ PendingVniFree)
        /\ [Next]_mcnVars /\ [KeepsVni]_mcnVars => (VniUnique /\ PendingVniFree)'
  BY SerialStep
<1> QED
  BY <1>1, <1>2, TypeCorrect, CopiesCorrect, VniIsStable, PTL
  DEF Spec, VniStable, VniUniqueIfSerial
=============================================================================
