----------------------------- MODULE MCNManager -----------------------------
(***************************************************************************)
(* The MCN manager and the VNI allocator of the skynet-agents              *)
(* (pkg/agent/mcn, pkg/agent/allocator), working on the one registry of    *)
(* MultiClusterNetwork objects that the broker's API server keeps.         *)
(*                                                                         *)
(* Every agent runs CreateOrJoinMCN and LeaveMCN as a sequence of API      *)
(* calls; each call is one step here, so that the calls of different       *)
(* agents interleave as they do on the broker.                             *)
(*                                                                         *)
(* resourceVersion. The API server accepts an update only if the object    *)
(* was not written since the caller read it. Instead of numbers, fresh[a]  *)
(* says whether the object in agent a's hands still has the current        *)
(* resourceVersion: reading or writing sets it, any other write to the     *)
(* same object (also its removal) clears it.                               *)
(*                                                                         *)
(* routeTarget is a function of the VNI ("65000:<vni>") and is not stored. *)
(***************************************************************************)
EXTENDS Integers, FiniteSets

CONSTANTS Clusters,     \* cluster identifiers (SKYNET_CLUSTER_ID)
          Agents,       \* agent processes
          ClusterOf,    \* ClusterOf[a]: the cluster agent a runs in
          Networks,     \* MultiClusterNetwork names
          VNIMin,       \* first VNI of the range (5000 in the code)
          VNIMax,       \* last VNI of the range (10000 in the code)
          Topologies,   \* values the CRD admits for spec.topology
          NoTopology,   \* the empty topology of a request to join by name
          NoMCN,        \* no such object
          ApiFaults,    \* TRUE: an API call may fail, or its reply may be lost
          Crashes       \* TRUE: an agent may stop between two calls and restart

Vnis == VNIMin .. VNIMax

(* A MultiClusterNetwork object as an agent builds, reads and writes it.   *)
MCNObject == [vni : Vnis, topology : Topologies \cup {NoTopology},
              finalizers : SUBSET Clusters, deleting : BOOLEAN]

ASSUME ConstantsAssumption ==
  /\ ClusterOf \in [Agents -> Clusters]
  /\ VNIMin \in Nat /\ VNIMax \in Nat
  /\ NoTopology \notin Topologies
  /\ NoMCN \notin MCNObject
  /\ ApiFaults \in BOOLEAN /\ Crashes \in BOOLEAN

VARIABLES
  broker,   \* broker[n]: the MultiClusterNetwork n on the broker, or NoMCN
  pc,       \* pc[a]: the next API call of agent a's MCN manager, or its result
  net,      \* net[a]: the network name of the call in progress
  topo,     \* topo[a]: the topology argument of CreateOrJoinMCN
  copy,     \* copy[a]: the *MultiClusterNetwork in agent a's hands
  fresh     \* fresh[a]: copy[a] has the current resourceVersion

registryVars == <<broker>>
callVars == <<pc, net, topo, copy, fresh>>
mcnVars == <<broker, pc, net, topo, copy, fresh>>

CallSteps == {"get", "list", "create", "reget", "join", "leaveGet", "leave"}
Results == {"joined", "left", "failed"}

TypeOK ==
  /\ broker \in [Networks -> MCNObject \cup {NoMCN}]
  /\ pc \in [Agents -> {"idle"} \cup CallSteps \cup Results]
  /\ net \in [Agents -> Networks]
  /\ topo \in [Agents -> Topologies \cup {NoTopology}]
  /\ copy \in [Agents -> MCNObject \cup {NoMCN}]
  /\ fresh \in [Agents -> BOOLEAN]

Init ==
  /\ broker = [n \in Networks |-> NoMCN]
  /\ pc = [a \in Agents |-> "idle"]
  /\ net \in [Agents -> Networks]
  /\ topo = [a \in Agents |-> NoTopology]
  /\ copy = [a \in Agents |-> NoMCN]
  /\ fresh = [a \in Agents |-> FALSE]

-----------------------------------------------------------------------------
(* The API server. *)

(* Object n was written or removed: nobody but the writers holds a current *)
(* copy any more.                                                          *)
Outdate(n, writers) ==
  fresh' = [b \in Agents |-> IF b \in writers THEN TRUE
                             ELSE fresh[b] /\ net[b] # n]

(* A request that is carried out, but whose reply may get lost.            *)
Replies(result) == IF ApiFaults THEN {result, "failed"} ELSE {result}

(* Mutant: a network that is being deleted does not count as taken.        *)
AllocatedToLiveNetworks ==
  {broker[n].vni : n \in {m \in Networks : broker[m] # NoMCN /\ ~broker[m].deleting}}

AllocatedVnis == {broker[n].vni : n \in {m \in Networks : broker[m] # NoMCN}}

-----------------------------------------------------------------------------
(* CreateOrJoinMCN *)

CreateOrJoinMCN(a, n, t) ==
  /\ pc[a] = "idle"
  /\ pc' = [pc EXCEPT ![a] = "get"]
  /\ net' = [net EXCEPT ![a] = n]
  /\ topo' = [topo EXCEPT ![a] = t]
  /\ UNCHANGED <<broker, copy, fresh>>

(* GetMCN found the object: joinExistingMCN returns it if this cluster's   *)
(* finalizer is there, and goes on to add it otherwise.                    *)
JoinExistingMCN(a) ==
  /\ broker[net[a]] # NoMCN
  /\ copy' = [copy EXCEPT ![a] = broker[net[a]]]
  /\ fresh' = [fresh EXCEPT ![a] = TRUE]
  /\ pc' = [pc EXCEPT ![a] = IF ClusterOf[a] \in broker[net[a]].finalizers
                               THEN "joined" ELSE "join"]
  /\ UNCHANGED <<broker, net, topo>>

GetMCN(a) ==
  /\ pc[a] = "get"
  /\ \/ JoinExistingMCN(a)
     \/ /\ broker[net[a]] = NoMCN
        /\ pc' = [pc EXCEPT ![a] = "list"]
        /\ UNCHANGED <<broker, net, topo, copy, fresh>>

(* Mutant: hands out the VNI after the highest one that is taken.          *)
VniAfterHighest(taken) ==
  CHOOSE v \in VNIMin .. VNIMax + 1 :
    /\ \A u \in taken : u < v
    /\ v = VNIMin \/ v - 1 \in taken

(* findNextAvailableVNI: the lowest VNI of the range that is not taken.    *)
FindNextAvailableVNI(taken) ==
  CHOOSE v \in Vnis \ taken : \A u \in Vnis \ taken : v <= u

(* AllocateVNI lists the broker's networks; createNewMCN fills in the      *)
(* object it is about to create. Nothing is reserved on the broker yet.    *)
AllocateVNI(a) ==
  /\ pc[a] = "list"
  /\ IF Vnis \subseteq AllocatedVnis
       THEN /\ pc' = [pc EXCEPT ![a] = "failed"]
            /\ UNCHANGED copy
       ELSE /\ pc' = [pc EXCEPT ![a] = "create"]
            /\ copy' = [copy EXCEPT ![a] =
                          [vni |-> FindNextAvailableVNI(AllocatedVnis),
                           topology |-> topo[a],
                           finalizers |-> {ClusterOf[a]},
                           deleting |-> FALSE]]
  /\ UNCHANGED <<broker, net, topo, fresh>>

(* Mutant: an object of that name is overwritten instead of joined.        *)
CreateOverwrites(a) ==
  /\ pc[a] = "create"
  /\ IF copy[a].topology \in Topologies
       THEN /\ broker' = [broker EXCEPT ![net[a]] = copy[a]]
            /\ pc' = [pc EXCEPT ![a] = "joined"]
            /\ Outdate(net[a], {a})
       ELSE /\ pc' = [pc EXCEPT ![a] = "failed"]
            /\ UNCHANGED <<broker, fresh>>
  /\ UNCHANGED <<net, topo, copy>>

(* The Create call of createNewMCN. The CRD schema refuses an empty        *)
(* topology; an existing object of that name leads to a second GetMCN.     *)
CreateMCN(a) ==
  /\ pc[a] = "create"
  /\ \/ /\ copy[a].topology \notin Topologies
        /\ pc' = [pc EXCEPT ![a] = "failed"]
        /\ UNCHANGED <<broker, fresh>>
     \/ /\ copy[a].topology \in Topologies
        /\ broker[net[a]] # NoMCN
        /\ pc' = [pc EXCEPT ![a] = "reget"]
        /\ UNCHANGED <<broker, fresh>>
     \/ /\ copy[a].topology \in Topologies
        /\ broker[net[a]] = NoMCN
        /\ broker' = [broker EXCEPT ![net[a]] = copy[a]]
        /\ \E r \in Replies("joined") : pc' = [pc EXCEPT ![a] = r]
        /\ Outdate(net[a], {a})
  /\ UNCHANGED <<net, topo, copy>>

ReGetMCN(a) ==
  /\ pc[a] = "reget"
  /\ \/ JoinExistingMCN(a)
     \/ /\ broker[net[a]] = NoMCN
        /\ pc' = [pc EXCEPT ![a] = "failed"]
        /\ UNCHANGED <<broker, net, topo, copy, fresh>>

(* Mutant: a conflict is taken for success.                                *)
JoinIgnoresConflict(a) ==
  /\ pc[a] = "join"
  /\ IF fresh[a] /\ ~copy[a].deleting
       THEN LET joined == [copy[a] EXCEPT !.finalizers = @ \cup {ClusterOf[a]}]
            IN /\ broker' = [broker EXCEPT ![net[a]] = joined]
               /\ copy' = [copy EXCEPT ![a] = joined]
               /\ Outdate(net[a], {a})
       ELSE UNCHANGED <<broker, copy, fresh>>
  /\ pc' = [pc EXCEPT ![a] = "joined"]
  /\ UNCHANGED <<net, topo>>

(* Mutant: the update carries no resourceVersion and is never refused.     *)
JoinUnconditionally(a) ==
  /\ pc[a] = "join"
  /\ LET joined == [copy[a] EXCEPT !.finalizers = @ \cup {ClusterOf[a]}]
     IN /\ broker' = [broker EXCEPT ![net[a]] = joined]
        /\ copy' = [copy EXCEPT ![a] = joined]
  /\ pc' = [pc EXCEPT ![a] = "joined"]
  /\ Outdate(net[a], {a})
  /\ UNCHANGED <<net, topo>>

(* The update of joinExistingMCN writes the whole object that was read,    *)
(* with this cluster's finalizer appended. The API server refuses it with  *)
(* Conflict or NotFound when the copy is out of date, and refuses new      *)
(* finalizers on an object that is being deleted. No refusal is retried.   *)
JoinMCN(a) ==
  /\ pc[a] = "join"
  /\ IF fresh[a] /\ ~copy[a].deleting
       THEN LET joined == [copy[a] EXCEPT !.finalizers = @ \cup {ClusterOf[a]}]
            IN /\ broker' = [broker EXCEPT ![net[a]] = joined]
               /\ copy' = [copy EXCEPT ![a] = joined]
               /\ \E r \in Replies("joined") : pc' = [pc EXCEPT ![a] = r]
               /\ Outdate(net[a], {a})
       ELSE /\ pc' = [pc EXCEPT ![a] = "failed"]
            /\ UNCHANGED <<broker, copy, fresh>>
  /\ UNCHANGED <<net, topo>>

-----------------------------------------------------------------------------
(* LeaveMCN *)

LeaveMCN(a, n) ==
  /\ pc[a] = "idle"
  /\ pc' = [pc EXCEPT ![a] = "leaveGet"]
  /\ net' = [net EXCEPT ![a] = n]
  /\ UNCHANGED <<broker, topo, copy, fresh>>

(* Mutant: leaves a network it may not be in.                              *)
GetMCNToLeaveUnchecked(a) ==
  /\ pc[a] = "leaveGet"
  /\ IF broker[net[a]] # NoMCN
       THEN /\ pc' = [pc EXCEPT ![a] = "leave"]
            /\ copy' = [copy EXCEPT ![a] = broker[net[a]]]
            /\ fresh' = [fresh EXCEPT ![a] = TRUE]
       ELSE /\ pc' = [pc EXCEPT ![a] = "left"]
            /\ UNCHANGED <<copy, fresh>>
  /\ UNCHANGED <<broker, net, topo>>

GetMCNToLeave(a) ==
  /\ pc[a] = "leaveGet"
  /\ IF broker[net[a]] # NoMCN /\ ClusterOf[a] \in broker[net[a]].finalizers
       THEN /\ pc' = [pc EXCEPT ![a] = "leave"]
            /\ copy' = [copy EXCEPT ![a] = broker[net[a]]]
            /\ fresh' = [fresh EXCEPT ![a] = TRUE]
       ELSE /\ pc' = [pc EXCEPT ![a] = "left"]
            /\ UNCHANGED <<copy, fresh>>
  /\ UNCHANGED <<broker, net, topo>>

(* Mutant: the update of an old copy is taken for success.                 *)
LeaveIgnoresConflict(a) ==
  /\ pc[a] = "leave"
  /\ IF fresh[a]
       THEN LET left == [copy[a] EXCEPT !.finalizers = @ \ {ClusterOf[a]}]
                gone == left.deleting /\ left.finalizers = {}
            IN /\ broker' = [broker EXCEPT ![net[a]] = IF gone THEN NoMCN ELSE left]
               /\ copy' = [copy EXCEPT ![a] = left]
               /\ Outdate(net[a], IF gone THEN {} ELSE {a})
       ELSE UNCHANGED <<broker, copy, fresh>>
  /\ pc' = [pc EXCEPT ![a] = "left"]
  /\ UNCHANGED <<net, topo>>

(* The update without this cluster's finalizer. The API server removes an  *)
(* object that is being deleted when its last finalizer goes.              *)
RemoveFinalizer(a) ==
  /\ pc[a] = "leave"
  /\ IF fresh[a]
       THEN LET left == [copy[a] EXCEPT !.finalizers = @ \ {ClusterOf[a]}]
                gone == left.deleting /\ left.finalizers = {}
            IN /\ broker' = [broker EXCEPT ![net[a]] = IF gone THEN NoMCN ELSE left]
               /\ copy' = [copy EXCEPT ![a] = left]
               /\ \E r \in Replies("left") : pc' = [pc EXCEPT ![a] = r]
               /\ Outdate(net[a], IF gone THEN {} ELSE {a})
       ELSE /\ pc' = [pc EXCEPT ![a] = "failed"]
            /\ UNCHANGED <<broker, copy, fresh>>
  /\ UNCHANGED <<net, topo>>

-----------------------------------------------------------------------------
(* What can happen to a call, and the environment. *)

(* A call fails before the API server carried it out.                      *)
CallFails(a) ==
  /\ ApiFaults
  /\ pc[a] \in CallSteps
  /\ pc' = [pc EXCEPT ![a] = "failed"]
  /\ UNCHANGED <<broker, net, topo, copy, fresh>>

(* Nothing of a call survives it: the manager keeps no state of its own.   *)
Forget(a) ==
  /\ pc' = [pc EXCEPT ![a] = "idle"]
  /\ topo' = [topo EXCEPT ![a] = NoTopology]
  /\ copy' = [copy EXCEPT ![a] = NoMCN]
  /\ fresh' = [fresh EXCEPT ![a] = FALSE]
  /\ UNCHANGED <<broker, net>>

(* The caller takes the result.                                            *)
Return(a) ==
  /\ pc[a] \in Results
  /\ Forget(a)

(* The agent stops and is started again.                                   *)
Crash(a) ==
  /\ Crashes
  /\ pc[a] # "idle"
  /\ Forget(a)

(* Somebody deletes the MultiClusterNetwork on the broker (no code here    *)
(* does): it is removed at once if it has no finalizers, otherwise marked. *)
DeleteMCN(n) ==
  /\ broker[n] # NoMCN
  /\ ~broker[n].deleting
  /\ broker' = [broker EXCEPT ![n] = IF broker[n].finalizers = {}
                                       THEN NoMCN
                                       ELSE [broker[n] EXCEPT !.deleting = TRUE]]
  /\ Outdate(n, {})
  /\ UNCHANGED <<pc, net, topo, copy>>

(* One API call of agent a's MCN manager.                                  *)
ManagerStep(a) ==
  \/ GetMCN(a) \/ AllocateVNI(a) \/ CreateMCN(a) \/ ReGetMCN(a) \/ JoinMCN(a)
  \/ GetMCNToLeave(a) \/ RemoveFinalizer(a) \/ CallFails(a)

(* The manager on its own, used by callers that call it in any order.      *)
Next ==
  \/ \E a \in Agents :
       \/ \E n \in Networks :
            \/ \E t \in Topologies \cup {NoTopology} : CreateOrJoinMCN(a, n, t)
            \/ LeaveMCN(a, n)
       \/ ManagerStep(a)
       \/ Return(a)
       \/ Crash(a)
  \/ \E n \in Networks : DeleteMCN(n)

Spec == Init /\ [][Next]_mcnVars

-----------------------------------------------------------------------------
(* Properties *)

(* While a network exists its VNI and topology never change: no agent's    *)
(* write-back of an object it read earlier - possibly before the network   *)
(* was deleted and created again - replaces the VNI other clusters have    *)
(* already configured.                                                     *)
KeepsVni ==
  \A n \in Networks : broker[n] # NoMCN /\ broker'[n] # NoMCN =>
    /\ broker'[n].vni = broker[n].vni
    /\ broker'[n].topology = broker[n].topology

VniStable == [][KeepsVni]_mcnVars

Members(n) == IF broker[n] = NoMCN THEN {} ELSE broker[n].finalizers

(* A cluster enters or leaves a network only by a call of one of its own   *)
(* agents: concurrent updates by the agents of other clusters lose neither *)
(* its join nor its departure.                                             *)
MembershipIsOwn ==
  \A n \in Networks, c \in Clusters :
    /\ c \in Members(n) \ Members(n)' =>
         \E a \in Agents : ClusterOf[a] = c /\ net[a] = n /\ pc[a] = "leave"
    /\ c \in Members(n)' \ Members(n) =>
         \E a \in Agents : /\ ClusterOf[a] = c /\ net[a] = n
                           /\ pc[a] \in {"create", "join"}

OwnMembershipOnly == [][MembershipIsOwn]_mcnVars

(* If an agent is the only one of its cluster, the network a successful    *)
(* CreateOrJoinMCN returns to it is on the broker with that VNI and        *)
(* topology and holds the cluster's finalizer for as long as the agent     *)
(* acts on the result, whatever the other clusters and the broker's        *)
(* administrator do.                                                       *)
OnlyAgent(a) == \A b \in Agents : ClusterOf[b] = ClusterOf[a] => b = a

JoinedIsMember ==
  \A a \in Agents : pc[a] = "joined" /\ OnlyAgent(a) =>
    /\ ClusterOf[a] \in Members(net[a])
    /\ broker[net[a]].vni = copy[a].vni
    /\ broker[net[a]].topology = copy[a].topology

(* A LeaveMCN that reports success leaves the cluster outside: its         *)
(* finalizer is gone, although the update writes back a whole object that  *)
(* was read before, and stays away until the cluster itself joins again.   *)
LeftIsNoMember ==
  \A a \in Agents : pc[a] = "left" /\ OnlyAgent(a) => ClusterOf[a] \notin Members(net[a])

(* No two networks share a VNI: the README's "Allocates unique VNI         *)
(* (5000-10000) per network".                                              *)
VniUnique ==
  \A m, n \in Networks :
    m # n /\ broker[m] # NoMCN /\ broker[n] # NoMCN =>
      broker[m].vni # broker[n].vni

(* What AllocateVNI (list, then create) does guarantee: as long as no two  *)
(* agents are between the two calls at the same time, no two networks      *)
(* share a VNI - deletions, crashes, lost replies and exhausted ranges     *)
(* included.                                                               *)
AtMostOneCreating ==
  \A a, b \in Agents : pc[a] = "create" /\ pc[b] = "create" => a = b

(* An agent that is about to create a network holds a VNI nobody uses.     *)
PendingVniFree ==
  \A a \in Agents : pc[a] = "create" => copy[a].vni \notin AllocatedVnis

VniUniqueIfSerial == []AtMostOneCreating => []VniUnique

(* What the agents hold between two calls, the invariant the proofs rest   *)
(* on: a copy with the current resourceVersion equals the broker's object  *)
(* (FreshIsCurrent), each write is prepared from a copy fit for it         *)
(* (CopyFitsCall), and no object without a topology gets past the CRD.     *)
FreshIsCurrent ==
  \A a \in Agents : fresh[a] => copy[a] = broker[net[a]] /\ copy[a] # NoMCN

CopyFitsCall ==
  \A a \in Agents :
    /\ pc[a] \in {"idle", "get", "list", "create", "reget", "leaveGet"} => ~fresh[a]
    /\ pc[a] = "create" => /\ copy[a] # NoMCN
                           /\ copy[a].finalizers = {ClusterOf[a]}
                           /\ ~copy[a].deleting
    /\ pc[a] \in {"join", "joined"} => copy[a] # NoMCN
    /\ pc[a] = "leave" => copy[a] # NoMCN /\ ClusterOf[a] \in copy[a].finalizers

TopologyChecked ==
  \A n \in Networks : broker[n] # NoMCN => broker[n].topology \in Topologies

CopyInv == FreshIsCurrent /\ CopyFitsCall /\ TopologyChecked

(* The manager implements the abstract registry.                           *)
Registry == INSTANCE MCNRegistry
              WITH Clusters <- Clusters, Networks <- Networks, Vnis <- Vnis,
                   Topologies <- Topologies, NoMCN <- NoMCN, broker <- broker
RegistrySpec == Registry!Spec
=============================================================================
