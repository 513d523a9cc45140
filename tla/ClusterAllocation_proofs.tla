----------------------- MODULE ClusterAllocation_proofs -----------------------
(***************************************************************************)
(* Machine-checked proofs about ClusterAllocation, for any clusters, pools *)
(* and spec values, with API faults and restarts, with and without the     *)
(* status subresource.                                                     *)
(***************************************************************************)
EXTENDS ClusterAllocation, WellFoundedInduction, TLAPS

(* The loops over the pools return the first free value, a member of the   *)
(* pool.                                                                   *)
LEMMA LowestIsMember ==
  ASSUME NEW S \in SUBSET Nat, S # {}
  PROVE  Lowest(S) \in S
<1>1. PICK x \in S : \A y \in S : <<y, x>> \notin OpToRel(<, Nat)
  BY NatLessThanWellFounded, WFMin
<1>2. \A y \in S : x <= y
  <2> TAKE y \in S
  <2>1. y \in Nat /\ x \in Nat
    OBVIOUS
  <2>2. ~(y < x)
    BY <1>1, <2>1 DEF OpToRel
  <2> QED
    BY <2>1, <2>2
<1> QED
  BY <1>2 DEF Lowest

LEMMA AllocatedFromPool ==
  /\ FreeVteps # {} => Lowest(FreeVteps) \in VtepPool
  /\ FreeASNs # {} => Lowest(FreeASNs) \in ASNPool
<1>1. FreeVteps \subseteq Nat /\ FreeVteps \subseteq VtepPool
  BY AllocationAssumption DEF FreeVteps, VtepPool
<1>2. FreeASNs \subseteq Nat /\ FreeASNs \subseteq ASNPool
  BY AllocationAssumption DEF FreeASNs, ASNPool
<1> QED
  BY <1>1, <1>2, LowestIsMember

LEMMA PoolIsWritten == VtepPool \subseteq VtepCIDRs
BY AllocationAssumption DEF VtepPool, VtepCIDRs

-----------------------------------------------------------------------------
(* The inductive invariant *)

(* A reconcile at work has an allocation in its hands.                     *)
HandsFull == \A c \in Clusters : op[c] # "idle" => pick[c] \in Allocation

(* What passes for current is current, and a reconcile that found an       *)
(* allocation in the status computes no other one.                         *)
CopiesFit ==
  \A c \in Clusters :
    /\ cached[c] => cache[c] = status[c]
    /\ heldFresh[c] => held[c] = status[c]
    /\ held[c] # NoAlloc => pick[c] = held[c] /\ op[c] \in {"deploy", "status"}

AllocInv == AllocTypeOK /\ HandsFull /\ CopiesFit

LEMMA InitialInv == AllocInit => AllocInv
BY AllocationAssumption
DEF AllocInit, AllocInv, AllocTypeOK, HandsFull, CopiesFit

(* A reconcile that returns leaves the invariant, whatever it wrote to the *)
(* Skynet object, if the cache does not pass for current wrongly.          *)
LEMMA FinishKeeps ==
  ASSUME AllocInv, NEW c \in Clusters, NEW again \in BOOLEAN, Finish(c, again),
         UNCHANGED <<env, agentVars, broker>>,
         restarts' \in 0 .. MaxRestarts,
         status' \in [Clusters -> Allocation \cup {NoAlloc}],
         cache' \in [Clusters -> Allocation \cup {NoAlloc}],
         cached' \in [Clusters -> BOOLEAN],
         \A d \in Clusters \ {c} : /\ status'[d] = status[d]
                                   /\ cache'[d] = cache[d]
                                   /\ cached'[d] = cached[d],
         cached'[c] => cache'[c] = status'[c]
  PROVE  AllocInv'
<1>1. AllocTypeOK'
  BY DEF AllocInv, AllocTypeOK, Finish, agentVars
<1>2. HandsFull'
  BY DEF AllocInv, AllocTypeOK, HandsFull, Finish, agentVars
<1>3. CopiesFit'
  BY DEF AllocInv, AllocTypeOK, CopiesFit, Finish
<1> QED
  BY <1>1, <1>2, <1>3 DEF AllocInv

(* The operator's calls up to the Deployment: nothing is written to the    *)
(* Skynet object.                                                          *)
LEMMA FailKeeps ==
  ASSUME AllocInv, NEW c \in Clusters, Fail(c),
         UNCHANGED <<skynetVars, env, agentVars, broker, restarts>>
  PROVE  AllocInv'
<1>1. /\ restarts' \in 0 .. MaxRestarts
      /\ status' \in [Clusters -> Allocation \cup {NoAlloc}]
      /\ cache' \in [Clusters -> Allocation \cup {NoAlloc}]
      /\ cached' \in [Clusters -> BOOLEAN]
      /\ cached'[c] => cache'[c] = status'[c]
  BY DEF AllocInv, AllocTypeOK, CopiesFit, skynetVars
<1> QED
  BY <1>1, FinishKeeps DEF Fail, skynetVars

LEMMA ReconcileKeeps ==
  ASSUME AllocInv, NEW c \in Clusters, Reconcile(c)
  PROVE  AllocInv'
<1>1. AllocTypeOK'
  BY AllocationAssumption
  DEF AllocInv, AllocTypeOK, Reconcile, Allocation, skynetVars, agentVars
<1>2. HandsFull'
  BY AllocationAssumption
  DEF AllocInv, AllocTypeOK, HandsFull, Reconcile, Allocation, skynetVars, agentVars
<1>3. CopiesFit'
  BY DEF AllocInv, AllocTypeOK, CopiesFit, Reconcile, skynetVars
<1> QED
  BY <1>1, <1>2, <1>3 DEF AllocInv

(* The reconcile goes on to the call s with the allocation p.              *)
LEMMA GoesOn ==
  ASSUME AllocInv, NEW c \in Clusters, NEW s \in {"asn", "unique", "deploy"},
         Goto(c, s), op[c] \in {"vtep", "asn", "unique"},
         NEW p \in Allocation, pick' = [pick EXCEPT ![c] = p],
         UNCHANGED <<skynetVars, env, agentVars, broker, restarts>>
  PROVE  AllocInv'
<1>1. AllocTypeOK'
  BY DEF AllocInv, AllocTypeOK, Goto, skynetVars, agentVars
<1>2. HandsFull'
  BY DEF AllocInv, AllocTypeOK, HandsFull, Goto, agentVars
<1>3. CopiesFit'
  BY DEF AllocInv, AllocTypeOK, CopiesFit, Goto, skynetVars
<1> QED
  BY <1>1, <1>2, <1>3 DEF AllocInv

LEMMA AllocationKeeps ==
  ASSUME AllocInv, NEW c \in Clusters,
         AllocateVtepCIDR(c) \/ AllocateASN(c) \/ EnsureBrokerUnique(c)
  PROVE  AllocInv'
<1>1. op[c] \in {"vtep", "asn", "unique"} /\ pick[c] \in Allocation
  BY DEF AllocateVtepCIDR, AllocateASN, EnsureBrokerUnique, AllocInv, HandsFull
<1>2. UNCHANGED <<skynetVars, env, agentVars, broker, restarts>>
  BY DEF AllocateVtepCIDR, AllocateASN, EnsureBrokerUnique
<1>3. CASE Fail(c)
  BY <1>2, <1>3, FailKeeps
<1>4. CASE \E s \in {"asn", "unique", "deploy"} : Goto(c, s) /\ UNCHANGED pick
  <2>1. pick' = [pick EXCEPT ![c] = pick[c]]
    BY <1>4 DEF AllocInv, AllocTypeOK
  <2> QED
    BY <1>1, <1>2, <1>4, <2>1, GoesOn
<1>5. CASE /\ FreeVteps # {} /\ Goto(c, "asn")
           /\ pick' = [pick EXCEPT ![c].vtep = Lowest(FreeVteps)]
  <2> DEFINE p == [pick[c] EXCEPT !.vtep = Lowest(FreeVteps)]
  <2>1. p \in Allocation
    BY <1>1, <1>5, AllocatedFromPool, PoolIsWritten DEF Allocation
  <2>2. pick' = [pick EXCEPT ![c] = p]
    BY <1>5
  <2> QED
    BY <1>1, <1>2, <1>5, <2>1, <2>2, GoesOn
<1>6. CASE /\ FreeASNs # {} /\ Goto(c, "unique")
           /\ pick' = [pick EXCEPT ![c].asn = Lowest(FreeASNs)]
  <2> DEFINE p == [pick[c] EXCEPT !.asn = Lowest(FreeASNs)]
  <2>1. p \in Allocation
    BY <1>1, <1>6, AllocatedFromPool DEF Allocation
  <2>2. pick' = [pick EXCEPT ![c] = p]
    BY <1>6
  <2> QED
    BY <1>1, <1>2, <1>6, <2>1, <2>2, GoesOn
<1> QED
  BY <1>3, <1>4, <1>5, <1>6 DEF AllocateVtepCIDR, AllocateASN, EnsureBrokerUnique

LEMMA DeploymentKeeps ==
  ASSUME AllocInv, NEW c \in Clusters, ReconcileDeployment(c)
  PROVE  AllocInv'
<1>1. pick[c] \in Allocation
  BY DEF AllocInv, HandsFull, ReconcileDeployment
<1>2. AllocTypeOK'
  BY <1>1 DEF AllocInv, AllocTypeOK, ReconcileDeployment, Goto, skynetVars, agentVars
<1>3. HandsFull'
  BY DEF AllocInv, AllocTypeOK, HandsFull, ReconcileDeployment, Goto, agentVars
<1>4. CopiesFit'
  BY DEF AllocInv, AllocTypeOK, CopiesFit, ReconcileDeployment, Goto, skynetVars
<1> QED
  BY <1>2, <1>3, <1>4 DEF AllocInv

LEMMA StatusUpdateKeeps ==
  ASSUME AllocInv, NEW c \in Clusters, UpdateStatus(c)
  PROVE  AllocInv'
<1>1. UNCHANGED <<env, agentVars, broker, restarts>>
  BY DEF UpdateStatus
<1>2. CASE UNCHANGED skynetVars /\ \E again \in BOOLEAN : Finish(c, again)
  <2>1. /\ restarts' \in 0 .. MaxRestarts
        /\ status' \in [Clusters -> Allocation \cup {NoAlloc}]
        /\ cache' \in [Clusters -> Allocation \cup {NoAlloc}]
        /\ cached' \in [Clusters -> BOOLEAN]
        /\ cached'[c] => cache'[c] = status'[c]
    BY <1>1, <1>2 DEF AllocInv, AllocTypeOK, CopiesFit, skynetVars
  <2> QED
    BY <1>1, <1>2, <2>1, FinishKeeps DEF skynetVars
<1>3. CASE /\ status' = [status EXCEPT ![c] = pick[c]]
           /\ cached' = [cached EXCEPT ![c] = FALSE]
           /\ Finish(c, FALSE) /\ UNCHANGED cache
  <2>1. /\ restarts' \in 0 .. MaxRestarts
        /\ status' \in [Clusters -> Allocation \cup {NoAlloc}]
        /\ cache' \in [Clusters -> Allocation \cup {NoAlloc}]
        /\ cached' \in [Clusters -> BOOLEAN]
        /\ ~cached'[c]
        /\ \A d \in Clusters \ {c} : /\ status'[d] = status[d]
                                     /\ cache'[d] = cache[d]
                                     /\ cached'[d] = cached[d]
    BY <1>1, <1>3 DEF AllocInv, AllocTypeOK
  <2> QED
    BY <1>1, <1>3, <2>1, FinishKeeps
<1> QED
  BY <1>2, <1>3 DEF UpdateStatus, Fail

LEMMA WatchesKeep ==
  ASSUME AllocInv, NEW c \in Clusters, WatchSkynet(c) \/ WatchDeployment(c)
  PROVE  AllocInv'
<1>1. AllocTypeOK'
  <2>1. CASE WatchSkynet(c)
    <3>1. cache' \in [Clusters -> Allocation \cup {NoAlloc}]
      BY <2>1 DEF AllocInv, AllocTypeOK, WatchSkynet
    <3> QED
      BY <2>1, <3>1 DEF AllocInv, AllocTypeOK, WatchSkynet, opVars, agentVars
  <2>2. CASE WatchDeployment(c)
    BY <2>2 DEF AllocInv, AllocTypeOK, WatchDeployment, skynetVars, opVars, agentVars
  <2> QED
    BY <2>1, <2>2
<1>2. HandsFull'
  BY DEF AllocInv, HandsFull, WatchSkynet, WatchDeployment, opVars, agentVars
<1>3. CopiesFit'
  BY DEF AllocInv, AllocTypeOK, CopiesFit, WatchSkynet, WatchDeployment, skynetVars, opVars
<1> QED
  BY <1>1, <1>2, <1>3 DEF AllocInv

LEMMA RestartKeeps ==
  ASSUME AllocInv, NEW c \in Clusters, RestartOperator(c)
  PROVE  AllocInv'
<1>1. restarts' \in 0 .. MaxRestarts
  BY AllocationAssumption DEF AllocInv, AllocTypeOK, RestartOperator
<1>2. /\ status' \in [Clusters -> Allocation \cup {NoAlloc}]
      /\ cache' \in [Clusters -> Allocation \cup {NoAlloc}]
      /\ cached' \in [Clusters -> BOOLEAN]
      /\ \A d \in Clusters \ {c} : /\ status'[d] = status[d]
                                   /\ cache'[d] = cache[d]
                                   /\ cached'[d] = cached[d]
      /\ cache'[c] = status'[c]
  BY DEF AllocInv, AllocTypeOK, RestartOperator
<1> QED
  BY <1>1, <1>2, FinishKeeps DEF RestartOperator

(* A pod that goes on is a pod.                                            *)
LEMMA AdvanceTypes ==
  ASSUME pods \in [Clusters -> SUBSET Pods], NEW c \in Clusters, NEW x \in pods[c],
         NEW s \in {"register", "vtep", "up"}, Advance(c, x, s)
  PROVE  pods' \in [Clusters -> SUBSET Pods]
<1>1. [x EXCEPT !.step = s] \in Pods
  BY DEF Pods
<1> QED
  BY <1>1 DEF Advance

(* It keeps the allocation it was started with.                            *)
LEMMA AdvanceKeepsAlloc ==
  ASSUME pods \in [Clusters -> SUBSET Pods], NEW c \in Clusters, NEW x \in pods[c],
         NEW s, Advance(c, x, s)
  PROVE  \A d \in Clusters : Started(d)' \subseteq Started(d)
<1>1. [x EXCEPT !.step = s].alloc = x.alloc
  BY DEF Pods
<1>2. \A d \in Clusters \ {c} : pods'[d] = pods[d]
  BY DEF Advance
<1>3. pods'[c] = (pods[c] \ {x}) \cup {[x EXCEPT !.step = s]}
  BY DEF Advance
<1>4. Started(c)' \subseteq Started(c)
  BY <1>1, <1>3 DEF Started
<1> QED
  BY <1>2, <1>4 DEF Started

LEMMA AgentKeeps ==
  ASSUME AllocInv, NEW c \in Clusters, AgentStep(c)
  PROVE  AllocInv'
<1> USE DEF skynetVars, opVars
<1>1. CASE StartPod(c)
  <2>1. [alloc |-> env[c], step |-> "register"] \in Pods
    BY <1>1 DEF AllocInv, AllocTypeOK, StartPod, Pods
  <2>2. pods' \in [Clusters -> SUBSET Pods]
    BY <1>1, <2>1 DEF AllocInv, AllocTypeOK, StartPod
  <2> QED
    BY <1>1, <2>2 DEF AllocInv, AllocTypeOK, HandsFull, CopiesFit, StartPod
<1>2. CASE RegisterCluster(c)
  <2>1. PICK x \in pods[c] :
          /\ local' = [local EXCEPT ![c] = x.alloc]
          /\ Advance(c, x, "vtep")
          /\ UNCHANGED <<skynetVars, queue, opVars, env, vtepCR, broker, restarts>>
    BY <1>2 DEF RegisterCluster
  <2>2. pods' \in [Clusters -> SUBSET Pods]
    BY <2>1, AdvanceTypes DEF AllocInv, AllocTypeOK
  <2>3. x.alloc \in Allocation
    BY DEF AllocInv, AllocTypeOK, Pods
  <2> QED
    BY <2>1, <2>2, <2>3 DEF AllocInv, AllocTypeOK, HandsFull, CopiesFit
<1>3. CASE EnsureLocalVTEP(c)
  <2>1. PICK x \in pods[c] :
          /\ vtepCR' = [vtepCR EXCEPT ![c] = x.alloc.vtep]
          /\ Advance(c, x, "up")
          /\ UNCHANGED <<skynetVars, queue, opVars, env, local, broker, restarts>>
    BY <1>3 DEF EnsureLocalVTEP
  <2>2. pods' \in [Clusters -> SUBSET Pods]
    BY <2>1, AdvanceTypes DEF AllocInv, AllocTypeOK
  <2>3. x.alloc.vtep \in VtepCIDRs \cup {NoVtep}
    BY DEF AllocInv, AllocTypeOK, Pods, Allocation
  <2> QED
    BY <2>1, <2>2, <2>3 DEF AllocInv, AllocTypeOK, HandsFull, CopiesFit
<1>4. CASE ExportCluster(c)
  BY <1>4 DEF AllocInv, AllocTypeOK, HandsFull, CopiesFit, ExportCluster, agentVars
<1>5. CASE RestartAgent(c)
  <2>1. PICK x \in pods[c] :
          /\ restarts < MaxRestarts /\ restarts' = restarts + 1
          /\ Advance(c, x, "register")
          /\ UNCHANGED <<skynetVars, queue, opVars, env, local, vtepCR, broker>>
    BY <1>5 DEF RestartAgent
  <2>2. pods' \in [Clusters -> SUBSET Pods]
    BY <2>1, AdvanceTypes DEF AllocInv, AllocTypeOK
  <2>3. restarts' \in 0 .. MaxRestarts
    BY <2>1, AllocationAssumption DEF AllocInv, AllocTypeOK
  <2> QED
    BY <2>1, <2>2, <2>3 DEF AllocInv, AllocTypeOK, HandsFull, CopiesFit
<1>6. CASE StopOldPod(c)
  <2>1. pods' \in [Clusters -> SUBSET Pods]
    BY <1>6 DEF AllocInv, AllocTypeOK, StopOldPod
  <2> QED
    BY <1>6, <2>1 DEF AllocInv, AllocTypeOK, HandsFull, CopiesFit, StopOldPod
<1> QED
  BY <1>1, <1>2, <1>3, <1>4, <1>5, <1>6 DEF AgentStep

LEMMA InvInductive == AllocInv /\ [AllocNext]_vars => AllocInv'
<1> SUFFICES ASSUME AllocInv, [AllocNext]_vars PROVE AllocInv'
  OBVIOUS
<1>1. CASE UNCHANGED vars
  BY <1>1 DEF vars, AllocInv, AllocTypeOK, HandsFull, CopiesFit
<1>2. ASSUME NEW c \in Clusters, OperatorStep(c) PROVE AllocInv'
  BY <1>2, ReconcileKeeps, AllocationKeeps, DeploymentKeeps, StatusUpdateKeeps
  DEF OperatorStep
<1>3. ASSUME NEW c \in Clusters, OperatorCallFails(c) PROVE AllocInv'
  BY <1>3, FailKeeps DEF OperatorCallFails
<1> QED
  BY <1>1, <1>2, <1>3, WatchesKeep, RestartKeeps, AgentKeeps DEF AllocNext

-----------------------------------------------------------------------------
(* Theorems *)

(* Every variable has its type; in particular an ASN or a VTEP CIDR that   *)
(* the operators choose comes from the pool.                               *)
THEOREM AllocTypeCorrect == AllocSpec => []AllocTypeOK
<1>1. AllocInv => AllocTypeOK
  BY DEF AllocInv
<1> QED
  BY <1>1, InitialInv, InvInductive, PTL DEF AllocSpec

(* The allocation in a Skynet's status is made once (StatusStable).        *)
THEOREM StatusIsStable == AllocSpec => StatusStable
<1> DEFINE Kept == \A c \in Clusters : status[c] # NoAlloc => status'[c] = status[c]
<1>1. ASSUME AllocInv, [AllocNext]_vars
      PROVE  [Kept]_vars
  <2>1. ASSUME NEW c \in Clusters, UpdateStatus(c), status' # status
        PROVE  Kept
    <3>1. pick[c] # held[c] /\ heldFresh[c] /\ status' = [status EXCEPT ![c] = pick[c]]
      BY <2>1 DEF UpdateStatus, skynetVars
    <3>2. status[c] = NoAlloc
      BY <1>1, <3>1 DEF AllocInv, CopiesFit
    <3> QED
      BY <1>1, <3>1, <3>2 DEF AllocInv, AllocTypeOK
  <2>2. CASE status' = status
    BY <2>2
  <2>3. CASE AllocNext /\ status' # status
    <3>1. PICK c \in Clusters : UpdateStatus(c)
      BY <2>3 DEF AllocNext, OperatorStep, AgentStep, Reconcile, AllocateVtepCIDR,
        AllocateASN, EnsureBrokerUnique, ReconcileDeployment, OperatorCallFails,
        WatchSkynet, WatchDeployment, RestartOperator, StartPod, RegisterCluster,
        EnsureLocalVTEP, RestartAgent, StopOldPod, ExportCluster, skynetVars
    <3> QED
      BY <2>1, <2>3, <3>1
  <2> QED
    BY <1>1, <2>2, <2>3 DEF vars
<1> QED
  BY <1>1, InitialInv, InvInductive, PTL DEF AllocSpec, StatusStable

-----------------------------------------------------------------------------
(* Clusters that are installed one after the other *)

(* The subnets of the pool, with the ASNs of the pool.                     *)
Full == [vtep : VtepPool, asn : ASNPool]

(* All allocations of c that have passed ensureBrokerUnique, wherever they *)
(* are.                                                                    *)
Chosen(c) ==
  ({status[c], cache[c], held[c], env[c], local[c], broker[c]} \cup Started(c) \cup
   (IF op[c] \in {"deploy", "status"} THEN {pick[c]} ELSE {})) \ {NoAlloc}

(* Old copies of the status are from before the allocation.                *)
OldIsEmpty ==
  \A c \in Clusters : /\ cache[c] \in {NoAlloc, status[c]}
                      /\ held[c] \in {NoAlloc, status[c]}

(* What was chosen is a subnet and an ASN of the pools.                    *)
ChoicesFull ==
  \A c \in Clusters :
    /\ Chosen(c) \subseteq Full
    /\ op[c] = "vtep" => pick[c] = [vtep |-> SpecVtep[c], asn |-> SpecASN[c]]
    /\ op[c] = "asn" => \E v \in VtepPool : pick[c] = [vtep |-> v, asn |-> SpecASN[c]]
    /\ op[c] = "unique" => pick[c] \in Full

(* What c has chosen differs from what any other cluster has registered.   *)
NoClash ==
  \A c, d \in Clusters : c # d /\ broker[d] # NoAlloc =>
    \A p \in Chosen(c) : p.vtep # broker[d].vtep /\ p.asn # broker[d].asn

SerialInv == AllocInv /\ OneAtATime /\ OldIsEmpty /\ ChoicesFull /\ NoClash

SerialNext == AllocNext /\ OneAtATime'

(* Only ensureBrokerUnique adds to what is chosen, and only the broker     *)
(* syncer changes a registration.                                          *)
LEMMA ChoicesOnlyMove ==
  ASSUME AllocInv, NEW c \in Clusters,
         \/ Reconcile(c) \/ AllocateVtepCIDR(c) \/ AllocateASN(c)
         \/ EnsureBrokerUnique(c) /\ Fail(c)
         \/ ReconcileDeployment(c) \/ UpdateStatus(c) \/ OperatorCallFails(c)
         \/ WatchSkynet(c) \/ WatchDeployment(c) \/ RestartOperator(c)
         \/ StartPod(c) \/ RegisterCluster(c) \/ EnsureLocalVTEP(c)
         \/ RestartAgent(c) \/ StopOldPod(c)
  PROVE  broker' = broker /\ \A d \in Clusters : Chosen(d)' \subseteq Chosen(d)
<1> USE DEF AllocInv, AllocTypeOK, Chosen, Started
<1>1. CASE Reconcile(c)
  BY <1>1 DEF Reconcile, skynetVars, agentVars
<1>2. CASE Fail(c) /\ UNCHANGED <<skynetVars, env, agentVars, broker>>
  BY <1>2 DEF Fail, Finish, skynetVars, agentVars
<1>3. CASE AllocateVtepCIDR(c) \/ AllocateASN(c)
  BY <1>2, <1>3 DEF AllocateVtepCIDR, AllocateASN, Goto, skynetVars, agentVars
<1>4. CASE EnsureBrokerUnique(c) /\ Fail(c)
  BY <1>2, <1>4 DEF EnsureBrokerUnique
<1>5. CASE ReconcileDeployment(c)
  BY <1>5 DEF ReconcileDeployment, Goto, skynetVars, agentVars
<1>6. CASE UpdateStatus(c)
  BY <1>6 DEF UpdateStatus, Fail, Finish, skynetVars, agentVars
<1>7. CASE OperatorCallFails(c)
  BY <1>2, <1>7 DEF OperatorCallFails
<1>8. CASE WatchSkynet(c) \/ WatchDeployment(c)
  BY <1>8 DEF WatchSkynet, WatchDeployment, skynetVars, opVars, agentVars
<1>9. CASE RestartOperator(c)
  BY <1>9 DEF RestartOperator, Finish, agentVars
<1>10. CASE StartPod(c)
  BY <1>10 DEF StartPod, skynetVars, opVars
<1>11. CASE RegisterCluster(c)
  <2>1. PICK x \in pods[c] : local' = [local EXCEPT ![c] = x.alloc] /\ Advance(c, x, "vtep")
    BY <1>11 DEF RegisterCluster
  <2>2. x.alloc \in Started(c)
    OBVIOUS
  <2>3. \A d \in Clusters : Started(d)' \subseteq Started(d)
    BY <2>1, AdvanceKeepsAlloc
  <2>4. UNCHANGED <<skynetVars, opVars, env, broker>>
    BY <1>11 DEF RegisterCluster
  <2> HIDE DEF Started
  <2> QED
    BY <2>1, <2>2, <2>3, <2>4 DEF skynetVars, opVars
<1>12. CASE EnsureLocalVTEP(c) \/ RestartAgent(c)
  <2>1. PICK x \in pods[c], s \in {"register", "up"} : Advance(c, x, s)
    BY <1>12 DEF EnsureLocalVTEP, RestartAgent
  <2>2. \A d \in Clusters : Started(d)' \subseteq Started(d)
    BY <2>1, AdvanceKeepsAlloc
  <2>3. UNCHANGED <<skynetVars, opVars, env, local, broker>>
    BY <1>12 DEF EnsureLocalVTEP, RestartAgent
  <2> HIDE DEF Started
  <2> QED
    BY <2>2, <2>3 DEF skynetVars, opVars
<1>13. CASE StopOldPod(c)
  BY <1>13 DEF StopOldPod, skynetVars, opVars
<1> QED
  BY <1>1, <1>3, <1>4, <1>5, <1>6, <1>7, <1>8, <1>9, <1>10, <1>11, <1>12, <1>13

LEMMA OldStaysEmpty ==
  ASSUME AllocInv, OldIsEmpty, AllocNext
  PROVE  OldIsEmpty'
<1> USE DEF AllocInv, AllocTypeOK, OldIsEmpty
<1>1. PICK c \in Clusters :
        \/ OperatorStep(c) \/ OperatorCallFails(c)
        \/ WatchSkynet(c) \/ WatchDeployment(c) \/ RestartOperator(c)
        \/ AgentStep(c)
  BY DEF AllocNext
<1>2. CASE UNCHANGED skynetVars /\ (held' = held \/ Fail(c) \/ Finish(c, FALSE))
  BY <1>2 DEF skynetVars, Fail, Finish
<1>3. CASE Reconcile(c)
  BY <1>3 DEF Reconcile, skynetVars
<1>4. CASE UpdateStatus(c) /\ status' # status
  <2>1. status[c] = NoAlloc /\ cache[c] = NoAlloc
    BY <1>4 DEF UpdateStatus, CopiesFit, skynetVars
  <2> QED
    BY <1>4, <2>1 DEF UpdateStatus, Finish, skynetVars
<1>5. CASE UpdateStatus(c) /\ status' = status
  BY <1>5 DEF UpdateStatus, Fail, Finish, skynetVars
<1>6. CASE WatchSkynet(c) \/ RestartOperator(c)
  BY <1>6 DEF WatchSkynet, RestartOperator, Finish, opVars
<1>7. CASE \/ AllocateVtepCIDR(c) \/ AllocateASN(c) \/ EnsureBrokerUnique(c)
           \/ ReconcileDeployment(c) \/ OperatorCallFails(c)
  BY <1>2, <1>7 DEF AllocateVtepCIDR, AllocateASN, EnsureBrokerUnique,
     ReconcileDeployment, OperatorCallFails, Goto
<1>8. CASE WatchDeployment(c) \/ AgentStep(c)
  BY <1>2, <1>8 DEF WatchDeployment, AgentStep, StartPod, RegisterCluster,
     EnsureLocalVTEP, RestartAgent, StopOldPod, ExportCluster, opVars
<1> QED
  BY <1>1, <1>3, <1>4, <1>5, <1>6, <1>7, <1>8 DEF OperatorStep

(* The VTEP CIDRs in the specs are written as the allocator writes them.   *)
SpecsCanonical == SpecVtep \in [Clusters -> VtepPool \cup {NoVtep}]

LEMMA ChoicesStayFull ==
  ASSUME AllocInv, SpecsCanonical, ChoicesFull, AllocNext
  PROVE  ChoicesFull'
<1>1. PICK c \in Clusters :
        \/ OperatorStep(c) \/ OperatorCallFails(c)
        \/ WatchSkynet(c) \/ WatchDeployment(c) \/ RestartOperator(c)
        \/ AgentStep(c)
  BY DEF AllocNext
<1> DEFINE Parts(d) ==
      /\ op[d] = "vtep" => pick[d] = [vtep |-> SpecVtep[d], asn |-> SpecASN[d]]
      /\ op[d] = "asn" => \E v \in VtepPool : pick[d] = [vtep |-> v, asn |-> SpecASN[d]]
      /\ op[d] = "unique" => pick[d] \in Full
<1>2. ASSUME \A d \in Clusters : Chosen(d)' \subseteq Chosen(d) /\ Parts(d)'
      PROVE  ChoicesFull'
  BY <1>2 DEF ChoicesFull
<1>3. ASSUME \/ UNCHANGED <<op, pick>>
             \/ /\ op' = [op EXCEPT ![c] = "idle"]
                /\ pick' = [pick EXCEPT ![c] = NoAlloc]
      PROVE  \A d \in Clusters : Parts(d)'
  BY <1>3 DEF AllocInv, AllocTypeOK, ChoicesFull
<1>4. CASE Reconcile(c)
  <2>1. \A d \in Clusters : Parts(d)'
    BY <1>4 DEF Reconcile, AllocInv, AllocTypeOK, ChoicesFull
  <2> QED
    BY <1>2, <1>4, <2>1, ChoicesOnlyMove
<1>5. CASE AllocateVtepCIDR(c)
  <2>1. CASE Fail(c)
    BY <1>2, <1>3, <1>5, <2>1, ChoicesOnlyMove DEF Fail, Finish
  <2>2. CASE Goto(c, "asn")
    <3>1. PICK v \in VtepPool : pick' = [pick EXCEPT ![c] = [vtep |-> v, asn |-> SpecASN[c]]]
      <4>1. pick[c] = [vtep |-> SpecVtep[c], asn |-> SpecASN[c]]
        BY <1>5 DEF AllocateVtepCIDR, ChoicesFull
      <4>2. CASE SpecVtep[c] # NoVtep /\ UNCHANGED pick
        BY <4>1, <4>2 DEF SpecsCanonical, AllocInv, AllocTypeOK
      <4>3. CASE FreeVteps # {} /\ pick' = [pick EXCEPT ![c].vtep = Lowest(FreeVteps)]
        <5>1. Lowest(FreeVteps) \in VtepPool
          BY <4>3, AllocatedFromPool
        <5>2. [pick[c] EXCEPT !.vtep = Lowest(FreeVteps)]
                = [vtep |-> Lowest(FreeVteps), asn |-> SpecASN[c]]
          BY <4>1
        <5>3. pick' = [pick EXCEPT ![c] = [vtep |-> Lowest(FreeVteps), asn |-> SpecASN[c]]]
          BY <4>3, <5>2
        <5> QED
          BY <5>1, <5>3
      <4>4. op'[c] = "asn"
        BY <2>2 DEF Goto, AllocInv, AllocTypeOK
      <4>5. ~Fail(c)
        BY <4>4 DEF Fail, Finish, AllocInv, AllocTypeOK
      <4> QED
        BY <1>5, <4>2, <4>3, <4>5 DEF AllocateVtepCIDR
    <3>2. \A d \in Clusters : Parts(d)'
      BY <2>2, <3>1 DEF Goto, AllocInv, AllocTypeOK, ChoicesFull
    <3> QED
      BY <1>2, <1>5, <3>2, ChoicesOnlyMove
  <2> QED
    BY <1>5, <2>1, <2>2 DEF AllocateVtepCIDR
<1>6. CASE AllocateASN(c)
  <2>1. CASE Fail(c)
    BY <1>2, <1>3, <1>6, <2>1, ChoicesOnlyMove DEF Fail, Finish
  <2>2. CASE Goto(c, "unique")
    <3>1. PICK p \in Full : pick' = [pick EXCEPT ![c] = p]
      <4>1. PICK v \in VtepPool : pick[c] = [vtep |-> v, asn |-> SpecASN[c]]
        BY <1>6 DEF AllocateASN, ChoicesFull
      <4>2. CASE SpecASN[c] # 0 /\ UNCHANGED pick
        <5>1. pick' = [pick EXCEPT ![c] = pick[c]]
          BY <4>2 DEF AllocInv, AllocTypeOK
        <5> QED
          BY <4>1, <4>2, <5>1, AllocationAssumption DEF Full
      <4>3. CASE FreeASNs # {} /\ pick' = [pick EXCEPT ![c].asn = Lowest(FreeASNs)]
        <5>1. Lowest(FreeASNs) \in ASNPool
          BY <4>3, AllocatedFromPool
        <5>2. [pick[c] EXCEPT !.asn = Lowest(FreeASNs)]
                = [vtep |-> v, asn |-> Lowest(FreeASNs)]
          BY <4>1
        <5>3. pick' = [pick EXCEPT ![c] = [vtep |-> v, asn |-> Lowest(FreeASNs)]]
          BY <4>3, <5>2
        <5>4. [vtep |-> v, asn |-> Lowest(FreeASNs)] \in Full
          BY <5>1 DEF Full
        <5> QED
          BY <5>3, <5>4
      <4>4. op'[c] = "unique"
        BY <2>2 DEF Goto, AllocInv, AllocTypeOK
      <4>5. ~Fail(c)
        BY <4>4 DEF Fail, Finish, AllocInv, AllocTypeOK
      <4> QED
        BY <1>6, <4>2, <4>3, <4>5 DEF AllocateASN
    <3>2. \A d \in Clusters : Parts(d)'
      BY <2>2, <3>1 DEF Goto, AllocInv, AllocTypeOK, ChoicesFull
    <3> QED
      BY <1>2, <1>6, <3>2, ChoicesOnlyMove
  <2> QED
    BY <1>6, <2>1, <2>2 DEF AllocateASN
<1>7. CASE EnsureBrokerUnique(c)
  <2>1. CASE Fail(c)
    BY <1>2, <1>3, <1>7, <2>1, ChoicesOnlyMove DEF Fail, Finish
  <2>2. CASE Goto(c, "deploy") /\ UNCHANGED pick
    <3>1. \A d \in Clusters : Parts(d)'
      BY <2>2 DEF Goto, AllocInv, AllocTypeOK, ChoicesFull
    <3>2. pick[c] \in Full
      BY <1>7 DEF EnsureBrokerUnique, ChoicesFull
    <3>3. \A d \in Clusters : Chosen(d)' \subseteq Chosen(d) \cup {pick[c]}
      BY <1>7, <2>2 DEF EnsureBrokerUnique, Goto, Chosen, Started, AllocInv, AllocTypeOK,
         skynetVars, agentVars
    <3> QED
      BY <3>1, <3>2, <3>3 DEF ChoicesFull
  <2> QED
    BY <1>7, <2>1, <2>2 DEF EnsureBrokerUnique
<1>8. CASE ReconcileDeployment(c)
  <2>1. \A d \in Clusters : Parts(d)'
    BY <1>8 DEF ReconcileDeployment, Goto, AllocInv, AllocTypeOK, ChoicesFull
  <2> QED
    BY <1>2, <1>8, <2>1, ChoicesOnlyMove
<1>9. CASE UpdateStatus(c) \/ OperatorCallFails(c) \/ RestartOperator(c)
  BY <1>2, <1>3, <1>9, ChoicesOnlyMove
  DEF UpdateStatus, OperatorCallFails, RestartOperator, Fail, Finish
<1>10. CASE \/ WatchSkynet(c) \/ WatchDeployment(c) \/ StartPod(c)
            \/ RegisterCluster(c) \/ EnsureLocalVTEP(c) \/ RestartAgent(c)
            \/ StopOldPod(c)
  <2>1. op' = op /\ pick' = pick
    BY <1>10 DEF WatchSkynet, WatchDeployment, StartPod, RegisterCluster,
       EnsureLocalVTEP, RestartAgent, StopOldPod, opVars
  <2>2. \A d \in Clusters : Parts(d)'
    BY <2>1 DEF ChoicesFull
  <2> QED
    BY <1>2, <1>10, <2>2, ChoicesOnlyMove
<1>11. CASE ExportCluster(c)
  <2>1. \A d \in Clusters : Chosen(d)' \subseteq Chosen(d)
    BY <1>11 DEF ExportCluster, Chosen, Started, AllocInv, AllocTypeOK, skynetVars, opVars,
       agentVars
  <2>2. op' = op /\ pick' = pick
    BY <1>11 DEF ExportCluster, opVars
  <2>3. \A d \in Clusters : Parts(d)'
    BY <2>2 DEF ChoicesFull
  <2> QED
    BY <1>2, <2>1, <2>3
<1> QED
  BY <1>1, <1>4, <1>5, <1>6, <1>7, <1>8, <1>9, <1>10, <1>11
  DEF OperatorStep, AgentStep

(* The new registration of a cluster that is the only one on its way       *)
(* differs from all that the others have chosen.                           *)
LEMMA RegistrationsKeepApart ==
  ASSUME AllocInv, OneAtATime, OldIsEmpty, ChoicesFull, NoClash, AllocNext
  PROVE  NoClash'
<1>1. PICK c \in Clusters :
        \/ OperatorStep(c) \/ OperatorCallFails(c)
        \/ WatchSkynet(c) \/ WatchDeployment(c) \/ RestartOperator(c)
        \/ AgentStep(c)
  BY DEF AllocNext
<1>2. CASE broker' = broker /\ \A d \in Clusters : Chosen(d)' \subseteq Chosen(d)
  BY <1>2 DEF NoClash
<1>3. CASE EnsureBrokerUnique(c) /\ ~Fail(c)
  <2>1. /\ \A d \in Registered \ {c} : ~Clash(pick[c], d)
        /\ broker' = broker
        /\ \A d \in Clusters : Chosen(d)' \subseteq
                                 Chosen(d) \cup (IF d = c THEN {pick[c]} ELSE {})
    BY <1>3 DEF EnsureBrokerUnique, Goto, Chosen, Started, AllocInv, AllocTypeOK,
       skynetVars, agentVars
  <2> QED
    BY <2>1 DEF NoClash, Clash, Registered
<1>4. CASE ExportCluster(c)
  <2>1. local[c] \in Chosen(c) \cup {NoAlloc} /\ broker[c] # local[c]
    BY <1>4 DEF ExportCluster, Chosen
  <2>2. /\ broker' = [broker EXCEPT ![c] = local[c]]
        /\ \A d \in Clusters : Chosen(d)' \subseteq Chosen(d)
    BY <1>4 DEF ExportCluster, Chosen, Started, AllocInv, AllocTypeOK, skynetVars, opVars,
       agentVars
  <2>3. ASSUME NEW d \in Clusters, d # c, local[c] # NoAlloc
        PROVE  Chosen(d) \subseteq {broker[d]} \ {NoAlloc}
    <3>1. OnTheWay(c)
      BY <2>1, <2>3 DEF OnTheWay
    <3>2. ~OnTheWay(d)
      BY <2>3, <3>1 DEF OneAtATime
    <3> QED
      BY <3>2 DEF OnTheWay, Chosen, Started, OldIsEmpty
  <2>4. ASSUME NEW d \in Clusters, NEW e \in Clusters, d # e, broker'[e] # NoAlloc,
               NEW p \in Chosen(d)'
        PROVE  p.vtep # broker'[e].vtep /\ p.asn # broker'[e].asn
    <3>1. p \in Chosen(d)
      BY <2>2, <2>4
    <3>2. CASE e # c
      BY <2>2, <2>4, <3>1, <3>2 DEF NoClash, AllocInv, AllocTypeOK
    <3>3. CASE e = c
      <4>1. broker'[e] = local[c] /\ local[c] # NoAlloc
        BY <2>2, <2>4, <3>3 DEF AllocInv, AllocTypeOK
      <4>2. p = broker[d] /\ broker[d] # NoAlloc
        BY <2>3, <2>4, <3>1, <3>3, <4>1
      <4>3. local[c].vtep # broker[d].vtep /\ local[c].asn # broker[d].asn
        BY <2>1, <2>4, <3>3, <4>1, <4>2 DEF NoClash
      <4> QED
        BY <4>1, <4>2, <4>3
    <3> QED
      BY <3>2, <3>3
  <2> QED
    BY <2>4 DEF NoClash
<1> QED
  BY <1>1, <1>2, <1>3, <1>4, ChoicesOnlyMove DEF OperatorStep, AgentStep

LEMMA SerialInit == AllocInit => SerialInv
<1> SUFFICES ASSUME AllocInit PROVE SerialInv
  OBVIOUS
<1>1. \A c \in Clusters : Chosen(c) = {} /\ ~OnTheWay(c) /\ op[c] = "idle"
  BY DEF AllocInit, Chosen, Started, OnTheWay
<1>2. OneAtATime /\ ChoicesFull /\ NoClash
  BY <1>1 DEF OneAtATime, ChoicesFull, NoClash
<1> QED
  BY <1>2, InitialInv DEF SerialInv, OldIsEmpty, AllocInit

LEMMA SerialInductive ==
  ASSUME SpecsCanonical, SerialInv, [SerialNext]_vars
  PROVE  SerialInv'
<1>1. CASE SerialNext
  BY <1>1, InvInductive, OldStaysEmpty, ChoicesStayFull, RegistrationsKeepApart
  DEF SerialInv, SerialNext
<1>2. CASE UNCHANGED vars
  BY <1>2 DEF SerialInv, vars, AllocInv, AllocTypeOK, HandsFull, CopiesFit,
     OneAtATime, OnTheWay, OldIsEmpty, ChoicesFull, NoClash, Chosen, Started
<1> QED
  BY <1>1, <1>2

LEMMA SubnetsOfPool == \A v \in VtepPool : Subnet(v) = v
BY AllocationAssumption DEF VtepPool, Subnet

(* As long as clusters are installed one after the other, all registered   *)
(* clusters have different ASNs and VTEP subnets (RegistrationsUnique),    *)
(* whatever fails or is restarted in between.                              *)
THEOREM SerialInstallsAreUnique ==
  ASSUME SpecsCanonical
  PROVE  SerialAllocSpec => []RegistrationsUnique
<1>1. SerialInv /\ [SerialNext]_vars => SerialInv'
  BY SerialInductive
<1>2. SerialInv => RegistrationsUnique
  <2> SUFFICES ASSUME SerialInv, NEW c \in Registered, NEW d \in Registered, c # d
               PROVE  /\ broker[c].asn # broker[d].asn
                      /\ Subnet(broker[c].vtep) # Subnet(broker[d].vtep)
    BY DEF RegistrationsUnique
  <2>1. broker[c] \in Chosen(c) /\ broker[d] \in Chosen(d)
    BY DEF Registered, Chosen
  <2>2. broker[c] \in Full /\ broker[d] \in Full
    BY <2>1 DEF SerialInv, ChoicesFull, Registered
  <2>3. broker[c].asn # broker[d].asn /\ broker[c].vtep # broker[d].vtep
    BY <2>1 DEF SerialInv, NoClash, Registered
  <2> QED
    BY <2>2, <2>3, SubnetsOfPool DEF Full
<1> QED
  BY <1>1, <1>2, SerialInit, PTL DEF SerialAllocSpec, SerialNext

-----------------------------------------------------------------------------
(* The implementation of ClusterRegistrations *)

(* What a running agent exports is there.                                  *)
LocalIsThere ==
  \A c \in Clusters : \A x \in pods[c] : x.step \in {"vtep", "up"} => local[c] # NoAlloc

LEMMA LocalStaysThere ==
  ASSUME AllocInv, LocalIsThere, [AllocNext]_vars
  PROVE  LocalIsThere'
<1> USE DEF AllocInv, AllocTypeOK, LocalIsThere
<1>1. CASE UNCHANGED <<pods, local>>
  BY <1>1
<1>2. ASSUME NEW c \in Clusters, RegisterCluster(c)
      PROVE  LocalIsThere'
  <2>1. PICK x \in pods[c] :
          local' = [local EXCEPT ![c] = x.alloc] /\ Advance(c, x, "vtep")
    BY <1>2 DEF RegisterCluster
  <2>2. x.alloc # NoAlloc
    BY AllocationAssumption DEF Pods
  <2> QED
    BY <2>1, <2>2 DEF Advance
<1>3. ASSUME NEW c \in Clusters, EnsureLocalVTEP(c) \/ RestartAgent(c)
      PROVE  LocalIsThere'
  <2>1. PICK x \in pods[c], s \in {"register", "up"} :
          /\ Advance(c, x, s) /\ local' = local
          /\ s = "up" => x.step = "vtep"
    BY <1>3 DEF EnsureLocalVTEP, RestartAgent
  <2>2. [x EXCEPT !.step = s].step = s
    BY DEF Pods
  <2> QED
    BY <2>1, <2>2 DEF Advance
<1>4. ASSUME NEW c \in Clusters, StartPod(c) \/ StopOldPod(c)
      PROVE  LocalIsThere'
  BY <1>4 DEF StartPod, StopOldPod
<1>5. ASSUME NEW c \in Clusters,
             \/ OperatorStep(c) \/ OperatorCallFails(c) \/ WatchSkynet(c)
             \/ WatchDeployment(c) \/ RestartOperator(c) \/ ExportCluster(c)
      PROVE  UNCHANGED <<pods, local>>
  BY <1>5 DEF OperatorStep, Reconcile, AllocateVtepCIDR, AllocateASN,
    EnsureBrokerUnique, ReconcileDeployment, UpdateStatus, OperatorCallFails,
    WatchSkynet, WatchDeployment, RestartOperator, ExportCluster, agentVars
<1> QED
  BY <1>1, <1>2, <1>3, <1>4, <1>5 DEF AllocNext, AgentStep, vars

(* The identity of what was chosen: one of the table's, which is free.     *)
LEMMA ChosenIsFree ==
  ASSUME SerialInv, NEW c \in Clusters, NEW p \in Chosen(c)
  PROVE  /\ Identified(p) \in Registrations!Identity
         /\ Registrations!Free(c, Identified(p))
<1>1. p # NoAlloc /\ p \in Full
  BY DEF SerialInv, ChoicesFull, Chosen
<1>2. Identified(p) = [subnet |-> p.vtep, asn |-> p.asn]
  BY <1>1, SubnetsOfPool DEF Identified, Full
<1>3. ASSUME NEW d \in Clusters \ {c}, Identified(broker[d]) # NoAlloc
      PROVE  /\ Identified(broker[d]).subnet # Identified(p).subnet
             /\ Identified(broker[d]).asn # Identified(p).asn
  <2>1. broker[d] # NoAlloc /\ broker[d] \in Chosen(d)
    BY <1>3 DEF Identified, Chosen
  <2>2. broker[d] \in Full
    BY <2>1 DEF SerialInv, ChoicesFull
  <2>3. Identified(broker[d]) = [subnet |-> broker[d].vtep, asn |-> broker[d].asn]
    BY <2>1, <2>2, SubnetsOfPool DEF Identified, Full
  <2>4. p.vtep # broker[d].vtep /\ p.asn # broker[d].asn
    BY <2>1 DEF SerialInv, NoClash
  <2> QED
    BY <1>2, <2>3, <2>4
<1>4. Registrations!Free(c, Identified(p))
  BY <1>3 DEF Registrations!Free
<1> QED
  BY <1>1, <1>2, <1>4 DEF Registrations!Identity, Full

(* Every step enters a cluster in the table, records an identity, or       *)
(* changes neither.                                                        *)
LEMMA StepOnTable ==
  ASSUME SerialInv, LocalIsThere, [SerialNext]_vars
  PROVE  \/ UNCHANGED <<status, broker>>
         \/ \E c \in Clusters : \E p \in Chosen(c) :
              \/ /\ status[c] = NoAlloc
                 /\ status' = [status EXCEPT ![c] = p]
                 /\ broker' = broker
              \/ /\ broker' = [broker EXCEPT ![c] = p]
                 /\ status' = status
<1>1. ASSUME NEW c \in Clusters, UpdateStatus(c), status' # status
      PROVE  /\ status[c] = NoAlloc /\ broker' = broker
             /\ status' = [status EXCEPT ![c] = pick[c]] /\ pick[c] \in Chosen(c)
  <2>1. /\ op[c] = "status" /\ pick[c] # held[c] /\ heldFresh[c]
        /\ status' = [status EXCEPT ![c] = pick[c]] /\ broker' = broker
    BY <1>1 DEF UpdateStatus, skynetVars
  <2>2. status[c] = NoAlloc /\ pick[c] # NoAlloc
    BY <2>1, AllocationAssumption DEF SerialInv, AllocInv, CopiesFit, HandsFull
  <2> QED
    BY <2>1, <2>2 DEF Chosen
<1>2. ASSUME NEW c \in Clusters, ExportCluster(c)
      PROVE  /\ broker' = [broker EXCEPT ![c] = local[c]] /\ local[c] \in Chosen(c)
             /\ status' = status
  BY <1>2 DEF ExportCluster, LocalIsThere, Chosen, skynetVars
<1>3. CASE AllocNext /\ ~UNCHANGED <<status, broker>>
  <2>1. PICK c \in Clusters :
          (UpdateStatus(c) /\ status' # status) \/ ExportCluster(c)
    BY <1>3 DEF AllocNext, OperatorStep, AgentStep, Reconcile, AllocateVtepCIDR,
      AllocateASN, EnsureBrokerUnique, ReconcileDeployment, UpdateStatus,
      OperatorCallFails, WatchSkynet, WatchDeployment, RestartOperator, StartPod,
      RegisterCluster, EnsureLocalVTEP, RestartAgent, StopOldPod, ExportCluster,
      skynetVars
  <2> QED
    BY <1>1, <1>2, <2>1
<1> QED
  BY <1>3 DEF SerialNext, vars

(* Operators, Deployments, agents and syncers implement the table, if      *)
(* clusters are installed one after the other: an identity is entered and  *)
(* recorded only while it is free, and a record is made once.              *)
THEOREM AllocationImplementsTable ==
  ASSUME SpecsCanonical
  PROVE  SerialAllocSpec => RegistrationsSpec
<1> DEFINE Table(s) == [c \in Clusters |-> Identified(s[c])]
<1>1. AllocInit => SerialInv /\ LocalIsThere /\ Registrations!Init
  BY SerialInit DEF AllocInit, LocalIsThere, Registrations!Init, Identified
<1>2. SerialInv /\ LocalIsThere /\ [SerialNext]_vars => SerialInv' /\ LocalIsThere'
  <2> SUFFICES ASSUME SerialInv, LocalIsThere, [SerialNext]_vars
               PROVE  SerialInv' /\ LocalIsThere'
    OBVIOUS
  <2>1. AllocInv /\ [AllocNext]_vars
    BY DEF SerialInv, SerialNext
  <2> QED
    BY <2>1, SerialInductive, LocalStaysThere
<1>3. SerialInv /\ LocalIsThere /\ [SerialNext]_vars
        => [Registrations!Next]_<<Table(status), Table(broker)>>
  <2> SUFFICES ASSUME SerialInv, LocalIsThere, [SerialNext]_vars
               PROVE  Registrations!Next \/ UNCHANGED <<Table(status), Table(broker)>>
    OBVIOUS
  <2>1. CASE UNCHANGED <<status, broker>>
    BY <2>1
  <2>2. ASSUME NEW c \in Clusters, NEW p \in Chosen(c), status[c] = NoAlloc,
               status' = [status EXCEPT ![c] = p], broker' = broker
        PROVE  Registrations!Record(c)
    <3>1. Table(status') = [Table(status) EXCEPT ![c] = Identified(p)]
      BY <2>2 DEF SerialInv, AllocInv, AllocTypeOK
    <3>2. Table(status)[c] = NoAlloc /\ Table(broker') = Table(broker)
      BY <2>2 DEF Identified
    <3> QED
      BY <3>1, <3>2, ChosenIsFree DEF Registrations!Record
  <2>3. ASSUME NEW c \in Clusters, NEW p \in Chosen(c),
               broker' = [broker EXCEPT ![c] = p], status' = status
        PROVE  Registrations!Register(c)
    <3>1. Table(broker') = [Table(broker) EXCEPT ![c] = Identified(p)]
      BY <2>3 DEF SerialInv, AllocInv, AllocTypeOK
    <3>2. Table(status') = Table(status)
      BY <2>3
    <3> QED
      BY <3>1, <3>2, ChosenIsFree DEF Registrations!Register
  <2> QED
    BY <2>1, <2>2, <2>3, StepOnTable DEF Registrations!Next
<1> QED
  BY <1>1, <1>2, <1>3, PTL DEF SerialAllocSpec, SerialNext, RegistrationsSpec,
     Registrations!Spec
=============================================================================
