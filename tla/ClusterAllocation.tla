------------------------- MODULE ClusterAllocation -------------------------
(***************************************************************************)
(* How a cluster gets its VTEP CIDR and its ASN: the skynet-operator of    *)
(* each cluster (pkg/operator/skynet, pkg/operator/alloc) chooses them by  *)
(* looking at the Cluster objects on the broker, hands them to the agent   *)
(* in the environment of its Deployment and stores them in the status of   *)
(* the Skynet object; each agent pod registers, when it starts, what it    *)
(* was started with, and the broker syncer copies that to the broker,      *)
(* where the other operators see it.                                       *)
(*                                                                         *)
(* A VTEP CIDR is a number: subnet 100.i.0.0/16 of the pool 100.0.0.0/8 is *)
(* i, and VtepMax + 1 + i stands for the same subnet written with bits of  *)
(* a host, as 100.i.2.0/16. The code compares the texts. Each call to an   *)
(* API server is a step.                                                   *)
(***************************************************************************)
EXTENDS Integers, FiniteSets

CONSTANTS Clusters,     \* clusters, each with a Skynet object and an operator
          VtepMax,      \* last index of the VTEP pool (255 in the code)
          ASNMin,       \* first ASN of the pool (64512 by default)
          ASNMax,       \* last ASN of the pool (65534 by default)
          SpecVtep,     \* SpecVtep[c]: spec.vtepCIDR (valid), or NoVtep
          SpecASN,      \* SpecASN[c]: spec.asn (valid), or 0
          NoVtep,       \* no VTEP CIDR
          NoAlloc,      \* no allocation
          StatusSubresource, \* TRUE: the Skynet CRD declares a status subresource
          ApiFaults,    \* TRUE: calls may fail
          MaxRestarts,  \* bound: how often operators and agents are restarted
          MaxPods       \* bound: agent pods of a cluster at a time

VtepPool == 0 .. VtepMax
VtepCIDRs == 0 .. 2 * VtepMax + 1
Subnet(v) == IF v <= VtepMax THEN v ELSE v - (VtepMax + 1)
ASNPool == ASNMin .. ASNMax

Allocation == [vtep : VtepCIDRs \cup {NoVtep}, asn : ASNPool \cup {0}]

ASSUME AllocationAssumption ==
  /\ VtepMax \in Nat /\ ASNMin \in Nat \ {0} /\ ASNMax \in Nat
  /\ SpecVtep \in [Clusters -> VtepCIDRs \cup {NoVtep}] /\ NoVtep \notin VtepCIDRs
  /\ SpecASN \in [Clusters -> ASNPool \cup {0}]
  /\ NoAlloc \notin Allocation
  /\ StatusSubresource \in BOOLEAN /\ ApiFaults \in BOOLEAN
  /\ MaxRestarts \in Nat /\ MaxPods \in Nat

VARIABLES
  status,    \* status[c]: the allocation in the Skynet object's status
  cache,     \* cache[c]: the status in the operator's cache
  cached,    \* cached[c]: the cache has the current version
  queue,     \* queue[c]: a reconcile is due
  op,        \* op[c]: the next call of the reconcile in progress, or "idle"
  held,      \* held[c]: the status of the Skynet object in its hands
  heldFresh, \* heldFresh[c]: that object has the current resourceVersion
  pick,      \* pick[c]: the allocation that reconcile has computed so far
  env,       \* env[c]: the allocation in the agent Deployment's environment
  pods,      \* pods[c]: the agent pods of c; those alike count as one
  local,     \* local[c]: the spec of the Cluster object in cluster c
  vtepCR,    \* vtepCR[c]: the CIDR of the local VTEP object
  broker,    \* broker[c]: the spec of c's Cluster object on the broker
  restarts   \* how often operators and agents were restarted

skynetVars == <<status, cache, cached>>
opVars == <<op, held, heldFresh, pick>>
agentVars == <<pods, local, vtepCR>>
vars == <<status, cache, cached, queue, op, held, heldFresh, pick, env, pods,
          local, vtepCR, broker, restarts>>

(* A pod: the allocation it was started with, and what it does next.       *)
Pods == [alloc : Allocation, step : {"register", "vtep", "up"}]

AllocTypeOK ==
  LET maybe == Allocation \cup {NoAlloc}
  IN /\ status \in [Clusters -> maybe]
     /\ cache \in [Clusters -> maybe]
     /\ cached \in [Clusters -> BOOLEAN]
     /\ queue \in [Clusters -> BOOLEAN]
     /\ op \in [Clusters -> {"idle", "vtep", "asn", "unique", "deploy", "status"}]
     /\ held \in [Clusters -> maybe]
     /\ heldFresh \in [Clusters -> BOOLEAN]
     /\ pick \in [Clusters -> maybe]
     /\ env \in [Clusters -> maybe]
     /\ pods \in [Clusters -> SUBSET Pods]
     /\ local \in [Clusters -> maybe]
     /\ vtepCR \in [Clusters -> VtepCIDRs \cup {NoVtep}]
     /\ broker \in [Clusters -> maybe]
     /\ restarts \in 0 .. MaxRestarts

AllocInit ==
  /\ status = [c \in Clusters |-> NoAlloc]
  /\ cache = status
  /\ cached = [c \in Clusters |-> TRUE]
  /\ queue = [c \in Clusters |-> TRUE]
  /\ op = [c \in Clusters |-> "idle"]
  /\ held = status
  /\ heldFresh = [c \in Clusters |-> FALSE]
  /\ pick = status
  /\ env = status
  /\ pods = [c \in Clusters |-> {}]
  /\ local = status
  /\ vtepCR = [c \in Clusters |-> NoVtep]
  /\ broker = status
  /\ restarts = 0

-----------------------------------------------------------------------------
(* The operator *)

Goto(c, s) == op' = [op EXCEPT ![c] = s] /\ UNCHANGED <<held, heldFresh, queue>>

(* Reconcile returns; again: with an error or RequeueAfter.                *)
Finish(c, again) ==
  /\ op' = [op EXCEPT ![c] = "idle"]
  /\ held' = [held EXCEPT ![c] = NoAlloc]
  /\ heldFresh' = [heldFresh EXCEPT ![c] = FALSE]
  /\ pick' = [pick EXCEPT ![c] = NoAlloc]
  /\ queue' = [queue EXCEPT ![c] = @ \/ again]

Fail(c) == Finish(c, TRUE)

(* Reconcile reads the Skynet object from the cache. With an allocation in *)
(* its status computeVtepAndASN returns that one.                          *)
Reconcile(c) ==
  /\ op[c] = "idle"
  /\ queue[c]
  /\ queue' = [queue EXCEPT ![c] = FALSE]
  /\ held' = [held EXCEPT ![c] = cache[c]]
  /\ heldFresh' = [heldFresh EXCEPT ![c] = cached[c]]
  /\ pick' = [pick EXCEPT ![c] = IF cache[c] = NoAlloc
                                   THEN [vtep |-> SpecVtep[c], asn |-> SpecASN[c]]
                                   ELSE cache[c]]
  /\ op' = [op EXCEPT ![c] = IF cache[c] = NoAlloc THEN "vtep" ELSE "deploy"]
  /\ UNCHANGED <<skynetVars, env, agentVars, broker, restarts>>

Registered == {c \in Clusters : broker[c] # NoAlloc}
TakenVteps == {broker[c].vtep : c \in Registered}
TakenASNs == {broker[c].asn : c \in Registered}

Lowest(S) == CHOOSE x \in S : \A y \in S : x <= y

(* Mutation: the loop over the pool ends one ASN too late.                 *)
FreeASNsPastPool == (ASNMin .. ASNMax + 1) \ TakenASNs

FreeASNs == ASNPool \ TakenASNs

FreeVteps == VtepPool \ TakenVteps

(* AllocateVtepCIDR and AllocateASN: a list of the broker's Cluster        *)
(* objects, the cluster's own included, and the first value that is not in *)
(* it; a value given in the spec is taken as it is.                        *)
AllocateVtepCIDR(c) ==
  /\ op[c] = "vtep"
  /\ \/ /\ SpecVtep[c] # NoVtep
        /\ Goto(c, "asn") /\ UNCHANGED pick
     \/ /\ SpecVtep[c] = NoVtep /\ FreeVteps # {}
        /\ pick' = [pick EXCEPT ![c].vtep = Lowest(FreeVteps)]
        /\ Goto(c, "asn")
     \/ /\ SpecVtep[c] = NoVtep /\ FreeVteps = {}
        /\ Fail(c)
  /\ UNCHANGED <<skynetVars, env, agentVars, broker, restarts>>

AllocateASN(c) ==
  /\ op[c] = "asn"
  /\ \/ /\ SpecASN[c] # 0
        /\ Goto(c, "unique") /\ UNCHANGED pick
     \/ /\ SpecASN[c] = 0 /\ FreeASNs # {}
        /\ pick' = [pick EXCEPT ![c].asn = Lowest(FreeASNs)]
        /\ Goto(c, "unique")
     \/ /\ SpecASN[c] = 0 /\ FreeASNs = {}
        /\ Fail(c)
  /\ UNCHANGED <<skynetVars, env, agentVars, broker, restarts>>

(* ensureBrokerUnique compares with the other clusters, in a third list.   *)
Clash(p, d) == broker[d].vtep = p.vtep \/ broker[d].asn = p.asn

(* Mutation: the VTEP CIDR is not compared.                                *)
EnsureAsnUnique(c) ==
  /\ op[c] = "unique"
  /\ IF \E d \in Registered \ {c} : broker[d].asn = pick[c].asn
       THEN Fail(c)
       ELSE Goto(c, "deploy") /\ UNCHANGED pick
  /\ UNCHANGED <<skynetVars, env, agentVars, broker, restarts>>

EnsureBrokerUnique(c) ==
  /\ op[c] = "unique"
  /\ IF \E d \in Registered \ {c} : Clash(pick[c], d)
       THEN Fail(c)
       ELSE Goto(c, "deploy") /\ UNCHANGED pick
  /\ UNCHANGED <<skynetVars, env, agentVars, broker, restarts>>

(* Mutation: a Deployment that exists is left as it is.                    *)
CreateDeploymentOnly(c) ==
  /\ op[c] = "deploy"
  /\ env' = [env EXCEPT ![c] = IF env[c] = NoAlloc THEN pick[c] ELSE @]
  /\ Goto(c, "status")
  /\ UNCHANGED <<skynetVars, pick, agentVars, broker, restarts>>

(* reconcileSkynetAgentDeployment: creates or updates the Deployment.      *)
ReconcileDeployment(c) ==
  /\ op[c] = "deploy"
  /\ env' = [env EXCEPT ![c] = pick[c]]
  /\ Goto(c, "status")
  /\ UNCHANGED <<skynetVars, pick, agentVars, broker, restarts>>

(* Mutation: the status is patched, without a resourceVersion.             *)
PatchStatus(c) ==
  /\ op[c] = "status"
  /\ status' = [status EXCEPT ![c] = pick[c]]
  /\ cached' = [cached EXCEPT ![c] = FALSE]
  /\ Finish(c, FALSE)
  /\ UNCHANGED <<cache, env, agentVars, broker, restarts>>

(* Status().Update, if the status changed. A conflict is requeued; without *)
(* the status subresource the API server answers NotFound.                 *)
UpdateStatus(c) ==
  /\ op[c] = "status"
  /\ \/ /\ pick[c] = held[c]
        /\ Finish(c, FALSE)
        /\ UNCHANGED skynetVars
     \/ /\ pick[c] # held[c] /\ heldFresh[c] /\ StatusSubresource
        /\ status' = [status EXCEPT ![c] = pick[c]]
        /\ cached' = [cached EXCEPT ![c] = FALSE]
        /\ Finish(c, FALSE)
        /\ UNCHANGED cache
     \/ /\ pick[c] # held[c] /\ ~(heldFresh[c] /\ StatusSubresource)
        /\ Fail(c)
        /\ UNCHANGED skynetVars
  /\ UNCHANGED <<env, agentVars, broker, restarts>>

OperatorCallFails(c) ==
  /\ ApiFaults
  /\ op[c] # "idle"
  /\ Fail(c)
  /\ UNCHANGED <<skynetVars, env, agentVars, broker, restarts>>

(* The watch on the Skynet object.                                         *)
WatchSkynet(c) ==
  /\ ~cached[c]
  /\ cache' = [cache EXCEPT ![c] = status[c]]
  /\ cached' = [cached EXCEPT ![c] = TRUE]
  /\ queue' = [queue EXCEPT ![c] = TRUE]
  /\ UNCHANGED <<status, opVars, env, agentVars, broker, restarts>>

(* The watch on the Deployment, which also changes when the agent's pods   *)
(* come and go, and the periodic resync.                                   *)
WatchDeployment(c) ==
  /\ ~queue[c]
  /\ queue' = [queue EXCEPT ![c] = TRUE]
  /\ UNCHANGED <<skynetVars, opVars, env, agentVars, broker, restarts>>

RestartOperator(c) ==
  /\ restarts < MaxRestarts
  /\ restarts' = restarts + 1
  /\ Finish(c, TRUE)
  /\ cache' = [cache EXCEPT ![c] = status[c]]
  /\ cached' = [cached EXCEPT ![c] = TRUE]
  /\ UNCHANGED <<status, env, agentVars, broker>>

-----------------------------------------------------------------------------
(* The agent. The Deployment has any number of replicas and sets no        *)
(* strategy, so old and new pods run side by side while it is rolled out:  *)
(* pods are started with its environment, for a rollout, as a replica or   *)
(* in place of another; each registers once, and creates the local VTEP    *)
(* object; those with another environment are stopped some time.           *)

Current(c) == {x \in pods[c] : x.alloc = env[c]}

StartPod(c) ==
  /\ env[c] # NoAlloc
  /\ Cardinality(pods[c]) < MaxPods
  /\ pods' = [pods EXCEPT ![c] = @ \cup {[alloc |-> env[c], step |-> "register"]}]
  /\ UNCHANGED <<skynetVars, queue, opVars, env, local, vtepCR, broker, restarts>>

(* Pod x goes on to the step s.                                            *)
Advance(c, x, s) ==
  pods' = [pods EXCEPT ![c] = (@ \ {x}) \cup {[x EXCEPT !.step = s]}]

(* Mutation: the spec of a Cluster object that exists is kept.             *)
RegisterOnce(c) ==
  \E x \in pods[c] :
    /\ x.step = "register"
    /\ local' = [local EXCEPT ![c] = IF @ = NoAlloc THEN x.alloc ELSE @]
    /\ Advance(c, x, "vtep")
    /\ UNCHANGED <<skynetVars, queue, opVars, env, vtepCR, broker, restarts>>

RegisterCluster(c) ==
  \E x \in pods[c] :
    /\ x.step = "register"
    /\ local' = [local EXCEPT ![c] = x.alloc]
    /\ Advance(c, x, "vtep")
    /\ UNCHANGED <<skynetVars, queue, opVars, env, vtepCR, broker, restarts>>

EnsureLocalVTEP(c) ==
  \E x \in pods[c] :
    /\ x.step = "vtep"
    /\ vtepCR' = [vtepCR EXCEPT ![c] = x.alloc.vtep]
    /\ Advance(c, x, "up")
    /\ UNCHANGED <<skynetVars, queue, opVars, env, local, broker, restarts>>

(* A container that ends is restarted in its pod.                          *)
RestartAgent(c) ==
  \E x \in pods[c] :
    /\ x.step # "register"
    /\ restarts < MaxRestarts
    /\ restarts' = restarts + 1
    /\ Advance(c, x, "register")
    /\ UNCHANGED <<skynetVars, queue, opVars, env, local, vtepCR, broker>>

StopOldPod(c) ==
  \E x \in pods[c] \ Current(c) :
    /\ pods' = [pods EXCEPT ![c] = @ \ {x}]
    /\ UNCHANGED <<skynetVars, queue, opVars, env, local, vtepCR, broker, restarts>>

(* The broker syncer, in each agent that is up.                            *)
ExportCluster(c) ==
  /\ \E x \in pods[c] : x.step = "up"
  /\ broker[c] # local[c]
  /\ broker' = [broker EXCEPT ![c] = local[c]]
  /\ UNCHANGED <<skynetVars, queue, opVars, env, agentVars, restarts>>

-----------------------------------------------------------------------------
OperatorStep(c) ==
  \/ Reconcile(c) \/ AllocateVtepCIDR(c) \/ AllocateASN(c)
  \/ EnsureBrokerUnique(c) \/ ReconcileDeployment(c) \/ UpdateStatus(c)

AgentStep(c) ==
  \/ StartPod(c) \/ RegisterCluster(c) \/ EnsureLocalVTEP(c)
  \/ RestartAgent(c) \/ StopOldPod(c) \/ ExportCluster(c)

AllocNext ==
  \E c \in Clusters :
    \/ OperatorStep(c) \/ OperatorCallFails(c)
    \/ WatchSkynet(c) \/ WatchDeployment(c) \/ RestartOperator(c)
    \/ AgentStep(c)

AllocSpec == AllocInit /\ [][AllocNext]_vars

(* Operator and agents keep working, watches and the syncer deliver. A     *)
(* call of the operator that is retried succeeds some time. Of the pods    *)
(* only one is sure to be started: the one that a Deployment is without.   *)
AllocFairness ==
  \A c \in Clusters :
    /\ WF_vars(Reconcile(c)) /\ WF_vars(WatchSkynet(c))
    /\ SF_vars(AllocateVtepCIDR(c)) /\ SF_vars(AllocateASN(c))
    /\ SF_vars(EnsureBrokerUnique(c))
    /\ SF_vars(ReconcileDeployment(c)) /\ SF_vars(UpdateStatus(c))
    /\ WF_vars(Current(c) = {} /\ StartPod(c)) /\ WF_vars(StopOldPod(c))
    /\ WF_vars(RegisterCluster(c)) /\ WF_vars(EnsureLocalVTEP(c))
    /\ WF_vars(ExportCluster(c))

FairAllocSpec == AllocSpec /\ AllocFairness

(* The operators' lists of the broker exclude nobody. The specification of *)
(* clusters that are installed one after the other: no two clusters are on *)
(* the way from a list of the broker's clusters to the registration there  *)
(* of what they chose.                                                     *)
Started(c) == {x.alloc : x \in pods[c]}

OnTheWay(c) ==
  \E p \in ({pick[c], status[c], env[c], local[c]} \ {NoAlloc}) \cup Started(c) :
    p # broker[c]

OneAtATime == \A c, d \in Clusters : OnTheWay(c) /\ OnTheWay(d) => c = d

SerialAllocSpec == AllocInit /\ [][AllocNext /\ OneAtATime']_vars

-----------------------------------------------------------------------------
(* Properties *)

(* The allocation in a Skynet's status is made once: no later reconcile,   *)
(* also not one that read an old version of the object from the cache and  *)
(* computed a new allocation, replaces it.                                 *)
StatusStable ==
  [][\A c \in Clusters : status[c] # NoAlloc => status'[c] = status[c]]_vars

(* "Remote clusters have different ASNs" (buildNeighborsForNode), and      *)
(* VTEP CIDRs that do not overlap: true of clusters installed one after    *)
(* the other (SerialAllocSpec), whatever fails, is restarted or is chosen  *)
(* anew from a stale cache, and not of others.                             *)
RegistrationsUnique ==
  \A c, d \in Registered : c # d =>
    /\ broker[c].asn # broker[d].asn
    /\ Subnet(broker[c].vtep) # Subnet(broker[d].vtep)

(* Clusters installed one after the other implement a table in which each  *)
(* registers atomically: of the allocations on their way through           *)
(* operators, Deployments and agents only the status and the broker count. *)
Identified(a) ==
  IF a = NoAlloc THEN NoAlloc ELSE [subnet |-> Subnet(a.vtep), asn |-> a.asn]

Registrations == INSTANCE ClusterRegistrations
                   WITH Clusters <- Clusters, Subnets <- VtepPool,
                        ASNs <- ASNPool, None <- NoAlloc,
                        recorded <- [c \in Clusters |-> Identified(status[c])],
                        registered <- [c \in Clusters |-> Identified(broker[c])]

RegistrationsSpec == Registrations!Spec

(* "The operator should mirror this into the agent pod env"                *)
(* (SkynetStatus): once the status has the allocation, so has the          *)
(* Deployment.                                                             *)
EnvMirrorsStatus ==
  \A c \in Clusters : status[c] # NoAlloc => env[c] = status[c]

(* In the end all of a cluster's agents are those that the status of its   *)
(* Skynet asks for, whatever other allocation was deployed before.         *)
RolledOut(c) ==
  /\ status[c] # NoAlloc
  /\ env[c] = status[c]
  /\ Started(c) = {status[c]}

EventuallyRolledOut == \A c \in Clusters : <>[]RolledOut(c)

(* Then one agent that registers is enough, and the cluster is registered  *)
(* with the allocation in its status and its VTEP object has it, whatever  *)
(* the pods of another rollout had registered before; unless the operator  *)
(* changes the Deployment meanwhile.                                       *)
Settled(c) ==
  /\ local[c] = status[c]
  /\ broker[c] = status[c]
  /\ vtepCR[c] = status[c].vtep

AgentSettles ==
  \A c \in Clusters :
    RolledOut(c) /\ (\E x \in pods[c] : x.step = "register")
      ~> (RolledOut(c) => Settled(c))

(* The stronger promise that the code does not keep: "VtepCIDR is the      *)
(* effective VTEP CIDR after operator allocation" (SkynetStatus), and the  *)
(* ASN likewise.                                                           *)
EventuallySettled == \A c \in Clusters : <>[](RolledOut(c) /\ Settled(c))

(* The operator "allocates VTEP CIDR and ASN [...], writes them to status" *)
(* (Skynet, types.go): an allocation an agent is deployed with reaches the *)
(* status, which alone keeps later reconciles from allocating again.       *)
AllocationRecorded ==
  \A c \in Clusters : (env[c] # NoAlloc) ~> (status[c] # NoAlloc)
=============================================================================
