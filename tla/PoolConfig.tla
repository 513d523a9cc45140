----------------------------- MODULE PoolConfig -----------------------------
(***************************************************************************)
(* The pools of ASNs and VTEP CIDRs (pkg/operator/alloc/poolconfig.go,     *)
(* validate.go) on their way from a ConfigMap on the broker, which an      *)
(* administrator edits, through the operators' allocation and the          *)
(* environment of the agents' Deployments to the agents, which check them  *)
(* and the allocation before they register, and to the schema of the       *)
(* Cluster CRD, which checks the ASN again.                                *)
(*                                                                         *)
(* A reconcile of the operator is a step, which reads the Skynet object    *)
(* from a cache that may be old and notices that only when it updates the  *)
(* status; the registration of an agent with its export to the broker is a *)
(* step. What can happen between their calls is the subject of             *)
(* ClusterAllocation. Of an address the two upper bytes are kept. IPv6     *)
(* pools have the same bytes and another family.                           *)
(***************************************************************************)
EXTENDS Integers, FiniteSets

CONSTANTS Clusters,     \* clusters, each with a Skynet object and an operator
          ConfigMaps,   \* contents that the administrator gives the ConfigMap
          NoConfigMap,  \* there is no ConfigMap
          Unset,        \* an absent key, an unset variable, an empty spec field
          IntMax,       \* largest int32
          SchemaMin,    \* bounds of spec.asn in the CRDs,
          SchemaMax,    \*   and the default pool
          LastByte,     \* largest byte of an address
          Garbage,      \* a text that is no CIDR, as the "<nil>" of String()
          DefaultVtepPool, \* 100.0.0.0/8
          SpecVtep,     \* SpecVtep[c]: spec.vtepCIDR, or Unset
          SpecASN,      \* SpecASN[c]: spec.asn, or 0
          MaxEdits,     \* bound: how often the ConfigMap is edited
          MaxPods       \* bound: agent pods of a cluster at a time

Int32 == (-IntMax - 1) .. IntMax
Schema == SchemaMin .. SchemaMax      \* the API server's check of a spec.asn
Lengths == {8, 16, 24}
CIDR == [net : 0 .. LastByte, sub : 0 .. LastByte, ones : Lengths, v4 : BOOLEAN]
Text == CIDR \cup {Garbage}

(* The keys of the ConfigMap; numbers may be out of the range of int32.    *)
(* vni: the keys that nothing else reads can be parsed and are in order.   *)
ConfigMap ==
  [asnMin : Int \cup {Unset}, asnMax : Int \cup {Unset},
   vtepPoolCIDR : Text \cup {Unset}, vtepPrefixLen : Int \cup {Unset}, vni : BOOLEAN]

Pools == [asnMin : Int32, asnMax : Int32, vtepPool : Text, prefixLen : 8 .. 30]
Allocation == [vtep : Text \cup {Unset}, asn : Int32]
NoAllocation == [vtep |-> Unset, asn |-> 0]
Environment == [alloc : Allocation, pools : Pools]

ASSUME PoolAssumption ==
  /\ IntMax \in Nat /\ LastByte \in Nat /\ MaxEdits \in Nat /\ MaxPods \in Nat
  /\ SchemaMin \in 1 .. IntMax - 1 /\ SchemaMax \in SchemaMin .. IntMax - 1
  /\ DefaultVtepPool \in CIDR /\ DefaultVtepPool.v4 /\ DefaultVtepPool.ones = 8
  /\ \A d \in ConfigMaps \ {NoConfigMap} : d \in ConfigMap
  /\ SpecVtep \in [Clusters -> Text \cup {Unset}]
  /\ SpecASN \in [Clusters -> Schema \cup {0}]
  /\ Garbage \notin CIDR /\ NoConfigMap \notin ConfigMap
  /\ Unset \notin Text \cup Int /\ Unset \notin Environment

VARIABLES
  config,    \* the ConfigMap on the broker
  status,    \* status[c]: the allocation in the Skynet object
  cache,     \* cache[c]: that allocation in the operator's cache
  env,       \* env[c]: the environment in the Deployment, or Unset
  starting,  \* starting[c]: environments of pods that have not registered
  running,   \* running[c]: environments of pods that have
  broker,    \* broker[c]: the spec of c's Cluster object, there and in c
  edits      \* how often the ConfigMap was edited

pods == <<starting, running>>
vars == <<config, status, cache, env, starting, running, broker, edits>>

InOrder(e) == e \in Environment /\ e.pools.asnMin <= e.pools.asnMax

PoolTypeOK ==
  /\ config \in ConfigMaps
  /\ status \in [Clusters -> Allocation]
  /\ cache \in [Clusters -> Allocation]
  /\ env = [c \in Clusters |-> env[c]]
  /\ starting = [c \in Clusters |-> starting[c]]
  /\ running = [c \in Clusters |-> running[c]]
  /\ \A c \in Clusters : /\ env[c] # Unset => InOrder(env[c])
                         /\ \A e \in starting[c] \cup running[c] : InOrder(e)
  /\ broker \in [Clusters -> Allocation]
  /\ edits \in 0 .. MaxEdits

PoolInit ==
  /\ config \in ConfigMaps
  /\ status = [c \in Clusters |-> NoAllocation]
  /\ cache = status
  /\ env = [c \in Clusters |-> Unset]
  /\ starting = [c \in Clusters |-> {}]
  /\ running = starting
  /\ broker = status
  /\ edits = 0

-----------------------------------------------------------------------------
(* Loading and validating pools *)

DefaultPools == [asnMin |-> SchemaMin, asnMax |-> SchemaMax,
                 vtepPool |-> DefaultVtepPool, prefixLen |-> 16]

Or(value, default) == IF value = Unset THEN default ELSE value

(* Mutation: the order of the ASN bounds is not checked.                   *)
PoolsUnordered(d) ==
  LET p == [asnMin |-> Or(d.asnMin, SchemaMin), asnMax |-> Or(d.asnMax, SchemaMax),
            vtepPool |-> Or(d.vtepPoolCIDR, DefaultVtepPool),
            prefixLen |-> Or(d.vtepPrefixLen, 16)]
  IN IF p \in Pools /\ d.vni THEN p ELSE Unset

(* poolsFromConfigMapData, Unset for an error: numbers are parsed with 32  *)
(* bits, the pool's CIDR is taken as it is.                                *)
PoolsFromConfigMapData(d) ==
  LET p == [asnMin |-> Or(d.asnMin, SchemaMin), asnMax |-> Or(d.asnMax, SchemaMax),
            vtepPool |-> Or(d.vtepPoolCIDR, DefaultVtepPool),
            prefixLen |-> Or(d.vtepPrefixLen, 16)]
  IN IF p \in Pools /\ p.asnMin <= p.asnMax /\ d.vni THEN p ELSE Unset

LoadPools == IF config = NoConfigMap THEN DefaultPools
             ELSE PoolsFromConfigMapData(config)

Contains(pool, cidr) ==
  /\ pool.v4 = cidr.v4
  /\ pool.net = cidr.net
  /\ pool.ones = 8 \/ pool.sub = cidr.sub

ValidateVtepCIDR(v, p) ==
  /\ v \in CIDR /\ v.v4 /\ v.ones = p.prefixLen
  /\ p.vtepPool \in CIDR /\ Contains(p.vtepPool, v)

ValidateASN(asn, p) == p.asnMin <= asn /\ asn <= p.asnMax

-----------------------------------------------------------------------------
(* The operator *)

TakenASNs == {broker[c].asn : c \in Clusters} \ {0}
TakenVteps == {broker[c].vtep : c \in Clusters} \ {Unset}

(* Mutation: looks past the end of the pool.                               *)
NextASNPastPool(p) ==
  LET scan[n \in Int32] ==
        IF n > p.asnMax + 1 THEN 0 ELSE IF n \notin TakenASNs THEN n
        ELSE scan[IF n = IntMax THEN -IntMax - 1 ELSE n + 1]
  IN scan[p.asnMin]

(* The loop of AllocateASN over an int32, which may wrap around; 0 for     *)
(* "no available ASN". It ends as not all of Int32 is taken.               *)
NextASN(p) ==
  LET scan[n \in Int32] ==
        IF n > p.asnMax THEN 0 ELSE IF n \notin TakenASNs THEN n
        ELSE scan[IF n = IntMax THEN -IntMax - 1 ELSE n + 1]
  IN scan[p.asnMin]

Subnet(pool, i) ==
  IF pool.v4 THEN [net |-> pool.net, sub |-> i, ones |-> 16, v4 |-> TRUE] ELSE Garbage

(* findNextAvailableCIDR compares texts; of an IPv6 pool it makes none.    *)
NextCIDR(p) ==
  LET free == {i \in 0 .. LastByte : Subnet(p.vtepPool, i) \notin TakenVteps}
  IN IF p.vtepPool \in CIDR /\ p.vtepPool.ones = 8 /\ p.prefixLen = 16 /\ free # {}
       THEN Subnet(p.vtepPool, CHOOSE i \in free : \A j \in free : i <= j)
       ELSE Unset

Allocated(a) == a.vtep # Unset /\ a.asn # 0

(* Mutation: an allocation that the pools no longer contain is replaced.   *)
RecomputedVtepAndASN(c, p) ==
  IF Allocated(cache[c]) /\ ValidateASN(cache[c].asn, p) THEN cache[c]
  ELSE [vtep |-> Or(SpecVtep[c], NextCIDR(p)),
        asn |-> IF SpecASN[c] # 0 THEN SpecASN[c] ELSE NextASN(p)]

ComputeVtepAndASN(c, p) ==
  IF Allocated(cache[c]) THEN cache[c]
  ELSE [vtep |-> Or(SpecVtep[c], NextCIDR(p)),
        asn |-> IF SpecASN[c] # 0 THEN SpecASN[c] ELSE NextASN(p)]

(* The errors of computeVtepAndASN, for an allocation that is not in the   *)
(* cache: nothing available, a spec that is not valid, or not unique. A   *)
(* free ASN 0 is handed out like any other.                                *)
Computed(c, p, a) ==
  \/ Allocated(cache[c])
  \/ /\ IF SpecVtep[c] = Unset THEN a.vtep # Unset ELSE ValidateVtepCIDR(a.vtep, p)
     /\ IF SpecASN[c] = 0 THEN a.asn # 0 \/ ValidateASN(0, p) ELSE ValidateASN(a.asn, p)
     /\ \A d \in Clusters \ {c} : broker[d].vtep # a.vtep /\ (broker[d].asn # a.asn \/ a.asn = 0)

(* Mutation: a Deployment that exists is left as it is.                    *)
DeployedOnce(c, a, p) ==
  IF env[c] # Unset THEN env[c] ELSE [alloc |-> a, pools |-> p]

(* The environment in the Deployment, created or updated.                  *)
Deployed(c, a, p) == [alloc |-> a, pools |-> p]

(* Reconcile reads the pools anew each time. The status update that ends   *)
(* it may fail, and does so if the cache was old: the Deployment has been  *)
(* changed by then.                                                        *)
Reconcile(c) ==
  /\ LoadPools # Unset
  /\ LET a == ComputeVtepAndASN(c, LoadPools)
     IN /\ Computed(c, LoadPools, a)
        /\ env' = [env EXCEPT ![c] = Deployed(c, a, LoadPools)]
        /\ \/ status' = status
           \/ cache[c] = status[c] /\ status' = [status EXCEPT ![c] = a]
  /\ UNCHANGED <<config, cache, pods, broker, edits>>

(* The watch on the Skynet object.                                         *)
WatchSkynet(c) ==
  /\ cache[c] # status[c]
  /\ cache' = [cache EXCEPT ![c] = status[c]]
  /\ UNCHANGED <<config, status, env, pods, broker, edits>>

-----------------------------------------------------------------------------
(* The agent *)

(* What main, LoadEnv, PoolsFromValues and registerCluster ask for.        *)
Accepts(e) ==
  /\ Allocated(e.alloc)
  /\ e.pools.asnMin # 0 /\ e.pools.asnMax # 0
  /\ ValidateVtepCIDR(e.alloc.vtep, e.pools)
  /\ ValidateASN(e.alloc.asn, e.pools)

(* Mutation: the schema's bound of the ASN is the type's.                  *)
Int32Schema(a) == a.asn \in Int32

SchemaAccepts(a) == a.asn \in Schema

Accepted(e) == Accepts(e) /\ SchemaAccepts(e.alloc)

(* A pod is started with the Deployment's environment; an agent that does  *)
(* not accept it exits, also if the API server refuses its Cluster object, *)
(* and is restarted and exits again. One that does registers, again when   *)
(* its container is restarted, and the syncer exports the object. Pods     *)
(* with another environment are stopped some time.                         *)
StartPod(c) ==
  /\ env[c] # Unset
  /\ env[c] \notin starting[c] \cup running[c]
  /\ Cardinality(starting[c] \cup running[c]) < MaxPods
  /\ starting' = [starting EXCEPT ![c] = @ \cup {env[c]}]
  /\ UNCHANGED <<config, status, cache, env, running, broker, edits>>

Register(c, e) ==
  /\ Accepted(e)
  /\ broker' = [broker EXCEPT ![c] = e.alloc]
  /\ starting' = [starting EXCEPT ![c] = @ \ {e}]
  /\ running' = [running EXCEPT ![c] = @ \cup {e}]
  /\ UNCHANGED <<config, status, cache, env, edits>>

RegisterCluster(c) == \E e \in starting[c] : Register(c, e)

RestartAgent(c) == \E e \in running[c] : Register(c, e)

StopOldPod(c) ==
  \E e \in (starting[c] \cup running[c]) \ {env[c]} :
    /\ starting' = [starting EXCEPT ![c] = @ \ {e}]
    /\ running' = [running EXCEPT ![c] = @ \ {e}]
    /\ UNCHANGED <<config, status, cache, env, broker, edits>>

EditConfigMap ==
  /\ edits < MaxEdits
  /\ edits' = edits + 1
  /\ config' \in ConfigMaps \ {config}
  /\ UNCHANGED <<status, cache, env, pods, broker>>

PoolNext ==
  \/ \E c \in Clusters :
       \/ Reconcile(c) \/ WatchSkynet(c)
       \/ StartPod(c) \/ RegisterCluster(c) \/ RestartAgent(c) \/ StopOldPod(c)
  \/ EditConfigMap

PoolSpec == PoolInit /\ [][PoolNext]_vars

(* Reconciles come at least with the periodic resync (nothing watches the  *)
(* ConfigMap), and their status update succeeds some time; the watch       *)
(* delivers; pods are started and stopped. Nothing is assumed of edits and *)
(* of restarts.                                                            *)
PoolFairness ==
  \A c \in Clusters :
    /\ WF_vars(Reconcile(c) /\ status'[c] = ComputeVtepAndASN(c, LoadPools))
    /\ WF_vars(WatchSkynet(c))
    /\ WF_vars(StartPod(c)) /\ WF_vars(RegisterCluster(c)) /\ WF_vars(StopOldPod(c))

FairPoolSpec == PoolSpec /\ PoolFairness

-----------------------------------------------------------------------------
(* Properties *)

(* Pools whose ASNs the CRDs allow, and whose subnets are IPv4.            *)
Usable(p) ==
  /\ p # Unset
  /\ p.asnMin \in Schema /\ p.asnMax \in Schema
  /\ p.vtepPool \in CIDR /\ p.vtepPool.v4

(* What an operator chooses from usable pools, or takes from the spec, its *)
(* agent accepts, and the API server too: allocators and validators agree, *)
(* whatever was edited and registered before.                              *)
ChoicesAccepted ==
  [][\A c \in Clusters :
       env'[c] # env[c] /\ ~Allocated(cache[c]) /\ Usable(LoadPools) =>
         Accepted(env'[c])]_vars

(* The loops of the allocators compute the lowest free value of the pool,  *)
(* or none, for every pool that can be loaded: the int32 never wraps, since *)
(* the schema lets nobody register its largest value.                      *)
FirstFit ==
  LET p == LoadPools
      freeASNs == {n \in Int32 : ValidateASN(n, p)} \ TakenASNs
  IN p # Unset => /\ freeASNs # {} => /\ NextASN(p) \in freeASNs
                                      /\ \A n \in freeASNs : NextASN(p) <= n
                  /\ freeASNs = {} => NextASN(p) = 0

(* Editing the pools renumbers no cluster: one that is registered with the *)
(* allocation in its status, for which it and no other is deployed, keeps  *)
(* it everywhere, once the operator's cache has any allocation.            *)
Established(c) ==
  /\ Allocated(cache[c])
  /\ broker[c] = status[c]
  /\ env[c] # Unset /\ env[c].alloc = status[c]
  /\ \A e \in starting[c] \cup running[c] : e.alloc = status[c]

NeverRenumbered ==
  [][\A c \in Clusters :
       Established(c) => Established(c)' /\ status'[c] = status[c]]_vars

(* When the edits end with usable pools, each cluster that has an          *)
(* allocation in these pools has in the end agents with this allocation    *)
(* and these pools, all of which run, also if edits in between made agents *)
(* exit, and no others.                                                    *)
Contained(c) ==
  /\ Usable(LoadPools) /\ Allocated(status[c])
  /\ ValidateVtepCIDR(status[c].vtep, LoadPools) /\ ValidateASN(status[c].asn, LoadPools)

EventuallyUp ==
  \A c \in Clusters :
    <>[](Contained(c) =>
           /\ running[c] = {[alloc |-> status[c], pools |-> LoadPools]}
           /\ starting[c] = {})

(* The stronger promises that the code does not keep: a cluster whose      *)
(* operator has allocated registers once the pools are the default ones    *)
(* again, and a registered cluster is not left with agents that exit when  *)
(* the pools change.                                                       *)
RegisteredWithDefaultPools ==
  \A c \in Clusters :
    <>[](LoadPools = DefaultPools /\ Allocated(status[c]) => broker[c] # NoAllocation)

EditsHarmless ==
  \A c \in Clusters :
    Established(c) => running[c] # {} \/ \A e \in starting[c] : Accepted(e)
=============================================================================
