-------------------------- MODULE PoolConfig_proofs --------------------------
(***************************************************************************)
(* Machine-checked proofs about PoolConfig, for all clusters, contents of  *)
(* the ConfigMap and specs: edits of the pools renumber no cluster; the    *)
(* loop of AllocateASN is a first fit; and what the operators choose from  *)
(* usable pools, the agents and the CRDs accept. For the first it matters  *)
(* only when the allocators are asked: an allocation in an operator's      *)
(* cache, however old the cache is, is the one in the status.              *)
(***************************************************************************)
EXTENDS PoolConfig, WellFoundedInduction, TLAPS

-----------------------------------------------------------------------------
(* The loop of AllocateASN: the least free ASN of the pool, or 0. It is    *)
(* written as a recursion over Int32, of which a function must be shown to *)
(* exist: the int32 may wrap around.                                       *)

LEMMA LeastInteger ==
  ASSUME NEW S \in SUBSET Int, NEW lo \in Int, \A n \in S : lo <= n, S # {}
  PROVE  \E x \in S : \A y \in S : x <= y
<1> DEFINE Shifted == {n - lo : n \in S}
<1>1. Shifted \subseteq Nat /\ Shifted # {}
  <2>1. \A n \in S : n \in Int /\ lo <= n
    OBVIOUS
  <2>2. \A n \in S : n - lo \in Nat
    BY <2>1
  <2> QED
    BY <2>2
<1>2. PICK v \in Shifted : \A u \in Shifted : <<u, v>> \notin OpToRel(<, Nat)
  BY <1>1, NatLessThanWellFounded, WFMin
<1>3. PICK x \in S : v = x - lo
  OBVIOUS
<1>4. ASSUME NEW y \in S PROVE x <= y
  <2>1. y - lo \in Shifted /\ y - lo \in Nat /\ v \in Nat
    BY <1>1
  <2>2. ~(y - lo < v)
    BY <1>2, <2>1 DEF OpToRel
  <2> QED
    BY <1>3, <2>1, <2>2
<1> QED
  BY <1>4

(* The ASNs of the pool from n on that nobody is registered with.          *)
FreeFrom(p, n) == {k \in n .. p.asnMax : k \notin TakenASNs}

FirstFreeFrom(p, n) ==
  IF FreeFrom(p, n) = {} THEN 0
  ELSE CHOOSE x \in FreeFrom(p, n) : \A y \in FreeFrom(p, n) : x <= y

LEMMA FirstFreeIsLeast ==
  ASSUME NEW p \in Pools, NEW n \in Int32, FreeFrom(p, n) # {}
  PROVE  /\ FirstFreeFrom(p, n) \in FreeFrom(p, n)
         /\ \A y \in FreeFrom(p, n) : FirstFreeFrom(p, n) <= y
<1>1. /\ FreeFrom(p, n) \in SUBSET Int
      /\ n \in Int
      /\ \A k \in FreeFrom(p, n) : n <= k
  BY PoolAssumption DEF FreeFrom, Int32, Pools
<1>2. \E x \in FreeFrom(p, n) : \A y \in FreeFrom(p, n) : x <= y
  BY <1>1, LeastInteger
<1> QED
  BY <1>2 DEF FirstFreeFrom

(* What one turn of the loop makes of the answer of the rest.              *)
LEMMA FirstFreeTurn ==
  ASSUME NEW p \in Pools, NEW n \in Int32, IntMax \notin TakenASNs
  PROVE  /\ n > p.asnMax => FirstFreeFrom(p, n) = 0
         /\ n <= p.asnMax /\ n \notin TakenASNs => FirstFreeFrom(p, n) = n
         /\ n <= p.asnMax /\ n \in TakenASNs =>
              /\ n # IntMax /\ n + 1 \in Int32
              /\ FirstFreeFrom(p, n) = FirstFreeFrom(p, n + 1)
<1>1. n \in Int /\ p.asnMax \in Int /\ IntMax \in Nat
  BY PoolAssumption DEF Int32, Pools
<1>2. CASE n > p.asnMax
  <2>1. FreeFrom(p, n) = {}
    BY <1>1, <1>2 DEF FreeFrom
  <2> QED
    BY <1>1, <1>2, <2>1 DEF FirstFreeFrom
<1>3. CASE n <= p.asnMax /\ n \notin TakenASNs
  <2>1. n \in FreeFrom(p, n) /\ \A y \in FreeFrom(p, n) : y \in Int /\ n <= y
    BY <1>1, <1>3 DEF FreeFrom
  <2>2. FirstFreeFrom(p, n) \in FreeFrom(p, n) /\ FirstFreeFrom(p, n) <= n
    BY <2>1, FirstFreeIsLeast
  <2> QED
    BY <1>1, <1>3, <2>1, <2>2
<1>4. CASE n <= p.asnMax /\ n \in TakenASNs
  <2>1. n # IntMax /\ n + 1 \in Int32
    BY <1>1, <1>4 DEF Int32
  <2>2. FreeFrom(p, n) = FreeFrom(p, n + 1)
    BY <1>1, <1>4 DEF FreeFrom
  <2> QED
    BY <1>1, <1>4, <2>1, <2>2 DEF FirstFreeFrom
<1> QED
  BY <1>1, <1>2, <1>3, <1>4

(* The loop ends and computes it, if nobody has the largest int32.         *)
LEMMA NextIsFirstFree ==
  ASSUME NEW p \in Pools, IntMax \notin TakenASNs
  PROVE  NextASN(p) = FirstFreeFrom(p, p.asnMin)
<1> DEFINE Rest(n) == IF n = IntMax THEN -IntMax - 1 ELSE n + 1
           Turn(s, n) == IF n > p.asnMax THEN 0 ELSE IF n \notin TakenASNs THEN n
                         ELSE s[Rest(n)]
           IsScan(s) == s = [n \in Int32 |-> Turn(s, n)]
           First == [n \in Int32 |-> FirstFreeFrom(p, n)]
           scan == CHOOSE s : IsScan(s)
<1>1. IntMax \in Nat /\ p.asnMin \in Int32 /\ p.asnMax \in Int
  BY PoolAssumption DEF Int32, Pools
<1>2. IsScan(First)
  <2>1. ASSUME NEW n \in Int32 PROVE FirstFreeFrom(p, n) = Turn(First, n)
    BY <1>1, FirstFreeTurn DEF Int32
  <2> QED
    BY <2>1, Zenon
<1>3. IsScan(scan)
  BY <1>2, Zenon
<1>4. \A n \in Int32 : scan[n] = Turn(scan, n)
  BY <1>3, Zenon
<1>5. NextASN(p) = scan[p.asnMin]
  BY Zenon DEF NextASN
<1> HIDE DEF scan
<1> DEFINE Wrong == {n \in Int32 : scan[n] # FirstFreeFrom(p, n)}
           Steps == {IntMax - n : n \in Wrong}
<1>6. ASSUME Wrong # {} PROVE FALSE
  <2>1. Steps \in SUBSET Int /\ Steps # {} /\ \A k \in Steps : 0 <= k
    BY <1>1, <1>6 DEF Int32
  <2>2. PICK k \in Steps : \A j \in Steps : k <= j
    <3>1. 0 \in Int
      OBVIOUS
    <3> HIDE DEF Steps, Wrong, First, IsScan, Turn, Rest
    <3> QED
      BY <2>1, <3>1, LeastInteger, Zenon
  <2>3. PICK n \in Wrong : k = IntMax - n
    OBVIOUS
  <2>4. \A m \in Wrong : m <= n
    <3> TAKE m \in Wrong
    <3>1. IntMax - m \in Steps /\ m \in Int /\ n \in Int
      BY <1>1 DEF Int32
    <3> QED
      BY <1>1, <2>2, <2>3, <3>1
  <2>5. n \in Int32 /\ n \in Int
    BY <1>1 DEF Int32
  <2>6. CASE n > p.asnMax \/ n \notin TakenASNs
    <3>1. scan[n] = FirstFreeFrom(p, n)
      BY <1>1, <1>4, <2>5, <2>6, FirstFreeTurn
    <3> QED
      BY <3>1
  <2>7. CASE n <= p.asnMax /\ n \in TakenASNs
    <3>1. /\ n # IntMax /\ n + 1 \in Int32
          /\ FirstFreeFrom(p, n) = FirstFreeFrom(p, n + 1)
      BY <2>5, <2>7, FirstFreeTurn
    <3>2. scan[n] = scan[n + 1]
      BY <1>1, <1>4, <2>5, <2>7, <3>1
    <3>3. n + 1 \in Wrong
      BY <3>1, <3>2
    <3> QED
      BY <2>4, <2>5, <3>3
  <2> QED
    BY <1>1, <2>5, <2>6, <2>7
<1> QED
  BY <1>1, <1>5, <1>6

-----------------------------------------------------------------------------
(* Types, what the allocators choose, and what the agents accept           *)

(* The inductive invariant: a registered ASN has passed the schema, so the *)
(* largest int32 is none.                                                  *)
RegisteredInSchema ==
  /\ PoolTypeOK
  /\ \A c \in Clusters : broker[c].asn \in Schema \cup {0}

LEMMA LargestIsFree ==
  ASSUME RegisteredInSchema
  PROVE  IntMax \notin TakenASNs
BY PoolAssumption DEF RegisteredInSchema, TakenASNs, Schema

LEMMA LoadedPools ==
  ASSUME PoolTypeOK
  PROVE  LoadPools # Unset => LoadPools \in Pools /\ LoadPools.asnMin <= LoadPools.asnMax
<1>1. DefaultPools \in Pools /\ DefaultPools.asnMin <= DefaultPools.asnMax
  BY PoolAssumption DEF DefaultPools, Pools, Int32, Text
<1>2. PoolsFromConfigMapData(config) # Unset =>
        /\ PoolsFromConfigMapData(config) \in Pools
        /\ PoolsFromConfigMapData(config).asnMin <= PoolsFromConfigMapData(config).asnMax
  BY Zenon DEF PoolsFromConfigMapData
<1> QED
  BY <1>1, <1>2 DEF LoadPools

(* The subnet that findNextAvailableCIDR returns.                          *)
LEMMA NextSubnet ==
  ASSUME NEW p \in Pools, NextCIDR(p) # Unset
  PROVE  /\ NextCIDR(p) \in Text
         /\ p.vtepPool \in CIDR
         /\ p.vtepPool.v4 => ValidateVtepCIDR(NextCIDR(p), p)
<1> DEFINE free == {i \in 0 .. LastByte : Subnet(p.vtepPool, i) \notin TakenVteps}
           least == CHOOSE i \in free : \A j \in free : i <= j
<1>1. /\ p.vtepPool \in CIDR /\ p.vtepPool.ones = 8 /\ p.prefixLen = 16
      /\ free # {}
      /\ NextCIDR(p) = Subnet(p.vtepPool, least)
  BY Zenon DEF NextCIDR
<1>2. least \in 0 .. LastByte
  <2>1. /\ free \in SUBSET Int /\ \A n \in free : 0 <= n
        /\ free \subseteq 0 .. LastByte
    BY PoolAssumption
  <2> HIDE DEF free
  <2>2. \E x \in free : \A y \in free : x <= y
    BY <1>1, <2>1, LeastInteger
  <2> QED
    BY <2>1, <2>2
<1> HIDE DEF least, free
<1>3. CASE p.vtepPool.v4
  <2>1. Subnet(p.vtepPool, least) =
          [net |-> p.vtepPool.net, sub |-> least, ones |-> 16, v4 |-> TRUE]
    BY <1>3 DEF Subnet
  <2>2. Subnet(p.vtepPool, least) \in CIDR
    BY <1>1, <1>2, <2>1 DEF CIDR, Lengths
  <2>3. Contains(p.vtepPool, Subnet(p.vtepPool, least))
    BY <1>1, <1>3, <2>1 DEF Contains, CIDR
  <2> QED
    BY <1>1, <2>1, <2>2, <2>3 DEF ValidateVtepCIDR, Text
<1>4. CASE ~p.vtepPool.v4
  BY <1>1, <1>4 DEF Subnet, Text
<1> QED
  BY <1>1, <1>3, <1>4

(* computeVtepAndASN returns an allocation.                                *)
LEMMA ComputedAllocation ==
  ASSUME RegisteredInSchema, NEW c \in Clusters, NEW p \in Pools
  PROVE  ComputeVtepAndASN(c, p) \in Allocation
<1>1. cache[c] \in Allocation
  BY DEF RegisteredInSchema, PoolTypeOK
<1>2. Or(SpecVtep[c], NextCIDR(p)) \in Text \cup {Unset}
  BY NextSubnet, PoolAssumption DEF Or
<1>3. NextASN(p) \in Int32
  <2>1. p.asnMin \in Int32 /\ p.asnMax \in Int32 /\ IntMax \in Nat
    BY PoolAssumption DEF Pools
  <2>2. FirstFreeFrom(p, p.asnMin) \in Int32
    <3>1. CASE FreeFrom(p, p.asnMin) = {}
      BY <2>1, <3>1 DEF FirstFreeFrom, Int32
    <3>2. CASE FreeFrom(p, p.asnMin) # {}
      <4>1. FirstFreeFrom(p, p.asnMin) \in p.asnMin .. p.asnMax
        BY <2>1, <3>2, FirstFreeIsLeast DEF FreeFrom
      <4> QED
        BY <2>1, <4>1 DEF Int32
    <3> QED
      BY <3>1, <3>2
  <2> QED
    BY <2>2, NextIsFirstFree, LargestIsFree
<1>4. SpecASN[c] \in Int32
  BY PoolAssumption DEF Schema, Int32
<1> QED
  BY <1>1, <1>2, <1>3, <1>4 DEF ComputeVtepAndASN, Allocation

LEMMA RegisteredInSchemaInit == PoolInit => RegisteredInSchema
<1> SUFFICES ASSUME PoolInit PROVE RegisteredInSchema
  OBVIOUS
<1>1. NoAllocation \in Allocation /\ NoAllocation.asn = 0
  BY PoolAssumption DEF NoAllocation, Allocation, Int32
<1>2. PoolTypeOK
  BY <1>1, PoolAssumption DEF PoolInit, PoolTypeOK
<1> QED
  BY <1>1, <1>2 DEF PoolInit, RegisteredInSchema

(* A reconcile writes an environment that has pools and an allocation.     *)
LEMMA ReconcileTypes ==
  ASSUME RegisteredInSchema, NEW c \in Clusters, Reconcile(c)
  PROVE  RegisteredInSchema'
<1> DEFINE a == ComputeVtepAndASN(c, LoadPools)
           e == [alloc |-> a, pools |-> LoadPools]
<1>1. LoadPools \in Pools /\ LoadPools.asnMin <= LoadPools.asnMax
  BY LoadedPools DEF Reconcile, RegisteredInSchema
<1>2. a \in Allocation
  BY <1>1, ComputedAllocation
<1>3. /\ env' = [env EXCEPT ![c] = e]
      /\ status' = status \/ status' = [status EXCEPT ![c] = a]
      /\ UNCHANGED <<config, cache, starting, running, broker, edits>>
  BY DEF Reconcile, Deployed, pods
<1>4. InOrder(e)
  BY <1>1, <1>2 DEF InOrder, Environment
<1> HIDE DEF a, e
<1>5. PoolTypeOK
  BY DEF RegisteredInSchema
<1>6. status' \in [Clusters -> Allocation]
  BY <1>2, <1>3, <1>5 DEF PoolTypeOK
<1>7. \A d \in Clusters : env'[d] # Unset => InOrder(env'[d])
  BY <1>3, <1>4, <1>5 DEF PoolTypeOK
<1> QED
  BY <1>3, <1>5, <1>6, <1>7 DEF RegisteredInSchema, PoolTypeOK

(* A pod has the environment of the Deployment at its start.               *)
LEMMA PodsTypes ==
  ASSUME RegisteredInSchema, NEW c \in Clusters, StartPod(c) \/ StopOldPod(c)
  PROVE  RegisteredInSchema'
<1>1. PoolTypeOK
  BY DEF RegisteredInSchema
<1>2. UNCHANGED <<config, status, cache, env, broker, edits>>
  BY DEF StartPod, StopOldPod
<1>3. /\ starting' = [d \in Clusters |-> starting'[d]]
      /\ running' = [d \in Clusters |-> running'[d]]
      /\ \A d \in Clusters : \A e \in starting'[d] \cup running'[d] : InOrder(e)
  <2>1. CASE StartPod(c)
    BY <1>1, <2>1 DEF StartPod, PoolTypeOK
  <2>2. CASE StopOldPod(c)
    <3>1. PICK e \in starting[c] \cup running[c] :
            /\ starting' = [starting EXCEPT ![c] = @ \ {e}]
            /\ running' = [running EXCEPT ![c] = @ \ {e}]
      BY <2>2 DEF StopOldPod
    <3> QED
      BY <1>1, <3>1 DEF PoolTypeOK
  <2> QED
    BY <2>1, <2>2
<1> QED
  BY <1>1, <1>2, <1>3 DEF RegisteredInSchema, PoolTypeOK

(* An agent registers what it was started with, if the schema accepts it.  *)
LEMMA RegisterTypes ==
  ASSUME RegisteredInSchema, NEW c \in Clusters, NEW e \in starting[c] \cup running[c],
         Register(c, e)
  PROVE  RegisteredInSchema'
<1>1. PoolTypeOK
  BY DEF RegisteredInSchema
<1>2. InOrder(e) /\ e.alloc \in Allocation /\ e.alloc.asn \in Schema
  BY <1>1 DEF PoolTypeOK, InOrder, Environment, Register, Accepted, SchemaAccepts
<1>3. /\ broker' = [broker EXCEPT ![c] = e.alloc]
      /\ starting' = [starting EXCEPT ![c] = @ \ {e}]
      /\ running' = [running EXCEPT ![c] = @ \cup {e}]
      /\ UNCHANGED <<config, status, cache, env, edits>>
  BY DEF Register
<1>4. /\ broker' \in [Clusters -> Allocation]
      /\ \A d \in Clusters : broker'[d].asn \in Schema \cup {0}
  BY <1>1, <1>2, <1>3 DEF PoolTypeOK, RegisteredInSchema
<1>5. /\ starting' = [d \in Clusters |-> starting'[d]]
      /\ running' = [d \in Clusters |-> running'[d]]
      /\ \A d \in Clusters : \A x \in starting'[d] \cup running'[d] : InOrder(x)
  BY <1>1, <1>2, <1>3 DEF PoolTypeOK
<1> QED
  BY <1>1, <1>3, <1>4, <1>5 DEF RegisteredInSchema, PoolTypeOK

LEMMA RegisteredInSchemaStep ==
  ASSUME RegisteredInSchema, [PoolNext]_vars
  PROVE  RegisteredInSchema'
<1>1. CASE \E c \in Clusters : Reconcile(c)
  BY <1>1, ReconcileTypes
<1>2. CASE \E c \in Clusters : StartPod(c) \/ StopOldPod(c)
  BY <1>2, PodsTypes
<1>3. CASE \E c \in Clusters : RegisterCluster(c) \/ RestartAgent(c)
  BY <1>3, RegisterTypes DEF RegisterCluster, RestartAgent
<1>4. CASE \E c \in Clusters : WatchSkynet(c)
  <2>1. cache' \in [Clusters -> Allocation]
    BY <1>4 DEF WatchSkynet, RegisteredInSchema, PoolTypeOK
  <2> QED
    BY <1>4, <2>1 DEF WatchSkynet, pods, RegisteredInSchema, PoolTypeOK
<1>5. CASE EditConfigMap
  <2>1. edits' \in 0 .. MaxEdits /\ config' \in ConfigMaps
    BY <1>5, PoolAssumption DEF EditConfigMap, RegisteredInSchema, PoolTypeOK
  <2> QED
    BY <1>5, <2>1 DEF EditConfigMap, pods, RegisteredInSchema, PoolTypeOK
<1>6. CASE UNCHANGED vars
  BY <1>6 DEF vars, RegisteredInSchema, PoolTypeOK
<1> QED
  BY <1>1, <1>2, <1>3, <1>4, <1>5, <1>6 DEF PoolNext

(* The invariant, for all pools, specs and clusters.                       *)
THEOREM RegistrationsPassTheSchema == PoolSpec => []RegisteredInSchema
<1>1. PoolInit => RegisteredInSchema
  BY RegisteredInSchemaInit
<1>2. RegisteredInSchema /\ [PoolNext]_vars => RegisteredInSchema'
  BY RegisteredInSchemaStep
<1> QED
  BY <1>1, <1>2, PTL DEF PoolSpec

(* Environments in the Deployments have pools in order and an allocation   *)
(* that can be written.                                                    *)
THEOREM PoolTypes == PoolSpec => []PoolTypeOK
<1>1. RegisteredInSchema => PoolTypeOK
  BY DEF RegisteredInSchema
<1> QED
  BY <1>1, RegistrationsPassTheSchema, PTL

(* The loop of AllocateASN, on an int32 that wraps around, returns the     *)
(* least free ASN of every pool that the operator can load, or 0: what is  *)
(* registered has passed the schema, whose bound is below the largest      *)
(* int32, so the loop always stops there.                                  *)
THEOREM AllocationIsFirstFit == PoolSpec => []FirstFit
<1>1. ASSUME RegisteredInSchema PROVE FirstFit
  <2> DEFINE p == LoadPools
             freeASNs == {n \in Int32 : ValidateASN(n, p)} \ TakenASNs
  <2> SUFFICES ASSUME p # Unset
               PROVE  /\ freeASNs # {} => /\ NextASN(p) \in freeASNs
                                          /\ \A n \in freeASNs : NextASN(p) <= n
                      /\ freeASNs = {} => NextASN(p) = 0
    BY Zenon DEF FirstFit
  <2>1. p \in Pools
    BY <1>1, LoadedPools DEF RegisteredInSchema
  <2> HIDE DEF p
  <2>2. p.asnMin \in Int32 /\ p.asnMax \in Int32
    BY <2>1 DEF Pools
  <2>3. freeASNs = FreeFrom(p, p.asnMin)
    BY <2>2, PoolAssumption DEF FreeFrom, Int32, ValidateASN
  <2>4. NextASN(p) = FirstFreeFrom(p, p.asnMin)
    BY <1>1, <2>1, LargestIsFree, NextIsFirstFree
  <2> QED
    BY <2>1, <2>2, <2>3, <2>4, FirstFreeIsLeast DEF FirstFreeFrom
<1> QED
  BY <1>1, RegistrationsPassTheSchema, PTL

-----------------------------------------------------------------------------
(* Edits of the pools *)

(* The inductive invariant: an allocation in an operator's cache is the    *)
(* one in the status. It is why an old cache does not matter once it has   *)
(* an allocation, and holds because computeVtepAndASN returns such an      *)
(* allocation and a status update from an older object is a conflict.      *)
CachedAllocation ==
  /\ PoolTypeOK
  /\ \A c \in Clusters : Allocated(cache[c]) => cache[c] = status[c]

(* What a step does to an allocation that the cache has.                   *)
LEMMA CachedIsKept ==
  ASSUME CachedAllocation, [PoolNext]_vars, NEW c \in Clusters, Allocated(cache[c])
  PROVE  /\ status'[c] = status[c]
         /\ cache'[c] = cache[c]
         /\ \/ env'[c] = env[c]
            \/ env'[c] \in Environment /\ env'[c].alloc = status[c]
<1>1. ASSUME NEW d \in Clusters, Reconcile(d)
      PROVE  /\ status'[c] = status[c] /\ cache' = cache
             /\ \/ env'[c] = env[c]
                \/ env'[c] \in Environment /\ env'[c].alloc = status[c]
  <2> DEFINE a == ComputeVtepAndASN(d, LoadPools)
  <2>1. /\ env' = [env EXCEPT ![d] = [alloc |-> a, pools |-> LoadPools]]
        /\ status' = status \/ status' = [status EXCEPT ![d] = a]
        /\ cache' = cache
    BY <1>1 DEF Reconcile, Deployed
  <2>2. d = c => a = status[c]
    BY DEF ComputeVtepAndASN, CachedAllocation
  <2>3. LoadPools \in Pools
    BY <1>1, LoadedPools DEF Reconcile, CachedAllocation
  <2> HIDE DEF a
  <2> QED
    BY <2>1, <2>2, <2>3 DEF CachedAllocation, PoolTypeOK, Environment
<1>2. ASSUME NEW d \in Clusters, WatchSkynet(d)
      PROVE  status' = status /\ env' = env /\ cache'[c] = cache[c]
  BY <1>2 DEF WatchSkynet, CachedAllocation, PoolTypeOK
<1>3. ASSUME NEW d \in Clusters,
             StartPod(d) \/ RegisterCluster(d) \/ RestartAgent(d) \/ StopOldPod(d)
      PROVE  UNCHANGED <<status, cache, env>>
  BY <1>3 DEF StartPod, RegisterCluster, RestartAgent, Register, StopOldPod
<1>4. CASE EditConfigMap \/ UNCHANGED vars
  BY <1>4 DEF EditConfigMap, vars
<1> QED
  BY <1>1, <1>2, <1>3, <1>4 DEF PoolNext

LEMMA CachedAllocationStep ==
  ASSUME CachedAllocation, PoolTypeOK', [PoolNext]_vars
  PROVE  CachedAllocation'
<1> SUFFICES ASSUME NEW c \in Clusters, Allocated(cache'[c])
             PROVE  cache'[c] = status'[c]
  BY DEF CachedAllocation, Allocated
<1>1. CASE Allocated(cache[c])
  BY <1>1, CachedIsKept DEF CachedAllocation
<1>2. CASE ~Allocated(cache[c])
  <2>1. PICK d \in Clusters : WatchSkynet(d)
    BY <1>2 DEF PoolNext, Reconcile, StartPod, RegisterCluster, RestartAgent,
       Register, StopOldPod, EditConfigMap, vars
  <2>2. cache' = [cache EXCEPT ![d] = status[d]] /\ status' = status
    BY <2>1 DEF WatchSkynet
  <2> QED
    BY <1>2, <2>2 DEF CachedAllocation, PoolTypeOK
<1> QED
  BY <1>1, <1>2

(* A cluster that is registered with the allocation in its status, for     *)
(* which no other is deployed and whose operator has seen an allocation,   *)
(* keeps it everywhere, however often the pools are edited, pods are       *)
(* started, restarted and stopped, the cache is old and the status update  *)
(* fails.                                                                  *)
THEOREM ClustersAreNeverRenumbered == PoolSpec => NeverRenumbered
<1> DEFINE Kept == \A c \in Clusters :
             Established(c) => Established(c)' /\ status'[c] = status[c]
<1>1. CachedAllocation /\ [PoolNext]_vars => [Kept]_vars
  <2> SUFFICES ASSUME CachedAllocation, PoolNext, NEW c \in Clusters, Established(c)
               PROVE  Established(c)' /\ status'[c] = status[c]
    OBVIOUS
  <2>1. /\ status'[c] = status[c] /\ cache'[c] = cache[c] /\ Allocated(cache[c])
        /\ \/ env'[c] = env[c]
           \/ env'[c] \in Environment /\ env'[c].alloc = status[c]
    BY CachedIsKept DEF Established
  <2>2. env'[c] # Unset /\ env'[c].alloc = status[c]
    BY <2>1, PoolAssumption DEF Established
  <2>3. /\ broker'[c] = broker[c]
        /\ starting'[c] \cup running'[c] \subseteq starting[c] \cup running[c] \cup {env[c]}
    <3>1. CASE UNCHANGED <<starting, running, broker>>
      BY <3>1
    <3>2. ASSUME NEW d \in Clusters, StartPod(d) \/ StopOldPod(d)
          PROVE  <2>3
      BY <3>2 DEF StartPod, StopOldPod, CachedAllocation, PoolTypeOK
    <3>3. ASSUME NEW d \in Clusters, NEW e \in starting[d] \cup running[d], Register(d, e)
          PROVE  <2>3
      BY <3>3 DEF Register, Established, CachedAllocation, PoolTypeOK
    <3> QED
      BY <3>1, <3>2, <3>3 DEF PoolNext, RegisterCluster, RestartAgent, Reconcile,
         WatchSkynet, EditConfigMap, pods
  <2> QED
    BY <2>1, <2>2, <2>3 DEF Established, Allocated
<1>2. PoolInit => CachedAllocation
  <2>1. ~Allocated(NoAllocation)
    BY DEF Allocated, NoAllocation
  <2> QED
    BY <2>1, RegisteredInSchemaInit DEF PoolInit, CachedAllocation, RegisteredInSchema
<1>3. PoolSpec => []CachedAllocation
  <2>1. CachedAllocation /\ PoolTypeOK' /\ [PoolNext]_vars => CachedAllocation'
    BY CachedAllocationStep
  <2> QED
    BY <1>2, <2>1, PoolTypes, PTL DEF PoolSpec
<1> QED
  BY <1>1, <1>3, PTL DEF PoolSpec, NeverRenumbered

-----------------------------------------------------------------------------
(* The reconcile that makes the choice.                                    *)
LEMMA ChoiceIsAccepted ==
  ASSUME RegisteredInSchema, NEW c \in Clusters, Reconcile(c),
         ~Allocated(cache[c]), Usable(LoadPools)
  PROVE  Accepted(env'[c])
<1> DEFINE p == LoadPools
           a == ComputeVtepAndASN(c, p)
<1>1. p \in Pools
  BY LoadedPools DEF Reconcile, RegisteredInSchema
<1>2. env'[c].alloc = a /\ env'[c].pools = p
  <2>1. env' = [env EXCEPT ![c] = [alloc |-> a, pools |-> p]]
    BY DEF Reconcile, Deployed
  <2> HIDE DEF a, p
  <2> QED
    BY <2>1 DEF RegisteredInSchema, PoolTypeOK
<1>3. /\ a.vtep = Or(SpecVtep[c], NextCIDR(p))
      /\ a.asn = IF SpecASN[c] # 0 THEN SpecASN[c] ELSE NextASN(p)
  BY DEF ComputeVtepAndASN
<1>4. /\ IF SpecVtep[c] = Unset THEN a.vtep # Unset ELSE ValidateVtepCIDR(a.vtep, p)
      /\ IF SpecASN[c] = 0 THEN a.asn # 0 \/ ValidateASN(0, p) ELSE ValidateASN(a.asn, p)
  BY Zenon DEF Reconcile, Computed
<1>5. Usable(p)
  OBVIOUS
<1> HIDE DEF a, p
<1>6. /\ p.asnMin \in Int32 /\ p.asnMin \in Int /\ p.asnMax \in Int
      /\ 1 <= p.asnMin /\ SchemaMin <= p.asnMin /\ 1 <= p.asnMax /\ p.asnMax <= SchemaMax
  BY <1>1, <1>5, PoolAssumption DEF Usable, Schema, Pools, Int32
<1>7. ValidateVtepCIDR(a.vtep, p)
  BY <1>1, <1>3, <1>4, <1>5, NextSubnet DEF Or, Usable
<1>8. ValidateASN(a.asn, p) /\ a.asn \in Schema
  <2>1. SpecASN[c] = 0 => a.asn \in p.asnMin .. p.asnMax
    <3> SUFFICES ASSUME SpecASN[c] = 0 PROVE a.asn \in p.asnMin .. p.asnMax
      OBVIOUS
    <3>1. a.asn = FirstFreeFrom(p, p.asnMin)
      BY <1>1, <1>3, LargestIsFree, NextIsFirstFree
    <3>2. a.asn # 0
      BY <1>4, <1>6 DEF ValidateASN
    <3>3. FreeFrom(p, p.asnMin) # {}
      BY <3>1, <3>2 DEF FirstFreeFrom
    <3> QED
      BY <1>1, <1>6, <3>1, <3>3, FirstFreeIsLeast DEF FreeFrom
  <2>2. SpecASN[c] # 0 => a.asn \in Int /\ ValidateASN(a.asn, p)
    BY <1>3, <1>4, PoolAssumption DEF Schema
  <2>3. SchemaMin \in Int /\ SchemaMax \in Int
    BY PoolAssumption
  <2> QED
    BY <1>6, <2>1, <2>2, <2>3 DEF ValidateASN, Schema
<1>9. Allocated(a)
  <2>1. a.asn # 0
    BY <1>8, PoolAssumption DEF Schema
  <2>2. a.vtep # Unset
    BY <1>7, PoolAssumption DEF ValidateVtepCIDR, Text
  <2> QED
    BY <2>1, <2>2 DEF Allocated
<1> QED
  BY <1>2, <1>6, <1>7, <1>8, <1>9 DEF Accepted, Accepts, SchemaAccepts

(* What an operator takes from usable pools, or from the spec, passes the  *)
(* checks of its agent and the schema of the CRD: the allocators and the   *)
(* validators, which are different code, agree.                            *)
THEOREM AllocatorsAndValidatorsAgree == PoolSpec => ChoicesAccepted
<1> DEFINE Agreed == \A c \in Clusters :
             env'[c] # env[c] /\ ~Allocated(cache[c]) /\ Usable(LoadPools) =>
               Accepted(env'[c])
<1>1. RegisteredInSchema /\ [PoolNext]_vars => [Agreed]_vars
  <2> SUFFICES ASSUME RegisteredInSchema, PoolNext PROVE Agreed
    OBVIOUS
  <2>1. ASSUME NEW c \in Clusters, Reconcile(c) PROVE Agreed
    <3>1. \A d \in Clusters \ {c} : env'[d] = env[d]
      BY <2>1 DEF Reconcile, RegisteredInSchema, PoolTypeOK
    <3> QED
      BY <2>1, <3>1, ChoiceIsAccepted
  <2>2. CASE env' = env
    BY <2>2
  <2> QED
    BY <2>1, <2>2 DEF PoolNext, WatchSkynet, StartPod, RegisterCluster, RestartAgent,
       Register, StopOldPod, EditConfigMap
<1> QED
  BY <1>1, RegistrationsPassTheSchema, PTL DEF PoolSpec, ChoicesAccepted
=============================================================================
