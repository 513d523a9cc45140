# SkyNet (multi-cluster networking): specifications

TLA+ specifications of the SkyNet agent and operator (Go code under `src/`),
the TLC configurations that check them on small instances, and TLAPS proofs.

Run a check with `tlc -config MCNC_live.cfg MCMCNCController.tla` and a proof
with `tlapm MCNManager_proofs.tla`; `PROJECT.json` lists every run with its
module, every definition with the source lines it stands for, every property with
a mutation of the code that breaks it, the findings and the theorems.

## The system

SkyNet connects user networks of several Kubernetes clusters. There is no
central process: a *broker* is a Kubernetes API server that holds shared
objects, and in each cluster an *operator* and an *agent* read and write them.

| Component | State it keeps | Operations | Talks to |
|---|---|---|---|
| MCN manager (`pkg/agent/mcn`) | none; `MultiClusterNetwork` (MCN) objects on the broker: VNI, topology, one finalizer per member cluster | `CreateOrJoinMCN`, `LeaveMCN` | broker, VNI allocator; called by the MCNC controller |
| VNI allocator (`pkg/agent/allocator`) | none | `AllocateVNI`: lists the MCNs, takes the lowest free VNI | broker |
| MCNC controller (`pkg/agent/controller`) | finalizer and phase of `MultiClusterNetworkConnect` (MCNC) objects | `Reconcile`, `reconcileMCNC`, `handleDelete` | informer and work queue, MCN manager, CUDN integrator, RouteAdvertisement creator |
| CUDN integrator (`pkg/agent/cudn`) | `ClusterUserDefinedNetwork` (CUDN) objects: EVPN transport with the VNI | `PatchCUDNWithEVPN`, `CreateCUDN`, `DeleteCUDN` | OVN-Kubernetes, which delays deletions |
| RouteAdvertisement creator (`pkg/agent/routeadv`) | `RouteAdvertisements` objects | `CreateForCUDN`, `DeleteForCUDN` | API server |
| Agent (`pkg/agent/agent.go`) | its `Cluster` object: phase, heartbeat, endpoints | `registerCluster`, `reconcile`, `updateClusterStatus`, `updateHeartbeat` | endpoint reporter, BGP configurator, syncer, VTEP manager |
| Endpoint reporter (`pkg/agent/endpoint`) | none | `CollectEndpoints`: the ready nodes | API server |
| BGP configurator (`pkg/agent/bgp`) | one `FRRConfiguration` per node | `ReconcileBGPConfig` | API server |
| Broker syncer (`pkg/agent/syncer`) | copies of `Cluster` objects on the broker and in the other clusters | export and import (admiral library) | broker |
| VTEP manager (`pkg/agent/vtep`) | the cluster's `VTEP` object | `EnsureLocalVTEP` | API server |
| Skynet reconciler (`pkg/operator/skynet`) | status of the `Skynet` object, the agent's `Deployment` | `Reconcile` | broker, allocators |
| VTEP CIDR and ASN allocators (`pkg/operator/alloc`) | none | first free value not on the broker | broker |
| Pool configuration (`pkg/operator/alloc`) | the ConfigMap `skynet-broker-pools` on the broker, edited by administrators; a copy of the pools in the environment of each agent | load, check, validate a VTEP CIDR or an ASN | operator, agents |

What is hard here:

* **Lists and later writes.** VNIs, VTEP CIDRs and ASNs are chosen from a list
  of the broker's objects and taken by a later write, in the case of the
  operator much later and by another process (the agent). Nobody holds a lock.
* **Configuration that changes.** Specs of MCNCs and the pools can be edited at
  any time, while things made for the old values are in place. What was made
  is not recorded: it is derived from the current spec again.
* **Whole objects written back.** Every update reads an object, changes a part
  and writes all of it; the API server's `resourceVersion` is what keeps
  writers from undoing one another. There is no leader election, so that
  during a rolling update two agents of one cluster are at work.
* **Partial failure.** A reconcile is a dozen calls to two API servers. Any of
  them can fail or succeed without the caller learning of it, and the process
  can stop between any two. What was made must be found again and removed
  when the MCNC goes.
* **Stale reads.** Reconciles start from an informer's cache.
* **Life cycles.** MCNCs, MCNs and CUDNs are deleted and created again under
  the same name while others still hold what they read of the earlier object.

What makes each component correct: an MCN keeps its VNI and no cluster changes
another one's membership (MCN manager); VNIs are unique (VNI allocator); an
MCNC that counts as connected is backed by membership, CUDN and advertisement,
everything made for it is gone when it is gone, and both get done in the end
(MCNC controller with integrator and creator); no writer of a `Cluster` object
undoes another's part and all ready nodes peer with each other in the end
(agent, reporter, configurator, syncer); clusters have different ASNs and
VTEP subnets, the allocation in the status never changes, and Deployment, agents,
VTEP object and registration have it in the end (operator, allocators, VTEP manager);
what operators choose from usable pools agents and API server accept, and no edit
of the pools renumbers an established cluster (pool configuration).

## The modules

| Module | Models | Built on |
|---|---|---|
| `MCNRegistry` | abstract: the registry of MCNs, with atomic create, join, leave and delete | |
| `MCNManager` | MCN manager and VNI allocator, one action per broker call | implements `MCNRegistry` |
| `MCNManager_proofs` | its theorems | `MCNManager` |
| `MCNCController` | MCNC controller, CUDN integrator, RouteAdvertisement creator, composed with the MCN manager | `MCNManager`, which it uses as that module's `Spec` says |
| `MCNCController_proofs` | theorems of the composition | `MCNCController`, `MCNManager_proofs` |
| `MCNCReconcile_proofs` | the invariant of cache, queue and reconcile | `MCNCController_proofs` |
| `MCNCCleanup_proofs` | theorems about what a deleted MCNC leaves behind | `MCNCReconcile_proofs` |
| `MCNCConnected_proofs` | the theorem about what a connected MCNC has | `MCNCCleanup_proofs` |
| `ClusterMesh` | registration, heartbeat and reconcile loops, endpoint reporter, BGP configurator, broker syncer | |
| `ClusterMesh_proofs` | its theorems | `ClusterMesh` |
| `ClusterAllocation` | Skynet reconciler, allocators, Deployment, and what the agent does with the allocation | |
| `ClusterRegistrations` | abstract: a table of clusters with unique identities, each entered in one step | |
| `ClusterAllocation_proofs` | theorems of `ClusterAllocation`, which implements `ClusterRegistrations` | `ClusterAllocation` |
| `PoolConfig` | pools from the ConfigMap through operators to agents and the CRDs' schema: defaults, parsing, range checks, allocators' loops, validators | |
| `PoolConfig_proofs` | its theorems | `PoolConfig` |
| `MC...` | values of the constants for TLC | |

### State and actions

*One action is one API call* (with the local computation before or after it),
because that is what interleaves. Reads that belong to nobody else's writes are
merged with the call that follows, as noted where this is done.

*resourceVersion.* Instead of a number on each object, a Boolean per copy says
whether the copy is still current (`fresh`, `heldFresh`, `cached`,
`beatFresh`). A write makes all other copies of that object old. An update
from an old copy is refused. This keeps the state space finite without a bound
on the number of writes and loses nothing, as the code compares versions
only through the API server.

*A call that fails* (constant `ApiFaults`) fails before or after it took effect:
updates and creations also have the outcome "carried out, reply lost".

**`MCNManager`.** `broker[n]` is the MCN `n`; `pc[a]`, `net[a]`, `topo[a]`,
`copy[a]` are the local variables of agent `a`'s call. `CreateOrJoinMCN` /
`LeaveMCN` start a call; `GetMCN` (with the decision of `joinExistingMCN`),
`AllocateVNI`, `CreateMCN`, `ReGetMCN` (the creation found the name taken),
`JoinMCN`, `GetMCNToLeave`, `RemoveFinalizer` are its calls; `Return` ends it,
`Crash` loses it. `DeleteMCN` is an administrator's `kubectl delete`, which marks an
object that has finalizers and removes one that has none.

**`MCNCController`.** Adds the MCNCs (`mcnc`), the informer (`cache`,
`cached`), the work queue (`queue`), the reconcile in progress (`step`, `item`,
`held`, `heldFresh`) and the cluster's CUDNs and RouteAdvertisements (`cudn`,
`ra`). A reconcile calls the MCN manager as a subroutine: it starts the call,
waits for its result in `pc[a]`, and uses `copy[a]` until it ends. Each action
carries the name of the function whose call it is; `FirstStep` is the choice
at the start of `Reconcile`, `SetError` the common end of all error paths of
`reconcileMCNC`. `handleDelete` goes on after a failed call; only its last
update is retried. Simplifications:

* one agent per cluster (several are considered in `MCNManager` and
  `ClusterMesh`), one worker per agent as in controller-runtime's default;
* the watch delivers the latest version, not each one in between (the work queue
  merges events of one object anyway);
* the specs that users may give an MCNC, at its creation and by edits, are the
  set `Specs[m]`. Any combination of `multiClusterNetworkName` and
  `createMultiClusterNetwork`, of `localCUDN` and `cudnSpec`, is a spec, the
  ones included that only comments forbid: `NetworkToJoin` and `CudnToUse` are
  what `reconcileMCNC` makes of it, `NetworkToLeave` and `CudnToDelete` what
  `handleDelete` does. The name in `createMultiClusterNetwork` may be empty
  (`Unnamed`; the CRD requires it but not its length), which `handleDelete` takes
  for no network at all even if `multiClusterNetworkName` is set;
* the MCNC's namespace exists as long as the MCNC; the check can fail
  as a call;
* Get and Create of a RouteAdvertisement are one step: only this worker makes or
  removes them;
* of a CUDN's transport and EVPN configuration one value is kept: a VNI, none
  (`NoVni`), or another transport than EVPN (`OtherTransport`), which `validateCUDN`
  refuses. Patching a CUDN that has the network's VNI again changes nothing.

**`ClusterMesh`.** `local[c]` is the `Cluster` object of `c` in its own
cluster, `exported[c]` on the broker, `imported[c][d]` in the others. `step[a]`
walks through `registerCluster` and then, for ever, `reconcile`:
`CollectEndpoints`, `GetCluster` and `UpdateClusterStatus` (up to
`MaxRetries` times), `RefreshLocalCluster`, `GetRemoteClusters`, `ConfigureNode`
for each node. `beat[a]` is the copy of the heartbeat loop, a second thread of
the same agent. Heartbeat times are not stored; a heartbeat is a write that
makes other copies old. A node without FRRConfiguration is the same as
one without neighbors. `Topology` is the BGP configurator's parameter, which
the agent always sets to the full mesh; `Reflectors` are the nodes that
`isRouteReflector` marks.

**`ClusterAllocation`.** `status[c]` is the allocation in the Skynet object,
`op[c]`, `held[c]`, `pick[c]` the operator's reconcile, which starts from the informer's
`cache[c]`, `env[c]` the environment in the Deployment, `local[c]` and `broker[c]`
the registered values, `vtepCR[c]` the VTEP object. VTEP subnets are numbers;
`VtepMax + 1 + i` is subnet `i` written with bits of a host. `AgentReady` and
`Phase` of the status are left out: nothing reads them.

`pods[c]` are the agent's pods, each with the allocation it was started with and
its next call. `newSkynetAgentDeployment` sets no strategy, no readiness probe and any
number of replicas, so that pods of different allocations run side by side while
the Deployment is rolled out or back. `StartPod` starts one with the current
environment, for a rollout, as another replica or in place of one that is gone; each
registers once (`RegisterCluster`) and again only when its container is restarted
(`RestartAgent`); `StopOldPod` ends one whose environment is not the current one, at
any time after the change. Pods with the same allocation and the same next call count as one.

Each cluster has one operator process. Two of them, during an update of the operator
itself, would only add stale reads and repeated calls, which one process with a cache
of any age and restarts makes as well.

**`PoolConfig`.** `config` is the ConfigMap on the broker; `status[c]`, `cache[c]`,
`env[c]` and `broker[c]` are as in `ClusterAllocation`, `starting[c]` and `running[c]`
the environments, pools included, of pods that have not registered and of those that
have. A `Reconcile` is one step here: it reads a `cache[c]` that may be old, deploys, and
updates the status unless that fails or meets a conflict; the agent's checks with
its registration and export are another (`Register`). The interleaving of the calls in
between is the subject of `ClusterAllocation`, this module keeps what that one takes
as constants. Integers have bounds (`IntMax` for int32) and wrap around where the
code's do. Of an address the two upper bytes are kept, enough for the /8 pools with
/16 subnets that the allocator supports and for pools and prefixes of other lengths;
the text `"<nil>"` that it makes of an IPv6 pool is `Garbage`.

*StatusSubresource.* Neither the API types (`+kubebuilder:subresource:status`)
nor the CRDs in `deploy/crds` declare a status subresource, yet the agent (for
MCNCs) and the operator (for Skynets) write the status with `Status().Update`,
which the API server then answers with NotFound. `FALSE` is the
repository as it is, `TRUE` the system with the subresource declared, which
the code plainly expects; the properties that need a status are checked with
`TRUE`; `MCNC_status.cfg` and `ClusterAllocation_no_status.cfg` show what `FALSE`
means. The agent's `Cluster` object is
written as a whole, with its status, by plain updates; this works because that
CRD has no status subresource either.

Definitions marked *Mutant* or *Mutation* are not part of a specification:
each is a plausible mistake in the definition next to it, used to see
that a property fails when the code is wrong.

## What the runs check

Runs that pass:

| Run | Instance | Shows |
|---|---|---|
| `clusters` | 2 clusters, 2 networks, 2 VNIs, faults, crashes, deletions | `TypeOK`; `CopyInv`: a current copy is the broker's object and fits the pending write; `JoinedIsMember`, with the topology asked for; `LeftIsNoMember`; `OwnMembershipOnly`: an update never adds or removes another cluster's finalizer; `VniStable`; `RegistrySpec`: refinement of `MCNRegistry`; `VniUniqueIfSerial` |
| `edited` | 1 cluster, 2 networks, 3 CUDNs, 1 MCNC that users create or edit 3 times, with 6 specs (two of either network for one CUDN, one that names both networks, one that names none, one with a nameless network to create next to one to join, one for a CUDN with another transport), every call may fail, 1 restart, the administrator deletes networks, which come back with another VNI | `ControllerTypeOK`, `ConnectedBacked` |
| `cleanup` | 1 cluster, 2 MCNCs, 2 lives each, one with a CUDN of the agent's, a restart, users delete and create CUDNs, no status subresource | `AdvertisementsOwned`, `MembershipsOwned`, `CudnsOwned` |
| `live` | 2 clusters that both try to create 1 network | `EventuallyConnected`, `DeletionCompletes`; for two clusters that conflict on one network `ConnectedBacked`, `ConnectingIsMember` (whoever configures a network is a member of it and has its VNI), and `ManagerSpec`: the controller's calls are those that `MCNManager` allows |
| `rolling_mesh` | 2 agents of 1 cluster, 1 node, 3 attempts, 2 node changes, 1 stop, faults | `MeshTypeOK`, `ClusterStatusKept` |
| `mesh` | 2 clusters with one agent and one node each, one node change | `EventuallyFullMesh` |
| `allocate` | 2 clusters one after the other, 2 pods of each at a time, pools of 2, one asks for the other's VTEP CIDR, faults | `AllocTypeOK`, `RegistrationsUnique`, `RegistrationsSpec`: refinement of `ClusterRegistrations` |
| `settle` | 1 cluster, 2 pods at a time, 3 VTEP CIDRs, 2 restarts, calls of the operator may fail | `StatusStable`; `EventuallyRolledOut`: all pods have the allocation of the status in the end; `AgentSettles`: then one that registers is enough for registration and VTEP object to have it |
| `pools` | 1 cluster, 2 pods at a time, no ConfigMap or one of 5, 2 edits, status updates may fail; int32 is -7 .. 6, the CRDs allow ASNs 2 .. 4 | `PoolTypeOK`; `FirstFit`: the allocators' loops find the lowest free ASN or none, whatever the pool, and do not wrap; `ChoicesAccepted`; `NeverRenumbered`; `EventuallyUp`: an allocation that the last pools contain ends with running agents of it and no others |

Runs that show a disagreement between the code and what the repository says of
it (the findings of `PROJECT.json`):

| Run | What happens |
|---|---|
| `leave_conflict` | `LeaveMCN` loses a conflict; its error is logged and the MCNC's finalizer removed. The cluster stays a member for ever. |
| `foreign_cudn` | An MCNC with `cudnSpec` could not create its CUDN because a user has one of that name. Deleting the MCNC deletes the user's. |
| `asn_race` | Two clusters installed at the same time get the same VTEP CIDR and ASN. |

Further configurations, not listed as runs, reproduce lesser or related
disagreements; TLC reports a violation for each:

| Configuration | What happens |
|---|---|
| `MCNManager_vni_race.cfg` | Two clusters list, then create: two networks with the same VNI. `src/README.md` names the race as a limitation and promises unique VNIs elsewhere (line 68). |
| `MCNC_siblings.cfg` | Two MCNCs of a cluster share a network. Deleting one removes the cluster's only finalizer under the other. |
| `MCNC_orphan_ra.cfg` | Deleting the RouteAdvertisement fails and is not retried: it is orphaned, which `test/cleanup-cudn-test.sh:136` calls "a bug in the agent's cleanup/finalizer logic". |
| `MCNC_terminating.cfg` | An MCNC that is created again adopts the CUDN of its predecessor, which is being deleted. |
| `MCNC_status.cfg` | As deployed, without a status subresource, an MCNC never gets phase Connected; `test/test-cudn-l3.sh:321` expects it. |
| `MCNC_edit_leak.cfg` | An MCNC is edited to another network: the cluster stays a member of the first one, also when the MCNC is gone. |
| `MCNC_both_ways.cfg` | A spec names two networks in two ways: one is joined, the other one left. An agent that finds the name to leave empty leaves none. |
| `MCNC_own_moves.cfg` | An MCNC with a `cudnSpec` is edited to another network: its CUDN keeps the VNI of the first one, and the MCNC is Connected. |
| `MCNC_topology.cfg` | A `cudnSpec` has another topology than the network: nothing compares them, the MCNC is Connected. |
| `MCNC_empty_network.cfg` | A network whose last member left is not removed; `test/cleanup-cudn-test.sh:127` expects that it is. |
| `ClusterMesh_reflector.cfg` | With the route reflector topology, which the agent does not use, peerings are one-sided: a reflector's list of neighbors leaves out the nodes that peer with it. |
| `PoolConfig_edit.cfg` | The pools are edited so that they do not contain the allocation of a running cluster any more: its agent is restarted with the new pools and exits. |
| `PoolConfig_poisoned.cfg` | An allocation from unusable pools stays in the status: the cluster does not come up after the pools were put right. |
| `ClusterAllocation_spelling.cfg` | A CIDR with host bits in the spec is compared as a text and taken twice. |
| `ClusterAllocation_stale_cache.cfg` | A reconcile from a cache that lacks the last status update allocates again and deploys the agent with it. |
| `ClusterAllocation_rolled_back.cfg` | A reconcile from a stale cache deploys a second allocation; its pod registers before the rollout is turned back. The agent that keeps running never registers again: `Cluster` and VTEP object keep the second allocation, while `SkynetStatus` (`types.go:118`) calls the one in the status "the effective VTEP CIDR". |
| `ClusterAllocation_no_status.cfg` | As deployed, the allocation is never recorded in the status, and every retry allocates anew. |

`ClusterMesh_three_nodes.cfg` passes: a full mesh of three nodes, two of them in
one cluster, which the run `mesh` does not have. `PoolConfig_two_clusters.cfg` passes, too:
the safety properties of `pools` for two clusters, one of whose users asks for a VTEP CIDR
and an ASN, with eight ConfigMaps that are edited once.

### Bounds, and why they are enough

* Two clusters and, where several MCNCs matter, two MCNCs: all conflicts of this
  system are between two writers of one object or two choosers of one
  value. That a third writer and several agents per cluster change nothing
  for the manager is proved.
* Two VNIs, or pools of two or three: enough to run out, to pick a second value
  and to come back to a value that was freed. `asn_race` has more than the
  clusters need, so that exhaustion is not what causes the clash.
* `MaxWrites`, `MaxEdits`, `MaxCrashes`, `MaxChanges`, `MaxStops`, `MaxRestarts`
  bound how often users and the environment intervene. Two creations or edits let
  an object meet what an earlier one of its name, or another spec, left, three
  let it come back to the first one; the pools are edited twice so that they can be put
  right after they were spoilt; one restart interrupts any
  step, two also interrupt what follows. Nothing bounds the number of reconciles, retries, heartbeats or syncs.
* `MaxPods` is 2: an old and a new agent, or two that register one after the other. More
  only repeat what two do: a pod is its allocation and its next call.
* `allocate` has no restarts: two clusters with them are too many states. A restarted
  agent does what a new pod does, which `allocate` has; `settle` has restarts of
  both, and the theorems about the properties of `allocate` allow any number.
* `MaxRetries` is 3 as in the code in the safety run; 1 in `mesh`, which only
  makes giving up more frequent. `Beating` names the agents whose heartbeat loop is
  considered: the only heartbeat in `mesh` is that of `a1`, whose writes
  compete with `a1`'s reports. Both beat in `rolling_mesh`.
* The integers of `pools` are small so that all ASNs, int32s and subnets can be
  taken: the schema's range has three values, the range of int32 begins and ends
  outside it.
* No symmetry is used.
* The MCNC runs and `pools` do not check deadlock: users and administrators act a
  bounded number of times, and when all is done the system rightly stands still.

Each passing run covers the fault classes its question needs and not all at
once: `AdvertisementsOwned`, `MembershipsOwned` and `CudnsOwned` do *not* hold when calls of a
deletion fail (`orphan_ra`, `leave_conflict`), which is why `cleanup`
has no faults, one cluster, and no status to keep its state space small;
`ConnectedBacked` is checked with faults, and holds. `AgentStops` needs
`MaxStops > 0` and is therefore exercised by `rolling_mesh` only. `mesh` and `live` check
liveness without failing calls, `settle` and `pools` with them.

### Fairness

* `ControllerFairness`: weak fairness of the reconcile in progress (a Go worker
  goes on) and of the watch; strong fairness of taking an MCNC from the queue
  (it is first-in first-out, and an MCNC that fails is put back); OVN-Kubernetes
  releases deleted CUDNs. Nothing is assumed of users, administrators,
  resyncs and restarts.
* `MeshFairness`: weak fairness of the agents' two loops (tickers; the heartbeat
  of those in `Beating`) and the syncer. Strong fairness of a status update and of a heartbeat from a fresh copy:
  attempts come every few seconds, the competing writers every 30 seconds, so
  that a copy is not outdated for ever; and of writing a node's configuration,
  which is retried at each tick. Nothing is assumed of nodes and
  stops.
* `PoolFairness`: weak fairness of the operator's reconcile with the status update that
  ends it, of the watch, and of the start, registration and end of pods. Nothing watches
  the ConfigMap; it is the manager's periodic resync that brings a reconcile after the
  last edit. Nothing is assumed of edits and restarts.
* `AllocFairness`: weak fairness of the operator's worker, the agents, watch and
  syncer; strong fairness of each call of the operator's reconcile, as it is
  retried with backoff until it succeeds and failures of an API server end. The
  Deployment controller stops old pods, and starts one with the current environment as
  long as there is none; that it starts more, so that somebody registers once more, is
  not assumed, and is why `EventuallySettled` fails
  (`ClusterAllocation_rolled_back.cfg`). Nothing is
  assumed of restarts.

## What is proved

For every value of the constants that the modules' `ASSUME`s admit, in
particular for any number of clusters, agents and networks and any pool.

**`MCNManager_proofs`** (with faults, crashes and several agents per cluster)

* `TypeCorrect`, `CopiesCorrect`: `[](TypeOK /\ CopyInv)`. `TypeOK` alone is
  not inductive: a write-back stores what the agent holds, so one has to know
  that it holds an object, and that a copy counted as current equals
  the broker's. `CopyInv` says so for each step of a call.
* `ManagerImplementsRegistry`: the refinement. `StepOnBroker` says that each
  step leaves the broker alone or is one of the registry's operations; it needs
  `CopyInv` because the write of a current copy is the same as an edit of
  the object in place.
* `VniIsStable` and `MembershipOwned` follow from `StepOnBroker`.
* `JoinedStaysMember`: success means membership at that moment
  (`JoinSucceeds`), the registry's operations of others keep it.
* `LeftStaysOutside`: the same for a leave, whose success the controller relies on
  when it takes the MCNC's finalizer off.
* `SerialCreationIsUnique`: if at most one agent is ever between list and
  create, VNIs are unique. Needs `PendingVniFree`, and `LowestFreeVni` (the
  allocator's choice exists and is free, by well-foundedness of `<`).

**`ClusterAllocation_proofs`** (with faults, restarts and stale caches)

* `AllocTypeCorrect`. `AllocInv` adds `HandsFull` (a reconcile in progress
  has an allocation in its hands) and `CopiesFit`.
* `StatusIsStable`: a status is written only from an object whose status was
  empty and that is still current (`CopiesFit`).
* `SerialInstallsAreUnique`: under `SerialAllocSpec`, whose steps keep
  `OneAtATime`, and if specs write CIDRs canonically, registrations are unique.
  `SerialInv` adds that a cluster with no allocation on its way has nothing but its
  registration (`OldIsEmpty`), that what passed the check is complete and in the
  pool (`ChoicesFull`), and that it still does not clash (`NoClash`): the others do
  not register anything new in the meantime. Without `OneAtATime` this is false (`asn_race`),
  without canonical specs too (`spelling`).

* `AllocationImplementsTable`: the refinement of `ClusterRegistrations`, from the
  same invariant. `ChosenIsFree` says that whatever passed the check is free in the
  table until it is entered, `StepOnTable` that only the status update
  and the export of the registration show in the table.

**`PoolConfig_proofs`** (for all ConfigMaps, specs and edits)

* `ClustersAreNeverRenumbered`: from `CachedAllocation`, the inductive invariant that an
  allocation in the operator's cache is the one in the status. A stale cache is then one
  without allocation, and only from such a one does a reconcile compute another, and
  deploy it, for a cluster that has one. That this does happen is why `Established`
  asks for the cache too, and for pods and Deployment without another allocation.
* `PoolTypes`: `PoolTypeOK` needs that the loop of `AllocateASN`, a recursive function
  on an int32 that wraps around, returns an int32 at all. `FirstFreeTurn` shows that
  the first free ASN from `n` on solves the loop's equation, `NextIsFirstFree` that
  every solution is this one (there would be a largest `n` for which it is not).
  Both need that the largest int32 is not taken, which stops the loop:
  `RegisteredInSchema`, the inductive invariant, says that whatever is registered has
  passed the schema, whose bound is below (`RegistrationsPassTheSchema`).
* `AllocationIsFirstFit`: by the same lemmas, the loop's result is the least free ASN of
  the pool, or 0 if none is free, for every pool that the operator can load.
* `AllocatorsAndValidatorsAgree`: what an operator takes from usable pools, or from the
  spec, is accepted by the agent's checks and by the schema.

**`ClusterMesh_proofs`** (with faults, node changes, stops and several agents per
cluster)

* `MeshTypeCorrect`. `MeshInv` adds `CopiesCurrent` (a copy that counts as current
  is the object, for both loops), `LoopsRegistered` (loops run only
  after the registration, so that the object is there) and `ReconcileHolds` (what a
  reconcile has in memory, and that it has an attempt left, at the steps that use it).
  Without these the type of what a loop writes is unknown.
* `ClusterStatusIsKept`: by `StepOnClusters`, as a step leaves the `Cluster`
  objects alone, creates a missing one, or writes back a current copy with its
  heartbeat, phase or endpoints changed.

**`MCNCController_proofs`** (with faults, restarts, edits, users and administrators)

* `ControllerTypeCorrect` and `ControllerImplementsManager`. Both need that the
  controller and the manager are always at corresponding places: `CallFitsStep`
  (a call is in progress at the steps that wait for one, what follows a join has its
  result), `NothingBetweenCalls`, and `HeldFitsStep` (the spec in hand has
  passed the checks of the steps before). `ControllerInv` is these and the
  manager's own invariant.
* `PromisesHoldInComposition`: by that refinement all theorems of the manager hold for
  `ControllerSpec`, `LeftIsNoMember` among them; they need no proof of their own.
* `ConnectsOnlyMembers`: `ConnectingIsMember` from `JoinedIsMember` and the
  correspondence of step and result.

**`MCNCReconcile_proofs`** (as above)

* `ReconcileInvariant`: `ReconcileInv` says what an agent may conclude from what it read.
  An MCNC that has its finalizer and is not being deleted in the cache, or in
  the hands of a reconcile, is still there with its finalizer (`CacheInv`, `HeldInv`);
  a copy with the current `resourceVersion` is the MCNC, and the cache has it too; a
  queue has only MCNCs of its own cluster (`QueueInv`); the steps of a connection
  are taken for objects with a finalizer, those of a deletion for deleted ones
  (`PathInv`). The theorems below all need it, as each step acts for an object
  that was read some steps before.

**`MCNCCleanup_proofs`** (what a deleted MCNC leaves behind)

All under `NamesKept`: edits of a spec keep the names of its network and its CUDN,
and `handleDelete` derives the names that `reconcileMCNC` derived. Without it
something is left behind (`MCNC_edit_leak.cfg`, `MCNC_both_ways.cfg`), because the code
does not record what it made.

* `AdvertisementsAreOwned`, if no `DeleteForCUDN` fails. `RaInv`: each RouteAdvertisement
  is wanted by an MCNC with a finalizer, and there is none any more at the
  steps of `handleDelete` after its deletion.
* `OwnCudnsAreOwned`, if no `DeleteCUDN` fails. `OwnCudnInv` adds whose CUDN it is: only the
  agents' own are meant, and a user may take the name in between.
* `MembershipsAreOwned`, if no `LeaveMCN` fails, from the manager's `LeftIsNoMember`
  and `OwnMembershipOnly`: nobody else's join brings the membership back.
* `NothingLeftBehind`: without failing calls (`~ApiFaults`) the first two
  hypotheses are true of every step, restarts and conflicts included.
* `NothingLeftAlone`: the third one is true if, moreover, nobody else writes to the
  broker: a single agent and no administrator. With other writers a conflict makes
  `LeaveMCN` fail without any fault (`leave_conflict`).

The hypotheses on calls cannot be dropped: `MCNC_orphan_ra.cfg` and `leave_conflict` show
what is left after a call that fails, since `handleDelete` goes on. The
run `cleanup` satisfies all hypotheses of the five theorems.

**`MCNCConnected_proofs`** (what a connected MCNC has)

* `ConnectedIsBacked`: `[]ConnectedBacked`, with faults, lost replies, restarts, edits, stale
  caches and administrators who delete networks, for any number of clusters,
  networks and MCNCs that satisfy `ConnectsUsersCudns`: they connect CUDNs of
  users, who keep them, and two MCNCs of a cluster have different CUDNs and networks.
  `ConnectedInv` is inductive together with the invariants above. `ConfiguredInv`
  says what the steps up to here have made, and that no step of anyone undid it:
  membership and VNI by the manager's promises, the CUDN and the RouteAdvertisement
  because the other MCNCs are separate. `QuietInv` is `ConnectedBacked` for an MCNC that
  nothing is under way for; `QuietComes` finds the one step that ends a reconcile
  without a retry, a status update that found the MCNC Connected already.
* The hypothesis excludes what is false: MCNCs that share a network or a CUDN
  (`MCNC_siblings.cfg`), and CUDNs of the agent's own that are being deleted, follow an
  edit or have another topology (`MCNC_terminating.cfg`, `MCNC_own_moves.cfg`,
  `MCNC_topology.cfg`). The runs `edited` and `live` satisfy it.

Only model-checked are the liveness properties (`EventuallyConnected`,
`DeletionCompletes`, `EventuallyFullMesh`, `EventuallyRolledOut`, `AgentSettles`,
`EventuallyUp`), as
temporal reasoning with fairness and `ENABLED` is out of the prover's reach. All
invariants and safety action properties of the passing runs have a theorem, those of the
controller with the hypotheses named above. `VniUniqueIfSerial`, `RegistrationsUnique`
and `RegistrationsSpec` likewise hold for one creation or installation at a time.

## What is not modelled

* `skynet/broker_sync_secret.go`, `cmd/operator`, `cmd/broker` and most of
  `cmd/agent`: idempotent creations, flags and wiring. The copied broker token is
  renewed by each reconcile, and a running agent does not notice; whether
  it is still valid is the broker's matter.
* Functions nobody calls: `waitForCUDNDeletion`, `AllocateVtepIP`,
  `DeleteLocalVTEP`, `SelectRouteReflectors`, `LabelRouteReflectors`,
  `ReconcileNodeBGPConfig`, `DeleteBGPConfig`, the UDN path of the controller.
* The imported copies of MCNs: nobody reads them.
* Text of the FRR, EVPN and RouteAdvertisement objects; labels; logging.

## Plan

Done, in this order: registry, manager and its proofs; controller; mesh;
allocation and its proofs; edits of specs; the route reflector topology; pools
and their proofs; the table of registrations and its refinement; proofs of mesh
and controller, and that the controller uses the manager as specified; the
invariant of a reconcile, what deletions leave behind, what connected MCNCs have; the
allocators' loops; overlapping agent pods and stale reads of the operator.

Next:

1. `ConnectedBacked` for CUDNs of the agent's own, for MCNCs that are created once, never
   edited, and have the topology of their network.
2. The safety part of `EventuallyFullMesh`: that a full mesh stays one as long as no
   node changes.
