---------------------------- MODULE ClusterMesh ----------------------------
(***************************************************************************)
(* How the clusters find each other (pkg/agent, pkg/agent/bgp,             *)
(* pkg/agent/endpoint, pkg/agent/syncer). An agent registers its cluster   *)
(* as a Cluster object in its own cluster; its reconcile loop reports the  *)
(* ready nodes in the object's status and configures one FRRConfiguration  *)
(* per node; its heartbeat loop updates the same object. The broker syncer *)
(* copies the objects to the broker and from there into the other          *)
(* clusters.                                                               *)
(*                                                                         *)
(* Several agents of one cluster run at the same time during a rolling     *)
(* update of the Deployment. All writers of a Cluster object read it,      *)
(* change a part and write the whole object back; as in MCNManager,        *)
(* Booleans stand for "the copy has the current resourceVersion".          *)
(*                                                                         *)
(* A node stands for its endpoint (BGP peer IP); the ASN of a neighbor is  *)
(* that of its cluster. LastHeartbeat is not stored: a heartbeat is a      *)
(* write that makes all copies old. a.cluster is kept only while it is     *)
(* used: reconcile reads it anew before it configures BGP.                 *)
(***************************************************************************)
EXTENDS Integers, FiniteSets

CONSTANTS Clusters,     \* cluster identifiers
          Agents,       \* agent processes
          ClusterOf,    \* ClusterOf[a]: the cluster agent a runs in
          Beating,      \* bound: the agents whose heartbeat loop is considered
          Nodes,        \* nodes of all clusters
          NodeCluster,  \* NodeCluster[n]: the cluster of node n
          Topology,     \* "FullMesh" (what the agent asks for) or "RouteReflector"
          Reflectors,   \* the nodes with the route reflector label
          NoCluster,    \* no such Cluster object
          ApiFaults,    \* TRUE: calls to the API server may fail
          MaxRetries,   \* attempts of updateClusterStatus (3 in the code)
          MaxChanges,   \* bound: how often nodes become ready or not ready
          MaxStops      \* bound: how often agents stop

ClusterObject == [phase : {"Pending", "Ready"}, endpoints : SUBSET Nodes]

ASSUME MeshAssumption ==
  /\ ClusterOf \in [Agents -> Clusters]
  /\ Beating \subseteq Agents
  /\ NodeCluster \in [Nodes -> Clusters]
  /\ Topology \in {"FullMesh", "RouteReflector"} /\ Reflectors \subseteq Nodes
  /\ NoCluster \notin ClusterObject
  /\ ApiFaults \in BOOLEAN
  /\ MaxRetries \in Nat \ {0} /\ MaxChanges \in Nat /\ MaxStops \in Nat

VARIABLES
  ready,      \* ready[c]: the ready nodes of cluster c
  local,      \* local[c]: c's Cluster object in cluster c
  exported,   \* exported[c]: c's Cluster object on the broker
  imported,   \* imported[c][d]: d's Cluster object in cluster c
  frr,        \* frr[n]: the neighbors in node n's FRRConfiguration, if any
  run,        \* run[a]: "down", "registering" or "up"
  step,       \* step[a]: the next call of registerCluster or reconcile
  found,      \* found[a]: the endpoints that CollectEndpoints returned
  tries,      \* tries[a]: refused attempts of updateClusterStatus
  copy,       \* copy[a]: the Cluster in the hands of that goroutine
  fresh,      \* fresh[a]: copy[a] has the current resourceVersion
  mem,        \* mem[a]: a.cluster, from the refresh to the end of the reconcile
  remotes,    \* remotes[a]: endpoints of the remote clusters that were listed
  todo,       \* todo[a]: local nodes whose configuration is still to be written
  beat,       \* beat[a]: the heartbeat loop's copy of the Cluster, or NoCluster
  beatFresh,  \* beatFresh[a]: beat[a] has the current resourceVersion
  changes,    \* how often nodes became ready or not ready
  stops       \* how often agents stopped

syncVars == <<exported, imported>>
workVars == <<found, tries, copy, mem, remotes, todo>>
beatVars == <<beat, beatFresh>>
envVars == <<ready, changes, stops>>
vars == <<ready, local, exported, imported, frr, run, step, found, tries, copy,
          fresh, mem, remotes, todo, beat, beatFresh, changes, stops>>

Stored == ClusterObject \cup {NoCluster}

MeshTypeOK ==
  /\ ready \in [Clusters -> SUBSET Nodes]
  /\ local \in [Clusters -> Stored]
  /\ exported \in [Clusters -> Stored]
  /\ imported \in [Clusters -> [Clusters -> Stored]]
  /\ frr \in [Nodes -> SUBSET Nodes]
  /\ run \in [Agents -> {"down", "registering", "up"}]
  /\ step \in [Agents -> {"idle", "register", "get", "put", "refresh", "list",
                          "configure"}]
  /\ found \in [Agents -> SUBSET Nodes]
  /\ tries \in [Agents -> 0 .. MaxRetries]
  /\ copy \in [Agents -> Stored]
  /\ fresh \in [Agents -> BOOLEAN]
  /\ mem \in [Agents -> Stored]
  /\ remotes \in [Agents -> SUBSET Nodes]
  /\ todo \in [Agents -> SUBSET Nodes]
  /\ beat \in [Agents -> Stored]
  /\ beatFresh \in [Agents -> BOOLEAN]
  /\ changes \in 0 .. MaxChanges
  /\ stops \in 0 .. MaxStops

NodesOf(c) == {n \in Nodes : NodeCluster[n] = c}

MeshInit ==
  /\ ready = [c \in Clusters |-> NodesOf(c)]
  /\ local = [c \in Clusters |-> NoCluster]
  /\ exported = local
  /\ imported = [c \in Clusters |-> local]
  /\ frr = [n \in Nodes |-> {}]
  /\ run = [a \in Agents |-> "down"]
  /\ step = [a \in Agents |-> "idle"]
  /\ found = [a \in Agents |-> {}]
  /\ tries = [a \in Agents |-> 0]
  /\ copy = [a \in Agents |-> NoCluster]
  /\ fresh = [a \in Agents |-> FALSE]
  /\ mem = copy
  /\ remotes = found
  /\ todo = found
  /\ beat = copy
  /\ beatFresh = fresh
  /\ changes = 0
  /\ stops = 0

Mine(a) == local[ClusterOf[a]]

(* The API server stores c's Cluster: every other copy is old from now on. *)
(* An update that changes nothing is no write; a heartbeat always changes  *)
(* its time.                                                               *)
Store(c, obj) ==
  /\ local' = [local EXCEPT ![c] = obj]
  /\ fresh' = [b \in Agents |-> fresh[b] /\ ClusterOf[b] # c]
  /\ beatFresh' = [b \in Agents |-> beatFresh[b] /\ ClusterOf[b] # c]

NotStored == UNCHANGED <<local, fresh, beatFresh>>

(* The process is gone, and with it both loops and a.cluster.              *)
Exit(a) ==
  /\ run' = [run EXCEPT ![a] = "down"]
  /\ step' = [step EXCEPT ![a] = "idle"]
  /\ found' = [found EXCEPT ![a] = {}]
  /\ tries' = [tries EXCEPT ![a] = 0]
  /\ copy' = [copy EXCEPT ![a] = NoCluster]
  /\ mem' = [mem EXCEPT ![a] = NoCluster]
  /\ remotes' = [remotes EXCEPT ![a] = {}]
  /\ todo' = [todo EXCEPT ![a] = {}]
  /\ beat' = [beat EXCEPT ![a] = NoCluster]

-----------------------------------------------------------------------------
(* registerCluster: Get, then Create or Update. An error ends the process. *)

StartAgent(a) ==
  /\ run[a] = "down"
  /\ run' = [run EXCEPT ![a] = "registering"]
  /\ step' = [step EXCEPT ![a] = "register"]
  /\ copy' = [copy EXCEPT ![a] = Mine(a)]
  /\ fresh' = [fresh EXCEPT ![a] = TRUE]
  /\ UNCHANGED <<local, syncVars, frr, found, tries, mem, remotes, todo,
                 beatVars, envVars>>

RegisterCluster(a) ==
  /\ step[a] = "register"
  /\ LET registered == IF copy[a] = NoCluster
                         THEN [phase |-> "Pending", endpoints |-> {}]
                         ELSE copy[a]
     IN IF fresh[a]
          THEN /\ Store(ClusterOf[a], registered)
               /\ run' = [run EXCEPT ![a] = "up"]
               /\ step' = [step EXCEPT ![a] = "idle"]
               /\ copy' = [copy EXCEPT ![a] = NoCluster]
               /\ UNCHANGED <<found, tries, mem, remotes, todo, beat>>
          ELSE Exit(a) /\ NotStored
  /\ UNCHANGED <<syncVars, frr, envVars>>

-----------------------------------------------------------------------------
(* reconcile *)

Goto(a, s) == step' = [step EXCEPT ![a] = s]

CollectEndpoints(a) ==
  /\ run[a] = "up" /\ step[a] = "idle"
  /\ found' = [found EXCEPT ![a] = ready[ClusterOf[a]]]
  /\ tries' = [tries EXCEPT ![a] = 0]
  /\ Goto(a, "get")
  /\ UNCHANGED <<local, syncVars, frr, run, copy, fresh, mem, remotes, todo,
                 beatVars, envVars>>

(* updateClusterStatus: reads, sets the endpoints, writes; at most         *)
(* MaxRetries attempts. reconcile goes on when all were refused.           *)
GetCluster(a) ==
  /\ step[a] = "get"
  /\ copy' = [copy EXCEPT ![a] = Mine(a)]
  /\ fresh' = [fresh EXCEPT ![a] = TRUE]
  /\ Goto(a, "put")
  /\ UNCHANGED <<local, syncVars, frr, run, found, tries, mem, remotes, todo,
                 beatVars, envVars>>

(* Mutation: one attempt too many.                                         *)
OneTryMore(a) == IF tries[a] < MaxRetries THEN "get" ELSE "refresh"

AfterRefusal(a) == IF tries[a] + 1 < MaxRetries THEN "get" ELSE "refresh"

UpdateClusterStatus(a) ==
  /\ step[a] = "put"
  /\ copy' = [copy EXCEPT ![a] = NoCluster]
  /\ IF fresh[a]
       THEN /\ IF copy[a].endpoints = found[a]
                 THEN /\ fresh' = [fresh EXCEPT ![a] = FALSE]
                      /\ UNCHANGED <<local, beatFresh>>
                 ELSE Store(ClusterOf[a], [copy[a] EXCEPT !.endpoints = found[a]])
            /\ Goto(a, "refresh")
            /\ UNCHANGED tries
       ELSE /\ NotStored
            /\ tries' = [tries EXCEPT ![a] = @ + 1]
            /\ Goto(a, AfterRefusal(a))
  /\ UNCHANGED <<syncVars, frr, run, found, mem, remotes, todo, beat, envVars>>

RefreshLocalCluster(a) ==
  /\ step[a] = "refresh"
  /\ mem' = [mem EXCEPT ![a] = Mine(a)]
  /\ found' = [found EXCEPT ![a] = {}]
  /\ tries' = [tries EXCEPT ![a] = 0]
  /\ Goto(a, "list")
  /\ UNCHANGED <<local, syncVars, frr, run, copy, fresh, remotes, todo,
                 beatVars, envVars>>

EndReconcile(a) ==
  /\ Goto(a, "idle")
  /\ mem' = [mem EXCEPT ![a] = NoCluster]
  /\ remotes' = [remotes EXCEPT ![a] = {}]
  /\ todo' = [todo EXCEPT ![a] = {}]

RemoteEndpoints(c) ==
  UNION {imported[c][d].endpoints : d \in {e \in Clusters \ {c} :
                                             imported[c][e] # NoCluster}}

GetRemoteClusters(a) ==
  /\ step[a] = "list"
  /\ IF mem[a].endpoints = {}
       THEN EndReconcile(a)
       ELSE /\ remotes' = [remotes EXCEPT ![a] = RemoteEndpoints(ClusterOf[a])]
            /\ todo' = [todo EXCEPT ![a] = mem[a].endpoints]
            /\ Goto(a, "configure")
            /\ UNCHANGED mem
  /\ UNCHANGED <<local, syncVars, frr, run, found, tries, copy, fresh,
                 beatVars, envVars>>

(* Mutation: the filter of the route reflector topology, in which no       *)
(* endpoint is marked as a reflector, applies to the full mesh.            *)
NeighborsInCluster(a, n) == mem[a].endpoints \ {n}

(* buildNeighborsForNode: the other nodes of the cluster, and of the       *)
(* remote ones all nodes or only the reflectors.                           *)
NeighborsForNode(a, n) ==
  (mem[a].endpoints \ {n})
    \cup {m \in remotes[a] : Topology = "FullMesh" \/ m \in Reflectors}

(* ReconcileBGPConfig, one node: the FRRConfiguration is written, or the   *)
(* error is logged and the loop goes on to the next node.                  *)
ConfigureNode(a, n) ==
  /\ step[a] = "configure"
  /\ n \in todo[a]
  /\ \/ frr' = [frr EXCEPT ![n] = NeighborsForNode(a, n)]
     \/ UNCHANGED frr
  /\ IF todo[a] = {n}
       THEN EndReconcile(a)
       ELSE /\ todo' = [todo EXCEPT ![a] = @ \ {n}]
            /\ UNCHANGED <<step, mem, remotes>>
  /\ UNCHANGED <<local, syncVars, run, found, tries, copy, fresh, beatVars, envVars>>

-----------------------------------------------------------------------------
(* updateHeartbeat: reads, sets time and phase, writes once.               *)

GetForHeartbeat(a) ==
  /\ a \in Beating /\ run[a] = "up" /\ beat[a] = NoCluster
  /\ beat' = [beat EXCEPT ![a] = [Mine(a) EXCEPT !.phase = "Ready"]]
  /\ beatFresh' = [beatFresh EXCEPT ![a] = TRUE]
  /\ UNCHANGED <<local, syncVars, frr, run, step, workVars, fresh, envVars>>

(* Mutation: the heartbeat is written without a resourceVersion.           *)
HeartbeatOverwrites(a) ==
  /\ beat[a] # NoCluster
  /\ Store(ClusterOf[a], beat[a])
  /\ beat' = [beat EXCEPT ![a] = NoCluster]
  /\ UNCHANGED <<syncVars, frr, run, step, workVars, envVars>>

UpdateHeartbeat(a) ==
  /\ beat[a] # NoCluster
  /\ IF beatFresh[a] THEN Store(ClusterOf[a], beat[a]) ELSE NotStored
  /\ beat' = [beat EXCEPT ![a] = NoCluster]
  /\ UNCHANGED <<syncVars, frr, run, step, workVars, envVars>>

(* Any other call fails: the process ends if it was registering,           *)
(* updateClusterStatus returns to reconcile, which goes on, and reconcile  *)
(* and updateHeartbeat end until their next tick.                          *)
CallFails(a) ==
  /\ ApiFaults
  /\ \/ /\ step[a] = "register"
        /\ Exit(a)
        /\ fresh' = [fresh EXCEPT ![a] = FALSE]
        /\ UNCHANGED beatFresh
     \/ /\ step[a] \in {"get", "put"}
        /\ Goto(a, "refresh")
        /\ copy' = [copy EXCEPT ![a] = NoCluster]
        /\ fresh' = [fresh EXCEPT ![a] = FALSE]
        /\ UNCHANGED <<run, found, tries, mem, remotes, todo, beatVars>>
     \/ /\ step[a] \in {"refresh", "list"}
        /\ EndReconcile(a)
        /\ found' = [found EXCEPT ![a] = {}]
        /\ tries' = [tries EXCEPT ![a] = 0]
        /\ UNCHANGED <<run, copy, fresh, beatVars>>
     \/ /\ beat[a] # NoCluster
        /\ beat' = [beat EXCEPT ![a] = NoCluster]
        /\ beatFresh' = [beatFresh EXCEPT ![a] = FALSE]
        /\ UNCHANGED <<run, step, workVars, fresh>>
  /\ UNCHANGED <<local, syncVars, frr, envVars>>

-----------------------------------------------------------------------------
(* The broker syncer (the admiral library): an agent exports its own       *)
(* cluster's object and imports the others', the latest version each time. *)

Syncing(c) == \E a \in Agents : ClusterOf[a] = c /\ run[a] = "up"

ExportCluster(c) ==
  /\ Syncing(c)
  /\ exported[c] # local[c]
  /\ exported' = [exported EXCEPT ![c] = local[c]]
  /\ UNCHANGED <<local, imported, frr, run, step, workVars, fresh, beatVars, envVars>>

ImportCluster(c, d) ==
  /\ c # d
  /\ Syncing(c)
  /\ imported[c][d] # exported[d]
  /\ imported' = [imported EXCEPT ![c][d] = exported[d]]
  /\ UNCHANGED <<local, exported, frr, run, step, workVars, fresh, beatVars, envVars>>

-----------------------------------------------------------------------------
(* The environment *)

NodeChanges(n) ==
  LET c == NodeCluster[n]
  IN /\ changes < MaxChanges
     /\ changes' = changes + 1
     /\ ready' = [ready EXCEPT ![c] = IF n \in @ THEN @ \ {n} ELSE @ \cup {n}]
     /\ UNCHANGED <<local, syncVars, frr, run, step, workVars, fresh, beatVars, stops>>

AgentStops(a) ==
  /\ run[a] # "down"
  /\ stops < MaxStops
  /\ stops' = stops + 1
  /\ Exit(a)
  /\ fresh' = [fresh EXCEPT ![a] = FALSE]
  /\ beatFresh' = [beatFresh EXCEPT ![a] = FALSE]
  /\ UNCHANGED <<local, syncVars, frr, ready, changes>>

ReconcileStep(a) ==
  \/ CollectEndpoints(a) \/ GetCluster(a) \/ UpdateClusterStatus(a)
  \/ RefreshLocalCluster(a) \/ GetRemoteClusters(a)
  \/ \E n \in Nodes : ConfigureNode(a, n)

MeshNext ==
  \/ \E a \in Agents :
       \/ StartAgent(a) \/ RegisterCluster(a)
       \/ ReconcileStep(a)
       \/ GetForHeartbeat(a) \/ UpdateHeartbeat(a)
       \/ CallFails(a) \/ AgentStops(a)
  \/ \E c \in Clusters : ExportCluster(c) \/ \E d \in Clusters : ImportCluster(c, d)
  \/ \E n \in Nodes : NodeChanges(n)

MeshSpec == MeshInit /\ [][MeshNext]_vars

(* Kubernetes keeps the agents running; both loops tick for ever; the      *)
(* syncer delivers. An update of the status that could succeed again and   *)
(* again succeeds some time: the other writers come by every 30 seconds at *)
(* most and the attempts are seconds apart. The same for writing a node's  *)
(* configuration.                                                          *)
MeshFairness ==
  /\ \A a \in Agents :
       /\ WF_vars(StartAgent(a) \/ RegisterCluster(a) \/ ReconcileStep(a))
       /\ \A n \in NodesOf(ClusterOf[a]) :
            SF_vars(ConfigureNode(a, n) /\ frr'[n] = NeighborsForNode(a, n))
  /\ \A a \in Beating :
       /\ WF_vars(GetForHeartbeat(a) \/ UpdateHeartbeat(a))
       /\ SF_vars(fresh[a] /\ UpdateClusterStatus(a))
       /\ SF_vars(beatFresh[a] /\ UpdateHeartbeat(a))
  /\ \A c \in Clusters :
       /\ WF_vars(ExportCluster(c))
       /\ \A d \in Clusters \ {c} : WF_vars(ImportCluster(c, d))

FairMeshSpec == MeshSpec /\ MeshFairness

-----------------------------------------------------------------------------
(* Properties *)

(* Loops and agents that write the same Cluster object do not undo each    *)
(* other's work: endpoints only ever change to what a reconcile of this    *)
(* cluster collected, a cluster that became Ready never falls back to      *)
(* Pending - also not when its agent registers again - and a registration  *)
(* is never lost.                                                          *)
StatusKept ==
  \A c \in Clusters : local[c] # NoCluster =>
    /\ local'[c] # NoCluster
    /\ local[c].phase = "Ready" => local'[c].phase = "Ready"
    /\ local'[c].endpoints # local[c].endpoints =>
         \E a \in Agents : /\ ClusterOf[a] = c /\ step[a] = "put"
                           /\ local'[c].endpoints = found[a]

ClusterStatusKept == [][StatusKept]_vars

(* In the end - nodes stay as they are and agents keep running - every     *)
(* ready node peers with every other ready node of all clusters, however   *)
(* reports, syncs and heartbeats interleaved before, and all clusters are  *)
(* Ready for everybody.                                                    *)
AllReady == UNION {ready[c] : c \in Clusters}

FullMesh ==
  /\ \A n \in AllReady : frr[n] = AllReady \ {n}
  /\ \A c \in {ClusterOf[a] : a \in Beating} :
       exported[c] # NoCluster /\ exported[c].phase = "Ready"

EventuallyFullMesh == <>[]FullMesh

(* A BGP session needs both ends: in the end neighbors name each other.    *)
EventuallyMutual ==
  <>[](\A m, n \in AllReady : m \in frr[n] <=> n \in frr[m])
=============================================================================
