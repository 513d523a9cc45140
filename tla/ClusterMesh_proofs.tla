------------------------- MODULE ClusterMesh_proofs -------------------------
(***************************************************************************)
(* That the writers of a Cluster object do not undo each other's work, for *)
(* all sets of clusters, agents and nodes: any number of agents per        *)
(* cluster, each with both of its loops, failing calls and restarts.       *)
(***************************************************************************)
EXTENDS ClusterMesh, TLAPS

(* The inductive invariant. A copy that passes for current is the stored   *)
(* object, with the heartbeat's phase where the heartbeat holds it, and    *)
(* only agents that have registered get to write anything but a            *)
(* registration.                                                           *)
ToWrite(obj) == [obj EXCEPT !.phase = "Ready"]

CopiesCurrent ==
  \A a \in Agents :
    /\ step[a] \in {"register", "put"} /\ fresh[a] => copy[a] = Mine(a)
    /\ beat[a] # NoCluster /\ beatFresh[a] =>
         beat[a] = ToWrite(Mine(a))

LoopsRegistered ==
  \A a \in Agents :
    /\ step[a] \notin {"idle", "register"} \/ beat[a] # NoCluster => run[a] = "up"
    /\ run[a] = "up" => Mine(a) # NoCluster

(* What reconcile has in its hands at a step.                              *)
ReconcileHolds ==
  \A a \in Agents :
    /\ step[a] \in {"list", "configure"} => mem[a] # NoCluster
    /\ step[a] \in {"get", "put"} => tries[a] < MaxRetries

MeshInv == MeshTypeOK /\ CopiesCurrent /\ LoopsRegistered /\ ReconcileHolds

-----------------------------------------------------------------------------
(* Setting a field of a Cluster object makes a Cluster object.             *)
LEMMA ClusterEdits ==
  ASSUME NEW obj \in ClusterObject, NEW eps \in SUBSET Nodes
  PROVE  /\ ToWrite(obj) \in ClusterObject
         /\ ToWrite(obj).phase = "Ready"
         /\ ToWrite(obj).endpoints = obj.endpoints
         /\ [obj EXCEPT !.endpoints = eps] \in ClusterObject
         /\ [obj EXCEPT !.endpoints = eps].endpoints = eps
         /\ [obj EXCEPT !.endpoints = eps].phase = obj.phase
         /\ obj # NoCluster
BY MeshAssumption DEF ClusterObject, ToWrite

(* A write of c's object leaves nobody of c with a current copy, and the   *)
(* objects of the other clusters as they are.                              *)
LEMMA StoreType ==
  ASSUME MeshTypeOK, NEW c \in Clusters, NEW obj \in ClusterObject, Store(c, obj)
  PROVE  /\ local' \in [Clusters -> Stored]
         /\ fresh' \in [Agents -> BOOLEAN]
         /\ beatFresh' \in [Agents -> BOOLEAN]
         /\ local'[c] = obj
         /\ \A d \in Clusters \ {c} : local'[d] = local[d]
         /\ \A b \in Agents : fresh'[b] => fresh[b] /\ ClusterOf[b] # c
         /\ \A b \in Agents : beatFresh'[b] => beatFresh[b] /\ ClusterOf[b] # c
BY DEF Store, MeshTypeOK, Stored

(* What the agents hold, after a write by an agent that lets go of its     *)
(* copies: the others are of other clusters or old.                        *)
LEMMA StoreKeepsCopies ==
  ASSUME MeshInv, NEW c \in Clusters, NEW obj \in ClusterObject, Store(c, obj),
         NEW a \in Agents, ClusterOf[a] = c,
         \A b \in Agents \ {a} : /\ step'[b] = step[b] /\ copy'[b] = copy[b]
                                 /\ beat'[b] = beat[b] /\ run'[b] = run[b],
         run'[a] = "up"
  PROVE  CopiesCurrent' /\ LoopsRegistered'
<1>1. /\ local'[c] = obj /\ obj # NoCluster
      /\ \A d \in Clusters \ {c} : local'[d] = local[d]
      /\ \A b \in Agents : fresh'[b] => fresh[b] /\ ClusterOf[b] # c
      /\ \A b \in Agents : beatFresh'[b] => beatFresh[b] /\ ClusterOf[b] # c
  BY StoreType, MeshAssumption DEF MeshInv
<1>2. \A b \in Agents : ClusterOf[b] # c => b # a /\ Mine(b)' = Mine(b)
  BY <1>1, MeshAssumption DEF Mine
<1>3. \A b \in Agents : ClusterOf[b] = c => Mine(b)' # NoCluster
  BY <1>1 DEF Mine
<1>4. CopiesCurrent'
  BY <1>1, <1>2 DEF CopiesCurrent, MeshInv
<1>5. LoopsRegistered'
  BY <1>2, <1>3 DEF LoopsRegistered, MeshInv
<1> QED
  BY <1>4, <1>5
-----------------------------------------------------------------------------
(* Each step keeps the invariant *)

(* The end of the process leaves nothing in its hands.                     *)
LEMMA ExitKeepsInv ==
  ASSUME MeshInv, NEW a \in Agents, Exit(a), local' = local,
         fresh' \in [Agents -> BOOLEAN], beatFresh' \in [Agents -> BOOLEAN],
         \A b \in Agents \ {a} : fresh'[b] = fresh[b] /\ beatFresh'[b] = beatFresh[b],
         ready' \in [Clusters -> SUBSET Nodes], UNCHANGED <<syncVars, frr>>,
         changes' \in 0 .. MaxChanges, stops' \in 0 .. MaxStops
  PROVE  MeshInv'
<1>1. MeshTypeOK'
  <2>1. {} \in SUBSET Nodes /\ NoCluster \in Stored /\ 0 \in 0 .. MaxRetries
    BY MeshAssumption DEF Stored
  <2> QED
    BY <2>1 DEF MeshInv, MeshTypeOK, Exit, syncVars
<1>2. CopiesCurrent' /\ LoopsRegistered' /\ ReconcileHolds'
  BY DEF MeshInv, MeshTypeOK, CopiesCurrent, LoopsRegistered, ReconcileHolds, Mine, Exit
<1> QED
  BY <1>1, <1>2 DEF MeshInv

LEMMA RegistrationKeepsInv ==
  ASSUME MeshInv, NEW a \in Agents, StartAgent(a) \/ RegisterCluster(a)
  PROVE  MeshInv'
<1>1. CASE StartAgent(a)
  <2>1. Mine(a) \in Stored
    BY MeshAssumption DEF MeshInv, MeshTypeOK, Mine
  <2>2. MeshTypeOK'
    BY <1>1, <2>1 DEF StartAgent, MeshInv, MeshTypeOK, syncVars, beatVars, envVars
  <2>3. CopiesCurrent' /\ LoopsRegistered' /\ ReconcileHolds'
    BY <1>1 DEF StartAgent, MeshInv, MeshTypeOK, CopiesCurrent, LoopsRegistered,
                ReconcileHolds, Mine, beatVars
  <2> QED
    BY <2>2, <2>3 DEF MeshInv
<1>2. CASE RegisterCluster(a) /\ fresh[a]
  <2> DEFINE registered == IF copy[a] = NoCluster
                             THEN [phase |-> "Pending", endpoints |-> {}]
                             ELSE copy[a]
  <2>1. registered \in ClusterObject
    BY DEF MeshInv, MeshTypeOK, Stored, ClusterObject
  <2>2. /\ Store(ClusterOf[a], registered)
        /\ run' = [run EXCEPT ![a] = "up"]
        /\ step' = [step EXCEPT ![a] = "idle"]
        /\ copy' = [copy EXCEPT ![a] = NoCluster]
        /\ UNCHANGED <<found, tries, mem, remotes, todo, beat>>
        /\ UNCHANGED <<syncVars, frr, envVars>>
    BY <1>2 DEF RegisterCluster
  <2> HIDE DEF registered
  <2>3. /\ local' \in [Clusters -> Stored]
        /\ fresh' \in [Agents -> BOOLEAN]
        /\ beatFresh' \in [Agents -> BOOLEAN]
    BY <2>1, <2>2, StoreType, MeshAssumption DEF MeshInv
  <2>4. MeshTypeOK'
    BY <2>2, <2>3 DEF MeshInv, MeshTypeOK, Stored, syncVars, envVars
  <2>5. CopiesCurrent' /\ LoopsRegistered'
    BY <2>1, <2>2, StoreKeepsCopies, MeshAssumption DEF MeshInv, MeshTypeOK
  <2>6. ReconcileHolds'
    BY <2>2 DEF MeshInv, MeshTypeOK, ReconcileHolds
  <2> QED
    BY <2>4, <2>5, <2>6 DEF MeshInv
<1>3. CASE RegisterCluster(a) /\ ~fresh[a]
  <2>1. Exit(a) /\ NotStored /\ UNCHANGED <<syncVars, frr, envVars>>
    BY <1>3 DEF RegisterCluster
  <2> QED
    BY <2>1, ExitKeepsInv DEF NotStored, MeshInv, MeshTypeOK, envVars
<1> QED
  BY <1>1, <1>2, <1>3

LEMMA ReportKeepsInv ==
  ASSUME MeshInv, NEW a \in Agents,
         CollectEndpoints(a) \/ GetCluster(a) \/ UpdateClusterStatus(a)
  PROVE  MeshInv'
<1>1. CASE CollectEndpoints(a)
  <2>1. MeshTypeOK'
    <3>1. ready[ClusterOf[a]] \in SUBSET Nodes /\ 0 \in 0 .. MaxRetries
      BY MeshAssumption DEF MeshInv, MeshTypeOK
    <3> QED
      BY <1>1, <3>1
      DEF CollectEndpoints, Goto, MeshInv, MeshTypeOK, syncVars, beatVars, envVars
  <2>2. CopiesCurrent' /\ LoopsRegistered' /\ ReconcileHolds'
    BY <1>1, MeshAssumption
    DEF CollectEndpoints, Goto, MeshInv, MeshTypeOK, CopiesCurrent, LoopsRegistered,
        ReconcileHolds, Mine, beatVars
  <2> QED
    BY <2>1, <2>2 DEF MeshInv
<1>2. CASE GetCluster(a)
  <2>1. Mine(a) \in Stored
    BY MeshAssumption DEF MeshInv, MeshTypeOK, Mine
  <2>2. MeshTypeOK'
    BY <1>2, <2>1 DEF GetCluster, Goto, MeshInv, MeshTypeOK, syncVars, beatVars, envVars
  <2>3. CopiesCurrent' /\ LoopsRegistered' /\ ReconcileHolds'
    BY <1>2 DEF GetCluster, Goto, MeshInv, MeshTypeOK, CopiesCurrent, LoopsRegistered,
                ReconcileHolds, Mine, beatVars
  <2> QED
    BY <2>2, <2>3 DEF MeshInv
<1>3. CASE UpdateClusterStatus(a) /\ fresh[a] /\ copy[a].endpoints # found[a]
  <2> DEFINE obj == [copy[a] EXCEPT !.endpoints = found[a]]
  <2>1. copy[a] \in ClusterObject /\ run[a] = "up"
    BY <1>3 DEF UpdateClusterStatus, MeshInv, MeshTypeOK, Stored, CopiesCurrent,
                LoopsRegistered
  <2>2. obj \in ClusterObject
    BY <2>1, ClusterEdits DEF MeshInv, MeshTypeOK
  <2>3. /\ Store(ClusterOf[a], obj)
        /\ copy' = [copy EXCEPT ![a] = NoCluster]
        /\ step' = [step EXCEPT ![a] = "refresh"]
        /\ UNCHANGED <<tries, syncVars, frr, run, found, mem, remotes, todo, beat, envVars>>
    BY <1>3 DEF UpdateClusterStatus, Goto
  <2> HIDE DEF obj
  <2>4. /\ local' \in [Clusters -> Stored]
        /\ fresh' \in [Agents -> BOOLEAN]
        /\ beatFresh' \in [Agents -> BOOLEAN]
    BY <2>2, <2>3, StoreType, MeshAssumption DEF MeshInv
  <2>5. MeshTypeOK'
    BY <2>3, <2>4 DEF MeshInv, MeshTypeOK, Stored, syncVars, envVars
  <2>6. CopiesCurrent' /\ LoopsRegistered'
    BY <2>1, <2>2, <2>3, StoreKeepsCopies, MeshAssumption DEF MeshInv, MeshTypeOK
  <2>7. ReconcileHolds'
    BY <2>3 DEF MeshInv, MeshTypeOK, ReconcileHolds
  <2> QED
    BY <2>5, <2>6, <2>7 DEF MeshInv
<1>4. CASE UpdateClusterStatus(a) /\ fresh[a] /\ copy[a].endpoints = found[a]
  <2>1. MeshTypeOK'
    BY <1>4 DEF UpdateClusterStatus, Goto, MeshInv, MeshTypeOK, Stored, syncVars, envVars
  <2>2. CopiesCurrent' /\ LoopsRegistered' /\ ReconcileHolds'
    BY <1>4 DEF UpdateClusterStatus, Goto, MeshInv, MeshTypeOK, CopiesCurrent,
                LoopsRegistered, ReconcileHolds, Mine
  <2> QED
    BY <2>1, <2>2 DEF MeshInv
<1>5. CASE UpdateClusterStatus(a) /\ ~fresh[a]
  <2>1. /\ tries[a] \in Nat /\ tries[a] + 1 \in 0 .. MaxRetries
        /\ AfterRefusal(a) \in {"get", "refresh"}
        /\ AfterRefusal(a) = "get" => tries[a] + 1 < MaxRetries
    BY <1>5, MeshAssumption
    DEF UpdateClusterStatus, MeshInv, MeshTypeOK, ReconcileHolds, AfterRefusal
  <2>2. /\ tries' = [tries EXCEPT ![a] = tries[a] + 1]
        /\ step' = [step EXCEPT ![a] = AfterRefusal(a)]
        /\ copy' = [copy EXCEPT ![a] = NoCluster] /\ step[a] = "put"
        /\ UNCHANGED <<local, fresh, beatFresh>>
        /\ UNCHANGED <<syncVars, frr, run, found, mem, remotes, todo, beat, envVars>>
    BY <1>5 DEF UpdateClusterStatus, Goto, NotStored
  <2>3. MeshTypeOK'
    BY <2>1, <2>2 DEF MeshInv, MeshTypeOK, Stored, syncVars, envVars
  <2>4. CopiesCurrent' /\ LoopsRegistered' /\ ReconcileHolds'
    BY <2>1, <2>2
    DEF MeshInv, MeshTypeOK, CopiesCurrent, LoopsRegistered, ReconcileHolds, Mine
  <2> QED
    BY <2>3, <2>4 DEF MeshInv
<1> QED
  BY <1>1, <1>2, <1>3, <1>4, <1>5

LEMMA ConfigurationKeepsInv ==
  ASSUME MeshInv, NEW a \in Agents,
         \/ RefreshLocalCluster(a) \/ GetRemoteClusters(a)
         \/ \E n \in Nodes : ConfigureNode(a, n)
  PROVE  MeshInv'
<1>1. CASE RefreshLocalCluster(a)
  <2>1. Mine(a) \in ClusterObject /\ Mine(a) # NoCluster
    BY <1>1, MeshAssumption
    DEF RefreshLocalCluster, MeshInv, MeshTypeOK, LoopsRegistered, Stored, Mine
  <2>2. {} \in SUBSET Nodes /\ 0 \in 0 .. MaxRetries
    BY MeshAssumption
  <2>3. MeshTypeOK'
    BY <1>1, <2>1, <2>2
    DEF RefreshLocalCluster, Goto, MeshInv, MeshTypeOK, Stored, syncVars, beatVars, envVars
  <2>4. CopiesCurrent' /\ LoopsRegistered' /\ ReconcileHolds'
    BY <1>1, <2>1
    DEF RefreshLocalCluster, Goto, MeshInv, MeshTypeOK, CopiesCurrent, LoopsRegistered,
        ReconcileHolds, Mine, beatVars
  <2> QED
    BY <2>3, <2>4 DEF MeshInv
<1>2. ASSUME EndReconcile(a), frr' \in [Nodes -> SUBSET Nodes],
             UNCHANGED <<local, syncVars, run, found, tries, copy, fresh, beatVars,
                         envVars>>
      PROVE  MeshInv'
  <2>1. {} \in SUBSET Nodes /\ NoCluster \in Stored
    BY DEF Stored
  <2>2. MeshTypeOK'
    BY <1>2, <2>1
    DEF EndReconcile, Goto, MeshInv, MeshTypeOK, syncVars, beatVars, envVars
  <2>3. CopiesCurrent' /\ LoopsRegistered' /\ ReconcileHolds'
    BY <1>2
    DEF EndReconcile, Goto, MeshInv, MeshTypeOK, CopiesCurrent, LoopsRegistered,
        ReconcileHolds, Mine, beatVars
  <2> QED
    BY <2>2, <2>3 DEF MeshInv
<1>3. CASE GetRemoteClusters(a) /\ mem[a].endpoints = {}
  BY <1>2, <1>3 DEF GetRemoteClusters, MeshInv, MeshTypeOK
<1>4. CASE GetRemoteClusters(a) /\ mem[a].endpoints # {}
  <2>1. RemoteEndpoints(ClusterOf[a]) \in SUBSET Nodes
    BY MeshAssumption DEF RemoteEndpoints, MeshInv, MeshTypeOK, Stored, ClusterObject
  <2>2. mem[a].endpoints \in SUBSET Nodes /\ mem[a] # NoCluster
    BY <1>4
    DEF GetRemoteClusters, MeshInv, MeshTypeOK, ReconcileHolds, Stored, ClusterObject
  <2>3. MeshTypeOK'
    BY <1>4, <2>1, <2>2
    DEF GetRemoteClusters, Goto, MeshInv, MeshTypeOK, syncVars, beatVars, envVars
  <2>4. CopiesCurrent' /\ LoopsRegistered' /\ ReconcileHolds'
    BY <1>4, <2>2
    DEF GetRemoteClusters, Goto, MeshInv, MeshTypeOK, CopiesCurrent, LoopsRegistered,
        ReconcileHolds, Mine, beatVars
  <2> QED
    BY <2>3, <2>4 DEF MeshInv
<1>5. ASSUME NEW n \in Nodes, ConfigureNode(a, n)
      PROVE  MeshInv'
  <2>1. NeighborsForNode(a, n) \in SUBSET Nodes
    BY <1>5
    DEF ConfigureNode, NeighborsForNode, MeshInv, MeshTypeOK, ReconcileHolds, Stored,
        ClusterObject
  <2>2. frr' \in [Nodes -> SUBSET Nodes]
    BY <1>5, <2>1 DEF ConfigureNode, MeshInv, MeshTypeOK
  <2>3. CASE todo[a] = {n}
    BY <1>2, <1>5, <2>2, <2>3 DEF ConfigureNode
  <2>4. CASE todo[a] # {n}
    <3>1. /\ todo' = [todo EXCEPT ![a] = todo[a] \ {n}]
          /\ UNCHANGED <<local, step, mem, remotes, syncVars, run, found, tries, copy,
                         fresh, beatVars, envVars>>
      BY <1>5, <2>4 DEF ConfigureNode
    <3>2. MeshTypeOK'
      BY <2>2, <3>1 DEF MeshInv, MeshTypeOK, syncVars, beatVars, envVars
    <3>3. CopiesCurrent' /\ LoopsRegistered' /\ ReconcileHolds'
      BY <3>1
      DEF MeshInv, CopiesCurrent, LoopsRegistered, ReconcileHolds, Mine, beatVars
    <3> QED
      BY <3>2, <3>3 DEF MeshInv
  <2> QED
    BY <2>3, <2>4
<1> QED
  BY <1>1, <1>3, <1>4, <1>5

LEMMA HeartbeatKeepsInv ==
  ASSUME MeshInv, NEW a \in Agents, GetForHeartbeat(a) \/ UpdateHeartbeat(a)
  PROVE  MeshInv'
<1>1. CASE GetForHeartbeat(a)
  <2>1. /\ beat' = [beat EXCEPT ![a] = ToWrite(Mine(a))]
        /\ beatFresh' = [beatFresh EXCEPT ![a] = TRUE]
        /\ run[a] = "up"
        /\ UNCHANGED <<local, syncVars, frr, run, step, workVars, fresh, envVars>>
    BY <1>1 DEF GetForHeartbeat, ToWrite
  <2>2. Mine(a) \in ClusterObject
    BY <2>1, MeshAssumption DEF MeshInv, MeshTypeOK, LoopsRegistered, Stored, Mine
  <2>3. ToWrite(Mine(a)) \in ClusterObject
    BY <2>2, ClusterEdits
  <2>4. \A b \in Agents : Mine(b)' = Mine(b)
    BY <2>1 DEF Mine
  <2>5. MeshTypeOK'
    BY <2>1, <2>3 DEF MeshInv, MeshTypeOK, Stored, syncVars, workVars, envVars
  <2>6. CopiesCurrent'
    BY <2>1, <2>4 DEF MeshInv, MeshTypeOK, CopiesCurrent, workVars
  <2>7. LoopsRegistered' /\ ReconcileHolds'
    BY <2>1, <2>4 DEF MeshInv, MeshTypeOK, LoopsRegistered, ReconcileHolds, workVars
  <2> QED
    BY <2>5, <2>6, <2>7 DEF MeshInv
<1>2. CASE UpdateHeartbeat(a) /\ beatFresh[a]
  <2>1. beat[a] \in ClusterObject /\ run[a] = "up"
    BY <1>2 DEF UpdateHeartbeat, MeshInv, MeshTypeOK, LoopsRegistered, Stored
  <2>2. /\ Store(ClusterOf[a], beat[a])
        /\ beat' = [beat EXCEPT ![a] = NoCluster]
        /\ UNCHANGED <<syncVars, frr, run, step, workVars, envVars>>
    BY <1>2 DEF UpdateHeartbeat
  <2>3. /\ local' \in [Clusters -> Stored]
        /\ fresh' \in [Agents -> BOOLEAN]
        /\ beatFresh' \in [Agents -> BOOLEAN]
    BY <2>1, <2>2, StoreType, MeshAssumption DEF MeshInv
  <2>4. MeshTypeOK'
    BY <2>2, <2>3 DEF MeshInv, MeshTypeOK, Stored, syncVars, workVars, envVars
  <2>5. CopiesCurrent' /\ LoopsRegistered'
    BY <2>1, <2>2, StoreKeepsCopies, MeshAssumption DEF MeshInv, MeshTypeOK, workVars
  <2>6. ReconcileHolds'
    BY <2>2 DEF MeshInv, ReconcileHolds, workVars
  <2> QED
    BY <2>4, <2>5, <2>6 DEF MeshInv
<1>3. CASE UpdateHeartbeat(a) /\ ~beatFresh[a]
  <2>1. MeshTypeOK'
    BY <1>3 DEF UpdateHeartbeat, NotStored, MeshInv, MeshTypeOK, Stored, syncVars,
                workVars, envVars
  <2>2. CopiesCurrent' /\ LoopsRegistered' /\ ReconcileHolds'
    BY <1>3 DEF UpdateHeartbeat, NotStored, MeshInv, MeshTypeOK, CopiesCurrent,
                LoopsRegistered, ReconcileHolds, Mine, workVars
  <2> QED
    BY <2>1, <2>2 DEF MeshInv
<1> QED
  BY <1>1, <1>2, <1>3

LEMMA FaultsKeepInv ==
  ASSUME MeshInv, NEW a \in Agents, CallFails(a) \/ AgentStops(a)
  PROVE  MeshInv'
<1>0. {} \in SUBSET Nodes /\ NoCluster \in Stored /\ 0 \in 0 .. MaxRetries
  BY MeshAssumption DEF Stored
<1>1. CASE AgentStops(a)
  <2>1. stops' \in 0 .. MaxStops
    BY <1>1, MeshAssumption DEF AgentStops, MeshInv, MeshTypeOK
  <2> QED
    BY <1>1, <2>1, ExitKeepsInv DEF AgentStops, MeshInv, MeshTypeOK
<1>2. CASE /\ step[a] = "register" /\ Exit(a)
           /\ fresh' = [fresh EXCEPT ![a] = FALSE]
           /\ UNCHANGED <<beatFresh, local, syncVars, frr, envVars>>
  BY <1>2, ExitKeepsInv DEF MeshInv, MeshTypeOK, envVars
<1>3. CASE /\ step[a] \in {"get", "put"} /\ Goto(a, "refresh")
           /\ copy' = [copy EXCEPT ![a] = NoCluster]
           /\ fresh' = [fresh EXCEPT ![a] = FALSE]
           /\ UNCHANGED <<run, found, tries, mem, remotes, todo, beatVars>>
           /\ UNCHANGED <<local, syncVars, frr, envVars>>
  <2>1. MeshTypeOK'
    BY <1>0, <1>3 DEF Goto, MeshInv, MeshTypeOK, syncVars, beatVars, envVars
  <2>2. CopiesCurrent' /\ LoopsRegistered' /\ ReconcileHolds'
    BY <1>3 DEF Goto, MeshInv, MeshTypeOK, CopiesCurrent, LoopsRegistered,
                ReconcileHolds, Mine, beatVars
  <2> QED
    BY <2>1, <2>2 DEF MeshInv
<1>4. CASE /\ step[a] \in {"refresh", "list"} /\ EndReconcile(a)
           /\ found' = [found EXCEPT ![a] = {}]
           /\ tries' = [tries EXCEPT ![a] = 0]
           /\ UNCHANGED <<run, copy, fresh, beatVars>>
           /\ UNCHANGED <<local, syncVars, frr, envVars>>
  <2>1. MeshTypeOK'
    BY <1>0, <1>4
    DEF EndReconcile, Goto, MeshInv, MeshTypeOK, syncVars, beatVars, envVars
  <2>2. CopiesCurrent' /\ LoopsRegistered' /\ ReconcileHolds'
    BY <1>4 DEF EndReconcile, Goto, MeshInv, MeshTypeOK, CopiesCurrent, LoopsRegistered,
                ReconcileHolds, Mine, beatVars
  <2> QED
    BY <2>1, <2>2 DEF MeshInv
<1>5. CASE /\ beat' = [beat EXCEPT ![a] = NoCluster]
           /\ beatFresh' = [beatFresh EXCEPT ![a] = FALSE]
           /\ UNCHANGED <<run, step, workVars, fresh>>
           /\ UNCHANGED <<local, syncVars, frr, envVars>>
  <2>1. MeshTypeOK'
    BY <1>0, <1>5 DEF MeshInv, MeshTypeOK, syncVars, workVars, envVars
  <2>2. CopiesCurrent' /\ LoopsRegistered' /\ ReconcileHolds'
    BY <1>5 DEF MeshInv, MeshTypeOK, CopiesCurrent, LoopsRegistered, ReconcileHolds,
                Mine, workVars
  <2> QED
    BY <2>1, <2>2 DEF MeshInv
<1> QED
  BY <1>1, <1>2, <1>3, <1>4, <1>5 DEF CallFails

(* The syncer and the nodes touch nothing that the agents hold.            *)
LEMMA OthersKeepInv ==
  ASSUME MeshInv,
         \/ \E c \in Clusters : ExportCluster(c) \/ \E d \in Clusters : ImportCluster(c, d)
         \/ \E n \in Nodes : NodeChanges(n)
         \/ UNCHANGED vars
  PROVE  MeshInv'
<1>1. /\ UNCHANGED <<local, frr, run, step, workVars, fresh, beatVars>>
      /\ exported' \in [Clusters -> Stored]
      /\ imported' \in [Clusters -> [Clusters -> Stored]]
      /\ ready' \in [Clusters -> SUBSET Nodes]
      /\ changes' \in 0 .. MaxChanges /\ stops' \in 0 .. MaxStops
  <2>1. ASSUME NEW c \in Clusters, ExportCluster(c) PROVE <1>1!:
    BY <2>1 DEF ExportCluster, MeshInv, MeshTypeOK, envVars
  <2>2. ASSUME NEW c \in Clusters, NEW d \in Clusters, ImportCluster(c, d) PROVE <1>1!:
    BY <2>2 DEF ImportCluster, MeshInv, MeshTypeOK, envVars
  <2>3. ASSUME NEW n \in Nodes, NodeChanges(n) PROVE <1>1!:
    <3>1. changes' \in 0 .. MaxChanges
      BY <2>3, MeshAssumption DEF NodeChanges, MeshInv, MeshTypeOK
    <3>2. ready' \in [Clusters -> SUBSET Nodes]
      BY <2>3, MeshAssumption DEF NodeChanges, MeshInv, MeshTypeOK
    <3> QED
      BY <2>3, <3>1, <3>2 DEF NodeChanges, MeshInv, MeshTypeOK, syncVars
  <2>4. CASE UNCHANGED vars
    BY <2>4 DEF vars, workVars, beatVars, MeshInv, MeshTypeOK
  <2> QED
    BY <2>1, <2>2, <2>3, <2>4
<1>2. MeshTypeOK'
  BY <1>1 DEF MeshInv, MeshTypeOK, workVars, beatVars
<1>3. CopiesCurrent' /\ LoopsRegistered' /\ ReconcileHolds'
  BY <1>1 DEF MeshInv, CopiesCurrent, LoopsRegistered, ReconcileHolds, Mine, workVars,
              beatVars
<1> QED
  BY <1>2, <1>3 DEF MeshInv

LEMMA MeshInductive == MeshInv /\ [MeshNext]_vars => MeshInv'
BY RegistrationKeepsInv, ReportKeepsInv, ConfigurationKeepsInv, HeartbeatKeepsInv,
   FaultsKeepInv, OthersKeepInv
DEF MeshNext, ReconcileStep

LEMMA MeshInitially == MeshInit => MeshInv
<1> SUFFICES ASSUME MeshInit PROVE MeshInv
  OBVIOUS
<1>1. MeshTypeOK
  BY MeshAssumption DEF MeshInit, MeshTypeOK, Stored, NodesOf
<1>2. CopiesCurrent /\ LoopsRegistered /\ ReconcileHolds
  BY DEF MeshInit, CopiesCurrent, LoopsRegistered, ReconcileHolds
<1> QED
  BY <1>1, <1>2 DEF MeshInv

(* Type correctness: also of an object that is being edited by both loops  *)
(* of several agents, and never more attempts than updateClusterStatus has. *)
THEOREM MeshTypeCorrect == MeshSpec => []MeshTypeOK
<1>1. MeshInit => MeshInv
  BY MeshInitially
<1>2. MeshInv /\ [MeshNext]_vars => MeshInv'
  BY MeshInductive
<1>3. MeshInv => MeshTypeOK
  BY DEF MeshInv
<1> QED
  BY <1>1, <1>2, <1>3, PTL DEF MeshSpec

-----------------------------------------------------------------------------
(* What a step does to the Cluster objects *)

(* Only three calls write an object, and each of them only from a current  *)
(* copy: what it changes is its own part.                                  *)
LEMMA StepOnClusters ==
  ASSUME MeshInv, MeshNext
  PROVE  StatusKept
<1>1. ASSUME NEW a \in Agents, NEW obj \in ClusterObject, Store(ClusterOf[a], obj),
             Mine(a) # NoCluster =>
               /\ Mine(a).phase = "Ready" => obj.phase = "Ready"
               /\ obj.endpoints # Mine(a).endpoints =>
                    step[a] = "put" /\ obj.endpoints = found[a]
      PROVE  StatusKept
  <2>1. /\ local'[ClusterOf[a]] = obj /\ obj # NoCluster
        /\ \A d \in Clusters \ {ClusterOf[a]} : local'[d] = local[d]
    BY <1>1, StoreType, MeshAssumption DEF MeshInv
  <2> QED
    BY <1>1, <2>1 DEF StatusKept, Mine
<1>2. CASE local' = local
  BY <1>2 DEF StatusKept
<1>3. ASSUME NEW a \in Agents, RegisterCluster(a)
      PROVE  StatusKept
  <2>1. CASE ~fresh[a]
    BY <1>2, <1>3, <2>1 DEF RegisterCluster, NotStored
  <2>2. CASE fresh[a] /\ Mine(a) = NoCluster
    <3> DEFINE new == [phase |-> "Pending", endpoints |-> {}]
    <3>1. copy[a] = NoCluster
      BY <1>3, <2>2 DEF RegisterCluster, MeshInv, CopiesCurrent
    <3>2. Store(ClusterOf[a], new) /\ new \in ClusterObject
      BY <1>3, <2>2, <3>1 DEF RegisterCluster, ClusterObject
    <3> HIDE DEF new
    <3> QED
      BY <1>1, <2>2, <3>2
  <2>3. CASE fresh[a] /\ Mine(a) # NoCluster
    <3>1. copy[a] = Mine(a)
      BY <1>3, <2>3 DEF RegisterCluster, MeshInv, CopiesCurrent
    <3>2. Store(ClusterOf[a], copy[a])
      BY <1>3, <2>3, <3>1 DEF RegisterCluster
    <3>3. copy[a] \in ClusterObject
      BY <2>3, <3>1 DEF MeshInv, MeshTypeOK, Stored
    <3> QED
      BY <1>1, <3>1, <3>2, <3>3
  <2> QED
    BY <2>1, <2>2, <2>3
<1>4. ASSUME NEW a \in Agents, UpdateClusterStatus(a)
      PROVE  StatusKept
  <2>1. CASE local' = local
    BY <1>2, <2>1
  <2>2. CASE local' # local
    <3> DEFINE obj == [copy[a] EXCEPT !.endpoints = found[a]]
    <3>1. step[a] = "put" /\ fresh[a] /\ Store(ClusterOf[a], obj)
      BY <1>4, <2>2 DEF UpdateClusterStatus, NotStored
    <3>2. copy[a] = Mine(a) /\ copy[a] \in ClusterObject /\ found[a] \in SUBSET Nodes
      <4>1. copy[a] = Mine(a) /\ Mine(a) # NoCluster
        BY <3>1 DEF MeshInv, CopiesCurrent, LoopsRegistered
      <4> QED
        BY <4>1 DEF MeshInv, MeshTypeOK, Stored
    <3>3. obj \in ClusterObject /\ obj.phase = copy[a].phase /\ obj.endpoints = found[a]
      BY <3>2, ClusterEdits
    <3> HIDE DEF obj
    <3> QED
      BY <1>1, <3>1, <3>2, <3>3
  <2> QED
    BY <2>1, <2>2
<1>5. ASSUME NEW a \in Agents, UpdateHeartbeat(a)
      PROVE  StatusKept
  <2>1. CASE ~beatFresh[a]
    BY <1>2, <1>5, <2>1 DEF UpdateHeartbeat, NotStored
  <2>2. CASE beatFresh[a]
    <3>1. beat[a] = ToWrite(Mine(a)) /\ Store(ClusterOf[a], beat[a])
      BY <1>5, <2>2 DEF UpdateHeartbeat, MeshInv, CopiesCurrent
    <3>2. Mine(a) \in ClusterObject
      BY <1>5, MeshAssumption
      DEF UpdateHeartbeat, MeshInv, MeshTypeOK, LoopsRegistered, Stored, Mine
    <3>3. /\ beat[a] \in ClusterObject /\ beat[a].phase = "Ready"
          /\ beat[a].endpoints = Mine(a).endpoints
      BY <3>1, <3>2, ClusterEdits
    <3> QED
      BY <1>1, <3>1, <3>3
  <2> QED
    BY <2>1, <2>2
<1>6. ASSUME NEW a \in Agents,
             \/ StartAgent(a) \/ CollectEndpoints(a) \/ GetCluster(a)
             \/ RefreshLocalCluster(a) \/ GetRemoteClusters(a)
             \/ \E n \in Nodes : ConfigureNode(a, n)
             \/ GetForHeartbeat(a) \/ CallFails(a) \/ AgentStops(a)
      PROVE  local' = local
  BY <1>6
  DEF StartAgent, CollectEndpoints, GetCluster, RefreshLocalCluster, GetRemoteClusters,
      ConfigureNode, GetForHeartbeat, CallFails, AgentStops
<1>7. ASSUME \/ \E c \in Clusters :
                  ExportCluster(c) \/ \E d \in Clusters : ImportCluster(c, d)
             \/ \E n \in Nodes : NodeChanges(n)
      PROVE  local' = local
  BY <1>7 DEF ExportCluster, ImportCluster, NodeChanges
<1> QED
  BY <1>2, <1>3, <1>4, <1>5, <1>6, <1>7 DEF MeshNext, ReconcileStep

(* However many agents write a Cluster object, from both of their loops    *)
(* and across restarts: endpoints change only to what a reconcile of that  *)
(* cluster collected, Ready never falls back to Pending, and a             *)
(* registration is never lost.                                             *)
THEOREM ClusterStatusIsKept == MeshSpec => ClusterStatusKept
<1>1. MeshInit => MeshInv
  BY MeshInitially
<1>2. MeshInv /\ [MeshNext]_vars => MeshInv'
  BY MeshInductive
<1>3. MeshInv /\ [MeshNext]_vars => [StatusKept]_vars
  BY StepOnClusters
<1> QED
  BY <1>1, <1>2, <1>3, PTL DEF MeshSpec, ClusterStatusKept
=============================================================================
