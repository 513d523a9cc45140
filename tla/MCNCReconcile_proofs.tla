------------------------ MODULE MCNCReconcile_proofs ------------------------
(***************************************************************************)
(* What the informer's cache, the work queue and a reconcile in progress   *)
(* have to do with the MCNC on the API server, whatever users write in the *)
(* meantime. The proofs about what a connected MCNC has and what a deleted *)
(* one leaves behind rest on it.                                           *)
(***************************************************************************)
EXTENDS MCNCController_proofs

(* A version of an MCNC whose reader may act for it: it had its finalizer, *)
(* and nobody had deleted it.                                              *)
Live(obj) == obj # NoConnect /\ obj.finalizer /\ ~obj.deleting

(* The cache has a spec that a user wrote, and no MCNC that is Live in it  *)
(* has gone in the meantime.                                               *)
CacheInv ==
  \A m \in Connects :
    /\ cached[m] => cache[m] = mcnc[m]
    /\ mcnc[m] # NoConnect => mcnc[m].spec \in Specs[m]
    /\ cache[m] # NoConnect => cache[m].spec \in Specs[m]
    /\ Live(cache[m]) => Guarded(m)

QueueInv == \A a \in Agents : \A m \in queue[a] : AgentOf[m] = a

(* An object in a reconcile's hands is of an MCNC of the agent's own       *)
(* cluster, and cannot go while it is Live there; with the current         *)
(* resourceVersion it is the MCNC, and in the cache as well.               *)
HeldInv ==
  \A a \in Agents :
    /\ step[a] = "idle" => item[a] = NoConnect /\ ~heldFresh[a]
    /\ step[a] # "idle" =>
         /\ AgentOf[item[a]] = a
         /\ held[a].spec \in Specs[item[a]]
         /\ heldFresh[a] => cached[item[a]] /\ held[a] = mcnc[item[a]]
         /\ Live(held[a]) => Guarded(item[a])

(* reconcileMCNC works for a Live MCNC only, handleDelete for a deleted    *)
(* one, and each waits for a call of the manager of its own kind.          *)
ConnectPath == {"namespace", "network", "patch", "create", "advertise", "status", "error"}
DeletePath == {"unadvertise", "deleteCudn", "leave", "release"}

PathInv ==
  \A a \in Agents :
    /\ step[a] \in ConnectPath => Live(held[a])
    /\ step[a] \in DeletePath => held[a].deleting
    /\ step[a] = "finalizer" => ~held[a].deleting
    /\ step[a] = "release" => NetworkToLeave(held[a].spec) = NoName
    /\ step[a] = "network" =>
         pc[a] \in {"get", "list", "create", "reget", "join", "joined", "failed"}
    /\ step[a] = "leave" =>
         /\ pc[a] \in {"leaveGet", "leave", "left", "failed"}
         /\ net[a] = NetworkToLeave(held[a].spec) /\ net[a] # NoName

ReconcileInv == CacheInv /\ QueueInv /\ HeldInv /\ PathInv

-----------------------------------------------------------------------------
(* Steps that leave an MCNC's readers alone, or move a reconcile on *)

LEMMA ReadersUntouched ==
  ASSUME ReconcileInv, UNCHANGED <<mcnc, cache, cached, queue, step, item, held, heldFresh>>,
         UNCHANGED <<pc, net>>
  PROVE  ReconcileInv'
BY DEF ReconcileInv, CacheInv, QueueInv, HeldInv, PathInv, Guarded, Exists

(* A reconcile that goes on to another step of its path.                   *)
LEMMA GotoKeepsPath ==
  ASSUME ControllerInv, ReconcileInv, NEW a \in Agents, NEW s \in ReconcileSteps,
         Goto(a, s), UNCHANGED <<userVars, cacheVars>>, step[a] # "idle",
         net' \in [Agents -> Networks],
         \A b \in Agents \ {a} : pc'[b] = pc[b] /\ net'[b] = net[b],
         s \notin {"finalizer", "release"},
         s \in ConnectPath => step[a] \in ConnectPath,
         s \in DeletePath => step[a] \in DeletePath,
         s = "network" => pc'[a] = "get",
         s = "leave" => /\ pc'[a] = "leaveGet"
                        /\ net'[a] = NetworkToLeave(held[a].spec) /\ net'[a] # NoName
  PROVE  ReconcileInv'
<1>1. UNCHANGED <<mcnc, cache, cached, queue, item, held, heldFresh>>
  BY DEF Goto, userVars, cacheVars
<1>2. step'[a] = s /\ \A b \in Agents \ {a} : step'[b] = step[b]
  BY DEF Goto, ControllerInv, ConnectTypeOK
<1>3. CacheInv' /\ QueueInv'
  BY <1>1 DEF ReconcileInv, CacheInv, QueueInv, Guarded, Exists
<1>4. s # "idle"
  BY DEF ReconcileSteps
<1>5. HeldInv'
  BY <1>1, <1>2, <1>4 DEF ReconcileInv, HeldInv, Guarded, Exists
<1>6. PathInv'
  BY <1>1, <1>2 DEF ReconcileInv, PathInv
<1> QED
  BY <1>3, <1>5, <1>6 DEF ReconcileInv

LEMMA CheckNamespaceKeepsPath ==
  ASSUME ControllerInv, ReconcileInv, NEW a \in Agents, CheckNamespace(a)
  PROVE  ReconcileInv'
<1>1. step[a] = "namespace" /\ UNCHANGED <<userVars, cacheVars>>
  BY DEF CheckNamespace
<1>2. CASE Goto(a, "error") /\ UNCHANGED mcnVars
  BY <1>1, <1>2, GotoKeepsPath
  DEF ReconcileSteps, ConnectPath, DeletePath, mcnVars, ControllerInv, ManagerInv, TypeOK
<1>3. CASE /\ NetworkToJoin(Wanted(a)) # NoName
           /\ CreateOrJoinMCN(a, NetworkToJoin(Wanted(a)), TopologyToJoin(Wanted(a)))
           /\ Goto(a, "network")
  <2> DEFINE n == NetworkToJoin(held[a].spec)
  <2>1. n \in Networks
    BY <1>1, <1>3, SpecNames
    DEF Wanted, ControllerInv, CallerInv, HeldFitsStep, Connect
  <2>2. pc' = [pc EXCEPT ![a] = "get"] /\ net' = [net EXCEPT ![a] = n]
    BY <1>3 DEF CreateOrJoinMCN, Wanted
  <2> HIDE DEF n
  <2> QED
    BY <1>1, <1>3, <2>1, <2>2, GotoKeepsPath
    DEF ReconcileSteps, ConnectPath, DeletePath, ControllerInv, ManagerInv, TypeOK
<1> QED
  BY <1>2, <1>3 DEF CheckNamespace

(* The manager's steps stay within one of its operations.                  *)
LEMMA ManagerStepKeepsOperation ==
  ASSUME TypeOK, NEW a \in Agents, ManagerStep(a)
  PROVE  /\ pc[a] \in {"get", "list", "create", "reget", "join"} =>
              pc'[a] \in {"list", "create", "reget", "join", "joined", "failed"}
         /\ pc[a] \in {"leaveGet", "leave"} => pc'[a] \in {"leave", "left", "failed"}
         /\ pc[a] \in CallSteps
BY DEF ManagerStep, GetMCN, ReGetMCN, JoinExistingMCN, AllocateVNI, CreateMCN, JoinMCN,
       GetMCNToLeave, RemoveFinalizer, CallFails, Replies, CallSteps, TypeOK

LEMMA ManagerStepKeepsPath ==
  ASSUME ControllerInv, ReconcileInv, NEW a \in Agents, step[a] \in {"network", "leave"},
         ManagerStep(a), UNCHANGED ctlVars
  PROVE  ReconcileInv'
<1>1. UNCHANGED <<mcnc, cache, cached, queue, step, item, held, heldFresh>>
  BY DEF ctlVars
<1>2. net' = net /\ \A b \in Agents \ {a} : pc'[b] = pc[b]
  BY ManagerStepIsLocal DEF ControllerInv, ManagerInv
<1>3. CacheInv' /\ QueueInv' /\ HeldInv'
  BY <1>1 DEF ReconcileInv, CacheInv, QueueInv, HeldInv, Guarded, Exists
<1>4. PathInv'
  BY <1>1, <1>2, ManagerStepKeepsOperation
  DEF ReconcileInv, PathInv, CallSteps, ControllerInv, ManagerInv
<1> QED
  BY <1>3, <1>4 DEF ReconcileInv

(* The steps that look at or change CUDNs and RouteAdvertisements.         *)
LEMMA EffectKeepsPath ==
  ASSUME ControllerInv, ReconcileInv, NEW a \in Agents,
         GetCudn(a) \/ PatchCudn(a) \/ CreateCudn(a) \/ CreateForCUDN(a)
  PROVE  ReconcileInv'
<1>1. /\ step[a] \in {"network", "patch", "create", "advertise"}
      /\ UNCHANGED <<mcnVars, userVars, cacheVars>>
  BY DEF GetCudn, PatchCudn, CreateCudn, CreateForCUDN
<1>2. \E s \in {"error", "patch", "create", "advertise", "status"} : Goto(a, s)
  BY AfterGetCudnSteps DEF GetCudn, PatchCudn, CreateCudn, CreateForCUDN, EffectThen
<1> QED
  BY <1>1, <1>2, GotoKeepsPath
  DEF ReconcileSteps, ConnectPath, DeletePath, mcnVars, ControllerInv, ManagerInv, TypeOK

LEMMA StartLeaveKeepsPath ==
  ASSUME ControllerInv, ReconcileInv, NEW a \in Agents,
         step[a] \in {"unadvertise", "deleteCudn"}, StartLeave(a),
         UNCHANGED <<userVars, cacheVars>>
  PROVE  ReconcileInv'
<1> DEFINE n == NetworkToLeave(held[a].spec)
<1>1. n \in Networks /\ n # NoName
  BY SpecNames DEF ControllerInv, CallerInv, HeldFitsStep, Connect
<1>2. /\ pc' = [pc EXCEPT ![a] = "leaveGet"] /\ net' = [net EXCEPT ![a] = n]
      /\ Goto(a, "leave")
  BY DEF StartLeave, LeaveMCN, Wanted
<1> HIDE DEF n
<1> QED
  BY <1>1, <1>2, GotoKeepsPath
  DEF n, ReconcileSteps, ConnectPath, DeletePath, ControllerInv, ManagerInv, TypeOK

LEMMA CleanupKeepsPath ==
  ASSUME ControllerInv, ReconcileInv, NEW a \in Agents, DeleteForCUDN(a) \/ DeleteCudn(a)
  PROVE  ReconcileInv'
<1>1. step[a] \in {"unadvertise", "deleteCudn"} /\ UNCHANGED <<userVars, cacheVars>>
  BY DEF DeleteForCUDN, DeleteCudn
<1>2. StartLeave(a) \/ (Goto(a, "deleteCudn") /\ UNCHANGED mcnVars)
  BY DEF DeleteForCUDN, DeleteCudn
<1>3. CASE Goto(a, "deleteCudn") /\ UNCHANGED mcnVars
  BY <1>1, <1>3, GotoKeepsPath
  DEF ReconcileSteps, ConnectPath, DeletePath, mcnVars, ControllerInv, ManagerInv, TypeOK
<1> QED
  BY <1>1, <1>2, <1>3, StartLeaveKeepsPath
-----------------------------------------------------------------------------
(* Steps that end a reconcile *)

(* What a reconcile may write in place of the object in its hands.         *)
NextVersion(old, new) ==
  \/ new = NoConnect /\ old.deleting
  \/ /\ new \in Connect /\ new.spec = old.spec /\ new.deleting = old.deleting
     /\ old.finalizer => new.finalizer

EndsWith(a, again) ==
  /\ step[a] # "idle" /\ Finish(a, again)
  /\ Forget(a) \/ UNCHANGED mcnVars
  /\ UNCHANGED <<writes, cache, localVars>>
  /\ \/ UNCHANGED <<mcnc, cached>>
     \/ heldFresh[a] /\ \E new : WriteConnect(item[a], new) /\ NextVersion(held[a], new)

(* UpdateOutcomes lets only a current object be written.                   *)
LEMMA OutcomesAreFresh ==
  ASSUME NEW a \in Agents, NEW o \in UpdateOutcomes(a), o # "refused"
  PROVE  heldFresh[a]
BY DEF UpdateOutcomes

LEMMA SetPhaseIsNextVersion ==
  ASSUME NEW a \in Agents, held[a] \in Connect, NEW p \in {"Connected", "Error"},
         NEW o \in UpdateOutcomes(a), SetPhase(a, p, o)
  PROVE  \/ UNCHANGED <<mcnc, cached>>
         \/ heldFresh[a] /\ \E new : WriteConnect(item[a], new) /\ NextVersion(held[a], new)
<1> DEFINE new == [held[a] EXCEPT !.phase = p]
<1>1. NextVersion(held[a], new)
  BY ConnectEdits DEF NextVersion, Connect
<1>2. UNCHANGED <<mcnc, cached>> \/ (heldFresh[a] /\ WriteConnect(item[a], new))
  BY OutcomesAreFresh DEF SetPhase
<1> HIDE DEF new
<1> QED
  BY <1>1, <1>2

LEMMA EndingSteps ==
  ASSUME ControllerInv, ReconcileInv, NEW a \in Agents,
         \/ AddFinalizer(a) \/ SetConnected(a) \/ SetError(a)
         \/ RemoveConnectFinalizer(a)
  PROVE  \E again \in BOOLEAN : EndsWith(a, again)
<1>1. step[a] # "idle"
  BY DEF AddFinalizer, SetConnected, SetError, RemoveConnectFinalizer
<1>2. held[a] \in Connect
  BY <1>1 DEF ControllerInv, CallerInv, HeldFitsStep
<1>3. CASE AddFinalizer(a)
  <2> DEFINE new == [held[a] EXCEPT !.finalizer = TRUE]
  <2>1. NextVersion(held[a], new)
    BY <1>2, ConnectEdits DEF NextVersion, Connect
  <2>2. \/ UNCHANGED <<mcnc, cached>>
        \/ heldFresh[a] /\ WriteConnect(item[a], new)
    BY <1>3, OutcomesAreFresh DEF AddFinalizer
  <2>3. Finish(a, TRUE) /\ UNCHANGED <<mcnVars, writes, cache, localVars>>
    BY <1>3 DEF AddFinalizer
  <2> HIDE DEF new
  <2> QED
    BY <1>1, <2>1, <2>2, <2>3 DEF EndsWith
<1>4. CASE SetConnected(a)
  <2>1. PICK o \in UpdateOutcomes(a) :
          SetPhase(a, "Connected", o) /\ Finish(a, o # "written" \/ ~StatusSubresource)
    BY <1>4 DEF SetConnected
  <2>2. (o # "written" \/ ~StatusSubresource) \in BOOLEAN
    OBVIOUS
  <2>3. Forget(a) /\ UNCHANGED <<writes, cache, localVars>>
    BY <1>4 DEF SetConnected
  <2> QED
    BY <1>1, <1>2, <2>1, <2>2, <2>3, SetPhaseIsNextVersion DEF EndsWith
<1>5. CASE SetError(a)
  <2>1. PICK o \in UpdateOutcomes(a) : SetPhase(a, "Error", o)
    BY <1>5 DEF SetError
  <2>2. Finish(a, TRUE) /\ Forget(a) /\ UNCHANGED <<writes, cache, localVars>>
    BY <1>5 DEF SetError
  <2> QED
    BY <1>1, <1>2, <2>1, <2>2, SetPhaseIsNextVersion DEF EndsWith
<1>6. CASE RemoveConnectFinalizer(a)
  <2>1. step[a] \in DeletePath /\ Forget(a) /\ UNCHANGED <<writes, cache, localVars>>
    BY <1>6 DEF RemoveConnectFinalizer, DeletePath
  <2>2. PICK o \in UpdateOutcomes(a) :
          /\ IF o = "refused" THEN UNCHANGED <<mcnc, cached>>
                              ELSE WriteConnect(item[a], NoConnect)
          /\ Finish(a, o # "written")
    BY <1>6 DEF RemoveConnectFinalizer
  <2>3. held[a].deleting
    BY <2>1 DEF ReconcileInv, PathInv
  <2>4. NextVersion(held[a], NoConnect)
    BY <2>3 DEF NextVersion
  <2>5. (o # "written") \in BOOLEAN
    OBVIOUS
  <2> QED
    BY <1>1, <2>1, <2>2, <2>4, <2>5, OutcomesAreFresh DEF EndsWith
<1> QED
  BY <1>3, <1>4, <1>5, <1>6

(* Whatever the ending reconcile writes, an MCNC that is Live in the cache *)
(* or in a reconcile's hands keeps its finalizer.                          *)
LEMMA EndKeepsReaders ==
  ASSUME ControllerInv, ReconcileInv, NEW a \in Agents, NEW again \in BOOLEAN,
         EndsWith(a, again)
  PROVE  ReconcileInv'
<1> DEFINE m == item[a]
<1>1. /\ m \in Connects /\ held[a] \in Connect /\ AgentOf[m] = a
      /\ held[a].spec \in Specs[m]
  BY DEF EndsWith, ControllerInv, CallerInv, HeldFitsStep, ReconcileInv, HeldInv
<1>2. /\ step'[a] = "idle" /\ item'[a] = NoConnect /\ ~heldFresh'[a]
      /\ \A b \in Agents \ {a} : /\ step'[b] = step[b] /\ item'[b] = item[b]
                                  /\ held'[b] = held[b] /\ heldFresh'[b] = heldFresh[b]
                                  /\ queue'[b] = queue[b]
      /\ queue'[a] \subseteq queue[a] \cup {m}
      /\ cache' = cache
  BY DEF EndsWith, Finish, ControllerInv, ConnectTypeOK
<1>3. net' = net /\ \A b \in Agents \ {a} : pc'[b] = pc[b]
  BY ForgetIsLocal DEF EndsWith, mcnVars, ControllerInv, ManagerInv
<1>4. /\ \A k \in Connects \ {m} : mcnc'[k] = mcnc[k] /\ cached'[k] = cached[k]
      /\ \/ mcnc'[m] = mcnc[m] /\ cached'[m] = cached[m]
         \/ /\ cached[m] /\ held[a] = mcnc[m] /\ ~cached'[m]
            /\ NextVersion(mcnc[m], mcnc'[m])
  BY <1>1 DEF EndsWith, WriteConnect, ControllerInv, ConnectTypeOK, ReconcileInv, HeldInv
<1> HIDE DEF m
<1>5. \A b \in Agents \ {a} : step[b] # "idle" => item[b] # m /\ item[b] \in Connects
  BY <1>1 DEF ReconcileInv, HeldInv, ControllerInv, CallerInv, HeldFitsStep
<1>6. CacheInv'
  <2> SUFFICES ASSUME NEW k \in Connects
               PROVE  /\ cached'[k] => cache'[k] = mcnc'[k]
                      /\ mcnc'[k] # NoConnect => mcnc'[k].spec \in Specs[k]
                      /\ cache'[k] # NoConnect => cache'[k].spec \in Specs[k]
                      /\ Live(cache'[k]) => mcnc'[k] # NoConnect /\ mcnc'[k].finalizer
    BY DEF CacheInv, Live, Guarded, Exists
  <2>1. CASE k # m \/ (mcnc'[m] = mcnc[m] /\ cached'[m] = cached[m])
    BY <1>2, <1>4, <2>1 DEF ReconcileInv, CacheInv, Live, Guarded, Exists
  <2>2. CASE k = m /\ NextVersion(mcnc[m], mcnc'[m]) /\ cached[m] /\ ~cached'[m]
                   /\ held[a] = mcnc[m]
    BY <1>1, <1>2, <2>2, ControllerAssumption
    DEF ReconcileInv, CacheInv, NextVersion, Live, Guarded, Exists
  <2> QED
    BY <1>4, <2>1, <2>2
<1>7. QueueInv'
  BY <1>1, <1>2 DEF ReconcileInv, QueueInv
<1>8. HeldInv' /\ PathInv'
  <2> SUFFICES ASSUME NEW b \in Agents \ {a}, step[b] # "idle"
               PROVE  /\ mcnc'[item[b]] = mcnc[item[b]] /\ cached'[item[b]] = cached[item[b]]
    BY <1>2, <1>3
    DEF ReconcileInv, HeldInv, PathInv, ConnectPath, DeletePath, Guarded, Exists
  <2> QED
    BY <1>4, <1>5
<1> QED
  BY <1>6, <1>7, <1>8 DEF ReconcileInv
-----------------------------------------------------------------------------
(* The informer, the queue and a new reconcile *)

LEMMA FirstStepOnPath ==
  ASSUME NEW obj
  PROVE  /\ FirstStep(obj) \in {"release", "unadvertise", "finalizer", "namespace"}
         /\ FirstStep(obj) = "namespace" => obj.finalizer /\ ~obj.deleting
         /\ FirstStep(obj) \in {"release", "unadvertise"} => obj.deleting
         /\ FirstStep(obj) = "finalizer" => ~obj.deleting
         /\ FirstStep(obj) = "release" => NetworkToLeave(obj.spec) = NoName
BY DEF FirstStep

LEMMA ReconcileKeepsReaders ==
  ASSUME ControllerInv, ReconcileInv, NEW a \in Agents, NEW m \in Connects, Reconcile(a, m)
  PROVE  ReconcileInv'
<1>1. /\ UNCHANGED <<mcnc, cache, cached, pc, net>>
      /\ m \in queue[a] /\ AgentOf[m] = a
      /\ \A b \in Agents : queue'[b] \subseteq queue[b]
  BY DEF Reconcile, mcnVars, userVars, cacheVars, ReconcileInv, QueueInv, ControllerInv,
         ConnectTypeOK
<1>2. CacheInv' /\ QueueInv'
  BY <1>1 DEF ReconcileInv, CacheInv, QueueInv, Guarded, Exists
<1>3. CASE cache[m] = NoConnect
  <2>1. UNCHANGED workVars
    BY <1>3 DEF Reconcile
  <2> QED
    BY <1>1, <1>2, <2>1 DEF workVars, ReconcileInv, HeldInv, PathInv, Guarded, Exists
<1>4. CASE cache[m] # NoConnect
  <2>1. /\ item'[a] = m /\ step'[a] = FirstStep(cache[m])
        /\ held'[a] = cache[m] /\ heldFresh'[a] = cached[m]
        /\ \A b \in Agents \ {a} : /\ step'[b] = step[b] /\ item'[b] = item[b]
                                    /\ held'[b] = held[b] /\ heldFresh'[b] = heldFresh[b]
    BY <1>4 DEF Reconcile, ControllerInv, ConnectTypeOK
  <2>2. HeldInv'
    <3>1. /\ cache[m].spec \in Specs[m] /\ (cached[m] => cache[m] = mcnc[m])
          /\ Live(cache[m]) => Guarded(m)
      BY <1>4 DEF ReconcileInv, CacheInv
    <3> QED
      BY <1>1, <2>1, <3>1, FirstStepOnPath DEF ReconcileInv, HeldInv, Guarded, Exists
  <2>3. PathInv'
    <3> SUFFICES ASSUME NEW b \in Agents
                 PROVE  /\ step'[b] \in ConnectPath => Live(held'[b])
                        /\ step'[b] \in DeletePath => held'[b].deleting
                        /\ step'[b] = "finalizer" => ~held'[b].deleting
                        /\ step'[b] = "release" => NetworkToLeave(held'[b].spec) = NoName
                        /\ step'[b] = "network" =>
                             pc'[b] \in {"get", "list", "create", "reget", "join", "joined",
                                         "failed"}
                        /\ step'[b] = "leave" =>
                             /\ pc'[b] \in {"leaveGet", "leave", "left", "failed"}
                             /\ net'[b] = NetworkToLeave(held'[b].spec) /\ net'[b] # NoName
      BY DEF PathInv
    <3>1. CASE b = a
      BY <1>4, <2>1, <3>1, FirstStepOnPath DEF ConnectPath, DeletePath, Live
    <3>2. CASE b # a
      BY <1>1, <2>1, <3>2 DEF ReconcileInv, PathInv
    <3> QED
      BY <3>1, <3>2
  <2> QED
    BY <1>2, <2>2, <2>3 DEF ReconcileInv
<1> QED
  BY <1>3, <1>4

LEMMA WatchKeepsReaders ==
  ASSUME ControllerInv, ReconcileInv, NEW m \in Connects, WatchEvent(m)
  PROVE  ReconcileInv'
<1>1. /\ UNCHANGED <<mcnc, step, item, held, heldFresh, pc, net>>
      /\ cache' = [cache EXCEPT ![m] = mcnc[m]] /\ cached' = [cached EXCEPT ![m] = TRUE]
      /\ queue' = [queue EXCEPT ![AgentOf[m]] = @ \cup {m}]
  BY DEF WatchEvent, mcnVars, userVars, workVars
<1>2. CacheInv' /\ QueueInv'
  BY <1>1 DEF ReconcileInv, CacheInv, QueueInv, Live, Guarded, Exists, ControllerInv,
              ConnectTypeOK
<1>3. HeldInv' /\ PathInv'
  BY <1>1 DEF ReconcileInv, HeldInv, PathInv, Guarded, Exists, ControllerInv, ConnectTypeOK,
              CallerInv, HeldFitsStep
<1> QED
  BY <1>2, <1>3 DEF ReconcileInv

LEMMA ResyncKeepsReaders ==
  ASSUME ControllerInv, ReconcileInv, NEW a \in Agents, Resync(a)
  PROVE  ReconcileInv'
<1>1. /\ UNCHANGED <<mcnc, cache, cached, step, item, held, heldFresh, pc, net>>
      /\ queue' = [queue EXCEPT ![a] =
           @ \cup {m \in Connects : AgentOf[m] = a /\ cache[m] # NoConnect}]
  BY DEF Resync, mcnVars, userVars, cacheVars, workVars
<1>2. QueueInv'
  BY <1>1 DEF ReconcileInv, QueueInv, ControllerInv, ConnectTypeOK
<1> QED
  BY <1>1, <1>2 DEF ReconcileInv, CacheInv, HeldInv, PathInv, Guarded, Exists

LEMMA RestartKeepsReaders ==
  ASSUME ControllerInv, ReconcileInv, NEW a \in Agents, Restart(a)
  PROVE  ReconcileInv'
<1>1. /\ step'[a] = "idle" /\ item'[a] = NoConnect /\ ~heldFresh'[a]
      /\ \A b \in Agents \ {a} : /\ step'[b] = step[b] /\ item'[b] = item[b]
                                  /\ held'[b] = held[b] /\ heldFresh'[b] = heldFresh[b]
                                  /\ queue'[b] = queue[b]
      /\ queue'[a] = {m \in Connects : AgentOf[m] = a /\ mcnc[m] # NoConnect}
      /\ mcnc' = mcnc
  BY DEF Restart, userVars, ControllerInv, ConnectTypeOK
<1>2. \A m \in Connects :
        IF AgentOf[m] = a THEN cache'[m] = mcnc[m] /\ cached'[m]
                          ELSE cache'[m] = cache[m] /\ cached'[m] = cached[m]
  BY DEF Restart, ControllerInv, ConnectTypeOK
<1>3. net' = net /\ \A b \in Agents \ {a} : pc'[b] = pc[b]
  BY ForgetIsLocal DEF Restart, ControllerInv, ManagerInv
<1>4. CacheInv' /\ QueueInv'
  BY <1>1, <1>2 DEF ReconcileInv, CacheInv, QueueInv, Live, Guarded, Exists
<1>5. HeldInv'
  BY <1>1, <1>2 DEF ReconcileInv, HeldInv, Guarded, Exists, ControllerInv, CallerInv,
                    HeldFitsStep
<1>6. PathInv'
  BY <1>1, <1>3 DEF ReconcileInv, PathInv, ConnectPath, DeletePath
<1> QED
  BY <1>4, <1>5, <1>6 DEF ReconcileInv

-----------------------------------------------------------------------------
(* Users *)

(* A user's write of m keeps its finalizer, unless nobody has acted for it.*)
LEMMA UserWriteKeepsReaders ==
  ASSUME ControllerInv, ReconcileInv, NEW m \in Connects, NEW obj, UserWrites(m, obj),
         obj # NoConnect => obj.spec \in Specs[m],
         Guarded(m) => obj # NoConnect /\ obj.finalizer
  PROVE  ReconcileInv'
<1>1. /\ UNCHANGED <<cache, queue, step, item, held, pc, net>>
      /\ mcnc' = [mcnc EXCEPT ![m] = obj] /\ cached' = [cached EXCEPT ![m] = FALSE]
      /\ heldFresh' = [a \in Agents |-> heldFresh[a] /\ item[a] # m]
  BY DEF UserWrites, WriteConnect, mcnVars
<1>2. \A k \in Connects : Guarded(k) => Guarded(k)'
  BY <1>1 DEF Guarded, Exists, ControllerInv, ConnectTypeOK
<1>3. CacheInv' /\ QueueInv'
  BY <1>1, <1>2 DEF ReconcileInv, CacheInv, QueueInv, Live, ControllerInv, ConnectTypeOK
<1>4. HeldInv' /\ PathInv'
  <2>1. \A a \in Agents : step[a] # "idle" => item[a] \in Connects
    BY DEF ControllerInv, CallerInv, HeldFitsStep
  <2> QED
    BY <1>1, <1>2, <2>1
    DEF ReconcileInv, HeldInv, PathInv, Live, Guarded, Exists, ControllerInv, ConnectTypeOK
<1> QED
  BY <1>3, <1>4 DEF ReconcileInv

LEMMA UsersKeepReaders ==
  ASSUME ControllerInv, ReconcileInv, NEW m \in Connects,
         CreateConnect(m) \/ EditConnect(m) \/ DeleteConnect(m)
  PROVE  ReconcileInv'
<1>0. mcnc[m] # NoConnect => mcnc[m] \in Connect /\ mcnc[m].spec \in Specs[m]
  BY DEF ControllerInv, ConnectTypeOK, ReconcileInv, CacheInv
<1>1. CASE CreateConnect(m)
  BY <1>1, UserWriteKeepsReaders DEF CreateConnect, Guarded, Exists
<1>2. CASE EditConnect(m)
  <2>1. PICK s \in Specs[m] : UserWrites(m, [mcnc[m] EXCEPT !.spec = s])
    BY <1>2 DEF EditConnect
  <2> DEFINE obj == [mcnc[m] EXCEPT !.spec = s]
  <2>2. obj.spec = s /\ obj # NoConnect /\ obj.finalizer = mcnc[m].finalizer
    <3>1. mcnc[m] \in Connect /\ s \in ConnectSpec
      BY <1>0, <1>2, ControllerAssumption DEF EditConnect
    <3>2. obj \in Connect /\ obj.spec = s /\ obj.finalizer = mcnc[m].finalizer
      BY <3>1 DEF Connect
    <3> HIDE DEF obj
    <3> QED
      BY <3>2, ControllerAssumption
  <2>3. UserWrites(m, obj)
    BY <2>1
  <2> HIDE DEF obj
  <2> QED
    BY <2>2, <2>3, UserWriteKeepsReaders DEF Guarded
<1>3. CASE DeleteConnect(m)
  <2> DEFINE obj == IF mcnc[m].finalizer THEN [mcnc[m] EXCEPT !.deleting = TRUE]
                                         ELSE NoConnect
  <2>1. mcnc[m] \in Connect /\ mcnc[m].spec \in Specs[m]
    BY <1>0, <1>3 DEF DeleteConnect
  <2>2. mcnc[m].finalizer => obj # NoConnect /\ obj.finalizer /\ obj.spec = mcnc[m].spec
    <3>1. mcnc[m].finalizer => /\ obj \in Connect /\ obj.spec = mcnc[m].spec
                               /\ obj.finalizer
      BY <2>1 DEF Connect
    <3> HIDE DEF obj
    <3> QED
      BY <3>1, ControllerAssumption
  <2>3. ~mcnc[m].finalizer => obj = NoConnect
    OBVIOUS
  <2>4. UserWrites(m, obj)
    BY <1>3 DEF DeleteConnect
  <2> HIDE DEF obj
  <2> QED
    BY <2>1, <2>2, <2>3, <2>4, UserWriteKeepsReaders DEF Guarded
<1> QED
  BY <1>1, <1>2, <1>3

-----------------------------------------------------------------------------
(* The invariant *)

LEMMA ReconcileInductive ==
  ControllerInv /\ ReconcileInv /\ [ControllerNext]_vars => ReconcileInv'
<1> SUFFICES ASSUME ControllerInv, ReconcileInv, [ControllerNext]_vars PROVE ReconcileInv'
  OBVIOUS
<1>1. ASSUME NEW a \in Agents, ReconcileStep(a) PROVE ReconcileInv'
  BY <1>1, EndingSteps, EndKeepsReaders, CheckNamespaceKeepsPath, ManagerStepKeepsPath,
     EffectKeepsPath, CleanupKeepsPath
  DEF ReconcileStep
<1>2. ASSUME NEW a \in Agents, NEW u \in Cudns, ChangeUserCudn(a, u) \/ CudnReleased(a, u)
      PROVE  ReconcileInv'
  BY <1>2, ReadersUntouched
  DEF ChangeUserCudn, CudnReleased, mcnVars, userVars, cacheVars, workVars
<1>3. ASSUME NEW n \in Networks, AdminDeletesMCN(n) PROVE ReconcileInv'
  BY <1>3, ReadersUntouched DEF AdminDeletesMCN, DeleteMCN, ctlVars
<1>4. CASE UNCHANGED vars
  BY <1>4, ReadersUntouched DEF vars, mcnVars, ctlVars
<1> QED
  BY <1>1, <1>2, <1>3, <1>4, ReconcileKeepsReaders, WatchKeepsReaders, ResyncKeepsReaders,
     RestartKeepsReaders, UsersKeepReaders
  DEF ControllerNext

(* What a reconcile acts on: the agent never works for an MCNC that has    *)
(* gone or was never given its finalizer, never cleans up after one that   *)
(* nobody deleted, and writes back only what is still the current version. *)
THEOREM ReconcileInvariant == ControllerSpec => []ReconcileInv
<1>1. ControllerInit => ReconcileInv
  BY DEF ControllerInit, ReconcileInv, CacheInv, QueueInv, HeldInv, PathInv, Live,
         ConnectPath, DeletePath
<1>2. ControllerInv /\ ReconcileInv /\ [ControllerNext]_vars => ReconcileInv'
  BY ReconcileInductive
<1> QED
  BY <1>1, <1>2, ControllerInvariant, PTL DEF ControllerSpec
=============================================================================
