--------------------------- MODULE MCNCController ---------------------------
(***************************************************************************)
(* The MultiClusterNetworkConnect (MCNC) controller of the skynet-agents   *)
(* (pkg/agent/controller), with the CUDN integrator and the                *)
(* RouteAdvertisement creator it calls (pkg/agent/cudn, pkg/agent/routeadv) *)
(* and the MCN manager of module MCNManager, which it calls as a           *)
(* subroutine: a reconcile starts CreateOrJoinMCN or LeaveMCN, waits until *)
(* pc[a] is a result, and keeps the returned object in copy[a] until it    *)
(* ends.                                                                   *)
(*                                                                         *)
(* Each cluster has one agent; its one worker takes MCNCs from a work      *)
(* queue. It reads an MCNC from the informer's cache, which the watch      *)
(* updates some time after the object changed; each API call of the        *)
(* reconcile is a step. As in MCNManager, Booleans (cached, heldFresh)     *)
(* stand for resourceVersions.                                             *)
(***************************************************************************)
EXTENDS MCNManager

CONSTANTS Connects,     \* MultiClusterNetworkConnects that users may create
          AgentOf,      \* AgentOf[m]: the agent of the cluster that m is in
          Specs,        \* Specs[m]: the specs that users may give m
          Cudns,        \* ClusterUserDefinedNetwork names
          UserCudns,    \* UserCudns[u]: the CUDN u as users create it
          NamedLike,    \* NamedLike[n]: the CUDN that has the network n's name
          NoName,       \* an empty name, or an absent part of a spec
          Unnamed,      \* the name "" in a part of a spec that is there
          NoConnect,    \* no such MCNC
          NoCudn,       \* no such CUDN
          NoVni,        \* in a CUDN without a transport
          OtherTransport, \* in a CUDN with another transport than EVPN
          StatusSubresource, \* TRUE: the MCNC CRD declares a status subresource
          AdminDeletes, \* networks that an administrator may delete by hand
          CudnChurn,    \* TRUE: users may delete and create their CUDNs
          MaxWrites,    \* bound: MaxWrites[m], how often users create or edit m
          MaxCrashes    \* bound: how often agents are restarted

(* The spec of an MCNC. Comments call join and create exclusive, and local *)
(* and own; nothing enforces it, and a user may set both of a pair or none. *)
ConnectSpec ==
  [join : Networks \cup {NoName},         \* multiClusterNetworkName
   create : Networks \cup {NoName, Unnamed}, \* createMultiClusterNetwork.name
   topology : Topologies,                 \* createMultiClusterNetwork.topology
   local : Cudns \cup {NoName},           \* localCUDN
   own : Cudns \cup {NoName, Unnamed},    \* cudnSpec.name
   cudnTopology : Topologies]             \* cudnSpec.topology

Connect == [spec : ConnectSpec, finalizer : BOOLEAN, deleting : BOOLEAN,
            phase : {"", "Error", "Connected"}]

Cudn == [topology : Topologies, vni : Vnis \cup {NoVni, OtherTransport},
         terminating : BOOLEAN]

ASSUME ControllerAssumption ==
  /\ AgentOf \in [Connects -> Agents]
  /\ Specs \in [Connects -> SUBSET ConnectSpec]
  /\ UserCudns \in [Cudns -> {obj \in Cudn : obj.vni \notin Vnis /\ ~obj.terminating}]
  /\ NamedLike \in [Networks -> Cudns]
  /\ NoName \notin Networks \cup Cudns
  /\ Unnamed \notin Networks \cup Cudns \cup {NoName}
  /\ NoConnect \notin Connect \cup Connects
  /\ NoCudn \notin Cudn
  /\ NoVni \notin Vnis /\ OtherTransport \notin Vnis \cup {NoVni}
  /\ \A a, b \in Agents : ClusterOf[a] = ClusterOf[b] => a = b
  /\ StatusSubresource \in BOOLEAN /\ AdminDeletes \subseteq Networks
  /\ CudnChurn \in BOOLEAN
  /\ MaxWrites \in [Connects -> Nat]
  /\ MaxCrashes \in Nat /\ (MaxCrashes > 0 => Crashes)

VARIABLES
  mcnc,      \* mcnc[m]: the MCNC m on its cluster's API server, or NoConnect
  writes,    \* writes[m]: how often users created m or changed its spec
  cache,     \* cache[m]: the MCNC m in the informer cache of its agent
  cached,    \* cached[m]: cache[m] is the current version of m
  queue,     \* queue[a]: the MCNCs in the agent's work queue
  step,      \* step[a]: the call of the reconcile in progress, or "idle"
  item,      \* item[a]: the MCNC being reconciled, or NoConnect
  held,      \* held[a]: the mcnc object in the reconcile's hands
  heldFresh, \* heldFresh[a]: held[a] has the current resourceVersion
  cudn,      \* cudn[a][u]: the CUDN u in agent a's cluster, or NoCudn
  ra,        \* ra[a]: CUDNs with a RouteAdvertisement in a's cluster
  crashes    \* how often agents were restarted

userVars == <<mcnc, writes>>
cacheVars == <<cache, cached>>
workVars == <<step, item, held, heldFresh>>
localVars == <<cudn, ra>>
ctlVars == <<mcnc, writes, cache, cached, queue, step, item, held, heldFresh,
             cudn, ra, crashes>>
vars == <<mcnVars, ctlVars>>

ReconcileSteps == {"finalizer", "namespace", "network", "patch", "create",
                   "advertise", "status", "error",
                   "unadvertise", "deleteCudn", "leave", "release"}

ControllerTypeOK ==
  /\ TypeOK
  /\ mcnc \in [Connects -> Connect \cup {NoConnect}]
  /\ writes \in [Connects -> Nat]
  /\ \A m \in Connects : writes[m] <= MaxWrites[m]
  /\ cache \in [Connects -> Connect \cup {NoConnect}]
  /\ cached \in [Connects -> BOOLEAN]
  /\ queue \in [Agents -> SUBSET Connects]
  /\ step \in [Agents -> {"idle"} \cup ReconcileSteps]
  /\ item \in [Agents -> Connects \cup {NoConnect}]
  /\ held \in [Agents -> Connect \cup {NoConnect}]
  /\ heldFresh \in [Agents -> BOOLEAN]
  /\ cudn \in [Agents -> [Cudns -> Cudn \cup {NoCudn}]]
  /\ ra \in [Agents -> SUBSET Cudns]
  /\ crashes \in 0 .. MaxCrashes

-----------------------------------------------------------------------------
(* What a spec means, to the functions that read it. *)

(* reconcileMCN prefers one way to name a network, handleDelete the other, *)
(* and stays with it when createMultiClusterNetwork is there without a name. *)
NetworkToJoin(s) ==
  IF s.join # NoName THEN s.join ELSE IF s.create = Unnamed THEN NoName ELSE s.create
TopologyToJoin(s) == IF s.join # NoName THEN NoTopology ELSE s.topology
NetworkToLeave(s) ==
  CASE s.create = NoName -> s.join
    [] s.create = Unnamed -> NoName
    [] OTHER -> s.create

OwnName(s, n) == IF s.own = Unnamed THEN NamedLike[n] ELSE s.own

(* reconcileLocalNetwork prefers localCUDN, handleDelete cudnSpec, and the *)
(* CUDN with the network's name if there is neither.                       *)
CudnToUse(s) == IF s.local # NoName THEN s.local ELSE OwnName(s, NetworkToJoin(s))
CudnToDelete(s) ==
  IF s.own # NoName THEN OwnName(s, NetworkToLeave(s))
  ELSE IF s.local # NoName THEN s.local ELSE NamedLike[NetworkToLeave(s)]

(* A CUDN that some MCNC wants the agent to create does not exist at       *)
(* first; the others are there before they are referred to.                *)
ControllerInit ==
  /\ Init
  /\ mcnc = [m \in Connects |-> NoConnect]
  /\ writes = [m \in Connects |-> 0]
  /\ cache = mcnc
  /\ cached = [m \in Connects |-> TRUE]
  /\ queue = [a \in Agents |-> {}]
  /\ step = [a \in Agents |-> "idle"]
  /\ item = [a \in Agents |-> NoConnect]
  /\ held = [a \in Agents |-> NoConnect]
  /\ heldFresh = [a \in Agents |-> FALSE]
  /\ cudn = [a \in Agents |-> [u \in Cudns |->
               IF \E m \in Connects : AgentOf[m] = a /\ \E s \in Specs[m] :
                    /\ s.local = NoName /\ s.own # NoName
                    /\ NetworkToJoin(s) # NoName
                    /\ OwnName(s, NetworkToJoin(s)) = u
                 THEN NoCudn ELSE UserCudns[u]]]
  /\ ra = [a \in Agents |-> {}]
  /\ crashes = 0

-----------------------------------------------------------------------------
(* The MCNC on the API server, the informer and the work queue. *)

Wanted(a) == held[a].spec
LocalCudn(a) == cudn[a][CudnToUse(Wanted(a))]

(* m is written: the cache and the object in the agent's hands are old.    *)
WriteConnect(m, obj) ==
  /\ mcnc' = [mcnc EXCEPT ![m] = obj]
  /\ cached' = [cached EXCEPT ![m] = FALSE]

(* Reconcile returns; again: with an error or Requeue, so that the MCNC is *)
(* put back into the queue.                                                *)
Finish(a, again) ==
  /\ step' = [step EXCEPT ![a] = "idle"]
  /\ held' = [held EXCEPT ![a] = NoConnect]
  /\ heldFresh' = [heldFresh EXCEPT ![a] = FALSE]
  /\ item' = [item EXCEPT ![a] = NoConnect]
  /\ queue' = [queue EXCEPT ![a] = IF again THEN @ \cup {item[a]} ELSE @]

Goto(a, s) ==
  /\ step' = [step EXCEPT ![a] = s]
  /\ UNCHANGED <<item, held, heldFresh, queue>>

(* The outcomes of an update of the MCNC: it is refused if the copy is     *)
(* old, it may fail, and the reply to a successful one may be lost.        *)
UpdateOutcomes(a) ==
  (IF heldFresh[a] THEN {"written"} ELSE {"refused"})
    \cup (IF ApiFaults THEN {"refused"} ELSE {})
    \cup (IF ApiFaults /\ heldFresh[a] THEN {"replyLost"} ELSE {})

(* Mutant: an event updates the cache and wakes nobody up.                 *)
WatchUpdatesCacheOnly(m) ==
  /\ ~cached[m]
  /\ cache' = [cache EXCEPT ![m] = mcnc[m]]
  /\ cached' = [cached EXCEPT ![m] = TRUE]
  /\ UNCHANGED <<mcnVars, userVars, queue, workVars, localVars, crashes>>

(* The watch delivers the current state of m.                              *)
WatchEvent(m) ==
  /\ ~cached[m]
  /\ cache' = [cache EXCEPT ![m] = mcnc[m]]
  /\ cached' = [cached EXCEPT ![m] = TRUE]
  /\ queue' = [queue EXCEPT ![AgentOf[m]] = @ \cup {m}]
  /\ UNCHANGED <<mcnVars, userVars, workVars, localVars, crashes>>

(* The informer's periodic resync.                                         *)
Resync(a) ==
  /\ queue' = [queue EXCEPT ![a] =
       @ \cup {m \in Connects : AgentOf[m] = a /\ cache[m] # NoConnect}]
  /\ queue' # queue
  /\ UNCHANGED <<mcnVars, userVars, cacheVars, workVars, localVars, crashes>>

-----------------------------------------------------------------------------
(* Reconcile *)

(* Mutant: works on an MCNC before its finalizer is there.                 *)
FirstStepUnguarded(obj) == IF obj.deleting THEN "unadvertise" ELSE "namespace"

(* handleDelete finds nothing to clean up if the spec names no network.    *)
FirstStep(obj) ==
  CASE obj.deleting ->
         IF NetworkToLeave(obj.spec) = NoName THEN "release" ELSE "unadvertise"
    [] ~obj.deleting /\ ~obj.finalizer -> "finalizer"
    [] OTHER -> "namespace"

Reconcile(a, m) ==
  /\ step[a] = "idle"
  /\ m \in queue[a]
  /\ queue' = [queue EXCEPT ![a] = @ \ {m}]
  /\ IF cache[m] = NoConnect
       THEN UNCHANGED workVars
       ELSE /\ item' = [item EXCEPT ![a] = m]
            /\ step' = [step EXCEPT ![a] = FirstStep(cache[m])]
            /\ held' = [held EXCEPT ![a] = cache[m]]
            /\ heldFresh' = [heldFresh EXCEPT ![a] = cached[m]]
  /\ UNCHANGED <<mcnVars, userVars, cacheVars, localVars, crashes>>

AddFinalizer(a) ==
  /\ step[a] = "finalizer"
  /\ \E o \in UpdateOutcomes(a) :
       IF o = "refused"
         THEN UNCHANGED <<mcnc, cached>>
         ELSE WriteConnect(item[a], [held[a] EXCEPT !.finalizer = TRUE])
  /\ Finish(a, TRUE)
  /\ UNCHANGED <<mcnVars, writes, cache, localVars, crashes>>

(* The namespace is there as long as the MCNC in it is; then reconcileMCN, *)
(* whose Get of a network without a name fails.                            *)
CheckNamespace(a) ==
  /\ step[a] = "namespace"
  /\ \/ /\ NetworkToJoin(Wanted(a)) # NoName
        /\ CreateOrJoinMCN(a, NetworkToJoin(Wanted(a)), TopologyToJoin(Wanted(a)))
        /\ Goto(a, "network")
     \/ /\ NetworkToJoin(Wanted(a)) = NoName \/ ApiFaults
        /\ Goto(a, "error")
        /\ UNCHANGED mcnVars
  /\ UNCHANGED <<userVars, cacheVars, localVars, crashes>>

(* reconcileLocalNetwork, up to the first change: the Get and the checks   *)
(* of PatchCUDNWithEVPN (localCUDN) or of CreateCUDN (cudnSpec). The patch *)
(* of a CUDN that already has the configuration changes nothing; CreateCUDN *)
(* takes a CUDN with any EVPN configuration for its own.                   *)
AfterGetLocal(a) ==
  IF /\ LocalCudn(a) # NoCudn
     /\ LocalCudn(a).vni # OtherTransport
     /\ LocalCudn(a).topology = copy[a].topology
    THEN "patch" ELSE "error"

AfterGetOwn(a) ==
  CASE LocalCudn(a) = NoCudn -> "create"
    [] LocalCudn(a) # NoCudn /\ LocalCudn(a).vni \in Vnis -> "advertise"
    [] OTHER -> "error"

(* Mutant: a localCUDN that has an EVPN configuration is left as it is.    *)
AfterGetCudnKeeps(a) ==
  IF LocalCudn(a) # NoCudn /\ LocalCudn(a).vni \in Vnis THEN "advertise"
  ELSE AfterGetLocal(a)

AfterGetCudn(a) ==
  CASE Wanted(a).local # NoName -> AfterGetLocal(a)
    [] Wanted(a).local = NoName /\ Wanted(a).own # NoName -> AfterGetOwn(a)
    [] OTHER -> "error"

GetCudn(a) ==
  /\ step[a] = "network"
  /\ pc[a] = "joined"
  /\ \E s \in {AfterGetCudn(a)} \cup (IF ApiFaults THEN {"error"} ELSE {}) :
       Goto(a, s)
  /\ UNCHANGED <<mcnVars, userVars, cacheVars, localVars, crashes>>

(* A change of agent a's CUDN or RouteAdvertisement: it takes effect if    *)
(* possible and the reconcile goes on, or it fails, or the reply is lost.  *)
EffectThen(a, possible, effect, unchanged, next) ==
  \/ /\ possible /\ effect
     /\ \E s \in {next} \cup (IF ApiFaults THEN {"error"} ELSE {}) : Goto(a, s)
  \/ /\ ~possible \/ ApiFaults
     /\ unchanged
     /\ Goto(a, "error")

PatchCudn(a) ==
  /\ step[a] = "patch"
  /\ EffectThen(a, LocalCudn(a) # NoCudn,
                cudn' = [cudn EXCEPT ![a][CudnToUse(Wanted(a))].vni = copy[a].vni],
                UNCHANGED cudn, "advertise")
  /\ UNCHANGED <<mcnVars, userVars, cacheVars, ra, crashes>>

(* waitForCUDNReady, which follows, only delays: its error is ignored.     *)
CreateCudn(a) ==
  /\ step[a] = "create"
  /\ EffectThen(a, LocalCudn(a) = NoCudn,
                cudn' = [cudn EXCEPT ![a][CudnToUse(Wanted(a))] =
                           [topology |-> Wanted(a).cudnTopology,
                            vni |-> copy[a].vni, terminating |-> FALSE]],
                UNCHANGED cudn, "advertise")
  /\ UNCHANGED <<mcnVars, userVars, cacheVars, ra, crashes>>

(* CreateForCUDN: nobody else creates or deletes these, so that its Get    *)
(* and Create are one step; an existing one is left alone.                 *)
CreateForCUDN(a) ==
  /\ step[a] = "advertise"
  /\ EffectThen(a, TRUE, ra' = [ra EXCEPT ![a] = @ \cup {CudnToUse(Wanted(a))}],
                UNCHANGED ra, "status")
  /\ UNCHANGED <<mcnVars, userVars, cacheVars, cudn, crashes>>

(* Status().Update. Without the status subresource the API server answers  *)
(* NotFound; an update that changes nothing is no write.                   *)
SetPhase(a, phase, o) ==
  IF o = "refused" \/ ~StatusSubresource \/ held[a].phase = phase
    THEN UNCHANGED <<mcnc, cached>>
    ELSE WriteConnect(item[a], [held[a] EXCEPT !.phase = phase])

(* Mutant: the phase is set to that of a Cluster.                          *)
SetReady(a) ==
  /\ step[a] = "status"
  /\ \E o \in UpdateOutcomes(a) :
       /\ SetPhase(a, "Ready", o)
       /\ Finish(a, o # "written" \/ ~StatusSubresource)
  /\ Forget(a)
  /\ UNCHANGED <<writes, cache, localVars, crashes>>

SetConnected(a) ==
  /\ step[a] = "status"
  /\ \E o \in UpdateOutcomes(a) :
       /\ SetPhase(a, "Connected", o)
       /\ Finish(a, o # "written" \/ ~StatusSubresource)
  /\ Forget(a)
  /\ UNCHANGED <<writes, cache, localVars, crashes>>

(* The error paths of reconcileMCNC: the phase becomes Error if that       *)
(* update succeeds, and the reconcile is retried in any case.              *)
SetError(a) ==
  /\ \/ step[a] = "error"
     \/ step[a] = "network" /\ pc[a] = "failed"
  /\ \E o \in UpdateOutcomes(a) : SetPhase(a, "Error", o)
  /\ Finish(a, TRUE)
  /\ Forget(a)
  /\ UNCHANGED <<writes, cache, localVars, crashes>>

-----------------------------------------------------------------------------
(* handleDelete: every step goes on to the next one when its call fails,   *)
(* only the last update is retried.                                        *)

StartLeave(a) ==
  /\ LeaveMCN(a, NetworkToLeave(Wanted(a)))
  /\ Goto(a, "leave")

(* Mutant: the CUDN that the agent created is kept.                        *)
DeleteForCUDNKeepsCudn(a) ==
  /\ step[a] = "unadvertise"
  /\ \/ ra' = [ra EXCEPT ![a] = @ \ {CudnToDelete(Wanted(a))}]
     \/ ApiFaults /\ UNCHANGED ra
  /\ StartLeave(a)
  /\ UNCHANGED <<userVars, cacheVars, cudn, crashes>>

DeleteForCUDN(a) ==
  /\ step[a] = "unadvertise"
  /\ \/ ra' = [ra EXCEPT ![a] = @ \ {CudnToDelete(Wanted(a))}]
     \/ ApiFaults /\ UNCHANGED ra
  /\ IF Wanted(a).own # NoName
       THEN Goto(a, "deleteCudn") /\ UNCHANGED mcnVars
       ELSE StartLeave(a)
  /\ UNCHANGED <<userVars, cacheVars, cudn, crashes>>

(* OVN-Kubernetes holds a finalizer on a CUDN: deletion marks it.          *)
DeleteCudn(a) ==
  /\ step[a] = "deleteCudn"
  /\ LET u == CudnToDelete(Wanted(a))
     IN \/ /\ cudn[a][u] # NoCudn
           /\ cudn' = [cudn EXCEPT ![a][u].terminating = TRUE]
        \/ /\ cudn[a][u] = NoCudn \/ ApiFaults
           /\ UNCHANGED cudn
  /\ StartLeave(a)
  /\ UNCHANGED <<userVars, cacheVars, ra, crashes>>

(* Mutant: does not wait for LeaveMCN.                                     *)
RemoveFinalizerAtOnce(a) ==
  /\ step[a] = "leave"
  /\ \E o \in UpdateOutcomes(a) :
       /\ IF o = "refused"
            THEN UNCHANGED <<mcnc, cached>>
            ELSE WriteConnect(item[a], NoConnect)
       /\ Finish(a, o # "written")
  /\ Forget(a)
  /\ UNCHANGED <<writes, cache, localVars, crashes>>

(* Mutant: gives up when LeaveMCN failed, without asking for a retry.      *)
GiveUpWhenLeaveFailed(a) ==
  /\ step[a] = "leave"
  /\ pc[a] \in Results
  /\ \E o \in UpdateOutcomes(a) :
       /\ IF o = "refused" \/ pc[a] = "failed"
            THEN UNCHANGED <<mcnc, cached>>
            ELSE WriteConnect(item[a], NoConnect)
       /\ Finish(a, o = "refused" /\ pc[a] # "failed")
  /\ Forget(a)
  /\ UNCHANGED <<writes, cache, localVars, crashes>>

(* LeaveMCN returned, with or without an error, or there was nothing to    *)
(* clean up: the MCNC's finalizer is removed, and with it the MCNC.        *)
RemoveConnectFinalizer(a) ==
  /\ \/ step[a] = "leave" /\ pc[a] \in Results
     \/ step[a] = "release"
  /\ \E o \in UpdateOutcomes(a) :
       /\ IF o = "refused"
            THEN UNCHANGED <<mcnc, cached>>
            ELSE WriteConnect(item[a], NoConnect)
       /\ Finish(a, o # "written")
  /\ Forget(a)
  /\ UNCHANGED <<writes, cache, localVars, crashes>>

-----------------------------------------------------------------------------
(* The environment *)

(* The agent is restarted: its informer lists the MCNCs anew.              *)
Restart(a) ==
  LET mine == {m \in Connects : AgentOf[m] = a}
  IN /\ crashes < MaxCrashes
     /\ crashes' = crashes + 1
     /\ step' = [step EXCEPT ![a] = "idle"]
     /\ item' = [item EXCEPT ![a] = NoConnect]
     /\ held' = [held EXCEPT ![a] = NoConnect]
     /\ heldFresh' = [heldFresh EXCEPT ![a] = FALSE]
     /\ cache' = [m \in Connects |-> IF m \in mine THEN mcnc[m] ELSE cache[m]]
     /\ cached' = [m \in Connects |-> m \in mine \/ cached[m]]
     /\ queue' = [queue EXCEPT ![a] = {m \in mine : mcnc[m] # NoConnect}]
     /\ Forget(a)
     /\ UNCHANGED <<userVars, localVars>>

(* A user's write of m makes the object in the agent's hands old.          *)
UserWrites(m, obj) ==
  /\ WriteConnect(m, obj)
  /\ heldFresh' = [a \in Agents |-> heldFresh[a] /\ item[a] # m]
  /\ UNCHANGED <<mcnVars, cache, queue, step, item, held, localVars, crashes>>

CreateConnect(m) ==
  /\ mcnc[m] = NoConnect
  /\ writes[m] < MaxWrites[m]
  /\ writes' = [writes EXCEPT ![m] = @ + 1]
  /\ \E s \in Specs[m] :
       UserWrites(m, [spec |-> s, finalizer |-> FALSE, deleting |-> FALSE, phase |-> ""])

EditConnect(m) ==
  /\ mcnc[m] # NoConnect
  /\ writes[m] < MaxWrites[m]
  /\ writes' = [writes EXCEPT ![m] = @ + 1]
  /\ \E s \in Specs[m] \ {mcnc[m].spec} :
       UserWrites(m, [mcnc[m] EXCEPT !.spec = s])

DeleteConnect(m) ==
  /\ mcnc[m] # NoConnect
  /\ ~mcnc[m].deleting
  /\ UserWrites(m, IF mcnc[m].finalizer
                     THEN [mcnc[m] EXCEPT !.deleting = TRUE] ELSE NoConnect)
  /\ UNCHANGED writes

(* Users delete and create their CUDNs.                                    *)
ChangeUserCudn(a, u) ==
  /\ CudnChurn
  /\ cudn' = [cudn EXCEPT ![a][u] = IF @ = NoCudn THEN UserCudns[u] ELSE NoCudn]
  /\ UNCHANGED <<mcnVars, userVars, cacheVars, queue, workVars, ra, crashes>>

(* OVN-Kubernetes releases a CUDN that is being deleted.                   *)
CudnReleased(a, u) ==
  /\ cudn[a][u] # NoCudn
  /\ cudn[a][u].terminating
  /\ cudn' = [cudn EXCEPT ![a][u] = NoCudn]
  /\ UNCHANGED <<mcnVars, userVars, cacheVars, queue, workVars, ra, crashes>>

AdminDeletesMCN(n) == n \in AdminDeletes /\ DeleteMCN(n) /\ UNCHANGED ctlVars

-----------------------------------------------------------------------------
(* One call of the reconcile in progress.                                  *)
ReconcileStep(a) ==
  \/ AddFinalizer(a) \/ CheckNamespace(a)
  \/ step[a] \in {"network", "leave"} /\ ManagerStep(a) /\ UNCHANGED ctlVars
  \/ GetCudn(a) \/ PatchCudn(a) \/ CreateCudn(a) \/ CreateForCUDN(a)
  \/ SetConnected(a) \/ SetError(a)
  \/ DeleteForCUDN(a) \/ DeleteCudn(a) \/ RemoveConnectFinalizer(a)

ControllerNext ==
  \/ \E a \in Agents :
       \/ ReconcileStep(a)
       \/ \E m \in Connects : Reconcile(a, m)
       \/ Resync(a)
       \/ Restart(a)
       \/ \E u \in Cudns : ChangeUserCudn(a, u) \/ CudnReleased(a, u)
  \/ \E m \in Connects : WatchEvent(m) \/ CreateConnect(m) \/ EditConnect(m) \/ DeleteConnect(m)
  \/ \E n \in Networks : AdminDeletesMCN(n)

ControllerSpec == ControllerInit /\ [][ControllerNext]_vars

(* The worker goes on with the reconcile it is in; the watch delivers; the *)
(* queue is first-in first-out, so that an MCNC that keeps coming back to  *)
(* it is taken; OVN-Kubernetes releases deleted CUDNs. Nothing is assumed  *)
(* of users, the administrator, resyncs and restarts.                      *)
ControllerFairness ==
  /\ \A a \in Agents : WF_vars(ReconcileStep(a))
  /\ \A m \in Connects : SF_vars(Reconcile(AgentOf[m], m))
  /\ \A m \in Connects : WF_vars(WatchEvent(m))
  /\ \A a \in Agents, u \in Cudns : WF_vars(CudnReleased(a, u))

FairControllerSpec == ControllerSpec /\ ControllerFairness

-----------------------------------------------------------------------------
(* Properties *)

Exists(m) == mcnc[m] # NoConnect

(* A connected MCNC is backed: its cluster is a member of the network that *)
(* its spec names, its CUDN exists and carries the network's VNI and       *)
(* topology, and its routes are advertised.                                *)
Backed(a, s) ==
  LET n == NetworkToJoin(s)
      u == CudnToUse(s)
  IN /\ ClusterOf[a] \in Members(n)
     /\ cudn[a][u] # NoCudn
     /\ cudn[a][u].vni = broker[n].vni
     /\ cudn[a][u].topology = broker[n].topology
     /\ u \in ra[a]

(* Nothing is under way for m: no event, no entry in the queue, no         *)
(* reconcile.                                                              *)
Quiet(m) ==
  LET a == AgentOf[m] IN cached[m] /\ m \notin queue[a] /\ item[a] # m

(* No wake-up is lost: an MCNC that nothing is under way for is connected, *)
(* and backed by what its spec asks for now - whatever edits of the spec,  *)
(* restarts, conflicts, stale caches, failing calls and lost replies came  *)
(* before. And a reconcile reaches the status update that is to say so     *)
(* only when what the spec in its hands asks for is there.                 *)
ConnectedBacked ==
  \A m \in Connects : Exists(m) /\ ~mcnc[m].deleting =>
    LET a == AgentOf[m]
    IN /\ Quiet(m) => mcnc[m].phase = "Connected" /\ Backed(a, mcnc[m].spec)
       /\ item[a] = m /\ step[a] = "status" => Backed(a, held[a].spec)

(* Everything the agent makes for an MCNC is made under the MCNC's         *)
(* finalizer: no RouteAdvertisement, no CUDN of the agent's own and no     *)
(* membership is left when the MCNC is gone.                               *)
Guarded(m) == Exists(m) /\ mcnc[m].finalizer

AdvertisementsOwned ==
  \A a \in Agents : \A u \in ra[a] : \E m \in Connects :
    AgentOf[m] = a /\ Guarded(m) /\ CudnToUse(mcnc[m].spec) = u

(* The CUDNs that the agent may have created: named by a cudnSpec only.    *)
CudnsOwned ==
  \A a \in Agents, u \in Cudns :
    /\ cudn[a][u] # NoCudn /\ ~cudn[a][u].terminating /\ cudn[a][u].vni \in Vnis
    /\ \A m \in Connects : AgentOf[m] = a => \A s \in Specs[m] : s.local # u
    => \E m \in Connects :
         AgentOf[m] = a /\ Guarded(m) /\ CudnToUse(mcnc[m].spec) = u

MembershipsOwned ==
  \A n \in Networks, a \in Agents :
    ClusterOf[a] \in Members(n) =>
      \E m \in Connects :
        AgentOf[m] = a /\ Guarded(m) /\ NetworkToJoin(mcnc[m].spec) = n

(* "Delete CUDN if SkyNet created it" (handleDelete): the agent deletes no *)
(* CUDN that it neither created nor configured.                            *)
ForeignCudnsKept ==
  [][\A a \in Agents, u \in Cudns :
       cudn[a][u] = UserCudns[u] => ~(cudn'[a][u] # NoCudn /\ cudn'[a][u].terminating)
    ]_vars

(* What a reconcile relies on while it configures the CUDN, creates the    *)
(* RouteAdvertisement and reports the MCNC as connected: its cluster is a  *)
(* member of the network that the spec in its hands asks for, and the VNI  *)
(* it works with is the network's - although these steps look at the       *)
(* broker no more, and whatever the other clusters and the administrator   *)
(* do meanwhile.                                                           *)
ConnectingIsMember ==
  \A a \in Agents :
    step[a] \in {"patch", "create", "advertise", "status"} =>
      LET n == NetworkToJoin(held[a].spec)
      IN ClusterOf[a] \in Members(n) /\ broker[n].vni = copy[a].vni

(* The controller calls the manager as a caller should: one call at a      *)
(* time, for a network that has a name, and only a restart abandons a call *)
(* before its result is there. What MCNManager promises holds then for     *)
(* everything that the controller does.                                    *)
ManagerSpec == Spec

(* In the end an MCNC that is not deleted is connected and backed, and     *)
(* stays so, and a deleted one goes away.                                  *)
EventuallyConnected ==
  \A m \in Connects :
    <>[](Exists(m) /\ ~mcnc[m].deleting =>
           mcnc[m].phase = "Connected" /\ Backed(AgentOf[m], mcnc[m].spec))

DeletionCompletes ==
  \A m \in Connects : (Exists(m) /\ mcnc[m].deleting) ~> ~Exists(m)

(* "MCNs should auto-delete when last cluster removes its finalizer"       *)
(* (test/cleanup-cudn-test.sh).                                            *)
EmptyNetworkGoes ==
  \A n \in Networks :
    (broker[n] # NoMCN /\ broker[n].finalizers = {}) ~>
      (broker[n] # NoMCN => broker[n].finalizers # {})
=============================================================================
