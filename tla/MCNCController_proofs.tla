----------------------- MODULE MCNCController_proofs -----------------------
(***************************************************************************)
(* That the controller uses the MCN manager as MCNManager assumes of its   *)
(* callers, so that all theorems about the manager hold for the controller *)
(* that is composed with it; for any clusters, networks, MCNCs, specs and  *)
(* CUDNs, with failing calls, restarts, users and administrators.          *)
(***************************************************************************)
EXTENDS MCNCController, MCNManager_proofs

(* The inductive invariant, besides that of the manager (TypeOK, CopyInv). *)
(* Where the manager is at each step of a reconcile: a call is in progress *)
(* at "network" and "leave" only, and what follows a join has its result.  *)
CallFitsStep ==
  \A a \in Agents :
    /\ step[a] \in {"idle", "finalizer", "namespace", "unadvertise", "deleteCudn",
                    "release"} => pc[a] = "idle"
    /\ step[a] \in {"patch", "create", "advertise", "status"} => pc[a] = "joined"
    /\ step[a] = "error" => pc[a] \in {"idle", "joined"}

(* Between two calls nothing is left of the last one.                      *)
NothingBetweenCalls ==
  \A a \in Agents :
    pc[a] = "idle" => topo[a] = NoTopology /\ copy[a] = NoMCN /\ ~fresh[a]

(* What a reconcile has in its hands, and which checks the spec in its     *)
(* hands has passed.                                                       *)
JoinSteps == {"network", "patch", "create", "advertise", "status"}

HeldFitsStep ==
  \A a \in Agents :
    /\ step[a] # "idle" => item[a] \in Connects /\ held[a] \in Connect
    /\ step[a] \in {"unadvertise", "deleteCudn"} => NetworkToLeave(held[a].spec) # NoName
    /\ step[a] \in JoinSteps =>
         NetworkToJoin(held[a].spec) # NoName /\ net[a] = NetworkToJoin(held[a].spec)
    /\ step[a] \in {"patch", "create", "advertise"} =>
         held[a].spec.local # NoName \/ held[a].spec.own # NoName

(* ControllerTypeOK, without the manager's part.                           *)
ConnectTypeOK ==
  /\ mcnc \in [Connects -> Connect \cup {NoConnect}]
  /\ writes \in [Connects -> Nat]
  /\ \A m \in Connects : writes[m] <= MaxWrites[m]
  /\ cache \in [Connects -> Connect \cup {NoConnect}]
  /\ cached \in [Connects -> BOOLEAN]
  /\ queue \in [Agents -> SUBSET Connects]
  /\ step \in [Agents -> {"idle"} \cup ReconcileSteps]
  /\ item \in [Agents -> Connects \cup {NoConnect}]
  /\ held \in [Agents -> Connect \cup {NoConnect}]
  /\ heldFresh \in [Agents -> BOOLEAN]
  /\ cudn \in [Agents -> [Cudns -> Cudn \cup {NoCudn}]]
  /\ ra \in [Agents -> SUBSET Cudns]
  /\ crashes \in 0 .. MaxCrashes

ManagerInv == TypeOK /\ CopyInv
CallerInv == CallFitsStep /\ NothingBetweenCalls /\ HeldFitsStep
ControllerInv == ManagerInv /\ ConnectTypeOK /\ CallerInv
-----------------------------------------------------------------------------
(* Objects and specs *)

LEMMA ConnectEdits ==
  ASSUME NEW obj \in Connect, NEW s \in ConnectSpec, NEW p \in {"Connected", "Error"}
  PROVE  /\ [obj EXCEPT !.finalizer = TRUE] \in Connect
         /\ [obj EXCEPT !.deleting = TRUE] \in Connect
         /\ [obj EXCEPT !.phase = p] \in Connect
         /\ [obj EXCEPT !.spec = s] \in Connect
BY DEF Connect

LEMMA CudnEdits ==
  ASSUME NEW obj \in Cudn, NEW v \in Vnis
  PROVE  /\ [obj EXCEPT !.vni = v] \in Cudn
         /\ [obj EXCEPT !.terminating = TRUE] \in Cudn
BY DEF Cudn

(* What the functions that read a spec find in it.                         *)
LEMMA SpecNames ==
  ASSUME NEW s \in ConnectSpec
  PROVE  /\ NetworkToJoin(s) # NoName => NetworkToJoin(s) \in Networks
         /\ NetworkToLeave(s) # NoName => NetworkToLeave(s) \in Networks
         /\ TopologyToJoin(s) \in Topologies \cup {NoTopology}
BY DEF ConnectSpec, NetworkToJoin, NetworkToLeave, TopologyToJoin

LEMMA CudnName ==
  ASSUME NEW s \in ConnectSpec, NetworkToJoin(s) # NoName,
         s.local # NoName \/ s.own # NoName
  PROVE  CudnToUse(s) \in Cudns
BY SpecNames, ControllerAssumption DEF ConnectSpec, CudnToUse, OwnName

(* The checks before the first change of a CUDN.                           *)
LEMMA AfterGetCudnSteps ==
  ASSUME NEW a \in Agents
  PROVE  /\ AfterGetCudn(a) \in {"error", "patch", "create", "advertise"}
         /\ AfterGetCudn(a) # "error" =>
              held[a].spec.local # NoName \/ held[a].spec.own # NoName
BY DEF AfterGetCudn, AfterGetLocal, AfterGetOwn, Wanted

-----------------------------------------------------------------------------
(* What the manager's steps do to the other agents *)

LEMMA ManagerStepIsLocal ==
  ASSUME TypeOK, NEW a \in Agents, ManagerStep(a)
  PROVE  /\ net' = net /\ pc'[a] # "idle"
         /\ \A b \in Agents \ {a} :
              pc'[b] = pc[b] /\ topo'[b] = topo[b] /\ copy'[b] = copy[b]
                /\ (fresh'[b] => fresh[b])
BY RepliesAreResults
DEF ManagerStep, GetMCN, ReGetMCN, JoinExistingMCN, AllocateVNI, CreateMCN, JoinMCN,
    GetMCNToLeave, RemoveFinalizer, CallFails, Outdate, Results, TypeOK

(* Taking a result, or nothing at all, is a step that the manager allows.  *)
LEMMA ForgetsResult ==
  ASSUME TypeOK, NothingBetweenCalls, NEW a \in Agents,
         pc[a] \in Results \cup {"idle"}, Forget(a)
  PROVE  [Next]_mcnVars
<1>1. CASE pc[a] \in Results
  BY <1>1 DEF Next, Return
<1>2. CASE pc[a] = "idle"
  BY <1>2 DEF NothingBetweenCalls, Forget, TypeOK, mcnVars
<1> QED
  BY <1>1, <1>2

LEMMA ForgetIsLocal ==
  ASSUME TypeOK, NEW a \in Agents, Forget(a)
  PROVE  /\ net' = net /\ pc'[a] = "idle"
         /\ topo'[a] = NoTopology /\ copy'[a] = NoMCN /\ ~fresh'[a]
         /\ \A b \in Agents \ {a} :
              pc'[b] = pc[b] /\ topo'[b] = topo[b] /\ copy'[b] = copy[b]
                /\ (fresh'[b] => fresh[b])
BY DEF Forget, TypeOK

(* A reconcile that ends, together with the manager's call.                *)
LEMMA FinishKeepsCaller ==
  ASSUME ControllerInv, NEW a \in Agents, NEW again \in BOOLEAN, Finish(a, again),
         pc'[a] = "idle", net' = net,
         topo'[a] = NoTopology /\ copy'[a] = NoMCN /\ ~fresh'[a],
         \A b \in Agents \ {a} :
           pc'[b] = pc[b] /\ topo'[b] = topo[b] /\ copy'[b] = copy[b]
             /\ (fresh'[b] => fresh[b])
  PROVE  CallerInv'
BY DEF ControllerInv, ConnectTypeOK, CallerInv, CallFitsStep, NothingBetweenCalls,
       HeldFitsStep, Finish, JoinSteps

LEMMA FinishType ==
  ASSUME ConnectTypeOK, NEW a \in Agents, NEW again \in BOOLEAN, Finish(a, again),
         item[a] \in Connects
  PROVE  /\ queue' \in [Agents -> SUBSET Connects]
         /\ step' \in [Agents -> {"idle"} \cup ReconcileSteps]
         /\ item' \in [Agents -> Connects \cup {NoConnect}]
         /\ held' \in [Agents -> Connect \cup {NoConnect}]
         /\ heldFresh' \in [Agents -> BOOLEAN]
BY DEF ConnectTypeOK, Finish

(* An update of the MCNC in a reconcile's hands.                           *)
LEMMA WriteType ==
  ASSUME ConnectTypeOK, NEW m \in Connects, NEW obj \in Connect \cup {NoConnect},
         WriteConnect(m, obj) \/ UNCHANGED <<mcnc, cached>>
  PROVE  /\ mcnc' \in [Connects -> Connect \cup {NoConnect}]
         /\ cached' \in [Connects -> BOOLEAN]
BY DEF ConnectTypeOK, WriteConnect
-----------------------------------------------------------------------------
(* Each step is a step of the manager or none, and keeps the invariant.    *)
(* The manager's part of the invariant follows from its own proofs.        *)

Kept == [Next]_mcnVars /\ ConnectTypeOK' /\ CallerInv'

(* A reconcile that goes on without the manager, at another step.          *)
LEMMA GotoKeepsCaller ==
  ASSUME ControllerInv, NEW a \in Agents, NEW s \in ReconcileSteps, Goto(a, s),
         UNCHANGED mcnVars, step[a] # "idle",
         s \in {"finalizer", "namespace", "unadvertise", "deleteCudn", "release"} =>
           pc[a] = "idle",
         s \in {"patch", "create", "advertise", "status"} => pc[a] = "joined",
         s = "error" => pc[a] \in {"idle", "joined"},
         s \in {"unadvertise", "deleteCudn"} => NetworkToLeave(held[a].spec) # NoName,
         s \in JoinSteps => step[a] \in JoinSteps,
         s \in {"patch", "create", "advertise"} =>
           held[a].spec.local # NoName \/ held[a].spec.own # NoName
  PROVE  CallerInv'
BY DEF ControllerInv, ConnectTypeOK, CallerInv, CallFitsStep, NothingBetweenCalls,
       HeldFitsStep, Goto, ReconcileSteps, mcnVars

LEMMA ReconcileKept ==
  ASSUME ControllerInv, NEW a \in Agents, NEW m \in Connects, Reconcile(a, m)
  PROVE  Kept
<1>1. UNCHANGED mcnVars
  BY DEF Reconcile
<1>2. FirstStep(cache[m]) \in {"release", "unadvertise", "finalizer", "namespace"}
      /\ (FirstStep(cache[m]) = "unadvertise" => NetworkToLeave(cache[m].spec) # NoName)
  BY DEF FirstStep
<1>3. cache[m] # NoConnect => cache[m] \in Connect
  BY DEF ControllerInv, ConnectTypeOK
<1>4. ConnectTypeOK'
  BY <1>2, <1>3 DEF Reconcile, ControllerInv, ConnectTypeOK, ReconcileSteps, workVars,
                    userVars, cacheVars, localVars
<1>5. CallerInv'
  BY <1>1, <1>2, <1>3
  DEF Reconcile, ControllerInv, ConnectTypeOK, CallerInv, CallFitsStep,
      NothingBetweenCalls, HeldFitsStep, JoinSteps, workVars, mcnVars
<1> QED
  BY <1>1, <1>4, <1>5 DEF Kept

LEMMA AddFinalizerKept ==
  ASSUME ControllerInv, NEW a \in Agents, AddFinalizer(a)
  PROVE  Kept
<1>1. /\ step[a] = "finalizer" /\ UNCHANGED <<mcnVars, writes, cache, localVars, crashes>>
      /\ Finish(a, TRUE)
      /\ \/ UNCHANGED <<mcnc, cached>>
         \/ WriteConnect(item[a], [held[a] EXCEPT !.finalizer = TRUE])
  BY DEF AddFinalizer
<1>2. item[a] \in Connects /\ held[a] \in Connect
  BY <1>1 DEF ControllerInv, CallerInv, HeldFitsStep
<1>3. [held[a] EXCEPT !.finalizer = TRUE] \in Connect
  BY <1>2, ConnectEdits DEF Connect
<1>4. ConnectTypeOK'
  <2>1. /\ mcnc' \in [Connects -> Connect \cup {NoConnect}]
        /\ cached' \in [Connects -> BOOLEAN]
    BY <1>1, <1>2, <1>3, WriteType DEF ControllerInv
  <2> QED
    BY <1>1, <1>2, <2>1, FinishType DEF ControllerInv, ConnectTypeOK, localVars
<1>5. /\ pc[a] = "idle" /\ topo[a] = NoTopology /\ copy[a] = NoMCN /\ ~fresh[a]
  BY <1>1
  DEF ControllerInv, CallerInv, CallFitsStep, NothingBetweenCalls
<1>6. CallerInv'
  BY <1>1, <1>5, FinishKeepsCaller DEF mcnVars
<1> QED
  BY <1>1, <1>4, <1>6 DEF Kept

LEMMA CheckNamespaceKept ==
  ASSUME ControllerInv, NEW a \in Agents, CheckNamespace(a)
  PROVE  Kept
<1>1. step[a] = "namespace" /\ UNCHANGED <<userVars, cacheVars, localVars, crashes>>
  BY DEF CheckNamespace
<1>2. held[a] \in Connect /\ held[a].spec \in ConnectSpec /\ pc[a] = "idle"
  BY <1>1 DEF ControllerInv, CallerInv, CallFitsStep, HeldFitsStep, Connect
<1>3. ASSUME NEW s \in {"network", "error"}, Goto(a, s)
      PROVE  ConnectTypeOK'
  BY <1>1, <1>3
  DEF Goto, ControllerInv, ConnectTypeOK, ReconcileSteps, userVars, cacheVars, localVars
<1>4. CASE Goto(a, "error") /\ UNCHANGED mcnVars
  <2>1. CallerInv'
    BY <1>1, <1>2, <1>4, GotoKeepsCaller DEF ReconcileSteps, JoinSteps
  <2> QED
    BY <1>3, <1>4, <2>1 DEF Kept
<1>5. CASE /\ NetworkToJoin(Wanted(a)) # NoName
           /\ CreateOrJoinMCN(a, NetworkToJoin(Wanted(a)), TopologyToJoin(Wanted(a)))
           /\ Goto(a, "network")
  <2> DEFINE n == NetworkToJoin(held[a].spec)
             t == TopologyToJoin(held[a].spec)
  <2>1. n \in Networks /\ t \in Topologies \cup {NoTopology} /\ n # NoName
    BY <1>2, <1>5, SpecNames DEF Wanted
  <2>2. CreateOrJoinMCN(a, n, t)
    BY <1>5 DEF Wanted
  <2>3. [Next]_mcnVars
    BY <2>1, <2>2 DEF Next
  <2>4. CallerInv'
    <3> HIDE DEF t
    <3> QED
      BY <1>1, <1>2, <1>5, <2>1, <2>2
      DEF CreateOrJoinMCN, Goto, ControllerInv, ManagerInv, TypeOK, ConnectTypeOK,
          CallerInv, CallFitsStep, NothingBetweenCalls, HeldFitsStep, JoinSteps
  <2> QED
    BY <1>3, <1>5, <2>3, <2>4 DEF Kept
<1> QED
  BY <1>4, <1>5 DEF CheckNamespace

LEMMA ManagerStepKept ==
  ASSUME ControllerInv, NEW a \in Agents, step[a] \in {"network", "leave"},
         ManagerStep(a), UNCHANGED ctlVars
  PROVE  Kept
<1>1. [Next]_mcnVars
  BY DEF Next
<1>2. ConnectTypeOK'
  BY DEF ctlVars, ControllerInv, ConnectTypeOK
<1>3. CallerInv'
  BY ManagerStepIsLocal
  DEF ctlVars, ControllerInv, ManagerInv, CallerInv, CallFitsStep, NothingBetweenCalls,
      HeldFitsStep
<1> QED
  BY <1>1, <1>2, <1>3 DEF Kept

LEMMA GetCudnKept ==
  ASSUME ControllerInv, NEW a \in Agents, GetCudn(a)
  PROVE  Kept
<1>1. /\ step[a] = "network" /\ pc[a] = "joined"
      /\ UNCHANGED <<mcnVars, userVars, cacheVars, localVars, crashes>>
  BY DEF GetCudn
<1>2. PICK s \in {"error", "patch", "create", "advertise"} :
        Goto(a, s) /\ (s # "error" => s = AfterGetCudn(a))
  BY AfterGetCudnSteps DEF GetCudn
<1>3. ConnectTypeOK'
  BY <1>1, <1>2
  DEF Goto, ControllerInv, ConnectTypeOK, ReconcileSteps, userVars, cacheVars, localVars
<1>4. CallerInv'
  BY <1>1, <1>2, AfterGetCudnSteps, GotoKeepsCaller DEF ReconcileSteps, JoinSteps
<1> QED
  BY <1>1, <1>3, <1>4 DEF Kept

-----------------------------------------------------------------------------
(* Changes of CUDNs and RouteAdvertisements *)

(* Updating one CUDN of one cluster.                                       *)
LEMMA CudnUpdateType ==
  ASSUME ConnectTypeOK, NEW a \in Agents, NEW u \in Cudns,
         NEW obj \in Cudn \cup {NoCudn}
  PROVE  [cudn EXCEPT ![a][u] = obj] \in [Agents -> [Cudns -> Cudn \cup {NoCudn}]]
<1>1. [cudn[a] EXCEPT ![u] = obj] \in [Cudns -> Cudn \cup {NoCudn}]
  BY DEF ConnectTypeOK
<1> QED
  BY <1>1 DEF ConnectTypeOK

(* The steps that change a CUDN or a RouteAdvertisement and go on, or to   *)
(* the error path.                                                         *)
LEMMA EffectKept ==
  ASSUME ControllerInv, NEW a \in Agents,
         step[a] \in {"patch", "create", "advertise"},
         NEW next \in {"advertise", "status"},
         \E s \in {next, "error"} : Goto(a, s),
         UNCHANGED <<mcnVars, userVars, cacheVars, crashes>>,
         cudn' \in [Agents -> [Cudns -> Cudn \cup {NoCudn}]],
         ra' \in [Agents -> SUBSET Cudns]
  PROVE  Kept
<1>1. PICK s \in {"advertise", "status", "error"} : Goto(a, s)
  OBVIOUS
<1>2. pc[a] = "joined" /\ (held[a].spec.local # NoName \/ held[a].spec.own # NoName)
  BY DEF ControllerInv, CallerInv, CallFitsStep, HeldFitsStep
<1>3. ConnectTypeOK'
  BY <1>1
  DEF Goto, ControllerInv, ConnectTypeOK, ReconcileSteps, userVars, cacheVars
<1>4. CallerInv'
  BY <1>1, <1>2, GotoKeepsCaller DEF ReconcileSteps, JoinSteps
<1> QED
  BY <1>3, <1>4 DEF Kept

(* At these steps the spec names a CUDN, and the copy is an object.        *)
LEMMA ConnectingSpec ==
  ASSUME ControllerInv, NEW a \in Agents, step[a] \in {"patch", "create", "advertise"}
  PROVE  /\ held[a].spec \in ConnectSpec /\ CudnToUse(Wanted(a)) \in Cudns
         /\ copy[a].vni \in Vnis
<1>1. /\ held[a].spec \in ConnectSpec /\ NetworkToJoin(held[a].spec) # NoName
      /\ held[a].spec.local # NoName \/ held[a].spec.own # NoName
  BY DEF ControllerInv, CallerInv, HeldFitsStep, JoinSteps, Connect
<1>2. copy[a] \in MCNObject
  BY DEF ControllerInv, ManagerInv, TypeOK, CopyInv, CopyFitsCall, CallerInv, CallFitsStep
<1> QED
  BY <1>1, <1>2, CudnName DEF Wanted, MCNObject

LEMMA PatchCudnKept ==
  ASSUME ControllerInv, NEW a \in Agents, PatchCudn(a)
  PROVE  Kept
<1> DEFINE u == CudnToUse(Wanted(a))
<1>1. step[a] = "patch" /\ UNCHANGED <<mcnVars, userVars, cacheVars, ra, crashes>>
  BY DEF PatchCudn
<1>2. u \in Cudns /\ copy[a].vni \in Vnis
  BY <1>1, ConnectingSpec
<1>3. /\ \/ LocalCudn(a) # NoCudn /\ cudn' = [cudn EXCEPT ![a][u].vni = copy[a].vni]
         \/ UNCHANGED cudn
      /\ \E s \in {"advertise", "error"} : Goto(a, s)
  BY DEF PatchCudn, EffectThen
<1> HIDE DEF u
<1>4. cudn' \in [Agents -> [Cudns -> Cudn \cup {NoCudn}]]
  <2>1. CASE LocalCudn(a) # NoCudn /\ cudn' = [cudn EXCEPT ![a][u].vni = copy[a].vni]
    <3> DEFINE patched == [cudn[a][u] EXCEPT !.vni = copy[a].vni]
    <3>1. cudn[a][u] \in Cudn
      BY <1>2, <2>1 DEF u, LocalCudn, ControllerInv, ConnectTypeOK
    <3>2. patched \in Cudn
      BY <1>2, <3>1, CudnEdits
    <3>3. cudn' = [cudn EXCEPT ![a][u] = patched]
      BY <2>1
    <3> HIDE DEF patched
    <3> QED
      BY <1>2, <3>2, <3>3, CudnUpdateType DEF ControllerInv
  <2>2. CASE UNCHANGED cudn
    BY <2>2 DEF ControllerInv, ConnectTypeOK
  <2> QED
    BY <1>3, <2>1, <2>2
<1>5. ra' \in [Agents -> SUBSET Cudns]
  BY <1>1 DEF ControllerInv, ConnectTypeOK
<1> QED
  BY <1>1, <1>3, <1>4, <1>5, EffectKept

LEMMA CreateCudnKept ==
  ASSUME ControllerInv, NEW a \in Agents, CreateCudn(a)
  PROVE  Kept
<1> DEFINE u == CudnToUse(Wanted(a))
           new == [topology |-> Wanted(a).cudnTopology, vni |-> copy[a].vni,
                   terminating |-> FALSE]
<1>1. step[a] = "create" /\ UNCHANGED <<mcnVars, userVars, cacheVars, ra, crashes>>
  BY DEF CreateCudn
<1>2. u \in Cudns /\ new \in Cudn
  BY <1>1, ConnectingSpec DEF Wanted, ConnectSpec, Cudn
<1>3. /\ cudn' = [cudn EXCEPT ![a][u] = new] \/ UNCHANGED cudn
      /\ \E s \in {"advertise", "error"} : Goto(a, s)
  BY DEF CreateCudn, EffectThen
<1> HIDE DEF u, new
<1>4. cudn' \in [Agents -> [Cudns -> Cudn \cup {NoCudn}]]
  <2>1. CASE cudn' = [cudn EXCEPT ![a][u] = new]
    BY <1>2, <2>1, CudnUpdateType DEF ControllerInv
  <2>2. CASE UNCHANGED cudn
    BY <2>2 DEF ControllerInv, ConnectTypeOK
  <2> QED
    BY <1>3, <2>1, <2>2
<1>5. ra' \in [Agents -> SUBSET Cudns]
  BY <1>1 DEF ControllerInv, ConnectTypeOK
<1> QED
  BY <1>1, <1>3, <1>4, <1>5, EffectKept

LEMMA CreateForCUDNKept ==
  ASSUME ControllerInv, NEW a \in Agents, CreateForCUDN(a)
  PROVE  Kept
<1>1. step[a] = "advertise" /\ UNCHANGED <<mcnVars, userVars, cacheVars, cudn, crashes>>
  BY DEF CreateForCUDN
<1>2. /\ \/ ra' = [ra EXCEPT ![a] = @ \cup {CudnToUse(Wanted(a))}]
         \/ UNCHANGED ra
      /\ \E s \in {"status", "error"} : Goto(a, s)
  BY DEF CreateForCUDN, EffectThen
<1>3. ra' \in [Agents -> SUBSET Cudns]
  BY <1>1, <1>2, ConnectingSpec DEF ControllerInv, ConnectTypeOK
<1>4. cudn' \in [Agents -> [Cudns -> Cudn \cup {NoCudn}]]
  BY <1>1 DEF ControllerInv, ConnectTypeOK
<1> QED
  BY <1>1, <1>2, <1>3, <1>4, EffectKept

-----------------------------------------------------------------------------
(* The end of a reconcile *)

(* A reconcile that takes the manager's result, or has called nothing, and *)
(* ends with or without a write of the MCNC.                               *)
LEMMA EndKept ==
  ASSUME ControllerInv, NEW a \in Agents, step[a] # "idle",
         pc[a] \in Results \cup {"idle"}, Forget(a),
         NEW again \in BOOLEAN, Finish(a, again),
         NEW obj \in Connect \cup {NoConnect},
         WriteConnect(item[a], obj) \/ UNCHANGED <<mcnc, cached>>,
         UNCHANGED <<writes, cache, localVars, crashes>>
  PROVE  Kept
<1>1. item[a] \in Connects
  BY DEF ControllerInv, CallerInv, HeldFitsStep
<1>2. [Next]_mcnVars
  BY ForgetsResult DEF ControllerInv, ManagerInv, CallerInv
<1>3. ConnectTypeOK'
  <2>1. /\ mcnc' \in [Connects -> Connect \cup {NoConnect}]
        /\ cached' \in [Connects -> BOOLEAN]
    BY <1>1, WriteType DEF ControllerInv
  <2> QED
    BY <1>1, <2>1, FinishType DEF ControllerInv, ConnectTypeOK, localVars
<1>4. CallerInv'
  BY ForgetIsLocal, FinishKeepsCaller DEF ControllerInv, ManagerInv
<1> QED
  BY <1>2, <1>3, <1>4 DEF Kept

(* The object with another phase that SetPhase writes, if it writes.       *)
LEMMA SetPhaseWrites ==
  ASSUME ControllerInv, NEW a \in Agents, step[a] # "idle",
         NEW p \in {"Connected", "Error"}, NEW o, SetPhase(a, p, o)
  PROVE  \E obj \in Connect \cup {NoConnect} :
           WriteConnect(item[a], obj) \/ UNCHANGED <<mcnc, cached>>
<1> DEFINE obj == [held[a] EXCEPT !.phase = p]
<1>1. held[a] \in Connect
  BY DEF ControllerInv, CallerInv, HeldFitsStep
<1>2. obj \in Connect
  BY <1>1, ConnectEdits DEF Connect
<1>3. WriteConnect(item[a], obj) \/ UNCHANGED <<mcnc, cached>>
  BY DEF SetPhase
<1> QED
  BY <1>2, <1>3

LEMMA SetConnectedKept ==
  ASSUME ControllerInv, NEW a \in Agents, SetConnected(a)
  PROVE  Kept
<1>1. /\ step[a] = "status" /\ Forget(a)
      /\ UNCHANGED <<writes, cache, localVars, crashes>>
  BY DEF SetConnected
<1>2. PICK o : SetPhase(a, "Connected", o)
                 /\ Finish(a, o # "written" \/ ~StatusSubresource)
  BY DEF SetConnected
<1>3. PICK obj \in Connect \cup {NoConnect} :
        WriteConnect(item[a], obj) \/ UNCHANGED <<mcnc, cached>>
  BY <1>1, <1>2, SetPhaseWrites
<1>4. pc[a] \in Results \cup {"idle"}
  BY <1>1 DEF ControllerInv, CallerInv, CallFitsStep, Results
<1> QED
  BY <1>1, <1>2, <1>3, <1>4, EndKept

LEMMA SetErrorKept ==
  ASSUME ControllerInv, NEW a \in Agents, SetError(a)
  PROVE  Kept
<1>1. /\ \/ step[a] = "error"
         \/ step[a] = "network" /\ pc[a] = "failed"
      /\ Forget(a) /\ Finish(a, TRUE)
      /\ UNCHANGED <<writes, cache, localVars, crashes>>
  BY Zenon DEF SetError
<1>2. PICK o : SetPhase(a, "Error", o)
  BY DEF SetError
<1>3. PICK obj \in Connect \cup {NoConnect} :
        WriteConnect(item[a], obj) \/ UNCHANGED <<mcnc, cached>>
  BY <1>1, <1>2, SetPhaseWrites
<1>4. pc[a] \in Results \cup {"idle"}
  BY <1>1 DEF ControllerInv, CallerInv, CallFitsStep, Results
<1> QED
  BY <1>1, <1>3, <1>4, EndKept

LEMMA RemoveConnectFinalizerKept ==
  ASSUME ControllerInv, NEW a \in Agents, RemoveConnectFinalizer(a)
  PROVE  Kept
<1>1. /\ (step[a] = "leave" /\ pc[a] \in Results) \/ step[a] = "release"
      /\ Forget(a)
      /\ UNCHANGED <<writes, cache, localVars, crashes>>
  BY DEF RemoveConnectFinalizer
<1>2. PICK o : /\ WriteConnect(item[a], NoConnect) \/ UNCHANGED <<mcnc, cached>>
               /\ Finish(a, o # "written")
  BY DEF RemoveConnectFinalizer
<1>3. pc[a] \in Results \cup {"idle"}
  BY <1>1 DEF ControllerInv, CallerInv, CallFitsStep
<1> QED
  BY <1>1, <1>2, <1>3, EndKept

-----------------------------------------------------------------------------
(* The clean-up *)

(* A leave is started for a network that has a name.                       *)
LEMMA StartLeaveKept ==
  ASSUME ControllerInv, NEW a \in Agents, step[a] \in {"unadvertise", "deleteCudn"},
         StartLeave(a), UNCHANGED <<userVars, cacheVars, crashes>>,
         cudn' \in [Agents -> [Cudns -> Cudn \cup {NoCudn}]],
         ra' \in [Agents -> SUBSET Cudns]
  PROVE  Kept
<1> DEFINE n == NetworkToLeave(held[a].spec)
<1>1. n \in Networks /\ pc[a] = "idle"
  BY SpecNames DEF ControllerInv, CallerInv, CallFitsStep, HeldFitsStep, Connect
<1>2. LeaveMCN(a, n) /\ Goto(a, "leave")
  BY DEF StartLeave, Wanted
<1> HIDE DEF n
<1>3. [Next]_mcnVars
  BY <1>1, <1>2 DEF Next
<1>4. ConnectTypeOK'
  BY <1>2
  DEF Goto, ControllerInv, ConnectTypeOK, ReconcileSteps, userVars, cacheVars
<1>5. CallerInv'
  BY <1>1, <1>2
  DEF LeaveMCN, Goto, ControllerInv, ManagerInv, TypeOK, ConnectTypeOK, CallerInv,
      CallFitsStep, NothingBetweenCalls, HeldFitsStep, JoinSteps
<1> QED
  BY <1>3, <1>4, <1>5 DEF Kept

LEMMA DeleteForCUDNKept ==
  ASSUME ControllerInv, NEW a \in Agents, DeleteForCUDN(a)
  PROVE  Kept
<1>1. /\ step[a] = "unadvertise" /\ UNCHANGED <<userVars, cacheVars, cudn, crashes>>
      /\ \/ Goto(a, "deleteCudn") /\ UNCHANGED mcnVars
         \/ StartLeave(a)
  BY DEF DeleteForCUDN
<1>2. ra' \in [Agents -> SUBSET Cudns]
  BY DEF DeleteForCUDN, ControllerInv, ConnectTypeOK
<1>3. cudn' \in [Agents -> [Cudns -> Cudn \cup {NoCudn}]]
  BY <1>1 DEF ControllerInv, ConnectTypeOK
<1>4. CASE Goto(a, "deleteCudn") /\ UNCHANGED mcnVars
  <2>1. pc[a] = "idle" /\ NetworkToLeave(held[a].spec) # NoName
    BY <1>1 DEF ControllerInv, CallerInv, CallFitsStep, HeldFitsStep
  <2>2. ConnectTypeOK'
    BY <1>1, <1>2, <1>4
    DEF Goto, ControllerInv, ConnectTypeOK, ReconcileSteps, userVars, cacheVars
  <2>3. CallerInv'
    BY <1>1, <1>4, <2>1, GotoKeepsCaller DEF ReconcileSteps, JoinSteps
  <2> QED
    BY <1>4, <2>2, <2>3 DEF Kept
<1>5. CASE StartLeave(a)
  BY <1>1, <1>2, <1>3, <1>5, StartLeaveKept
<1> QED
  BY <1>1, <1>4, <1>5

LEMMA TerminatingType ==
  ASSUME ConnectTypeOK, NEW a \in Agents, NEW u \in Cudns, cudn[a][u] # NoCudn
  PROVE  [cudn EXCEPT ![a][u].terminating = TRUE]
           \in [Agents -> [Cudns -> Cudn \cup {NoCudn}]]
<1> DEFINE marked == [cudn[a][u] EXCEPT !.terminating = TRUE]
<1>1. marked \in Cudn
  <2>1. cudn[a][u] \in Cudn
    BY DEF ConnectTypeOK
  <2> QED
    BY <2>1 DEF Cudn
<1> HIDE DEF marked
<1>2. [cudn EXCEPT ![a][u] = marked] \in [Agents -> [Cudns -> Cudn \cup {NoCudn}]]
  BY <1>1, CudnUpdateType
<1> QED
  BY <1>2 DEF marked

LEMMA DeleteCudnKept ==
  ASSUME ControllerInv, NEW a \in Agents, DeleteCudn(a)
  PROVE  Kept
<1> DEFINE u == CudnToDelete(Wanted(a))
<1>1. /\ step[a] = "deleteCudn" /\ UNCHANGED <<userVars, cacheVars, ra, crashes>>
      /\ StartLeave(a)
      /\ \/ cudn[a][u] # NoCudn /\ cudn' = [cudn EXCEPT ![a][u].terminating = TRUE]
         \/ UNCHANGED cudn
  BY DEF DeleteCudn
<1>2. u \in Cudns
  <2>1. held[a].spec \in ConnectSpec /\ NetworkToLeave(held[a].spec) \in Networks
    BY <1>1, SpecNames DEF ControllerInv, CallerInv, HeldFitsStep, Connect
  <2> QED
    BY <2>1, ControllerAssumption DEF Wanted, CudnToDelete, OwnName, ConnectSpec
<1> HIDE DEF u
<1>3. cudn' \in [Agents -> [Cudns -> Cudn \cup {NoCudn}]]
  <2>1. CASE cudn[a][u] # NoCudn /\ cudn' = [cudn EXCEPT ![a][u].terminating = TRUE]
    BY <1>2, <2>1, TerminatingType DEF ControllerInv
  <2>2. CASE UNCHANGED cudn
    BY <2>2 DEF ControllerInv, ConnectTypeOK
  <2> QED
    BY <1>1, <2>1, <2>2
<1>4. ra' \in [Agents -> SUBSET Cudns]
  BY <1>1 DEF ControllerInv, ConnectTypeOK
<1> QED
  BY <1>1, <1>3, <1>4, StartLeaveKept

LEMMA ReconcileStepKept ==
  ASSUME ControllerInv, NEW a \in Agents, ReconcileStep(a)
  PROVE  Kept
BY AddFinalizerKept, CheckNamespaceKept, ManagerStepKept, GetCudnKept, PatchCudnKept,
   CreateCudnKept, CreateForCUDNKept, SetConnectedKept, SetErrorKept, DeleteForCUDNKept,
   DeleteCudnKept, RemoveConnectFinalizerKept
DEF ReconcileStep

-----------------------------------------------------------------------------
(* The environment *)

LEMMA RestartKept ==
  ASSUME ControllerInv, NEW a \in Agents, Restart(a)
  PROVE  Kept
<1>1. Crashes /\ crashes' \in 0 .. MaxCrashes
  BY ControllerAssumption DEF Restart, ControllerInv, ConnectTypeOK
<1>2. Forget(a)
  BY DEF Restart
<1>3. [Next]_mcnVars
  <2>1. CASE pc[a] = "idle"
    BY <1>2, <2>1, ForgetsResult DEF ControllerInv, ManagerInv, CallerInv
  <2>2. CASE pc[a] # "idle"
    BY <1>1, <1>2, <2>2 DEF Crash, Next
  <2> QED
    BY <2>1, <2>2
<1>4. ConnectTypeOK'
  <2>1. /\ cache' \in [Connects -> Connect \cup {NoConnect}]
        /\ cached' \in [Connects -> BOOLEAN]
        /\ queue' \in [Agents -> SUBSET Connects]
    BY DEF Restart, ControllerInv, ConnectTypeOK
  <2>2. /\ step' \in [Agents -> {"idle"} \cup ReconcileSteps]
        /\ item' \in [Agents -> Connects \cup {NoConnect}]
        /\ held' \in [Agents -> Connect \cup {NoConnect}]
        /\ heldFresh' \in [Agents -> BOOLEAN]
    BY DEF Restart, ControllerInv, ConnectTypeOK
  <2>3. UNCHANGED <<mcnc, writes, cudn, ra>>
    BY DEF Restart, userVars, localVars
  <2> QED
    BY <1>1, <2>1, <2>2, <2>3 DEF ControllerInv, ConnectTypeOK
<1>5. /\ step' = [step EXCEPT ![a] = "idle"]
      /\ \A b \in Agents \ {a} : item'[b] = item[b] /\ held'[b] = held[b]
  BY DEF Restart, ControllerInv, ConnectTypeOK
<1>6. CallerInv'
  <2>1. /\ net' = net /\ pc'[a] = "idle" /\ step'[a] = "idle"
        /\ topo'[a] = NoTopology /\ copy'[a] = NoMCN /\ ~fresh'[a]
        /\ \A b \in Agents \ {a} :
             /\ pc'[b] = pc[b] /\ topo'[b] = topo[b] /\ copy'[b] = copy[b]
             /\ fresh'[b] => fresh[b]
             /\ step'[b] = step[b] /\ item'[b] = item[b] /\ held'[b] = held[b]
    BY <1>2, <1>5, ForgetIsLocal DEF ControllerInv, ManagerInv, ConnectTypeOK
  <2>2. CallFitsStep' /\ NothingBetweenCalls'
    BY <2>1 DEF ControllerInv, CallerInv, CallFitsStep, NothingBetweenCalls
  <2>3. HeldFitsStep'
    BY <2>1 DEF ControllerInv, CallerInv, HeldFitsStep, JoinSteps
  <2> QED
    BY <2>2, <2>3 DEF CallerInv
<1> QED
  BY <1>3, <1>4, <1>6 DEF Kept

(* Steps that leave reconciles and the manager alone.                      *)
LEMMA CallerUntouched ==
  ASSUME ControllerInv, UNCHANGED <<mcnVars, step, item, held>>
  PROVE  CallerInv'
BY DEF ControllerInv, CallerInv, CallFitsStep, NothingBetweenCalls, HeldFitsStep, mcnVars

LEMMA InformerKept ==
  ASSUME ControllerInv,
         (\E m \in Connects : WatchEvent(m)) \/ (\E a \in Agents : Resync(a))
  PROVE  Kept
<1>1. UNCHANGED <<mcnVars, userVars, workVars, localVars, crashes>>
  BY DEF WatchEvent, Resync
<1>2. /\ cache' \in [Connects -> Connect \cup {NoConnect}]
      /\ cached' \in [Connects -> BOOLEAN]
      /\ queue' \in [Agents -> SUBSET Connects]
  <2>1. ASSUME NEW m \in Connects, WatchEvent(m) PROVE <1>2!:
    <3>1. AgentOf[m] \in Agents
      BY ControllerAssumption
    <3> QED
      BY <2>1, <3>1 DEF WatchEvent, ControllerInv, ConnectTypeOK
  <2>2. ASSUME NEW a \in Agents, Resync(a) PROVE <1>2!:
    BY <2>2 DEF Resync, cacheVars, ControllerInv, ConnectTypeOK
  <2> QED
    BY <2>1, <2>2
<1>3. ConnectTypeOK'
  BY <1>1, <1>2 DEF ControllerInv, ConnectTypeOK, userVars, workVars, localVars
<1>4. CallerInv'
  BY <1>1, CallerUntouched DEF workVars
<1> QED
  BY <1>1, <1>3, <1>4 DEF Kept

LEMMA UserWritesKept ==
  ASSUME ControllerInv, NEW m \in Connects, NEW obj \in Connect \cup {NoConnect},
         UserWrites(m, obj), writes' \in [Connects -> Nat],
         \A k \in Connects : writes'[k] <= MaxWrites[k]
  PROVE  Kept
<1>1. UNCHANGED <<mcnVars, cache, queue, step, item, held, localVars, crashes>>
  BY DEF UserWrites
<1>2. heldFresh' \in [Agents -> BOOLEAN]
  BY DEF UserWrites, ControllerInv, ConnectTypeOK
<1>3. /\ mcnc' \in [Connects -> Connect \cup {NoConnect}]
      /\ cached' \in [Connects -> BOOLEAN]
  BY WriteType DEF UserWrites, ControllerInv
<1>4. ConnectTypeOK'
  BY <1>1, <1>2, <1>3 DEF ControllerInv, ConnectTypeOK, localVars
<1>5. CallerInv'
  BY <1>1, CallerUntouched
<1> QED
  BY <1>1, <1>4, <1>5 DEF Kept

LEMMA UsersKept ==
  ASSUME ControllerInv, NEW m \in Connects,
         CreateConnect(m) \/ EditConnect(m) \/ DeleteConnect(m)
  PROVE  Kept
<1>0. mcnc[m] # NoConnect => mcnc[m] \in Connect
  BY DEF ControllerInv, ConnectTypeOK
<1>1. ASSUME writes[m] < MaxWrites[m], writes' = [writes EXCEPT ![m] = @ + 1]
      PROVE  writes' \in [Connects -> Nat] /\ \A k \in Connects : writes'[k] <= MaxWrites[k]
  <2>1. writes \in [Connects -> Nat] /\ MaxWrites \in [Connects -> Nat]
        /\ \A k \in Connects : writes[k] <= MaxWrites[k]
    BY ControllerAssumption DEF ControllerInv, ConnectTypeOK
  <2>2. writes'[m] = writes[m] + 1 /\ \A k \in Connects \ {m} : writes'[k] = writes[k]
    BY <1>1, <2>1
  <2>3. writes'[m] <= MaxWrites[m]
    BY <1>1, <2>1, <2>2
  <2>4. writes' \in [Connects -> Nat]
    BY <1>1, <2>1
  <2> QED
    BY <2>1, <2>2, <2>3, <2>4
<1>2. CASE CreateConnect(m)
  <2>1. PICK s \in Specs[m] :
          UserWrites(m, [spec |-> s, finalizer |-> FALSE, deleting |-> FALSE, phase |-> ""])
    BY <1>2 DEF CreateConnect
  <2> DEFINE obj == [spec |-> s, finalizer |-> FALSE, deleting |-> FALSE, phase |-> ""]
  <2>2. obj \in Connect
    BY ControllerAssumption DEF Connect
  <2> HIDE DEF obj
  <2> QED
    BY <1>1, <1>2, <2>1, <2>2, UserWritesKept DEF CreateConnect, obj
<1>3. CASE EditConnect(m)
  <2>1. PICK s \in Specs[m] : UserWrites(m, [mcnc[m] EXCEPT !.spec = s])
    BY <1>3 DEF EditConnect
  <2> DEFINE obj == [mcnc[m] EXCEPT !.spec = s]
  <2>2. mcnc[m] \in Connect /\ s \in ConnectSpec
    BY <1>0, <1>3, ControllerAssumption DEF EditConnect
  <2>3. obj \in Connect
    BY <2>2, ConnectEdits
  <2>4. UserWrites(m, obj)
    BY <2>1
  <2>5. writes[m] < MaxWrites[m] /\ writes' = [writes EXCEPT ![m] = @ + 1]
    BY <1>3 DEF EditConnect
  <2> HIDE DEF obj
  <2> QED
    BY <1>1, <2>3, <2>4, <2>5, UserWritesKept
<1>4. CASE DeleteConnect(m)
  <2> DEFINE obj == IF mcnc[m].finalizer THEN [mcnc[m] EXCEPT !.deleting = TRUE]
                                         ELSE NoConnect
  <2>1. mcnc[m] \in Connect
    BY <1>0, <1>4 DEF DeleteConnect
  <2>2. obj \in Connect \cup {NoConnect}
    BY <2>1 DEF Connect
  <2>3. UserWrites(m, obj) /\ UNCHANGED writes
    BY <1>4 DEF DeleteConnect
  <2> HIDE DEF obj
  <2> QED
    BY <2>2, <2>3, UserWritesKept DEF ControllerInv, ConnectTypeOK
<1> QED
  BY <1>2, <1>3, <1>4

LEMMA CudnsKept ==
  ASSUME ControllerInv, NEW a \in Agents, NEW u \in Cudns,
         ChangeUserCudn(a, u) \/ CudnReleased(a, u)
  PROVE  Kept
<1>1. UNCHANGED <<mcnVars, userVars, cacheVars, queue, workVars, ra, crashes>>
  BY DEF ChangeUserCudn, CudnReleased
<1>2. PICK obj \in Cudn \cup {NoCudn} : cudn' = [cudn EXCEPT ![a][u] = obj]
  <2>1. UserCudns[u] \in Cudn
    BY ControllerAssumption DEF Cudn
  <2>2. CASE ChangeUserCudn(a, u)
    BY <2>1, <2>2 DEF ChangeUserCudn
  <2>3. CASE CudnReleased(a, u)
    BY <2>3 DEF CudnReleased
  <2> QED
    BY <2>2, <2>3
<1>3. cudn' \in [Agents -> [Cudns -> Cudn \cup {NoCudn}]]
  BY <1>2, CudnUpdateType DEF ControllerInv
<1>4. ConnectTypeOK'
  BY <1>1, <1>3 DEF ControllerInv, ConnectTypeOK, userVars, cacheVars, workVars
<1>5. CallerInv'
  BY <1>1, CallerUntouched DEF workVars
<1> QED
  BY <1>1, <1>4, <1>5 DEF Kept

LEMMA AdministratorKept ==
  ASSUME ControllerInv, NEW n \in Networks, AdminDeletesMCN(n)
  PROVE  Kept
<1>1. DeleteMCN(n) /\ UNCHANGED ctlVars
  BY DEF AdminDeletesMCN
<1>2. [Next]_mcnVars
  BY <1>1 DEF Next
<1>3. ConnectTypeOK'
  BY <1>1 DEF ctlVars, ControllerInv, ConnectTypeOK
<1>4. UNCHANGED <<pc, net, topo, copy>> /\ \A b \in Agents : fresh'[b] => fresh[b]
  BY <1>1 DEF DeleteMCN, Outdate
<1>5. CallerInv'
  BY <1>1, <1>4
  DEF ctlVars, ControllerInv, CallerInv, CallFitsStep, NothingBetweenCalls, HeldFitsStep
<1> QED
  BY <1>2, <1>3, <1>5 DEF Kept

-----------------------------------------------------------------------------
(* The theorems *)

LEMMA StepKept == ControllerInv /\ [ControllerNext]_vars => Kept
<1> SUFFICES ASSUME ControllerInv, [ControllerNext]_vars PROVE Kept
  OBVIOUS
<1>1. CASE UNCHANGED vars
  <2>1. UNCHANGED mcnVars /\ UNCHANGED ctlVars
    BY <1>1 DEF vars
  <2>2. ConnectTypeOK'
    BY <2>1 DEF ctlVars, ControllerInv, ConnectTypeOK
  <2>3. CallerInv'
    BY <2>1, CallerUntouched DEF ctlVars
  <2> QED
    BY <2>1, <2>2, <2>3 DEF Kept
<1> QED
  BY <1>1, ReconcileStepKept, ReconcileKept, InformerKept, RestartKept, CudnsKept,
     UsersKept, AdministratorKept
  DEF ControllerNext

LEMMA ControllerInductive ==
  ControllerInv /\ [ControllerNext]_vars => ControllerInv' /\ [Next]_mcnVars
BY StepKept, TypeInductive, CopyInductive DEF ControllerInv, ManagerInv, Kept

LEMMA ControllerInitially == ControllerInit => ControllerInv
<1> SUFFICES ASSUME ControllerInit PROVE ControllerInv
  OBVIOUS
<1>1. ManagerInv
  BY ConstantsAssumption
  DEF ControllerInit, Init, ManagerInv, TypeOK, CopyInv, FreshIsCurrent, CopyFitsCall,
      TopologyChecked
<1>2. ConnectTypeOK
  <2>1. \A u \in Cudns : UserCudns[u] \in Cudn
    BY ControllerAssumption DEF Cudn
  <2>2. cudn \in [Agents -> [Cudns -> Cudn \cup {NoCudn}]]
    BY <2>1 DEF ControllerInit
  <2> QED
    BY <2>2, ControllerAssumption DEF ControllerInit, ConnectTypeOK
<1>3. CallerInv
  BY DEF ControllerInit, Init, CallerInv, CallFitsStep, NothingBetweenCalls,
         HeldFitsStep, JoinSteps
<1> QED
  BY <1>1, <1>2, <1>3 DEF ControllerInv

(* The invariant, for every spec that users may write, whatever they edit  *)
(* and delete in the meantime.                                             *)
THEOREM ControllerInvariant == ControllerSpec => []ControllerInv
<1>1. ControllerInit => ControllerInv
  BY ControllerInitially
<1>2. ControllerInv /\ [ControllerNext]_vars => ControllerInv'
  BY ControllerInductive
<1> QED
  BY <1>1, <1>2, PTL DEF ControllerSpec

(* Every variable of the controller has its type: reconcile, handleDelete  *)
(* and their error paths never write an object or a CUDN that the CRDs     *)
(* would not admit.                                                        *)
THEOREM ControllerTypeCorrect == ControllerSpec => []ControllerTypeOK
<1>1. ControllerInv => ControllerTypeOK
  BY DEF ControllerInv, ManagerInv, ConnectTypeOK, ControllerTypeOK
<1> QED
  BY <1>1, ControllerInvariant, PTL

(* The controller is a caller as MCNManager expects it: reconcileMCN and   *)
(* handleDelete start one call at a time, for a network with a name, and   *)
(* wait for its result.                                                    *)
THEOREM ControllerImplementsManager == ControllerSpec => ManagerSpec
<1>1. ControllerInit => Init
  BY DEF ControllerInit
<1>2. ControllerInv /\ [ControllerNext]_vars => [Next]_mcnVars
  BY ControllerInductive
<1> QED
  BY <1>1, <1>2, ControllerInvariant, PTL DEF ControllerSpec, ManagerSpec, Spec

(* So the manager's theorems hold for the composition: what agents do with *)
(* their controllers is a use of the abstract registry, VNIs do not change *)
(* and nobody touches another cluster's membership.                        *)
THEOREM PromisesHoldInComposition ==
  ControllerSpec => VniStable /\ OwnMembershipOnly /\ RegistrySpec
                      /\ []JoinedIsMember /\ []LeftIsNoMember
BY ControllerImplementsManager, VniIsStable, MembershipOwned, ManagerImplementsRegistry,
   JoinedStaysMember, LeftStaysOutside, PTL
DEF ManagerSpec

(* ConnectingIsMember, for any number of clusters and networks: from the   *)
(* manager's promise about a joined network, and that a reconcile which    *)
(* came this far has the result of such a call (CallFitsStep).             *)
THEOREM ConnectsOnlyMembers == ControllerSpec => []ConnectingIsMember
<1>1. ASSUME ControllerInv, JoinedIsMember
      PROVE  ConnectingIsMember
  <2> SUFFICES ASSUME NEW a \in Agents,
                      step[a] \in {"patch", "create", "advertise", "status"}
               PROVE  ClusterOf[a] \in Members(net[a]) /\ broker[net[a]].vni = copy[a].vni
    BY <1>1 DEF ConnectingIsMember, ControllerInv, CallerInv, HeldFitsStep, JoinSteps
  <2>1. pc[a] = "joined"
    BY <1>1 DEF ControllerInv, CallerInv, CallFitsStep
  <2>2. OnlyAgent(a)
    BY ControllerAssumption DEF OnlyAgent
  <2> QED
    BY <1>1, <2>1, <2>2 DEF JoinedIsMember
<1> QED
  BY <1>1, ControllerInvariant, PromisesHoldInComposition, PTL
=============================================================================
