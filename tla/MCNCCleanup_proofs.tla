------------------------- MODULE MCNCCleanup_proofs -------------------------
(***************************************************************************)
(* What handleDelete leaves behind: nothing, if its calls succeed and the  *)
(* users' edits keep the names in a spec. For any number of clusters,      *)
(* networks, MCNCs and CUDNs, with restarts, old caches, failing updates   *)
(* of the MCNC, MCNCs that share a CUDN or a network, and users who delete *)
(* and create MCNCs and CUDNs under the same names.                        *)
(***************************************************************************)
EXTENDS MCNCReconcile_proofs

(* The specs for which handleDelete looks for what reconcileMCNC made: it  *)
(* derives the names from the spec again, with other preferences, and from *)
(* the spec as it is now. Without the first, MCNC_both_ways.cfg reproduces *)
(* what is left behind, without the second MCNC_edit_leak.cfg.             *)
NamesNetwork(s) == NetworkToJoin(s) # NoName
NamesCudn(s) == s.local # NoName \/ s.own # NoName

FindsWhatItMade(s) ==
  /\ NetworkToLeave(s) = NetworkToJoin(s)
  /\ NamesCudn(s) => CudnToDelete(s) = CudnToUse(s)

KeepsNames(s, t) == NetworkToJoin(t) = NetworkToJoin(s) /\ CudnToUse(t) = CudnToUse(s)

NamesKept ==
  \A m \in Connects : \A s, t \in Specs[m] : FindsWhatItMade(s) /\ KeepsNames(s, t)

-----------------------------------------------------------------------------
(* Whose step it is *)

(* Another agent's step, an informer's, a user's or the administrator's    *)
(* leaves a reconcile of agent a where it is.                              *)
OwnStep(a) ==
  ReconcileStep(a) \/ Restart(a) \/ \E m \in Connects : Reconcile(a, m)

StandsStill(a) ==
  /\ step'[a] = step[a] /\ item'[a] = item[a] /\ held'[a] = held[a]
  /\ pc'[a] = pc[a] /\ net'[a] = net[a] /\ copy'[a] = copy[a]
  /\ ra'[a] = ra[a]
  /\ \/ cudn'[a] = cudn[a]
     \/ UNCHANGED broker /\ \E u \in Cudns : ChangeUserCudn(a, u) \/ CudnReleased(a, u)

LEMMA OthersReconcile ==
  ASSUME ControllerInv, NEW a \in Agents, NEW b \in Agents, a # b, OwnStep(b)
  PROVE  StandsStill(a)
<1> USE DEF ControllerInv, ManagerInv, ConnectTypeOK, TypeOK
<1>1. CASE AddFinalizer(b)
  BY <1>1 DEF AddFinalizer, Finish, StandsStill, mcnVars, localVars
<1>2. CASE CheckNamespace(b)
  BY <1>2 DEF CheckNamespace, CreateOrJoinMCN, Goto, StandsStill, mcnVars, localVars
<1>3. CASE ManagerStep(b) /\ UNCHANGED ctlVars
  BY <1>3, ManagerStepIsLocal DEF StandsStill, ctlVars
<1>4. CASE GetCudn(b)
  BY <1>4 DEF GetCudn, Goto, StandsStill, mcnVars, localVars
<1>5. CASE PatchCudn(b) \/ CreateCudn(b) \/ CreateForCUDN(b)
  BY <1>5 DEF PatchCudn, CreateCudn, CreateForCUDN, EffectThen, Goto, StandsStill, mcnVars
<1>6. CASE SetConnected(b) \/ SetError(b) \/ RemoveConnectFinalizer(b)
  BY <1>6, ForgetIsLocal
  DEF SetConnected, SetError, RemoveConnectFinalizer, Finish, StandsStill, localVars
<1>7. CASE DeleteForCUDN(b) \/ DeleteCudn(b)
  BY <1>7
  DEF DeleteForCUDN, DeleteCudn, StartLeave, LeaveMCN, Goto, StandsStill, mcnVars
<1>8. CASE Restart(b)
  BY <1>8, ForgetIsLocal DEF Restart, StandsStill, localVars
<1>9. ASSUME NEW m \in Connects, Reconcile(b, m) PROVE StandsStill(a)
  BY <1>9 DEF Reconcile, workVars, StandsStill, mcnVars, localVars
<1> QED
  BY <1>1, <1>2, <1>3, <1>4, <1>5, <1>6, <1>7, <1>8, <1>9 DEF OwnStep, ReconcileStep

LEMMA OwnStepOrStill ==
  ASSUME ControllerInv, [ControllerNext]_vars, NEW a \in Agents
  PROVE  OwnStep(a) \/ StandsStill(a)
<1> USE DEF ControllerInv, ManagerInv, ConnectTypeOK, TypeOK
<1>1. ASSUME NEW b \in Agents, OwnStep(b) PROVE OwnStep(a) \/ StandsStill(a)
  BY <1>1, OthersReconcile
<1>2. ASSUME NEW b \in Agents, Resync(b) PROVE StandsStill(a)
  BY <1>2 DEF Resync, StandsStill, mcnVars, workVars, localVars
<1>3. ASSUME NEW b \in Agents, NEW u \in Cudns, ChangeUserCudn(b, u) \/ CudnReleased(b, u)
      PROVE  StandsStill(a)
  BY <1>3 DEF ChangeUserCudn, CudnReleased, StandsStill, mcnVars, workVars
<1>4. ASSUME NEW m \in Connects,
             WatchEvent(m) \/ CreateConnect(m) \/ EditConnect(m) \/ DeleteConnect(m)
      PROVE  StandsStill(a)
  BY <1>4 DEF WatchEvent, CreateConnect, EditConnect, DeleteConnect, UserWrites,
              StandsStill, mcnVars, workVars, localVars
<1>5. ASSUME NEW n \in Networks, AdminDeletesMCN(n) PROVE StandsStill(a)
  BY <1>5 DEF AdminDeletesMCN, DeleteMCN, StandsStill, ctlVars
<1>6. CASE UNCHANGED vars
  BY <1>6 DEF vars, mcnVars, ctlVars, StandsStill
<1> QED
  BY <1>1, <1>2, <1>3, <1>4, <1>5, <1>6 DEF ControllerNext, OwnStep

(* Only the update that ends handleDelete, and only after its other calls, *)
(* takes the finalizer off an MCNC.                                        *)
LEMMA GuardLost ==
  ASSUME ControllerInv, ReconcileInv, [ControllerNext]_vars, NEW m \in Connects,
         Guarded(m), ~Guarded(m)'
  PROVE  item[AgentOf[m]] = m /\ RemoveConnectFinalizer(AgentOf[m])
<1>0. mcnc[m] \in Connect /\ mcnc[m].finalizer
  BY DEF Guarded, Exists, ControllerInv, ConnectTypeOK
<1>1. mcnc' # mcnc
  BY DEF Guarded, Exists
<1>2. ASSUME NEW a \in Agents, NEW again \in BOOLEAN, EndsWith(a, again),
             ~RemoveConnectFinalizer(a),
             AddFinalizer(a) \/ SetConnected(a) \/ SetError(a)
      PROVE  FALSE
  <2>1. ~held[a].deleting
    BY <1>2 DEF AddFinalizer, SetConnected, SetError, ReconcileInv, PathInv, ConnectPath, Live
  <2>2. PICK new : /\ heldFresh[a] /\ WriteConnect(item[a], new)
                   /\ new \in Connect /\ (held[a].finalizer => new.finalizer)
    BY <1>1, <1>2, <2>1 DEF EndsWith, NextVersion
  <2>3. item[a] \in Connects /\ held[a] = mcnc[item[a]]
    BY <1>2, <2>2 DEF EndsWith, ControllerInv, CallerInv, HeldFitsStep, ReconcileInv, HeldInv
  <2> QED
    BY <1>0, <2>2, <2>3, ControllerAssumption
    DEF WriteConnect, Guarded, Exists, ControllerInv, ConnectTypeOK
<1>3. ASSUME NEW k \in Connects, CreateConnect(k) \/ EditConnect(k) \/ DeleteConnect(k)
      PROVE  FALSE
  <2>1. k = m
    BY <1>3 DEF CreateConnect, EditConnect, DeleteConnect, UserWrites, WriteConnect,
                Guarded, Exists, ControllerInv, ConnectTypeOK
  <2>2. CASE EditConnect(k)
    <3>1. PICK s \in Specs[m] : mcnc' = [mcnc EXCEPT ![m] = [mcnc[m] EXCEPT !.spec = s]]
      BY <2>1, <2>2 DEF EditConnect, UserWrites, WriteConnect
    <3> DEFINE new == [mcnc[m] EXCEPT !.spec = s]
    <3>2. s \in ConnectSpec
      BY ControllerAssumption
    <3>3. new \in Connect /\ new.finalizer
      BY <1>0, <3>2 DEF Connect
    <3>4. mcnc'[m] = new
      BY <3>1 DEF ControllerInv, ConnectTypeOK
    <3> HIDE DEF new
    <3> QED
      BY <3>3, <3>4, ControllerAssumption DEF Guarded, Exists
  <2>3. CASE DeleteConnect(k)
    <3> DEFINE new == [mcnc[m] EXCEPT !.deleting = TRUE]
    <3>1. mcnc'[m] = new
      BY <1>0, <2>1, <2>3
      DEF DeleteConnect, UserWrites, WriteConnect, ControllerInv, ConnectTypeOK
    <3>2. new \in Connect /\ new.finalizer
      BY <1>0 DEF Connect
    <3> HIDE DEF new
    <3> QED
      BY <3>1, <3>2, ControllerAssumption DEF Guarded, Exists
  <2> QED
    BY <1>3, <2>1, <2>2, <2>3 DEF CreateConnect, Guarded, Exists
<1>4. ASSUME NEW a \in Agents, RemoveConnectFinalizer(a)
      PROVE  item[AgentOf[m]] = m /\ RemoveConnectFinalizer(AgentOf[m])
  <2>1. step[a] # "idle" /\ \E obj : WriteConnect(item[a], obj)
    BY <1>1, <1>4 DEF RemoveConnectFinalizer
  <2>2. item[a] \in Connects /\ AgentOf[item[a]] = a
    BY <2>1 DEF ControllerInv, CallerInv, HeldFitsStep, ReconcileInv, HeldInv
  <2>3. item[a] = m
    BY <1>1, <2>1, <2>2 DEF WriteConnect, Guarded, Exists, ControllerInv, ConnectTypeOK
  <2> QED
    BY <1>4, <2>2, <2>3
<1> QED
  BY <1>1, <1>2, <1>3, <1>4, EndingSteps
  DEF ControllerNext, ReconcileStep, Reconcile, Restart, Resync, ChangeUserCudn,
      CudnReleased, AdminDeletesMCN, WatchEvent, CheckNamespace, GetCudn, PatchCudn,
      CreateCudn, CreateForCUDN, DeleteForCUDN, DeleteCudn, userVars, ctlVars, vars
(* How a reconcile gets to the calls of handleDelete.                      *)
LEMMA CleanupStep ==
  ASSUME ControllerInv, ReconcileInv, [ControllerNext]_vars, NEW a \in Agents,
         step'[a] \in {"deleteCudn", "leave"}
  PROVE  /\ item'[a] = item[a] /\ held'[a] = held[a] /\ step[a] # "idle"
         /\ \/ step[a] = "unadvertise" /\ DeleteForCUDN(a)
            \/ step[a] = "deleteCudn" /\ DeleteCudn(a)
            \/ step'[a] = step[a] /\ ra'[a] = ra[a]
<1> USE DEF ControllerInv, ConnectTypeOK
<1>1. CASE StandsStill(a)
  BY <1>1 DEF StandsStill
<1>2. CASE AddFinalizer(a) \/ SetConnected(a) \/ SetError(a) \/ RemoveConnectFinalizer(a)
  BY <1>2, EndingSteps DEF EndsWith, Finish
<1>3. CASE CheckNamespace(a) \/ GetCudn(a) \/ PatchCudn(a) \/ CreateCudn(a) \/ CreateForCUDN(a)
  BY <1>3, AfterGetCudnSteps
  DEF CheckNamespace, GetCudn, PatchCudn, CreateCudn, CreateForCUDN, EffectThen, Goto
<1>4. CASE step[a] \in {"network", "leave"} /\ ManagerStep(a) /\ UNCHANGED ctlVars
  BY <1>4 DEF ctlVars
<1>5. CASE DeleteForCUDN(a)
  BY <1>5 DEF DeleteForCUDN, StartLeave, Goto
<1>6. CASE DeleteCudn(a)
  BY <1>6 DEF DeleteCudn, StartLeave, Goto
<1>7. CASE Restart(a)
  BY <1>7 DEF Restart
<1>8. ASSUME NEW m \in Connects, Reconcile(a, m)
      PROVE  FALSE
  <2>1. step[a] = "idle" /\ (step' = step \/ step'[a] = FirstStep(cache[m]))
    BY <1>8 DEF Reconcile, workVars
  <2>2. FirstStep(cache[m]) \notin {"deleteCudn", "leave"}
    BY FirstStepOnPath
  <2> QED
    BY <2>1, <2>2
<1> QED
  BY <1>1, <1>2, <1>3, <1>4, <1>5, <1>6, <1>7, <1>8, OwnStepOrStill
  DEF OwnStep, ReconcileStep

(* How a reconcile gets to the calls that connect.                         *)
LEMMA ConnectStep ==
  ASSUME ControllerInv, ReconcileInv, [ControllerNext]_vars, NEW a \in Agents,
         step'[a] \in {"patch", "create", "advertise", "status"}
  PROVE  /\ item'[a] = item[a] /\ held'[a] = held[a] /\ step[a] # "idle"
         /\ copy'[a] = copy[a] /\ net'[a] = net[a]
         /\ \/ StandsStill(a)
            \/ step[a] = "network" /\ GetCudn(a) /\ step'[a] = AfterGetCudn(a)
            \/ step[a] = "patch" /\ step'[a] = "advertise" /\ PatchCudn(a)
            \/ step[a] = "create" /\ step'[a] = "advertise" /\ CreateCudn(a)
            \/ step[a] = "advertise" /\ step'[a] = "status" /\ CreateForCUDN(a)
<1> USE DEF ControllerInv, ConnectTypeOK
<1>1. CASE StandsStill(a)
  BY <1>1 DEF StandsStill
<1>2. CASE AddFinalizer(a) \/ SetConnected(a) \/ SetError(a) \/ RemoveConnectFinalizer(a)
  BY <1>2, EndingSteps DEF EndsWith, Finish
<1>3. CASE GetCudn(a)
  BY <1>3 DEF GetCudn, Goto, mcnVars
<1>4. CASE PatchCudn(a) \/ CreateCudn(a) \/ CreateForCUDN(a)
  BY <1>4 DEF PatchCudn, CreateCudn, CreateForCUDN, EffectThen, Goto, mcnVars
<1>5. CASE step[a] \in {"network", "leave"} /\ ManagerStep(a) /\ UNCHANGED ctlVars
  BY <1>5 DEF ctlVars
<1>6. CASE CheckNamespace(a) \/ DeleteForCUDN(a) \/ DeleteCudn(a)
  BY <1>6 DEF CheckNamespace, DeleteForCUDN, DeleteCudn, StartLeave, Goto
<1>7. CASE Restart(a)
  BY <1>7 DEF Restart
<1>8. ASSUME NEW m \in Connects, Reconcile(a, m)
      PROVE  FALSE
  <2>1. step[a] = "idle" /\ (step' = step \/ step'[a] = FirstStep(cache[m]))
    BY <1>8 DEF Reconcile, workVars
  <2>2. FirstStep(cache[m]) \notin {"patch", "create", "advertise", "status"}
    BY FirstStepOnPath
  <2> QED
    BY <2>1, <2>2
<1> QED
  BY <1>1, <1>2, <1>3, <1>4, <1>5, <1>6, <1>7, <1>8, OwnStepOrStill
  DEF OwnStep, ReconcileStep

-----------------------------------------------------------------------------
(* What the names in two versions of a spec have to do with each other *)

LEMMA SameNames ==
  ASSUME NamesKept, NEW m \in Connects, NEW s \in Specs[m], NEW t \in Specs[m]
  PROVE  /\ NetworkToJoin(t) = NetworkToJoin(s) /\ CudnToUse(t) = CudnToUse(s)
         /\ NetworkToLeave(s) = NetworkToJoin(s)
         /\ NamesCudn(s) => CudnToDelete(s) = CudnToUse(s)
BY DEF NamesKept, KeepsNames, FindsWhatItMade

(* The name of a CUDN comes from the part of the spec for it.              *)
LEMMA CudnIsNamed ==
  ASSUME NEW s \in ConnectSpec, CudnToUse(s) \in Cudns
  PROVE  NamesCudn(s) /\ (s.own = NoName => s.local = CudnToUse(s))
BY ControllerAssumption DEF CudnToUse, OwnName, NamesCudn, ConnectSpec

(* The specs at hand are specs of the MCNC they are said to be of.         *)
LEMMA SpecsAtHand ==
  ASSUME ControllerInv, ReconcileInv
  PROVE  /\ \A m \in Connects : Exists(m) => mcnc[m].spec \in Specs[m]
         /\ \A a \in Agents : step[a] # "idle" =>
              /\ item[a] \in Connects /\ AgentOf[item[a]] = a
              /\ held[a] \in Connect /\ held[a].spec \in Specs[item[a]]
         /\ \A m \in Connects : Specs[m] \subseteq ConnectSpec
BY ControllerAssumption
DEF ControllerInv, CallerInv, HeldFitsStep, ReconcileInv, HeldInv, CacheInv, Exists

(* There is an MCNC in the agent's cluster, with its finalizer, that asks  *)
(* for the CUDN u.                                                         *)
WantedBy(a, u) ==
  \E m \in Connects :
    /\ AgentOf[m] = a /\ Guarded(m)
    /\ NamesNetwork(mcnc[m].spec) /\ CudnToUse(mcnc[m].spec) = u

(* The MCNC that a reconcile makes something for is there.                 *)
LEMMA MadeFor ==
  ASSUME NamesKept, ControllerInv, ReconcileInv, UNCHANGED mcnc, NEW a \in Agents,
         step[a] \in {"create", "advertise"}, NEW u, u = CudnToUse(held[a].spec)
  PROVE  WantedBy(a, u)'
<1> DEFINE m == item[a]
<1>1. m \in Connects /\ AgentOf[m] = a /\ held[a].spec \in Specs[m]
  BY SpecsAtHand
<1>2. Guarded(m) /\ NamesNetwork(held[a].spec)
  BY DEF ReconcileInv, PathInv, HeldInv, ConnectPath, ControllerInv, CallerInv,
         HeldFitsStep, JoinSteps, NamesNetwork
<1>3. mcnc[m].spec \in Specs[m]
  BY <1>1, <1>2, SpecsAtHand DEF Guarded
<1> HIDE DEF m
<1>4. CudnToUse(mcnc[m].spec) = u /\ NamesNetwork(mcnc[m].spec)
  BY <1>1, <1>2, <1>3, SameNames DEF NamesNetwork
<1> QED
  BY <1>1, <1>2, <1>4 DEF WantedBy, Guarded, Exists

(* An MCNC that a CUDN or a RouteAdvertisement is for stays there, unless  *)
(* it is being cleaned up after.                                           *)
LEMMA StillFor ==
  ASSUME NamesKept, ControllerInv, ReconcileInv, ReconcileInv', [ControllerNext]_vars,
         NEW a \in Agents, NEW u \in Cudns, WantedBy(a, u),
         step[a] = "leave" => CudnToUse(held[a].spec) # u
  PROVE  WantedBy(a, u)'
<1>1. PICK m \in Connects : /\ AgentOf[m] = a /\ Guarded(m)
                           /\ NamesNetwork(mcnc[m].spec) /\ CudnToUse(mcnc[m].spec) = u
  BY DEF WantedBy
<1>2. CASE Guarded(m)'
  <2>1. mcnc[m].spec \in Specs[m] /\ mcnc'[m].spec \in Specs[m]
    BY <1>1, <1>2 DEF ReconcileInv, CacheInv, Guarded, Exists
  <2>2. CudnToUse(mcnc'[m].spec) = u /\ NamesNetwork(mcnc'[m].spec)
    BY <1>1, <2>1, SameNames DEF NamesNetwork
  <2> QED
    BY <1>1, <1>2, <2>2 DEF WantedBy
<1>3. CASE ~Guarded(m)'
  <2>1. item[a] = m /\ step[a] \in {"leave", "release"}
    BY <1>1, <1>3, GuardLost DEF RemoveConnectFinalizer
  <2>2. held[a].spec \in Specs[m] /\ mcnc[m].spec \in Specs[m]
    BY <1>1, <2>1, SpecsAtHand DEF Guarded
  <2>3. step[a] # "release"
    <3>1. NetworkToLeave(held[a].spec) = NetworkToJoin(mcnc[m].spec)
      BY <2>2, SameNames
    <3> QED
      BY <1>1, <3>1 DEF ReconcileInv, PathInv, NamesNetwork
  <2>4. CudnToUse(held[a].spec) = u
    BY <1>1, <2>2, SameNames
  <2> QED
    BY <2>1, <2>3, <2>4
<1> QED
  BY <1>2, <1>3

-----------------------------------------------------------------------------
(* RouteAdvertisements *)

(* handleDelete's call to delete a RouteAdvertisement did so.              *)
UnadvertiseSucceeds ==
  \A a \in Agents :
    step[a] = "unadvertise" /\ step'[a] \in {"deleteCudn", "leave"} =>
      CudnToDelete(held[a].spec) \notin ra'[a]

RaInv ==
  \A a \in Agents :
    /\ \A u \in ra[a] : WantedBy(a, u)
    /\ step[a] \in {"deleteCudn", "leave"} => CudnToUse(held[a].spec) \notin ra[a]

(* Only CreateForCUDN adds one, for an MCNC with a finalizer.              *)
LEMMA AdvertisementAdded ==
  ASSUME ControllerInv, ReconcileInv, [ControllerNext]_vars, NEW a \in Agents,
         NEW u \in ra'[a], u \notin ra[a]
  PROVE  /\ step[a] = "advertise" /\ step'[a] \in {"status", "error"}
         /\ u = CudnToUse(held[a].spec)
         /\ UNCHANGED mcnc
<1> USE DEF ControllerInv, ConnectTypeOK
<1>1. CASE CreateForCUDN(a)
  BY <1>1 DEF CreateForCUDN, EffectThen, Goto, Wanted, userVars
<1>2. CASE DeleteForCUDN(a)
  BY <1>2 DEF DeleteForCUDN
<1> QED
  BY <1>1, <1>2, OwnStepOrStill
  DEF OwnStep, StandsStill, ReconcileStep, AddFinalizer, CheckNamespace, GetCudn,
      PatchCudn, CreateCudn, SetConnected, SetError, DeleteCudn, RemoveConnectFinalizer,
      Restart, Reconcile, localVars, ctlVars

LEMMA RaInductive ==
  ASSUME NamesKept, ControllerInv, ReconcileInv, RaInv, [ControllerNext]_vars,
         UnadvertiseSucceeds, ReconcileInv', ControllerInv'
  PROVE  RaInv'
<1>1. ASSUME NEW a \in Agents, NEW u \in ra'[a] PROVE WantedBy(a, u)'
  <2>1. CASE u \notin ra[a]
    BY <1>1, <2>1, AdvertisementAdded, MadeFor
  <2>2. CASE u \in ra[a]
    <3>1. WantedBy(a, u) /\ (step[a] = "leave" => CudnToUse(held[a].spec) # u)
      BY <2>2 DEF RaInv
    <3>2. u \in Cudns
      BY <2>2 DEF ControllerInv, ConnectTypeOK
    <3> QED
      BY <3>1, <3>2, StillFor
  <2> QED
    BY <2>1, <2>2
<1>2. ASSUME NEW a \in Agents, step'[a] \in {"deleteCudn", "leave"}
      PROVE  CudnToUse(held'[a].spec) \notin ra'[a]
  <2>1. held'[a] = held[a] /\ step[a] # "idle"
    BY <1>2, CleanupStep
  <2> DEFINE s == held[a].spec
  <2>2. s \in Specs[item[a]] /\ item[a] \in Connects /\ s \in ConnectSpec
    BY <2>1, SpecsAtHand
  <2>3. CASE step[a] = "unadvertise"
    <3>1. CudnToDelete(s) \notin ra'[a]
      BY <1>2, <2>3 DEF UnadvertiseSucceeds
    <3>2. CASE CudnToUse(s) \in Cudns
      BY <2>1, <2>2, <3>1, <3>2, CudnIsNamed, SameNames
    <3>3. CASE CudnToUse(s) \notin Cudns
      BY <2>1, <3>3 DEF ControllerInv, ConnectTypeOK
    <3> QED
      BY <3>2, <3>3
  <2>4. CASE step[a] # "unadvertise"
    <3>1. step[a] \in {"deleteCudn", "leave"}
      BY <1>2, <2>4, CleanupStep
    <3>2. ra'[a] \subseteq ra[a]
      BY <3>1, AdvertisementAdded
    <3> QED
      BY <2>1, <3>1, <3>2 DEF RaInv
  <2> QED
    BY <2>3, <2>4
<1> QED
  BY <1>1, <1>2 DEF RaInv

(* No RouteAdvertisement is left when the MCNC is gone, as long as the     *)
(* calls that delete them succeed: even if a RouteAdvertisement was made   *)
(* by a reconcile that failed or was cut short afterwards, or the MCNC was *)
(* deleted and made again before the agent saw it.                         *)
THEOREM AdvertisementsAreOwned ==
  ASSUME NamesKept
  PROVE  ControllerSpec /\ [][UnadvertiseSucceeds]_vars => []AdvertisementsOwned
<1>1. ControllerInit => RaInv
  BY DEF ControllerInit, RaInv
<1>2. /\ ControllerInv /\ ReconcileInv /\ RaInv /\ ControllerInv' /\ ReconcileInv'
      /\ [ControllerNext]_vars /\ [UnadvertiseSucceeds]_vars
      => RaInv'
  <2> SUFFICES ASSUME ControllerInv, ReconcileInv, RaInv, ControllerInv', ReconcileInv',
                      [ControllerNext]_vars, [UnadvertiseSucceeds]_vars
               PROVE  RaInv'
    OBVIOUS
  <2>1. CASE UNCHANGED vars
    BY <2>1 DEF vars, ctlVars, RaInv, WantedBy, Guarded, Exists
  <2> QED
    BY <2>1, RaInductive
<1>3. RaInv => AdvertisementsOwned
  BY DEF RaInv, WantedBy, AdvertisementsOwned
<1> QED
  BY <1>1, <1>2, <1>3, ControllerInvariant, ReconcileInvariant, PTL DEF ControllerSpec
-----------------------------------------------------------------------------
(* CUDNs *)

(* Who changes a CUDN, and to what.                                        *)
CudnChanges(a, u) ==
  \/ /\ step[a] = "patch" /\ step'[a] \in {"advertise", "error"}
     /\ u = CudnToUse(held[a].spec) /\ cudn[a][u] # NoCudn
     /\ cudn'[a][u] = [cudn[a][u] EXCEPT !.vni = copy[a].vni]
     /\ UNCHANGED <<mcnVars, mcnc>>
  \/ /\ step[a] = "create" /\ step'[a] \in {"advertise", "error"}
     /\ u = CudnToUse(held[a].spec) /\ cudn[a][u] = NoCudn
     /\ cudn'[a][u] = [topology |-> held[a].spec.cudnTopology, vni |-> copy[a].vni,
                       terminating |-> FALSE]
     /\ UNCHANGED <<mcnVars, mcnc>>
  \/ /\ step[a] = "deleteCudn" /\ step'[a] = "leave"
     /\ u = CudnToDelete(held[a].spec) /\ cudn[a][u] # NoCudn
     /\ cudn'[a][u] = [cudn[a][u] EXCEPT !.terminating = TRUE]
  \/ /\ CudnChurn /\ ChangeUserCudn(a, u)
     /\ cudn'[a][u] \in {UserCudns[u], NoCudn}
  \/ /\ cudn[a][u] # NoCudn /\ cudn[a][u].terminating
     /\ CudnReleased(a, u)
     /\ cudn'[a][u] = NoCudn

LEMMA CudnChange ==
  ASSUME ControllerInv, [ControllerNext]_vars, NEW a \in Agents, NEW u \in Cudns,
         cudn'[a][u] # cudn[a][u]
  PROVE  CudnChanges(a, u)
<1> USE DEF ControllerInv, ConnectTypeOK
<1>1. CASE PatchCudn(a)
  <2> DEFINE v == CudnToUse(held[a].spec)
  <2>1. /\ step[a] = "patch" /\ UNCHANGED <<mcnVars, mcnc>>
        /\ cudn[a][v] # NoCudn /\ cudn' = [cudn EXCEPT ![a][v].vni = copy[a].vni]
        /\ \E s \in {"advertise", "error"} : Goto(a, s)
    BY <1>1 DEF PatchCudn, EffectThen, LocalCudn, Wanted, userVars
  <2> HIDE DEF v
  <2>2. u = v /\ cudn'[a][v] = [cudn[a][v] EXCEPT !.vni = copy[a].vni]
    BY <2>1
  <2> QED
    BY <2>1, <2>2 DEF v, CudnChanges, Goto
<1>2. CASE CreateCudn(a)
  <2> DEFINE v == CudnToUse(held[a].spec)
             new == [topology |-> held[a].spec.cudnTopology, vni |-> copy[a].vni,
                     terminating |-> FALSE]
  <2>1. /\ step[a] = "create" /\ UNCHANGED <<mcnVars, mcnc>>
        /\ cudn[a][v] = NoCudn /\ cudn' = [cudn EXCEPT ![a][v] = new]
        /\ \E s \in {"advertise", "error"} : Goto(a, s)
    BY <1>2 DEF CreateCudn, EffectThen, LocalCudn, Wanted, userVars
  <2> HIDE DEF v, new
  <2>2. u = v /\ cudn'[a][v] = new
    BY <2>1
  <2> QED
    BY <2>1, <2>2 DEF v, new, CudnChanges, Goto
<1>3. CASE DeleteCudn(a)
  <2> DEFINE v == CudnToDelete(held[a].spec)
  <2>1. /\ step[a] = "deleteCudn" /\ Goto(a, "leave")
        /\ cudn[a][v] # NoCudn /\ cudn' = [cudn EXCEPT ![a][v].terminating = TRUE]
    BY <1>3 DEF DeleteCudn, StartLeave, Wanted
  <2> HIDE DEF v
  <2>2. u = v /\ cudn'[a][v] = [cudn[a][v] EXCEPT !.terminating = TRUE]
    BY <2>1
  <2> QED
    BY <2>1, <2>2 DEF v, CudnChanges, Goto
<1>4. ASSUME NEW v \in Cudns, ChangeUserCudn(a, v)
      PROVE  CudnChanges(a, u)
  BY <1>4 DEF ChangeUserCudn, CudnChanges
<1>5. ASSUME NEW v \in Cudns, CudnReleased(a, v)
      PROVE  CudnChanges(a, u)
  BY <1>5 DEF CudnReleased, CudnChanges
<1> QED
  BY <1>1, <1>2, <1>3, <1>4, <1>5, OwnStepOrStill
  DEF OwnStep, StandsStill, ReconcileStep, AddFinalizer, CheckNamespace, GetCudn,
      CreateForCUDN, SetConnected, SetError, DeleteForCUDN, RemoveConnectFinalizer,
      Restart, Reconcile, localVars, ctlVars

(* handleDelete's call to delete the agent's CUDN did so.                  *)
DeleteCudnSucceeds ==
  \A a \in Agents :
    step[a] = "deleteCudn" /\ step'[a] = "leave" =>
      LET u == CudnToDelete(held[a].spec)
      IN cudn'[a][u] = NoCudn \/ cudn'[a][u].terminating

Serving(a, u) == cudn[a][u] # NoCudn /\ ~cudn[a][u].terminating /\ cudn[a][u].vni \in Vnis
AgentsOnly(a, u) == \A m \in Connects : AgentOf[m] = a => \A s \in Specs[m] : s.local # u

OwnCudnInv ==
  \A a \in Agents :
    /\ \A u \in Cudns : AgentsOnly(a, u) /\ Serving(a, u) => WantedBy(a, u)
    /\ step[a] = "leave" =>
         \A u \in Cudns : AgentsOnly(a, u) /\ u = CudnToUse(held[a].spec) => ~Serving(a, u)
    /\ step[a] = "patch" => held[a].spec.local # NoName

(* Only CreateCudn makes one that serves, for an MCNC with a finalizer.    *)
LEMMA ServingStarts ==
  ASSUME ControllerInv, ReconcileInv, OwnCudnInv, [ControllerNext]_vars, NEW a \in Agents,
         NEW u \in Cudns, AgentsOnly(a, u), Serving(a, u)', ~Serving(a, u)
  PROVE  step[a] = "create" /\ step'[a] \in {"advertise", "error"}
         /\ u = CudnToUse(held[a].spec) /\ UNCHANGED mcnc
<1> USE DEF ControllerInv, ConnectTypeOK
<1>1. cudn'[a][u] # cudn[a][u]
  BY DEF Serving
<1>2. CudnChanges(a, u)
  BY <1>1, CudnChange
<1>3. ~(step[a] = "patch" /\ u = CudnToUse(held[a].spec))
  <2> SUFFICES ASSUME step[a] = "patch", u = CudnToUse(held[a].spec) PROVE FALSE
    OBVIOUS
  <2>1. held[a].spec.local # NoName
    BY DEF OwnCudnInv
  <2>2. item[a] \in Connects /\ AgentOf[item[a]] = a /\ held[a].spec \in Specs[item[a]]
    BY SpecsAtHand
  <2> QED
    BY <2>1, <2>2 DEF AgentsOnly, CudnToUse
<1>4. /\ cudn'[a][u] # NoCudn /\ ~cudn'[a][u].terminating /\ cudn'[a][u].vni \in Vnis
      /\ cudn[a][u] \in Cudn \cup {NoCudn}
  BY DEF Serving
<1>5. ~(cudn[a][u] # NoCudn
        /\ cudn'[a][u] = [cudn[a][u] EXCEPT !.terminating = TRUE])
  BY <1>4 DEF Cudn
<1>6. cudn'[a][u] \notin {UserCudns[u], NoCudn}
  BY <1>4, ControllerAssumption DEF Cudn
<1> QED
  BY <1>2, <1>3, <1>5, <1>6 DEF CudnChanges

LEMMA OwnCudnInductive ==
  ASSUME NamesKept, ControllerInv, ReconcileInv, OwnCudnInv, [ControllerNext]_vars,
         DeleteCudnSucceeds, ReconcileInv', ControllerInv'
  PROVE  OwnCudnInv'
<1>1. ASSUME NEW a \in Agents, NEW u \in Cudns, AgentsOnly(a, u), Serving(a, u)'
      PROVE  WantedBy(a, u)'
  <2>1. CASE ~Serving(a, u)
    BY <1>1, <2>1, ServingStarts, MadeFor
  <2>2. CASE Serving(a, u)
    BY <1>1, <2>2, StillFor DEF OwnCudnInv
  <2> QED
    BY <2>1, <2>2
<1>2. ASSUME NEW a \in Agents, step'[a] = "leave", NEW u \in Cudns, AgentsOnly(a, u),
             u = CudnToUse(held'[a].spec)
      PROVE  ~Serving(a, u)'
  <2> DEFINE s == held[a].spec
  <2>1. /\ u = CudnToUse(s) /\ item[a] \in Connects /\ AgentOf[item[a]] = a
        /\ s \in Specs[item[a]] /\ s \in ConnectSpec
    BY <1>2, CleanupStep, SpecsAtHand
  <2>2. s.local # u /\ NamesCudn(s) /\ s.own # NoName
    BY <1>2, <2>1, CudnIsNamed DEF AgentsOnly
  <2>3. CudnToDelete(s) = u
    BY <2>1, <2>2, SameNames
  <2> HIDE DEF s
  <2>4. CASE DeleteForCUDN(a)
    BY <1>2, <2>2, <2>4 DEF s, DeleteForCUDN, Wanted, Goto, ControllerInv, ConnectTypeOK
  <2>5. CASE step[a] = "deleteCudn"
    <3>1. cudn'[a][u] = NoCudn \/ cudn'[a][u].terminating
      BY <1>2, <2>3, <2>5 DEF s, DeleteCudnSucceeds
    <3> QED
      BY <3>1 DEF Serving
  <2>6. CASE step[a] = "leave"
    <3>1. ~Serving(a, u)
      BY <1>2, <2>1, <2>6 DEF s, OwnCudnInv
    <3> QED
      BY <1>2, <2>6, <3>1, ServingStarts
  <2> QED
    BY <1>2, <2>4, <2>5, <2>6, CleanupStep
<1>3. ASSUME NEW a \in Agents, step'[a] = "patch" PROVE held'[a].spec.local # NoName
  <2>1. held'[a] = held[a]
    BY <1>3, ConnectStep
  <2>2. CASE step[a] = "patch"
    BY <2>1, <2>2 DEF OwnCudnInv
  <2>3. CASE step[a] # "patch"
    <3>1. AfterGetCudn(a) = "patch"
      BY <1>3, <2>3, ConnectStep DEF StandsStill
    <3> QED
      BY <2>1, <3>1 DEF AfterGetCudn, AfterGetOwn, Wanted
  <2> QED
    BY <2>2, <2>3
<1> QED
  BY <1>1, <1>2, <1>3 DEF OwnCudnInv

(* No CUDN of the agent's own is left in service when the MCNC is gone, as *)
(* long as the calls that delete them succeed.                             *)
THEOREM OwnCudnsAreOwned ==
  ASSUME NamesKept
  PROVE  ControllerSpec /\ [][DeleteCudnSucceeds]_vars => []CudnsOwned
<1>1. ControllerInit => OwnCudnInv
  BY ControllerAssumption DEF ControllerInit, OwnCudnInv, Serving, Cudn
<1>2. /\ ControllerInv /\ ReconcileInv /\ OwnCudnInv /\ ControllerInv' /\ ReconcileInv'
      /\ [ControllerNext]_vars /\ [DeleteCudnSucceeds]_vars
      => OwnCudnInv'
  <2> SUFFICES ASSUME ControllerInv, ReconcileInv, OwnCudnInv, ControllerInv',
                      ReconcileInv', [ControllerNext]_vars, [DeleteCudnSucceeds]_vars
               PROVE  OwnCudnInv'
    OBVIOUS
  <2>1. CASE UNCHANGED vars
    BY <2>1 DEF vars, ctlVars, OwnCudnInv, Serving, WantedBy, Guarded, Exists
  <2> QED
    BY <2>1, OwnCudnInductive
<1>3. OwnCudnInv => CudnsOwned
  BY DEF OwnCudnInv, Serving, AgentsOnly, WantedBy, CudnsOwned
<1> QED
  BY <1>1, <1>2, <1>3, ControllerInvariant, ReconcileInvariant, PTL DEF ControllerSpec

-----------------------------------------------------------------------------
(* Memberships *)

(* No LeaveMCN fails. handleDelete does not retry one that does; that      *)
(* conflicts with other clusters make it fail is reproduced by             *)
(* MCNC_leave_conflict.cfg.                                                *)
LeavesSucceed == \A a \in Agents : step[a] = "leave" => pc[a] # "failed"

LEMMA MembershipsInductive ==
  ASSUME NamesKept, ControllerInv, ReconcileInv, ReconcileInv', MembershipsOwned,
         LeavesSucceed, LeftIsNoMember, MembershipIsOwn, [ControllerNext]_vars
  PROVE  MembershipsOwned'
<1> SUFFICES ASSUME NEW n \in Networks, NEW a \in Agents, ClusterOf[a] \in Members(n)'
             PROVE  \E m \in Connects : /\ AgentOf[m] = a /\ Guarded(m)'
                                        /\ NetworkToJoin(mcnc'[m].spec) = n
  BY DEF MembershipsOwned
<1>1. \A m \in Connects : Guarded(m)' => mcnc'[m].spec \in Specs[m]
  BY DEF ReconcileInv, CacheInv, Guarded, Exists
<1>2. n # NoName /\ ClusterOf[a] \in Clusters
  BY ControllerAssumption, ConstantsAssumption
<1>3. CASE ClusterOf[a] \notin Members(n)
  <2>1. net[a] = n /\ pc[a] \in {"create", "join"}
    BY <1>2, <1>3, ControllerAssumption DEF MembershipIsOwn
  <2>2. step[a] = "network"
    BY <2>1 DEF ControllerInv, ConnectTypeOK, CallerInv, CallFitsStep, ReconcileInv,
                PathInv, ReconcileSteps
  <2>3. PICK m \in Connects : m = item[a]
    BY <2>2, SpecsAtHand
  <2>4. AgentOf[m] = a /\ held[a].spec \in Specs[m]
    BY <2>2, <2>3, SpecsAtHand
  <2>5. NetworkToJoin(held[a].spec) = n /\ Guarded(m)
    BY <2>1, <2>2, <2>3 DEF ReconcileInv, PathInv, HeldInv, ConnectPath, ControllerInv,
                            CallerInv, HeldFitsStep, JoinSteps
  <2>6. Guarded(m)'
    BY <2>2, <2>4, <2>5, GuardLost DEF RemoveConnectFinalizer
  <2>7. NetworkToJoin(mcnc'[m].spec) = n
    BY <1>1, <2>4, <2>5, <2>6, SameNames
  <2> QED
    BY <2>4, <2>6, <2>7
<1>4. CASE ClusterOf[a] \in Members(n)
  <2>1. PICK m \in Connects : /\ AgentOf[m] = a /\ Guarded(m)
                             /\ NetworkToJoin(mcnc[m].spec) = n
    BY <1>4 DEF MembershipsOwned
  <2>2. mcnc[m].spec \in Specs[m]
    BY <2>1, SpecsAtHand DEF Guarded
  <2>3. CASE Guarded(m)'
    BY <1>1, <2>1, <2>2, <2>3, SameNames
  <2>4. CASE ~Guarded(m)'
    <3>1. item[a] = m /\ RemoveConnectFinalizer(a)
      BY <2>1, <2>4, GuardLost
    <3>2. \/ step[a] = "leave" /\ pc[a] \in Results
          \/ step[a] = "release"
      BY <3>1 DEF RemoveConnectFinalizer
    <3>3. held[a].spec \in Specs[m]
      BY <3>1, <3>2, SpecsAtHand
    <3>4. NetworkToLeave(held[a].spec) = n
      BY <2>1, <2>2, <3>3, SameNames
    <3>5. pc[a] = "left" /\ net[a] = n
      BY <1>2, <3>2, <3>4 DEF ReconcileInv, PathInv, LeavesSucceed, Results
    <3>6. OnlyAgent(a)
      BY ControllerAssumption DEF OnlyAgent
    <3> QED
      BY <1>4, <3>5, <3>6 DEF LeftIsNoMember
  <2> QED
    BY <2>3, <2>4
<1> QED
  BY <1>3, <1>4

(* A cluster is no member of a network any more when its MCNCs for it are  *)
(* gone, as long as no LeaveMCN fails. That the manager's result "left" is *)
(* still true when handleDelete takes the finalizer off is its promise     *)
(* LeftIsNoMember.                                                         *)
THEOREM MembershipsAreOwned ==
  ASSUME NamesKept
  PROVE  ControllerSpec /\ []LeavesSucceed => []MembershipsOwned
<1>1. ControllerInit => MembershipsOwned
  BY DEF ControllerInit, Init, MembershipsOwned, Members
<1>2. /\ ControllerInv /\ ReconcileInv /\ MembershipsOwned /\ ReconcileInv'
      /\ LeavesSucceed /\ LeftIsNoMember /\ [MembershipIsOwn]_mcnVars
      /\ [ControllerNext]_vars
      => MembershipsOwned'
  <2> SUFFICES ASSUME ControllerInv, ReconcileInv, MembershipsOwned, ReconcileInv',
                      LeavesSucceed, LeftIsNoMember, [MembershipIsOwn]_mcnVars,
                      [ControllerNext]_vars
               PROVE  MembershipsOwned'
    OBVIOUS
  <2>1. MembershipIsOwn
    BY DEF mcnVars, MembershipIsOwn, Members
  <2> QED
    BY <2>1, MembershipsInductive
<1> QED
  BY <1>1, <1>2, ControllerInvariant, ReconcileInvariant, PromisesHoldInComposition, PTL
  DEF ControllerSpec, OwnMembershipOnly

-----------------------------------------------------------------------------
(* When the calls succeed *)

(* Without failing calls no RouteAdvertisement and no CUDN is left behind: *)
(* neither restarts nor conflicts with users and other clusters keep       *)
(* handleDelete from its deletions.                                        *)
THEOREM NothingLeftBehind ==
  ASSUME NamesKept, ~ApiFaults
  PROVE  ControllerSpec => []AdvertisementsOwned /\ []CudnsOwned
<1>1. ControllerInv /\ ReconcileInv /\ [ControllerNext]_vars
        => [UnadvertiseSucceeds]_vars /\ [DeleteCudnSucceeds]_vars
  <2> SUFFICES ASSUME ControllerInv, ReconcileInv, [ControllerNext]_vars
               PROVE  UnadvertiseSucceeds /\ DeleteCudnSucceeds
    OBVIOUS
  <2> USE DEF ControllerInv, ConnectTypeOK
  <2>1. ASSUME NEW a \in Agents, step[a] = "unadvertise",
               step'[a] \in {"deleteCudn", "leave"}
        PROVE  CudnToDelete(held[a].spec) \notin ra'[a]
    <3>1. DeleteForCUDN(a)
      BY <2>1, CleanupStep
    <3> QED
      BY <3>1 DEF DeleteForCUDN, Wanted
  <2>2. ASSUME NEW a \in Agents, step[a] = "deleteCudn", step'[a] = "leave"
        PROVE  LET u == CudnToDelete(held[a].spec)
               IN cudn'[a][u] = NoCudn \/ cudn'[a][u].terminating
    <3> DEFINE u == CudnToDelete(held[a].spec)
    <3>1. DeleteCudn(a)
      BY <2>2, CleanupStep
    <3>2. u \in Cudns
      <4>1. held[a].spec \in ConnectSpec /\ NetworkToLeave(held[a].spec) \in Networks
        BY <2>2, SpecNames DEF CallerInv, HeldFitsStep, Connect
      <4> QED
        BY <4>1, ControllerAssumption DEF CudnToDelete, OwnName, ConnectSpec
    <3>3. \/ cudn[a][u] # NoCudn /\ cudn' = [cudn EXCEPT ![a][u].terminating = TRUE]
          \/ cudn[a][u] = NoCudn /\ cudn' = cudn
      BY <3>1 DEF DeleteCudn, Wanted
    <3> HIDE DEF u
    <3>4. cudn'[a][u] = NoCudn \/ cudn'[a][u].terminating
      <4>1. CASE cudn[a][u] # NoCudn /\ cudn' = [cudn EXCEPT ![a][u].terminating = TRUE]
        <5>1. cudn'[a][u] = [cudn[a][u] EXCEPT !.terminating = TRUE]
          BY <3>2, <4>1
        <5>2. cudn[a][u] \in Cudn
          BY <3>2, <4>1
        <5> QED
          BY <5>1, <5>2 DEF Cudn
      <4> QED
        BY <3>3, <4>1
    <3> QED
      BY <3>4 DEF u
  <2> QED
    BY <2>1, <2>2 DEF UnadvertiseSucceeds, DeleteCudnSucceeds
<1> QED
  BY <1>1, ControllerInvariant, ReconcileInvariant, AdvertisementsAreOwned,
     OwnCudnsAreOwned, PTL
  DEF ControllerSpec

(* An agent that nobody writes to the broker beside is never refused.      *)
LeaveIsCurrent ==
  \A a \in Agents :
    step[a] = "leave" => pc[a] # "failed" /\ (pc[a] = "leave" => fresh[a])

(* Without failing calls and other writers on the broker no membership is  *)
(* left behind either.                                                     *)
THEOREM NothingLeftAlone ==
  ASSUME NamesKept, ~ApiFaults, AdminDeletes = {}, \A a, b \in Agents : a = b
  PROVE  ControllerSpec => []MembershipsOwned
<1>1. ControllerInit => LeaveIsCurrent
  BY DEF ControllerInit, LeaveIsCurrent
<1>2. ControllerInv /\ ReconcileInv /\ LeaveIsCurrent /\ [ControllerNext]_vars
        => LeaveIsCurrent'
  <2> SUFFICES ASSUME ControllerInv, ReconcileInv, LeaveIsCurrent, [ControllerNext]_vars,
                      NEW a \in Agents, step'[a] = "leave"
               PROVE  pc'[a] # "failed" /\ (pc'[a] = "leave" => fresh'[a])
    BY DEF LeaveIsCurrent
  <2> USE DEF ControllerInv, ManagerInv, ConnectTypeOK, TypeOK
  <2>1. CASE DeleteForCUDN(a) \/ DeleteCudn(a)
    BY <2>1 DEF DeleteForCUDN, DeleteCudn, StartLeave, LeaveMCN, Goto
  <2>2. CASE step[a] = "leave"
    <3>1. pc[a] # "failed" /\ (pc[a] = "leave" => fresh[a])
          /\ pc[a] \in {"leaveGet", "leave", "left", "failed"}
      BY <2>2 DEF LeaveIsCurrent, ReconcileInv, PathInv
    <3>2. CASE ManagerStep(a)
      BY <3>1, <3>2
      DEF ManagerStep, GetMCN, ReGetMCN, AllocateVNI, CreateMCN, JoinMCN, GetMCNToLeave,
          RemoveFinalizer, CallFails, Replies
    <3>3. CASE pc' = pc /\ fresh' = fresh
      BY <3>1, <3>3
    <3>4. \A b \in Agents : b = a
      OBVIOUS
    <3>5. ~AddFinalizer(a) /\ ~SetConnected(a) /\ ~SetError(a) /\ ~Restart(a)
          /\ ~RemoveConnectFinalizer(a)
      BY <2>2, EndingSteps DEF EndsWith, Finish, Restart
    <3>6. UNCHANGED mcnVars => pc' = pc /\ fresh' = fresh
      BY DEF mcnVars
    <3> QED
      BY <2>1, <2>2, <3>2, <3>3, <3>4, <3>5, <3>6
      DEF ControllerNext, ReconcileStep, CheckNamespace, GetCudn, PatchCudn, CreateCudn,
          CreateForCUDN, Reconcile, Resync, ChangeUserCudn, CudnReleased, WatchEvent,
          CreateConnect, EditConnect, DeleteConnect, UserWrites, AdminDeletesMCN, vars
  <2> QED
    BY <2>1, <2>2, CleanupStep
<1>3. LeaveIsCurrent => LeavesSucceed
  BY DEF LeaveIsCurrent, LeavesSucceed
<1> QED
  BY <1>1, <1>2, <1>3, ControllerInvariant, ReconcileInvariant, MembershipsAreOwned, PTL
  DEF ControllerSpec
=============================================================================
