------------------------ MODULE MCNCConnected_proofs ------------------------
(***************************************************************************)
(* That a connected MCNC is backed by what its spec asks for, for any      *)
(* number of clusters, networks and MCNCs that connect users' CUDNs: with  *)
(* edits of the specs, failing calls, lost replies, restarts, conflicts,   *)
(* old caches, and networks that an administrator deletes.                 *)
(***************************************************************************)
EXTENDS MCNCCleanup_proofs

(* What an MCNC with the spec s connects is neither configured for another *)
(* one of its cluster, with the spec t, nor taken away when that one is    *)
(* deleted. MCNC_siblings.cfg reproduces what happens otherwise.           *)
Separate(s, t) ==
  s.local # NoName =>
    /\ t.local # s.local
    /\ NetworkToLeave(t) # NoName =>
         NetworkToLeave(t) # NetworkToJoin(s) /\ CudnToDelete(t) # s.local

(* Specs connect CUDNs of users, who keep them. For CUDNs of the agent's   *)
(* own, MCNC_terminating.cfg, MCNC_own_moves.cfg and MCNC_topology.cfg     *)
(* reproduce MCNCs that are connected without being backed.                *)
ConnectsUsersCudns ==
  /\ ~CudnChurn
  /\ \A m \in Connects : \A s \in Specs[m] : s.own = NoName
  /\ \A m, k \in Connects : m # k /\ AgentOf[m] = AgentOf[k] =>
       \A s \in Specs[m], t \in Specs[k] : Separate(s, t)

-----------------------------------------------------------------------------
(* When nothing is under way for an MCNC *)

(* A reconcile that ends and asks for no retry has reported the MCNC as    *)
(* connected, and found that it already was; or it has gone.               *)
ReportsAgain(a, m) ==
  /\ step[a] = "status" /\ item[a] = m
  /\ held[a] = mcnc[m] /\ held[a].phase = "Connected"
  /\ UNCHANGED <<mcnc, broker, cudn, ra>>

LEMMA EndLeavesQuiet ==
  ASSUME ControllerInv, ReconcileInv, NEW m \in Connects, Exists(m)', Quiet(m)',
         NEW a \in Agents, item[a] = m,
         AddFinalizer(a) \/ SetConnected(a) \/ SetError(a) \/ RemoveConnectFinalizer(a)
  PROVE  ReportsAgain(a, m)
<1> USE DEF ControllerInv, ConnectTypeOK
<1>1. step[a] # "idle" /\ AgentOf[m] = a
  BY SpecsAtHand DEF AddFinalizer, SetConnected, SetError, RemoveConnectFinalizer
<1>2. ~Finish(a, TRUE)
  BY <1>1 DEF Finish, Quiet
<1>3. ASSUME RemoveConnectFinalizer(a) PROVE FALSE
  <2>1. PICK o \in UpdateOutcomes(a) :
          /\ IF o = "refused" THEN UNCHANGED <<mcnc, cached>>
                              ELSE WriteConnect(item[a], NoConnect)
          /\ Finish(a, o # "written")
    BY <1>3 DEF RemoveConnectFinalizer
  <2>2. o = "written"
    BY <1>2, <2>1
  <2> QED
    BY <2>1, <2>2 DEF WriteConnect, Exists
<1>4. SetConnected(a)
  BY <1>2, <1>3 DEF AddFinalizer, SetError
<1>5. PICK o \in UpdateOutcomes(a) :
        SetPhase(a, "Connected", o) /\ Finish(a, o # "written" \/ ~StatusSubresource)
  BY <1>4 DEF SetConnected
<1>6. o = "written" /\ StatusSubresource
  BY <1>2, <1>5, ControllerAssumption
<1>7. heldFresh[a]
  BY <1>6, OutcomesAreFresh
<1>8. held[a].phase = "Connected" /\ UNCHANGED mcnc
  <2>1. ~(\E obj : WriteConnect(m, obj))
    BY <1>1 DEF WriteConnect, Quiet
  <2> QED
    BY <1>5, <1>6, <2>1 DEF SetPhase
<1> QED
  BY <1>1, <1>4, <1>7, <1>8
  DEF ReportsAgain, SetConnected, Forget, localVars, ReconcileInv, HeldInv

(* Every other step that comes by m leaves it in the queue, in a           *)
(* reconcile's hands or in an old version in the cache.                    *)
LEMMA QuietComes ==
  ASSUME ControllerInv, ReconcileInv, [ControllerNext]_vars,
         NEW m \in Connects, Exists(m)', Quiet(m)'
  PROVE  \/ Quiet(m) /\ mcnc'[m] = mcnc[m]
         \/ ReportsAgain(AgentOf[m], m)
<1> USE DEF ControllerInv, ConnectTypeOK
<1> DEFINE a == AgentOf[m]
           Stays == Quiet(m) /\ mcnc'[m] = mcnc[m]
<1>1. a \in Agents /\ m # NoConnect
  BY ControllerAssumption
<1>2. ASSUME UNCHANGED <<mcnc, cached, item>>, queue[a] \subseteq queue'[a] PROVE Stays
  BY <1>2 DEF Quiet
<1>3. ASSUME NEW b \in Agents,
             AddFinalizer(b) \/ SetConnected(b) \/ SetError(b) \/ RemoveConnectFinalizer(b)
      PROVE  Stays \/ ReportsAgain(a, m)
  <2>1. PICK again \in BOOLEAN : EndsWith(b, again)
    BY <1>3, EndingSteps
  <2>2. item[b] \in Connects /\ AgentOf[item[b]] = b
    BY <2>1, SpecsAtHand DEF EndsWith
  <2>3. CASE item[b] = m
    BY <1>3, <2>2, <2>3, EndLeavesQuiet
  <2>4. CASE item[b] # m
    <3>1. mcnc'[m] = mcnc[m] /\ cached'[m] = cached[m]
      BY <2>1, <2>4 DEF EndsWith, WriteConnect
    <3>2. (m \in queue[a] => m \in queue'[a]) /\ (item[a] = m => item'[a] = m)
      BY <1>1, <2>1, <2>4 DEF EndsWith, Finish
    <3> QED
      BY <3>1, <3>2 DEF Quiet
  <2> QED
    BY <2>3, <2>4
<1>4. ASSUME NEW b \in Agents,
             \/ CheckNamespace(b) \/ GetCudn(b) \/ PatchCudn(b) \/ CreateCudn(b)
             \/ CreateForCUDN(b) \/ DeleteForCUDN(b) \/ DeleteCudn(b)
      PROVE  Stays
  BY <1>2, <1>4
  DEF CheckNamespace, GetCudn, PatchCudn, CreateCudn, CreateForCUDN, EffectThen,
      DeleteForCUDN, DeleteCudn, StartLeave, Goto, userVars, cacheVars
<1>5. ASSUME NEW b \in Agents, NEW k \in Connects, Reconcile(b, k) PROVE Stays
  <2>1. /\ UNCHANGED <<mcnc, cached, cache>> /\ step[b] = "idle" /\ k \in queue[b]
        /\ queue' = [queue EXCEPT ![b] = @ \ {k}]
        /\ \/ cache[k] = NoConnect /\ item' = item
           \/ item' = [item EXCEPT ![b] = k]
    BY <1>5 DEF Reconcile, userVars, cacheVars, workVars
  <2>2. item[b] = NoConnect /\ AgentOf[k] = b
    BY <2>1 DEF ReconcileInv, HeldInv, QueueInv
  <2>3. k # m
    <3> SUFFICES ASSUME k = m PROVE FALSE
      OBVIOUS
    <3>1. item'[a] # m /\ cached[m]
      BY <2>1 DEF Quiet
    <3>2. cache[m] = NoConnect
      BY <1>1, <2>1, <2>2, <3>1
    <3> QED
      BY <2>1, <3>1, <3>2 DEF ReconcileInv, CacheInv, Exists
  <2> QED
    BY <1>1, <2>1, <2>2, <2>3 DEF Quiet
<1>6. ASSUME NEW b \in Agents, Restart(b) PROVE Stays
  <2>1. CASE b = a
    <3>1. m \in queue'[a]
      BY <1>1, <1>6, <2>1 DEF Restart, userVars, Exists
    <3> QED
      BY <3>1 DEF Quiet
  <2>2. CASE b # a
    BY <1>1, <1>6, <2>2 DEF Restart, userVars, Quiet
  <2> QED
    BY <2>1, <2>2
<1>7. ASSUME NEW k \in Connects, WatchEvent(k) PROVE Stays
  <2>1. k # m
    BY <1>1, <1>7 DEF WatchEvent, Quiet
  <2> QED
    BY <1>1, <1>7, <2>1 DEF WatchEvent, Quiet, userVars, workVars
<1>8. ASSUME NEW k \in Connects, CreateConnect(k) \/ EditConnect(k) \/ DeleteConnect(k)
      PROVE  Stays
  <2>1. PICK obj : UserWrites(k, obj)
    BY <1>8 DEF CreateConnect, EditConnect, DeleteConnect
  <2> QED
    BY <2>1 DEF UserWrites, WriteConnect, Quiet
<1>9. ASSUME NEW b \in Agents, Resync(b) PROVE Stays
  BY <1>1, <1>2, <1>9 DEF Resync, userVars, cacheVars, workVars
<1> QED
  BY <1>2, <1>3, <1>4, <1>5, <1>6, <1>7, <1>8, <1>9
  DEF ControllerNext, ReconcileStep, ChangeUserCudn, CudnReleased, AdminDeletesMCN, ctlVars,
      userVars, cacheVars, workVars, vars

-----------------------------------------------------------------------------
(* What a reconcile has configured *)

CudnsThere == \A a \in Agents, u \in Cudns : cudn[a][u] # NoCudn /\ ~cudn[a][u].terminating

(* A reconcile that goes on has done what the steps before it are for, and *)
(* nobody has undone it: the CUDN has the topology and, once it is         *)
(* patched, the VNI of the network as the manager returned it.             *)
ConfiguredInv ==
  \A a \in Agents :
    /\ step[a] \notin {"create", "deleteCudn"}
    /\ step[a] \in {"patch", "advertise", "status"} =>
         LET u == held[a].spec.local
         IN /\ u # NoName
            /\ cudn[a][u].topology = copy[a].topology
            /\ step[a] # "patch" => cudn[a][u].vni = copy[a].vni
            /\ step[a] = "status" => u \in ra[a]

(* The spec s is one that can be backed, and is.                           *)
BackedByNames(a, s) == s.local # NoName /\ NamesNetwork(s) /\ Backed(a, s)

(* An MCNC that nothing is under way for, as ConnectedBacked has it.       *)
QuietInv ==
  \A m \in Connects :
    Exists(m) /\ ~mcnc[m].deleting /\ Quiet(m) =>
      mcnc[m].phase = "Connected" /\ BackedByNames(AgentOf[m], mcnc[m].spec)

ConnectedInv == CudnsThere /\ ConfiguredInv /\ QuietInv

LEMMA LocalIsUsed ==
  ASSUME NEW s \in ConnectSpec, s.local # NoName
  PROVE  CudnToUse(s) = s.local /\ s.local \in Cudns
BY DEF CudnToUse, ConnectSpec

(* Only patches change CUDNs.                                              *)
LEMMA CudnsArePatched ==
  ASSUME ConnectsUsersCudns, ControllerInv, ReconcileInv, CudnsThere, ConfiguredInv,
         [ControllerNext]_vars, NEW a \in Agents, NEW u \in Cudns, cudn'[a][u] # cudn[a][u]
  PROVE  /\ step[a] = "patch" /\ step'[a] \in {"advertise", "error"}
         /\ u = held[a].spec.local
         /\ cudn'[a][u] = [cudn[a][u] EXCEPT !.vni = copy[a].vni]
<1>1. CudnChanges(a, u)
  BY CudnChange
<1>2. step[a] = "patch" => CudnToUse(held[a].spec) = held[a].spec.local
  BY SpecsAtHand, LocalIsUsed DEF ConfiguredInv
<1> QED
  BY <1>1, <1>2 DEF CudnChanges, CudnsThere, ConfiguredInv, ConnectsUsersCudns

LEMMA CudnsStayThere ==
  ASSUME ConnectsUsersCudns, ControllerInv, ReconcileInv, CudnsThere, ConfiguredInv,
         [ControllerNext]_vars
  PROVE  CudnsThere'
<1> SUFFICES ASSUME NEW a \in Agents, NEW u \in Cudns
             PROVE  cudn'[a][u] # NoCudn /\ ~cudn'[a][u].terminating
  BY DEF CudnsThere
<1>1. CASE cudn'[a][u] = cudn[a][u]
  BY <1>1 DEF CudnsThere
<1>2. CASE cudn'[a][u] # cudn[a][u]
  <2>1. step[a] = "patch" /\ cudn'[a][u] = [cudn[a][u] EXCEPT !.vni = copy[a].vni]
    BY <1>2, CudnsArePatched
  <2>2. cudn[a][u] \in Cudn /\ ~cudn[a][u].terminating
    BY DEF CudnsThere, ControllerInv, ConnectTypeOK
  <2>3. copy[a].vni \in Vnis
    BY <2>1, ConnectingSpec
  <2>4. cudn'[a][u] \in Cudn /\ ~cudn'[a][u].terminating
    BY <2>1, <2>2, <2>3 DEF Cudn
  <2> QED
    BY <2>4, ControllerAssumption
<1> QED
  BY <1>1, <1>2

(* ConfiguredInv, step by step: the Get of the CUDN compares topologies,   *)
(* PatchCudn writes the VNI, CreateForCUDN the RouteAdvertisement.         *)
LEMMA ConfiguredStays ==
  ASSUME ConnectsUsersCudns, ControllerInv, ReconcileInv, CudnsThere, ConfiguredInv,
         [ControllerNext]_vars
  PROVE  ConfiguredInv'
<1> USE DEF ControllerInv, ConnectTypeOK
<1>1. ASSUME NEW a \in Agents, step[a] # "idle" PROVE held[a].spec.own = NoName
  BY <1>1, SpecsAtHand DEF ConnectsUsersCudns
<1>2. ASSUME NEW a \in Agents, step'[a] = "deleteCudn" PROVE FALSE
  <2>1. step[a] = "unadvertise" /\ DeleteForCUDN(a)
    BY <1>2, CleanupStep DEF ConfiguredInv
  <2> QED
    BY <1>1, <1>2, <2>1 DEF DeleteForCUDN, StartLeave, Goto, Wanted
<1>3. ASSUME NEW a \in Agents, step'[a] \in {"patch", "create", "advertise", "status"}
      PROVE  /\ step'[a] # "create"
             /\ LET u == held'[a].spec.local
                IN /\ u # NoName
                   /\ cudn'[a][u].topology = copy'[a].topology
                   /\ step'[a] # "patch" => cudn'[a][u].vni = copy'[a].vni
                   /\ step'[a] = "status" => u \in ra'[a]
  <2> DEFINE u == held[a].spec.local
  <2>0. held'[a] = held[a] /\ copy'[a] = copy[a] /\ step[a] # "idle"
    BY <1>3, ConnectStep
  <2>1. /\ held[a].spec \in ConnectSpec /\ held[a].spec.own = NoName
        /\ u # NoName => u \in Cudns /\ CudnToUse(held[a].spec) = u
    BY <1>1, <2>0, SpecsAtHand, LocalIsUsed
  <2>2. CASE StandsStill(a)
    <3>1. cudn'[a] = cudn[a]
      BY <2>2 DEF StandsStill, ConnectsUsersCudns, ChangeUserCudn, CudnReleased, CudnsThere
    <3> QED
      BY <1>3, <2>0, <2>2, <3>1 DEF StandsStill, ConfiguredInv
  <2>3. CASE step[a] = "network" /\ GetCudn(a) /\ step'[a] = AfterGetCudn(a)
    <3>1. u # NoName
      BY <1>3, <2>1, <2>3, AfterGetCudnSteps
    <3>2. step'[a] = "patch" /\ cudn[a][u].topology = copy[a].topology
      BY <1>3, <2>1, <2>3, <3>1 DEF AfterGetCudn, AfterGetLocal, LocalCudn, Wanted
    <3> QED
      BY <2>0, <2>3, <3>1, <3>2 DEF GetCudn, localVars
  <2>4. CASE step[a] = "patch" /\ step'[a] = "advertise" /\ PatchCudn(a)
    <3>1. u \in Cudns /\ cudn[a][u].topology = copy[a].topology /\ CudnToUse(held[a].spec) = u
      BY <2>1, <2>4 DEF ConfiguredInv
    <3>2. cudn' = [cudn EXCEPT ![a][u].vni = copy[a].vni]
      BY <2>4, <3>1 DEF PatchCudn, EffectThen, Goto, LocalCudn, Wanted
    <3> HIDE DEF u
    <3>3. cudn'[a][u] = [cudn[a][u] EXCEPT !.vni = copy[a].vni]
      BY <3>1, <3>2
    <3>4. cudn[a][u] \in Cudn
      BY <3>1 DEF CudnsThere
    <3>5. cudn'[a][u].topology = copy[a].topology /\ cudn'[a][u].vni = copy[a].vni
      BY <3>1, <3>3, <3>4 DEF Cudn
    <3> QED
      BY <2>0, <2>1, <2>4, <3>1, <3>5, ControllerAssumption DEF u
  <2>5. CASE step[a] = "advertise" /\ step'[a] = "status" /\ CreateForCUDN(a)
    <3>1. u \in Cudns /\ CudnToUse(held[a].spec) = u
      BY <2>1, <2>5 DEF ConfiguredInv
    <3>2. ra' = [ra EXCEPT ![a] = @ \cup {u}] /\ cudn' = cudn
      BY <2>5, <3>1 DEF CreateForCUDN, EffectThen, Goto, Wanted
    <3> QED
      BY <2>0, <2>5, <3>2 DEF ConfiguredInv
  <2>6. step[a] # "create"
    BY DEF ConfiguredInv
  <2> QED
    BY <1>3, <2>2, <2>3, <2>4, <2>5, <2>6, ConnectStep
<1> QED
  BY <1>2, <1>3 DEF ConfiguredInv

(* What is configured is what the network has: from the manager's promise. *)
LEMMA ReportsBacked ==
  ASSUME ControllerInv, ReconcileInv, CudnsThere, ConfiguredInv, JoinedIsMember,
         NEW a \in Agents, step[a] = "status"
  PROVE  BackedByNames(a, held[a].spec)
<1> DEFINE s == held[a].spec
<1>1. /\ ClusterOf[a] \in Members(net[a])
      /\ broker[net[a]].vni = copy[a].vni
      /\ broker[net[a]].topology = copy[a].topology
  BY ControllerAssumption
  DEF JoinedIsMember, OnlyAgent, ControllerInv, CallerInv, CallFitsStep
<1>2. net[a] = NetworkToJoin(s) /\ NamesNetwork(s)
  BY DEF NamesNetwork, ControllerInv, CallerInv, HeldFitsStep, JoinSteps
<1>3. /\ s.local # NoName /\ s.local \in ra[a]
      /\ cudn[a][s.local].topology = copy[a].topology
      /\ cudn[a][s.local].vni = copy[a].vni
  BY DEF ConfiguredInv
<1>4. CudnToUse(s) = s.local /\ s.local \in Cudns
  BY <1>3, SpecsAtHand, LocalIsUsed
<1> HIDE DEF s
<1>5. Backed(a, s)
  BY <1>1, <1>2, <1>3, <1>4 DEF Backed, CudnsThere
<1> QED
  BY <1>2, <1>3, <1>5 DEF s, BackedByNames

-----------------------------------------------------------------------------
(* What another reconcile leaves alone *)

(* Only the call that ends handleDelete's work on the routes removes any.  *)
LEMMA AdvertisementRemoved ==
  ASSUME ControllerInv, ReconcileInv, [ControllerNext]_vars, NEW a \in Agents,
         NEW u \in ra[a], u \notin ra'[a]
  PROVE  step[a] = "unadvertise" /\ u = CudnToDelete(held[a].spec)
<1> USE DEF ControllerInv, ConnectTypeOK
<1>1. ~StandsStill(a)
  BY DEF StandsStill
<1>2. OwnStep(a) /\ ra' # ra
  BY <1>1, OwnStepOrStill
<1>3. ~CreateForCUDN(a)
  BY DEF CreateForCUDN, EffectThen
<1>4. DeleteForCUDN(a)
  BY <1>2, <1>3
  DEF OwnStep, ReconcileStep, AddFinalizer, CheckNamespace, GetCudn, PatchCudn, CreateCudn,
      SetConnected, SetError, DeleteCudn, RemoveConnectFinalizer, Restart, Reconcile,
      localVars, ctlVars
<1> QED
  BY <1>4 DEF DeleteForCUDN, Wanted

(* While nothing is under way for m, a reconcile of another MCNC of the    *)
(* cluster neither leaves m's network nor changes its CUDN or routes, and  *)
(* other clusters and the administrator change neither membership nor VNI. *)
LEMMA BackedStays ==
  ASSUME ConnectsUsersCudns, ControllerInv, ReconcileInv, CudnsThere, CudnsThere',
         ConfiguredInv, KeepsVni, MembershipIsOwn, [ControllerNext]_vars,
         NEW m \in Connects, Exists(m), Quiet(m),
         NEW a, a = AgentOf[m], NEW s, s = mcnc[m].spec, BackedByNames(a, s)
  PROVE  BackedByNames(a, s)'
<1> DEFINE n == NetworkToJoin(s)
           u == s.local
           t == held[a].spec
<1>1. /\ a \in Agents /\ s \in Specs[m] /\ s \in ConnectSpec
      /\ CudnToUse(s) = u /\ u \in Cudns /\ n \in Networks
  BY ControllerAssumption, SpecsAtHand, LocalIsUsed, SpecNames DEF BackedByNames, NamesNetwork
<1>2. /\ u # NoName /\ ClusterOf[a] \in Members(n) /\ u \in ra[a]
      /\ cudn[a][u].vni = broker[n].vni /\ cudn[a][u].topology = broker[n].topology
  BY <1>1 DEF BackedByNames, Backed
<1>3. step[a] # "idle" =>
        /\ t.local # u
        /\ NetworkToLeave(t) # NoName => NetworkToLeave(t) # n /\ CudnToDelete(t) # u
  <2> SUFFICES ASSUME step[a] # "idle" PROVE Separate(s, t)
    BY <1>2 DEF Separate
  <2>1. item[a] \in Connects /\ AgentOf[item[a]] = a /\ t \in Specs[item[a]]
    BY <1>1, SpecsAtHand
  <2>2. item[a] # m
    BY DEF Quiet
  <2> QED
    BY <1>1, <2>1, <2>2 DEF ConnectsUsersCudns
<1>4. ClusterOf[a] \in Members(n)'
  <2> SUFFICES ASSUME ClusterOf[a] \notin Members(n)' PROVE FALSE
    OBVIOUS
  <2>1. net[a] = n /\ pc[a] = "leave"
    BY <1>1, <1>2, ControllerAssumption, ConstantsAssumption DEF MembershipIsOwn
  <2>2. step[a] = "leave"
    BY <1>1, <2>1 DEF ControllerInv, ConnectTypeOK, CallerInv, CallFitsStep, ReconcileInv,
                      PathInv, ReconcileSteps
  <2>3. net[a] = NetworkToLeave(t) /\ net[a] # NoName
    BY <1>1, <2>2 DEF ReconcileInv, PathInv
  <2> QED
    BY <1>3, <2>1, <2>2, <2>3
<1>5. broker'[n].vni = broker[n].vni /\ broker'[n].topology = broker[n].topology
  BY <1>1, <1>2, <1>4 DEF KeepsVni, Members
<1>6. cudn'[a][u] = cudn[a][u]
  BY <1>1, <1>3, CudnsArePatched
<1>7. u \in ra'[a]
  <2> SUFFICES ASSUME u \notin ra'[a] PROVE FALSE
    OBVIOUS
  <2>1. step[a] = "unadvertise" /\ u = CudnToDelete(t)
    BY <1>1, <1>2, AdvertisementRemoved
  <2>2. NetworkToLeave(t) # NoName
    BY <1>1, <2>1 DEF ControllerInv, CallerInv, HeldFitsStep
  <2> QED
    BY <1>3, <2>1, <2>2
<1>8. Backed(a, s)'
  BY <1>1, <1>2, <1>4, <1>5, <1>6, <1>7 DEF Backed, CudnsThere
<1> QED
  BY <1>8 DEF BackedByNames

LEMMA QuietStays ==
  ASSUME ConnectsUsersCudns, ControllerInv, ReconcileInv, ConnectedInv, CudnsThere',
         JoinedIsMember, KeepsVni, MembershipIsOwn, [ControllerNext]_vars
  PROVE  QuietInv'
<1> SUFFICES ASSUME NEW m \in Connects, Exists(m)', ~mcnc'[m].deleting, Quiet(m)'
             PROVE  /\ mcnc'[m].phase = "Connected"
                    /\ BackedByNames(AgentOf[m], mcnc[m].spec)'
  BY DEF QuietInv
<1>1. CASE Quiet(m) /\ mcnc'[m] = mcnc[m]
  <2>1. mcnc[m].phase = "Connected" /\ BackedByNames(AgentOf[m], mcnc[m].spec)
    BY <1>1 DEF ConnectedInv, QuietInv, Exists
  <2>2. PICK a, s : a = AgentOf[m] /\ s = mcnc[m].spec
    OBVIOUS
  <2>3. BackedByNames(a, s)'
    BY <1>1, <2>1, <2>2, BackedStays DEF ConnectedInv, Exists
  <2> QED
    BY <1>1, <2>1, <2>2, <2>3 DEF BackedByNames, Backed, Members
<1>2. CASE ReportsAgain(AgentOf[m], m)
  <2>1. BackedByNames(AgentOf[m], held[AgentOf[m]].spec)
    BY <1>2, ControllerAssumption, ReportsBacked DEF ReportsAgain, ConnectedInv
  <2>2. /\ mcnc'[m] = held[AgentOf[m]] /\ mcnc'[m].phase = "Connected"
        /\ UNCHANGED <<broker, cudn, ra>>
    BY <1>2 DEF ReportsAgain
  <2> QED
    BY <2>1, <2>2 DEF BackedByNames, Backed, Members
<1> QED
  BY <1>1, <1>2, QuietComes

(* No wake-up is lost, and Connected means backed: for every number of     *)
(* clusters, networks and MCNCs whose specs connect CUDNs of users, one    *)
(* MCNC to a CUDN and to a network in each cluster. Edits, restarts,       *)
(* conflicts, stale caches, failing calls, lost replies and an             *)
(* administrator who deletes networks are included.                        *)
THEOREM ConnectedIsBacked ==
  ASSUME ConnectsUsersCudns
  PROVE  ControllerSpec => []ConnectedBacked
<1>1. ControllerInit => ConnectedInv
  <2> SUFFICES ASSUME ControllerInit PROVE ConnectedInv
    OBVIOUS
  <2>1. CudnsThere
    <3>1. \A u \in Cudns : UserCudns[u] \in Cudn /\ ~UserCudns[u].terminating
      BY ControllerAssumption DEF Cudn
    <3>2. \A a \in Agents, u \in Cudns : cudn[a][u] = UserCudns[u]
      BY DEF ControllerInit, ConnectsUsersCudns
    <3> QED
      BY <3>1, <3>2, ControllerAssumption DEF CudnsThere
  <2> QED
    BY <2>1 DEF ControllerInit, ConnectedInv, ConfiguredInv, QuietInv, Exists
<1>2. /\ ControllerInv /\ ReconcileInv /\ ConnectedInv /\ JoinedIsMember
      /\ [KeepsVni]_mcnVars /\ [MembershipIsOwn]_mcnVars /\ [ControllerNext]_vars
      => ConnectedInv'
  <2> SUFFICES ASSUME ControllerInv, ReconcileInv, ConnectedInv, JoinedIsMember,
                      [KeepsVni]_mcnVars, [MembershipIsOwn]_mcnVars, [ControllerNext]_vars
               PROVE  ConnectedInv'
    OBVIOUS
  <2>1. KeepsVni /\ MembershipIsOwn
    BY DEF mcnVars, KeepsVni, MembershipIsOwn, Members
  <2> QED
    BY <2>1, CudnsStayThere, ConfiguredStays, QuietStays DEF ConnectedInv
<1>3. ControllerInv /\ ReconcileInv /\ ConnectedInv /\ JoinedIsMember => ConnectedBacked
  <2> SUFFICES ASSUME ControllerInv, ReconcileInv, ConnectedInv, JoinedIsMember
               PROVE  ConnectedBacked
    OBVIOUS
  <2>1. \A a \in Agents : step[a] = "status" => Backed(a, held[a].spec)
    BY ReportsBacked DEF ConnectedInv, BackedByNames
  <2> QED
    BY <2>1, ControllerAssumption DEF ConnectedBacked, ConnectedInv, QuietInv, BackedByNames
<1> QED
  BY <1>1, <1>2, <1>3, ControllerInvariant, ReconcileInvariant, PromisesHoldInComposition,
     PTL
  DEF ControllerSpec, VniStable, OwnMembershipOnly
=============================================================================
