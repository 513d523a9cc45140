SPECIFICATION ControllerSpec
CHECK_DEADLOCK FALSE
CONSTANTS
  c1 = c1
  c2 = c2
  a1 = a1
  a2 = a2
  n1 = n1
  n2 = n2
  u1 = u1
  u2 = u2
  u3 = u3
  m1 = m1
  m2 = m2
  Layer2 = Layer2
  Layer3 = Layer3
  Agents = {a1}
  Clusters = {c1}
  ClusterOf <- AgentClusters
  Networks = {n1, n2}
  VNIMin = 5000
  VNIMax = 5001
  Topologies = {Layer2, Layer3}
  NoTopology = NoTopology
  NoMCN = NoMCN
  Connects = {m1, m2}
  AgentOf <- OneCluster
  Specs <- TwoNetworksOwn
  NamedLike <- FirstName
  NoName = NoName
  Unnamed = Unnamed
  Cudns = {u1, u2}
  UserCudns <- CudnsOfUsers
  NoConnect = NoConnect
  NoCudn = NoCudn
  NoVni = NoVni
  OtherTransport = OtherTransport
  StatusSubresource = FALSE
  AdminDeletes = {}
  CudnChurn = TRUE
  MaxWrites <- Twice
  MaxCrashes = 1
  ApiFaults = FALSE
  Crashes = TRUE
INVARIANTS AdvertisementsOwned MembershipsOwned CudnsOwned
