SPECIFICATION Spec
CONSTANTS
  c1 = c1
  c2 = c2
  a1 = a1
  a2 = a2
  Clusters = {c1, c2}
  Agents = {a1, a2}
  ClusterOf <- OnePerCluster
  Networks = {n1, n2}
  VNIMin = 5000
  VNIMax = 5001
  Topologies = {Layer3}
  NoTopology = NoTopology
  NoMCN = NoMCN
  ApiFaults = TRUE
  Crashes = TRUE
INVARIANTS TypeOK CopyInv JoinedIsMember LeftIsNoMember
PROPERTIES OwnMembershipOnly VniStable RegistrySpec VniUniqueIfSerial
