SPECIFICATION MeshSpec
CONSTANTS
  c1 = c1
  c2 = c2
  a1 = a1
  a2 = a2
  x1 = x1
  x2 = x2
  y1 = y1
  NoCluster = NoCluster
  Topology = "FullMesh"
  Reflectors = {}
  Beating = {a1, a2}
  Agents = {a1, a2}
  Clusters = {c1}
  ClusterOf <- RollingUpdate
  Nodes = {x1}
  NodeCluster <- NodePlacement
  ApiFaults = TRUE
  MaxRetries = 3
  MaxChanges = 2
  MaxStops = 1
INVARIANTS MeshTypeOK
PROPERTIES ClusterStatusKept
