SPECIFICATION FairMeshSpec
CONSTANTS
  c1 = c1
  c2 = c2
  a1 = a1
  a2 = a2
  x1 = x1
  x2 = x2
  y1 = y1
  NoCluster = NoCluster
  Topology = "FullMesh"
  Reflectors = {}
  Beating = {a1}
  Agents = {a1, a2}
  Clusters = {c1, c2}
  ClusterOf <- OnePerCluster
  Nodes = {x1, y1}
  NodeCluster <- NodePlacement
  ApiFaults = FALSE
  MaxRetries = 1
  MaxChanges = 1
  MaxStops = 0
PROPERTIES EventuallyFullMesh
