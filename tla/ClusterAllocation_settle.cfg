SPECIFICATION FairAllocSpec
CONSTANTS
  c1 = c1
  c2 = c2
  NoVtep = NoVtep
  NoAlloc = NoAlloc
  Clusters = {c1}
  VtepMax = 2
  ASNMin = 64512
  ASNMax = 64513
  SpecVtep <- NoVteps
  SpecASN <- GivenASNs
  StatusSubresource = TRUE
  ApiFaults = TRUE
  MaxRestarts = 2
  MaxPods = 2
PROPERTIES StatusStable EventuallyRolledOut AgentSettles
