SPECIFICATION AllocSpec
CONSTANTS
  c1 = c1
  c2 = c2
  NoVtep = NoVtep
  NoAlloc = NoAlloc
  Clusters = {c1, c2}
  VtepMax = 2
  ASNMin = 64512
  ASNMax = 64514
  SpecVtep <- NoVteps
  SpecASN <- NoASNs
  StatusSubresource = TRUE
  ApiFaults = FALSE
  MaxRestarts = 0
  MaxPods = 2
INVARIANTS RegistrationsUnique
