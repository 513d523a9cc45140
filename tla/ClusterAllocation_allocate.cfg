SPECIFICATION SerialAllocSpec
CONSTANTS
  c1 = c1
  c2 = c2
  NoVtep = NoVtep
  NoAlloc = NoAlloc
  Clusters = {c1, c2}
  VtepMax = 1
  ASNMin = 64512
  ASNMax = 64513
  SpecVtep <- FirstVtepForC2
  SpecASN <- NoASNs
  StatusSubresource = TRUE
  ApiFaults = TRUE
  MaxRestarts = 0
  MaxPods = 2
INVARIANTS AllocTypeOK RegistrationsUnique
PROPERTIES RegistrationsSpec
