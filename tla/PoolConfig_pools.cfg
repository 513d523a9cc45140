SPECIFICATION FairPoolSpec
CHECK_DEADLOCK FALSE
CONSTANTS
  c1 = c1
  c2 = c2
  Clusters = {c1}
  ConfigMaps <- EditChoices
  NoConfigMap = NoConfigMap
  Unset = Unset
  IntMax = 6
  SchemaMin = 2
  SchemaMax = 4
  LastByte = 1
  Garbage = Garbage
  DefaultVtepPool <- FirstNet
  SpecVtep <- SecondVtep
  SpecASN <- SecondASN
  MaxPods = 2
  MaxEdits = 2
INVARIANTS PoolTypeOK FirstFit
PROPERTIES ChoicesAccepted  EventuallyUp
