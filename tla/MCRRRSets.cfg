CONSTANTS
  a = a
  b = b
  c = c
  d = d
  NumHosts = 3
  Node <- NodeMC
  Owner <- OwnerMC
  Succ <- SuccMC
  GlobalSets = 3
  Epochs = 2
SPECIFICATION Spec
INVARIANTS TypeOK FrequencyExact StoredIsReachable FrequencyIsOccurrences OnePlace EverySetStored
PROPERTY AllReturn
