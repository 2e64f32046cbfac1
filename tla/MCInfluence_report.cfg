CONSTANTS
  a = a
  b = b
  c = c
  s1 = s1
  s2 = s2
  s3 = s3
  Garbage = Garbage
  NumHosts = 2
  NumThreads = 2
  Node <- NodeMC
  Owner <- OwnerMC
  SetId <- SetIdMC
  Home <- HomeMC
  NumNodes = 2
SPECIFICATION Spec
INVARIANTS ReportedSets
