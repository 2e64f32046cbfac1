CONSTANTS
  Host = {h1, h2, h3}
  Rounds = 3
  BaseTag = 5
SPECIFICATION Spec
INVARIANTS TypeOK NoOrphan RoundPure BarrierSeparates
PROPERTY AbsSpec
