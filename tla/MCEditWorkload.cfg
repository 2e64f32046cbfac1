CONSTANTS
  Edges <- EdgesMC
  Jobs <- JobsMC
  Thread = {t1, t2, t3}
SPECIFICATION Spec
INVARIANTS TypeOK BatchesIngested AllBatchesRun TrianglesExact LevelsExact
PROPERTIES RunEnds
