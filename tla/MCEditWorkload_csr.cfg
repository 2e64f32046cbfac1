CONSTANTS
  Edges <- EdgesMC
  Jobs <- JobsCSR
  Thread = {t1, t2}
SPECIFICATION Spec
INVARIANTS TrianglesExact
