CONSTANTS
  Edges <- EdgesMC
  Jobs <- JobsPoints
  Thread = {t1, t2}
SPECIFICATION Spec
INVARIANTS ExecutionPoints
