CONSTANTS
  w1 = w1
  w2 = w2
  w3 = w3
  Workers = {w1, w2, w3}
  Nothing = Nothing
SPECIFICATION Spec
SYMMETRY WorkerSymmetry
INVARIANT OneAnalysisAtATime
CHECK_DEADLOCK FALSE
