CONSTANTS
  w1 = w1
  w2 = w2
  Workers = {w1, w2}
  Nothing = Nothing
SPECIFICATION FairSpec
INVARIANTS
  OneAnalysisFromText
  ResultHasSource
  SavedOnce
PROPERTIES
  ResultsAreSaved
  BusyEnds
CHECK_DEADLOCK FALSE
