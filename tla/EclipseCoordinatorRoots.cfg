CONSTANTS
  Span = 7
  Segment = 5
  FineStep = 6
  Uncertainty = 4
  Margin = 1
  MaxRestarts = 2
  MaxSplits = 2
  MaxPasses = 6
  MaxCrossings = 3
  Skies <- FewCrossings
  Grids <- SomeGrids
CHECK_DEADLOCK FALSE
SPECIFICATION Spec
INVARIANTS EachSampleOnce BaselineIsCurrent PassesAdvance
PROPERTY RootsAreProved
