SPECIFICATION Spec
CONSTANTS
  Grids <- MCGrids
  Span = 7
  HMin = 2
  HMax = 4
  MaxGrowth = 5
  MaxSteps = 3
  MaxRejects = 2
  RampSlots = 2
INVARIANTS SamplesAreTrue NothingLeaks InheritedBelongsHere UnderflowIsCallers
PROPERTY Returns
CHECK_DEADLOCK FALSE
