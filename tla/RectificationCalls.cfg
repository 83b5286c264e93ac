CONSTANTS
  Ends = {0, 3, 5, 7}
  Grids <- SomeGrids
  Segment = 2
  MaxLegs = 3
  MaxRestarts = 5
  MaxCalls = 2
CHECK_DEADLOCK FALSE
SPECIFICATION Spec
INVARIANTS RowsAreTrue LegsFollowOn SuccessIsComplete CarryStaysInArc
