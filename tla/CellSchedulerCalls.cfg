SPECIFICATION Spec
CONSTANTS
  MaxCells = 4
  MaxConcurrent = 3
  PoolWidth = 3
  TraceLanes = 3
  Calls = 2
  SpawnFaults = TRUE
  CellPanics = TRUE
INVARIANTS CellsRunOnce FallbackIsSerial LanesAreAccounted
PROPERTIES ImplementsMap CallsEnd
\* A call that gets stuck is what CallsEnd excludes.
CHECK_DEADLOCK FALSE
