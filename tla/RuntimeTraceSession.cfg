SPECIFICATION Spec
CONSTANTS
  Drivers = 1
  QueueCapacity = 1
  DrainBurst = 1
  ByteCap = 7
  Reserve = 4
  LongEvents <- SecondIsLong
  IoFaults = TRUE
  MaxEmits <- OneThenTwo
INVARIANTS LaneConservation AccountingFits FileTellsTheTruth
PROPERTIES KeepsPromise WriterStops AbandonedStaysOpen FinishReturns
\* The command may end, the producers stop and the writer be gone.
CHECK_DEADLOCK FALSE
