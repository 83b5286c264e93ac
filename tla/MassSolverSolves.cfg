CONSTANTS
  TableSize = 4
  Capacity = 2
  Home <- HomeByThrees
  Residuals <- Levels
  NonFinite = NonFinite
  Unknown = Unknown
  Xtol = 3
  Rtol = 2
  MassMax = 14
  MaxIter = 4
  MaxProbes = 2
CHECK_DEADLOCK FALSE
SPECIFICATION Spec
INVARIANTS ConvergedIsProved BracketHolds GivesUpHonestly MemoIsSound
