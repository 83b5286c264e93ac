SPECIFICATION SearchSpec
CONSTANTS
  ConstraintTolerance = 0
  Scale = 30
  Rows <- SevenRows
  PopulationSize = 3
  Tolerances = {0, 1}
  Generations = 2
  MaxEvaluations = 6
INVARIANTS BestSurvive MetadataIsFresh
\* The generations end.
CHECK_DEADLOCK FALSE
