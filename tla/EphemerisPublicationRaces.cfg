CONSTANTS
  Threads = {t1, t2, t3}
  t1 = t1
  t2 = t2
  t3 = t3
  Bodies = {sun, mars}
  sun = sun
  mars = mars
  Default = {sun}
  InDirs = {sun, mars}
  Calls = 3
  LoadFaults = TRUE
  None = None
SPECIFICATION Spec
SYMMETRY Symmetry
INVARIANT LoadedCanBeBorrowed
INVARIANT ConflictIsReported
INVARIANT LeakIsBounded
