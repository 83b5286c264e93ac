CONSTANTS
  Threads = {t1, t2, t3}
  t1 = t1
  t2 = t2
  t3 = t3
  Caches = {compiled, part_a}
  Locks = {compiled, part_a}
  compiled = compiled
  part_a = part_a
  Parent <- PartAParent
  LockOf <- OwnLock
  NoThread = NoThread
  NoCache = NoCache
  Calls = 2
SPECIFICATION Spec
\* A program that asks no more may stop.
CHECK_DEADLOCK FALSE
INVARIANTS OneLoad NeverWaitsHolding
PROPERTY CallsReturn
