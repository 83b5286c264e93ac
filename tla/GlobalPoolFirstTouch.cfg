CONSTANTS
  Callers = {t1, t2, t3}
  t1 = t1
  t2 = t2
  t3 = t3
  Widths = {0, 1, 2}
  HostWidth = 2
  Asks = 3
  SpawnFaults = TRUE
  Default = Default
  Unbuilt = Unbuilt
  Broken = Broken
SPECIFICATION PoolSpec
INVARIANT NoFakeWidth
INVARIANT AuthorityIsExclusive
PROPERTY AsksReturn
\* A program that asks no more may stop.
CHECK_DEADLOCK FALSE
