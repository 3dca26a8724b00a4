CONSTANTS
  Idle = Idle  NULL = NULL
  Thread = {t1, t2, t3}
  Lock = {la, lm, lw}
  Monitor = lm  ListLock = lw
  Priority = {1, 2}
  TIME_SLICE = 1
  MaxSleep = 2
SYMMETRY Symmetry
SPECIFICATION Spec
INVARIANTS ElemInOneList WakeupsArrive DonationsSound
PROPERTIES WakesOnTime
CHECK_DEADLOCK FALSE
