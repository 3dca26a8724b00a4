CONSTANTS
  Idle = Idle  NULL = NULL
  Thread = {t1, t2, t3}
  Lock = {la, lm, lw}
  Monitor = lm  ListLock = lw
  Priority = {1, 2, 3}
  TIME_SLICE = 2
  MaxSleep = 1
SYMMETRY Symmetry
SPECIFICATION Spec
CHECK_DEADLOCK FALSE
INVARIANT NoPanic
