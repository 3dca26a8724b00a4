CONSTANTS
  Keys = {k1, k2, k3, k4, k5}
  Values = {v1, v2}
  Sets = {0, 1}
  SetOf <- OneApart
  ElemPerSet = 3
  Absent = Absent
  NULL = NULL
SPECIFICATION Spec
INVARIANTS Consistent EvictionLoopCorrect
PROPERTIES ImplementsLossyCache
