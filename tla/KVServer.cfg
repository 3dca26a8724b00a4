SPECIFICATION Spec
CONSTANTS
  Threads = {t1, t2}
  Keys = {k1, k2}
  Values = {v1, v2, vlong}
  TooLong = {vlong}
  MaxChain = 2
  HashOf <- AllTogether
  SetOf <- AllTogether
  Absent = Absent
  NoCall = NoCall
  Damaged = Damaged
CONSTRAINT SoundChainLeft
SYMMETRY Symmetry
INVARIANTS ServerTrue
PROPERTIES ImplementsAtomicStore
