CONSTANTS
  Slaves = {s1}
  Clients = {c1, c2}
  Keys = {k1}
  Values = {v1, vlong}
  TooLong = {vlong}
  Absent = Absent
  NoRequest = NoRequest
  Rebuilds = TRUE
  TornWrites = TRUE
  MaxLog = 4
  MaxQueue = 2
SPECIFICATION Spec
INVARIANTS StateMatchesLog
PROPERTIES ImplementsAtomicReplica
CHECK_DEADLOCK FALSE
