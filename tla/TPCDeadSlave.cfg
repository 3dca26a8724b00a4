CONSTANTS
  Slaves = {s1, s2}
  Clients = {c1, c2}
  Keys = {k1}
  Values = {v1, v2, vlong}
  TooLong = {vlong}
  Absent = Absent
  NoRequest = NoRequest
  Rebuilds = TRUE
  TornWrites = FALSE
  Order <- SomeOrder
  Primary <- FirstIsPrimary
  Redundancy = 2
  Concurrent = FALSE
  MaxRequests = 2
  MaxTimeouts = 0
  MaxCrashes = 1
SPECIFICATION Spec
CHECK_DEADLOCK FALSE
INVARIANT CommitOnlyByConsensus
