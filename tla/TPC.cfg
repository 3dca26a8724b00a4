CONSTANTS
  Slaves = {s1, s2}
  Clients = {c1, c2}
  Keys = {k1}
  Values = {v1}
  TooLong = {}
  Absent = Absent
  NoRequest = NoRequest
  Rebuilds = TRUE
  TornWrites = FALSE
  Order <- SomeOrder
  Primary <- FirstIsPrimary
  Redundancy = 2
  Concurrent = FALSE
  MaxRequests = 3
  MaxTimeouts = 1
  MaxCrashes = 1
SPECIFICATION Spec
INVARIANTS VotesBind  
PROPERTIES AnsweredUnlessCrash
CHECK_DEADLOCK FALSE
