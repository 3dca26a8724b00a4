CONSTANTS
  Workers = {w1, w2, w3}
  Producers = {acceptor}
  Items = {i1, i2, i3}
  NoThread = NoThread
  NoItem = NoItem
  Handlers = {h1}
  Clients = {c1, c2}
  o1 = o1
  o2 = o2
  Nothing = Nothing
SPECIFICATION Parts
INVARIANTS ExactlyOneReceiver   JsonSound
PROPERTIES EveryItemReceived
CHECK_DEADLOCK FALSE
