SPECIFICATION Parts
CONSTANTS
    Threads = {t1, t2, t3}
    DirNames = {1}
    FileNames = {2}
    MaxId = 4
    MaxLookups = 2
    Configs <- MountOptions
    Workers = {w1, w2, w3}
    NoRequest = NoRequest
INVARIANTS TreeSound SessionSound
PROPERTIES RequestsFinish SessionLive
CHECK_DEADLOCK FALSE
