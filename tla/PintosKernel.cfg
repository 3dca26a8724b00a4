SPECIFICATION Parts
CONSTANTS
    Threads = {t1, t2}
    NoThread = NoThread
    NPages = 3
    MaxRun = 2
    pm = pm
    pa = pa
    pb = pb
    s0 = s0
    s1 = s1
    w1 = w1
    w2 = w2
    r1 = r1
    r2 = r2
    u1 = u1
    u2 = u2
    c1 = c1
    c2 = c2
    j1 = j1
    j2 = j2
    None = None
INVARIANTS DevicesSound MemorySound LibraryExact MlfqsSound
PROPERTIES ProcessSound 
CHECK_DEADLOCK FALSE
