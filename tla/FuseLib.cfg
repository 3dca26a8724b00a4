SPECIFICATION Parts
CONSTANTS
    x1 = x1
    x2 = x2
    w1 = w1
    w2 = w2
    t1 = t1
    t2 = t2
    Programs = {x1, x2}
    Scenes <- MountScenes
    MtabFile = TRUE
    MountMax = 2
    LockOwners = {o1, o2}
    Majors = {6, 7, 8}
    Minors = {3, 4, 5, 6, 8, 9, 11, 12, 13, 15, 16, 18, 19}
    None = None
INVARIANTS  LayersSound   OptionsUnderstood
    MountsSound
 
CHECK_DEADLOCK FALSE
