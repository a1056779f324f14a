SPECIFICATION FairSemaSpec
CONSTANTS
    t1 = t1
    t2 = t2
    t3 = t3
    s1 = s1
    Tasks = {t1, t2, t3}
    BG = BG
    NoTask = NoTask
    BasePrio <- MCBasePrio
    Priorities = {}
    Resources = {s1}
    KindOf <- MCKindOf
    NoRes = NoRes
    Periods = {2}
    WakeTimes = {}
    MaxTick = 1
    CntMod = 3
    LateTicks = 1
    Relaxed = {}
    InitValues = {0, 1}
    MaxSema = 2
    MaxBlocked = 2
    Careless = {}
INVARIANTS
    BlockedMatchesTCB
    NoPostLost
PROPERTIES
    PostWakesMostUrgent
    BlockEnds
