SPECIFICATION MutexSpec
CONSTANTS
    t1 = t1
    t2 = t2
    t3 = t3
    m1 = m1
    Tasks = {t1, t2, t3}
    BG = BG
    NoTask = NoTask
    BasePrio <- MCBasePrio
    Priorities = {}
    Resources = {m1}
    KindOf <- MCKindOf
    NoRes = NoRes
    Periods = {2, 3}
    WakeTimes = {}
    MaxTick = 1
    CntMod = 4
    LateTicks = 1
    Relaxed = {}
    InitValues = {0, 1}
    MaxBlocked = 2
    Careless = {}
INVARIANTS
    HolderInherits
