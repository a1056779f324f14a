SPECIFICATION AppSpec
CONSTANTS
    t1 = t1
    t2 = t2
    t3 = t3
    Tasks = {t1, t2, t3}
    BG = BG
    NoTask = NoTask
    BasePrio <- MCBasePrio
    Priorities = {}
    Resources = {}
    KindOf <- MCKindOf
    NoRes = NoRes
    Period <- MCPeriod
    Periods = {1, 5, 10}
    WakeTimes = {}
    MaxTick = 1
    CntMod = 16
    LateTicks = 1
    Relaxed = {"short_sleep"}
PROPERTIES
    OnlySleeperIsMoved
