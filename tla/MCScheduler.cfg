SPECIFICATION FairTimingSpec
CONSTANTS
    t1 = t1
    t2 = t2
    s1 = s1
    Tasks = {t1, t2}
    BG = BG
    NoTask = NoTask
    BasePrio <- MCBasePrio
    Priorities = {0, 1}
    Resources = {s1}
    KindOf <- MCKindOf
    NoRes = NoRes
    Periods = {0, 2}
    WakeTimes = {0, 2}
    MaxTick = 3
    CntMod = 4
    LateTicks = 1
    Relaxed = {}
INVARIANTS
    TypeOK
    NoFault
    EachTaskOnOneList
    ReadyInOrder
    FlagsTellList
    MostUrgentRuns
    SwitchIsUpToDate
    WakesOnTime
PROPERTIES
    OnlySleeperIsMoved
    SleeperWakes
    KeepsPromise
