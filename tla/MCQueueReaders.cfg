SPECIFICATION QueueSpec
CONSTANTS
    t1 = t1
    t2 = t2
    t3 = t3
    q1 = q1
    a = a
    Tasks = {t1, t2, t3}
    BG = BG
    NoTask = NoTask
    BasePrio <- MCBasePrio
    Priorities = {}
    Resources = {q1}
    KindOf <- MCKindOf
    NoRes = NoRes
    Periods = {1}
    WakeTimes = {}
    MaxTick = 1
    CntMod = 2
    LateTicks = 0
    Relaxed = {}
    Messages = {a, b}
    b = b
    Nothing = Nothing
    QueueLength = 3
    MaxBlocked = 2
    Careless = {"second_reader"}
PROPERTIES
    FifoKept
