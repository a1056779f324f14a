SPECIFICATION EventsSpec
CONSTANTS
    t1 = t1
    t2 = t2
    m1 = m1
    f1 = f1
    Tasks = {t1, t2}
    BG = BG
    NoTask = NoTask
    BasePrio <- MCBasePrio
    Priorities = {}
    Resources = {m1, f1}
    KindOf <- MCKindOf
    NoRes = NoRes
    Periods = {0, 1}
    WakeTimes = {}
    MaxTick = 1
    CntMod = 2
    LateTicks = 0
    Relaxed = {}
    Mails = {1, 2}
    Empty = 0
    TaskZero = NoTask
    MailRules = {}
    Events <- MCEventMasks
    MaxPending = 2
    FlagRules = {"timed_event"}
INVARIANTS
    NoFault
