SPECIFICATION BgSpec
CONSTANTS
    t1 = t1
    t2 = t2
    Tasks = {t1, t2}
    BG = BG
    NoTask = NoTask
    BasePrio <- MCBasePrio
    Priorities = {}
    Resources = {}
    KindOf <- MCKindOf
    NoRes = NoRes
    Periods = {1}
    WakeTimes = {}
    MaxTick = 2
    CntMod = 3
    LateTicks = 1
    Relaxed = {"short_sleep", "isr_in_tick", "suspend_waiting"}
    Hundred = 1
    Window = 2
    LoadMod = 5
    Heap = Heap
    Overrun = {BG}
CHECK_DEADLOCK FALSE
VIEW MCView
INVARIANTS
    SuspendedLast
    TickLoadIsPercent
    AwakeForWork
    CaughtNextRound
