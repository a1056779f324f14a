SPECIFICATION StandaloneSpec
CONSTANTS
    n1 = n1
    n2 = n2
    n3 = n3
    n4 = n4
    Nodes = {n1, n2, n3, n4}
    Lists = {ready, wait}
    Null = Null
    Prio <- MCPrio
    c1 = c1
    c2 = c2
    Callers = {c1, c2}
    Layouts <- MCLayouts
    Sizes = {1, 2}
    MaxPartitions = 2
    Nothing = Nothing
    MemRules = {}
    t1 = t1
    t2 = t2
    tick = tick
    isr = isr
    Tasks = {t1, t2}
    Main = Main
    Handlers = {tick, isr}
    PendSV = PendSV
    Urgency <- MCUrgency
    TickMask = 192
    MaxDepth = 2
INVARIANTS
    Represents
    WalkStaysOnList
    NoForeignData
    RoomIsThere
    TypeOK
    CriticalSectionsExclude
    InterruptsComeBack
    SwitchedOutsideSections
PROPERTIES
    OperationEnds
