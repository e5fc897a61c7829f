CONSTANTS
    Irq <- TwoIrq
    Priority <- TwoPriorities
    Vectored <- OneIrq
    Traps <- SleepTraps
    SoftTrapSlots = 4
    DmaTrapPhases <- RetireOnly
    SoftwareLevels <- None
    NstdisWrites <- None
    MaxErrorDepth = 0
    MaxLevelDepth = 0
    MaxDisi = 1
SPECIFICATION FairSpec
INVARIANT NestingOrdered
PROPERTY Wakes
