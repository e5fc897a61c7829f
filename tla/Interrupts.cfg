CONSTANTS
    Irq <- TwoIrq
    Priority <- TwoPriorities
    Vectored <- TwoIrq
    Traps <- SoftOnly
    SoftTrapSlots = 4
    DmaTrapPhases <- RetireOnly
    SoftwareLevels <- Levels0
    NstdisWrites <- Both
    MaxErrorDepth = 1
    MaxLevelDepth = 3
    MaxDisi = 0
SPECIFICATION Spec
INVARIANTS TypeOK NestingOrdered OneUserInterrupt LevelSourceKept
PROPERTY FlagDeferred
CONSTRAINT Shallow
