CONSTANTS
    Irq <- TwoIrq
    Priority <- TwoPriorities
    Vectored <- TwoIrq
    Traps <- None
    SoftTrapSlots = 4
    DmaTrapPhases <- EntryWindows
    SoftwareLevels <- None
    NstdisWrites <- Both
    MaxErrorDepth = 1
    MaxLevelDepth = 0
    MaxDisi = 1
SPECIFICATION Spec
INVARIANT FramesIntact
