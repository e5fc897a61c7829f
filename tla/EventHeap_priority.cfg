CONSTANTS
    DmaCount = 2
    Types <- AllTypes
    GatedTypes <- Gated
    HeldTypes <- Held
    HostGatedTypes <- HostGated
    ClockTypes <- Locks
    HostTypes <- Host
    CancelledTypes <- Cancelled
    UnorderedTypes <- Unordered
    StretchedTypes <- Stretched
    ShiftedTypes <- Shifted
    CycleLimit = 1
    MaxShift = 1
    MaxSequence = 4
    MaxGeneration = 1
SPECIFICATION MCSpec
CONSTRAINT Undisturbed
PROPERTY DmaPriority
