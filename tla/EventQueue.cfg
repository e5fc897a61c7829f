CONSTANTS
    DmaCount = 1
    Types <- MCTypes
    GatedTypes <- MCGatedTypes
    HeldTypes <- MCHeldTypes
    HostGatedTypes <- MCHostGatedTypes
    ClockTypes <- MCClockTypes
    HostTypes <- MCHostTypes
    CancelledTypes <- MCCancelledTypes
    UnorderedTypes <- MCUnorderedTypes
    StretchedTypes <- MCStretchedTypes
    ShiftedTypes <- MCShiftedTypes
    CycleLimit = 2
    MaxShift = 1
    MaxSequence = 3
    MaxGeneration = 2
SPECIFICATION MCSpec
INVARIANTS TypeOK NoEventInPast SequencesDistinct GateDiscipline OneLockPerClock
PROPERTIES AdvanceEnds ExternalSurvives LocksSurvive ImplementsAgenda
