CONSTANTS
    Channels <- Two
    Mode <- SingleTransfers
    RequestSource <- SharedSource
    GenerationMask = 1
    RequestDelays <- AtOnce
    Answers <- Accepted
    CallsPerCycle = 1
SPECIFICATION FairSpec
PROPERTIES WorkConserved TransferEnds
