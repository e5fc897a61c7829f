CONSTANTS
    Channels <- MCChannels
    Mode <- MCMode
    RequestSource <- OwnSources
    GenerationMask = 1
    RequestDelays <- Soon
    Answers <- Either
SPECIFICATION MCSpec
INVARIANTS TypeOK StaleIgnored RequestsCarried OneTransfer WaiterHasRequest BlockAccounting
