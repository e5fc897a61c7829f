CONSTANTS
    SwitchDelay = 2
    SourceDelay = 1
    Configurations <- AllConfigurations
    Initially <- Base
    NvmDelay = 3
    Period = 4
    WarmCauses <- SomeCauses
    Watched <- OnceFixed
    MaxGeneration = 2
SPECIFICATION Spec
INVARIANTS TypeOK NothingStranded LockHonest
PROPERTY DeferredResets
