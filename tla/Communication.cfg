\* The program may stop where the budgets end.
CONSTANTS
    FifoSize = 2
    MaxGeneration = 2
    Settings <- UartSettings
    Devices = {"uart", "spi", "i2c", "can", "dci"}
SPECIFICATION ChannelsSpec
CHECK_DEADLOCK FALSE
INVARIANTS
    EventsAgree
    WordsKept
    ChannelsAgree
    
