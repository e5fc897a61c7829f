CONSTANTS
    FifoSize = 2
    MaxGeneration = 2
    Settings <- UartSettings
    Devices = {"can"}
SPECIFICATION ChannelsSpec
CHECK_DEADLOCK FALSE
INVARIANT RetryComes
