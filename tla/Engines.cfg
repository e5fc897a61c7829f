\* The program may stop where the budgets end.
CONSTANTS
    Devices = {"timers", "crc", "rtcc", "pmp", "loops"}
    Settings <- TimerSettings
SPECIFICATION EnginesSpec
CHECK_DEADLOCK FALSE
INVARIANTS
    EnginesAgree
    WordsKept
    BoundariesKept
    CalendarKept
    LoopsAgree
