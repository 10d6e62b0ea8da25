CONSTANTS
    Word = 32
    MaxPeriod = 31
    MaxGap = 3
    AgeBound = 40
    Timeouts = {1, 3, 6}
    TimeoutCounts = {1, 3}
    TicksPerUnit = 2
SPECIFICATION ReceiveSpec
PROPERTY LeftOnlyWhenDue
