CONSTANTS
    Word = 16
    MaxPeriod = 5
    MaxGap = 2
    AgeBound = 16
    Messages = {0, 1}
    NoMessage = NoMessage
    LimiterPeriod = 3
SPECIFICATION LimiterSpec
INVARIANTS
    NoOverdueTimer
    OnlyRepeatsDropped
    NoFlood
PROPERTY ImplementsAbs
