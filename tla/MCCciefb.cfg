SPECIFICATION FairSpec
CONSTANTS
    m1 = m1
    m2 = m2
    s1 = s1
    NoIp = NoIp
    Multistation = Multistation
    NoData = NoData
    DefaultTimeout = 1
    DefaultTimeoutCount = 2
    NumOccupied = 1
    WaitTimeDisableSlave = 1
    Masters = {m1}
    SlaveIp = s1
    Configs <- OneMasterConfigs
    ArbitrationTime = 1
    MaxSequenceNo = 2
    MaxParameterNo = 7
    MasterProtocolVer = 2
    DefaultParameterNo = 0
    Outcomes = {"SAVED", "TORN"}
    FirstFiles <- OtherVersion
    Repeats = TRUE
    MaxSessions = 2
    MaxSlaveFaults = 1
INVARIANTS
    FollowsOneSession
PROPERTIES
    Recovers
