SPECIFICATION FairSpec
CONSTANTS
    m1 = m1
    m2 = m2
    s1 = s1
    NoIp = NoIp
    Multistation = Multistation
    NoData = NoData
    DefaultTimeout = 1
    DefaultTimeoutCount = 2
    NumOccupied = 1
    WaitTimeDisableSlave = 1
    Masters = {m1, m2}
    SlaveIp = s1
    Configs <- TwoMastersConfigs
    ArbitrationTime = 1
    MaxSequenceNo = 2
    MaxParameterNo = 7
    MasterProtocolVer = 2
    DefaultParameterNo = 0
    Outcomes = {"FAILED"}
    FirstFiles <- NoPlace
    Repeats = FALSE
    MaxSessions = 1
    MaxSlaveFaults = 0
PROPERTIES
    Recovers
