SPECIFICATION FairSpec
CONSTANTS
    m1 = m1
    m2 = m2
    s1 = s1
    s2 = s2
    other = other
    rx1 = rx1
    NoIp = NoIp
    Multistation = Multistation
    NoData = NoData
    DefaultTimeout = 1
    DefaultTimeoutCount = 2
    NumOccupied = 2
    WaitTimeDisableSlave = 2
    Masters = {m1, m2}
    SlaveIps = {s1, s2}
    OtherIds = {NoIp, Multistation, other}
    Requests <- MCRequests
    RxValues = {NoData, rx1}
    MaxDelay = 2
INVARIANTS
    TypeOK
    TimersFollowState
    ApplicationAgrees
    NoStaleControl
    DataFromController
PROPERTIES
    ControllerNeverStolen
    HandshakeBeforeData
    DisablingEnds
