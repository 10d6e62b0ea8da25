CONSTANTS
    Masters = {"m", "n"}
    Slaves <- MCSlaves
    FirstIp <- MCFirstIp
    NewIps <- MCNewIps
    Allowed <- MCAllowed
    NodeSearchDelay <- MCDelay
    NoMaster = "none"
    InvalidIp = InvalidIp
    MaxSerial = 7
    MaxCount = 2
    MaxNodeSearchDevices = 1
    NodeSearchTime = 2
    SetIpTime = 1
    MaxRequests = 1
SPECIFICATION FairSpec
INVARIANTS
    SuccessMeansSet
PROPERTY
    RequestsEnd
