CONSTANTS
    Masters = {"m"}
    Slaves <- MCSlaves
    FirstIp <- MCFirstIp
    NewIps <- MCNewIps
    Allowed <- MCAllowed
    NodeSearchDelay <- MCDelay
    NoMaster = "none"
    InvalidIp = InvalidIp
    MaxSerial = 7
    MaxCount = 2
    MaxNodeSearchDevices = 1
    NodeSearchTime = 2
    SetIpTime = 1
    MaxRequests = 3
SPECIFICATION Spec
INVARIANTS
    TypeOK
    TimersFollowRequests
    SuccessMeansSet
    ErrorMeansRefused
    AddressesDistinct
    FoundSinceSearch
