SPECIFICATION Spec
CONSTANTS
    s1 = s1
    s2 = s2
    m2 = m2
    ry1 = ry1
    NoIp = NoIp
    Multistation = Multistation
    NoData = NoData
    DefaultTimeout = 1
    DefaultTimeoutCount = 2
    MasterIp = m1
    hier <- TwoGroups
    ArbitrationTime = 2
    MaxSequenceNo = 2
    MaxParameterNo = 0
    MasterProtocolVer = 2
    Frames <- TwoGroupsFrames
    RyValues = {}
    Statuses = {}
    Stoppable = {}
    Forceable = {}
    MaxDelay = 2
    Beats = 1
INVARIANTS
    GroupsShareFate
    ScansAreTimed
    ConstantScanPace
PROPERTIES
    StandbyIsSilent
