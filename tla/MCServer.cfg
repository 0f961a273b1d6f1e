SPECIFICATION Spec
CONSTANTS
    None = None
    SetVars = {"KEY"}
    ExtraHosts <- MCExtraHosts
    SdkHosts <- MCSdkHosts
    Installed = {"cloud", "local"}
    Requests = {"q1", "q2"}
    Configs <- MCConfigs
    Defaults = {"local", "cloud", "elsewhere"}
    MaxStarts = 3
INVARIANTS
    TypeOK
    StartIsAllOrNothing
    DefaultServes
    ServedByOpenAdapters
    StopClosesAll
    HostsAllowed
PROPERTIES
    StartEnds
    StopEnds
