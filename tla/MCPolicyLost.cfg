SPECIFICATION Spec
CONSTANTS
    None = None
    SetVars = {"KEY"}
    ExtraHosts <- MCExtraHosts
    SdkHosts <- MCSdkHosts
    Installed = {"cloud", "local"}
    Requests = {"q1"}
    Configs <- UniqueConfigs
    Defaults = {"local", "cloud", "elsewhere"}
    MaxStarts = 1
INVARIANTS
    PolicyFailureRefuses
