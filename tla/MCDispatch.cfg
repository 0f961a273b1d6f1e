SPECIFICATION Spec
CONSTANTS
    None = None
    Unset = Unset
    MaxScore = 2
    NaN = NaN
    DefaultPrice = 448
    PriceUnit = 10
    One = 64
    Mantissa = 16
    Spacings <- MCSpacings
    MaxEdits = 2
    MaxTools = 2
    SetVars = {"KEY"}
    Installed = {"cloud", "local"}
    ExtraHosts <- MCExtraHosts
    SdkHosts <- MCSdkHosts
    Groups <- MCGroups
    Categories <- MCCategories
    Backends <- MCBackends
    RuleIds <- MCRuleIds
    LocalHinted = {"ollama"}
    CloudHinted = {"openai"}
    PriceTable <- MCPriceTable
    Commands <- MCCommands
    Queries <- MCQueries
    Configs <- MCConfigs
    Policies <- MCPolicies
    Analyses <- MCAnalyses
INVARIANTS
    TypeOK
    EvaluatesFirstMatch
    BudgetKept
    DispatchStaysLocal
    StatusTellsTheTruth
PROPERTIES
    CallEnds
