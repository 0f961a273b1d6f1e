SPECIFICATION Spec
CONSTANTS
    None = None
    Unset = Unset
    c1 = c1
    c2 = c2
    Calls = {c1, c2}
    Interruptible = {c1}
    MaxScore = 2
    NaN = NaN
    DefaultPrice = 448
    PriceUnit = 10
    One = 64
    Mantissa = 16
    Spacings <- MCSpacings
    Groups <- MCGroups
    Categories <- MCCategories
    Backends <- MCBackends
    RuleIds <- MCRuleIds
    LocalHinted <- MCLocalHinted
    CloudHinted <- MCCloudHinted
    PriceTable <- MCPriceTable
    Routers <- MCRouters
    Requests <- MCRequests
    Analyses <- MCAnalyses
INVARIANTS
    TypeOK
    OneRowPerCall
    RowTellsTheTruth
    DeniedStaysLocal
    LogShowsDeniedLocal
    CorrectPolicyNeverDenied
    BudgetBeforeShield
    ShieldUsable
PROPERTIES
    ShieldSettles
    EveryRouteRecorded
