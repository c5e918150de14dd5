SPECIFICATION EntitlementsSpec
CONSTANTS
    Users = {"u1", "u2"}
    RequestIds = {}
    IdemKeys <- MCKeys
    Amounts = {}
    Costs = {}
    Reconcilers = {}
    Timeout = 0
    MaxAborts = 0
    NULL = NULL
    Callers = {"c1", "c2"}
    Plans = {"pro", "basic", "off"}
    MonthlyCredits = 1
    PlanMonthlyCredits <- MCPlanMonthlyCredits
    MaxPeriod = 2
INVARIANTS
    MonthlyOnce
PROPERTIES
    CallersAreGranted
