SPECIFICATION SettlementFairSpec
CONSTANTS
    Users = {"u1"}
    RequestIds = {"q1"}
    IdemKeys <- MCKeys
    Amounts = {1}
    Costs = {1}
    Reconcilers = {"r1"}
    Timeout = 0
    MaxAborts = 0
    NULL = NULL
    Workers = {"w1"}
    Sweepers = {"s1"}
    OutboxStale = 1
    Limit = 1
    MaxFaults = 1
PROPERTIES
    ServedIsCharged
