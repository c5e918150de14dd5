SPECIFICATION SettlementFairSpec
CONSTANTS
    Users = {"u1"}
    RequestIds = {"q1"}
    IdemKeys <- MCKeys
    Amounts = {2}
    Costs = {1, 3}
    Reconcilers = {"r1"}
    Timeout = 1
    MaxAborts = 0
    NULL = NULL
    Workers = {"w1", "w2"}
    Sweepers = {"s1"}
    OutboxStale = 2
    Limit = 1
    MaxFaults = 1
INVARIANTS
    SettlementTypeOK
    SettledMeansCaptured
    AuditMatchesCharge
    FinishedIsClosed
    CaptureLeavesATrace
PROPERTIES
    NeverSweptEarly
    SweepEndsHolds
