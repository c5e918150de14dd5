SPECIFICATION FairSpec
CONSTANTS
    Users = {"u1", "u2"}
    RequestIds = {"q1", "q2"}
    IdemKeys <- MCCollidingKeys
    Amounts = {0, 1, 2}
    Costs = {0, 1, 3}
    Reconcilers = {"r1", "r2"}
    Timeout = 1
    MaxAborts = 1
    NULL = NULL
INVARIANTS
    TypeOK
    NoDrift
    DebtIsExplained
    ReservationsBalance
    AccountingInv
    KeysPayOnce
PROPERTIES
    ImplementsEscrow
    ClosedIsFinal
    NeverExpiredEarly
    HoldsEnd
