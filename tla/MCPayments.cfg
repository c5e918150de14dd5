SPECIFICATION PaymentsSpec
CONSTANTS
    Users = {"u1"}
    RequestIds = {}
    IdemKeys <- MCPaymentKeys
    Amounts = {}
    Costs = {}
    Reconcilers = {}
    Timeout = 0
    MaxAborts = 0
    NULL = NULL
    PurchaseIds = {"p1"}
    Providers = {"stripe"}
    Catalog <- MCCatalog
    Facts <- MCReversals
    Handlers = {"h1"}
    Loops = {"l1"}
    Ledgers = {"service", "other"}
    BatchSize = 1
    MaxAttempts = 1
    MaxDeliveries = 3
    MaxFaults = 1
INVARIANTS
    PaymentsTypeOK
    AppliedIsBooked
    ReversalsAddUp
