SPECIFICATION SubscriptionsFairSpec
CONSTANTS
    Users = {"u1"}
    RequestIds = {}
    IdemKeys <- MCSubscriptionKeys
    Amounts = {}
    Costs = {}
    Reconcilers = {}
    Timeout = 0
    MaxAborts = 0
    NULL = NULL
    Events <- MCEvents
    SubscriptionCredits <- MCSubscriptionCredits
    Requests = {"h1", "h2"}
    MaxFaults = 1
INVARIANTS
    NewestEventWins
    InvoicesGrantOnce
    AckedIsGranted
PROPERTIES
    EventsTakeEffect
