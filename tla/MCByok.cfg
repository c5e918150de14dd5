SPECIFICATION ByokSpec
CHECK_DEADLOCK FALSE
CONSTANTS
    Owners = {"o1", "o2"}
    Creds = {"a"}
    SealingKey <- MCSealingKey
    Writers = {"w1", "w2"}
    MaxPuts = 3
    MaxFaults = 1
    NULL = NULL
    Calls <- MCCalls
    Responses <- MCResponses
    MaxCapture = 3
    MaxIdentifier = 4
    Workloads <- MCWorkloads
INVARIANTS
    RelayTypeOK
    RotationsChain
    RevokedIsGone
    RecordedIsTheirs
    MeteredInTime
PROPERTIES
    RotationKeepsServing
