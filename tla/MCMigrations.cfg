SPECIFICATION FairSpec
CONSTANTS
    Procs = {"p1", "p2", "p3"}
    schemaVersion <- MCSchemaVersion
    Adds <- MCAdds
    Columns <- MCColumns
    Order <- MCOrder
    Databases <- MCDatabases
    MaxFaults = 2
INVARIANTS
    VersionsAreSound
    RunningHasSchema
PROPERTIES
    EveryoneStarts
