SPECIFICATION Spec
CONSTANTS
    Profile = "ce"
    Offered <- MCOffered
    MaxRuns = 3
    MaxFailures = 2
CHECK_DEADLOCK FALSE
INVARIANTS
    TypeOK
    EnabledHasEntries
    OxTrustReady
    OxAuthPrepared
    PickedComplete
PROPERTIES
    ImportedAgainOnlyIfForced
