CONSTANTS
    Backends = {"ldap", "mysql", "spanner", "couchbase"}
    MaxRuns = 3
    MaxFailures = 2
SPECIFICATION Spec
CHECK_DEADLOCK FALSE
INVARIANTS
    TypeOK
    OneEntryEach
    ReferencesExist
    InstalledIsUsable
PROPERTIES
    ConfiguredIdsStable
    AllowedKept
    AdminChangesKept
