SPECIFICATION Spec
CONSTANTS
    Services <- MCServices
    EnableAttrs <- MCEnableAttrs
    BackendList <- MCBackendList
    Modes <- MCModes
CHECK_DEADLOCK FALSE
INVARIANTS
    TypeOK
    NoReinstall
    PickedServicesInstalled
    NoSamlOnSpanner
    LocationsServed
    PersistenceMatchesBackend
PROPERTY
    PostSetupKeepsStorage
