SPECIFICATION Spec
CONSTANTS
    Registered <- MCRegistered
    Runs <- MCRuns
    Pauses = 13
    MaxBacklog = 5
    GSA = FALSE
CHECK_DEADLOCK FALSE
INVARIANTS
    TypeOK
    RestartedOnce
PROPERTIES
    Ends
    ImplementsReport
