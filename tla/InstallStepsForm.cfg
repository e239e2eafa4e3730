SPECIFICATION Spec
CONSTANTS
    Registered <- MCRegistered
    Runs <- MCRuns
    Pauses = 2
    Visits = 2
    GSA = TRUE
CHECK_DEADLOCK FALSE
INVARIANT TypeOK
PROPERTIES
    ImplementsReport
    EndIsReported
