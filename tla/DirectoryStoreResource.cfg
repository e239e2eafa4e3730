CONSTANTS
    Backends = {"ldap"}
    MaxRuns = 2
    MaxFailures = 1
SPECIFICATION Spec
CHECK_DEADLOCK FALSE
INVARIANT OneScimResource
