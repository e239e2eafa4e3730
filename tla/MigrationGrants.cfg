SPECIFICATION Spec
CONSTANTS
    Releases = {"2431"}
    OldVersions = {243}
    OxVersions = {313}
    MaxRuns = 1
CHECK_DEADLOCK FALSE
INVARIANT CustomClientCredentials
