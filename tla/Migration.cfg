SPECIFICATION Spec
CONSTANTS
    Releases <- MCReleases
    OldVersions <- MCOldVersions
    OxVersions <- MCOxVersions
    MaxRuns = 2
CHECK_DEADLOCK FALSE
INVARIANTS
    TypeOK
    OldDataKept
    NewEntriesKept
    IdpClientKnown
