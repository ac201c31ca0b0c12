SPECIFICATION FairArtifactsSpec
CONSTANTS
    j1 = j1
    j2 = j2
    Jobs <- MCJobs
    Seconds = {1}
    Attempts = 2
    Requests <- MCRequests
    MaxScenarios = 2
    FixedGroups <- MCFixedGroups
CHECK_DEADLOCK FALSE
INVARIANTS
    ArtifactsTypeOK
    DirectoriesAreNotShared
    RefusedOnlyIfFull
    ResultListsItsOwnFiles
    EarlyEndLeavesAPrefix
PROPERTIES
    ImplementsArtifactLog
    JobsEnd
