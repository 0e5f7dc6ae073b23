CONSTANTS
    Contents <- MCContents
    Callers <- MCCallers2
    MaxTime = 5
    FineClock = TRUE
    GroupFiles <- MCGroupFiles
    Users <- MCUsers
SPECIFICATION Spec
INVARIANT CacheMatchesFileAtSameStamp
