CONSTANTS
    Users <- MCUsers
    Callers <- MCCallers
    MaxTime = 4
    FineClock = TRUE
SPECIFICATION Spec
INVARIANT TypeOK
INVARIANT CacheMatchesFileAtSameStamp
PROPERTY EnableTakesEffect
