CONSTANTS
    Contents <- MCContents
    Callers <- MCCallers1
    MaxTime = 5
    FineClock = TRUE
    GroupFiles <- MCGroupFiles
    Users <- MCUsers
SPECIFICATION Spec
INVARIANT TypeOK
 
PROPERTY ImplementsAdminUsers
