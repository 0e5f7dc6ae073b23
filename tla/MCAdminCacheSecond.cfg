CONSTANTS
    Contents <- MCContents
    Callers <- MCCallers1
    MaxTime = 5
    FineClock = FALSE
    GroupFiles <- MCGroupFiles
    Users <- MCUsers
SPECIFICATION Spec
PROPERTY ImplementsAdminList
