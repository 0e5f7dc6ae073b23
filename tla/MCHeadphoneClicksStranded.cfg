CONSTANTS
    MaxPresses = 3
    OtherCmds <- MCOtherCmds
SPECIFICATION Spec
INVARIANT PendingClicksHaveATimer
CHECK_DEADLOCK FALSE
