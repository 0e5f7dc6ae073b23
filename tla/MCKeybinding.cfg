CONSTANTS
    MaxPresses = 3
    OtherCmds <- MCOtherCmds
    MaxNumLockPresses = 2
SPECIFICATION Spec
INVARIANT TypeOK
INVARIANT AtMostOneTimerPending
INVARIANT TimerReadsAClick
INVARIANT SavedMatchesLed
CHECK_DEADLOCK FALSE
PROPERTY LedEventuallySaved
