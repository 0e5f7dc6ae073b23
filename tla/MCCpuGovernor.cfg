CONSTANTS
    Cpus <- MCCpus
    Accepts <- MCAccepts
    Available <- MCAvailable
SPECIFICATION Spec
INVARIANT TypeOK
INVARIANT IdleGovernorsAgree
INVARIANT ProbeFindsAccepted
INVARIANT BalancePickIsFirstSupported
