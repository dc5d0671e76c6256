SPECIFICATION FairSpec
CONSTANTS
    Symbol <- Symbols
    Champion <- Symbols
    ManualSymbol <- Manuals
    Threshold = 2
    Cooldown = 2
    MaxBackoff = 2
    MaxDelay = 2
    MaxFaults = 2
CHECK_DEADLOCK FALSE
INVARIANT TypeOK
INVARIANT BlockedIsQuiet
INVARIANT OpenIsVerified
PROPERTY BackoffIsSilent
PROPERTY HaltStopsWorkers
PROPERTY BlockIsLifted
PROPERTY BuysAreWithdrawn
PROPERTY WorkerReturns
