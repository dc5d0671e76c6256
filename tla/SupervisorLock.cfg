SPECIFICATION Spec
CONSTANTS
    Symbol <- Manuals
    Champion <- Manuals
    ManualSymbol <- Manuals
    Threshold = 2
    Cooldown = 2
    MaxBackoff = 2
    MaxDelay = 2
    MaxFaults = 2
CHECK_DEADLOCK FALSE
INVARIANT OneWorkerPerSymbol
