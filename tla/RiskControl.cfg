SPECIFICATION Spec
CONSTANTS
    Supervisor = "supervisor"
    Worker <- Workers
    Operator <- Operators
    NoOne = "none"
    Reason = {"uncertain"}
    LossReason = "loss"
    Equity <- Equities
    MaxLoss = 3
    StartPct = 3
    PeakPct = 2
    Cooldown = 2
    DayLength = 2
    MaxTime = 3
    MaxFaults = 1
CHECK_DEADLOCK FALSE
INVARIANT TypeOK
INVARIANT LossIsHalted
INVARIANT ActivationUnderHalt
PROPERTY ImplementsLatch
PROPERTY ResetWaits
PROPERTY DecisionSeesHalt
