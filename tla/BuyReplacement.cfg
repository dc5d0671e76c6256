SPECIFICATION FairSpec
CONSTANTS
    MaxOrders = 3
    Level <- Levels
    Step = 2
    MaxPerCycle = 2
    Target = 2
    MaxFaults = 1
CHECK_DEADLOCK FALSE
INVARIANT TypeOK
INVARIANT OncePerBuy
INVARIANT LiveIsActive
INVARIANT OpenOutcomeIsQuiet
PROPERTY RowsSettle
