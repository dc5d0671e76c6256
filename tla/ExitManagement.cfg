SPECIFICATION FairSpec
CONSTANTS
    l1 = l1
    l2 = l2
    Lots <- TwoLots
    Qty = 2
    Legacy = 1
    MaxFaults = 2
CHECK_DEADLOCK FALSE
INVARIANT TypeOK
INVARIANT NothingUnattended
INVARIANT ExitsWithinBuys
PROPERTY RestartIsAttended
PROPERTY UnattendedResolves
