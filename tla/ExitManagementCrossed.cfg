SPECIFICATION FairSpec
CONSTANTS
    l1 = l1
    l2 = l2
    Lots <- TwoLots
    Qty = 2
    Legacy = 1
    MaxFaults = 0
CHECK_DEADLOCK FALSE
PROPERTY SuccessIsFlat
