SPECIFICATION Spec
CONSTANTS
    Lot = {l1}
    NoLot = NoLot
    Size <- LargeSize
    Legacy = 3
    Price = {p1}
    NoPrice = NoPrice
    MaxSells = 3
    MaxCrashes = 1
    SharedPurpose = TRUE
INVARIANT LegacyUntouched
INVARIANT ProtectionIsComplete
INVARIANT ClosedIsSold
