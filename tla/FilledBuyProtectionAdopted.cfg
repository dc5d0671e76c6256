SPECIFICATION Spec
CONSTANTS
    Lot = {l1, l2}
    NoLot = NoLot
    Size <- EqualSize
    Legacy = 2
    Price = {p1, p2}
    NoPrice = NoPrice
    MaxSells = 3
    MaxCrashes = 1
    SharedPurpose = TRUE
INVARIANT ClosedIsSold
