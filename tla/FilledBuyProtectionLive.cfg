SPECIFICATION FairSpec
CONSTANTS
    Lot = {l1}
    NoLot = NoLot
    Size <- EqualSize
    Legacy = 2
    Price = {p1, p2}
    NoPrice = NoPrice
    MaxSells = 2
    MaxCrashes = 2
    SharedPurpose = TRUE
INVARIANT TypeOK
PROPERTY FillsResolve
