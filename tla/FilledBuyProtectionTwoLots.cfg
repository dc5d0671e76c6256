SPECIFICATION Spec
CONSTANTS
    Lot = {l1, l2}
    NoLot = NoLot
    Size <- EqualSize
    Legacy = 2
    Price = {p1, p2}
    NoPrice = NoPrice
    MaxSells = 2
    MaxCrashes = 1
    SharedPurpose = TRUE
SYMMETRY LotPriceSymmetry
INVARIANT ProtectedIsBacked
INVARIANT NoFillForgotten
INVARIANT LegacyUntouched
