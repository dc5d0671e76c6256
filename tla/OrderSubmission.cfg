SPECIFICATION FairSpec
CONSTANTS
    Slot = {s1, s2}
    NoSlot = NoSlot
    MaxIntents = 2
    MaxCrashes = 3
    EnforceTarget = FALSE
    PostsSettle = TRUE
INVARIANT TypeOK
INVARIANT AtMostOnce
INVARIANT OnePostInFlight
INVARIANT OneHolderPerSlot
INVARIANT LiveIsActive
INVARIANT LiveIsWatched
PROPERTY ImplementsIntents
PROPERTY OutcomesResolve
