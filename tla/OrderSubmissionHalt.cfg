SPECIFICATION FairSpec
CONSTANTS
    Slot = {s1, s2}
    NoSlot = NoSlot
    MaxIntents = 2
    MaxCrashes = 1
    EnforceTarget = TRUE
    PostsSettle = TRUE
PROPERTY NoPostUnderHalt
