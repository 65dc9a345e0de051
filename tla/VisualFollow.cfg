CONSTANTS
    RecenterAfterMisses = 3
    UnlockAfter = 3
SPECIFICATION FollowFairSpec
INVARIANTS
    LockedHeadStays
PROPERTIES
    ForgottenInTheEnd
    SeenInTheEnd
