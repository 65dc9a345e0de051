CONSTANTS
    Tracks = {1, 2}
    Places = {0, 1}
    Qualities = {0}
    Reach = 0
    Hysteresis = 1
    LostTimeout = 1
    TargetAge = 1
    MaxPause = 1
    Window = 4
SPECIFICATION FeedSpec
INVARIANTS
    ConsumerKnowsLock
PROPERTIES
    SwitchIsEarned
