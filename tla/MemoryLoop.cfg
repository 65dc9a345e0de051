SPECIFICATION MemorySpec
CONSTANTS
    MaxRounds = 2
    MaxCalls = 2
INVARIANTS StoredOnce OkItemsAreStored RestMeansSettled
PROPERTIES ClosedRoundsStaySilent
CHECK_DEADLOCK FALSE
