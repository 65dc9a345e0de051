CONSTANTS
    MaxListens = 3
    MaxInterrupts = 2
SPECIFICATION FairSpec
INVARIANTS
    StraysAreContained
    ApprovedHasItsDecision
PROPERTIES
    ClosedBeforeLastCheckIsSilent
    ThreadsEnd
