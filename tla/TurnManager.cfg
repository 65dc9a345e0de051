CONSTANTS
    MaxRounds = 3
    MaxWrites = 1
SPECIFICATION Spec
INVARIANTS
    OneLiveRound
    ClosedForOneReason
PROPERTIES
    ClosedRoundsAreFrozen
    ImplementsRounds
