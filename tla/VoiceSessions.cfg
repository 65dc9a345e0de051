SPECIFICATION Spec
CONSTANTS
    MaxRounds = 4
    MaxInterrupts = 2
    MaxErrors = 1
INVARIANTS InterruptedTurnFirst OpenOnlyIfBlocked
PROPERTIES InterruptReachesSession
