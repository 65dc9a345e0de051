CONSTANTS
    MaxListens = 3
    MaxInterrupts = 2
SPECIFICATION Spec
INVARIANTS
    CancelledRoundsCommitNothing
