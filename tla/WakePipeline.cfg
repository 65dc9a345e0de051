SPECIFICATION WakeSpec
CONSTANTS
    RingSize = 4
    Lookback = 2
    MinBuffer = 1
    MaxChunks = 6
    MaxWords = 2
    MaxStalls = 1
    MaxFailures = 1
INVARIANTS MicrophoneIsFree AsleepIsHeard
PROPERTIES OnlyLeftoversWakeAgain HeardIsTaken
