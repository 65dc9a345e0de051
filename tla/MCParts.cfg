SPECIFICATION PartSpec
CONSTANTS
    MaxRounds = 2
    MaxWrites = 1
    Starts = 3
    Stalls = 1
    Objects <- SomeObjects
    Places <- SomePlaces
    Saliences <- SomeSaliences
    MatchDistance = 2
    MaxMissing = 1
    Cooldown = 2
    MaxTracks = 3
    Cooldowns <- SomeCooldowns
    ChannelCaps <- SomeChannelCaps
    EventCaps <- SomeEventCaps
    Situations <- SomeSituations
    Feedback = 2
    Horizon = 4
    PreRoll = 2
    MinVoice = 2
    EndSilence = 2
    MinCapture = 3
    MaxFrames = 7
CHECK_DEADLOCK FALSE
INVARIANTS
    RepliesStayInTheirRound
    IdentitiesStick
    WithinLimits
    SpeechIsKept
    LivesAreSeparate
PROPERTIES
    AttentionIsEarned
    AnnouncedIsKept
