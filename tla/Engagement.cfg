CONSTANTS
    MaxFailures = 3
    MaxRestarts = 3
SPECIFICATION EngagementFairSpec
INVARIANTS
    WriterKnowsFile
    FileFollowsConversation
PROPERTIES
    HeadComesToRest
