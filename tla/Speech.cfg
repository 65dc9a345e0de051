CONSTANTS
    MaxReplies = 2
    MaxStops = 2
SPECIFICATION FairSpec
INVARIANTS
    GateCoversReply
    BusyAtRestHasACause
PROPERTIES
    GateOpens
