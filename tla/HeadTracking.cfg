CONSTANTS
    PanMin = 1
    PanMax = 4
    Home = 2
    MaxStep = 1
    NeckStep = 1
    Required = 2
    FusionInterval = 2
    MinInterval = 2
    FrameGap = 1
    RecenterAfter = 2
    MaxOrients = 1
SPECIFICATION Spec
INVARIANTS
    NeckKnowsHead
    PlannerKnowsHead
PROPERTIES
    StepsAreSmall
