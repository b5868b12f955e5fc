SPECIFICATION MacrosSpec
CONSTANTS
    HidKeys = {"a", "b"}
    MacroIds = {"outer", "inner"}
    NoMacro = "none"
    Reload = "reload"
    Bound = {"a", "outer"}
    Configurations <- AllModes
    MaxDepth = 1
    QueueSize = 2
    CountSpan = 4
    MaxEdges = 4
    MaxSaves = 1
    MaxId = 1
    Values = {v1, v2}
    Placeholder = loading
    None = none
    MaxTries = 2
    MaxRequests = 3
    MaxFaults = 1
    Keys = {1, 2}
    Steps = {3, 7}
    maxEvents = 4
    MaxBlocks = 4
    MaxActions = 5
    MaxClock = 30
INVARIANTS MacrosTypeOK ListsAreTrue EditorIsTrue NothingLeftDown RepeatsUnlessMissed ReloadOwed
PROPERTIES AbortsAtOnce NewReplacesNothing ViewKeepsEdges MacrosSettle HostCatchesUp
CHECK_DEADLOCK FALSE
