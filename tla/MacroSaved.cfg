SPECIFICATION EditorSpec
CONSTANTS
    Keys = {1, 2}
    Steps = {3, 7}
    maxEvents = 4
    MaxBlocks = 4
    MaxActions = 5
    MaxClock = 30
INVARIANTS SavedMacroPlays
CHECK_DEADLOCK FALSE
