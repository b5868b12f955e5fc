SPECIFICATION DataSpec
CONSTANTS
    MaxLayouts = 3
    Keys = {trans, blank, edited}
    Transparent = trans
    Blank = blank
    NoKeys = none
    MaxRequests = 2
    MaxEdits = 2
    MaxFaults = 1
    Boards = {b1, b2}
    OwnAddress = {b1}
    Fields = {name, split}
    Contents = {empty, x, y, long}
    Long = long
    Cut = x
    Encode <- CutOf
    Unread = {sleep_timeout_ms}
    Empty = empty
    PhysLayouts = {l1, l2}
    DefaultLayout = l1
    Unknown = unknown
    MaxOpens = 2
    MaxChoices = 2
    MaxPolls = 1
    MaxBreaks = 1
    BackupFiles = {file}
    LayerEntries = {0, 1}
    ItemEntries = {0}
    MaxPlaces = 3
    MaxImports = 1
    MaxPicks = 1
    MaxLosses = 1
    file = file
INVARIANTS DataTypeOK UnmarkedIsStored ListIsTheKeyboards ImportTold
PROPERTIES OnlyChangesStored DataSettles
CHECK_DEADLOCK FALSE
