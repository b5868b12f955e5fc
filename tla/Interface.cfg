SPECIFICATION InterfaceSpec
CONSTANTS
    Transports = {1, 2}
    Keyboards = {board1, board2}
    NoKeyboard = none
    MaxTries = 3
    MaxAttempts = 2
    MaxPlugs = 2
    MaxFaults = 1
    MaxUses = 1
    key1 = key1
    key2 = key2
    PhysKeys = {key1, key2}
    MatrixRows = 1
    MatrixCols = 3
    HomeGrid <- TwoKeys
    MaxUnrest = 1
    MaxWire = 2
    Fetched = {"layouts"}
    Others = {"saved"}
    MaxNotices = 3
    MaxCopies = 2
    Codes = {leftShift, rightShift, letter}
    ModifierGroups = {{leftShift, rightShift}}
    leftShift = leftShift
    rightShift = rightShift
    letter = letter
    MaxFlips = 2
INVARIANTS InterfaceTypeOK ConnectionIsTrue NoTwoOnACell InjectedIsHeld DrawnIsTrue
PROPERTIES InterfaceSteps InterfaceSettles
CHECK_DEADLOCK FALSE
