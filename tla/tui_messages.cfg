SPECIFICATION Spec
CONSTANTS
    Old = 2
    Sends = {11}
    News = {21}
    Top = 50
    LoadSize = 1
    OlderSize = 1
    Hits = {1}
    Half = 1
    Cap = 3
    Slots = {1, 2}
    MaxQueue = 1
    MaxAsks = 2
    Statuses = {"read"}
    MaxMoves = 1
INVARIANTS ListedOnce NoTextLost NoHoles
CHECK_DEADLOCK FALSE
