SPECIFICATION MCSpec
CONSTANTS
    \* Session
    Sockets = {s1, s2}
    MaxWSClients = 1
    SendQueueSize = 1
    Nothing = Nothing
    MaxConnects = 1
    MaxCalls = 2
    MaxPending = 1
    \* ChatFlags
    Chats = {c1}
    MaxPhone = 1
    MaxUser = 1
    MaxOnline = 2
    MaxStarts = 2
    MaxGets = 2
SYMMETRY Symmetry
INVARIANTS ReadyReachesEveryClient NoSecondConnect ConnectIsInFlight FlagsFollowPhone ListFollowsFlags
