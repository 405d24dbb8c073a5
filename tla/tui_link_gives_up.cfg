SPECIFICATION LinkSpec
CONSTANTS
    MaxConns = 2
    BufSize = 1
    MaxEvents = 1
    MaxRestarts = 0
INVARIANT NeverGivesUp
CHECK_DEADLOCK FALSE
