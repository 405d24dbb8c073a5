SPECIFICATION Spec
CONSTANTS
    lid = lid
    pn = pn
    Phones <- MCPhones
    PNOf <- MCPNOf
    PushNames = {push}
    UserNames = {mine}
    NoName = NoName
    NoRow = NoRow
    Requests = {r1}
    QueueSize = 1
    MaxInputs = 2
    MaxLogouts = 1
    MaxCrashes = 1
INVARIANTS LogoutKeepsWhitelist
PROPERTIES UserNameKept ImplementsWhitelist LidRowMoves
CHECK_DEADLOCK FALSE
