SPECIFICATION Spec
CONSTANTS
    c1 = c1  c2 = c2
    home = home
    Client <- TwoClients
    Address <- OneAddress
    clientIp <- AllAtHome
    MaxGet = 1
    MaxPost = 1
    WindowTicks = 2
    MaxSockets = 3
    Enabled = TRUE
    Method = {"POST"}
    MaxLost = 1
    MaxAttempts = 2
INVARIANTS TypeOK BudgetHeld NeverSilent SocketsCounted
PROPERTIES ComesBack ServedAgain
