SPECIFICATION MCSpec
CONSTANTS
    h = h
    g = g
    e = e
    h1 = h1
    h2 = h2
    g1 = g1
    g2 = g2
    e1 = e1
    Listeners = {h, g, e}
    Calls = {h1, h2, g1, g2, e1}
    Of <- Targets
    Kind <- AllKinds
    HasAddr <- Addresses
    MaxBusy = 1
INVARIANTS NilOnlyAfterCancel ReturnMeansQuiet
PROPERTIES ShutdownTerminates ServeEndsWithServer
CHECK_DEADLOCK FALSE
