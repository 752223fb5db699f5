SPECIFICATION FairKitSpec
CONSTANTS
    h = h
    g = g
    n1 = n1
    n2 = n2
    Names = {n1, n2}
    Listeners = {h, g}
    Serves = {main}
    Registrars = {n1, n2}
    Of <- OneEach
    Kind <- Kinds
    HasAddr <- Addresses
    MaxBusy = 1
    NoListener = NoListener
    NoName = NoName
    NoOne = NoOne
INVARIANTS ReturnedIsQuiet NilMeansNothingCut
PROPERTY ImplementsServer
CHECK_DEADLOCK FALSE
