SPECIFICATION TelegramSpec
CONSTANTS
    OptionLists <- MCOptionLists
    Invoices <- MCInvoices
    MaxPrice = 4
    MaxInt = 7
    MaxTips = 2
    MaxCharges = 2
    Bots <- MCBots
    Skews <- MCSkews
    Users = {u1, u2}
    MaxAge = 1
    FutureSkew = 1
    Start = 2
    MaxTime = 5
    MaxIssued = 2
SYMMETRY UserSymmetry
INVARIANTS GrantedOncePerCharge ToldIsDone ChargesAreSane AcceptedIsAuthentic AuthenticIsAccepted
CHECK_DEADLOCK FALSE
