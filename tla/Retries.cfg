SPECIFICATION RetriesSpec
CONSTANTS
    Requests = {r1, r2}
    Clients <- AllClients
    MaxConcurrent = 1
    MaxAttempts = {0, 1, 4}
    Backoffs <- SmallBackoffs
    None = None
INVARIANTS OneOpenBody AllAttemptsMade ResultIsTheCalls WaitsAreBounded AttemptsAreBounded
PROPERTIES CancelEndsEither
CHECK_DEADLOCK FALSE
