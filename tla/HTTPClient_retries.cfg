SPECIFICATION Spec
CONSTANTS
    Requests = {r1}
    Clients <- RetryingClients
    MaxConcurrent = 1
INVARIANT ConfiguredRetriesAreMade
CHECK_DEADLOCK FALSE
