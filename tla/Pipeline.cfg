SPECIFICATION Spec
CONSTANTS
    Globals <- MCGlobals
    Routes <- MCRoutes
    Statuses = {0, 201, 503}
    RPCChains <- MCRPCChains
INVARIANTS OneStatus ErrorIsLogged RenderFailureIs500 SameVerdict AbortsAreKnown
CHECK_DEADLOCK FALSE
