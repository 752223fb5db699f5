SPECIFICATION FairSpec
CONSTANTS
    Calls = {"c1", "c2", "c3"}
    Kids = {"old", "new", "ec"}
    Kid <- TokenKids
    Usable = {"old", "new"}
    Documents <- Rotation
    MaxFetches = 2
    NoOne = NoOne
INVARIANTS CacheIsLastAnswer NoExpiredKeys FetchOnlyWhenStale
PROPERTY CallsEnd
CHECK_DEADLOCK FALSE
