SPECIFICATION Spec
CONSTANTS
    Calls = {"c1", "c2", "c3"}
    Kids = {"old", "new", "ec"}
    Kid <- TokenKids
    Usable = {"old", "new"}
    Documents <- Withdrawn
    MaxFetches = 2
    NoOne = NoOne
INVARIANTS CacheIsLastAnswer
CHECK_DEADLOCK FALSE
