SPECIFICATION Spec
CONSTANTS
    Evolvers = {"e1", "e2"}
    Directory <- Twice
    SqlFiles <- MutationFiles
    NoOne = NoOne
INVARIANT AppliedOnce
CHECK_DEADLOCK FALSE
