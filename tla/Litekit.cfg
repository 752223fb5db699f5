SPECIFICATION LitekitSpec
CONSTANTS
    Evolvers = {"e1", "e2", "e3", "e4"}
    Directory <- History
    SqlFiles <- MutationFiles
    NoOne = NoOne
    AccessModes = {"rwc", "rw", "ro", "memory", "unsupported"}
    MaxWrites = 4
    MaxStreams = 2
INVARIANTS AppliedOnceInTurn WholeReleases OkMeansApplied NothingReplicatedIsLost CleanCloseKeeps
PROPERTY WritesSurvive
CHECK_DEADLOCK FALSE
