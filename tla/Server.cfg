SPECIFICATION FairSpec
CONSTANTS
    Names = {n1, n2}
    Listeners = {l1}
    Serves = {s1, s2}
    Registrars = {r1, r2}
    NoListener = NoListener
    NoName = NoName
    NoOne = NoOne
INVARIANTS ServesTheMap ResultFaithful
PROPERTY StopEndsServe
CHECK_DEADLOCK FALSE
