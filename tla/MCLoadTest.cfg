SPECIFICATION FairSpec
CONSTANTS
    Rooms = 1
    UsersPerRoom = 2
    Worker = {w1, w2}
    Cap = 1
    Faults = {"refused", "lost", "late"}
    MaxMessages = 2
    MaxLate = 1
INVARIANTS
    TypeOK
    CountedOnce
    JoinsFindTheirRoom
    SetupIsComplete
    StoredAtMostOnce
    OnlyFaultsFail
PROPERTIES
    ReportsTheirStage
    LoadEnds
CHECK_DEADLOCK FALSE
