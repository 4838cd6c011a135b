SPECIFICATION FairSpec
CONSTANTS
    room = room
    n1 = n1
    n2 = n2
    blank = blank
    Raw <- MCRaw1
    Blank = blank
    TrimSpace <- MCTrim1
    Conn = {me, you}
    NoConn = NoConn
    NotMember = NotMember
    HistoryCap = 1
    Me = me
    Room = {room}
    NoRoom = NoRoom
    ClientFrame <- MCEverything
    OutboundCap = 2
    Faults = {"timeout", "refused", "failed", "lost", "rehydrate"}
    MaxFrames = 2
    MaxOthers = 1
INVARIANTS
    TypeOK
    FramesInOrder
    OnlyUnsureStay
PROPERTIES
    TakeoverSurvives
    Unwinds
