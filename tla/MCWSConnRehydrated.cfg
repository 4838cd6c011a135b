SPECIFICATION Spec
CONSTANTS
    room = room
    n1 = n1
    n2 = n2
    blank = blank
    Raw <- MCRaw1
    Blank = blank
    TrimSpace <- MCTrim1
    Conn = {me, you}
    NoConn = NoConn
    NotMember = NotMember
    HistoryCap = 1
    Me = me
    Room = {room}
    NoRoom = NoRoom
    ClientFrame <- MCPresence1
    OutboundCap = 2
    Faults = {"rehydrate"}
    MaxFrames = 1
    MaxOthers = 1
INVARIANT
    GoneMeansLeft
