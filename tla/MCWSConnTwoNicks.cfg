SPECIFICATION Spec
CONSTANTS
    room = room
    n1 = n1
    n2 = n2
    blank = blank
    Raw <- MCRaw2
    Blank = blank
    TrimSpace <- MCTrim2
    Conn = {me}
    NoConn = NoConn
    NotMember = NotMember
    HistoryCap = 1
    Me = me
    Room = {room}
    NoRoom = NoRoom
    ClientFrame <- MCPresence2
    OutboundCap = 2
    Faults = {}
    MaxFrames = 3
    MaxOthers = 0
INVARIANT
    GoneMeansLeft
