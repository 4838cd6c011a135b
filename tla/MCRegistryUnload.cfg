SPECIFICATION Spec
CONSTANTS
    r1 = r1
    r2 = r2
    r1Padded = r1Padded
    n = n
    blank = blank
    Raw <- MCRaw
    Blank = blank
    TrimSpace <- MCTrimSpace
    Conn = {}
    NoConn = NoConn
    NotMember = NotMember
    HistoryCap = 1
    RoomID <- MCRoomID
    Client = {c1, c2}
    Request <- MCPadded
    NoClient = NoClient
    Pid = {p1, p2, p3}
    NoPid = NoPid
    Impatient = {}
    SlowRooms = FALSE
    MayCrash = FALSE
    MaxInbox = 2
    MaxBacklog = 1
PROPERTIES
    UnloadOKMeansUnloaded
