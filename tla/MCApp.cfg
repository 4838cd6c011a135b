SPECIFICATION FairAppSpec
CONSTANTS
    room = room
    user = user
    blank = blank
    Raw <- MCRaw
    Blank = blank
    TrimSpace <- MCTrimSpace
    Conn = {conn}
    NoConn = NoConn
    NotMember = NotMember
    HistoryCap = 1
    RoomID <- MCRoomID
    Client = {web, ws, main}
    Request <- MCRequest
    NoClient = NoClient
    Pid = {p1}
    NoPid = NoPid
    Impatient = {web, main}
    SlowRooms = FALSE
    MayCrash = TRUE
    MaxInbox = 2
    MaxBacklog = 1
    Main = main
    Socket = {ws}
    MaxBoots = 2
INVARIANTS
    TypeOK
    OneRequestPerCall
    JoinSurvivesTheProgram
PROPERTIES
    DrainLosesNothing
    StoreSpec
    ShutdownEnds
    EveryCallEnds
    RegistryNotStuck
CHECK_DEADLOCK FALSE
