SPECIFICATION Spec
CONSTANTS
    a = a
    b = b
    aPadded = aPadded
    blank = blank
    blanks = blanks
    Raw <- MCRaw
    Blank = blank
    TrimSpace <- MCTrimSpace
    Conn = {c1, c2}
    NoConn = NoConn
    NotMember = NotMember
    HistoryCap = 1
    WriteOutcomes = {"ok", "failed", "lost"}
    Text <- MCText
    Limits = {}
    MaxPosts = 2
    MaxLate = 0
INVARIANTS
    TypeOK
    AckedJoinDurable
    PushedIsStored
PROPERTIES
    StoreSpec
