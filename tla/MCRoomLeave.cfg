SPECIFICATION Spec
CONSTANTS
    a = a
    b = b
    aPadded = aPadded
    blank = blank
    blanks = blanks
    Raw <- MCRaw
    Blank = blank
    TrimSpace <- MCTrimSpace
    Conn = {c1, c2}
    NoConn = NoConn
    NotMember = NotMember
    HistoryCap = 2
    WriteOutcomes = {"ok", "failed", "lost"}
    Text <- MCText
    Limits = {}
    MaxPosts = 0
    MaxLate = 0
INVARIANTS
    AckedLeaveDurable
