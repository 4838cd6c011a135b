SPECIFICATION Spec
CONSTANTS
    a = a
    b = b
    aPadded = aPadded
    blank = blank
    blanks = blanks
    Raw = {a, blank}
    Blank = blank
    TrimSpace <- MCIdentity
    Conn = {c1}
    NoConn = NoConn
    NotMember = NotMember
    HistoryCap = 2
    WriteOutcomes = {"ok", "failed", "lost", "late"}
    Text = {a, blank}
    Limits <- MCLimits
    MaxPosts = 4
    MaxLate = 1
INVARIANTS
    HistoryIsNewest
    ListIsNewest
    SnapshotCurrent
PROPERTIES
    RestartKeepsMembers
