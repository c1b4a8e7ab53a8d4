SPECIFICATION SendSpec
CONSTANTS
    SMss = 2
    SndBuf = 4
    PeerWnd = 4
    MaxRtx = 2
    Repeats = FALSE
    MaxOut = 5
    Writes = {2, 3}
INVARIANT ClosedDelivers
CHECK_DEADLOCK FALSE
