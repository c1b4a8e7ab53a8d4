SPECIFICATION SendSpec
CONSTANTS
    SMss = 2
    SndBuf = 4
    PeerWnd = 4
    MaxRtx = 2
    Repeats = FALSE
    MaxOut = 6
    Writes = {2, 3}
INVARIANTS SendTypeOK QueuesSound SendBufAccounted WithinOffer NeverSilent
CHECK_DEADLOCK FALSE
