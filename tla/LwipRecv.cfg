SPECIFICATION RecvFairSpec
CONSTANTS
    Wnd = 6
    Mss = 3
    N = 7
    M = 64
    Isns = {0, 20}
    Refusal = TRUE
INVARIANTS RecvTypeOK InOrder OoseqShape RecvWindowAccounted EdgeKept
PROPERTY AllDelivered
CHECK_DEADLOCK FALSE
