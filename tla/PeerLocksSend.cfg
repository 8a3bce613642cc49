SPECIFICATION FairSpec
CONSTANTS
    p1 = p1
    p2 = p2
    Peer = {p1}
PROPERTIES SendReturns
CHECK_DEADLOCK FALSE
