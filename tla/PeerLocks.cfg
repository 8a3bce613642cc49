SPECIFICATION Spec
CONSTANTS
    p1 = p1
    p2 = p2
    Peer = {p1}
INVARIANTS DeadlockNeedsStop RaceNeedsUnlocked ProcessorOutlivesUse
CHECK_DEADLOCK FALSE
