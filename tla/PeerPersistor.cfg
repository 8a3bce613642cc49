SPECIFICATION Spec
CONSTANTS
    tcp = tcp
    lora = lora
    first = first
    second = second
    third = third
    radio = radio
    NoAddress = NoAddress
    Protocol <- MCProtocol
    Address <- MCAddress
    ProtocolOf <- MCProtocolOf
    Default <- MCDefault
    Peer = {p}
    FileLimit = 2
    BufferLimit = 1
    MaxFaults = 2
CHECK_DEADLOCK FALSE
INVARIANTS RestartRecovers NothingLost RefusedMeansTorn
