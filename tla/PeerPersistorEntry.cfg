SPECIFICATION Spec
CONSTANTS
    tcp = tcp
    lora = lora
    first = first
    second = second
    third = third
    radio = radio
    NoAddress = NoAddress
    Protocol <- MCProtocol
    Address <- MCAddress
    ProtocolOf <- MCProtocolOf
    Default <- MCDefault
    Peer = {p}
    FileLimit = 4
    BufferLimit = 4
    MaxFaults = 0
CHECK_DEADLOCK FALSE
INVARIANTS AddedIsTracked
