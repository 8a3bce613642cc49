SPECIFICATION Spec
CONSTANTS
    ContentKeySize = 32
    SignatureKeySize = 48
    MaxRequests = 3
    MaxSecrets = 2
    MaxResets = 2
    h1 = h1
    h2 = h2
    Handle = {h1, h2}
    Uri <- MCUri
    InterfaceAddress = {0, 9}
    Nothing = Nothing
    None = None
    Source <- MCSource
    Shake128 <- MCShake128
    NoIdentifier = NoIdentifier
    a = a
    b = b
    c = c
    Node = {a, b, c}
    Setup <- MCSetup
INVARIANTS KeysMirror PartitionsAreParts IdentifierRoundTrips
PROPERTIES SynchronizationLink IntroducedBecomePeers NodesQuiet
CHECK_DEADLOCK FALSE
