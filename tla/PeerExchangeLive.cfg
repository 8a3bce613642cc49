SPECIFICATION FairSpec
CONSTANTS
    a = a
    b = b
    Node = {a, b}
    Session = {s1, s2, s3, s4}
    Bootstraps <- MCBothDial
    MaxExchanges = 2
    MaxRestarts = 0
    Lossy = FALSE
INVARIANTS DiscoveryFindsAuthorized
PROPERTIES EventuallyMutual DialSucceeds
CHECK_DEADLOCK FALSE
