SPECIFICATION Spec
CONSTANTS
    a = a
    b = b
    Node = {a, b}
    Session = {s1, s2}
    Bootstraps <- MCBothDial
    MaxExchanges = 2
    MaxRestarts = 1
    Lossy = TRUE
SYMMETRY SessionSymmetry
INVARIANTS SinkMatchesMediator KeyAgreement IdentifierIsTracked RegisteredHasSession
PROPERTIES StableAuthorization StrandedByLoss LinkSpec
CHECK_DEADLOCK FALSE
