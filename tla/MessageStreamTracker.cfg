SPECIFICATION Spec
CONSTANTS
    MinimumLength = 2
    MaximumLength = 3
    SignatureSize = 8
    NoTracker = NoTracker
    Message <- MCMessage
    Signature <- MCSignature
    Capacity = 2
    MaxSent = 2
INVARIANTS TrackerSurvives
CHECK_DEADLOCK FALSE
