SPECIFICATION FairSpec
CONSTANTS
    MinimumLength = 2
    MaximumLength = 3
    SignatureSize = 8
    NoTracker = NoTracker
    Message <- MCMessage
    Signature <- MCSignature
    Capacity = 2
    MaxSent = 2
INVARIANTS ReceivedInOrder FailsOnlyAtOnes
PROPERTIES SentIsReceived
CHECK_DEADLOCK FALSE
