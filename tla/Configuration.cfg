SPECIFICATION Spec
CONSTANTS
    i1 = i1
    i2 = i2
    Identifier = {i1, i2}
    Endpoint <- MCEndpoint
    NoValue = NoValue
    Malformed = Malformed
    Absent = Absent
    Torn = Torn
    MaxLaunches = 3
    MaxEdits = 1
INVARIANTS RunningIsConfigured FileMatchesNode OwnFileIsAccepted
PROPERTIES IdentityPersists
CHECK_DEADLOCK FALSE
