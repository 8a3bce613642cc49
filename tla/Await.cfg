SPECIFICATION FairSpec
CONSTANTS
    p1 = p1
    p2 = p2
    r1 = r1
    r2 = r2
    r3 = r3
    k1 = k1
    k2 = k2
    Self = self
    Peer = {p1, p2}
    Request = {r1, r2, r3}
    Addressed = {r1, r2}
    Key = {k1, k2}
    Requestor <- MCRequestor
    KeyOf <- MCCollidingKeys
INVARIANTS AnswerHoldsAccepted OneAnswer
PROPERTIES NoEarlyAnswer EveryRequestAnswered
