SPECIFICATION Spec
CONSTANTS
    HandoffCart = {h1}
    PosCart = {}
    Request = {r1, r2}
    Seller = {s1}
    Code = {d1}
    Key = {k1}
    Product = {p1}
    NoSeller = NoSeller
    NoCode = NoCode
    NoKey = NoKey
    handoffTTL = 1
    maxHandoffAttempts = 2
    handoffLockout = 2
    posCartTTL = 1
    DayLength = 4
    SweepScheduled = FALSE
    MaxQuantity = 1
    MaxTime = 2
PROPERTY FrozenOnceClaimed
