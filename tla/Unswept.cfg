SPECIFICATION FairSpec
CONSTANTS
    HandoffCart = {}
    PosCart = {t1}
    Request = {r1}
    Seller = {s1}
    Code = {d1}
    Key = {k1}
    Product = {p1}
    NoSeller = NoSeller
    NoCode = NoCode
    NoKey = NoKey
    handoffTTL = 1
    maxHandoffAttempts = 2
    handoffLockout = 2
    posCartTTL = 0
    DayLength = 2
    SweepScheduled = FALSE
    MaxQuantity = 1
    MaxTime = 2
PROPERTY StaleCartsAreReaped
