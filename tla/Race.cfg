SPECIFICATION Spec
CONSTANTS
    HandoffCart = {h1}
    PosCart = {t1}
    Request = {r1, r2}
    Seller = {s1, s2}
    Code = {d1}
    Key = {k1}
    Product = {p1}
    NoSeller = NoSeller
    NoCode = NoCode
    NoKey = NoKey
    handoffTTL = 1
    maxHandoffAttempts = 1
    handoffLockout = 1
    posCartTTL = 1
    DayLength = 4
    SweepScheduled = TRUE
    MaxQuantity = 1
    MaxTime = 4
SYMMETRY Symmetry
INVARIANTS TypeOK ChargedOnce SellerMatchesState ChargeIsFinal
PROPERTY ImplementsLifecycle
CONSTRAINT RaceScope
