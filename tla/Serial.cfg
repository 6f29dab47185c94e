SPECIFICATION Spec
CONSTANTS
    HandoffCart = {h1}
    PosCart = {t1}
    Request = {r1}
    Seller = {s1, s2}
    Code = {d1}
    Key = {k1}
    Product = {p1}
    NoSeller = NoSeller
    NoCode = NoCode
    NoKey = NoKey
    handoffTTL = 1
    maxHandoffAttempts = 2
    handoffLockout = 2
    posCartTTL = 1
    DayLength = 4
    SweepScheduled = FALSE
    MaxQuantity = 2
    MaxTime = 3
SYMMETRY Symmetry
INVARIANTS ItemsAreWhatWasSold ReadyHasToken CancelIsFinal
PROPERTIES FrozenOnceClaimed ReleasedByHolder
