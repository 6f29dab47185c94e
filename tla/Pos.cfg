SPECIFICATION PosSpec
CONSTANTS
    Request = {r1, r2}
    Cart = {c1,c2}
    NoCart = NoCart
    Product = {p1,p2}
    Quantity = {1}
    MaxLine = 2
    Price = {1,3}
    Cost = {1}
    Manual = {1}
    Amended <- MCAmended
    CloseCash = 1
    CloseTerminal = 2
    Scale = 2
    Word = 6
    MaxSale = 2
    MaxDelivery = 2
SYMMETRY Symmetry
CONSTRAINT Scope
CHECK_DEADLOCK FALSE
INVARIANTS StockMatchesBooks TillMatchesSales SubtotalIsTheSale
PROPERTIES ChargedAsShown
