SPECIFICATION Spec
CONSTANTS
    Request = {r1, r2}
    Customer = {c1, c2}
    Phone = {p1}
    NoPhone = NoPhone
    Debt = {d1}
    Basket <- MCBasket
    Total <- MCTotal
    Paying = {1, 2}
    PayMethod = {"cash", "online_transfer"}
    MaxPayment = 2
    MaxInt = 3
    Buyer = {c1, c2}
    Mailbox = {"m1", "m2"}
    Secret = {"ok", "short"}
    Short = {"short"}
    Address = {x1, x2}
    Holder = {h1}
    Good = {x1, x2}
    Tag = {2}
    Count = {0, 1}
    MaxCount = 2
    Coupon = {"half"}
    NoCoupon = ""
    Promo <- MCPromo
    Order = {o1}
    Article = {a1}
    Shopper = {c1, c2}
    Review = {x1, x2}
    Stars = {0, 1, 5}
SYMMETRY Symmetry
CONSTRAINT Scope
CHECK_DEADLOCK FALSE
INVARIANTS PaidIsWhatWasPaid PaymentsAreInTheTill OneDefaultAddress CartAddsUp NothingAskedIsLost FiguresAreTheReviews
PROPERTIES SettledStaysSettled OwingCustomersStay ShippedIsNotCancelled
