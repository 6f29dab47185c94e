SPECIFICATION Spec
CONSTANTS
    Request = {r1, r2}
    Proposal = {d1}
    Picture = {y1, y2}
    NoPicture = NoPicture
    Shop = {"b1"}
    OtherShop = "b2"
    Category = {x1, x2}
    Brand = {m1}
    NoId = ""
    Item = {p1, p2}
    Key = {y1, y2}
    Place = {y1, y2}
    Price = {1, 2}
    Amount = {0, 500}
    DefaultCount = 1
    CountLimit = 2
    AskedPage = {0}
    AskedCount = {0, 5}
    Staff = {"u1"}
    Visitor = {"c1"}
    Role = {"staff", "user"}
    Capable = {"staff"}
    Desk = {"b1"}
    AccessLife = 0
    RefreshLife = 1
    StoreLife = 0
    MaxClock = 2
    Branch = {y1, y2}
    BranchName = {"north", "south"}
    Day = {1, 2, 3}
    Week = 2
    Takings = {0, 4, 9}
    Ceiling = 5
    Left = {0, 3}
    Count = {0, 2}
    PeriodSize = 2
    Length = {0, 2}
SYMMETRY Symmetry
CHECK_DEADLOCK FALSE
INVARIANTS PicturesMatchRows ProductListsAreKept DashboardsAgree ListsKeepTheirPromise ServedAsThemselves
