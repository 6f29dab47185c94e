SPECIFICATION Spec
CONSTANTS
    Journal = {j1}
    NoJournal = NoJournal
    Branch = {b1}
    BranchOf <- MCBranchOf
    Supplier = {s1}
    NoSupplier = NoSupplier
    Method = {"cash"}
    Amount = {1}
    Correction <- MCCorrection
    CashLeft = {1}
    TerminalIncome = {2}
    Request = {r1, r2}
    MaxInt = 15
    MaxId = 3
PROPERTY ClosedShiftIsFrozen
