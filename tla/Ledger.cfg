SPECIFICATION Spec
CONSTANTS
    Journal = {j1}
    NoJournal = NoJournal
    Branch = {b1}
    BranchOf <- MCBranchOf
    Supplier = {s1}
    NoSupplier = NoSupplier
    Method = {"cash", "online_payment"}
    Amount = {1}
    Correction = {2}
    CashLeft = {1}
    TerminalIncome = {2}
    Request = {r1, r2}
    MaxInt = 15
    MaxId = 4
SYMMETRY Symmetry
CONSTRAINT Scope
CHECK_DEADLOCK FALSE
INVARIANTS TypeOK TotalIsSumOfOperations ClosedByItsPair BalancesMatchTransactions
