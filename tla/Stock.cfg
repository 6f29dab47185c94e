SPECIFICATION StockFairSpec
CONSTANTS
    Product = {"p","q"}
    Txn = {t1,t2,t3}
    NoTxn = NoTxn
    Order <- MCOrder
    Initial = {"p"}
CHECK_DEADLOCK FALSE
INVARIANTS CommittedStockAddsUp CheckoutsDoNotDeadlock
PROPERTY TransactionsEnd
