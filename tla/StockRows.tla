----------------------------- MODULE StockRows -----------------------------
(***************************************************************************)
(* The rows that sales, voids and incomes lock, one statement at a time:   *)
(* pkg/repository/inventory (one UPDATE for each line of a cart) inside    *)
(* the transactions of Checkout, DeleteSalesTransaction, DeleteOperation,  *)
(* ReOpen and AddIncome.  PosSystem takes each of these as a whole; here   *)
(* they wait for each other, fail half-way and are rolled back.            *)
(*                                                                         *)
(* PostgreSQL: a row that a transaction updated, or inserted, is locked    *)
(* until it ends; a transaction that waits in a cycle is aborted after     *)
(* deadlock_timeout.  All transactions are of one branch: rows of two      *)
(* branches never meet.  The cart header, which Checkout locks first, and  *)
(* the rows a transaction inserts are its own.  Every line is one unit.    *)
(***************************************************************************)
EXTENDS Integers, FiniteSets, Sequences

CONSTANTS
    Product,    \* products; their stock rows have their names
    Txn, NoTxn, \* database transactions, and nobody
    Order,      \* the orders in which a cart's lines are found
    Initial     \* products that the branch stocks to begin with

\* Rows that are not of a product: the branch's finance, the journal of the
\* shift, the supplier.
Ledger == {"finance", "journal", "supplier"}

ASSUME StockRowsAssumption ==
    /\ NoTxn \notin Txn
    /\ Product \cap Ledger = {}
    /\ Initial \subseteq Product
    /\ \A goods \in Order :
          /\ goods \in Seq(Product) /\ goods # <<>>
          /\ \A i, k \in DOMAIN goods : goods[i] = goods[k] => i = k

VARIABLES
    stock,      \* the stock rows that are there, and their quantities
    holder,     \* who holds the lock of each row
    txn         \* the transactions: their kind, statements and progress

stockVars == <<stock, holder, txn>>

Row == Product \cup Ledger

NoRow == [there |-> FALSE, quantity |-> 0]
NotBegun == [state |-> "idle", kind |-> "none", path |-> <<>>, done |-> 0,
             insert |-> FALSE]

Kind == {"checkout", "void", "remove", "reopen", "income"}

\* The rows of each transaction in the order of its statements (mutant: the
\* stock before the books).  A void restores the stock before it touches the
\* books; a checkout moves it last.
PathStockFirst(kind, goods) ==
    CASE kind = "checkout" -> goods \o <<"finance", "journal">>
      [] kind = "void" -> goods \o <<"finance">>
      [] kind = "remove" -> goods \o <<"journal">>
      [] kind = "reopen" -> goods \o <<"finance", "journal">>
      [] kind = "income" -> <<goods[1], "supplier", "finance">>
Path(kind, goods) ==
    CASE kind = "checkout" -> <<"finance", "journal">> \o goods
      [] kind = "void" -> goods \o <<"finance">>
      [] kind = "remove" -> goods \o <<"journal">>
      [] kind = "reopen" -> goods \o <<"finance", "journal">>
      [] kind = "income" -> <<goods[1], "supplier", "finance">>

Running(t) == txn[t].state = "running"
Finished(t) == txn[t].done = Len(txn[t].path)
NextRow(t) == txn[t].path[txn[t].done + 1]

\* A checkout takes goods; everything else brings them (back).
Sign(kind) == IF kind = "checkout" THEN -1 ELSE 1

StockTypeOK ==
    /\ stock \in [Product -> [there: BOOLEAN, quantity: Int]]
    /\ holder \in [Row -> Txn \cup {NoTxn}]
    /\ \A t \in Txn :
          /\ txn[t].state \in {"idle", "running", "committed", "aborted"}
          /\ txn[t].kind \in Kind \cup {"none"}
          /\ txn[t].path \in Seq(Row)
          /\ txn[t].done \in 0..Len(txn[t].path)
          /\ txn[t].insert \in BOOLEAN

StockInit ==
    /\ stock = [p \in Product |-> [there |-> p \in Initial, quantity |-> 0]]
    /\ holder = [x \in Row |-> NoTxn]
    /\ txn = [t \in Txn |-> NotBegun]

\* A row that another transaction inserted and has not committed is not seen.
Inserting(t, p) == holder[p] \notin {NoTxn, t} /\ txn[holder[p]].insert
Sees(t, p) == stock[p].there /\ ~ Inserting(t, p)

\* An income first looks whether the branch stocks the product: the answer
\* decides between an UPDATE and an INSERT.
Begin(t, kind, goods) ==
    /\ txn[t] = NotBegun
    /\ txn' = [txn EXCEPT ![t] =
                 [state |-> "running", kind |-> kind, path |-> Path(kind, goods),
                  done |-> 0,
                  insert |-> kind = "income" /\ ~ Sees(t, goods[1])]]
    /\ UNCHANGED <<stock, holder>>

\* An UPDATE does not wait for a row that it does not see.
Missing(t, x) == x \in Product /\ ~ txn[t].insert /\ ~ Sees(t, x)

\* The unique index on product and place: an INSERT waits for an uncommitted row.
AlreadyThere(t, x) ==
    x \in Product /\ txn[t].insert /\ stock[x].there /\ holder[x] = NoTxn

\* Waits, if somebody else holds the row.
Lock(t, x) == holder[x] \in {NoTxn, t}

Statement(t) ==
    LET x == NextRow(t) IN
    /\ Running(t) /\ ~ Finished(t)
    /\ Lock(t, x)
    /\ ~ Missing(t, x) /\ ~ AlreadyThere(t, x)
    /\ holder' = [holder EXCEPT ![x] = t]
    /\ stock' = IF x \notin Product THEN stock
                ELSE [stock EXCEPT ![x] =
                        [there |-> TRUE, quantity |-> @.quantity + Sign(txn[t].kind)]]
    /\ txn' = [txn EXCEPT ![t].done = @ + 1]

Held(t) == { x \in Row : holder[x] = t }
Unlocked(t) == [x \in Row |-> IF holder[x] = t THEN NoTxn ELSE holder[x]]

Commit(t) ==
    /\ Running(t) /\ Finished(t)
    /\ txn' = [txn EXCEPT ![t].state = "committed"]
    /\ holder' = Unlocked(t)
    /\ UNCHANGED stock

\* The stock without what t has written (mutants: its writes stay; so do its
\* locks).
Undone(t) ==
    [p \in Product |->
        IF p \notin Held(t) THEN stock[p]
        ELSE IF txn[t].insert THEN NoRow
        ELSE [stock[p] EXCEPT !.quantity = @ - Sign(txn[t].kind)]]

RollbackKeepsWrites(t) ==
    /\ stock' = stock
    /\ holder' = Unlocked(t)
    /\ txn' = [txn EXCEPT ![t].state = "aborted"]
RollbackKeepsLocks(t) ==
    /\ stock' = Undone(t)
    /\ holder' = holder
    /\ txn' = [txn EXCEPT ![t].state = "aborted"]
Rollback(t) ==
    /\ stock' = Undone(t)
    /\ holder' = Unlocked(t)
    /\ txn' = [txn EXCEPT ![t].state = "aborted"]

\* A product that is not stocked, or already is.
Refuse(t) ==
    /\ Running(t) /\ ~ Finished(t)
    /\ Missing(t, NextRow(t)) \/ AlreadyThere(t, NextRow(t))
    /\ Rollback(t)

\* An error or a lost connection at any point.
Crash(t) == Running(t) /\ Rollback(t)

\* Who t waits for.
WaitsFor(t) ==
    IF Running(t) /\ ~ Finished(t) /\ ~ Missing(t, NextRow(t))
    THEN {holder[NextRow(t)]} \ {NoTxn, t} ELSE {}

\* A set of transactions each of which waits for one of the set.
Deadlocked(T) == T # {} /\ \A t \in T : WaitsFor(t) # {} /\ WaitsFor(t) \subseteq T

\* PostgreSQL aborts one of them.
BreakDeadlock(t) ==
    /\ \E T \in SUBSET Txn : t \in T /\ Deadlocked(T)
    /\ Rollback(t)

Progress(t) == Statement(t) \/ Commit(t) \/ Refuse(t) \/ BreakDeadlock(t)

StockNext ==
    \E t \in Txn :
        \/ \E kind \in Kind, goods \in Order : Begin(t, kind, goods)
        \/ Progress(t)
        \/ Crash(t)

StockSpec == StockInit /\ [][StockNext]_stockVars

\* A handler that has begun goes on, and the detector runs.  Nobody has to
\* begin, and nothing has to crash.
StockFairSpec == StockSpec /\ \A t \in Txn : WF_stockVars(Progress(t))

-----------------------------------------------------------------------------
(* Properties.                                                             *)

Count(kinds, p) ==
    Cardinality({ t \in Txn : /\ txn[t].state = "committed" /\ txn[t].kind \in kinds
                              /\ \E i \in DOMAIN txn[t].path : txn[t].path[i] = p })

\* Whatever order the lines come in, whoever waits, fails half-way or is
\* aborted: a stock row that nobody holds is what the committed transactions
\* brought less what they took.  Below zero is a value like any other: an
\* oversold product is accounted, not refused.
CommittedStockAddsUp ==
    \A p \in Product :
        /\ holder[p] = NoTxn
              => stock[p].quantity
                    = Count(Kind \ {"checkout"}, p) - Count({"checkout"}, p)
        /\ Count({"income"}, p) > 0 => stock[p].there

\* Two checkouts that sell the same products in opposite orders do not deadlock:
\* each has locked the balances of the branch before it moves any stock.  (Voids
\* and incomes, which lock them the other way round, can deadlock with one.)
CheckoutsDoNotDeadlock ==
    \A T \in SUBSET Txn :
        Deadlocked(T) => \E t \in T : txn[t].kind # "checkout"

\* A transaction that has begun ends: nobody waits for ever, since whoever waits
\* in a cycle is aborted.
TransactionsEnd == \A t \in Txn : Running(t) ~> ~ Running(t)
=============================================================================
