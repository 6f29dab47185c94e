-------------------------- MODULE StockRowsProofs --------------------------
(* What is proved of StockRows, for any products, orders of lines and      *)
(* number of transactions: checkouts do not deadlock with each other        *)
(* (CheckoutsDoNotDeadlock), and a row that nobody holds is what was        *)
(* committed (CommittedStockAddsUp).                                        *)
EXTENDS StockRows, FiniteSetTheorems, TLAPS

(* What the order of a checkout's statements is worth: a row is locked only *)
(* by a transaction that runs and has made a statement, and a checkout that *)
(* has made one holds the balances of the branch.                           *)
BalancesFirst ==
    /\ \A x \in Row, t \in Txn :
          holder[x] = t => Running(t) /\ txn[t].done >= 1
    /\ \A t \in Txn : Running(t) /\ txn[t].kind = "checkout" =>
          /\ txn[t].path # <<>> /\ txn[t].path[1] = "finance"
          /\ txn[t].done >= 1 => holder["finance"] = t

LocksInv == StockTypeOK /\ BalancesFirst

\* Transactions with the fields that StockTypeOK gives them.
TxnRow == [state: {"idle", "running", "committed", "aborted"}, kind: Kind \cup {"none"},
           path: Seq(Row), done: Nat, insert: BOOLEAN]

\* StockTypeOK leaves it open what else a transaction is: here it is a record.
Typed ==
    /\ LocksInv
    /\ txn \in [Txn -> TxnRow]
    /\ \A t \in Txn : txn[t].done <= Len(txn[t].path)

-----------------------------------------------------------------------------

\* The paths are sequences of rows, and a checkout's begins with the balances.
LEMMA Paths ==
    ASSUME NEW kind \in Kind, NEW goods \in Order
    PROVE  /\ Path(kind, goods) \in Seq(Row)
           /\ kind = "checkout" =>
                Path(kind, goods) # <<>> /\ Path(kind, goods)[1] = "finance"
<1>1. goods \in Seq(Row) /\ goods[1] \in Row
  <2>1. goods \in Seq(Product) /\ goods # <<>>
    BY StockRowsAssumption
  <2> QED  BY <2>1 DEF Row
<1>2. {"finance", "journal", "supplier"} \subseteq Row
  BY DEF Row, Ledger
<1> QED  BY <1>1, <1>2 DEF Path, Kind

\* The end of a transaction, by which it loses its locks and nobody else's.
LEMMA EndKeeps ==
    ASSUME Typed, NEW t \in Txn, NEW state \in {"committed", "aborted"},
           txn' = [txn EXCEPT ![t].state = state],
           holder' = Unlocked(t),
           stock' \in [Product -> [there: BOOLEAN, quantity: Int]]
    PROVE  Typed'
<1> DEFINE row == [txn[t] EXCEPT !.state = state]
<1>1. /\ row \in TxnRow /\ row.state = state /\ row.kind = txn[t].kind
      /\ row.path = txn[t].path /\ row.done = txn[t].done /\ row.insert = txn[t].insert
  BY DEF Typed, TxnRow
<1>2. txn' = [txn EXCEPT ![t] = row]
  OBVIOUS
<1> HIDE DEF row
<1>3. \A u \in Txn : txn'[u] = IF u = t THEN row ELSE txn[u]
  BY <1>2 DEF Typed
<1>4. txn' \in [Txn -> TxnRow] /\ \A u \in Txn : txn'[u].done <= Len(txn'[u].path)
  BY <1>1, <1>2, <1>3 DEF Typed
<1>5. \A x \in Row : holder'[x] = IF holder[x] = t THEN NoTxn ELSE holder[x]
  BY DEF Unlocked
<1>6. holder' \in [Row -> Txn \cup {NoTxn}]
  BY DEF Unlocked, Typed, LocksInv, StockTypeOK
<1>7. StockTypeOK'
  BY <1>4, <1>6 DEF StockTypeOK, TxnRow
<1>8. \A x \in Row, u \in Txn : holder'[x] = u => u # t /\ holder[x] = u
  BY <1>5, StockRowsAssumption
<1>9. ~ Running(t)'
  BY <1>1, <1>3 DEF Running
<1>10. BalancesFirst'
  <2>1. "finance" \in Row
    BY DEF Row, Ledger
  <2> QED  BY <1>3, <1>5, <1>8, <1>9, <2>1 DEF Typed, LocksInv, BalancesFirst, Running
<1> QED  BY <1>4, <1>7, <1>10 DEF Typed, LocksInv

LEMMA UndoneIsStock ==
    ASSUME Typed, NEW t \in Txn
    PROVE  Undone(t) \in [Product -> [there: BOOLEAN, quantity: Int]]
<1> SUFFICES ASSUME NEW p \in Product
             PROVE  /\ NoRow \in [there: BOOLEAN, quantity: Int]
                    /\ [stock[p] EXCEPT !.quantity = @ - Sign(txn[t].kind)]
                          \in [there: BOOLEAN, quantity: Int]
  BY DEF Undone, Typed, LocksInv, StockTypeOK
<1>1. stock[p] \in [there: BOOLEAN, quantity: Int]
  BY DEF Typed, LocksInv, StockTypeOK
<1>2. Sign(txn[t].kind) \in Int
  BY DEF Sign
<1> QED  BY <1>1, <1>2 DEF NoRow

LEMMA BeginKeeps ==
    ASSUME Typed, NEW t \in Txn, NEW kind \in Kind, NEW goods \in Order,
           Begin(t, kind, goods)
    PROVE  Typed'
<1> DEFINE row == [state |-> "running", kind |-> kind, path |-> Path(kind, goods),
                   done |-> 0, insert |-> kind = "income" /\ ~ Sees(t, goods[1])]
<1>1. /\ row \in TxnRow /\ row.state = "running" /\ row.done = 0
      /\ row.kind = kind /\ row.path = Path(kind, goods)
  BY Paths DEF TxnRow
<1>2. txn' = [txn EXCEPT ![t] = row] /\ UNCHANGED <<stock, holder>> /\ txn[t] = NotBegun
  BY DEF Begin
<1> HIDE DEF row
<1>3. \A u \in Txn : txn'[u] = IF u = t THEN row ELSE txn[u]
  BY <1>2 DEF Typed
<1>4. txn' \in [Txn -> TxnRow] /\ \A u \in Txn : txn'[u].done <= Len(txn'[u].path)
  BY <1>1, <1>2, <1>3, Paths DEF Typed
<1>5. StockTypeOK'
  BY <1>2, <1>4 DEF StockTypeOK, TxnRow, Typed, LocksInv
<1>6. BalancesFirst'
  <2>1. ~ Running(t) /\ \A x \in Row : holder[x] # t
    BY <1>2 DEF Typed, LocksInv, BalancesFirst, Running, NotBegun
  <2>2. ASSUME NEW x \in Row, NEW u \in Txn, holder'[x] = u
        PROVE  Running(u)' /\ txn'[u].done >= 1
    BY <1>2, <1>3, <2>1, <2>2 DEF Typed, LocksInv, BalancesFirst, Running
  <2>3. ASSUME NEW u \in Txn, Running(u)', txn'[u].kind = "checkout"
        PROVE  /\ txn'[u].path # <<>> /\ txn'[u].path[1] = "finance"
               /\ txn'[u].done >= 1 => holder'["finance"] = u
    <3>1. CASE u = t
      BY <1>1, <1>3, <2>3, <3>1, Paths
    <3>2. CASE u # t
      BY <1>2, <1>3, <2>3, <3>2 DEF Typed, LocksInv, BalancesFirst, Running
    <3> QED  BY <3>1, <3>2
  <2> QED  BY <2>2, <2>3 DEF BalancesFirst
<1> QED  BY <1>4, <1>5, <1>6 DEF Typed, LocksInv

\* The row that is locked is the next on the path: the first of a checkout is the
\* balances, which no other checkout held.
LEMMA StatementKeeps ==
    ASSUME Typed, NEW t \in Txn, Statement(t)
    PROVE  Typed'
<1> DEFINE x == NextRow(t)
<1> DEFINE row == [txn[t] EXCEPT !.done = @ + 1]
<1>1. /\ Running(t) /\ ~ Finished(t) /\ holder[x] \in {NoTxn, t}
      /\ holder' = [holder EXCEPT ![x] = t]
      /\ txn' = [txn EXCEPT ![t].done = @ + 1]
      /\ stock' = IF x \notin Product THEN stock
                  ELSE [stock EXCEPT ![x] =
                          [there |-> TRUE, quantity |-> @.quantity + Sign(txn[t].kind)]]
  BY DEF Statement, Lock
<1>2. /\ txn[t].path \in Seq(Row) /\ txn[t].done \in Nat
      /\ txn[t].done + 1 \in 1..Len(txn[t].path)
      /\ x = txn[t].path[txn[t].done + 1]
  BY <1>1 DEF Typed, TxnRow, Finished, NextRow
<1>3. x \in Row
  BY <1>2
<1>4. /\ row \in TxnRow /\ row.done = txn[t].done + 1 /\ row.state = txn[t].state
      /\ row.kind = txn[t].kind /\ row.path = txn[t].path
  BY <1>2 DEF Typed, TxnRow
<1>5. txn' = [txn EXCEPT ![t] = row]
  BY <1>1
<1>6. stock' \in [Product -> [there: BOOLEAN, quantity: Int]]
  <2>1. Sign(txn[t].kind) \in Int
    BY DEF Sign
  <2> QED  BY <1>1, <2>1 DEF Typed, LocksInv, StockTypeOK
<1> HIDE DEF x, row
<1>7. \A u \in Txn : txn'[u] = IF u = t THEN row ELSE txn[u]
  BY <1>5 DEF Typed
<1>8. txn' \in [Txn -> TxnRow] /\ \A u \in Txn : txn'[u].done <= Len(txn'[u].path)
  BY <1>2, <1>4, <1>5, <1>7 DEF Typed
<1>9. /\ holder' \in [Row -> Txn \cup {NoTxn}]
      /\ \A y \in Row : holder'[y] = IF y = x THEN t ELSE holder[y]
  BY <1>1, <1>3 DEF Typed, LocksInv, StockTypeOK
<1>10. StockTypeOK'
  BY <1>6, <1>8, <1>9 DEF StockTypeOK, TxnRow
<1>11. ASSUME NEW y \in Row, NEW u \in Txn, holder'[y] = u
       PROVE  Running(u)' /\ txn'[u].done >= 1
  <2>1. CASE u = t
    BY <1>1, <1>2, <1>4, <1>7, <2>1 DEF Running
  <2>2. CASE u # t
    BY <1>7, <1>9, <1>11, <2>2 DEF Typed, LocksInv, BalancesFirst, Running
  <2> QED  BY <2>1, <2>2
<1>12. ASSUME NEW u \in Txn, Running(u)', txn'[u].kind = "checkout"
       PROVE  /\ txn'[u].path # <<>> /\ txn'[u].path[1] = "finance"
              /\ txn'[u].done >= 1 => holder'["finance"] = u
  <2>1. "finance" \in Row
    BY DEF Row, Ledger
  <2>2. CASE u = t
    <3>1. txn[t].path # <<>> /\ txn[t].path[1] = "finance"
          /\ (txn[t].done >= 1 => holder["finance"] = t)
      BY <1>1, <1>4, <1>7, <1>12, <2>2 DEF Typed, LocksInv, BalancesFirst
    <3>2. CASE txn[t].done = 0
      BY <1>2, <1>4, <1>7, <1>9, <2>1, <2>2, <3>1, <3>2
    <3>3. CASE txn[t].done >= 1
      BY <1>4, <1>7, <1>9, <2>1, <2>2, <3>1, <3>3
    <3> QED  BY <1>2, <3>2, <3>3
  <2>3. CASE u # t
    <3>1. /\ txn[u].path # <<>> /\ txn[u].path[1] = "finance"
          /\ txn[u].done >= 1 => holder["finance"] = u
      BY <1>7, <1>12, <2>3 DEF Typed, LocksInv, BalancesFirst, Running
    <3>2. u # NoTxn
      BY StockRowsAssumption
    <3> QED  BY <1>1, <1>7, <1>9, <2>1, <2>3, <3>1, <3>2
  <2> QED  BY <2>2, <2>3
<1> QED  BY <1>8, <1>10, <1>11, <1>12 DEF Typed, LocksInv, BalancesFirst

-----------------------------------------------------------------------------

LEMMA InitIsTyped == ASSUME StockInit PROVE Typed
<1>1. NotBegun \in TxnRow /\ NotBegun.done = 0 /\ NotBegun.state = "idle"
      /\ NotBegun.path = <<>>
  BY DEF NotBegun, TxnRow
<1>2. txn \in [Txn -> TxnRow] /\ \A t \in Txn : txn[t].done <= Len(txn[t].path)
  BY <1>1 DEF StockInit
<1>3. StockTypeOK
  BY <1>1, <1>2 DEF StockInit, StockTypeOK, TxnRow
<1>4. BalancesFirst
  BY <1>1, StockRowsAssumption DEF StockInit, BalancesFirst, Running
<1> QED  BY <1>2, <1>3, <1>4 DEF Typed, LocksInv

LEMMA StepKeeps ==
    ASSUME Typed, [StockNext]_stockVars
    PROVE  Typed'
<1>1. CASE UNCHANGED stockVars
  BY <1>1 DEF stockVars, Typed, LocksInv, StockTypeOK, BalancesFirst, Running
<1>2. ASSUME NEW t \in Txn, Rollback(t)
      PROVE  Typed'
  BY <1>2, UndoneIsStock, EndKeeps DEF Rollback
<1>3. ASSUME NEW t \in Txn, Commit(t)
      PROVE  Typed'
  BY <1>3, EndKeeps DEF Commit, Typed, LocksInv, StockTypeOK
<1> QED  BY <1>1, <1>2, <1>3, BeginKeeps, StatementKeeps
         DEF StockNext, Progress, Refuse, BreakDeadlock, Crash

\* Whoever is waited for holds a row; if all are checkouts it holds the balances, and
\* so does the one that it waits for itself.
LEMMA NoCycle == Typed => CheckoutsDoNotDeadlock
<1> SUFFICES ASSUME Typed, NEW T \in SUBSET Txn, Deadlocked(T),
                    \A t \in T : txn[t].kind = "checkout"
             PROVE  FALSE
  BY DEF CheckoutsDoNotDeadlock
<1>1. ASSUME NEW t \in T
      PROVE  \E u \in T : u # t /\ holder["finance"] = u
  <2>1. PICK u \in WaitsFor(t) : u \in T
    BY DEF Deadlocked
  <2>2. Running(t) /\ ~ Finished(t) /\ u = holder[NextRow(t)] /\ u # t
    BY <2>1 DEF WaitsFor
  <2>3. NextRow(t) \in Row
    BY <2>2 DEF Typed, TxnRow, Finished, NextRow
  <2>4. Running(u) /\ txn[u].done >= 1
    BY <2>1, <2>2, <2>3 DEF Typed, LocksInv, BalancesFirst
  <2> QED  BY <2>1, <2>2, <2>4 DEF Typed, LocksInv, BalancesFirst
<1>2. PICK t \in T : TRUE
  BY DEF Deadlocked
<1>3. PICK u \in T : u # t /\ holder["finance"] = u
  BY <1>1
<1> QED  BY <1>1, <1>3

\* However many checkouts sell whatever products in whatever order of their lines,
\* none of them wait for each other in a cycle; where a cycle arises one of it
\* voids a sale, reopens a shift or takes goods in.
THEOREM CheckoutsNeverDeadlock == StockSpec => []CheckoutsDoNotDeadlock
<1>1. StockInit => Typed
  BY InitIsTyped
<1>2. Typed /\ [StockNext]_stockVars => Typed'
  BY StepKeeps
<1> QED  BY <1>1, <1>2, NoCycle, PTL DEF StockSpec

\* The same of every behaviour in which the transactions go on.
THEOREM FairlyToo == StockFairSpec => []CheckoutsDoNotDeadlock
BY CheckoutsNeverDeadlock, PTL DEF StockFairSpec

-----------------------------------------------------------------------------
(* What the committed transactions did, and what those that run have done  *)
(* so far.  A transaction holds the rows of the statements it has made, and *)
(* a row occurs once on its path; so the quantity of a held row is one step *)
(* ahead of what was committed, and that of the others is not.             *)

\* The committed transactions of the table X that are of these kinds and moved p.
Done(X, kinds, p) ==
    { t \in Txn : /\ X[t].state = "committed" /\ X[t].kind \in kinds
                  /\ \E i \in DOMAIN X[t].path : X[t].path[i] = p }

\* Row x is among those of the statements that y has made.
Made(y, x) == \E i \in 1..y.done : y.path[i] = x

PathsAreSimple ==
    \A t \in Txn : \A i, k \in DOMAIN txn[t].path :
        txn[t].path[i] = txn[t].path[k] => i = k

LocksAreStatements ==
    \A t \in Txn, x \in Row : holder[x] = t <=> Running(t) /\ Made(txn[t], x)

KindsAreKnown ==
    \A t \in Txn :
        /\ txn[t].state # "idle" => txn[t].kind \in Kind
        /\ txn[t].insert => txn[t].kind = "income"

BegunAreFinite == IsFiniteSet({ t \in Txn : txn[t].state # "idle" })

\* What the transaction h that holds a row has added to it.
Ahead(X, h) == IF h = NoTxn THEN 0 ELSE Sign(X[h].kind)

Brought(X, p) == Cardinality(Done(X, Kind \ {"checkout"}, p))
Taken(X, p) == Cardinality(Done(X, {"checkout"}, p))

StockIsMoves ==
    \A p \in Product :
        stock[p].quantity = Brought(txn, p) - Taken(txn, p) + Ahead(txn, holder[p])

\* No income was committed for a row that is not there, or not yet.
NewRow(row, X, h, p) ==
    /\ ~ row.there => row.quantity = 0 /\ h = NoTxn /\ Done(X, {"income"}, p) = {}
    /\ h # NoTxn /\ X[h].insert => row.quantity = 1 /\ Done(X, {"income"}, p) = {}

NewRowsAreNew == \A p \in Product : NewRow(stock[p], txn, holder[p], p)

SumsInv ==
    /\ Typed
    /\ PathsAreSimple /\ LocksAreStatements /\ KindsAreKnown /\ BegunAreFinite
    /\ StockIsMoves /\ NewRowsAreNew

-----------------------------------------------------------------------------

LEMMA PathIsSimple ==
    ASSUME NEW kind \in Kind, NEW goods \in Order,
           NEW i \in DOMAIN Path(kind, goods), NEW k \in DOMAIN Path(kind, goods),
           Path(kind, goods)[i] = Path(kind, goods)[k]
    PROVE  i = k
<1>1. /\ goods \in Seq(Product) /\ goods # <<>>
      /\ \A a, b \in DOMAIN goods : goods[a] = goods[b] => a = b
  BY StockRowsAssumption
<1>2. Len(goods) \in Nat /\ DOMAIN goods = 1..Len(goods) /\ Len(goods) >= 1
      /\ \A a \in 1..Len(goods) : goods[a] \in Product
  BY <1>1
<1>3. \A p \in Product : p \notin {"finance", "journal", "supplier"}
  BY StockRowsAssumption DEF Ledger
<1>4. CASE kind = "checkout"
  <2> DEFINE path == <<"finance", "journal">> \o goods
  <2>1. Path(kind, goods) = path
    BY <1>4 DEF Path
  <2>2. /\ DOMAIN path = 1..(Len(goods) + 2)
        /\ path[1] = "finance" /\ path[2] = "journal"
        /\ \A a \in 3..(Len(goods) + 2) : path[a] = goods[a - 2]
    BY <1>1, <1>2
  <2> HIDE DEF path
  <2>3. i \in 1..(Len(goods) + 2) /\ k \in 1..(Len(goods) + 2) /\ path[i] = path[k]
    BY <2>1, <2>2
  <2>4. \A a \in 3..(Len(goods) + 2) : a - 2 \in DOMAIN goods /\ path[a] \in Product
    BY <1>2, <2>2
  <2>5. CASE i >= 3 /\ k >= 3
    <3>1. goods[i - 2] = goods[k - 2] /\ i - 2 \in DOMAIN goods /\ k - 2 \in DOMAIN goods
      BY <2>2, <2>3, <2>4, <2>5
    <3>2. i - 2 = k - 2
      BY <1>1, <3>1
    <3> QED  BY <1>2, <2>3, <3>2
  <2>6. CASE i < 3 \/ k < 3
    BY <1>2, <1>3, <2>2, <2>3, <2>4, <2>6
  <2> QED  BY <1>2, <2>3, <2>5, <2>6
<1>5. CASE kind = "void" \/ kind = "remove"
  <2> PICK last \in {"finance", "journal"} : Path(kind, goods) = goods \o <<last>>
    BY <1>5 DEF Path
  <2> DEFINE path == goods \o <<last>>
  <2>2. /\ DOMAIN path = 1..(Len(goods) + 1)
        /\ path[Len(goods) + 1] = last
        /\ \A a \in 1..Len(goods) : path[a] = goods[a]
    BY <1>1, <1>2
  <2> HIDE DEF path
  <2>3. i \in 1..(Len(goods) + 1) /\ k \in 1..(Len(goods) + 1) /\ path[i] = path[k]
    BY <2>2 DEF path
  <2>4. \A a \in 1..Len(goods) : path[a] \in Product
    BY <1>2, <2>2
  <2>5. CASE i <= Len(goods) /\ k <= Len(goods)
    BY <1>1, <1>2, <2>2, <2>3, <2>5
  <2>6. CASE i = Len(goods) + 1 \/ k = Len(goods) + 1
    BY <1>2, <1>3, <2>2, <2>3, <2>4, <2>6
  <2> QED  BY <1>2, <2>3, <2>5, <2>6
<1>6. CASE kind = "reopen"
  <2> DEFINE path == goods \o <<"finance", "journal">>
  <2>1. Path(kind, goods) = path
    BY <1>6 DEF Path
  <2>2. /\ DOMAIN path = 1..(Len(goods) + 2)
        /\ path[Len(goods) + 1] = "finance" /\ path[Len(goods) + 2] = "journal"
        /\ \A a \in 1..Len(goods) : path[a] = goods[a]
    BY <1>1, <1>2
  <2> HIDE DEF path
  <2>3. i \in 1..(Len(goods) + 2) /\ k \in 1..(Len(goods) + 2) /\ path[i] = path[k]
    BY <2>1, <2>2
  <2>4. \A a \in 1..Len(goods) : path[a] \in Product
    BY <1>2, <2>2
  <2>5. CASE i <= Len(goods) /\ k <= Len(goods)
    BY <1>1, <1>2, <2>2, <2>3, <2>5
  <2>6. CASE i > Len(goods) \/ k > Len(goods)
    BY <1>2, <1>3, <2>2, <2>3, <2>4, <2>6
  <2> QED  BY <1>2, <2>3, <2>5, <2>6
<1>7. CASE kind = "income"
  <2> DEFINE path == <<goods[1], "supplier", "finance">>
  <2>1. Path(kind, goods) = path
    BY <1>7 DEF Path
  <2>2. DOMAIN path = 1..3 /\ path[1] \in Product /\ path[2] = "supplier" /\ path[3] = "finance"
    BY <1>2
  <2> HIDE DEF path
  <2>3. i \in 1..3 /\ k \in 1..3 /\ path[i] = path[k]
    BY <2>1, <2>2
  <2> QED  BY <1>3, <2>2, <2>3
<1> QED  BY <1>4, <1>5, <1>6, <1>7 DEF Kind

\* Counts of what is done are numbers.
LEMMA DoneIsFinite ==
    ASSUME BegunAreFinite, NEW kinds, NEW p
    PROVE  /\ IsFiniteSet(Done(txn, kinds, p))
           /\ Cardinality(Done(txn, kinds, p)) \in Nat
<1>1. Done(txn, kinds, p) \subseteq { t \in Txn : txn[t].state # "idle" }
  BY DEF Done
<1> QED  BY <1>1, FS_Subset, FS_CardinalityType DEF BegunAreFinite

LEMMA BegunStep ==
    ASSUME BegunAreFinite, NEW t \in Txn, \A u \in Txn \ {t} : txn'[u] = txn[u]
    PROVE  BegunAreFinite'
<1> DEFINE S == { u \in Txn : txn[u].state # "idle" }
<1>1. IsFiniteSet(S \cup {t})
  BY FS_AddElement DEF BegunAreFinite
<1>2. { u \in Txn : txn'[u].state # "idle" } \subseteq S \cup {t}
  OBVIOUS
<1> QED  BY <1>1, <1>2, FS_Subset DEF BegunAreFinite

\* Nothing is committed by a step of t that does not commit t.
LEMMA DoneSame ==
    ASSUME NEW t \in Txn, \A u \in Txn \ {t} : txn'[u] = txn[u],
           txn[t].state # "committed", txn'[t].state # "committed"
    PROVE  \A p : /\ Done(txn', {"income"}, p) = Done(txn, {"income"}, p)
                  /\ Brought(txn', p) = Brought(txn, p)
                  /\ Taken(txn', p) = Taken(txn, p)
<1>1. \A kinds, p : Done(txn', kinds, p) = Done(txn, kinds, p)
  BY DEF Done
<1> QED  BY <1>1 DEF Brought, Taken

-----------------------------------------------------------------------------

LEMMA SumsInit == ASSUME StockInit PROVE SumsInv
<1>1. Typed
  BY InitIsTyped
<1>2. \A t \in Txn : txn[t].state = "idle" /\ txn[t].path = <<>> /\ txn[t].done = 0
                     /\ ~ txn[t].insert
  BY DEF StockInit, NotBegun
<1>3. \A kinds, p : Done(txn, kinds, p) = {}
  BY <1>2 DEF Done
<1>4. \A x \in Row : holder[x] = NoTxn
  BY DEF StockInit
<1>5. PathsAreSimple /\ KindsAreKnown
  BY <1>2 DEF PathsAreSimple, KindsAreKnown
<1>6. LocksAreStatements
  BY <1>2, <1>4, StockRowsAssumption DEF LocksAreStatements, Running
<1>7. BegunAreFinite
  <2>1. { t \in Txn : txn[t].state # "idle" } = {}
    BY <1>2
  <2> QED  BY <2>1, FS_EmptySet DEF BegunAreFinite
<1>8. \A p \in Product : stock[p].quantity = 0 /\ holder[p] = NoTxn
  BY <1>4 DEF StockInit, Row
<1>9. Cardinality({}) = 0
  BY FS_EmptySet
<1>10. \A p : Brought(txn, p) = 0 /\ Taken(txn, p) = 0
  BY <1>3, <1>9 DEF Brought, Taken
<1>11. StockIsMoves
  BY <1>8, <1>10 DEF StockIsMoves, Ahead
<1>12. NewRowsAreNew
  BY <1>3, <1>8 DEF NewRowsAreNew, NewRow
<1> QED  BY <1>1, <1>5, <1>6, <1>7, <1>11, <1>12 DEF SumsInv

LEMMA SumsBegin ==
    ASSUME SumsInv, NEW t \in Txn, NEW kind \in Kind, NEW goods \in Order,
           Begin(t, kind, goods)
    PROVE  SumsInv'
<1> USE DEF SumsInv
<1> DEFINE row == [state |-> "running", kind |-> kind, path |-> Path(kind, goods),
                   done |-> 0, insert |-> kind = "income" /\ ~ Sees(t, goods[1])]
<1>1. /\ row.state = "running" /\ row.done = 0 /\ row.kind = kind
      /\ row.path = Path(kind, goods) /\ (row.insert => kind = "income")
  OBVIOUS
<1>2. txn' = [txn EXCEPT ![t] = row] /\ UNCHANGED <<stock, holder>> /\ txn[t] = NotBegun
  BY DEF Begin
<1> HIDE DEF row
<1>3. txn'[t] = row /\ \A u \in Txn \ {t} : txn'[u] = txn[u]
  BY <1>2 DEF Typed
<1>4. Typed'
  BY BeginKeeps
<1>5. \A p : /\ Done(txn', {"income"}, p) = Done(txn, {"income"}, p)
             /\ Brought(txn', p) = Brought(txn, p) /\ Taken(txn', p) = Taken(txn, p)
  <2>1. txn[t].state = "idle"
    BY <1>2 DEF NotBegun
  <2> QED  BY <1>1, <1>3, <2>1, DoneSame
<1>6. ~ Running(t) /\ \A x \in Row : holder[x] # t
  BY <1>2 DEF Running, NotBegun, LocksAreStatements
<1>7. PathsAreSimple'
  <2> SUFFICES ASSUME NEW u \in Txn, NEW i \in DOMAIN txn'[u].path,
                      NEW k \in DOMAIN txn'[u].path, txn'[u].path[i] = txn'[u].path[k]
               PROVE  i = k
    BY DEF PathsAreSimple
  <2>1. CASE u = t
    BY <1>1, <1>3, <2>1, PathIsSimple
  <2>2. CASE u # t
    BY <1>3, <2>2 DEF PathsAreSimple
  <2> QED  BY <2>1, <2>2
<1>8. LocksAreStatements'
  <2> SUFFICES ASSUME NEW u \in Txn, NEW x \in Row
               PROVE  holder[x] = u <=> txn'[u].state = "running" /\ Made(txn'[u], x)
    BY <1>2 DEF LocksAreStatements, Running
  <2>1. CASE u = t
    BY <1>1, <1>3, <1>6, <2>1 DEF Made
  <2>2. CASE u # t
    BY <1>3, <2>2 DEF LocksAreStatements, Running
  <2> QED  BY <2>1, <2>2
<1>9. KindsAreKnown'
  BY <1>1, <1>3 DEF KindsAreKnown
<1>10. BegunAreFinite'
  BY <1>3, BegunStep
<1>11. \A p \in Product : holder[p] # NoTxn => txn'[holder[p]] = txn[holder[p]]
  <2>1. \A p \in Product : holder[p] # NoTxn => holder[p] \in Txn \ {t}
    BY <1>6 DEF Typed, LocksInv, StockTypeOK, Row
  <2> QED  BY <1>3, <2>1
<1>12. StockIsMoves'
  <2> SUFFICES ASSUME NEW p \in Product
               PROVE  stock'[p].quantity
                        = Brought(txn', p) - Taken(txn', p) + Ahead(txn', holder'[p])
    BY DEF StockIsMoves
  <2>1. Ahead(txn', holder'[p]) = Ahead(txn, holder[p])
    BY <1>2, <1>11 DEF Ahead
  <2> QED  BY <1>2, <1>5, <2>1 DEF StockIsMoves
<1>13. NewRowsAreNew'
  <2> SUFFICES ASSUME NEW p \in Product PROVE NewRow(stock'[p], txn', holder'[p], p)
    BY DEF NewRowsAreNew
  <2>1. NewRow(stock[p], txn, holder[p], p)
    BY DEF NewRowsAreNew
  <2> QED  BY <1>2, <1>5, <1>11, <2>1 DEF NewRow
<1> QED  BY <1>4, <1>7, <1>8, <1>9, <1>10, <1>12, <1>13

\* A statement takes a row that nobody held and moves what it holds.
LEMMA SumsStatement ==
    ASSUME SumsInv, NEW t \in Txn, Statement(t)
    PROVE  SumsInv'
<1> USE DEF SumsInv
<1> DEFINE x == NextRow(t)
           row == [txn[t] EXCEPT !.done = @ + 1]
<1>1. /\ Running(t) /\ ~ Finished(t) /\ holder[x] \in {NoTxn, t}
      /\ ~ Missing(t, x) /\ ~ AlreadyThere(t, x)
      /\ holder' = [holder EXCEPT ![x] = t]
      /\ txn' = [txn EXCEPT ![t].done = @ + 1]
      /\ stock' = IF x \notin Product THEN stock
                  ELSE [stock EXCEPT ![x] =
                          [there |-> TRUE, quantity |-> @.quantity + Sign(txn[t].kind)]]
  BY DEF Statement, Lock
<1>2. /\ txn[t].path \in Seq(Row) /\ txn[t].done \in Nat
      /\ txn[t].done + 1 \in 1..Len(txn[t].path)
      /\ x = txn[t].path[txn[t].done + 1]
  BY <1>1 DEF Typed, TxnRow, Finished, NextRow
<1>3. x \in Row
  BY <1>2
<1>4. /\ row.done = txn[t].done + 1 /\ row.state = txn[t].state /\ row.kind = txn[t].kind
      /\ row.path = txn[t].path /\ row.insert = txn[t].insert
  BY <1>2 DEF Typed, TxnRow
<1>5. txn' = [txn EXCEPT ![t] = row]
  BY <1>1
<1> HIDE DEF x, row
<1>6. txn'[t] = row /\ \A u \in Txn \ {t} : txn'[u] = txn[u]
  BY <1>5 DEF Typed
<1>7. \A y \in Row : holder'[y] = IF y = x THEN t ELSE holder[y]
  BY <1>1, <1>3 DEF Typed, LocksInv, StockTypeOK
<1>8. Typed'
  BY StatementKeeps
<1>9. PathsAreSimple'
  BY <1>4, <1>6 DEF PathsAreSimple
<1>10. KindsAreKnown'
  BY <1>4, <1>6 DEF KindsAreKnown
<1>11. BegunAreFinite'
  BY <1>6, BegunStep
<1>12. \A p : /\ Done(txn', {"income"}, p) = Done(txn, {"income"}, p)
              /\ Brought(txn', p) = Brought(txn, p) /\ Taken(txn', p) = Taken(txn, p)
  <2>1. txn[t].state # "committed" /\ txn'[t].state # "committed"
    BY <1>1, <1>4, <1>6 DEF Running
  <2> QED  BY <1>6, <2>1, DoneSame
<1>13. holder[x] = NoTxn
  <2> SUFFICES ASSUME holder[x] = t PROVE FALSE
    BY <1>1
  <2>1. PICK i \in 1..txn[t].done : txn[t].path[i] = x
    BY <1>3 DEF LocksAreStatements, Made
  <2>2. i \in DOMAIN txn[t].path /\ txn[t].done + 1 \in DOMAIN txn[t].path
    BY <1>2
  <2>3. i = txn[t].done + 1
    BY <1>2, <2>1, <2>2 DEF PathsAreSimple
  <2> QED  BY <1>2, <2>1, <2>3
<1>14. \A y : Made(row, y) <=> Made(txn[t], y) \/ y = x
  <2>1. 1..row.done = 1..txn[t].done \cup {row.done}
    BY <1>2, <1>4
  <2> QED  BY <1>2, <1>4, <2>1 DEF Made
<1>15. LocksAreStatements'
  <2> SUFFICES ASSUME NEW u \in Txn, NEW y \in Row
               PROVE  holder'[y] = u <=> txn'[u].state = "running" /\ Made(txn'[u], y)
    BY DEF LocksAreStatements, Running
  <2>1. holder[y] = u <=> txn[u].state = "running" /\ Made(txn[u], y)
    BY DEF LocksAreStatements, Running
  <2>2. CASE u = t
    BY <1>1, <1>4, <1>6, <1>7, <1>14, <2>1, <2>2 DEF Running
  <2>3. CASE u # t
    <3>1. u # NoTxn
      BY StockRowsAssumption
    <3> QED  BY <1>6, <1>7, <1>13, <2>1, <2>3, <3>1
  <2> QED  BY <2>2, <2>3
<1>16. \A p \in Product : holder[p] # NoTxn =>
          txn'[holder[p]].kind = txn[holder[p]].kind /\ txn'[holder[p]].insert = txn[holder[p]].insert
  <2>1. \A p \in Product : holder[p] # NoTxn => holder[p] \in Txn
    BY DEF Typed, LocksInv, StockTypeOK, Row
  <2> QED  BY <1>4, <1>6, <2>1
<1>17. \A p \in Product : p # x => stock'[p] = stock[p] /\ holder'[p] = holder[p]
  BY <1>1, <1>7 DEF Typed, LocksInv, StockTypeOK, Row
<1>18. x \in Product =>
          /\ holder'[x] = t /\ stock'[x].there
          /\ stock'[x].quantity = stock[x].quantity + Sign(txn[t].kind)
  BY <1>1, <1>3, <1>7 DEF Typed, LocksInv, StockTypeOK
<1>19. t # NoTxn
  BY StockRowsAssumption
<1>20. StockIsMoves'
  <2> SUFFICES ASSUME NEW p \in Product
               PROVE  stock'[p].quantity
                        = Brought(txn', p) - Taken(txn', p) + Ahead(txn', holder'[p])
    BY DEF StockIsMoves
  <2>0. stock[p].quantity = Brought(txn, p) - Taken(txn, p) + Ahead(txn, holder[p])
    BY DEF StockIsMoves
  <2>1. CASE p # x
    <3>1. Ahead(txn', holder'[p]) = Ahead(txn, holder[p])
      BY <1>16, <1>17, <2>1 DEF Ahead
    <3> QED  BY <1>12, <1>17, <2>0, <2>1, <3>1
  <2>2. CASE p = x
    <3>1. Ahead(txn, holder[p]) = 0 /\ Ahead(txn', holder'[p]) = Sign(txn[t].kind)
      BY <1>4, <1>6, <1>13, <1>18, <1>19, <2>2 DEF Ahead
    <3>2. Brought(txn, p) \in Nat /\ Taken(txn, p) \in Nat /\ Sign(txn[t].kind) \in Int
      BY DoneIsFinite DEF Brought, Taken, Sign
    <3>3. stock'[p].quantity = stock[p].quantity + Sign(txn[t].kind)
      BY <1>18, <2>2
    <3> QED  BY <1>12, <2>0, <3>1, <3>2, <3>3
  <2> QED  BY <2>1, <2>2
<1>21. NewRowsAreNew'
  <2> SUFFICES ASSUME NEW p \in Product PROVE NewRow(stock'[p], txn', holder'[p], p)
    BY DEF NewRowsAreNew
  <2>0. NewRow(stock[p], txn, holder[p], p)
    BY DEF NewRowsAreNew
  <2>1. CASE p # x
    BY <1>12, <1>16, <1>17, <2>0, <2>1 DEF NewRow
  <2>2. CASE p = x
    <3>1. txn[t].insert => stock[p].quantity = 0 /\ Done(txn, {"income"}, p) = {}
                           /\ Sign(txn[t].kind) = 1
      <4>1. txn[t].insert => ~ stock[p].there
        BY <1>1, <1>13, <2>2 DEF AlreadyThere
      <4>2. txn[t].insert => txn[t].kind = "income"
        BY DEF KindsAreKnown
      <4> QED  BY <2>0, <4>1, <4>2 DEF NewRow, Sign
    <3>2. txn'[t].insert = txn[t].insert
      BY <1>4, <1>6
    <3> QED  BY <1>12, <1>18, <2>2, <3>1, <3>2 DEF NewRow
  <2> QED  BY <2>1, <2>2
<1> QED  BY <1>8, <1>9, <1>10, <1>11, <1>15, <1>20, <1>21

-----------------------------------------------------------------------------
\* What the end of a transaction does to all but the stock.
LEMMA SumsEnd ==
    ASSUME SumsInv, NEW t \in Txn, NEW state \in {"committed", "aborted"},
           Running(t), holder' = Unlocked(t),
           txn' = [txn EXCEPT ![t].state = state], Typed'
    PROVE  /\ PathsAreSimple' /\ LocksAreStatements' /\ KindsAreKnown' /\ BegunAreFinite'
           /\ txn'[t].state = state /\ txn'[t].kind = txn[t].kind
           /\ txn'[t].path = txn[t].path
           /\ \A u \in Txn \ {t} : txn'[u] = txn[u]
           /\ \A p \in Product : holder'[p] = IF holder[p] = t THEN NoTxn ELSE holder[p]
           /\ \A p \in Product : holder[p] # t => Ahead(txn', holder'[p]) = Ahead(txn, holder[p])
           /\ \A p \in Product : holder'[p] # NoTxn =>
                 holder'[p] = holder[p] /\ txn'[holder'[p]] = txn[holder[p]]
<1> USE DEF SumsInv
<1> DEFINE row == [txn[t] EXCEPT !.state = state]
<1>1. /\ row.state = state /\ row.kind = txn[t].kind /\ row.path = txn[t].path
      /\ row.done = txn[t].done /\ row.insert = txn[t].insert
  BY DEF Typed, TxnRow
<1>2. txn' = [txn EXCEPT ![t] = row]
  OBVIOUS
<1> HIDE DEF row
<1>3. txn'[t] = row /\ \A u \in Txn \ {t} : txn'[u] = txn[u]
  BY <1>2 DEF Typed
<1>4. \A x \in Row : holder'[x] = IF holder[x] = t THEN NoTxn ELSE holder[x]
  BY DEF Unlocked
<1>5. PathsAreSimple'
  BY <1>1, <1>3 DEF PathsAreSimple
<1>6. KindsAreKnown'
  BY <1>1, <1>3 DEF KindsAreKnown, Running
<1>7. BegunAreFinite'
  BY <1>3, BegunStep
<1>8. LocksAreStatements'
  <2> SUFFICES ASSUME NEW u \in Txn, NEW y \in Row
               PROVE  holder'[y] = u <=> txn'[u].state = "running" /\ Made(txn'[u], y)
    BY DEF LocksAreStatements, Running
  <2>1. holder[y] = u <=> txn[u].state = "running" /\ Made(txn[u], y)
    BY DEF LocksAreStatements, Running
  <2>2. u # NoTxn
    BY StockRowsAssumption
  <2>3. CASE u = t
    BY <1>1, <1>3, <1>4, <2>2, <2>3
  <2>4. CASE u # t
    BY <1>3, <1>4, <2>1, <2>2, <2>4
  <2> QED  BY <2>3, <2>4
<1>9. \A p \in Product : p \in Row /\ (holder[p] # NoTxn => holder[p] \in Txn)
  BY DEF Row, Typed, LocksInv, StockTypeOK
<1>10. \A p \in Product : holder'[p] # NoTxn =>
          holder'[p] = holder[p] /\ txn'[holder'[p]] = txn[holder[p]]
  BY <1>3, <1>4, <1>9
<1>11. \A p \in Product : holder[p] # t => Ahead(txn', holder'[p]) = Ahead(txn, holder[p])
  BY <1>4, <1>9, <1>10 DEF Ahead
<1> QED  BY <1>1, <1>3, <1>4, <1>5, <1>6, <1>7, <1>8, <1>9, <1>10, <1>11

\* The rows of a transaction that has made all its statements are those it holds.
LEMMA HoldsItsPath ==
    ASSUME SumsInv, NEW t \in Txn, Running(t), Finished(t), NEW p \in Product
    PROVE  holder[p] = t <=> \E i \in DOMAIN txn[t].path : txn[t].path[i] = p
<1>1. p \in Row /\ txn[t].path \in Seq(Row) /\ txn[t].done = Len(txn[t].path)
  BY DEF SumsInv, Typed, TxnRow, Row, Finished
<1>2. DOMAIN txn[t].path = 1..txn[t].done
  BY <1>1
<1> QED  BY <1>1, <1>2 DEF SumsInv, LocksAreStatements, Made

\* What t did is committed.
LEMMA DoneMore ==
    ASSUME BegunAreFinite, NEW t \in Txn, \A u \in Txn \ {t} : txn'[u] = txn[u],
           txn[t].state # "committed", txn'[t].state = "committed",
           txn'[t].kind = txn[t].kind, txn'[t].path = txn[t].path, NEW kinds, NEW p
    PROVE  Cardinality(Done(txn', kinds, p))
             = Cardinality(Done(txn, kinds, p))
               + (IF txn[t].kind \in kinds /\ \E i \in DOMAIN txn[t].path : txn[t].path[i] = p
                  THEN 1 ELSE 0)
<1>1. IsFiniteSet(Done(txn, kinds, p)) /\ Cardinality(Done(txn, kinds, p)) \in Nat
  BY DoneIsFinite
<1>2. t \notin Done(txn, kinds, p)
  BY DEF Done
<1>3. CASE txn[t].kind \in kinds /\ \E i \in DOMAIN txn[t].path : txn[t].path[i] = p
  <2>1. Done(txn', kinds, p) = Done(txn, kinds, p) \cup {t}
    BY <1>3 DEF Done
  <2>2. Cardinality(Done(txn, kinds, p) \cup {t}) = Cardinality(Done(txn, kinds, p)) + 1
    BY <1>1, <1>2, FS_AddElement
  <2> QED  BY <1>3, <2>1, <2>2
<1>4. CASE ~ (txn[t].kind \in kinds /\ \E i \in DOMAIN txn[t].path : txn[t].path[i] = p)
  <2>1. Done(txn', kinds, p) = Done(txn, kinds, p)
    BY <1>4 DEF Done
  <2> QED  BY <1>1, <1>4, <2>1
<1> QED  BY <1>3, <1>4

LEMMA SumsCommit ==
    ASSUME SumsInv, NEW t \in Txn, Commit(t)
    PROVE  SumsInv'
<1> USE DEF SumsInv
<1>1. /\ Running(t) /\ Finished(t) /\ stock' = stock /\ holder' = Unlocked(t)
      /\ txn' = [txn EXCEPT ![t].state = "committed"]
  BY DEF Commit
<1>2. Typed'
  BY <1>1, EndKeeps DEF Typed, LocksInv, StockTypeOK
<1>3. /\ PathsAreSimple' /\ LocksAreStatements' /\ KindsAreKnown' /\ BegunAreFinite'
      /\ txn'[t].state = "committed" /\ txn'[t].kind = txn[t].kind
      /\ txn'[t].path = txn[t].path
      /\ \A u \in Txn \ {t} : txn'[u] = txn[u]
      /\ \A p \in Product : holder'[p] = IF holder[p] = t THEN NoTxn ELSE holder[p]
      /\ \A p \in Product : holder[p] # t => Ahead(txn', holder'[p]) = Ahead(txn, holder[p])
      /\ \A p \in Product : holder'[p] # NoTxn =>
            holder'[p] = holder[p] /\ txn'[holder'[p]] = txn[holder[p]]
  BY <1>1, <1>2, SumsEnd
<1>4. txn[t].state # "committed" /\ txn[t].kind \in Kind
  BY <1>1 DEF Running, KindsAreKnown
<1>5. t # NoTxn
  BY StockRowsAssumption
<1>6. \A kinds, p : Cardinality(Done(txn', kinds, p))
        = Cardinality(Done(txn, kinds, p))
          + (IF txn[t].kind \in kinds /\ \E i \in DOMAIN txn[t].path : txn[t].path[i] = p
             THEN 1 ELSE 0)
  BY <1>3, <1>4, DoneMore
<1>7. \A kinds, p : Cardinality(Done(txn, kinds, p)) \in Nat
  BY DoneIsFinite
<1>8. StockIsMoves'
  <2> SUFFICES ASSUME NEW p \in Product
               PROVE  stock'[p].quantity
                        = Brought(txn', p) - Taken(txn', p) + Ahead(txn', holder'[p])
    BY DEF StockIsMoves
  <2>0. stock[p].quantity = Brought(txn, p) - Taken(txn, p) + Ahead(txn, holder[p])
    BY DEF StockIsMoves
  <2>n. Brought(txn, p) \in Nat /\ Taken(txn, p) \in Nat
    BY <1>7 DEF Brought, Taken
  <2>1. CASE holder[p] # t
    <3>1. ~ \E i \in DOMAIN txn[t].path : txn[t].path[i] = p
      BY <1>1, <2>1, HoldsItsPath
    <3>2. Brought(txn', p) = Brought(txn, p) /\ Taken(txn', p) = Taken(txn, p)
      BY <1>6, <1>7, <3>1 DEF Brought, Taken
    <3> QED  BY <1>1, <1>3, <2>0, <2>1, <3>2
  <2>2. CASE holder[p] = t
    <3>1. \E i \in DOMAIN txn[t].path : txn[t].path[i] = p
      BY <1>1, <2>2, HoldsItsPath
    <3>2. Ahead(txn, holder[p]) = Sign(txn[t].kind) /\ Ahead(txn', holder'[p]) = 0
      BY <1>3, <1>5, <2>2 DEF Ahead
    <3>3. CASE txn[t].kind = "checkout"
      <4>1. Brought(txn', p) = Brought(txn, p) /\ Taken(txn', p) = Taken(txn, p) + 1
        BY <1>6, <1>7, <3>1, <3>3 DEF Brought, Taken
      <4>2. Sign(txn[t].kind) = -1
        BY <3>3 DEF Sign
      <4> QED  BY <1>1, <2>0, <2>n, <3>2, <4>1, <4>2
    <3>4. CASE txn[t].kind # "checkout"
      <4>1. Brought(txn', p) = Brought(txn, p) + 1 /\ Taken(txn', p) = Taken(txn, p)
        BY <1>4, <1>6, <1>7, <3>1, <3>4 DEF Brought, Taken
      <4>2. Sign(txn[t].kind) = 1
        BY <3>4 DEF Sign
      <4> QED  BY <1>1, <2>0, <2>n, <3>2, <4>1, <4>2
    <3> QED  BY <3>3, <3>4
  <2> QED  BY <2>1, <2>2
<1>9. NewRowsAreNew'
  <2> SUFFICES ASSUME NEW p \in Product PROVE NewRow(stock'[p], txn', holder'[p], p)
    BY DEF NewRowsAreNew
  <2>0. NewRow(stock[p], txn, holder[p], p)
    BY DEF NewRowsAreNew
  <2>1. CASE holder[p] # t
    <3>1. ~ \E i \in DOMAIN txn[t].path : txn[t].path[i] = p
      BY <1>1, <2>1, HoldsItsPath
    <3>2. Done(txn', {"income"}, p) = Done(txn, {"income"}, p)
      BY <1>3, <1>4, <3>1 DEF Done
    <3> QED  BY <1>1, <1>3, <2>0, <2>1, <3>2 DEF NewRow
  <2>2. CASE holder[p] = t
    <3>1. stock[p].there /\ holder'[p] = NoTxn
      BY <1>3, <1>5, <2>0, <2>2 DEF NewRow
    <3> QED  BY <1>1, <3>1 DEF NewRow
  <2> QED  BY <2>1, <2>2
<1> QED  BY <1>2, <1>3, <1>8, <1>9

\* What is rolled back was ahead of what is committed; a row it made goes again, and
\* nothing was committed about it.
LEMMA SumsRollback ==
    ASSUME SumsInv, NEW t \in Txn, Running(t), Rollback(t)
    PROVE  SumsInv'
<1> USE DEF SumsInv
<1>1. /\ stock' = Undone(t) /\ holder' = Unlocked(t)
      /\ txn' = [txn EXCEPT ![t].state = "aborted"]
  BY DEF Rollback
<1>2. Typed'
  BY <1>1, UndoneIsStock, EndKeeps
<1>3. /\ PathsAreSimple' /\ LocksAreStatements' /\ KindsAreKnown' /\ BegunAreFinite'
      /\ txn'[t].state = "aborted"
      /\ \A u \in Txn \ {t} : txn'[u] = txn[u]
      /\ \A p \in Product : holder'[p] = IF holder[p] = t THEN NoTxn ELSE holder[p]
      /\ \A p \in Product : holder[p] # t => Ahead(txn', holder'[p]) = Ahead(txn, holder[p])
      /\ \A p \in Product : holder'[p] # NoTxn =>
            holder'[p] = holder[p] /\ txn'[holder'[p]] = txn[holder[p]]
  BY <1>1, <1>2, SumsEnd
<1>4. \A p : /\ Done(txn', {"income"}, p) = Done(txn, {"income"}, p)
             /\ Brought(txn', p) = Brought(txn, p) /\ Taken(txn', p) = Taken(txn, p)
  <2>1. txn[t].state # "committed" /\ txn'[t].state # "committed"
    BY <1>3 DEF Running
  <2> QED  BY <1>3, <2>1, DoneSame
<1>5. t # NoTxn
  BY StockRowsAssumption
<1>6. \A p \in Product : p \in Row /\ stock[p] \in [there: BOOLEAN, quantity: Int]
  BY DEF Row, Typed, LocksInv, StockTypeOK
<1>7. ASSUME NEW p \in Product, holder[p] # t
      PROVE  stock'[p] = stock[p]
  BY <1>1, <1>6, <1>7 DEF Undone, Held
<1>8. ASSUME NEW p \in Product, holder[p] = t
      PROVE  IF txn[t].insert THEN stock'[p] = NoRow
             ELSE /\ stock'[p].there = stock[p].there
                  /\ stock'[p].quantity = stock[p].quantity - Sign(txn[t].kind)
  <2>1. stock'[p] = IF txn[t].insert THEN NoRow
                    ELSE [stock[p] EXCEPT !.quantity = @ - Sign(txn[t].kind)]
    BY <1>1, <1>6, <1>8 DEF Undone, Held
  <2> QED  BY <1>6, <2>1
<1>9. ASSUME NEW p \in Product, holder[p] = t
      PROVE  /\ stock[p].quantity = Brought(txn, p) - Taken(txn, p) + Sign(txn[t].kind)
             /\ Brought(txn, p) \in Nat /\ Taken(txn, p) \in Nat /\ Sign(txn[t].kind) \in Int
             /\ txn[t].insert => /\ Sign(txn[t].kind) = 1 /\ stock[p].quantity = 1
                                 /\ Done(txn, {"income"}, p) = {}
  <2>1. Ahead(txn, holder[p]) = Sign(txn[t].kind)
    BY <1>5, <1>9 DEF Ahead
  <2>2. stock[p].quantity = Brought(txn, p) - Taken(txn, p) + Ahead(txn, holder[p])
    BY DEF StockIsMoves
  <2>3. Brought(txn, p) \in Nat /\ Taken(txn, p) \in Nat /\ Sign(txn[t].kind) \in Int
    BY DoneIsFinite DEF Brought, Taken, Sign
  <2>4. txn[t].insert => Sign(txn[t].kind) = 1
    BY DEF KindsAreKnown, Sign
  <2>5. NewRow(stock[p], txn, holder[p], p)
    BY DEF NewRowsAreNew
  <2> QED  BY <1>5, <1>9, <2>1, <2>2, <2>3, <2>4, <2>5 DEF NewRow
<1>10. StockIsMoves'
  <2> SUFFICES ASSUME NEW p \in Product
               PROVE  stock'[p].quantity
                        = Brought(txn', p) - Taken(txn', p) + Ahead(txn', holder'[p])
    BY DEF StockIsMoves
  <2>1. CASE holder[p] # t
    BY <1>3, <1>4, <1>7, <2>1 DEF StockIsMoves
  <2>2. CASE holder[p] = t
    <3>1. Ahead(txn', holder'[p]) = 0
      BY <1>3, <2>2 DEF Ahead
    <3>2. stock'[p].quantity = Brought(txn, p) - Taken(txn, p)
      BY <1>8, <1>9, <2>2 DEF NoRow
    <3>3. Brought(txn, p) \in Nat /\ Taken(txn, p) \in Nat
      BY <1>9, <2>2
    <3> QED  BY <1>4, <3>1, <3>2, <3>3
  <2> QED  BY <2>1, <2>2
<1>11. NewRowsAreNew'
  <2> SUFFICES ASSUME NEW p \in Product PROVE NewRow(stock'[p], txn', holder'[p], p)
    BY DEF NewRowsAreNew
  <2>0. NewRow(stock[p], txn, holder[p], p)
    BY DEF NewRowsAreNew
  <2>1. CASE holder[p] # t
    BY <1>3, <1>4, <1>7, <2>0, <2>1 DEF NewRow
  <2>2. CASE holder[p] = t
    <3>1. holder'[p] = NoTxn /\ stock[p].there
      BY <1>3, <1>5, <2>0, <2>2 DEF NewRow
    <3>2. ~ stock'[p].there => stock'[p].quantity = 0 /\ Done(txn, {"income"}, p) = {}
      BY <1>8, <1>9, <2>2, <3>1 DEF NoRow
    <3> QED  BY <1>4, <3>1, <3>2 DEF NewRow
  <2> QED  BY <2>1, <2>2
<1> QED  BY <1>2, <1>3, <1>10, <1>11

\* Only a transaction that runs can wait, and so be in a cycle.
LEMMA DeadlockedRun ==
    ASSUME NEW T \in SUBSET Txn, Deadlocked(T), NEW t \in T
    PROVE  Running(t)
BY DEF Deadlocked, WaitsFor

LEMMA SumsStep ==
    ASSUME SumsInv, [StockNext]_stockVars
    PROVE  SumsInv'
<1>1. CASE UNCHANGED stockVars
  BY <1>1 DEF stockVars, SumsInv, Typed, LocksInv, StockTypeOK, BalancesFirst, Running,
              PathsAreSimple, LocksAreStatements, KindsAreKnown, BegunAreFinite,
              StockIsMoves, NewRowsAreNew
<1>2. ASSUME NEW t \in Txn, Refuse(t) \/ BreakDeadlock(t) \/ Crash(t)
      PROVE  SumsInv'
  <2>1. Running(t) /\ Rollback(t)
    BY <1>2, DeadlockedRun DEF Refuse, BreakDeadlock, Crash
  <2> QED  BY <2>1, SumsRollback
<1> QED  BY <1>1, <1>2, SumsBegin, SumsStatement, SumsCommit DEF StockNext, Progress

LEMMA SumsShow == SumsInv => CommittedStockAddsUp
<1> SUFFICES ASSUME SumsInv, NEW p \in Product
             PROVE  /\ holder[p] = NoTxn => stock[p].quantity
                          = Count(Kind \ {"checkout"}, p) - Count({"checkout"}, p)
                    /\ Count({"income"}, p) > 0 => stock[p].there
  BY DEF CommittedStockAddsUp
<1> USE DEF SumsInv
<1>1. \A kinds : Count(kinds, p) = Cardinality(Done(txn, kinds, p))
  BY DEF Count, Done
<1>2. /\ Count(Kind \ {"checkout"}, p) = Brought(txn, p)
      /\ Count({"checkout"}, p) = Taken(txn, p)
  BY <1>1 DEF Brought, Taken
<1>3. Brought(txn, p) \in Nat /\ Taken(txn, p) \in Nat
  BY DoneIsFinite DEF Brought, Taken
<1>4. stock[p].quantity = Brought(txn, p) - Taken(txn, p) + Ahead(txn, holder[p])
  BY DEF StockIsMoves
<1>5. NewRow(stock[p], txn, holder[p], p)
  BY DEF NewRowsAreNew
<1>6. Count({"income"}, p) > 0 => Done(txn, {"income"}, p) # {}
  BY <1>1, FS_EmptySet
<1>7. stock[p].there \in BOOLEAN
  BY DEF Typed, LocksInv, StockTypeOK
<1>8. holder[p] = NoTxn => stock[p].quantity = Brought(txn, p) - Taken(txn, p)
  BY <1>3, <1>4 DEF Ahead
<1> QED  BY <1>2, <1>5, <1>6, <1>8 DEF NewRow

\* A stock row that nobody holds is what the committed transactions brought less what
\* they took, and a row that an income was committed for is there
\* (CommittedStockAddsUp; the statements of the inventory inside Checkout,
\* DeleteSalesTransaction, DeleteOperation, ReOpen and AddIncome), whoever waits,
\* fails half-way or is aborted.
THEOREM StockAddsUp == StockSpec => []CommittedStockAddsUp
<1>1. StockInit => SumsInv
  BY SumsInit
<1>2. SumsInv /\ [StockNext]_stockVars => SumsInv'
  BY SumsStep
<1> QED  BY <1>1, <1>2, SumsShow, PTL DEF StockSpec
=============================================================================
