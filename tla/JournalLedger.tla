--------------------------- MODULE JournalLedger ---------------------------
(***************************************************************************)
(* Shift journals and the money they move: pkg/repository/journals, its    *)
(* controllers and middleware, pkg/repository/ledger, and the endpoints of *)
(* sales, suppliers and transactions that write the same rows.             *)
(*                                                                         *)
(* PostgreSQL at READ COMMITTED.  A database transaction whose writes are  *)
(* all relative (x = x + ?), or inserts, is one step; one that writes what *)
(* an earlier statement read is a step for each read and one for the       *)
(* writes.  What the middleware read before the handler's transaction      *)
(* stays in the request.                                                   *)
(*                                                                         *)
(* Abstractions.  A journal's id stands for its branch and date.           *)
(* created_at, which orders a journal's operations, is taken when the      *)
(* transaction record is built, before it is committed: a counter, and the *)
(* id of the transaction.  A close builds its second record when it        *)
(* commits: by then it has locked the branch's balances.  A delete reads   *)
(* the row in the statement before, taken together with it: an amount      *)
(* written in between would come from an endpoint that has left the branch *)
(* unbalanced anyway.  A supplier's balance is its income less its         *)
(* expenses (one statement moves all three).  A balance never leaves the   *)
(* range of its column: the database would refuse the transaction.         *)
(* Operations linked to a cart move stock too, which is not in this        *)
(* module; a checkout adds its operation as "add" does, having checked the *)
(* shift in its transaction.                                               *)
(***************************************************************************)
EXTENDS Integers, FiniteSets, CoinSums

CONSTANTS
    Journal, NoJournal,     \* journals, and SQL NULL in journal_id
    Branch, BranchOf,       \* branches, and the branch of each journal
    Supplier, NoSupplier,   \* suppliers, and SQL NULL in supplier_id
    Method,                 \* the payment methods that clients use
    Amount, Correction,     \* the amounts they enter, at first and later,
    CashLeft, TerminalIncome, \* and when they close a shift
    Request,                \* requests the server handles at the same time
    MaxInt,                 \* the largest int32
    MaxId                   \* bound: transactions ever built

\* "undefined", which an income of goods records, has no bucket, as a cheque.
PaymentMethod == {"cash", "bank", "terminal", "online_payment", "cheque",
                  "online_transfer"}

ASSUME JournalLedgerAssumption ==
    /\ NoJournal \notin Journal /\ NoSupplier \notin Supplier
    /\ BranchOf \in [Journal -> Branch]
    /\ Method \subseteq PaymentMethod
    /\ Amount \subseteq Nat /\ Correction \subseteq Int
    /\ CashLeft \subseteq Nat /\ TerminalIncome \subseteq Nat
    /\ MaxInt \in Nat /\ MaxId \in Nat

VARIABLES
    journal,    \* journals, by id
    tx,         \* transactions, by id
    built,      \* how many transactions were built: the last created_at
    balance,    \* branch_finance: the balance columns, by branch
    debt,       \* branch_finance.debt, by branch
    supplier,   \* suppliers: total_income and total_expenses
    req,        \* requests in flight
    disturbed,  \* history: journals on which a request acted on what had
                \* changed, or that another endpoint wrote behind their back
    unbalanced  \* history: branches one of whose transactions was rewritten,
                \* or removed, without its money

vars == <<journal, tx, built, balance, debt, supplier, req, disturbed,
          unbalanced>>

-----------------------------------------------------------------------------
(* Rows.                                                                   *)

Id == 1..MaxId

JournalRow == [state: {"absent", "open", "closed"},
               cash: Nat, terminal: Nat, total: Int]
NoJournalRow == [state |-> "absent", cash |-> 0, terminal |-> 0, total |-> 0]

\* A total is uint32 in the program and an int32 in its column, which refuses
\* what does not fit.
Uint32(n) == n % (2 * (MaxInt + 1))
Fits(j) == journal'[j].total \in (-MaxInt - 1)..MaxInt

Exists(j) == journal[j].state # "absent"
Closed(j) == journal[j].state = "closed"

\* initiator_type, amount, payment_method, is it a debit, and the references.
Row == [kind: {"sale", "supplier"}, amount: Int, method: PaymentMethod,
        debit: BOOLEAN, branch: Branch, journal: Journal \cup {NoJournal},
        supplier: Supplier \cup {NoSupplier}]
NoRow == [kind |-> "none", amount |-> 0, journal |-> NoJournal]

Stored(t) == tx[t] # NoRow

\* A journal's operations, and the last two of them by created_at (mutant: by
\* created_at, descending).
Operations(j) == { t \in Id : tx[t].journal = j }
FirstTwo(T) == { t \in T : Cardinality({ u \in T : u < t }) < 2 }
LastTwo(T) == { t \in T : Cardinality({ u \in T : u > t }) < 2 }

\* The sum of the amounts of the transactions T.
Sum(T) == CoinSum([t \in T |-> tx[t].amount])

Sale(b, amount, method, j) ==
    [kind |-> "sale", amount |-> amount, method |-> method, debit |-> FALSE,
     branch |-> b, journal |-> j, supplier |-> NoSupplier]
Payment(b, amount, method, j, s, debit) ==
    [kind |-> "supplier", amount |-> amount, method |-> method,
     debit |-> debit, branch |-> b, journal |-> j, supplier |-> s]

Bucket == {"cash", "bank", "terminal", "mobile_apps"}

\* adjustBranchBalance: where the money of a sale goes.  A cheque has no bucket.
IncomeBucket(method) ==
    CASE method \in {"cash", "bank", "terminal"} -> {method}
      [] method \in {"online_payment", "online_transfer"} -> {"mobile_apps"}
      [] OTHER -> {}

\* ApplySupplierTransaction: where the money of a payment is taken from.
OutflowBucket(method) ==
    CASE method = "cash" -> {"cash"}
      [] method \in {"bank", "online_payment"} -> {"bank"}
      [] method = "online_transfer" -> {"mobile_apps"}
      [] OTHER -> {}

\* balance, with amount more in the given buckets of a branch.
Adjusted(bal, b, buckets, amount) ==
    [bal EXCEPT ![b] =
        [k \in Bucket |-> IF k \in buckets THEN @[k] + amount ELSE @[k]]]

-----------------------------------------------------------------------------
(* Requests.                                                               *)

Op == {"close", "add", "update", "delete", "reopen"}

\* amount is the operation's (cash_left of a close), terminal the close's
\* terminal_income, id the operation that an update or a delete names.
Call == [op: Op, journal: Journal, amount: Nat, terminal: Nat,
         method: PaymentMethod, supplier: Supplier \cup {NoSupplier}, id: 0..MaxId]

\* A reopening has no argument but the journal.
Reopening(j) == [op |-> "reopen", journal |-> j, amount |-> 0, terminal |-> 0,
                 method |-> "cash", supplier |-> NoSupplier, id |-> 0]

\* What the request holds of its reads: the journal row (only its state, until
\* a close or a reopen reads it), its operations (for a reopen, the two it will
\* delete), the row an update or a delete names, and the id of the transaction
\* it has built.
Seen == [book: JournalRow, operations: SUBSET Id, row: Row \cup {NoRow},
         id: 0..MaxId]

Stage == {"admitted",   \* the middleware let it through
          "built",      \* its transaction is built, not committed
          "listing",    \* a reopen has read the journal row
          "reopening"}  \* and listed the operations

Pending == [stage: Stage, call: Call, seen: Seen]
Idle == [stage |-> "idle"]

TypeOK ==
    /\ journal \in [Journal -> JournalRow]
    /\ tx \in [Id -> Row \cup {NoRow}]
    /\ built \in 0..MaxId
    /\ \A t \in Id : Stored(t) => t <= built
    /\ balance \in [Branch -> [Bucket -> Int]]
    /\ debt \in [Branch -> Int]
    /\ supplier \in [Supplier -> [income: Int, expenses: Int]]
    /\ req \in [Request -> Pending \cup {Idle}]
    /\ disturbed \in SUBSET Journal
    /\ unbalanced \in SUBSET Branch

Init ==
    /\ journal = [j \in Journal |-> NoJournalRow]
    /\ tx = [t \in Id |-> NoRow]
    /\ built = 0
    /\ balance = [b \in Branch |-> [k \in Bucket |-> 0]]
    /\ debt = [b \in Branch |-> 0]
    /\ supplier = [s \in Supplier |-> [income |-> 0, expenses |-> 0]]
    /\ req = [r \in Request |-> Idle]
    /\ disturbed = {}
    /\ unbalanced = {}

money == <<balance, debt, supplier>>
history == <<disturbed, unbalanced>>

\* Totals and amounts are unsigned in Go: a negative one cannot be loaded.
Readable(j) ==
    /\ Exists(j)
    /\ journal[j].total >= 0
    /\ \A t \in Operations(j) : tx[t].amount >= 0

\* ShiftIsOpenMiddleware (mutant: it does not look at shift_is_closed).
AnyShift(j) == Readable(j)
ShiftIsOpen(j) == Readable(j) /\ ~ Closed(j)

Reply(r) == req' = [req EXCEPT ![r] = Idle]

\* An error from the database, an integer column that overflows, a lost
\* connection, a row gone: the transaction rolls back.
Fail(r) ==
    /\ req[r] # Idle
    /\ Reply(r)
    /\ UNCHANGED <<journal, tx, built, money, history>>

\* Create: one insert, under the unique index on date and branch.
Create(j) ==
    /\ ~ Exists(j)
    /\ journal' = [journal EXCEPT ![j].state = "open"]
    /\ UNCHANGED <<tx, built, money, req, history>>

\* The middleware and, for an update or a delete, the search for the
\* operation in what it loaded.
Admit(r, call) ==
    LET j == call.journal
        edits == call.op \in {"update", "delete"}
    IN
    /\ req[r] = Idle
    /\ ShiftIsOpen(j)
    /\ edits => call.id \in Operations(j)
    /\ req' = [req EXCEPT ![r] =
                 [stage |-> "admitted", call |-> call,
                  seen |-> [book |-> [NoJournalRow EXCEPT !.state = journal[j].state],
                            operations |-> {},
                            row |-> IF edits THEN tx[call.id] ELSE NoRow,
                            id |-> 0]]]
    /\ UNCHANGED <<journal, tx, built, money, history>>

Admitted(r, op) == req[r].stage = "admitted" /\ req[r].call.op = op

\* The shift is no longer in the state that the request was admitted on.
Overtaken(r) == journal[req[r].call.journal].state # req[r].seen.book.state

DisturbedIf(j, changed) ==
    disturbed' = IF changed THEN disturbed \cup {j} ELSE disturbed

-----------------------------------------------------------------------------
(* Adding an operation: AddOperationTx.                                    *)

\* It loads the journal, for its branch, and builds the transaction (mutant: with
\* the created_at of the last one).
BuildLate(r) ==
    /\ Admitted(r, "add")
    /\ Readable(req[r].call.journal)
    /\ built < MaxId
    /\ req' = [req EXCEPT ![r] = [@ EXCEPT !.stage = "built",
                                           !.seen.id = built + 1]]
    /\ UNCHANGED <<journal, tx, built, money, history>>
Build(r) ==
    /\ Admitted(r, "add")
    /\ Readable(req[r].call.journal)
    /\ built < MaxId
    /\ built' = built + 1
    /\ req' = [req EXCEPT ![r] = [@ EXCEPT !.stage = "built",
                                           !.seen.id = built + 1]]
    /\ UNCHANGED <<journal, tx, money, history>>

\* A payment to a supplier (a credit), or what he delivered (a debit).
Paid(b, s, amount, method, debit) ==
    /\ supplier' = [supplier EXCEPT
                       ![s].income = IF debit THEN @ ELSE @ + amount,
                       ![s].expenses = IF debit THEN @ + amount ELSE @]
    /\ debt' = [debt EXCEPT ![b] = IF debit THEN @ + amount ELSE @ - amount]
    /\ balance' = IF debit THEN balance
                  ELSE Adjusted(balance, b, OutflowBucket(method), - amount)

Earned(b, amount, method) ==
    /\ balance' = Adjusted(balance, b, IncomeBucket(method), amount)
    /\ UNCHANGED <<debt, supplier>>

AddOperation(r) ==
    LET call == req[r].call
        j == call.journal
        b == BranchOf[j]
    IN
    /\ req[r].stage = "built" /\ call.op = "add"
    /\ IF call.supplier = NoSupplier
       THEN /\ tx' = [tx EXCEPT ![req[r].seen.id] =
                         Sale(b, call.amount, call.method, j)]
            /\ Earned(b, call.amount, call.method)
       ELSE /\ tx' = [tx EXCEPT ![req[r].seen.id] =
                         Payment(b, call.amount, call.method, j,
                                 call.supplier, FALSE)]
            /\ Paid(b, call.supplier, call.amount, call.method, FALSE)
    /\ journal' = [journal EXCEPT ![j].total = @ + call.amount]
    /\ Fits(j)
    /\ Reply(r)
    /\ DisturbedIf(j, Overtaken(r))
    /\ UNCHANGED <<built, unbalanced>>

-----------------------------------------------------------------------------
(* Changing an operation, on what the middleware loaded.  Neither request  *)
(* touches the balances of the branch.                                     *)

\* The operation is no longer what the request was admitted on.
OperationChanged(r) == tx[req[r].call.id] # req[r].seen.row

\* Updates by id: a transaction that is gone is no error, and the journal's
\* total moves all the same.
UpdateOperation(r) ==
    LET call == req[r].call
        j == call.journal
        t == call.id
    IN
    /\ Admitted(r, "update")
    /\ call.amount > 0
    /\ tx' = IF Stored(t) THEN [tx EXCEPT ![t].amount = call.amount] ELSE tx
    /\ journal' = [journal EXCEPT
                      ![j].total = @ + (call.amount - req[r].seen.row.amount)]
    /\ Fits(j)
    /\ Reply(r)
    /\ DisturbedIf(j, Overtaken(r) \/ OperationChanged(r))
    /\ unbalanced' = IF tx' = tx THEN unbalanced
                     ELSE unbalanced \cup {BranchOf[j]}
    /\ UNCHANGED <<built, money>>

DeleteOperation(r) ==
    LET j == req[r].call.journal
        t == req[r].call.id
    IN
    /\ Admitted(r, "delete")
    /\ tx' = [tx EXCEPT ![t] = NoRow]
    /\ journal' = [journal EXCEPT ![j].total = @ - req[r].seen.row.amount]
    /\ Fits(j)
    /\ Reply(r)
    /\ DisturbedIf(j, Overtaken(r) \/ OperationChanged(r))
    /\ unbalanced' = IF tx' = tx THEN unbalanced
                     ELSE unbalanced \cup {BranchOf[j]}
    /\ UNCHANGED <<built, money>>

-----------------------------------------------------------------------------
(* Closing.                                                                *)

\* It loads the journal (and does not ask whether it is closed), then builds
\* the terminal transaction.
ReadForClose(r) ==
    LET j == req[r].call.journal IN
    /\ Admitted(r, "close")
    /\ Readable(j)
    /\ built < MaxId
    /\ built' = built + 1
    /\ req' = [req EXCEPT ![r] =
                 [stage |-> "built", call |-> req[r].call,
                  seen |-> [book |-> journal[j], operations |-> Operations(j),
                            row |-> NoRow, id |-> built + 1]]]
    /\ DisturbedIf(j, Overtaken(r))
    /\ UNCHANGED <<journal, tx, money, unbalanced>>

\* The total is written as read plus the two amounts, which wrap.
Close(r) ==
    LET call == req[r].call
        seen == req[r].seen
        j == call.journal
        b == BranchOf[j]
        total == seen.book.total + call.amount + call.terminal
    IN
    /\ req[r].stage = "built" /\ call.op = "close"
    /\ built < MaxId
    /\ built' = built + 1
    /\ tx' = [tx EXCEPT ![seen.id] = Sale(b, call.terminal, "terminal", j),
                        ![built + 1] = Sale(b, call.amount, "cash", j)]
    /\ balance' = Adjusted(Adjusted(balance, b, {"terminal"}, call.terminal),
                           b, {"cash"}, call.amount)
    /\ journal' = [journal EXCEPT ![j] =
                      [state |-> "closed", cash |-> call.amount,
                       terminal |-> call.terminal, total |-> Uint32(total)]]
    /\ Fits(j)
    /\ Reply(r)
    /\ DisturbedIf(j, \/ journal[j] # seen.book
                      \/ Operations(j) # seen.operations
                      \/ Uint32(total) # total)
    /\ UNCHANGED <<debt, supplier, unbalanced>>

-----------------------------------------------------------------------------
(* Reopening.  No middleware.                                              *)

ReadForReopen(r, j) ==
    /\ req[r] = Idle
    /\ Exists(j) /\ journal[j].total >= 0
    /\ req' = [req EXCEPT ![r] =
                 [stage |-> "listing", call |-> Reopening(j),
                  seen |-> [book |-> journal[j], operations |-> {}, row |-> NoRow,
                            id |-> 0]]]
    /\ UNCHANGED <<journal, tx, built, money, history>>

\* loadOperations: whatever they are, the last two are taken for the closing
\* transactions.  With fewer than two the request fails.
ListForReopen(r) ==
    LET operations == Operations(req[r].call.journal) IN
    /\ req[r].stage = "listing"
    /\ \A t \in operations : tx[t].amount >= 0
    /\ Cardinality(operations) >= 2
    /\ req' = [req EXCEPT ![r] =
                 [@ EXCEPT !.stage = "reopening",
                           !.seen.operations = LastTwo(operations)]]
    /\ UNCHANGED <<journal, tx, built, money, history>>

\* The balances without what transaction t brought: DeleteSalesTransaction
\* treats every transaction as a sale (mutant: with the buckets of a payment).
TakenBackAsPayment(bal, t) ==
    Adjusted(bal, tx[t].branch, OutflowBucket(tx[t].method), - tx[t].amount)
TakenBack(bal, t) ==
    Adjusted(bal, tx[t].branch, IncomeBucket(tx[t].method), - tx[t].amount)

\* Branches whose money does not follow when the transactions T are deleted.
Unpaid(T) == { tx[t].branch : t \in { u \in T : tx[u].kind = "supplier" } }

\* The two deletions (each fails if the row is gone, or cannot be loaded), and
\* the total as read less the two columns as read, which wraps the other way.
ReOpen(r) ==
    LET j == req[r].call.journal
        book == req[r].seen.book
        pair == req[r].seen.operations
        total == book.total - (book.cash + book.terminal)
    IN
    /\ req[r].stage = "reopening"
    /\ \A t \in pair : Stored(t) /\ tx[t].amount >= 0
    /\ \E t, u \in pair :
          /\ t # u
          /\ balance' = TakenBack(TakenBack(balance, t), u)
    /\ tx' = [t \in Id |-> IF t \in pair THEN NoRow ELSE tx[t]]
    /\ journal' = [journal EXCEPT ![j] =
                      [state |-> "open", cash |-> 0, terminal |-> 0,
                       total |-> Uint32(total)]]
    /\ Fits(j)
    /\ Reply(r)
    /\ DisturbedIf(j, \/ book.state # "closed" \/ journal[j] # book
                      \/ LastTwo(Operations(j)) # pair
                      \/ Uint32(total) # total)
    /\ unbalanced' = unbalanced \cup Unpaid(pair)
    /\ UNCHANGED <<built, debt, supplier>>

-----------------------------------------------------------------------------
(* The other endpoints: one transaction each, with relative writes only.   *)

\* SalesRepository.CreateTransaction.
RecordSale(b, amount, method) ==
    /\ built < MaxId
    /\ built' = built + 1
    /\ tx' = [tx EXCEPT ![built + 1] = Sale(b, amount, method, NoJournal)]
    /\ Earned(b, amount, method)
    /\ UNCHANGED <<journal, req, history>>

\* SuppliersRepository.CreateTransaction.
RecordPayment(b, s, amount, method, debit) ==
    /\ built < MaxId
    /\ built' = built + 1
    /\ tx' = [tx EXCEPT ![built + 1] =
                 Payment(b, amount, method, NoJournal, s, debit)]
    /\ Paid(b, s, amount, method, debit)
    /\ UNCHANGED <<journal, req, history>>

\* The journals that a change of transaction t behind their back disturbs.
Attached(t) == {tx[t].journal} \ {NoJournal}

\* SalesRepository.DeleteTransaction: any transaction, attached or not.
DeleteTransaction(t) ==
    /\ Stored(t) /\ tx[t].amount >= 0
    /\ tx' = [tx EXCEPT ![t] = NoRow]
    /\ balance' = TakenBack(balance, t)
    /\ disturbed' = disturbed \cup Attached(t)
    /\ unbalanced' = unbalanced \cup Unpaid({t})
    /\ UNCHANGED <<journal, built, debt, supplier, req>>

\* TransactionsRepository.Update: the amount (any number) and the initiator
\* type; a transaction with a supplier stays the supplier's
\* (transactions_initiator_refs_chk).
UpdateTransaction(t, amount, kind) ==
    /\ Stored(t)
    /\ tx[t].supplier # NoSupplier => kind = "supplier"
    /\ tx' = [tx EXCEPT ![t].amount = amount, ![t].kind = kind]
    /\ tx' # tx
    /\ disturbed' = disturbed \cup Attached(t)
    /\ unbalanced' = unbalanced \cup {tx[t].branch}
    /\ UNCHANGED <<journal, built, money, req>>

-----------------------------------------------------------------------------

\* The calls on a journal behind the middleware; the fields that an operation
\* does not use are fixed.
Calls(op, j, amounts, terminals, methods, suppliers, ids) ==
    [op: {op}, journal: {j}, amount: amounts, terminal: terminals,
     method: methods, supplier: suppliers, id: ids]

GuardedCall(j) ==
    Calls("close", j, CashLeft, TerminalIncome, {"cash"}, {NoSupplier}, {0})
    \cup Calls("add", j, Amount, {0}, Method, Supplier \cup {NoSupplier}, {0})
    \cup Calls("update", j, Correction \cap Nat, {0}, {"cash"}, {NoSupplier}, Id)
    \cup Calls("delete", j, {0}, {0}, {"cash"}, {NoSupplier}, Id)

Step(r) ==
    \/ Build(r)
    \/ AddOperation(r)
    \/ UpdateOperation(r)
    \/ DeleteOperation(r)
    \/ ReadForClose(r)
    \/ Close(r)
    \/ ListForReopen(r)
    \/ ReOpen(r)
    \/ Fail(r)

Next ==
    \/ \E j \in Journal : Create(j)
    \/ \E r \in Request, j \in Journal :
          \E call \in GuardedCall(j) : Admit(r, call)
    \/ \E r \in Request, j \in Journal : ReadForReopen(r, j)
    \/ \E r \in Request : Step(r)
    \/ \E b \in Branch, a \in Amount, m \in Method : RecordSale(b, a, m)
    \/ \E b \in Branch, s \in Supplier, a \in Amount, m \in Method,
          debit \in BOOLEAN : RecordPayment(b, s, a, m, debit)
    \/ \E t \in Id : DeleteTransaction(t)
    \/ \E t \in Id, kind \in {"sale", "supplier"} :
          \E a \in Correction \cup {tx[t].amount} : UpdateTransaction(t, a, kind)

Spec == Init /\ [][Next]_vars

-----------------------------------------------------------------------------
(* Properties.                                                             *)

\* A shift's total is the sum of its operations, whatever sequence of
\* additions, changes, closings and reopenings made it, unless a request acted
\* on rows that had changed since it read them, reopened a shift that was not
\* closed, wrote a total that uint32 cannot hold, or an endpoint that does not
\* know journals rewrote an operation.
TotalIsSumOfOperations ==
    \A j \in Journal \ disturbed : journal[j].total = Sum(Operations(j))

\* The operations that a reopen will take for the closing transactions are the
\* closing transactions, and carry the amounts it will take off the total.
ClosedByItsPair ==
    \A j \in Journal \ disturbed :
        Closed(j) =>
            \E t, u \in Id :
                /\ LastTwo(Operations(j)) = {t, u} /\ t < u
                /\ tx[t] = Sale(BranchOf[j], journal[j].terminal, "terminal", j)
                /\ tx[u] = Sale(BranchOf[j], journal[j].cash, "cash", j)

\* The transactions of a branch that brought money to a bucket, and those that
\* took some.
Incomes(b, k) ==
    { t \in Id : /\ Stored(t) /\ tx[t].kind = "sale" /\ tx[t].branch = b
                 /\ k \in IncomeBucket(tx[t].method) }
Outflows(b, k) ==
    { t \in Id : /\ Stored(t) /\ tx[t].kind = "supplier" /\ tx[t].branch = b
                 /\ ~ tx[t].debit /\ k \in OutflowBucket(tx[t].method) }
Deals(b, debit) ==
    { t \in Id : /\ Stored(t) /\ tx[t].kind = "supplier" /\ tx[t].branch = b
                 /\ tx[t].debit = debit }

\* However requests overlap, fail and are repeated, each balance of a branch is
\* what its transactions say: no closing, reopening or void counts a
\* transaction twice or forgets one.
BalancesMatchTransactions ==
    \A b \in Branch \ unbalanced :
        /\ \A k \in Bucket :
              balance[b][k] = Sum(Incomes(b, k)) - Sum(Outflows(b, k))
        /\ debt[b] = Sum(Deals(b, TRUE)) - Sum(Deals(b, FALSE))

\* "Operations may only be mutated while the shift is open": nothing moves the
\* columns of a closed shift but its reopening.
ClosedShiftIsFrozen ==
    [][\A j \in Journal : Closed(j) /\ Closed(j)' => journal'[j] = journal[j]]_vars
=============================================================================
