------------------------ MODULE JournalLedgerProofs ------------------------
(* Type correctness of JournalLedger, and then its sums: the balances of   *)
(* the branches, the totals of the shifts, and the pair a closing leaves.  *)
EXTENDS JournalLedger, CoinSumsProofs, FiniteSetTheorems, TLAPS

(* What TypeOK needs of requests: an id that a request has built was counted. *)
IdsAreCounted == \A r \in Request : req[r].stage = "built" => req[r].seen.id <= built

TypeInv == TypeOK /\ IdsAreCounted

Balances == [Branch -> [Bucket -> Int]]

-----------------------------------------------------------------------------

\* Moving money between buckets keeps balances integers.
LEMMA AdjustedType ==
    ASSUME NEW bal \in Balances, NEW b \in Branch, NEW buckets, NEW amount \in Int
    PROVE  Adjusted(bal, b, buckets, amount) \in Balances
BY DEF Adjusted, Balances

\* A row that is stored is a transaction.
LEMMA StoredIsRow ==
    ASSUME TypeOK, NEW t \in Id
    PROVE  /\ Stored(t) => tx[t] \in Row
           /\ tx[t].amount \in Int
BY DEF TypeOK, Stored, Row, NoRow

\* A call behind the middleware is a call.
LEMMA GuardedIsCall ==
    ASSUME JournalLedgerAssumption, NEW j \in Journal, NEW call \in GuardedCall(j)
    PROVE  call \in Call
<1>1. /\ "cash" \in PaymentMethod
      /\ 0 \in 0..MaxId
      /\ Id \subseteq 0..MaxId
      /\ Amount \subseteq Nat /\ CashLeft \subseteq Nat /\ TerminalIncome \subseteq Nat
      /\ Method \subseteq PaymentMethod
      /\ {"close", "add", "update", "delete"} \subseteq Op
  BY DEF PaymentMethod, Id, Op, JournalLedgerAssumption
<1>2. ASSUME NEW op \in Op, NEW amounts \in SUBSET Nat, NEW terminals \in SUBSET Nat,
             NEW methods \in SUBSET PaymentMethod,
             NEW suppliers \in SUBSET (Supplier \cup {NoSupplier}),
             NEW ids \in SUBSET (0..MaxId)
      PROVE  Calls(op, j, amounts, terminals, methods, suppliers, ids) \subseteq Call
  BY DEF Calls, Call
<1> QED  BY <1>1, <1>2 DEF GuardedCall

\* A request that is not idle holds a call, and what it read.
LEMMA PendingFields ==
    ASSUME TypeOK, NEW r \in Request, req[r].stage # "idle"
    PROVE  /\ req[r] \in Pending
           /\ req[r].call \in Call
           /\ req[r].seen \in Seen
           /\ req[r].call.journal \in Journal
           /\ req[r].call.amount \in Nat
           /\ req[r].call.terminal \in Nat
           /\ req[r].call.method \in PaymentMethod
           /\ req[r].call.supplier \in Supplier \cup {NoSupplier}
           /\ req[r].call.id \in 0..MaxId
           /\ req[r].seen.book \in JournalRow
           /\ req[r].seen.operations \in SUBSET Id
           /\ req[r].seen.row \in Row \cup {NoRow}
           /\ req[r].seen.id \in 0..MaxId
<1>1. req[r] \in Pending
  BY DEF TypeOK, Idle
<1>2. req[r].call \in Call /\ req[r].seen \in Seen
  BY <1>1 DEF Pending
<1>3. /\ req[r].call.journal \in Journal
      /\ req[r].call.amount \in Nat
      /\ req[r].call.terminal \in Nat
      /\ req[r].call.method \in PaymentMethod
      /\ req[r].call.supplier \in Supplier \cup {NoSupplier}
      /\ req[r].call.id \in 0..MaxId
  BY <1>2 DEF Call
<1>4. /\ req[r].seen.book \in JournalRow
      /\ req[r].seen.operations \in SUBSET Id
      /\ req[r].seen.row \in Row \cup {NoRow}
      /\ req[r].seen.id \in 0..MaxId
  BY <1>2 DEF Seen
<1> QED  BY <1>1, <1>2, <1>3, <1>4

\* Answering a request frees it, and no other request changes.
LEMMA ReplyType ==
    ASSUME TypeInv, NEW r \in Request, Reply(r), built' \in 0..MaxId, built' >= built
    PROVE  /\ req' \in [Request -> Pending \cup {Idle}]
           /\ IdsAreCounted'
<1>1. req' \in [Request -> Pending \cup {Idle}]
  BY DEF TypeInv, TypeOK, Reply
<1>2. ASSUME NEW q \in Request, req'[q].stage = "built"
      PROVE  req'[q].seen.id <= built'
  <2>1. q # r /\ req'[q] = req[q]
    BY <1>2 DEF TypeInv, TypeOK, Reply, Idle
  <2>2. req[q].seen.id \in 0..MaxId
    BY <1>2, <2>1, PendingFields DEF TypeInv
  <2> QED  BY <1>2, <2>1, <2>2 DEF TypeInv, IdsAreCounted, TypeOK
<1> QED  BY <1>1, <1>2 DEF IdsAreCounted

\* Changing one journal to a row keeps the rows typed.
LEMMA MovedTotal ==
    ASSUME TypeOK, NEW j \in Journal, NEW total \in Int
    PROVE  [journal EXCEPT ![j].total = total] \in [Journal -> JournalRow]
<1>1. journal[j] \in JournalRow
  BY DEF TypeOK
<1>2. [journal[j] EXCEPT !.total = total] \in JournalRow
  BY <1>1 DEF JournalRow
<1>3. [journal EXCEPT ![j] = [journal[j] EXCEPT !.total = total]]
        \in [Journal -> JournalRow]
  BY <1>2 DEF TypeOK
<1> QED  BY <1>3

\* New rows are transactions.
LEMMA NewRowType ==
    ASSUME NEW b \in Branch, NEW amount \in Nat, NEW m \in PaymentMethod,
           NEW j \in Journal \cup {NoJournal}, NEW s \in Supplier, NEW debit \in BOOLEAN
    PROVE  Sale(b, amount, m, j) \in Row /\ Payment(b, amount, m, j, s, debit) \in Row
BY DEF Sale, Payment, Row

\* Recording a payment moves columns that stay integers.
LEMMA PaidType ==
    ASSUME TypeOK, NEW b \in Branch, NEW s \in Supplier, NEW amount \in Nat,
           NEW m, NEW debit \in BOOLEAN, Paid(b, s, amount, m, debit)
    PROVE  /\ balance' \in Balances
           /\ debt' \in [Branch -> Int]
           /\ supplier' \in [Supplier -> [income: Int, expenses: Int]]
<1>1. balance' \in Balances
  <2>1. - amount \in Int /\ balance \in Balances
    BY DEF TypeOK, Balances
  <2>2. Adjusted(balance, b, OutflowBucket(m), - amount) \in Balances
    BY <2>1, AdjustedType
  <2> QED  BY <2>1, <2>2 DEF Paid
<1>2. debt' \in [Branch -> Int]
  BY DEF Paid, TypeOK
<1>3. supplier' \in [Supplier -> [income: Int, expenses: Int]]
  <2>1. ASSUME NEW F \in [Supplier -> [income: Int, expenses: Int]],
               NEW x \in Int, NEW y \in Int
        PROVE  [F EXCEPT ![s].income = x, ![s].expenses = y]
                   \in [Supplier -> [income: Int, expenses: Int]]
    OBVIOUS
  <2>2. /\ (IF debit THEN supplier[s].income ELSE supplier[s].income + amount) \in Int
        /\ (IF debit THEN supplier[s].expenses + amount ELSE supplier[s].expenses) \in Int
    BY DEF TypeOK
  <2> QED  BY <2>1, <2>2 DEF Paid, TypeOK
<1> QED  BY <1>1, <1>2, <1>3

\* So does a sale.
LEMMA EarnedType ==
    ASSUME TypeOK, NEW b \in Branch, NEW amount \in Int, NEW m, Earned(b, amount, m)
    PROVE  /\ balance' \in Balances
           /\ debt' \in [Branch -> Int]
           /\ supplier' \in [Supplier -> [income: Int, expenses: Int]]
BY AdjustedType DEF Earned, TypeOK, Balances

\* And so does taking a transaction back.
LEMMA TakenBackType ==
    ASSUME TypeOK, NEW bal \in Balances, NEW t \in Id, Stored(t)
    PROVE  TakenBack(bal, t) \in Balances
<1>1. tx[t].branch \in Branch /\ - tx[t].amount \in Int
  BY StoredIsRow DEF Row
<1> QED  BY <1>1, AdjustedType DEF TakenBack

\* The branches that a deletion leaves unpaid are branches.
LEMMA UnpaidType ==
    ASSUME TypeOK, NEW T \in SUBSET Id
    PROVE  Unpaid(T) \subseteq Branch
BY DEF Unpaid, TypeOK, Row, NoRow

\* Storing rows at one or two ids keeps the rows typed.
LEMMA StoredType ==
    ASSUME TypeOK, NEW t, NEW u, NEW x \in Row \cup {NoRow}, NEW y \in Row \cup {NoRow}
    PROVE  /\ [tx EXCEPT ![t] = x] \in [Id -> Row \cup {NoRow}]
           /\ [tx EXCEPT ![t] = x, ![u] = y] \in [Id -> Row \cup {NoRow}]
BY DEF TypeOK

\* One step forward of a request that stays in flight.
LEMMA AdvanceType ==
    ASSUME TypeInv, NEW r \in Request, NEW p \in Pending, req' = [req EXCEPT ![r] = p],
           built' \in 0..MaxId, built' >= built,
           p.stage = "built" => p.seen.id <= built'
    PROVE  /\ req' \in [Request -> Pending \cup {Idle}]
           /\ IdsAreCounted'
<1>1. req' \in [Request -> Pending \cup {Idle}]
  BY DEF TypeInv, TypeOK
<1>2. ASSUME NEW q \in Request, req'[q].stage = "built"
      PROVE  req'[q].seen.id <= built'
  <2>1. CASE q = r
    BY <1>2, <2>1 DEF TypeInv, TypeOK
  <2>2. CASE q # r
    <3>1. req'[q] = req[q] /\ req[q].stage = "built"
      BY <1>2, <2>2 DEF TypeInv, TypeOK
    <3>2. req[q].seen.id \in 0..MaxId /\ built \in 0..MaxId
      BY <3>1, PendingFields DEF TypeInv, TypeOK
    <3> QED  BY <3>1, <3>2 DEF TypeInv, IdsAreCounted
  <2> QED  BY <2>1, <2>2
<1> QED  BY <1>1, <1>2 DEF IdsAreCounted

-----------------------------------------------------------------------------

MoneyType == /\ balance \in Balances
             /\ debt \in [Branch -> Int]
             /\ supplier \in [Supplier -> [income: Int, expenses: Int]]
RequestType == req \in [Request -> Pending \cup {Idle}] /\ IdsAreCounted
RowsType == /\ tx \in [Id -> Row \cup {NoRow}]
            /\ built \in 0..MaxId
            /\ \A t \in Id : Stored(t) => t <= built
HistoryType == disturbed \in SUBSET Journal /\ unbalanced \in SUBSET Branch

\* TypeInv after a step, by groups of variables.
LEMMA TypeParts ==
    ASSUME (journal \in [Journal -> JournalRow])',
           RowsType', MoneyType', RequestType', HistoryType'
    PROVE  TypeInv'
BY DEF TypeInv, TypeOK, RowsType, MoneyType, RequestType, HistoryType, Balances

\* Variables that a step leaves alone stay typed.
LEMMA Unmoved ==
    ASSUME TypeInv
    PROVE  /\ UNCHANGED journal => (journal \in [Journal -> JournalRow])'
           /\ UNCHANGED <<tx, built>> => RowsType'
           /\ UNCHANGED money => MoneyType'
           /\ UNCHANGED history => HistoryType'
BY DEF TypeInv, TypeOK, RowsType, MoneyType, HistoryType, Balances, Stored, money, history

\* A step that leaves the rows, the journals and the money alone, and answers.
LEMMA QuietReply ==
    ASSUME TypeInv, NEW r \in Request, Reply(r), UNCHANGED built
    PROVE  RequestType'
BY ReplyType DEF TypeInv, TypeOK, RequestType

\* Rows that are stored only at ids already counted.
LEMMA RowsKept ==
    ASSUME TypeInv, tx' \in [Id -> Row \cup {NoRow}],
           built' \in 0..MaxId, built' >= built,
           \A t \in Id : tx'[t] # NoRow => tx[t] # NoRow \/ t <= built'
    PROVE  RowsType'
<1>1. ASSUME NEW t \in Id, tx'[t] # NoRow
      PROVE  t <= built'
  BY <1>1 DEF TypeInv, TypeOK, Stored, Id
<1> QED  BY <1>1 DEF RowsType, Stored

\* What is disturbed are journals.
LEMMA DisturbedType ==
    ASSUME TypeInv, NEW j \in Journal, NEW changed, DisturbedIf(j, changed)
    PROVE  disturbed' \in SUBSET Journal
BY DEF TypeInv, TypeOK, DisturbedIf

\* A failed request changes nothing else.
LEMMA FailType == ASSUME TypeInv, NEW r \in Request, Fail(r) PROVE TypeInv'
BY QuietReply, Unmoved, TypeParts DEF Fail

\* Opening a shift adds a row.
LEMMA CreateType == ASSUME TypeInv, NEW j \in Journal, Create(j) PROVE TypeInv'
<1>1. (journal \in [Journal -> JournalRow])'
  BY DEF Create, TypeInv, TypeOK, JournalRow
<1>2. RequestType'
  BY DEF Create, TypeInv, TypeOK, RequestType, IdsAreCounted
<1> QED  BY <1>1, <1>2, Unmoved, TypeParts DEF Create

\* The middleware lets a call through.
LEMMA AdmitType ==
    ASSUME JournalLedgerAssumption, TypeInv, NEW r \in Request, NEW j \in Journal,
           NEW call \in GuardedCall(j), Admit(r, call)
    PROVE  TypeInv'
<1> DEFINE row == IF call.op \in {"update", "delete"} THEN tx[call.id] ELSE NoRow
           book == [NoJournalRow EXCEPT !.state = journal[call.journal].state]
           p == [stage |-> "admitted", call |-> call,
                 seen |-> [book |-> book, operations |-> {}, row |-> row, id |-> 0]]
<1>1. call \in Call /\ call.journal \in Journal
  BY GuardedIsCall DEF Call
<1>2. row \in Row \cup {NoRow}
  BY DEF Admit, Operations, TypeInv, TypeOK
<1>3. book \in JournalRow
  BY <1>1 DEF TypeInv, TypeOK, JournalRow, NoJournalRow
<1>4. req' = [req EXCEPT ![r] = p]
  BY DEF Admit
<1> HIDE DEF row, book
<1>5. p \in Pending
  BY <1>1, <1>2, <1>3 DEF Pending, Seen, Stage, JournalLedgerAssumption
<1>6. RequestType'
  <2>1. p.stage # "built"
    OBVIOUS
  <2>2. built' = built /\ built \in 0..MaxId
    BY DEF Admit, TypeInv, TypeOK
  <2>3. built' \in 0..MaxId /\ built' >= built
    BY <2>2
  <2>4. p.stage = "built" => p.seen.id <= built'
    BY <2>1
  <2> HIDE DEF p
  <2>5. (req' \in [Request -> Pending \cup {Idle}]) /\ IdsAreCounted'
    BY <1>4, <1>5, <2>3, <2>4, AdvanceType
  <2> QED  BY <2>5 DEF RequestType
<1> QED  BY <1>6, Unmoved, TypeParts DEF Admit

\* A request builds its transaction.
LEMMA BuildType ==
    ASSUME JournalLedgerAssumption, TypeInv, NEW r \in Request, Build(r)
    PROVE  TypeInv'
<1> DEFINE p == [req[r] EXCEPT !.stage = "built", !.seen.id = built + 1]
<1>1. req' = [req EXCEPT ![r] = p]
  BY DEF Build, TypeInv, TypeOK
<1>2. built' \in 0..MaxId /\ built' >= built /\ built' = built + 1
  BY DEF Build, TypeInv, TypeOK, JournalLedgerAssumption
<1>3. p \in Pending /\ p.seen.id = built + 1
  <2>1. req[r] \in Pending /\ req[r].seen \in Seen
    BY PendingFields DEF Build, Admitted, TypeInv
  <2>2. [req[r].seen EXCEPT !.id = built + 1] \in Seen
    BY <2>1, <1>2 DEF Seen
  <2>3. p = [req[r] EXCEPT !.stage = "built", !.seen = [@ EXCEPT !.id = built + 1]]
    BY <2>1 DEF Pending
  <2> QED  BY <2>1, <2>2, <2>3 DEF Pending, Stage, Seen
<1> HIDE DEF p
<1>4. p.seen.id <= built'
  BY <1>2, <1>3
<1>5. RequestType'
  BY <1>1, <1>2, <1>3, <1>4, AdvanceType DEF RequestType
<1>6. RowsType'
  BY <1>2, RowsKept DEF Build, TypeInv, TypeOK
<1> QED  BY <1>5, <1>6, Unmoved, TypeParts DEF Build

\* An operation is added.
LEMMA AddOperationType ==
    ASSUME JournalLedgerAssumption, TypeInv, NEW r \in Request, AddOperation(r)
    PROVE  TypeInv'
<1> DEFINE call == req[r].call
           j == call.journal
           b == BranchOf[j]
           t == req[r].seen.id
<1>1. /\ j \in Journal /\ b \in Branch /\ t \in 0..MaxId /\ t <= built
      /\ call.amount \in Nat /\ call.method \in PaymentMethod
      /\ call.supplier \in Supplier \cup {NoSupplier}
  BY PendingFields DEF AddOperation, TypeInv, IdsAreCounted, JournalLedgerAssumption
<1>2. (journal \in [Journal -> JournalRow])'
  <2>1. journal[j].total + call.amount \in Int
    BY <1>1 DEF TypeInv, TypeOK, JournalRow
  <2> QED  BY <1>1, <2>1, MovedTotal DEF AddOperation, TypeInv
<1>3. RequestType'
  BY QuietReply DEF AddOperation
<1>4. PICK x \in Row : tx' = [tx EXCEPT ![t] = x]
  <2>1. CASE call.supplier = NoSupplier
    <3>1. Sale(b, call.amount, call.method, j) \in Row
      BY <1>1 DEF Sale, Row
    <3> QED  BY <2>1, <3>1 DEF AddOperation
  <2>2. CASE call.supplier # NoSupplier
    <3>1. Payment(b, call.amount, call.method, j, call.supplier, FALSE) \in Row
      BY <1>1, <2>2, NewRowType
    <3> QED  BY <2>2, <3>1 DEF AddOperation
  <2> QED  BY <2>1, <2>2
<1>5. RowsType'
  <2>1. tx' \in [Id -> Row \cup {NoRow}]
    BY <1>4, StoredType DEF TypeInv
  <2>2. built' = built /\ built \in 0..MaxId
    BY DEF AddOperation, TypeInv, TypeOK
  <2>3. \A u \in Id : tx'[u] # NoRow => tx[u] # NoRow \/ u <= built'
    BY <1>1, <1>4, <2>2 DEF TypeInv, TypeOK
  <2> QED  BY <2>1, <2>2, <2>3, RowsKept
<1>6. MoneyType'
  <2>1. CASE call.supplier = NoSupplier
    BY <1>1, <2>1, EarnedType DEF AddOperation, MoneyType, TypeInv
  <2>2. CASE call.supplier # NoSupplier
    BY <1>1, <2>2, PaidType DEF AddOperation, MoneyType, TypeInv
  <2> QED  BY <2>1, <2>2
<1>7. HistoryType'
  BY <1>1, DisturbedType DEF AddOperation, HistoryType, TypeInv, TypeOK
<1> QED  BY <1>2, <1>3, <1>5, <1>6, <1>7, TypeParts

\* An operation is corrected.
LEMMA UpdateOperationType ==
    ASSUME JournalLedgerAssumption, TypeInv, NEW r \in Request, UpdateOperation(r)
    PROVE  TypeInv'
<1> DEFINE call == req[r].call
           j == call.journal
           t == call.id
<1>1. /\ j \in Journal /\ BranchOf[j] \in Branch /\ call.amount \in Nat
      /\ req[r].seen.row.amount \in Int
  <2>1. j \in Journal /\ call.amount \in Nat /\ req[r].seen.row \in Row \cup {NoRow}
    BY PendingFields DEF UpdateOperation, Admitted, TypeInv
  <2> QED  BY <2>1 DEF JournalLedgerAssumption, Row, NoRow
<1>2. (journal \in [Journal -> JournalRow])'
  <2>1. journal[j].total + (call.amount - req[r].seen.row.amount) \in Int
    BY <1>1 DEF TypeInv, TypeOK, JournalRow
  <2> QED  BY <1>1, <2>1, MovedTotal DEF UpdateOperation, TypeInv
<1>3. RequestType'
  BY QuietReply DEF UpdateOperation
<1>4. RowsType'
  <2>1. tx' \in [Id -> Row \cup {NoRow}]
    <3>1. CASE Stored(t) /\ t \in Id
      <4>1. tx[t] \in Row
        BY <3>1, StoredIsRow DEF TypeInv
      <4>2. [tx[t] EXCEPT !.amount = call.amount] \in Row
        BY <1>1, <4>1 DEF Row
      <4>3. tx' = [tx EXCEPT ![t] = [tx[t] EXCEPT !.amount = call.amount]]
        BY <3>1 DEF UpdateOperation
      <4> QED  BY <4>2, <4>3, StoredType DEF TypeInv
    <3>2. CASE ~ (Stored(t) /\ t \in Id)
      BY <3>2 DEF UpdateOperation, TypeInv, TypeOK
    <3> QED  BY <3>1, <3>2
  <2>2. built' = built /\ built \in 0..MaxId
    BY DEF UpdateOperation, TypeInv, TypeOK
  <2>3. \A u \in Id : tx'[u] # NoRow => tx[u] # NoRow
    BY DEF UpdateOperation, TypeInv, TypeOK, Stored
  <2> QED  BY <2>1, <2>2, <2>3, RowsKept
<1>5. HistoryType'
  BY <1>1, DisturbedType DEF UpdateOperation, HistoryType, TypeInv, TypeOK
<1> QED  BY <1>2, <1>3, <1>4, <1>5, Unmoved, TypeParts DEF UpdateOperation

\* An operation is deleted.
LEMMA DeleteOperationType ==
    ASSUME JournalLedgerAssumption, TypeInv, NEW r \in Request, DeleteOperation(r)
    PROVE  TypeInv'
<1> DEFINE j == req[r].call.journal
<1>1. j \in Journal /\ BranchOf[j] \in Branch /\ req[r].seen.row.amount \in Int
  <2>1. j \in Journal /\ req[r].seen.row \in Row \cup {NoRow}
    BY PendingFields DEF DeleteOperation, Admitted, TypeInv
  <2> QED  BY <2>1 DEF JournalLedgerAssumption, Row, NoRow
<1>2. (journal \in [Journal -> JournalRow])'
  <2>1. journal[j].total - req[r].seen.row.amount \in Int
    BY <1>1 DEF TypeInv, TypeOK, JournalRow
  <2> QED  BY <1>1, <2>1, MovedTotal DEF DeleteOperation, TypeInv
<1>3. RequestType'
  BY QuietReply DEF DeleteOperation
<1>4. RowsType'
  <2>1. tx' \in [Id -> Row \cup {NoRow}]
    BY StoredType DEF DeleteOperation, TypeInv
  <2>2. built' = built /\ built \in 0..MaxId
    BY DEF DeleteOperation, TypeInv, TypeOK
  <2>3. \A u \in Id : tx'[u] # NoRow => tx[u] # NoRow
    BY DEF DeleteOperation, TypeInv, TypeOK
  <2> QED  BY <2>1, <2>2, <2>3, RowsKept
<1>5. HistoryType'
  BY <1>1, DisturbedType DEF DeleteOperation, HistoryType, TypeInv, TypeOK
<1> QED  BY <1>2, <1>3, <1>4, <1>5, Unmoved, TypeParts DEF DeleteOperation

\* A close has read the journal and built its first transaction.
LEMMA ReadForCloseType ==
    ASSUME JournalLedgerAssumption, TypeInv, NEW r \in Request, ReadForClose(r)
    PROVE  TypeInv'
<1> DEFINE j == req[r].call.journal
           seen == [book |-> journal[j], operations |-> Operations(j),
                    row |-> NoRow, id |-> built + 1]
           p == [stage |-> "built", call |-> req[r].call, seen |-> seen]
<1>1. req[r].call \in Call /\ j \in Journal
  BY PendingFields DEF ReadForClose, Admitted, TypeInv
<1>2. built' \in 0..MaxId /\ built' >= built /\ built' = built + 1
  BY DEF ReadForClose, TypeInv, TypeOK, JournalLedgerAssumption
<1>3. seen \in Seen /\ seen.id = built + 1
  BY <1>1, <1>2 DEF Seen, TypeInv, TypeOK, Operations
<1>4. req' = [req EXCEPT ![r] = p]
  BY DEF ReadForClose
<1> HIDE DEF seen
<1>5. p \in Pending /\ p.seen.id <= built'
  BY <1>1, <1>2, <1>3 DEF Pending, Stage
<1> HIDE DEF p
<1>6. RequestType'
  BY <1>2, <1>4, <1>5, AdvanceType DEF RequestType
<1>7. RowsType'
  BY <1>2, RowsKept DEF ReadForClose, TypeInv, TypeOK
<1>8. HistoryType'
  BY <1>1, DisturbedType DEF ReadForClose, HistoryType, TypeInv, TypeOK
<1> QED  BY <1>6, <1>7, <1>8, Unmoved, TypeParts DEF ReadForClose

\* A wrapped total is a number.
LEMMA WrappedType ==
    ASSUME JournalLedgerAssumption, NEW n \in Int
    PROVE  Uint32(n) \in Int
<1> DEFINE m == 2 * (MaxInt + 1)
<1>1. m \in Nat /\ m > 0
  BY DEF JournalLedgerAssumption
<1> HIDE DEF m
<1>2. n % m \in Int
  BY <1>1
<1> QED  BY <1>2 DEF Uint32, m

\* A shift is closed.
LEMMA CloseType ==
    ASSUME JournalLedgerAssumption, TypeInv, NEW r \in Request, Close(r)
    PROVE  TypeInv'
<1> DEFINE call == req[r].call
           seen == req[r].seen
           j == call.journal
           b == BranchOf[j]
<1>1. /\ j \in Journal /\ b \in Branch
      /\ call.amount \in Nat /\ call.terminal \in Nat
      /\ seen.id \in 0..MaxId /\ seen.id <= built /\ seen.book \in JournalRow
  BY PendingFields DEF Close, TypeInv, IdsAreCounted, JournalLedgerAssumption
<1>2. built' \in 0..MaxId /\ built' >= built /\ built' = built + 1
  BY DEF Close, TypeInv, TypeOK, JournalLedgerAssumption
<1>3. (journal \in [Journal -> JournalRow])'
  <2>1. Uint32(seen.book.total + call.amount + call.terminal) \in Int
    BY <1>1, WrappedType DEF JournalRow
  <2> QED  BY <1>1, <2>1 DEF Close, TypeInv, TypeOK, JournalRow
<1>4. RequestType'
  BY <1>2, ReplyType DEF Close, RequestType
<1>5. RowsType'
  <2>1. Sale(b, call.terminal, "terminal", j) \in Row
        /\ Sale(b, call.amount, "cash", j) \in Row
    BY <1>1 DEF Sale, Row, PaymentMethod
  <2>2. tx' \in [Id -> Row \cup {NoRow}]
    BY <2>1, StoredType DEF Close, TypeInv
  <2>3. seen.id <= built' /\ built + 1 <= built'
    BY <1>1, <1>2 DEF TypeInv, TypeOK
  <2>4. \A u \in Id : tx'[u] = tx[u] \/ u = seen.id \/ u = built + 1
    BY DEF Close, TypeInv, TypeOK
  <2>5. \A u \in Id : tx'[u] # NoRow => tx[u] # NoRow \/ u <= built'
    BY <2>3, <2>4
  <2> QED  BY <1>2, <2>2, <2>5, RowsKept
<1>6. MoneyType'
  <2>1. balance \in Balances
    BY DEF TypeInv, TypeOK, Balances
  <2>2. Adjusted(balance, b, {"terminal"}, call.terminal) \in Balances
    BY <1>1, <2>1, AdjustedType
  <2>3. Adjusted(Adjusted(balance, b, {"terminal"}, call.terminal),
                 b, {"cash"}, call.amount) \in Balances
    BY <1>1, <2>2, AdjustedType
  <2>4. balance' \in Balances
    BY <2>3 DEF Close
  <2> QED  BY <2>4 DEF Close, MoneyType, TypeInv, TypeOK
<1>7. HistoryType'
  BY <1>1, DisturbedType DEF Close, HistoryType, TypeInv, TypeOK
<1> QED  BY <1>3, <1>4, <1>5, <1>6, <1>7, TypeParts

\* A reopening has read the journal.
LEMMA ReadForReopenType ==
    ASSUME JournalLedgerAssumption, TypeInv, NEW r \in Request, NEW j \in Journal,
           ReadForReopen(r, j)
    PROVE  TypeInv'
<1> DEFINE p == [stage |-> "listing", call |-> Reopening(j),
                 seen |-> [book |-> journal[j], operations |-> {}, row |-> NoRow,
                           id |-> 0]]
<1>1. Reopening(j) \in Call
  BY DEF Reopening, Call, Op, PaymentMethod, JournalLedgerAssumption
<1>2. p \in Pending /\ p.stage # "built"
  BY <1>1 DEF Pending, Stage, Seen, TypeInv, TypeOK, JournalLedgerAssumption
<1>3. req' = [req EXCEPT ![r] = p]
  BY DEF ReadForReopen
<1> HIDE DEF p
<1>4. built' \in 0..MaxId /\ built' >= built
  BY DEF ReadForReopen, TypeInv, TypeOK
<1>5. RequestType'
  BY <1>2, <1>3, <1>4, AdvanceType DEF RequestType
<1> QED  BY <1>5, Unmoved, TypeParts DEF ReadForReopen

\* A reopening has listed the operations.
LEMMA ListForReopenType ==
    ASSUME JournalLedgerAssumption, TypeInv, NEW r \in Request, ListForReopen(r)
    PROVE  TypeInv'
<1> DEFINE pair == LastTwo(Operations(req[r].call.journal))
           p == [req[r] EXCEPT !.stage = "reopening", !.seen.operations = pair]
<1>1. req[r] \in Pending /\ req[r].seen \in Seen
  BY PendingFields DEF ListForReopen, TypeInv
<1>2. pair \in SUBSET Id
  BY DEF LastTwo, Operations
<1>3. req' = [req EXCEPT ![r] = p]
  BY DEF ListForReopen
<1> HIDE DEF pair
<1>4. p \in Pending /\ p.stage # "built"
  <2>1. [req[r].seen EXCEPT !.operations = pair] \in Seen
    BY <1>1, <1>2 DEF Seen
  <2>2. p = [req[r] EXCEPT !.stage = "reopening",
                           !.seen = [@ EXCEPT !.operations = pair]]
    BY <1>1 DEF Pending
  <2> QED  BY <1>1, <2>1, <2>2 DEF Pending, Stage
<1> HIDE DEF p
<1>5. built' \in 0..MaxId /\ built' >= built
  BY DEF ListForReopen, TypeInv, TypeOK
<1>6. RequestType'
  BY <1>3, <1>4, <1>5, AdvanceType DEF RequestType
<1> QED  BY <1>6, Unmoved, TypeParts DEF ListForReopen

\* A shift is reopened.
LEMMA ReOpenType ==
    ASSUME JournalLedgerAssumption, TypeInv, NEW r \in Request, ReOpen(r)
    PROVE  TypeInv'
<1> DEFINE j == req[r].call.journal
           book == req[r].seen.book
           pair == req[r].seen.operations
<1>1. j \in Journal /\ book \in JournalRow /\ pair \in SUBSET Id
  BY PendingFields DEF ReOpen, TypeInv
<1>2. (journal \in [Journal -> JournalRow])'
  <2>1. [state |-> "open", cash |-> 0, terminal |-> 0,
         total |-> Uint32(book.total - (book.cash + book.terminal))] \in JournalRow
    BY <1>1, WrappedType DEF JournalRow
  <2> QED  BY <1>1, <2>1 DEF ReOpen, TypeInv, TypeOK
<1>3. RequestType'
  BY QuietReply DEF ReOpen
<1>4. RowsType'
  <2>1. tx' \in [Id -> Row \cup {NoRow}]
    BY DEF ReOpen, TypeInv, TypeOK
  <2>2. built' = built /\ built \in 0..MaxId
    BY DEF ReOpen, TypeInv, TypeOK
  <2>3. \A u \in Id : tx'[u] # NoRow => tx[u] # NoRow
    BY DEF ReOpen, TypeInv, TypeOK
  <2> QED  BY <2>1, <2>2, <2>3, RowsKept
<1>5. MoneyType'
  <2>1. PICK t \in pair, u \in pair : balance' = TakenBack(TakenBack(balance, t), u)
    BY DEF ReOpen
  <2>2. t \in Id /\ u \in Id /\ Stored(t) /\ Stored(u)
    BY <1>1 DEF ReOpen
  <2>3. TakenBack(balance, t) \in Balances
    BY <2>2, TakenBackType DEF TypeInv, TypeOK, Balances
  <2>4. balance' \in Balances
    BY <2>1, <2>2, <2>3, TakenBackType DEF TypeInv
  <2> QED  BY <2>4 DEF ReOpen, MoneyType, TypeInv, TypeOK
<1>6. HistoryType'
  <2>1. disturbed' \in SUBSET Journal
    BY <1>1, DisturbedType DEF ReOpen
  <2>2. unbalanced' \in SUBSET Branch
    BY <1>1, UnpaidType DEF ReOpen, TypeInv, TypeOK
  <2> QED  BY <2>1, <2>2 DEF HistoryType
<1> QED  BY <1>2, <1>3, <1>4, <1>5, <1>6, TypeParts

\* The next id: a row stored there leaves the rows typed and counted.
LEMMA NextRowType ==
    ASSUME JournalLedgerAssumption, TypeInv, NEW x \in Row,
           built < MaxId, built' = built + 1, tx' = [tx EXCEPT ![built + 1] = x]
    PROVE  RowsType'
<1>1. built' \in 0..MaxId /\ built' >= built
  BY DEF TypeInv, TypeOK, JournalLedgerAssumption
<1>2. tx' \in [Id -> Row \cup {NoRow}]
  BY StoredType DEF TypeInv
<1>3. \A u \in Id : tx'[u] # NoRow => tx[u] # NoRow \/ u <= built'
  BY <1>1 DEF TypeInv, TypeOK
<1> QED  BY <1>1, <1>2, <1>3, RowsKept

\* Requests do not notice that ids are counted behind their back.
LEMMA RequestsUnmoved ==
    ASSUME TypeInv, UNCHANGED req, built' \in 0..MaxId, built' >= built
    PROVE  RequestType'
<1>1. ASSUME NEW q \in Request, req[q].stage = "built"
      PROVE  req[q].seen.id <= built'
  <2>1. req[q].seen.id \in 0..MaxId /\ built \in 0..MaxId
    BY <1>1, PendingFields DEF TypeInv, TypeOK
  <2> QED  BY <1>1, <2>1 DEF TypeInv, IdsAreCounted
<1> QED  BY <1>1 DEF RequestType, IdsAreCounted, TypeInv, TypeOK

\* A sale is recorded.
LEMMA RecordSaleType ==
    ASSUME JournalLedgerAssumption, TypeInv, NEW b \in Branch, NEW a \in Amount,
           NEW m \in Method, RecordSale(b, a, m)
    PROVE  TypeInv'
<1>1. a \in Nat /\ m \in PaymentMethod
  BY DEF JournalLedgerAssumption
<1>2. Sale(b, a, m, NoJournal) \in Row
  BY <1>1 DEF Sale, Row
<1>3. RowsType'
  BY <1>2, NextRowType DEF RecordSale
<1>4. MoneyType'
  BY <1>1, EarnedType DEF RecordSale, MoneyType, TypeInv
<1>5. RequestType'
  BY <1>3, RequestsUnmoved DEF RecordSale, RowsType, TypeInv, TypeOK
<1> QED  BY <1>3, <1>4, <1>5, Unmoved, TypeParts DEF RecordSale

\* A supplier is paid, or has delivered.
LEMMA RecordPaymentType ==
    ASSUME JournalLedgerAssumption, TypeInv, NEW b \in Branch, NEW s \in Supplier,
           NEW a \in Amount, NEW m \in Method, NEW debit \in BOOLEAN,
           RecordPayment(b, s, a, m, debit)
    PROVE  TypeInv'
<1>1. a \in Nat /\ m \in PaymentMethod
  BY DEF JournalLedgerAssumption
<1>2. Payment(b, a, m, NoJournal, s, debit) \in Row
  BY <1>1, NewRowType
<1>3. RowsType'
  BY <1>2, NextRowType DEF RecordPayment
<1>4. MoneyType'
  BY <1>1, PaidType DEF RecordPayment, MoneyType, TypeInv
<1>5. RequestType'
  BY <1>3, RequestsUnmoved DEF RecordPayment, RowsType, TypeInv, TypeOK
<1> QED  BY <1>3, <1>4, <1>5, Unmoved, TypeParts DEF RecordPayment

\* The journals of a stored transaction are journals.
LEMMA AttachedType ==
    ASSUME TypeInv, NEW t \in Id
    PROVE  Attached(t) \subseteq Journal
BY DEF Attached, TypeInv, TypeOK, Row, NoRow

\* A transaction is deleted.
LEMMA DeleteTransactionType ==
    ASSUME TypeInv, NEW t \in Id, DeleteTransaction(t)
    PROVE  TypeInv'
<1>1. RowsType'
  <2>1. tx' \in [Id -> Row \cup {NoRow}]
    BY StoredType DEF DeleteTransaction, TypeInv
  <2>2. built' = built /\ built \in 0..MaxId
    BY DEF DeleteTransaction, TypeInv, TypeOK
  <2>3. \A u \in Id : tx'[u] # NoRow => tx[u] # NoRow
    BY DEF DeleteTransaction, TypeInv, TypeOK
  <2> QED  BY <2>1, <2>2, <2>3, RowsKept
<1>2. MoneyType'
  BY TakenBackType DEF DeleteTransaction, MoneyType, TypeInv, TypeOK, Balances
<1>3. RequestType'
  BY RequestsUnmoved DEF DeleteTransaction, TypeInv, TypeOK
<1>4. HistoryType'
  <2>1. Unpaid({t}) \subseteq Branch
    BY UnpaidType DEF TypeInv
  <2> QED  BY <2>1, AttachedType DEF DeleteTransaction, HistoryType, TypeInv, TypeOK
<1> QED  BY <1>1, <1>2, <1>3, <1>4, Unmoved, TypeParts DEF DeleteTransaction

\* A transaction is rewritten.
LEMMA UpdateTransactionType ==
    ASSUME JournalLedgerAssumption, TypeInv, NEW t \in Id, NEW kind \in {"sale", "supplier"},
           NEW a \in Correction \cup {tx[t].amount}, UpdateTransaction(t, a, kind)
    PROVE  TypeInv'
<1>1. tx[t] \in Row /\ a \in Int
  BY StoredIsRow DEF UpdateTransaction, TypeInv, JournalLedgerAssumption
<1>2. RowsType'
  <2>1. tx' \in [Id -> Row \cup {NoRow}]
    <3>1. [tx[t] EXCEPT !.amount = a, !.kind = kind] \in Row
      BY <1>1 DEF Row
    <3>2. tx' = [tx EXCEPT ![t] = [tx[t] EXCEPT !.amount = a, !.kind = kind]]
      BY DEF UpdateTransaction
    <3> QED  BY <3>1, <3>2, StoredType DEF TypeInv
  <2>2. built' = built /\ built \in 0..MaxId
    BY DEF UpdateTransaction, TypeInv, TypeOK
  <2>3. \A u \in Id : tx'[u] # NoRow => tx[u] # NoRow
    BY DEF UpdateTransaction, TypeInv, TypeOK, Stored
  <2> QED  BY <2>1, <2>2, <2>3, RowsKept
<1>3. RequestType'
  BY RequestsUnmoved DEF UpdateTransaction, TypeInv, TypeOK
<1>4. HistoryType'
  BY <1>1, AttachedType DEF UpdateTransaction, HistoryType, TypeInv, TypeOK, Row
<1> QED  BY <1>2, <1>3, <1>4, Unmoved, TypeParts DEF UpdateTransaction

-----------------------------------------------------------------------------

\* The initial state is typed.
LEMMA InitType == ASSUME JournalLedgerAssumption, Init PROVE TypeInv
BY DEF Init, TypeInv, TypeOK, IdsAreCounted, JournalRow, NoJournalRow, Idle, Stored,
       JournalLedgerAssumption

\* Every step keeps the state typed.
LEMMA StepType ==
    ASSUME JournalLedgerAssumption, TypeInv, [Next]_vars
    PROVE  TypeInv'
<1>1. ASSUME NEW r \in Request, Step(r)
      PROVE  TypeInv'
  BY <1>1, BuildType, AddOperationType, UpdateOperationType, DeleteOperationType,
     ReadForCloseType, CloseType, ListForReopenType, ReOpenType, FailType DEF Step
<1>2. CASE UNCHANGED vars
  BY <1>2 DEF vars, TypeInv, TypeOK, IdsAreCounted, Stored
<1>3. CASE Next
  BY <1>1, <1>3, CreateType, AdmitType, ReadForReopenType, RecordSaleType,
     RecordPaymentType, DeleteTransactionType, UpdateTransactionType DEF Next
<1> QED  BY <1>2, <1>3

\* Every reachable state is well typed, whatever the sets of journals, branches,
\* suppliers, amounts and concurrent requests: in particular the balances stay
\* integers per bucket, and no transaction is stored under an id that was not
\* yet given out, although ids are given before the commit.
THEOREM TypeCorrect == Spec => []TypeOK
<1>1. Init => TypeInv
  BY InitType, JournalLedgerAssumption
<1>2. TypeInv /\ [Next]_vars => TypeInv'
  BY StepType, JournalLedgerAssumption
<1>3. TypeInv => TypeOK
  BY DEF TypeInv
<1> QED  BY <1>1, <1>2, <1>3, PTL DEF Spec

-----------------------------------------------------------------------------
(* The inductive invariant of the sums.                                    *)

\* With n ids given out and the requests R, nobody will store a row under id t any
\* more: it was given out, and no request still holds it.
Taken(t, n, R) ==
    /\ t \in Id /\ t <= n
    /\ \A q \in Request : R[q].stage = "built" => R[q].seen.id # t

\* What the table T has under id t, if anything, is an operation of journal j.
HoldsIn(T, t, j) == T[t] # NoRow => T[t].journal = j

Edits(r) == req[r].call.op \in {"update", "delete"}

(* What a request knows of the rows it will write: the id it has built is  *)
(* free, and the operations of a close are older; the ids that an edit or  *)
(* a reopening names were given out, and can only be found in the journal  *)
(* where it found them.  What the middleware let through saw an open shift. *)
Knows(r) ==
    /\ req[r].stage = "built" =>
          /\ req[r].call.op \in {"add", "close"}
          /\ req[r].seen.id \in Id /\ tx[req[r].seen.id] = NoRow
          /\ req[r].call.op = "close" =>
                \A t \in req[r].seen.operations : t < req[r].seen.id
    /\ req[r].stage = "admitted" /\ Edits(r) =>
          /\ Taken(req[r].call.id, built, req)
          /\ HoldsIn(tx, req[r].call.id, req[r].call.journal)
          /\ req[r].seen.row \in Row
          /\ req[r].seen.row.journal = req[r].call.journal
    /\ req[r].stage = "reopening" =>
          /\ \E t, u \in Id : t # u /\ req[r].seen.operations = {t, u}
          /\ \A t \in req[r].seen.operations :
                Taken(t, built, req) /\ HoldsIn(tx, t, req[r].call.journal)
    /\ \/ req[r].stage = "admitted"
       \/ req[r].stage = "built" /\ req[r].call.op = "add"
       => req[r].seen.book.state = "open"

IdsAreUnique ==
    \A q, r \in Request :
        req[q].stage = "built" /\ req[r].stage = "built" /\ q # r
            => req[q].seen.id # req[r].seen.id

RequestsInv == IdsAreUnique /\ \A r \in Request : Knows(r)

\* An operation is its branch's, and no amount is negative unless another endpoint
\* made it so.
RowsInv ==
    \A t \in Id : Stored(t) =>
        /\ tx[t].journal # NoJournal => tx[t].branch = BranchOf[tx[t].journal]
        /\ tx[t].branch \notin unbalanced => tx[t].amount >= 0
        /\ tx[t].journal \in Journal \ disturbed => tx[t].amount >= 0

LedgerInv ==
    /\ TypeInv
    /\ RequestsInv
    /\ RowsInv
    /\ BalancesMatchTransactions
    /\ TotalIsSumOfOperations
    /\ ClosedByItsPair

-----------------------------------------------------------------------------
(* The last two operations.                                                *)

\* A set of naturals has a least element ...
LEMMA Lowest ==
    ASSUME NEW T \in SUBSET Nat, T # {}
    PROVE  \E m \in T : \A t \in T : m <= t
<1> DEFINE R == OpToRel(<, Nat)
<1>1. IsWellFoundedOn(R, Nat)
  BY NatLessThanWellFounded
<1>2. \A x, y \in Nat : x < y => <<x, y>> \in R
  BY DEF OpToRel
<1> HIDE DEF R
<1>3. PICK m \in T : \A t \in T : ~ (<<t, m>> \in R)
  BY <1>1, WFMin
<1>4. \A t \in T : ~ (t < m)
  BY <1>2, <1>3
<1> QED  BY <1>4

\* ... and a bounded one a greatest.
LEMMA Highest ==
    ASSUME NEW n \in Nat, NEW T \in SUBSET (1..n), T # {}
    PROVE  \E m \in T : \A t \in T : t <= m
<1> DEFINE S == { n - t : t \in T }
<1>1. \A t \in T : t \in Int /\ n - t \in Nat
  BY \A t \in T : t \in 1..n
<1>2. S \in SUBSET Nat /\ S # {}
  BY <1>1
<1>3. PICK s \in S : \A x \in S : s <= x
  BY <1>2, Lowest
<1>4. PICK m \in T : s = n - m
  OBVIOUS
<1>5. \A t \in T : n - m <= n - t
  BY <1>3, <1>4
<1>6. \A t \in T : t <= m
  BY <1>1, <1>5
<1> QED  BY <1>6

\* What LastTwo asks of t, in terms of the transactions after it.
LEMMA FewAfter ==
    ASSUME NEW S, IsFiniteSet(S)
    PROVE  Cardinality(S) < 2 <=> \A x, y \in S : x = y
<1>1. CASE S = {}
  BY <1>1, FS_EmptySet
<1>2. CASE \E x : S = {x}
  BY <1>2, FS_Singleton
<1>3. CASE \E x, y \in S : x # y
  <2>1. PICK x \in S, y \in S : x # y
    BY <1>3
  <2>2. IsFiniteSet({x}) /\ Cardinality({x}) = 1
    BY FS_Singleton
  <2>3. Cardinality({x} \cup {y}) = 2 /\ {x} \cup {y} \in SUBSET S
    BY <2>1, <2>2, FS_AddElement
  <2>4. Cardinality({x} \cup {y}) <= Cardinality(S) /\ Cardinality(S) \in Nat
    BY <2>3, FS_Subset, FS_CardinalityType
  <2> QED  BY <2>1, <2>3, <2>4
<1>4. S = {} \/ (\E x : S = {x}) \/ (\E x, y \in S : x # y)
  OBVIOUS
<1> QED  BY <1>1, <1>2, <1>3, <1>4

\* A transaction is one of the last two unless two others come after it.
LEMMA InLastTwo ==
    ASSUME MaxId \in Nat, NEW T \in SUBSET Id, NEW t \in T
    PROVE  t \in LastTwo(T) <=> \A x, y \in T : x > t /\ y > t => x = y
<1> DEFINE after == { u \in T : u > t }
<1>1. IsFiniteSet(Id)
  BY FS_Interval DEF Id
<1>2. after \in SUBSET Id
  OBVIOUS
<1>3. IsFiniteSet(after)
  BY <1>1, <1>2, FS_Subset
<1>4. t \in LastTwo(T) <=> Cardinality(after) < 2
  BY DEF LastTwo
<1>5. Cardinality(after) < 2 <=> \A x, y \in after : x = y
  BY <1>3, FewAfter
<1> QED  BY <1>4, <1>5

\* Of two or more operations, the last two are two.
LEMMA LastTwoAreTwo ==
    ASSUME MaxId \in Nat, NEW T \in SUBSET Id, Cardinality(T) >= 2
    PROVE  \E t, u \in T : t < u /\ LastTwo(T) = {t, u}
<1>1. IsFiniteSet(T)
  <2>1. IsFiniteSet(Id)
    BY FS_Interval DEF Id
  <2> QED  BY <2>1, FS_Subset
<1>2. PICK x \in T, y \in T : x # y
  <2>1. ~ (Cardinality(T) < 2)
    BY <1>1, FS_CardinalityType
  <2> QED  BY <1>1, <2>1, FewAfter
<1>3. PICK u \in T : \A z \in T : z <= u
  BY <1>2, Highest DEF Id
<1>4. T \ {u} \in SUBSET (1..MaxId) /\ T \ {u} # {}
  BY <1>2 DEF Id
<1>5. PICK t \in T \ {u} : \A z \in T \ {u} : z <= t
  BY <1>4, Highest
<1>6. t \in T /\ t < u /\ \A z \in T : z \in Int
  BY <1>3, <1>5 DEF Id
<1>7. u \in LastTwo(T) /\ t \in LastTwo(T)
  BY <1>3, <1>5, <1>6, InLastTwo
<1>8. \A z \in T \ {t, u} : z \notin LastTwo(T)
  <2> SUFFICES ASSUME NEW z \in T \ {t, u} PROVE z \notin LastTwo(T)
    OBVIOUS
  <2>1. z < t /\ z < u
    BY <1>3, <1>5, <1>6
  <2> QED  BY <1>6, <2>1, InLastTwo
<1>9. LastTwo(T) \subseteq T
  BY DEF LastTwo
<1> QED  BY <1>6, <1>7, <1>8, <1>9

\* Two operations later than all the others are the last two.
LEMMA LastTwoOfNew ==
    ASSUME MaxId \in Nat, NEW T \in SUBSET Id, NEW t \in Id, NEW u \in Id, t < u,
           \A z \in T : z < t
    PROVE  LastTwo(T \cup {t, u}) = {t, u}
<1> DEFINE S == T \cup {t, u}
<1>1. S \in SUBSET Id /\ t \in S /\ u \in S
  OBVIOUS
<1>2. \A z \in S : z \in Int /\ z <= u /\ (z > t => z = u)
  BY DEF Id
<1>3. u \in LastTwo(S) /\ t \in LastTwo(S)
  BY <1>1, <1>2, InLastTwo
<1>4. \A z \in S \ {t, u} : z \notin LastTwo(S)
  <2> SUFFICES ASSUME NEW z \in S \ {t, u} PROVE z \notin LastTwo(S)
    OBVIOUS
  <2>1. z \in S /\ t > z /\ u > z /\ t # u
    BY DEF Id
  <2> HIDE DEF S
  <2> QED  BY <1>1, <2>1, InLastTwo
<1>5. LastTwo(S) \subseteq S
  BY DEF LastTwo
<1> QED  BY <1>3, <1>4, <1>5

-----------------------------------------------------------------------------
(* Sums over the transactions of a class of rows, in a table of them.      *)

RowTables == [Id -> Row \cup {NoRow}]
Rows(T, X) == { t \in Id : T[t] \in X }
Total(T, X) == CoinSum([t \in Rows(T, X) |-> T[t].amount])

\* What row x adds to the total of class X.
Value(x, X) == IF x \in X /\ x.amount > 0 THEN x.amount ELSE 0

IncomeRows(b, k) ==
    { x \in Row : x.kind = "sale" /\ x.branch = b /\ k \in IncomeBucket(x.method) }
OutflowRows(b, k) ==
    { x \in Row : /\ x.kind = "supplier" /\ x.branch = b
                  /\ ~ x.debit /\ k \in OutflowBucket(x.method) }
DebtRows(b) == { x \in Row : x.kind = "supplier" /\ x.branch = b /\ x.debit = TRUE }
CreditRows(b) == { x \in Row : x.kind = "supplier" /\ x.branch = b /\ x.debit = FALSE }
OperationRows(j) == { x \in Row : x.journal = j }

\* No class of transactions has the row that is no transaction.
LEMMA NoRowIsNoRow == NoRow \notin Row
BY DEF NoRow, Row

\* What is stored is a row.
LEMMA RowsInTable ==
    ASSUME NEW T \in RowTables, JournalLedgerAssumption
    PROVE  /\ \A t \in Id : T[t] # NoRow <=> T[t] \in Row
           /\ \A t \in Id, j \in Journal : T[t].journal = j => T[t] \in Row
<1>1. \A t \in Id : T[t] \in Row \/ T[t] = NoRow
  BY DEF RowTables
<1>2. NoRow.journal \notin Journal
  BY DEF NoRow, JournalLedgerAssumption
<1> QED  BY <1>1, <1>2, NoRowIsNoRow

\* The amounts of a class are a table of amounts.
LEMMA TableOfRows ==
    ASSUME NEW T \in RowTables, MaxId \in Nat, NEW X \in SUBSET Row
    PROVE  /\ IsTable([t \in Rows(T, X) |-> T[t].amount])
           /\ Total(T, X) \in Nat
           /\ \A t \in Id : Worth([u \in Rows(T, X) |-> T[u].amount], t) = Value(T[t], X)
           /\ \A t \in Id : Value(T[t], X) \in Nat
<1> DEFINE f == [t \in Rows(T, X) |-> T[t].amount]
<1>1. IsFiniteSet(Rows(T, X))
  <2>1. IsFiniteSet(Id)
    BY FS_Interval DEF Id
  <2> QED  BY <2>1, FS_Subset DEF Rows
<1>2. \A t \in Rows(T, X) : T[t].amount \in Int
  BY DEF Rows, Row
<1>3. IsTable(f)
  BY <1>1, <1>2 DEF IsTable
<1>4. Total(T, X) \in Nat
  BY <1>3, CoinsAreFinite DEF Total
<1>5. \A t \in Id : Worth(f, t) = Value(T[t], X)
  BY DEF Worth, Value, Rows
<1>6. \A t \in Id : Value(T[t], X) \in Nat
  BY DEF Value, Row
<1> QED  BY <1>3, <1>4, <1>5, <1>6

\* Two rows change: the total moves by what they were and are worth.
LEMMA TotalTwo ==
    ASSUME MaxId \in Nat, NEW S \in RowTables, NEW T \in RowTables, NEW X \in SUBSET Row,
           NEW t \in Id, NEW u \in Id, t # u, \A v \in Id \ {t, u} : T[v] = S[v]
    PROVE  Total(T, X) = Total(S, X) + (Value(T[t], X) - Value(S[t], X))
                                     + (Value(T[u], X) - Value(S[u], X))
<1> DEFINE f == [v \in Rows(S, X) |-> S[v].amount]
           g == [v \in Rows(T, X) |-> T[v].amount]
<1>1. /\ IsTable(f) /\ Total(S, X) = CoinSum(f) /\ Total(S, X) \in Nat
      /\ Worth(f, t) = Value(S[t], X) /\ Value(S[t], X) \in Nat
      /\ Worth(f, u) = Value(S[u], X) /\ Value(S[u], X) \in Nat
  BY TableOfRows DEF Total
<1>2. /\ IsTable(g) /\ Total(T, X) = CoinSum(g) /\ Total(T, X) \in Nat
      /\ Worth(g, t) = Value(T[t], X) /\ Value(T[t], X) \in Nat
      /\ Worth(g, u) = Value(T[u], X) /\ Value(T[u], X) \in Nat
  BY TableOfRows DEF Total
<1>3. DOMAIN g \ {t, u} = DOMAIN f \ {t, u}
  BY DEF Rows
<1>4. \A v \in DOMAIN f \ {t, u} : g[v] = f[v]
  BY DEF Rows
<1> HIDE DEF f, g
<1>5. CoinSum(g) - Worth(g, t) - Worth(g, u) = CoinSum(f) - Worth(f, t) - Worth(f, u)
  <2>1. IsTable(f) /\ IsTable(g)
    BY <1>1, <1>2
  <2> QED  BY <2>1, <1>3, <1>4, CoinStepTwo
<1> QED  BY <1>1, <1>2, <1>5

\* One row changes.
LEMMA TotalOne ==
    ASSUME MaxId \in Nat, NEW S \in RowTables, NEW T \in RowTables, NEW X \in SUBSET Row,
           NEW t \in Id, \A v \in Id \ {t} : T[v] = S[v]
    PROVE  Total(T, X) = Total(S, X) + (Value(T[t], X) - Value(S[t], X))
<1> DEFINE f == [v \in Rows(S, X) |-> S[v].amount]
           g == [v \in Rows(T, X) |-> T[v].amount]
<1>1. /\ IsTable(f) /\ Total(S, X) = CoinSum(f) /\ Total(S, X) \in Nat
      /\ Worth(f, t) = Value(S[t], X) /\ Value(S[t], X) \in Nat
  BY TableOfRows DEF Total
<1>2. /\ IsTable(g) /\ Total(T, X) = CoinSum(g) /\ Total(T, X) \in Nat
      /\ Worth(g, t) = Value(T[t], X) /\ Value(T[t], X) \in Nat
  BY TableOfRows DEF Total
<1>3. DOMAIN g \ {t} = DOMAIN f \ {t}
  BY DEF Rows
<1>4. \A v \in DOMAIN f \ {t} : g[v] = f[v]
  BY DEF Rows
<1> HIDE DEF f, g
<1>5. CoinSum(g) - Worth(g, t) = CoinSum(f) - Worth(f, t)
  BY <1>1, <1>2, <1>3, <1>4, CoinStep
<1> QED  BY <1>1, <1>2, <1>5

-----------------------------------------------------------------------------
(* What a row does to the balances of a branch.                            *)

Flow(x, b, k) == Value(x, IncomeRows(b, k)) - Value(x, OutflowRows(b, k))
Owes(x, b) == Value(x, DebtRows(b)) - Value(x, CreditRows(b))

\* Nothing, if there is no row, or for another branch.
LEMMA NoFlow ==
    ASSUME NEW b, NEW x \in Row \cup {NoRow}, x = NoRow \/ x.branch # b
    PROVE  Owes(x, b) = 0 /\ \A k : Flow(x, b, k) = 0
BY NoRowIsNoRow DEF Owes, Flow, Value, IncomeRows, OutflowRows, DebtRows, CreditRows

\* A sale's amount goes to its bucket.
LEMMA SaleFlow ==
    ASSUME NEW b, NEW x \in Row, x.kind = "sale", x.amount >= 0
    PROVE  /\ Owes(x, b) = 0
           /\ \A k : Flow(x, b, k) =
                       IF x.branch = b /\ k \in IncomeBucket(x.method)
                       THEN x.amount ELSE 0
BY DEF Owes, Flow, Value, IncomeRows, OutflowRows, DebtRows, CreditRows, Row

\* A payment's is taken from its bucket, and off the debt; a delivery's added.
LEMMA PaymentFlow ==
    ASSUME NEW b, NEW x \in Row, x.kind = "supplier", x.amount >= 0
    PROVE  /\ Owes(x, b) = IF x.branch = b
                           THEN IF x.debit THEN x.amount ELSE - x.amount
                           ELSE 0
           /\ \A k : Flow(x, b, k) =
                       IF x.branch = b /\ ~ x.debit /\ k \in OutflowBucket(x.method)
                       THEN - x.amount ELSE 0
<1>1. x.amount \in Int /\ x.debit \in BOOLEAN
  BY DEF Row
<1> QED  BY <1>1 DEF Owes, Flow, Value, IncomeRows, OutflowRows, DebtRows, CreditRows

\* The balances after money moved in some buckets of a branch.
LEMMA AdjustedAt ==
    ASSUME NEW bal \in Balances, NEW b \in Branch, NEW buckets, NEW amount \in Int,
           NEW c \in Branch, NEW k \in Bucket
    PROVE  Adjusted(bal, b, buckets, amount)[c][k]
             = bal[c][k] + IF c = b /\ k \in buckets THEN amount ELSE 0
BY DEF Adjusted, Balances

-----------------------------------------------------------------------------
(* The properties, as sums over classes.                                   *)

\* The balances and debt of branch b are what the transactions T say.
Balanced(b, bal, owed, T) ==
    /\ \A k \in Bucket : bal[b][k] = Total(T, IncomeRows(b, k)) - Total(T, OutflowRows(b, k))
    /\ owed[b] = Total(T, DebtRows(b)) - Total(T, CreditRows(b))

\* BalancesMatchTransactions and TotalIsSumOfOperations, class by class ...
LEMMA BalancesAsTotals ==
    ASSUME tx \in RowTables, JournalLedgerAssumption
    PROVE  /\ BalancesMatchTransactions
                <=> \A b \in Branch \ unbalanced : Balanced(b, balance, debt, tx)
           /\ TotalIsSumOfOperations
                <=> \A j \in Journal \ disturbed :
                       journal[j].total = Total(tx, OperationRows(j))
<1>1. \A b, k : /\ Sum(Incomes(b, k)) = Total(tx, IncomeRows(b, k))
                /\ Sum(Outflows(b, k)) = Total(tx, OutflowRows(b, k))
  <2> SUFFICES ASSUME NEW b, NEW k
               PROVE  /\ Sum(Incomes(b, k)) = Total(tx, IncomeRows(b, k))
                      /\ Sum(Outflows(b, k)) = Total(tx, OutflowRows(b, k))
    OBVIOUS
  <2>1. Incomes(b, k) = Rows(tx, IncomeRows(b, k))
    BY RowsInTable DEF Incomes, Stored, IncomeRows, Rows
  <2>2. Outflows(b, k) = Rows(tx, OutflowRows(b, k))
    BY RowsInTable DEF Outflows, Stored, OutflowRows, Rows
  <2> QED  BY <2>1, <2>2 DEF Sum, Total
<1>2. \A b : /\ Sum(Deals(b, TRUE)) = Total(tx, DebtRows(b))
             /\ Sum(Deals(b, FALSE)) = Total(tx, CreditRows(b))
  <2> SUFFICES ASSUME NEW b
               PROVE  /\ Sum(Deals(b, TRUE)) = Total(tx, DebtRows(b))
                      /\ Sum(Deals(b, FALSE)) = Total(tx, CreditRows(b))
    OBVIOUS
  <2>1. Deals(b, TRUE) = Rows(tx, DebtRows(b))
    BY RowsInTable DEF Deals, Stored, DebtRows, Rows
  <2>2. Deals(b, FALSE) = Rows(tx, CreditRows(b))
    BY RowsInTable DEF Deals, Stored, CreditRows, Rows
  <2> QED  BY <2>1, <2>2 DEF Sum, Total
<1>3. \A j \in Journal : Sum(Operations(j)) = Total(tx, OperationRows(j))
  <2>1. \A j \in Journal : Operations(j) = Rows(tx, OperationRows(j))
    BY RowsInTable DEF Operations, OperationRows, Rows
  <2> QED  BY <2>1 DEF Sum, Total
<1>4. ASSUME NEW b
      PROVE  Balanced(b, balance, debt, tx)
               <=> /\ \A k \in Bucket :
                        balance[b][k] = Sum(Incomes(b, k)) - Sum(Outflows(b, k))
                   /\ debt[b] = Sum(Deals(b, TRUE)) - Sum(Deals(b, FALSE))
  BY <1>1, <1>2 DEF Balanced
<1>5. BalancesMatchTransactions
        <=> \A b \in Branch \ unbalanced : Balanced(b, balance, debt, tx)
  BY <1>4 DEF BalancesMatchTransactions
<1>6. TotalIsSumOfOperations
        <=> \A j \in Journal \ disturbed : journal[j].total = Total(tx, OperationRows(j))
  BY <1>3 DEF TotalIsSumOfOperations
<1> QED  BY <1>5, <1>6

\* ... and after a step.
LEMMA BalancesAsTotalsNext ==
    ASSUME tx' \in RowTables, JournalLedgerAssumption
    PROVE  /\ BalancesMatchTransactions'
                <=> \A b \in Branch \ unbalanced' : Balanced(b, balance', debt', tx')
           /\ TotalIsSumOfOperations'
                <=> \A j \in Journal \ disturbed' :
                       journal'[j].total = Total(tx', OperationRows(j))
<1>1. \A b, k : /\ Sum(Incomes(b, k))' = Total(tx', IncomeRows(b, k))
                /\ Sum(Outflows(b, k))' = Total(tx', OutflowRows(b, k))
  <2> SUFFICES ASSUME NEW b, NEW k
               PROVE  /\ Sum(Incomes(b, k))' = Total(tx', IncomeRows(b, k))
                      /\ Sum(Outflows(b, k))' = Total(tx', OutflowRows(b, k))
    OBVIOUS
  <2>1. Incomes(b, k)' = Rows(tx', IncomeRows(b, k))
    BY RowsInTable DEF Incomes, Stored, IncomeRows, Rows
  <2>2. Outflows(b, k)' = Rows(tx', OutflowRows(b, k))
    BY RowsInTable DEF Outflows, Stored, OutflowRows, Rows
  <2> QED  BY <2>1, <2>2 DEF Sum, Total
<1>2. \A b : /\ Sum(Deals(b, TRUE))' = Total(tx', DebtRows(b))
             /\ Sum(Deals(b, FALSE))' = Total(tx', CreditRows(b))
  <2> SUFFICES ASSUME NEW b
               PROVE  /\ Sum(Deals(b, TRUE))' = Total(tx', DebtRows(b))
                      /\ Sum(Deals(b, FALSE))' = Total(tx', CreditRows(b))
    OBVIOUS
  <2>1. Deals(b, TRUE)' = Rows(tx', DebtRows(b))
    BY RowsInTable DEF Deals, Stored, DebtRows, Rows
  <2>2. Deals(b, FALSE)' = Rows(tx', CreditRows(b))
    BY RowsInTable DEF Deals, Stored, CreditRows, Rows
  <2> QED  BY <2>1, <2>2 DEF Sum, Total
<1>3. \A j \in Journal : Sum(Operations(j))' = Total(tx', OperationRows(j))
  <2>1. \A j \in Journal : Operations(j)' = Rows(tx', OperationRows(j))
    BY RowsInTable DEF Operations, OperationRows, Rows
  <2> QED  BY <2>1 DEF Sum, Total
<1>4. ASSUME NEW b
      PROVE  Balanced(b, balance', debt', tx')
               <=> /\ \A k \in Bucket :
                        balance'[b][k] = Sum(Incomes(b, k))' - Sum(Outflows(b, k))'
                   /\ debt'[b] = Sum(Deals(b, TRUE))' - Sum(Deals(b, FALSE))'
  BY <1>1, <1>2 DEF Balanced
<1>5. BalancesMatchTransactions'
        <=> \A b \in Branch \ unbalanced' : Balanced(b, balance', debt', tx')
  BY <1>4 DEF BalancesMatchTransactions
<1>6. TotalIsSumOfOperations'
        <=> \A j \in Journal \ disturbed' : journal'[j].total = Total(tx', OperationRows(j))
  BY <1>3 DEF TotalIsSumOfOperations
<1> QED  BY <1>5, <1>6

\* A class of rows is a set of rows.
LEMMA ClassesAreRows ==
    /\ \A b, k : IncomeRows(b, k) \in SUBSET Row /\ OutflowRows(b, k) \in SUBSET Row
    /\ \A b : DebtRows(b) \in SUBSET Row /\ CreditRows(b) \in SUBSET Row
    /\ \A j : OperationRows(j) \in SUBSET Row
BY DEF IncomeRows, OutflowRows, DebtRows, CreditRows, OperationRows

\* A row changes: a difference of totals moves by what it did and does.
LEMMA DifferenceOne ==
    ASSUME MaxId \in Nat, NEW S \in RowTables, NEW T \in RowTables,
           NEW t \in Id, \A v \in Id \ {t} : T[v] = S[v],
           NEW I \in SUBSET Row, NEW O \in SUBSET Row,
           NEW old, NEW new, old = Total(S, I) - Total(S, O),
           new = old + ((Value(T[t], I) - Value(T[t], O)) - (Value(S[t], I) - Value(S[t], O)))
    PROVE  new = Total(T, I) - Total(T, O)
<1>1. ASSUME NEW X \in SUBSET Row
      PROVE  /\ Total(T, X) = Total(S, X) + (Value(T[t], X) - Value(S[t], X))
             /\ Total(S, X) \in Nat /\ Value(T[t], X) \in Nat /\ Value(S[t], X) \in Nat
  BY TotalOne, TableOfRows
<1>2. /\ Total(T, I) = Total(S, I) + (Value(T[t], I) - Value(S[t], I))
      /\ Total(S, I) \in Nat /\ Value(T[t], I) \in Nat /\ Value(S[t], I) \in Nat
      /\ Total(T, O) = Total(S, O) + (Value(T[t], O) - Value(S[t], O))
      /\ Total(S, O) \in Nat /\ Value(T[t], O) \in Nat /\ Value(S[t], O) \in Nat
  BY <1>1
<1> QED  BY <1>2

\* And the balances of a branch by its flow.
LEMMA BalancedOne ==
    ASSUME MaxId \in Nat, NEW S \in RowTables, NEW T \in RowTables,
           NEW t \in Id, \A v \in Id \ {t} : T[v] = S[v],
           NEW b, NEW bal, NEW owed, NEW bal2, NEW owed2, Balanced(b, bal, owed, S),
           \A k \in Bucket : bal2[b][k] = bal[b][k] + (Flow(T[t], b, k) - Flow(S[t], b, k)),
           owed2[b] = owed[b] + (Owes(T[t], b) - Owes(S[t], b))
    PROVE  Balanced(b, bal2, owed2, T)
<1>1. ASSUME NEW k \in Bucket
      PROVE  bal2[b][k] = Total(T, IncomeRows(b, k)) - Total(T, OutflowRows(b, k))
  <2> DEFINE I == IncomeRows(b, k)
             O == OutflowRows(b, k)
  <2>1. I \in SUBSET Row /\ O \in SUBSET Row
    BY ClassesAreRows
  <2>2. bal[b][k] = Total(S, I) - Total(S, O)
    BY DEF Balanced
  <2>3. bal2[b][k] = bal[b][k] + ((Value(T[t], I) - Value(T[t], O))
                                    - (Value(S[t], I) - Value(S[t], O)))
    BY DEF Flow
  <2> HIDE DEF I, O
  <2>4. bal2[b][k] = Total(T, I) - Total(T, O)
    BY <2>1, <2>2, <2>3, DifferenceOne
  <2> QED  BY <2>4 DEF I, O
<1>2. owed2[b] = Total(T, DebtRows(b)) - Total(T, CreditRows(b))
  <2> DEFINE I == DebtRows(b)
             O == CreditRows(b)
  <2>1. I \in SUBSET Row /\ O \in SUBSET Row
    BY ClassesAreRows
  <2>2. owed[b] = Total(S, I) - Total(S, O)
    BY DEF Balanced
  <2>3. owed2[b] = owed[b] + ((Value(T[t], I) - Value(T[t], O))
                                - (Value(S[t], I) - Value(S[t], O)))
    BY DEF Owes
  <2> HIDE DEF I, O
  <2>4. owed2[b] = Total(T, I) - Total(T, O)
    BY <2>1, <2>2, <2>3, DifferenceOne
  <2> QED  BY <2>4 DEF I, O
<1> QED  BY <1>1, <1>2 DEF Balanced

\* Sums of flows are integers.
LEMMA FlowType ==
    ASSUME NEW x \in Row \cup {NoRow}, NEW b
    PROVE  Owes(x, b) \in Int /\ \A k : Flow(x, b, k) \in Int
<1>1. ASSUME NEW X \in SUBSET Row PROVE Value(x, X) \in Int
  BY DEF Value, Row
<1>2. ASSUME NEW k PROVE Flow(x, b, k) \in Int
  BY <1>1, ClassesAreRows DEF Flow
<1>3. Owes(x, b) \in Int
  BY <1>1, ClassesAreRows DEF Owes
<1> QED  BY <1>2, <1>3

\* So when two rows change.
LEMMA BalancedTwo ==
    ASSUME MaxId \in Nat, NEW S \in RowTables, NEW T \in RowTables,
           NEW t \in Id, NEW u \in Id, t # u, \A v \in Id \ {t, u} : T[v] = S[v],
           NEW b \in Branch, NEW bal \in Balances, NEW owed \in [Branch -> Int],
           NEW bal2, NEW owed2, Balanced(b, bal, owed, S),
           \A k \in Bucket : bal2[b][k] = bal[b][k] + (Flow(T[t], b, k) - Flow(S[t], b, k))
                                                    + (Flow(T[u], b, k) - Flow(S[u], b, k)),
           owed2[b] = owed[b] + (Owes(T[t], b) - Owes(S[t], b))
                              + (Owes(T[u], b) - Owes(S[u], b))
    PROVE  Balanced(b, bal2, owed2, T)
<1> DEFINE M == [S EXCEPT ![t] = T[t]]
           bal1 == [bal EXCEPT ![b] =
                      [k \in Bucket |-> bal[b][k] + (Flow(T[t], b, k) - Flow(S[t], b, k))]]
           owed1 == [owed EXCEPT ![b] = owed[b] + (Owes(T[t], b) - Owes(S[t], b))]
<1>1. /\ M \in RowTables /\ M[t] = T[t] /\ M[u] = S[u]
      /\ \A v \in Id \ {t} : M[v] = S[v]
      /\ \A v \in Id \ {u} : T[v] = M[v]
  BY DEF RowTables
<1>2. /\ \A k \in Bucket : bal1[b][k] = bal[b][k] + (Flow(M[t], b, k) - Flow(S[t], b, k))
      /\ owed1[b] = owed[b] + (Owes(M[t], b) - Owes(S[t], b))
  BY <1>1 DEF Balances
<1>3. /\ \A k \in Bucket : bal2[b][k] = bal1[b][k] + (Flow(T[u], b, k) - Flow(M[u], b, k))
      /\ owed2[b] = owed1[b] + (Owes(T[u], b) - Owes(M[u], b))
  BY <1>1, <1>2
<1> HIDE DEF M, bal1, owed1
<1>4. Balanced(b, bal1, owed1, M)
  BY <1>1, <1>2, BalancedOne
<1> QED  BY <1>1, <1>3, <1>4, BalancedOne

\* When the row t changes, it is enough that the balances of the branches that
\* count follow it.
LEMMA BalancesStep ==
    ASSUME JournalLedgerAssumption, tx \in RowTables, tx' \in RowTables,
           BalancesMatchTransactions, unbalanced \subseteq unbalanced',
           NEW t \in Id, \A v \in Id \ {t} : tx'[v] = tx[v],
           \A b \in Branch \ unbalanced' :
              /\ \A k \in Bucket : balance'[b][k]
                    = balance[b][k] + (Flow(tx'[t], b, k) - Flow(tx[t], b, k))
              /\ debt'[b] = debt[b] + (Owes(tx'[t], b) - Owes(tx[t], b))
    PROVE  BalancesMatchTransactions'
<1>1. SUFFICES ASSUME NEW b \in Branch \ unbalanced'
               PROVE  Balanced(b, balance', debt', tx')
  BY BalancesAsTotalsNext
<1>2. Balanced(b, balance, debt, tx)
  BY BalancesAsTotals
<1>3. MaxId \in Nat
  BY DEF JournalLedgerAssumption
<1> QED  BY <1>2, <1>3, BalancedOne

\* When t and u do.
LEMMA BalancesStepTwo ==
    ASSUME JournalLedgerAssumption, tx \in RowTables, tx' \in RowTables,
           balance \in Balances, debt \in [Branch -> Int],
           BalancesMatchTransactions, unbalanced \subseteq unbalanced',
           NEW t \in Id, NEW u \in Id, t # u, \A v \in Id \ {t, u} : tx'[v] = tx[v],
           \A b \in Branch \ unbalanced' :
              /\ \A k \in Bucket : balance'[b][k]
                    = balance[b][k] + (Flow(tx'[t], b, k) - Flow(tx[t], b, k))
                                    + (Flow(tx'[u], b, k) - Flow(tx[u], b, k))
              /\ debt'[b] = debt[b] + (Owes(tx'[t], b) - Owes(tx[t], b))
                                    + (Owes(tx'[u], b) - Owes(tx[u], b))
    PROVE  BalancesMatchTransactions'
<1>1. SUFFICES ASSUME NEW b \in Branch \ unbalanced'
               PROVE  Balanced(b, balance', debt', tx')
  BY BalancesAsTotalsNext
<1>2. Balanced(b, balance, debt, tx)
  BY BalancesAsTotals
<1>3. MaxId \in Nat /\ b \in Branch
  BY DEF JournalLedgerAssumption
<1> QED  BY <1>2, <1>3, BalancedTwo

\* The same of the totals of journals.
LEMMA TotalsStep ==
    ASSUME JournalLedgerAssumption, tx \in RowTables, tx' \in RowTables,
           TotalIsSumOfOperations, disturbed \subseteq disturbed',
           NEW t \in Id, \A v \in Id \ {t} : tx'[v] = tx[v],
           \A j \in Journal \ disturbed' :
              journal'[j].total = journal[j].total
                + (Value(tx'[t], OperationRows(j)) - Value(tx[t], OperationRows(j)))
    PROVE  TotalIsSumOfOperations'
<1>1. SUFFICES ASSUME NEW j \in Journal \ disturbed'
               PROVE  journal'[j].total = Total(tx', OperationRows(j))
  BY BalancesAsTotalsNext
<1>2. journal[j].total = Total(tx, OperationRows(j))
  BY BalancesAsTotals
<1>3. MaxId \in Nat /\ OperationRows(j) \in SUBSET Row
  BY ClassesAreRows DEF JournalLedgerAssumption
<1> QED  BY <1>2, <1>3, TotalOne

\* And a step that moves the operations under two ids.
LEMMA TotalsStepTwo ==
    ASSUME JournalLedgerAssumption, tx \in RowTables, tx' \in RowTables,
           TotalIsSumOfOperations, disturbed \subseteq disturbed',
           NEW t \in Id, NEW u \in Id, t # u, \A v \in Id \ {t, u} : tx'[v] = tx[v],
           \A j \in Journal \ disturbed' :
              journal'[j].total = journal[j].total
                + (Value(tx'[t], OperationRows(j)) - Value(tx[t], OperationRows(j)))
                + (Value(tx'[u], OperationRows(j)) - Value(tx[u], OperationRows(j)))
    PROVE  TotalIsSumOfOperations'
<1>1. SUFFICES ASSUME NEW j \in Journal \ disturbed'
               PROVE  journal'[j].total = Total(tx', OperationRows(j))
  BY BalancesAsTotalsNext
<1>2. journal[j].total = Total(tx, OperationRows(j))
  BY BalancesAsTotals
<1>3. MaxId \in Nat /\ OperationRows(j) \in SUBSET Row
  BY ClassesAreRows DEF JournalLedgerAssumption
<1> QED  BY <1>2, <1>3, TotalTwo

\* What a row adds to the total of a journal.
LEMMA OperationValue ==
    ASSUME NEW x, NEW j
    PROVE  /\ x \notin Row \/ x.journal # j => Value(x, OperationRows(j)) = 0
           /\ x \in Row /\ x.journal = j /\ x.amount >= 0
                => Value(x, OperationRows(j)) = x.amount
BY DEF Value, OperationRows, Row

\* The closing pair of a journal that a step leaves alone.
LEMMA PairKept ==
    ASSUME NEW j \in Journal, tx \in RowTables, tx' \in RowTables, JournalLedgerAssumption,
           ClosedByItsPair, j \notin disturbed,
           journal'[j].state = "closed" =>
              /\ journal[j].state = "closed"
              /\ journal'[j].cash = journal[j].cash
              /\ journal'[j].terminal = journal[j].terminal,
           \A t \in Id : tx[t].journal = j \/ tx'[t].journal = j => tx'[t] = tx[t]
    PROVE  Closed(j)' =>
              \E t, u \in Id :
                 /\ LastTwo(Operations(j))' = {t, u} /\ t < u
                 /\ tx'[t] = Sale(BranchOf[j], journal'[j].terminal, "terminal", j)
                 /\ tx'[u] = Sale(BranchOf[j], journal'[j].cash, "cash", j)
<1> SUFFICES ASSUME journal'[j].state = "closed"
             PROVE  \E t, u \in Id :
                 /\ LastTwo(Operations(j))' = {t, u} /\ t < u
                 /\ tx'[t] = Sale(BranchOf[j], journal'[j].terminal, "terminal", j)
                 /\ tx'[u] = Sale(BranchOf[j], journal'[j].cash, "cash", j)
  BY DEF Closed
<1>1. PICK t \in Id, u \in Id :
         /\ LastTwo(Operations(j)) = {t, u} /\ t < u
         /\ tx[t] = Sale(BranchOf[j], journal[j].terminal, "terminal", j)
         /\ tx[u] = Sale(BranchOf[j], journal[j].cash, "cash", j)
  BY DEF ClosedByItsPair, Closed
<1>2. Operations(j)' = Operations(j)
  BY DEF Operations
<1>3. LastTwo(Operations(j))' = LastTwo(Operations(j))
  BY <1>2 DEF LastTwo
<1>4. tx'[t] = tx[t] /\ tx'[u] = tx[u]
  BY <1>1 DEF Sale
<1> QED  BY <1>1, <1>3, <1>4

-----------------------------------------------------------------------------
(* What the steps do to the sums.                                          *)

SumsInv == RowsInv /\ BalancesMatchTransactions /\ TotalIsSumOfOperations
             /\ ClosedByItsPair

\* The types of the tables, before and after a step.
LEMMA Tables ==
    ASSUME TypeInv, TypeInv', JournalLedgerAssumption
    PROVE  /\ tx \in RowTables /\ tx' \in RowTables
           /\ balance \in Balances /\ debt \in [Branch -> Int]
           /\ \A j \in Journal : /\ BranchOf[j] \in Branch
                                 /\ journal[j] \in JournalRow
                                 /\ journal[j].total \in Int
           /\ built \in 0..MaxId /\ MaxId \in Nat
           /\ \A t \in Id : Stored(t) => t <= built
BY DEF TypeInv, TypeOK, RowTables, Balances, JournalLedgerAssumption, JournalRow

\* The journals are rows of theirs.
LEMMA JournalTable ==
    ASSUME TypeInv PROVE journal \in [Journal -> JournalRow]
BY DEF TypeInv, TypeOK

\* Reads, and what is only built: nothing that the sums see.
LEMMA QuietSums ==
    ASSUME SumsInv, TypeInv, TypeInv', JournalLedgerAssumption,
           UNCHANGED <<journal, tx, balance, debt, unbalanced>>,
           disturbed \subseteq disturbed'
    PROVE  SumsInv'
<1>1. RowsInv'
  BY DEF SumsInv, RowsInv, Stored
<1>2. BalancesMatchTransactions'
  BY Tables, BalancesAsTotals, BalancesAsTotalsNext DEF SumsInv
<1>3. TotalIsSumOfOperations'
  BY Tables, BalancesAsTotals, BalancesAsTotalsNext DEF SumsInv
<1>4. ClosedByItsPair'
  <2>1. \A j \in Journal \ disturbed' : j \in Journal \ disturbed
    OBVIOUS
  <2> QED  BY <2>1, Tables, PairKept DEF SumsInv, ClosedByItsPair, Closed
<1> QED  BY <1>1, <1>2, <1>3, <1>4 DEF SumsInv

\* A journal row changes, not its total, and the shift does not close.
LEMMA CreateSums ==
    ASSUME SumsInv, TypeInv, TypeInv', JournalLedgerAssumption, NEW j \in Journal, Create(j)
    PROVE  SumsInv'
<1>1. UNCHANGED <<tx, balance, debt, unbalanced, disturbed>>
  BY DEF Create, money, history
<1>2. RowsInv'
  BY <1>1 DEF SumsInv, RowsInv, Stored
<1>3. BalancesMatchTransactions'
  BY <1>1, Tables, BalancesAsTotals, BalancesAsTotalsNext DEF SumsInv
<1>4. \A k \in Journal : journal'[k].total = journal[k].total
  BY DEF Create, TypeInv, TypeOK, JournalRow
<1>5. TotalIsSumOfOperations'
  BY <1>1, <1>4, Tables, BalancesAsTotals, BalancesAsTotalsNext DEF SumsInv
<1>6. \A k \in Journal : journal'[k].state = "closed" => journal'[k] = journal[k]
  BY DEF Create, TypeInv, TypeOK, JournalRow
<1>7. ClosedByItsPair'
  BY <1>1, <1>6, Tables, PairKept DEF SumsInv, ClosedByItsPair, Closed
<1> QED  BY <1>2, <1>3, <1>5, <1>7 DEF SumsInv

\* The next id is free.
LEMMA NextIdIsFree ==
    ASSUME TypeInv, JournalLedgerAssumption, built < MaxId
    PROVE  built + 1 \in Id /\ tx[built + 1] = NoRow
<1>1. built \in 0..MaxId /\ MaxId \in Nat /\ \A t \in Id : Stored(t) => t <= built
  BY DEF TypeInv, TypeOK, JournalLedgerAssumption
<1>2. built + 1 \in Id
  BY <1>1 DEF Id
<1> QED  BY <1>1, <1>2 DEF Stored

\* A row of no journal changes nothing of journals.
LEMMA NoJournalSums ==
    ASSUME SumsInv, TypeInv, TypeInv', JournalLedgerAssumption, NEW t \in Id,
           \A v \in Id \ {t} : tx'[v] = tx[v],
           \A j \in Journal \ disturbed' : tx[t].journal # j /\ tx'[t].journal # j,
           UNCHANGED journal, disturbed \subseteq disturbed'
    PROVE  TotalIsSumOfOperations' /\ ClosedByItsPair'
<1>1. \A j \in Journal \ disturbed' : j \in Journal \ disturbed
  OBVIOUS
<1>2. TotalIsSumOfOperations'
  <2>1. \A j \in Journal \ disturbed' :
           journal'[j].total = journal[j].total
             + (Value(tx'[t], OperationRows(j)) - Value(tx[t], OperationRows(j)))
    BY OperationValue, Tables
  <2> QED  BY <2>1, Tables, TotalsStep DEF SumsInv
<1>3. ClosedByItsPair'
  BY <1>1, Tables, PairKept DEF SumsInv, ClosedByItsPair, Closed
<1> QED  BY <1>2, <1>3

\* A sale of no shift moves its branch's balance by its amount, and no total.
LEMMA RecordSaleSums ==
    ASSUME SumsInv, TypeInv, TypeInv', JournalLedgerAssumption,
           NEW b \in Branch, NEW a \in Amount, NEW m \in Method, RecordSale(b, a, m)
    PROVE  SumsInv'
<1> DEFINE t == built + 1
           x == Sale(b, a, m, NoJournal)
<1>1. a \in Nat /\ m \in PaymentMethod /\ NoJournal \notin Journal
  BY DEF JournalLedgerAssumption
<1>2. /\ x \in Row /\ x.kind = "sale" /\ x.amount = a /\ x.branch = b
      /\ x.method = m /\ x.journal = NoJournal
  BY <1>1 DEF Sale, Row
<1>3. t \in Id /\ tx[t] = NoRow /\ tx' = [tx EXCEPT ![t] = x]
  BY NextIdIsFree DEF RecordSale
<1>4. UNCHANGED <<journal, disturbed, unbalanced, debt>>
      /\ balance' = Adjusted(balance, b, IncomeBucket(m), a)
  BY DEF RecordSale, history, Earned
<1> HIDE DEF t, x
<1>5. tx'[t] = x /\ \A v \in Id \ {t} : tx'[v] = tx[v]
  BY <1>3 DEF TypeInv, TypeOK
<1>6. RowsInv'
  BY <1>1, <1>2, <1>4, <1>5 DEF SumsInv, RowsInv, Stored
<1>7. BalancesMatchTransactions'
  <2>1. ASSUME NEW c \in Branch \ unbalanced'
        PROVE  /\ \A k \in Bucket : balance'[c][k]
                    = balance[c][k] + (Flow(tx'[t], c, k) - Flow(tx[t], c, k))
               /\ debt'[c] = debt[c] + (Owes(tx'[t], c) - Owes(tx[t], c))
    <3>1. Owes(tx[t], c) = 0 /\ \A k : Flow(tx[t], c, k) = 0
      BY <1>3, NoFlow
    <3>2. /\ Owes(tx'[t], c) = 0
          /\ \A k : Flow(tx'[t], c, k) = IF b = c /\ k \in IncomeBucket(m) THEN a ELSE 0
      <4>1. /\ tx'[t] \in Row /\ tx'[t].kind = "sale" /\ tx'[t].amount = a /\ a >= 0
            /\ tx'[t].branch = b /\ tx'[t].method = m
        BY <1>1, <1>2, <1>5
      <4> QED  BY <4>1, SaleFlow
    <3>3. \A k \in Bucket : balance'[c][k]
                    = balance[c][k] + IF c = b /\ k \in IncomeBucket(m) THEN a ELSE 0
      BY <1>1, <1>4, Tables, AdjustedAt
    <3>4. debt'[c] = debt[c] /\ debt[c] \in Int
      BY <1>4, Tables
    <3> QED  BY <1>1, <3>1, <3>2, <3>3, <3>4
  <2> QED  BY <1>3, <1>4, <1>5, <2>1, Tables, BalancesStep DEF SumsInv
<1>8. TotalIsSumOfOperations' /\ ClosedByItsPair'
  <2>1. \A j \in Journal \ disturbed' : tx[t].journal # j /\ tx'[t].journal # j
    BY <1>1, <1>2, <1>3, <1>5 DEF NoRow
  <2> QED  BY <1>3, <1>4, <1>5, <2>1, NoJournalSums
<1> QED  BY <1>6, <1>7, <1>8 DEF SumsInv

\* A payment to a supplier takes its amount out of the branch's balance, or is a debt.
LEMMA RecordPaymentSums ==
    ASSUME SumsInv, TypeInv, TypeInv', JournalLedgerAssumption, NEW b \in Branch,
           NEW s \in Supplier, NEW a \in Amount, NEW m \in Method, NEW debit \in BOOLEAN,
           RecordPayment(b, s, a, m, debit)
    PROVE  SumsInv'
<1> DEFINE t == built + 1
           x == Payment(b, a, m, NoJournal, s, debit)
<1>1. a \in Nat /\ m \in PaymentMethod /\ NoJournal \notin Journal
  BY DEF JournalLedgerAssumption
<1>2. /\ x \in Row /\ x.kind = "supplier" /\ x.amount = a /\ x.branch = b
      /\ x.method = m /\ x.journal = NoJournal /\ x.debit = debit
  BY <1>1 DEF Payment, Row
<1>3. t \in Id /\ tx[t] = NoRow /\ tx' = [tx EXCEPT ![t] = x]
  BY NextIdIsFree DEF RecordPayment
<1>4. /\ UNCHANGED <<journal, disturbed, unbalanced>>
      /\ debt' = [debt EXCEPT ![b] = IF debit THEN @ + a ELSE @ - a]
      /\ balance' = IF debit THEN balance
                    ELSE Adjusted(balance, b, OutflowBucket(m), - a)
  BY DEF RecordPayment, history, Paid
<1> HIDE DEF t, x
<1>5. tx'[t] = x /\ \A v \in Id \ {t} : tx'[v] = tx[v]
  BY <1>3 DEF TypeInv, TypeOK
<1>6. RowsInv'
  BY <1>1, <1>2, <1>4, <1>5 DEF SumsInv, RowsInv, Stored
<1>7. BalancesMatchTransactions'
  <2>1. ASSUME NEW c \in Branch \ unbalanced'
        PROVE  /\ \A k \in Bucket : balance'[c][k]
                    = balance[c][k] + (Flow(tx'[t], c, k) - Flow(tx[t], c, k))
               /\ debt'[c] = debt[c] + (Owes(tx'[t], c) - Owes(tx[t], c))
    <3>1. Owes(tx[t], c) = 0 /\ \A k : Flow(tx[t], c, k) = 0
      BY <1>3, NoFlow
    <3>2. /\ Owes(tx'[t], c) = IF b = c THEN IF debit THEN a ELSE - a ELSE 0
          /\ \A k : Flow(tx'[t], c, k)
                      = IF b = c /\ ~ debit /\ k \in OutflowBucket(m) THEN - a ELSE 0
      BY <1>1, <1>2, <1>5, PaymentFlow
    <3>3. \A k \in Bucket : balance'[c][k] = balance[c][k]
                    + IF c = b /\ ~ debit /\ k \in OutflowBucket(m) THEN - a ELSE 0
      <4>1. CASE debit
        BY <1>4, <4>1, Tables DEF Balances
      <4>2. CASE ~ debit
        BY <1>1, <1>4, <4>2, Tables, AdjustedAt
      <4> QED  BY <4>1, <4>2
    <3>4. debt[c] \in Int
          /\ debt'[c] = debt[c] + IF b = c THEN IF debit THEN a ELSE - a ELSE 0
      BY <1>1, <1>4, Tables
    <3> QED  BY <1>1, <3>1, <3>2, <3>3, <3>4
  <2> QED  BY <1>3, <1>4, <1>5, <2>1, Tables, BalancesStep DEF SumsInv
<1>8. TotalIsSumOfOperations' /\ ClosedByItsPair'
  <2>1. \A j \in Journal \ disturbed' : tx[t].journal # j /\ tx'[t].journal # j
    BY <1>1, <1>2, <1>3, <1>5 DEF NoRow
  <2> QED  BY <1>3, <1>4, <1>5, <2>1, NoJournalSums
<1> QED  BY <1>6, <1>7, <1>8 DEF SumsInv

\* A transaction is taken back, whatever it was.
LEMMA TakenBackFlow ==
    ASSUME TypeOK, NEW bal \in Balances, NEW t \in Id, Stored(t), tx[t].amount >= 0,
           NEW c \in Branch, tx[t].kind = "supplier" => c # tx[t].branch
    PROVE  /\ \A k \in Bucket : TakenBack(bal, t)[c][k] = bal[c][k] - Flow(tx[t], c, k)
           /\ Owes(tx[t], c) = 0
<1>1. /\ tx[t] \in Row /\ tx[t].branch \in Branch /\ tx[t].amount \in Int
      /\ tx[t].kind \in {"sale", "supplier"}
  BY StoredIsRow DEF Row
<1>2. \A k \in Bucket : TakenBack(bal, t)[c][k]
          = bal[c][k] + IF c = tx[t].branch /\ k \in IncomeBucket(tx[t].method)
                        THEN - tx[t].amount ELSE 0
  BY <1>1, AdjustedAt DEF TakenBack
<1>3. \A k \in Bucket : bal[c][k] \in Int
  BY DEF Balances
<1>4. CASE c # tx[t].branch
  <2>1. Owes(tx[t], c) = 0 /\ \A k : Flow(tx[t], c, k) = 0
    BY <1>1, <1>4, NoFlow
  <2> QED  BY <1>2, <1>3, <1>4, <2>1
<1>5. CASE tx[t].kind = "sale"
  BY <1>1, <1>2, <1>3, <1>5, SaleFlow
<1> QED  BY <1>1, <1>4, <1>5

\* A transaction that is deleted gives its amount back; the shift it was in is disturbed.
LEMMA DeleteTransactionSums ==
    ASSUME SumsInv, TypeInv, TypeInv', JournalLedgerAssumption,
           NEW t \in Id, DeleteTransaction(t)
    PROVE  SumsInv'
<1>1. /\ Stored(t) /\ tx[t].amount >= 0 /\ tx[t] \in Row
      /\ tx' = [tx EXCEPT ![t] = NoRow]
      /\ UNCHANGED <<journal, debt>>
      /\ balance' = TakenBack(balance, t)
      /\ disturbed' = disturbed \cup Attached(t)
      /\ unbalanced' = unbalanced \cup Unpaid({t})
  BY StoredIsRow DEF DeleteTransaction, TypeInv
<1>2. tx'[t] = NoRow /\ \A v \in Id \ {t} : tx'[v] = tx[v]
  BY <1>1 DEF TypeInv, TypeOK
<1>3. RowsInv'
  <2> SUFFICES ASSUME NEW v \in Id, tx'[v] # NoRow
               PROVE  /\ tx'[v].journal # NoJournal => tx'[v].branch = BranchOf[tx'[v].journal]
                      /\ tx'[v].branch \notin unbalanced' => tx'[v].amount >= 0
                      /\ tx'[v].journal \in Journal \ disturbed' => tx'[v].amount >= 0
    BY DEF RowsInv, Stored
  <2>1. tx'[v] = tx[v] /\ Stored(v)
    BY <1>2 DEF Stored
  <2> QED  BY <1>1, <2>1 DEF SumsInv, RowsInv
<1>4. BalancesMatchTransactions'
  <2>1. ASSUME NEW c \in Branch \ unbalanced'
        PROVE  /\ \A k \in Bucket : balance'[c][k]
                    = balance[c][k] + (Flow(tx'[t], c, k) - Flow(tx[t], c, k))
               /\ debt'[c] = debt[c] + (Owes(tx'[t], c) - Owes(tx[t], c))
    <3>1. tx[t].kind = "supplier" => c # tx[t].branch
      BY <1>1 DEF Unpaid
    <3>2. /\ \A k \in Bucket : balance'[c][k] = balance[c][k] - Flow(tx[t], c, k)
          /\ Owes(tx[t], c) = 0
      BY <1>1, <3>1, TakenBackFlow, Tables DEF TypeInv
    <3>3. Owes(tx'[t], c) = 0 /\ \A k : Flow(tx'[t], c, k) = 0
      BY <1>2, NoFlow
    <3>4. debt'[c] = debt[c] /\ debt[c] \in Int /\ \A k \in Bucket : balance[c][k] \in Int
      BY <1>1, Tables DEF Balances
    <3>5. \A k : Flow(tx[t], c, k) \in Int
      BY <1>1, FlowType
    <3> QED  BY <3>2, <3>3, <3>4, <3>5
  <2> QED  BY <1>1, <1>2, <2>1, Tables, BalancesStep DEF SumsInv
<1>5. TotalIsSumOfOperations' /\ ClosedByItsPair'
  <2>1. \A j \in Journal \ disturbed' : tx[t].journal # j /\ tx'[t].journal # j
    BY <1>1, <1>2 DEF NoRow, Attached, JournalLedgerAssumption
  <2> QED  BY <1>1, <1>2, <2>1, NoJournalSums
<1> QED  BY <1>3, <1>4, <1>5 DEF SumsInv

\* An amount corrected moves no balance: its branch and its shift are disturbed.
LEMMA UpdateTransactionSums ==
    ASSUME SumsInv, TypeInv, TypeInv', JournalLedgerAssumption, NEW t \in Id,
           NEW kind \in {"sale", "supplier"}, NEW a \in Correction \cup {tx[t].amount},
           UpdateTransaction(t, a, kind)
    PROVE  SumsInv'
<1> DEFINE x == [tx[t] EXCEPT !.amount = a, !.kind = kind]
<1>1. tx[t] \in Row /\ a \in Int
  BY StoredIsRow DEF UpdateTransaction, TypeInv, JournalLedgerAssumption
<1>2. x \in Row /\ x.branch = tx[t].branch /\ x.journal = tx[t].journal
  BY <1>1 DEF Row
<1>3. /\ Stored(t) /\ tx' = [tx EXCEPT ![t] = x]
      /\ UNCHANGED <<journal, balance, debt>>
      /\ disturbed' = disturbed \cup Attached(t)
      /\ unbalanced' = unbalanced \cup {tx[t].branch}
  BY DEF UpdateTransaction, money
<1> HIDE DEF x
<1>4. tx'[t] = x /\ \A v \in Id \ {t} : tx'[v] = tx[v]
  BY <1>3 DEF TypeInv, TypeOK
<1>5. \A j \in Journal \ disturbed' : tx[t].journal # j /\ tx'[t].journal # j
  BY <1>2, <1>3, <1>4 DEF Attached, JournalLedgerAssumption
<1>6. RowsInv'
  <2> SUFFICES ASSUME NEW v \in Id, tx'[v] # NoRow
               PROVE  /\ tx'[v].journal # NoJournal => tx'[v].branch = BranchOf[tx'[v].journal]
                      /\ tx'[v].branch \notin unbalanced' => tx'[v].amount >= 0
                      /\ tx'[v].journal \in Journal \ disturbed' => tx'[v].amount >= 0
    BY DEF RowsInv, Stored
  <2>1. CASE v = t
    BY <1>2, <1>3, <1>4, <1>5, <2>1 DEF SumsInv, RowsInv
  <2>2. CASE v # t
    <3>1. tx'[v] = tx[v] /\ Stored(v)
      BY <1>4, <2>2 DEF Stored
    <3> QED  BY <1>3, <3>1 DEF SumsInv, RowsInv
  <2> QED  BY <2>1, <2>2
<1>7. BalancesMatchTransactions'
  <2>1. ASSUME NEW c \in Branch \ unbalanced'
        PROVE  /\ \A k \in Bucket : balance'[c][k]
                    = balance[c][k] + (Flow(tx'[t], c, k) - Flow(tx[t], c, k))
               /\ debt'[c] = debt[c] + (Owes(tx'[t], c) - Owes(tx[t], c))
    <3>1. Owes(tx[t], c) = 0 /\ \A k : Flow(tx[t], c, k) = 0
      BY <1>1, <1>3, NoFlow
    <3>2. Owes(tx'[t], c) = 0 /\ \A k : Flow(tx'[t], c, k) = 0
      BY <1>2, <1>3, <1>4, NoFlow
    <3>3. debt[c] \in Int /\ \A k \in Bucket : balance[c][k] \in Int
      BY Tables DEF Balances
    <3> QED  BY <1>3, <3>1, <3>2, <3>3
  <2> QED  BY <1>3, <1>4, <2>1, Tables, BalancesStep DEF SumsInv
<1>8. TotalIsSumOfOperations' /\ ClosedByItsPair'
  BY <1>3, <1>4, <1>5, NoJournalSums
<1> QED  BY <1>6, <1>7, <1>8 DEF SumsInv

-----------------------------------------------------------------------------
(* What the operations of a journal do to the sums.                        *)

\* A request that is still as it was let through, on a shift that is not
\* disturbed, finds it open.
LEMMA StillOpen ==
    ASSUME NEW r \in Request, Knows(r),
           \/ req[r].stage = "admitted"
           \/ req[r].stage = "built" /\ req[r].call.op = "add",
           ~ Overtaken(r)
    PROVE  journal[req[r].call.journal].state = "open"
BY DEF Knows, Overtaken

\* An operation is added.
LEMMA AddOperationSums ==
    ASSUME SumsInv, TypeInv, TypeInv', JournalLedgerAssumption,
           NEW r \in Request, Knows(r), AddOperation(r)
    PROVE  SumsInv'
<1> DEFINE call == req[r].call
           j == call.journal
           b == BranchOf[j]
           t == req[r].seen.id
           x == IF call.supplier = NoSupplier
                THEN Sale(b, call.amount, call.method, j)
                ELSE Payment(b, call.amount, call.method, j, call.supplier, FALSE)
<1>1. /\ j \in Journal /\ b \in Branch /\ call.amount \in Nat /\ call.method \in PaymentMethod
      /\ call.supplier \in Supplier \cup {NoSupplier}
  BY PendingFields DEF AddOperation, TypeInv, JournalLedgerAssumption
<1>2. t \in Id /\ tx[t] = NoRow
  BY DEF AddOperation, Knows, Stored
<1>3. /\ x \in Row /\ x.amount = call.amount /\ x.branch = b /\ x.method = call.method
      /\ x.journal = j
      /\ call.supplier = NoSupplier => x.kind = "sale"
      /\ call.supplier # NoSupplier => x.kind = "supplier" /\ x.debit = FALSE
  BY <1>1 DEF Sale, Payment, Row
<1>4. /\ tx' = [tx EXCEPT ![t] = x]
      /\ journal' = [journal EXCEPT ![j].total = @ + call.amount]
      /\ UNCHANGED unbalanced
      /\ DisturbedIf(j, Overtaken(r))
  BY DEF AddOperation
<1>5. /\ call.supplier = NoSupplier =>
           /\ balance' = Adjusted(balance, b, IncomeBucket(call.method), call.amount)
           /\ debt' = debt
      /\ call.supplier # NoSupplier =>
           /\ balance' = Adjusted(balance, b, OutflowBucket(call.method), - call.amount)
           /\ debt' = [debt EXCEPT ![b] = @ - call.amount]
  BY DEF AddOperation, Earned, Paid
<1> HIDE DEF x
<1>6. tx'[t] = x /\ \A v \in Id \ {t} : tx'[v] = tx[v]
  BY <1>2, <1>4 DEF TypeInv, TypeOK
<1>7. disturbed \subseteq disturbed' /\ (j \notin disturbed' => ~ Overtaken(r))
  BY <1>4 DEF DisturbedIf
<1>8. RowsInv'
  <2> SUFFICES ASSUME NEW v \in Id, tx'[v] # NoRow
               PROVE  /\ tx'[v].journal # NoJournal => tx'[v].branch = BranchOf[tx'[v].journal]
                      /\ tx'[v].branch \notin unbalanced' => tx'[v].amount >= 0
                      /\ tx'[v].journal \in Journal \ disturbed' => tx'[v].amount >= 0
    BY DEF RowsInv, Stored
  <2>1. CASE v = t
    BY <1>1, <1>3, <1>6, <2>1
  <2>2. CASE v # t
    <3>1. tx'[v] = tx[v] /\ Stored(v)
      BY <1>6, <2>2 DEF Stored
    <3> QED  BY <1>4, <1>7, <3>1 DEF SumsInv, RowsInv
  <2> QED  BY <2>1, <2>2
<1>9. BalancesMatchTransactions'
  <2>1. ASSUME NEW c \in Branch \ unbalanced'
        PROVE  /\ \A k \in Bucket : balance'[c][k]
                    = balance[c][k] + (Flow(tx'[t], c, k) - Flow(tx[t], c, k))
               /\ debt'[c] = debt[c] + (Owes(tx'[t], c) - Owes(tx[t], c))
    <3>1. Owes(tx[t], c) = 0 /\ \A k : Flow(tx[t], c, k) = 0
      BY <1>2, NoFlow
    <3>2. debt[c] \in Int
      BY Tables
    <3>3. CASE call.supplier = NoSupplier
      <4>1. /\ Owes(tx'[t], c) = 0
            /\ \A k : Flow(tx'[t], c, k)
                        = IF b = c /\ k \in IncomeBucket(call.method) THEN call.amount ELSE 0
        BY <1>1, <1>3, <1>6, <3>3, SaleFlow
      <4>2. \A k \in Bucket : balance'[c][k] = balance[c][k]
                + IF c = b /\ k \in IncomeBucket(call.method) THEN call.amount ELSE 0
        BY <1>1, <1>5, <3>3, Tables, AdjustedAt
      <4>3. debt'[c] = debt[c]
        BY <1>5, <3>3
      <4>4. \A k \in Bucket : Flow(tx'[t], c, k) - Flow(tx[t], c, k)
                = IF c = b /\ k \in IncomeBucket(call.method) THEN call.amount ELSE 0
        BY <1>1, <3>1, <4>1
      <4> QED  BY <3>1, <3>2, <4>1, <4>2, <4>3, <4>4
    <3>4. CASE call.supplier # NoSupplier
      <4>1. /\ Owes(tx'[t], c) = IF b = c THEN - call.amount ELSE 0
            /\ \A k : Flow(tx'[t], c, k)
                        = IF b = c /\ k \in OutflowBucket(call.method) THEN - call.amount ELSE 0
        BY <1>1, <1>3, <1>6, <3>4, PaymentFlow
      <4>2. \A k \in Bucket : balance'[c][k] = balance[c][k]
                + IF c = b /\ k \in OutflowBucket(call.method) THEN - call.amount ELSE 0
        BY <1>1, <1>5, <3>4, Tables, AdjustedAt
      <4>3. debt'[c] = debt[c] + IF b = c THEN - call.amount ELSE 0
        BY <1>1, <1>5, <3>2, <3>4, Tables
      <4> QED  BY <1>1, <3>1, <3>2, <4>1, <4>2, <4>3
    <3> QED  BY <3>3, <3>4
  <2> QED  BY <1>2, <1>4, <1>6, <2>1, Tables, BalancesStep DEF SumsInv
<1>10. TotalIsSumOfOperations'
  <2>1. ASSUME NEW k \in Journal \ disturbed'
        PROVE  journal'[k].total = journal[k].total
                 + (Value(tx'[t], OperationRows(k)) - Value(tx[t], OperationRows(k)))
    <3>1. Value(tx[t], OperationRows(k)) = 0
      BY <1>2, NoRowIsNoRow, OperationValue
    <3>2. Value(tx'[t], OperationRows(k)) = IF k = j THEN call.amount ELSE 0
      BY <1>1, <1>3, <1>6, OperationValue
    <3>3. journal'[k].total = journal[k].total + IF k = j THEN call.amount ELSE 0
      <4>1. DOMAIN journal = Journal /\ journal[k].total \in Int
        BY JournalTable, Tables
      <4>2. "total" \in DOMAIN journal[k]
        BY Tables DEF JournalRow
      <4> QED  BY <1>4, <4>1, <4>2
    <3>4. journal[k].total \in Int
      BY Tables
    <3> QED  BY <1>1, <3>1, <3>2, <3>3, <3>4
  <2> QED  BY <1>2, <1>6, <1>7, <2>1, Tables, TotalsStep DEF SumsInv
<1>11. ClosedByItsPair'
  <2>1. ASSUME NEW k \in Journal \ disturbed', k # j
        PROVE  /\ journal'[k] = journal[k]
               /\ \A v \in Id : tx[v].journal = k \/ tx'[v].journal = k => tx'[v] = tx[v]
    <3>1. journal'[k] = journal[k]
      BY <1>4, <2>1 DEF TypeInv, TypeOK
    <3>2. tx[t].journal # k /\ tx'[t].journal # k
      BY <1>2, <1>3, <1>6, <2>1 DEF NoRow, JournalLedgerAssumption
    <3> QED  BY <1>6, <3>1, <3>2
  <2>2. ASSUME j \notin disturbed'
        PROVE  journal'[j].state # "closed"
    <3>1. journal[j].state = "open"
      BY <1>7, <2>2, StillOpen DEF AddOperation
    <3>2. DOMAIN journal = Journal /\ "state" \in DOMAIN journal[j]
      BY <1>1, JournalTable, Tables DEF JournalRow
    <3>3. journal'[j] = [journal[j] EXCEPT !.total = @ + call.amount]
      BY <1>1, <1>4, <3>2
    <3> QED  BY <3>1, <3>2, <3>3
  <2>3. ASSUME NEW k \in Journal \ disturbed', Closed(k)'
        PROVE  k # j /\ k \notin disturbed
    BY <1>7, <2>2, <2>3 DEF Closed
  <2> QED  BY <2>1, <2>3, Tables, PairKept DEF SumsInv, ClosedByItsPair
<1> QED  BY <1>8, <1>9, <1>10, <1>11 DEF SumsInv

\* An operation becomes x, worth v (nothing and 0, if it is deleted), and the
\* total moves by v less what the middleware read; the balances do not move.
LEMMA EditSums ==
    ASSUME SumsInv, TypeInv, TypeInv', JournalLedgerAssumption,
           NEW r \in Request, Knows(r), req[r].stage = "admitted", Edits(r),
           NEW x \in Row \cup {NoRow}, NEW v \in Nat,
           x # NoRow => /\ Stored(req[r].call.id) /\ x.amount = v
                        /\ x.journal = tx[req[r].call.id].journal
                        /\ x.branch = tx[req[r].call.id].branch,
           x = NoRow => v = 0 \/ ~ Stored(req[r].call.id),
           tx' = [tx EXCEPT ![req[r].call.id] = x],
           journal' = [journal EXCEPT ![req[r].call.journal].total
                                        = @ + (v - req[r].seen.row.amount)],
           DisturbedIf(req[r].call.journal, Overtaken(r) \/ OperationChanged(r)),
           unbalanced' = (IF tx' = tx THEN unbalanced
                          ELSE unbalanced \cup {BranchOf[req[r].call.journal]}),
           UNCHANGED <<balance, debt>>
    PROVE  SumsInv'
<1> DEFINE j == req[r].call.journal
           t == req[r].call.id
           row == req[r].seen.row
<1>1. /\ j \in Journal /\ t \in Id /\ BranchOf[j] \in Branch
      /\ row \in Row /\ row.journal = j /\ row.amount \in Int
      /\ Stored(t) => tx[t].journal = j
  <2>1. j \in Journal /\ t \in Id /\ row \in Row /\ row.journal = j
        /\ (Stored(t) => tx[t].journal = j)
    BY PendingFields DEF Knows, Taken, HoldsIn, Stored, TypeInv
  <2> QED  BY <2>1 DEF Row, JournalLedgerAssumption
<1>2. tx'[t] = x /\ \A w \in Id \ {t} : tx'[w] = tx[w]
  BY <1>1 DEF TypeInv, TypeOK
<1>3. /\ disturbed \subseteq disturbed' /\ unbalanced \subseteq unbalanced'
      /\ j \notin disturbed' => ~ Overtaken(r) /\ tx[t] = row /\ j \notin disturbed
  BY DEF DisturbedIf, OperationChanged
<1>4. NoJournal \notin Journal /\ NoRow.journal = NoJournal
  BY DEF JournalLedgerAssumption, NoRow
<1>4a. /\ journal'[j].total = journal[j].total + (v - row.amount)
       /\ journal'[j].state = journal[j].state
  <2>1. journal'[j] = [journal[j] EXCEPT !.total = journal[j].total + (v - row.amount)]
    BY <1>1 DEF TypeInv, TypeOK
  <2>2. journal[j] \in JournalRow
    BY <1>1, Tables
  <2> QED  BY <2>1, <2>2 DEF JournalRow
<1>5. RowsInv'
  <2> SUFFICES ASSUME NEW w \in Id, tx'[w] # NoRow
               PROVE  /\ tx'[w].journal # NoJournal => tx'[w].branch = BranchOf[tx'[w].journal]
                      /\ tx'[w].branch \notin unbalanced' => tx'[w].amount >= 0
                      /\ tx'[w].journal \in Journal \ disturbed' => tx'[w].amount >= 0
    BY DEF RowsInv, Stored
  <2>1. CASE w = t
    BY <1>1, <1>2, <2>1 DEF SumsInv, RowsInv
  <2>2. CASE w # t
    <3>1. tx'[w] = tx[w] /\ Stored(w)
      BY <1>2, <2>2 DEF Stored
    <3> QED  BY <1>3, <3>1 DEF SumsInv, RowsInv
  <2> QED  BY <2>1, <2>2
<1>6. BalancesMatchTransactions'
  <2>1. CASE tx' = tx
    BY <2>1, Tables, BalancesAsTotals, BalancesAsTotalsNext DEF SumsInv
  <2>2. CASE tx' # tx
    <3>1. Stored(t) /\ tx[t] \in Row /\ tx[t].branch = BranchOf[j]
      <4>1. Stored(t)
        BY <1>1, <2>2 DEF Stored, TypeInv, TypeOK
      <4> QED  BY <1>1, <1>4, <4>1, StoredIsRow DEF SumsInv, RowsInv, TypeInv
    <3>2. ASSUME NEW c \in Branch \ unbalanced'
          PROVE  /\ \A k \in Bucket : balance'[c][k]
                      = balance[c][k] + (Flow(tx'[t], c, k) - Flow(tx[t], c, k))
                 /\ debt'[c] = debt[c] + (Owes(tx'[t], c) - Owes(tx[t], c))
      <4>1. c # BranchOf[j]
        BY <2>2
      <4>2. Owes(tx[t], c) = 0 /\ \A k : Flow(tx[t], c, k) = 0
        BY <3>1, <4>1, NoFlow
      <4>3. Owes(tx'[t], c) = 0 /\ \A k : Flow(tx'[t], c, k) = 0
        <5>1. x = NoRow \/ x.branch # c
          BY <3>1, <4>1
        <5>2. Owes(x, c) = 0 /\ \A k : Flow(x, c, k) = 0
          BY <5>1, NoFlow
        <5> QED  BY <1>2, <5>2
      <4>4. debt[c] \in Int /\ \A k \in Bucket : balance[c][k] \in Int
        BY Tables DEF Balances
      <4> QED  BY <4>2, <4>3, <4>4
    <3> QED  BY <1>1, <1>2, <1>3, <3>2, Tables, BalancesStep DEF SumsInv
  <2> QED  BY <2>1, <2>2
<1>7. TotalIsSumOfOperations'
  <2>1. ASSUME NEW k \in Journal \ disturbed'
        PROVE  journal'[k].total = journal[k].total
                 + (Value(tx'[t], OperationRows(k)) - Value(tx[t], OperationRows(k)))
    <3>1. journal[k].total \in Int
      BY Tables
    <3>2. CASE k = j
      <4>1. tx[t] = row /\ Stored(t) /\ row.amount >= 0
        BY <1>1, <1>3, <3>2, NoRowIsNoRow DEF Stored, SumsInv, RowsInv
      <4>2. Value(tx[t], OperationRows(k)) = row.amount
        BY <1>1, <3>2, <4>1, OperationValue
      <4>3. Value(tx'[t], OperationRows(k)) = v
        BY <1>1, <1>2, <3>2, <4>1, NoRowIsNoRow, OperationValue
      <4>4. journal'[k].total = journal[k].total + (v - row.amount)
        BY <1>4a, <3>2
      <4> QED  BY <1>1, <3>1, <4>2, <4>3, <4>4
    <3>3. CASE k # j
      <4>1. Value(tx[t], OperationRows(k)) = 0 /\ Value(tx'[t], OperationRows(k)) = 0
        <5>1. tx[t] \notin Row \/ tx[t].journal # k
          BY <1>1, <3>3, NoRowIsNoRow DEF Stored
        <5>2. tx'[t] \notin Row \/ tx'[t].journal # k
          BY <1>1, <1>2, <3>3, NoRowIsNoRow DEF Stored
        <5> QED  BY <5>1, <5>2, OperationValue
      <4>2. journal'[k].total = journal[k].total
        BY <1>1, <3>3 DEF TypeInv, TypeOK
      <4> QED  BY <3>1, <4>1, <4>2
    <3> QED  BY <3>2, <3>3
  <2> QED  BY <1>1, <1>2, <1>3, <2>1, Tables, TotalsStep DEF SumsInv
<1>8. ClosedByItsPair'
  <2>1. ASSUME NEW k \in Journal \ disturbed', k # j
        PROVE  /\ journal'[k] = journal[k]
               /\ \A w \in Id : tx[w].journal = k \/ tx'[w].journal = k => tx'[w] = tx[w]
    <3>1. journal'[k] = journal[k]
      BY <2>1 DEF TypeInv, TypeOK
    <3>2. tx[t].journal # k /\ tx'[t].journal # k
      BY <1>1, <1>2, <1>4, <2>1 DEF Stored
    <3> QED  BY <1>2, <3>1, <3>2
  <2>2. ASSUME j \notin disturbed'
        PROVE  journal'[j].state # "closed"
    <3>1. journal[j].state = "open"
      BY <1>3, <2>2, StillOpen
    <3> QED  BY <1>4a, <3>1
  <2>3. ASSUME NEW k \in Journal \ disturbed', Closed(k)'
        PROVE  k # j /\ k \notin disturbed
    BY <1>3, <2>2, <2>3 DEF Closed
  <2> QED  BY <2>1, <2>3, Tables, PairKept DEF SumsInv, ClosedByItsPair
<1> QED  BY <1>5, <1>6, <1>7, <1>8 DEF SumsInv

\* An operation is corrected.
LEMMA UpdateOperationSums ==
    ASSUME SumsInv, TypeInv, TypeInv', JournalLedgerAssumption,
           NEW r \in Request, Knows(r), UpdateOperation(r)
    PROVE  SumsInv'
<1> DEFINE t == req[r].call.id
           v == req[r].call.amount
           x == IF Stored(t) THEN [tx[t] EXCEPT !.amount = v] ELSE NoRow
<1>1. t \in Id /\ v \in Nat /\ req[r].stage = "admitted" /\ Edits(r)
  BY PendingFields DEF UpdateOperation, Admitted, Edits, Knows, Taken, TypeInv
<1>2. /\ x \in Row \cup {NoRow}
      /\ x # NoRow => /\ Stored(t) /\ x.amount = v
                      /\ x.journal = tx[t].journal /\ x.branch = tx[t].branch
      /\ x = NoRow => ~ Stored(t)
  <2>1. CASE Stored(t)
    <3>1. tx[t] \in Row
      BY <1>1, <2>1, StoredIsRow DEF TypeInv
    <3>2. /\ x \in Row /\ x.amount = v /\ x.journal = tx[t].journal
          /\ x.branch = tx[t].branch
      BY <1>1, <2>1, <3>1 DEF Row
    <3> QED  BY <2>1, <3>2, NoRowIsNoRow
  <2>2. CASE ~ Stored(t)
    BY <2>2
  <2> QED  BY <2>1, <2>2
<1>3. tx' = [tx EXCEPT ![t] = x]
  <2>1. CASE Stored(t)
    BY <2>1 DEF UpdateOperation
  <2>2. CASE ~ Stored(t)
    BY <2>2 DEF UpdateOperation, Stored, TypeInv, TypeOK
  <2> QED  BY <2>1, <2>2
<1> HIDE DEF x
<1> QED  BY <1>1, <1>2, <1>3, EditSums DEF UpdateOperation, money

\* An operation is deleted.
LEMMA DeleteOperationSums ==
    ASSUME SumsInv, TypeInv, TypeInv', JournalLedgerAssumption,
           NEW r \in Request, Knows(r), DeleteOperation(r)
    PROVE  SumsInv'
<1>1. req[r].stage = "admitted" /\ Edits(r)
  BY DEF DeleteOperation, Admitted, Edits
<1>2. journal' = [journal EXCEPT ![req[r].call.journal].total
                                   = @ + (0 - req[r].seen.row.amount)]
  <2>1. /\ req[r].call.journal \in Journal /\ req[r].seen.row.amount \in Int
        /\ journal[req[r].call.journal].total \in Int
    BY <1>1, PendingFields, Tables DEF TypeInv, Knows, Row
  <2>2. journal[req[r].call.journal].total - req[r].seen.row.amount
          = journal[req[r].call.journal].total + (0 - req[r].seen.row.amount)
    BY <2>1
  <2> QED  BY <2>2 DEF DeleteOperation
<1> QED  BY <1>1, <1>2, EditSums DEF DeleteOperation, money

\* A shift is closed.
LEMMA CloseSums ==
    ASSUME SumsInv, TypeInv, TypeInv', JournalLedgerAssumption,
           NEW r \in Request, Knows(r), Close(r)
    PROVE  SumsInv'
<1> DEFINE call == req[r].call
           seen == req[r].seen
           j == call.journal
           b == BranchOf[j]
           t == seen.id
           u == built + 1
           x == Sale(b, call.terminal, "terminal", j)
           y == Sale(b, call.amount, "cash", j)
           row == [state |-> "closed", cash |-> call.amount, terminal |-> call.terminal,
                   total |-> Uint32(seen.book.total + call.amount + call.terminal)]
<1>1. /\ j \in Journal /\ b \in Branch /\ call.amount \in Nat /\ call.terminal \in Nat
      /\ seen.book \in JournalRow /\ seen.book.total \in Int
      /\ NoJournal \notin Journal /\ NoRow.journal = NoJournal
  <2>1. /\ j \in Journal /\ call.amount \in Nat /\ call.terminal \in Nat
        /\ seen.book \in JournalRow
    BY PendingFields DEF Close, TypeInv
  <2> QED  BY <2>1 DEF JournalRow, JournalLedgerAssumption, NoRow
<1>2. /\ t \in Id /\ u \in Id /\ t < u /\ tx[t] = NoRow /\ tx[u] = NoRow
      /\ \A z \in seen.operations : z < t
  <2>1. t \in Id /\ tx[t] = NoRow /\ \A z \in seen.operations : z < t
    BY DEF Close, Knows, Stored
  <2>2. u \in Id /\ tx[u] = NoRow
    BY NextIdIsFree DEF Close
  <2>3. t <= built
    BY DEF Close, TypeInv, IdsAreCounted
  <2> QED  BY <2>1, <2>2, <2>3, Tables DEF Id
<1>3. /\ x \in Row /\ x.kind = "sale" /\ x.amount = call.terminal /\ x.branch = b
      /\ x.method = "terminal" /\ x.journal = j
      /\ y \in Row /\ y.kind = "sale" /\ y.amount = call.amount /\ y.branch = b
      /\ y.method = "cash" /\ y.journal = j
  BY <1>1 DEF Sale, Row, PaymentMethod
<1>4. /\ tx' = [tx EXCEPT ![t] = x, ![u] = y]
      /\ journal' = [journal EXCEPT ![j] = row]
      /\ balance' = Adjusted(Adjusted(balance, b, {"terminal"}, call.terminal),
                             b, {"cash"}, call.amount)
      /\ UNCHANGED <<debt, unbalanced>>
      /\ DisturbedIf(j, \/ journal[j] # seen.book
                        \/ Operations(j) # seen.operations
                        \/ row.total # seen.book.total + call.amount + call.terminal)
  BY DEF Close
<1>5. row.state = "closed" /\ row.cash = call.amount /\ row.terminal = call.terminal
  OBVIOUS
<1> HIDE DEF x, y, u, row
<1>6. tx'[t] = x /\ tx'[u] = y /\ \A w \in Id \ {t, u} : tx'[w] = tx[w]
  <2>1. tx \in [Id -> Row \cup {NoRow}] /\ t # u
    BY <1>2, Tables DEF RowTables, Id
  <2> QED  BY <1>2, <1>4, <2>1
<1>7. /\ disturbed \subseteq disturbed'
      /\ j \notin disturbed' =>
            /\ journal[j] = seen.book /\ Operations(j) = seen.operations
            /\ row.total = seen.book.total + call.amount + call.terminal
  BY <1>4 DEF DisturbedIf
<1>8. journal'[j] = row /\ \A k \in Journal \ {j} : journal'[k] = journal[k]
  BY <1>1, <1>4 DEF TypeInv, TypeOK
<1>9. RowsInv'
  <2> SUFFICES ASSUME NEW w \in Id, tx'[w] # NoRow
               PROVE  /\ tx'[w].journal # NoJournal => tx'[w].branch = BranchOf[tx'[w].journal]
                      /\ tx'[w].branch \notin unbalanced' => tx'[w].amount >= 0
                      /\ tx'[w].journal \in Journal \ disturbed' => tx'[w].amount >= 0
    BY DEF RowsInv, Stored
  <2>1. CASE w = t \/ w = u
    BY <1>1, <1>3, <1>6, <2>1
  <2>2. CASE w # t /\ w # u
    <3>1. tx'[w] = tx[w] /\ Stored(w)
      BY <1>6, <2>2 DEF Stored
    <3>2. RowsInv /\ unbalanced' = unbalanced /\ disturbed \subseteq disturbed'
      BY <1>4, <1>7 DEF SumsInv
    <3> QED  BY <3>1, <3>2 DEF RowsInv
  <2> QED  BY <2>1, <2>2
<1>10. BalancesMatchTransactions'
  <2>1. ASSUME NEW c \in Branch \ unbalanced'
        PROVE  /\ \A k \in Bucket : balance'[c][k]
                    = balance[c][k] + (Flow(tx'[t], c, k) - Flow(tx[t], c, k))
                                    + (Flow(tx'[u], c, k) - Flow(tx[u], c, k))
               /\ debt'[c] = debt[c] + (Owes(tx'[t], c) - Owes(tx[t], c))
                                     + (Owes(tx'[u], c) - Owes(tx[u], c))
    <3>1. /\ Owes(tx[t], c) = 0 /\ \A k : Flow(tx[t], c, k) = 0
          /\ Owes(tx[u], c) = 0 /\ \A k : Flow(tx[u], c, k) = 0
      BY <1>2, NoFlow
    <3>2. debt'[c] = debt[c] /\ debt[c] \in Int /\ \A k \in Bucket : balance[c][k] \in Int
      BY <1>4, Tables DEF Balances
    <3>3. IncomeBucket("terminal") = {"terminal"} /\ IncomeBucket("cash") = {"cash"}
      BY DEF IncomeBucket
    <3>4. /\ Owes(tx'[t], c) = 0
          /\ \A k : Flow(tx'[t], c, k) = IF b = c /\ k \in {"terminal"} THEN call.terminal ELSE 0
      BY <1>1, <1>3, <1>6, <3>3, SaleFlow
    <3>5. /\ Owes(tx'[u], c) = 0
          /\ \A k : Flow(tx'[u], c, k) = IF b = c /\ k \in {"cash"} THEN call.amount ELSE 0
      BY <1>1, <1>3, <1>6, <3>3, SaleFlow
    <3>6. ASSUME NEW k \in Bucket
          PROVE  balance'[c][k] = balance[c][k]
                    + (IF c = b /\ k \in {"terminal"} THEN call.terminal ELSE 0)
                    + (IF c = b /\ k \in {"cash"} THEN call.amount ELSE 0)
      <4> DEFINE bal == Adjusted(balance, b, {"terminal"}, call.terminal)
      <4>1. bal \in Balances
        BY <1>1, Tables, AdjustedType
      <4>2. bal[c][k] = balance[c][k] + IF c = b /\ k \in {"terminal"} THEN call.terminal ELSE 0
        BY <1>1, Tables, AdjustedAt
      <4>3. balance' = Adjusted(bal, b, {"cash"}, call.amount)
        BY <1>4
      <4> HIDE DEF bal
      <4>4. balance'[c][k] = bal[c][k] + IF c = b /\ k \in {"cash"} THEN call.amount ELSE 0
        BY <1>1, <4>1, <4>3, AdjustedAt
      <4> QED  BY <4>2, <4>4
    <3> QED  BY <1>1, <3>1, <3>2, <3>4, <3>5, <3>6
  <2>2. t # u
    BY <1>2 DEF Id
  <2> QED  BY <1>2, <1>4, <1>6, <2>1, <2>2, Tables, BalancesStepTwo DEF SumsInv
<1>11. TotalIsSumOfOperations'
  <2>1. ASSUME NEW k \in Journal \ disturbed'
        PROVE  journal'[k].total = journal[k].total
                 + (Value(tx'[t], OperationRows(k)) - Value(tx[t], OperationRows(k)))
                 + (Value(tx'[u], OperationRows(k)) - Value(tx[u], OperationRows(k)))
    <3>1. Value(tx[t], OperationRows(k)) = 0 /\ Value(tx[u], OperationRows(k)) = 0
      BY <1>2, NoRowIsNoRow, OperationValue
    <3>2. /\ Value(tx'[t], OperationRows(k)) = IF k = j THEN call.terminal ELSE 0
          /\ Value(tx'[u], OperationRows(k)) = IF k = j THEN call.amount ELSE 0
      BY <1>1, <1>3, <1>6, OperationValue
    <3>3. journal[k].total \in Int
      BY Tables
    <3>4. journal'[k].total = journal[k].total
             + IF k = j THEN call.amount + call.terminal ELSE 0
      BY <1>1, <1>5, <1>7, <1>8, <3>3
    <3> QED  BY <1>1, <3>1, <3>2, <3>3, <3>4
  <2>2. t # u
    BY <1>2 DEF Id
  <2> QED  BY <1>2, <1>6, <1>7, <2>1, <2>2, Tables, TotalsStepTwo DEF SumsInv
<1>12. ClosedByItsPair'
  <2>1. ASSUME NEW k \in Journal \ disturbed', k # j
        PROVE  /\ journal'[k] = journal[k]
               /\ \A w \in Id : tx[w].journal = k \/ tx'[w].journal = k => tx'[w] = tx[w]
    <3>1. journal'[k] = journal[k]
      BY <1>8, <2>1
    <3>2. /\ tx[t].journal # k /\ tx'[t].journal # k
          /\ tx[u].journal # k /\ tx'[u].journal # k
      BY <1>1, <1>2, <1>3, <1>6, <2>1
    <3> QED  BY <1>6, <3>1, <3>2
  <2>2. ASSUME NEW k \in Journal, k = j, k \notin disturbed'
        PROVE  /\ LastTwo(Operations(k))' = {t, u}
               /\ tx'[t] = Sale(BranchOf[k], journal'[k].terminal, "terminal", k)
               /\ tx'[u] = Sale(BranchOf[k], journal'[k].cash, "cash", k)
    <3>1. Operations(k)' = Operations(k) \cup {t, u}
      BY <1>1, <1>2, <1>3, <1>6, <2>2 DEF Operations
    <3>2. \A z \in Operations(k) : z < t
      BY <1>2, <1>7, <2>2
    <3>3. Operations(k) \in SUBSET Id /\ MaxId \in Nat
      BY Tables DEF Operations
    <3>4. LastTwo(Operations(k) \cup {t, u}) = {t, u}
      <4>1. t \in Id /\ u \in Id /\ t < u
        BY <1>2
      <4> HIDE DEF t
      <4> QED  BY <3>2, <3>3, <4>1, LastTwoOfNew
    <3>5. LastTwo(Operations(k))' = {t, u}
      BY <3>1, <3>4 DEF LastTwo
    <3> QED  BY <1>5, <1>6, <1>8, <2>2, <3>5 DEF x, y
  <2>3. ASSUME NEW k \in Journal \ disturbed', Closed(k)'
        PROVE  \E z, w \in Id :
                 /\ LastTwo(Operations(k))' = {z, w} /\ z < w
                 /\ tx'[z] = Sale(BranchOf[k], journal'[k].terminal, "terminal", k)
                 /\ tx'[w] = Sale(BranchOf[k], journal'[k].cash, "cash", k)
    <3>1. CASE k = j
      BY <1>2, <2>2, <3>1
    <3>2. CASE k # j
      BY <1>7, <2>1, <2>3, <3>2, Tables, PairKept DEF SumsInv
    <3> QED  BY <3>1, <3>2
  <2> QED  BY <2>3 DEF ClosedByItsPair
<1> QED  BY <1>9, <1>10, <1>11, <1>12 DEF SumsInv

\* A shift is reopened.
LEMMA ReOpenSums ==
    ASSUME SumsInv, TypeInv, TypeInv', JournalLedgerAssumption,
           NEW r \in Request, Knows(r), ReOpen(r)
    PROVE  SumsInv'
<1> DEFINE j == req[r].call.journal
           book == req[r].seen.book
           pair == req[r].seen.operations
           row == [state |-> "open", cash |-> 0, terminal |-> 0,
                   total |-> Uint32(book.total - (book.cash + book.terminal))]
<1>1. /\ j \in Journal /\ book.total \in Int /\ book.cash \in Nat /\ book.terminal \in Nat
      /\ NoJournal \notin Journal /\ NoRow.journal = NoJournal /\ pair \in SUBSET Id
  <2>1. j \in Journal /\ book \in JournalRow /\ pair \in SUBSET Id
    BY PendingFields DEF ReOpen, TypeInv
  <2> QED  BY <2>1 DEF JournalRow, JournalLedgerAssumption, NoRow
<1>2. PICK t \in pair, u \in pair :
         t # u /\ balance' = TakenBack(TakenBack(balance, t), u)
  BY DEF ReOpen
<1>3. pair = {t, u}
  <2>1. PICK v \in Id, w \in Id : v # w /\ pair = {v, w}
    BY DEF ReOpen, Knows
  <2> QED  BY <1>2, <2>1
<1>4. /\ t \in Id /\ u \in Id
      /\ tx[t] \in Row /\ tx[t].amount >= 0 /\ tx[t].journal = j
      /\ tx[u] \in Row /\ tx[u].amount >= 0 /\ tx[u].journal = j
      /\ Stored(t) /\ Stored(u)
  <2>1. t \in Id /\ u \in Id
    BY <1>1, <1>2
  <2>2. Stored(t) /\ Stored(u) /\ tx[t].amount >= 0 /\ tx[u].amount >= 0
    BY <1>2 DEF ReOpen
  <2>3. tx[t].journal = j /\ tx[u].journal = j
    BY <1>2, <2>2 DEF ReOpen, Knows, HoldsIn, Stored
  <2> QED  BY <2>1, <2>2, <2>3, StoredIsRow DEF TypeInv
<1>5. /\ tx'[t] = NoRow /\ tx'[u] = NoRow /\ \A w \in Id \ {t, u} : tx'[w] = tx[w]
  BY <1>3, <1>4 DEF ReOpen
<1>6. /\ journal' = [journal EXCEPT ![j] = row]
      /\ UNCHANGED debt
      /\ unbalanced' = unbalanced \cup Unpaid(pair)
      /\ DisturbedIf(j, \/ book.state # "closed" \/ journal[j] # book
                        \/ LastTwo(Operations(j)) # pair
                        \/ row.total # book.total - (book.cash + book.terminal))
  BY DEF ReOpen
<1>7. row.state = "open"
  OBVIOUS
<1> HIDE DEF row
<1>8. journal'[j] = row /\ \A k \in Journal \ {j} : journal'[k] = journal[k]
  BY <1>1, <1>6 DEF TypeInv, TypeOK
<1>9. /\ disturbed \subseteq disturbed'
      /\ j \notin disturbed' => /\ j \notin disturbed /\ book.state = "closed"
                                /\ journal[j] = book /\ LastTwo(Operations(j)) = pair
                                /\ row.total = book.total - (book.cash + book.terminal)
  BY <1>6 DEF DisturbedIf
<1>10. RowsInv'
  <2> SUFFICES ASSUME NEW w \in Id, tx'[w] # NoRow
               PROVE  /\ tx'[w].journal # NoJournal => tx'[w].branch = BranchOf[tx'[w].journal]
                      /\ tx'[w].branch \notin unbalanced' => tx'[w].amount >= 0
                      /\ tx'[w].journal \in Journal \ disturbed' => tx'[w].amount >= 0
    BY DEF RowsInv, Stored
  <2>1. tx'[w] = tx[w] /\ Stored(w)
    BY <1>5 DEF Stored
  <2> QED  BY <1>6, <1>9, <2>1 DEF SumsInv, RowsInv
<1>11. BalancesMatchTransactions'
  <2>1. ASSUME NEW c \in Branch \ unbalanced'
        PROVE  /\ \A k \in Bucket : balance'[c][k]
                    = balance[c][k] + (Flow(tx'[t], c, k) - Flow(tx[t], c, k))
                                    + (Flow(tx'[u], c, k) - Flow(tx[u], c, k))
               /\ debt'[c] = debt[c] + (Owes(tx'[t], c) - Owes(tx[t], c))
                                     + (Owes(tx'[u], c) - Owes(tx[u], c))
    <3>1. /\ tx[t].kind = "supplier" => c # tx[t].branch
          /\ tx[u].kind = "supplier" => c # tx[u].branch
      BY <1>3, <1>6 DEF Unpaid
    <3>2. /\ Owes(tx'[t], c) = 0 /\ \A k : Flow(tx'[t], c, k) = 0
          /\ Owes(tx'[u], c) = 0 /\ \A k : Flow(tx'[u], c, k) = 0
      BY <1>5, NoFlow
    <3>3. TakenBack(balance, t) \in Balances
      BY <1>4, Tables, TakenBackType DEF TypeInv
    <3>4. /\ \A k \in Bucket : TakenBack(balance, t)[c][k] = balance[c][k] - Flow(tx[t], c, k)
          /\ Owes(tx[t], c) = 0
      BY <1>4, <3>1, Tables, TakenBackFlow DEF TypeInv
    <3>5. /\ \A k \in Bucket : TakenBack(TakenBack(balance, t), u)[c][k]
                = TakenBack(balance, t)[c][k] - Flow(tx[u], c, k)
          /\ Owes(tx[u], c) = 0
      BY <1>4, <3>1, <3>3, TakenBackFlow DEF TypeInv
    <3>6. /\ \A k \in Bucket : balance[c][k] \in Int
          /\ debt'[c] = debt[c] /\ debt[c] \in Int
      BY <1>6, Tables DEF Balances
    <3>7. \A k : Flow(tx[t], c, k) \in Int /\ Flow(tx[u], c, k) \in Int
      BY <1>4, FlowType
    <3> QED  BY <1>2, <3>2, <3>4, <3>5, <3>6, <3>7
  <2> QED  BY <1>2, <1>4, <1>5, <1>6, <2>1, Tables, BalancesStepTwo DEF SumsInv
<1>12. TotalIsSumOfOperations'
  <2>1. ASSUME NEW k \in Journal \ disturbed'
        PROVE  journal'[k].total = journal[k].total
                 + (Value(tx'[t], OperationRows(k)) - Value(tx[t], OperationRows(k)))
                 + (Value(tx'[u], OperationRows(k)) - Value(tx[u], OperationRows(k)))
    <3>1. Value(tx'[t], OperationRows(k)) = 0 /\ Value(tx'[u], OperationRows(k)) = 0
      BY <1>5, NoRowIsNoRow, OperationValue
    <3>2. journal[k].total \in Int
      BY Tables
    <3>3. CASE k # j
      BY <1>4, <1>8, <3>1, <3>2, <3>3, OperationValue
    <3>4. CASE k = j
      <4>1. PICK v \in Id, w \in Id :
               /\ pair = {v, w} /\ v < w
               /\ tx[v] = Sale(BranchOf[j], book.terminal, "terminal", j)
               /\ tx[w] = Sale(BranchOf[j], book.cash, "cash", j)
        <5>1. Closed(j)
          BY <1>9, <3>4 DEF Closed
        <5> QED  BY <1>1, <1>9, <3>4, <5>1 DEF SumsInv, ClosedByItsPair
      <4>2. tx[v].amount = book.terminal /\ tx[w].amount = book.cash
        BY <4>1 DEF Sale
      <4>3. \/ tx[t].amount = book.terminal /\ tx[u].amount = book.cash
            \/ tx[u].amount = book.terminal /\ tx[t].amount = book.cash
        BY <1>2, <1>3, <4>1, <4>2 DEF Id
      <4>4. /\ Value(tx[t], OperationRows(k)) = tx[t].amount
            /\ Value(tx[u], OperationRows(k)) = tx[u].amount
        BY <1>4, <3>4, OperationValue
      <4>5. journal'[k].total = journal[k].total - (book.cash + book.terminal)
        BY <1>7, <1>8, <1>9, <3>4
      <4> QED  BY <1>1, <3>1, <3>2, <4>3, <4>4, <4>5
    <3> QED  BY <3>3, <3>4
  <2> QED  BY <1>2, <1>4, <1>5, <1>9, <2>1, Tables, TotalsStepTwo DEF SumsInv
<1>13. ClosedByItsPair'
  <2>1. ASSUME NEW k \in Journal \ disturbed', Closed(k)'
        PROVE  /\ k # j /\ journal'[k] = journal[k] /\ k \notin disturbed
               /\ \A w \in Id : tx[w].journal = k \/ tx'[w].journal = k => tx'[w] = tx[w]
    <3>1. k # j
      BY <1>7, <1>8, <2>1 DEF Closed
    <3>2. /\ tx[t].journal # k /\ tx'[t].journal # k
          /\ tx[u].journal # k /\ tx'[u].journal # k
      BY <1>1, <1>4, <1>5, <3>1
    <3> QED  BY <1>5, <1>8, <1>9, <3>1, <3>2
  <2> QED  BY <2>1, Tables, PairKept DEF SumsInv, ClosedByItsPair
<1> QED  BY <1>10, <1>11, <1>12, <1>13 DEF SumsInv

-----------------------------------------------------------------------------
(* What requests know stays true.                                          *)

\* An id that is in use was given out, and nobody holds it.
LEMMA StoredIsTaken ==
    ASSUME TypeInv, RequestsInv, NEW t \in Id, Stored(t)
    PROVE  Taken(t, built, req)
BY DEF TypeInv, TypeOK, RequestsInv, Knows, Taken, Stored

\* The ids that requests hold were counted.
LEMMA HeldIds ==
    ASSUME TypeInv, NEW q \in Request, req[q].stage = "built"
    PROVE  req[q].seen.id \in 0..MaxId /\ req[q].seen.id <= built
BY PendingFields DEF TypeInv, IdsAreCounted

\* A step in which at most request r moves, to hold a new id if any, and rows
\* appear only under ids that no other request holds and that were not taken.
LEMMA OthersKnow ==
    ASSUME JournalLedgerAssumption, TypeInv, TypeInv', RequestsInv, NEW r,
           \A q \in Request \ {r} : req'[q] = req[q],
           built' >= built,
           \A t \in Id : tx'[t] # NoRow =>
              \/ tx[t] # NoRow /\ tx'[t].journal = tx[t].journal
              \/ /\ ~ Taken(t, built, req)
                 /\ \A q \in Request \ {r} : req[q].stage = "built" => req[q].seen.id # t,
           r \in Request /\ req'[r].stage = "built" =>
              req'[r].seen.id > built \/ req'[r] = req[r]
    PROVE  /\ \A t : Taken(t, built, req) => Taken(t, built', req')
           /\ \A t, j : Taken(t, built, req) /\ HoldsIn(tx, t, j) => HoldsIn(tx', t, j)
           /\ \A q \in Request \ {r} : Knows(q)'
           /\ IdsAreUnique'
<1>1. ASSUME NEW t, Taken(t, built, req)
      PROVE  Taken(t, built', req')
  <2>1. t \in Id /\ t <= built /\ built \in 0..MaxId /\ built' \in 0..MaxId
    BY <1>1 DEF Taken, TypeInv, TypeOK
  <2>2. t <= built'
    BY <2>1 DEF Id
  <2>3. ASSUME NEW q \in Request, req'[q].stage = "built"
        PROVE  req'[q].seen.id # t
    <3>1. CASE req'[q] = req[q]
      BY <1>1, <2>3, <3>1 DEF Taken
    <3>2. CASE req'[q] # req[q]
      BY <2>1, <2>3, <3>2 DEF Id
    <3> QED  BY <3>1, <3>2
  <2> QED  BY <2>1, <2>2, <2>3 DEF Taken
<1>2. ASSUME NEW t, NEW j, Taken(t, built, req), HoldsIn(tx, t, j)
      PROVE  HoldsIn(tx', t, j)
  BY <1>2 DEF Taken, HoldsIn
<1>3. ASSUME NEW q \in Request \ {r}
      PROVE  Knows(q)'
  <2>1. Knows(q) /\ req'[q] = req[q]
    BY DEF RequestsInv
  <2>2. req[q].stage = "built" => tx'[req[q].seen.id] = NoRow
    <3> SUFFICES ASSUME req[q].stage = "built", tx'[req[q].seen.id] # NoRow
                 PROVE  FALSE
      OBVIOUS
    <3>1. req[q].seen.id \in Id /\ tx[req[q].seen.id] = NoRow
      BY <2>1 DEF Knows
    <3> QED  BY <3>1
  <2>3. req[q].stage = "built" =>
          /\ req[q].call.op \in {"add", "close"}
          /\ req[q].seen.id \in Id /\ tx'[req[q].seen.id] = NoRow
          /\ req[q].call.op = "close" =>
                \A t \in req[q].seen.operations : t < req[q].seen.id
    BY <2>1, <2>2 DEF Knows
  <2>4. req[q].stage = "admitted" /\ Edits(q) =>
          /\ Taken(req[q].call.id, built, req)
          /\ HoldsIn(tx, req[q].call.id, req[q].call.journal)
          /\ req[q].seen.row \in Row
          /\ req[q].seen.row.journal = req[q].call.journal
    BY <2>1 DEF Knows
  <2> QED  BY <1>1, <1>2, <2>1, <2>3, <2>4 DEF Knows, Edits
<1>4. IdsAreUnique'
  <2> SUFFICES ASSUME NEW p \in Request, NEW q \in Request, p # q,
                      req'[p].stage = "built", req'[q].stage = "built"
               PROVE  req'[p].seen.id # req'[q].seen.id
    BY DEF IdsAreUnique
  <2>1. CASE req'[p] = req[p] /\ req'[q] = req[q]
    BY <2>1 DEF RequestsInv, IdsAreUnique
  <2>2. CASE req'[p] # req[p]
    <3>1. p = r /\ req'[p].seen.id > built /\ req'[q] = req[q]
      BY <2>2
    <3>2. req[q].seen.id \in 0..MaxId /\ req[q].seen.id <= built
      BY <3>1, HeldIds
    <3> QED  BY <3>1, <3>2 DEF TypeInv, TypeOK
  <2>3. CASE req'[q] # req[q]
    <3>1. q = r /\ req'[q].seen.id > built /\ req'[p] = req[p]
      BY <2>3
    <3>2. req[p].seen.id \in 0..MaxId /\ req[p].seen.id <= built
      BY <3>1, HeldIds
    <3> QED  BY <3>1, <3>2 DEF TypeInv, TypeOK
  <2> QED  BY <2>1, <2>2, <2>3
<1> QED  BY <1>1, <1>2, <1>3, <1>4

\* A request that is answered has nothing more to know.
LEMMA AnsweredKnows ==
    ASSUME NEW r \in Request, TypeInv, Reply(r)
    PROVE  /\ Knows(r)' /\ req'[r] = Idle /\ req'[r].stage # "built"
           /\ \A q \in Request \ {r} : req'[q] = req[q]
BY DEF Knows, Reply, Idle, TypeInv, TypeOK

\* A step that answers r, and stores nothing new.
LEMMA AnswerRequests ==
    ASSUME JournalLedgerAssumption, TypeInv, TypeInv', RequestsInv, NEW r \in Request,
           Reply(r), UNCHANGED built,
           \A t \in Id : tx'[t] # NoRow => tx[t] # NoRow /\ tx'[t].journal = tx[t].journal
    PROVE  RequestsInv'
<1>1. built' >= built
  BY DEF TypeInv, TypeOK
<1>2. (\A q \in Request \ {r} : Knows(q)') /\ IdsAreUnique'
  BY <1>1, AnsweredKnows, OthersKnow
<1> QED  BY <1>2, AnsweredKnows DEF RequestsInv

\* A step behind the requests' back, which may use the next id.
LEMMA RequestsBehind ==
    ASSUME JournalLedgerAssumption, TypeInv, TypeInv', RequestsInv,
           UNCHANGED req, built' >= built,
           \A t \in Id : tx'[t] # NoRow =>
              \/ tx[t] # NoRow /\ tx'[t].journal = tx[t].journal
              \/ t = built + 1
    PROVE  RequestsInv'
<1>1. ~ Taken(built + 1, built, req)
  BY DEF Taken, TypeInv, TypeOK
<1>2. \A q \in Request : req[q].stage = "built" => req[q].seen.id # built + 1
  BY HeldIds DEF TypeInv, TypeOK
<1>3. ASSUME NEW q \in Request
      PROVE  Knows(q)' /\ IdsAreUnique'
  <2> PICK r : r \notin Request
    BY NoSetContainsEverything
  <2>1. (\A p \in Request \ {r} : Knows(p)') /\ IdsAreUnique'
    BY <1>1, <1>2, OthersKnow
  <2> QED  BY <2>1
<1>4. IdsAreUnique'
  BY DEF RequestsInv, IdsAreUnique
<1> QED  BY <1>3, <1>4 DEF RequestsInv

\* A request that fails knows nothing any more.
LEMMA FailRequests ==
    ASSUME JournalLedgerAssumption, TypeInv, TypeInv', RequestsInv, NEW r \in Request, Fail(r)
    PROVE  RequestsInv'
BY AnswerRequests DEF Fail

\* The id of an operation that was added is nobody's any more.
LEMMA AddOperationRequests ==
    ASSUME JournalLedgerAssumption, TypeInv, TypeInv', RequestsInv,
           NEW r \in Request, AddOperation(r)
    PROVE  RequestsInv'
<1> DEFINE u == req[r].seen.id
<1>1. req[r].stage = "built" /\ Reply(r) /\ built' >= built
  BY DEF AddOperation, TypeInv, TypeOK
<1>2. \A t \in Id \ {u} : tx'[t] = tx[t]
  BY DEF AddOperation, TypeInv, TypeOK
<1>3. ~ Taken(u, built, req)
  BY <1>1 DEF Taken
<1>4. \A q \in Request \ {r} : req[q].stage = "built" => req[q].seen.id # u
  BY <1>1 DEF RequestsInv, IdsAreUnique
<1>5. (\A q \in Request \ {r} : Knows(q)') /\ IdsAreUnique'
  BY <1>1, <1>2, <1>3, <1>4, AnsweredKnows, OthersKnow
<1> QED  BY <1>1, <1>5, AnsweredKnows DEF RequestsInv

\* A row that is updated stays in its journal.
LEMMA UpdateOperationRequests ==
    ASSUME JournalLedgerAssumption, TypeInv, TypeInv', RequestsInv,
           NEW r \in Request, UpdateOperation(r)
    PROVE  RequestsInv'
<1>1. ASSUME NEW t \in Id, tx'[t] # NoRow
      PROVE  tx[t] # NoRow /\ tx'[t].journal = tx[t].journal
  <2>1. tx[t] # NoRow
    BY <1>1 DEF UpdateOperation, Stored, TypeInv, TypeOK
  <2>2. tx[t] \in Row
    BY <2>1 DEF TypeInv, TypeOK
  <2>3. tx'[t] = tx[t] \/ tx'[t] = [tx[t] EXCEPT !.amount = req[r].call.amount]
    BY DEF UpdateOperation, TypeInv, TypeOK
  <2> QED  BY <2>1, <2>2, <2>3 DEF Row
<1> QED  BY <1>1, AnswerRequests DEF UpdateOperation

\* A row that is deleted is found in no journal.
LEMMA DeleteOperationRequests ==
    ASSUME JournalLedgerAssumption, TypeInv, TypeInv', RequestsInv,
           NEW r \in Request, DeleteOperation(r)
    PROVE  RequestsInv'
<1>1. \A t \in Id : tx'[t] = tx[t] \/ tx'[t] = NoRow
  BY DEF DeleteOperation, TypeInv, TypeOK
<1> QED  BY <1>1, AnswerRequests DEF DeleteOperation

\* A close uses up the id it had built and the next one.
LEMMA CloseRequests ==
    ASSUME JournalLedgerAssumption, TypeInv, TypeInv', RequestsInv,
           NEW r \in Request, Close(r)
    PROVE  RequestsInv'
<1> DEFINE t == req[r].seen.id
           u == built + 1
<1>1. req[r].stage = "built" /\ Reply(r) /\ built' >= built
  <2>1. req[r].stage = "built" /\ Reply(r) /\ built' = built + 1
    BY DEF Close
  <2> QED  BY <2>1, Tables
<1>2. \A v \in Id \ {t, u} : tx'[v] = tx[v]
  BY DEF Close, TypeInv, TypeOK
<1>3. ~ Taken(t, built, req) /\ ~ Taken(u, built, req)
  BY <1>1 DEF Taken, TypeInv, TypeOK
<1>4. \A q \in Request \ {r} : req[q].stage = "built" => req[q].seen.id # t
  BY <1>1 DEF RequestsInv, IdsAreUnique
<1>5. \A q \in Request \ {r} : req[q].stage = "built" => req[q].seen.id # u
  BY HeldIds DEF TypeInv, TypeOK
<1> HIDE DEF t, u
<1>6. (\A q \in Request \ {r} : Knows(q)') /\ IdsAreUnique'
  BY <1>1, <1>2, <1>3, <1>4, <1>5, AnsweredKnows, OthersKnow
<1> QED  BY <1>1, <1>6, AnsweredKnows DEF RequestsInv

\* A reopening only deletes.
LEMMA ReOpenRequests ==
    ASSUME JournalLedgerAssumption, TypeInv, TypeInv', RequestsInv, NEW r \in Request, ReOpen(r)
    PROVE  RequestsInv'
<1>1. \A t \in Id : tx'[t] = tx[t] \/ tx'[t] = NoRow
  BY DEF ReOpen
<1> QED  BY <1>1, AnswerRequests DEF ReOpen

\* A new shift touches no request and no row.
LEMMA CreateRequests ==
    ASSUME JournalLedgerAssumption, TypeInv, TypeInv', RequestsInv, NEW j \in Journal, Create(j)
    PROVE  RequestsInv'
<1>1. built' >= built /\ UNCHANGED <<req, tx>>
  BY DEF Create, TypeInv, TypeOK
<1> QED  BY <1>1, RequestsBehind

\* A sale of no shift takes an id of its own.
LEMMA RecordSaleRequests ==
    ASSUME JournalLedgerAssumption, TypeInv, TypeInv', RequestsInv,
           NEW b, NEW a, NEW m, RecordSale(b, a, m)
    PROVE  RequestsInv'
<1>1. built' >= built /\ UNCHANGED req /\ \A t \in Id \ {built + 1} : tx'[t] = tx[t]
  BY DEF RecordSale, TypeInv, TypeOK
<1> QED  BY <1>1, RequestsBehind

\* So does a payment to a supplier.
LEMMA RecordPaymentRequests ==
    ASSUME JournalLedgerAssumption, TypeInv, TypeInv', RequestsInv,
           NEW b, NEW s, NEW a, NEW m, NEW debit, RecordPayment(b, s, a, m, debit)
    PROVE  RequestsInv'
<1>1. built' >= built /\ UNCHANGED req /\ \A t \in Id \ {built + 1} : tx'[t] = tx[t]
  BY DEF RecordPayment, TypeInv, TypeOK
<1> QED  BY <1>1, RequestsBehind

\* A deletion by another endpoint: the row is found in no journal.
LEMMA DeleteTransactionRequests ==
    ASSUME JournalLedgerAssumption, TypeInv, TypeInv', RequestsInv,
           NEW t \in Id, DeleteTransaction(t)
    PROVE  RequestsInv'
<1>1. /\ built' >= built /\ UNCHANGED req
      /\ \A u \in Id : tx'[u] = tx[u] \/ tx'[u] = NoRow
  BY DEF DeleteTransaction, TypeInv, TypeOK
<1> QED  BY <1>1, RequestsBehind

\* A correction by another endpoint leaves the row in its journal.
LEMMA UpdateTransactionRequests ==
    ASSUME JournalLedgerAssumption, TypeInv, TypeInv', RequestsInv,
           NEW t \in Id, NEW a, NEW kind, UpdateTransaction(t, a, kind)
    PROVE  RequestsInv'
<1>1. built' >= built /\ UNCHANGED req
  BY DEF UpdateTransaction, TypeInv, TypeOK
<1>2. ASSUME NEW u \in Id, tx'[u] # NoRow
      PROVE  tx[u] # NoRow /\ tx'[u].journal = tx[u].journal
  <2>1. tx[u] # NoRow
    BY <1>2 DEF UpdateTransaction, Stored, TypeInv, TypeOK
  <2>2. tx[u] \in Row
    BY <2>1 DEF TypeInv, TypeOK
  <2>3. tx'[u] = tx[u] \/ tx'[u] = [tx[u] EXCEPT !.amount = a, !.kind = kind]
    BY DEF UpdateTransaction, TypeInv, TypeOK
  <2> QED  BY <2>1, <2>2, <2>3 DEF Row
<1> QED  BY <1>1, <1>2, RequestsBehind

\* A call is let through on an open shift, and names an operation of it.
LEMMA AdmitRequests ==
    ASSUME JournalLedgerAssumption, TypeInv, TypeInv', RequestsInv,
           NEW r \in Request, NEW j \in Journal, NEW call \in GuardedCall(j), Admit(r, call)
    PROVE  RequestsInv'
<1> DEFINE row == IF call.op \in {"update", "delete"} THEN tx[call.id] ELSE NoRow
           book == [NoJournalRow EXCEPT !.state = journal[call.journal].state]
           p == [stage |-> "admitted", call |-> call,
                 seen |-> [book |-> book, operations |-> {}, row |-> row, id |-> 0]]
<1>1. req' = [req EXCEPT ![r] = p] /\ UNCHANGED <<tx, built>> /\ built' >= built
  BY DEF Admit, TypeInv, TypeOK
<1>2. call.journal \in Journal
  BY GuardedIsCall DEF Call
<1>3. book.state = "open"
  <2>1. journal[call.journal].state \in {"absent", "open", "closed"}
    BY <1>2 DEF TypeInv, TypeOK, JournalRow
  <2> QED  BY <2>1 DEF Admit, ShiftIsOpen, Readable, Exists, Closed, NoJournalRow
<1>4. call.op \in {"update", "delete"} =>
        /\ Taken(call.id, built, req) /\ HoldsIn(tx, call.id, call.journal)
        /\ row \in Row /\ row.journal = call.journal
  <2> SUFFICES ASSUME call.op \in {"update", "delete"}
               PROVE  /\ Taken(call.id, built, req) /\ HoldsIn(tx, call.id, call.journal)
                      /\ row \in Row /\ row.journal = call.journal
    OBVIOUS
  <2>1. call.id \in Id /\ tx[call.id].journal = call.journal /\ row = tx[call.id]
    BY DEF Admit, Operations
  <2>2. Stored(call.id) /\ tx[call.id] \in Row
    BY <1>2, <2>1, RowsInTable DEF Stored, TypeInv, TypeOK, RowTables, JournalLedgerAssumption, NoRow
  <2> QED  BY <2>1, <2>2, StoredIsTaken DEF HoldsIn
<1> HIDE DEF row, book
<1>5. /\ p.stage = "admitted" /\ p.call = call /\ p.seen.row = row
      /\ p.seen.book.state = "open"
  BY <1>3
<1> HIDE DEF p
<1>6. req'[r] = p /\ \A q \in Request \ {r} : req'[q] = req[q]
  BY <1>1 DEF TypeInv, TypeOK
<1>7. /\ \A t : Taken(t, built, req) => Taken(t, built', req')
      /\ (\A q \in Request \ {r} : Knows(q)') /\ IdsAreUnique'
  BY <1>1, <1>5, <1>6, OthersKnow
<1>8. Knows(r)'
  <2>1. p.call.op \in {"update", "delete"} =>
          /\ Taken(p.call.id, built', req') /\ HoldsIn(tx', p.call.id, p.call.journal)
          /\ p.seen.row \in Row /\ p.seen.row.journal = p.call.journal
    BY <1>1, <1>4, <1>5, <1>7
  <2> QED  BY <1>5, <1>6, <2>1 DEF Knows, Edits
<1> QED  BY <1>7, <1>8 DEF RequestsInv

\* An id is given out: nobody else has it, and nothing is stored under it.
LEMMA BuildRequests ==
    ASSUME JournalLedgerAssumption, TypeInv, TypeInv', RequestsInv, NEW r \in Request, Build(r)
    PROVE  RequestsInv'
<1> DEFINE p == [req[r] EXCEPT !.stage = "built", !.seen.id = built + 1]
<1>1. /\ req[r].stage = "admitted" /\ req[r].call.op = "add"
      /\ req' = [req EXCEPT ![r] = p] /\ UNCHANGED tx /\ built < MaxId
      /\ built' >= built
  BY DEF Build, Admitted, TypeInv, TypeOK
<1>2. /\ p.stage = "built" /\ p.call = req[r].call /\ p.seen.id = built + 1
      /\ p.seen.book = req[r].seen.book
  <2>1. req[r] \in Pending /\ req[r].seen \in Seen
    BY <1>1, PendingFields DEF TypeInv
  <2> QED  BY <2>1 DEF Pending, Seen
<1> HIDE DEF p
<1>3. req'[r] = p /\ \A q \in Request \ {r} : req'[q] = req[q]
  BY <1>1 DEF TypeInv, TypeOK
<1>4. built + 1 > built
  BY DEF TypeInv, TypeOK
<1>5. (\A q \in Request \ {r} : Knows(q)') /\ IdsAreUnique'
  BY <1>1, <1>2, <1>3, <1>4, OthersKnow
<1>6. Knows(r)'
  <2>1. p.seen.id \in Id /\ tx'[p.seen.id] = NoRow
    BY <1>1, <1>2, NextIdIsFree
  <2>2. p.seen.book.state = "open"
    BY <1>1, <1>2 DEF RequestsInv, Knows
  <2> QED  BY <1>1, <1>2, <1>3, <2>1, <2>2 DEF Knows
<1> QED  BY <1>5, <1>6 DEF RequestsInv

\* So for a close, which keeps the operations: all of them older.
LEMMA ReadForCloseRequests ==
    ASSUME JournalLedgerAssumption, TypeInv, TypeInv', RequestsInv,
           NEW r \in Request, ReadForClose(r)
    PROVE  RequestsInv'
<1> DEFINE j == req[r].call.journal
           p == [stage |-> "built", call |-> req[r].call,
                 seen |-> [book |-> journal[j], operations |-> Operations(j),
                           row |-> NoRow, id |-> built + 1]]
<1>1. /\ req[r].stage = "admitted" /\ req[r].call.op = "close" /\ j \in Journal
      /\ req' = [req EXCEPT ![r] = p] /\ UNCHANGED tx /\ built < MaxId
      /\ built' >= built
  BY PendingFields DEF ReadForClose, Admitted, TypeInv, TypeOK
<1>2. /\ p.stage = "built" /\ p.call = req[r].call /\ p.seen.id = built + 1
      /\ p.seen.operations = Operations(j)
  OBVIOUS
<1> HIDE DEF p
<1>3. req'[r] = p /\ \A q \in Request \ {r} : req'[q] = req[q]
  BY <1>1 DEF TypeInv, TypeOK
<1>4. built + 1 > built
  BY DEF TypeInv, TypeOK
<1>5. (\A q \in Request \ {r} : Knows(q)') /\ IdsAreUnique'
  BY <1>1, <1>2, <1>3, <1>4, OthersKnow
<1>6. Knows(r)'
  <2>1. p.seen.id \in Id /\ tx'[p.seen.id] = NoRow
    BY <1>1, <1>2, NextIdIsFree
  <2>2. \A t \in Operations(j) : t \in Id /\ Stored(t)
    BY <1>1, RowsInTable, NoRowIsNoRow
       DEF Operations, Stored, TypeInv, TypeOK, RowTables
  <2>3. \A t \in p.seen.operations : t < p.seen.id
    BY <1>2, <2>2 DEF TypeInv, TypeOK, Id
  <2> QED  BY <1>1, <1>2, <1>3, <2>1, <2>3 DEF Knows
<1> QED  BY <1>5, <1>6 DEF RequestsInv

\* A reopening starts to list and knows nothing yet.
LEMMA ReadForReopenRequests ==
    ASSUME JournalLedgerAssumption, TypeInv, TypeInv', RequestsInv,
           NEW r \in Request, NEW j \in Journal, ReadForReopen(r, j)
    PROVE  RequestsInv'
<1>1. /\ req'[r].stage = "listing" /\ \A q \in Request \ {r} : req'[q] = req[q]
      /\ UNCHANGED tx /\ built' >= built
  BY DEF ReadForReopen, TypeInv, TypeOK
<1>2. (\A q \in Request \ {r} : Knows(q)') /\ IdsAreUnique'
  BY <1>1, OthersKnow
<1>3. Knows(r)'
  BY <1>1 DEF Knows
<1> QED  BY <1>2, <1>3 DEF RequestsInv

\* A reopening has found two operations.
LEMMA ListForReopenRequests ==
    ASSUME JournalLedgerAssumption, TypeInv, TypeInv', RequestsInv,
           NEW r \in Request, ListForReopen(r)
    PROVE  RequestsInv'
<1> DEFINE j == req[r].call.journal
           pair == LastTwo(Operations(j))
           p == [req[r] EXCEPT !.stage = "reopening", !.seen.operations = pair]
<1>1. /\ req[r].stage = "listing" /\ Cardinality(Operations(j)) >= 2 /\ j \in Journal
      /\ req' = [req EXCEPT ![r] = p] /\ UNCHANGED <<tx, built>>
      /\ built' >= built
  BY PendingFields DEF ListForReopen, TypeInv, TypeOK
<1>2. p.stage = "reopening" /\ p.call = req[r].call /\ p.seen.operations = pair
  <2>1. req[r] \in Pending /\ req[r].seen \in Seen
    BY <1>1, PendingFields DEF TypeInv
  <2> QED  BY <2>1 DEF Pending, Seen
<1>3. \A t \in Operations(j) : t \in Id /\ tx[t].journal = j /\ Stored(t)
  BY <1>1, RowsInTable, NoRowIsNoRow
     DEF Operations, Stored, TypeInv, TypeOK, RowTables
<1>4. \E t, u \in Operations(j) : t < u /\ pair = {t, u}
  <2>1. Operations(j) \in SUBSET Id /\ MaxId \in Nat
    BY DEF Operations, JournalLedgerAssumption
  <2> QED  BY <1>1, <2>1, LastTwoAreTwo
<1> HIDE DEF p, pair
<1>5. req'[r] = p /\ \A q \in Request \ {r} : req'[q] = req[q]
  BY <1>1 DEF TypeInv, TypeOK
<1>6. /\ \A t : Taken(t, built, req) => Taken(t, built', req')
      /\ (\A q \in Request \ {r} : Knows(q)') /\ IdsAreUnique'
  BY <1>1, <1>2, <1>5, OthersKnow
<1>7. Knows(r)'
  <2>1. PICK t \in Operations(j), u \in Operations(j) : t < u /\ pair = {t, u}
    BY <1>4
  <2>2. t \in Id /\ u \in Id /\ t # u
    BY <1>3, <2>1 DEF Id
  <2>3. \A v \in pair : Taken(v, built', req') /\ HoldsIn(tx', v, j)
    BY <1>1, <1>3, <1>6, <2>1, StoredIsTaken DEF HoldsIn
  <2> QED  BY <1>2, <1>5, <2>1, <2>2, <2>3 DEF Knows
<1> QED  BY <1>6, <1>7 DEF RequestsInv

-----------------------------------------------------------------------------
(* The theorems.                                                           *)

\* Nothing has happened yet.
LEMMA InitLedger == ASSUME JournalLedgerAssumption, Init PROVE LedgerInv
<1>1. TypeInv
  BY InitType
<1>2. RequestsInv /\ RowsInv
  BY DEF Init, RequestsInv, IdsAreUnique, Knows, Idle, RowsInv, Stored
<1>3. ASSUME NEW X \in SUBSET Row
      PROVE  Total(tx, X) = 0
  <2>1. tx \in RowTables /\ MaxId \in Nat
    BY <1>1 DEF TypeInv, TypeOK, RowTables, JournalLedgerAssumption
  <2>2. Rows(tx, X) = {}
    BY NoRowIsNoRow DEF Init, Rows
  <2>3. IsTable([t \in Rows(tx, X) |-> tx[t].amount])
    BY <2>1, TableOfRows
  <2> QED  BY <2>2, <2>3, NoCoins DEF Total
<1>4. tx \in RowTables
  BY <1>1 DEF TypeInv, TypeOK, RowTables
<1>5. \A b \in Branch : Balanced(b, balance, debt, tx)
  BY <1>3, ClassesAreRows DEF Init, Balanced
<1>6. \A j \in Journal : journal[j].total = Total(tx, OperationRows(j))
  BY <1>3, ClassesAreRows DEF Init, NoJournalRow
<1>7. BalancesMatchTransactions /\ TotalIsSumOfOperations
  BY <1>4, <1>5, <1>6, BalancesAsTotals
<1>8. ClosedByItsPair
  BY DEF Init, ClosedByItsPair, Closed, NoJournalRow
<1> QED  BY <1>1, <1>2, <1>7, <1>8 DEF LedgerInv

\* Each step of a request keeps the invariant.
LEMMA RequestStep ==
    ASSUME JournalLedgerAssumption, LedgerInv, TypeInv', NEW r \in Request, Step(r)
    PROVE  SumsInv' /\ RequestsInv'
<1>1. SumsInv /\ TypeInv /\ RequestsInv /\ Knows(r)
  BY DEF LedgerInv, SumsInv, RequestsInv
<1>2. CASE Build(r)
  <2>1. UNCHANGED <<journal, tx, balance, debt, unbalanced, disturbed>>
    BY <1>2 DEF Build, money, history
  <2> QED  BY <1>1, <1>2, <2>1, QuietSums, BuildRequests
<1>3. CASE AddOperation(r)
  BY <1>1, <1>3, AddOperationSums, AddOperationRequests
<1>4. CASE UpdateOperation(r)
  BY <1>1, <1>4, UpdateOperationSums, UpdateOperationRequests
<1>5. CASE DeleteOperation(r)
  BY <1>1, <1>5, DeleteOperationSums, DeleteOperationRequests
<1>6. CASE ReadForClose(r)
  <2>1. UNCHANGED <<journal, tx, balance, debt, unbalanced>> /\ disturbed \subseteq disturbed'
    BY <1>6 DEF ReadForClose, money, DisturbedIf
  <2> QED  BY <1>1, <1>6, <2>1, QuietSums, ReadForCloseRequests
<1>7. CASE Close(r)
  BY <1>1, <1>7, CloseSums, CloseRequests
<1>8. CASE ListForReopen(r)
  <2>1. UNCHANGED <<journal, tx, balance, debt, unbalanced, disturbed>>
    BY <1>8 DEF ListForReopen, money, history
  <2> QED  BY <1>1, <1>8, <2>1, QuietSums, ListForReopenRequests
<1>9. CASE ReOpen(r)
  BY <1>1, <1>9, ReOpenSums, ReOpenRequests
<1>10. CASE Fail(r)
  <2>1. UNCHANGED <<journal, tx, balance, debt, unbalanced, disturbed>>
    BY <1>10 DEF Fail, money, history
  <2> QED  BY <1>1, <1>10, <2>1, QuietSums, FailRequests
<1> QED  BY <1>2, <1>3, <1>4, <1>5, <1>6, <1>7, <1>8, <1>9, <1>10 DEF Step

\* And so does every step.
LEMMA StepLedger ==
    ASSUME JournalLedgerAssumption, LedgerInv, [Next]_vars
    PROVE  LedgerInv'
<1>1. SumsInv /\ TypeInv /\ RequestsInv
  BY DEF LedgerInv, SumsInv
<1>2. TypeInv'
  BY <1>1, StepType
<1> SUFFICES SumsInv' /\ RequestsInv'
  BY <1>2 DEF LedgerInv, SumsInv
<1>3. ASSUME NEW j \in Journal, Create(j)
      PROVE  SumsInv' /\ RequestsInv'
  BY <1>1, <1>2, <1>3, CreateSums, CreateRequests
<1>4. ASSUME NEW r \in Request, NEW j \in Journal, NEW call \in GuardedCall(j), Admit(r, call)
      PROVE  SumsInv' /\ RequestsInv'
  <2>1. UNCHANGED <<journal, tx, balance, debt, unbalanced, disturbed>>
    BY <1>4 DEF Admit, money, history
  <2> QED  BY <1>1, <1>2, <1>4, <2>1, QuietSums, AdmitRequests
<1>5. ASSUME NEW r \in Request, NEW j \in Journal, ReadForReopen(r, j)
      PROVE  SumsInv' /\ RequestsInv'
  <2>1. UNCHANGED <<journal, tx, balance, debt, unbalanced, disturbed>>
    BY <1>5 DEF ReadForReopen, money, history
  <2> QED  BY <1>1, <1>2, <1>5, <2>1, QuietSums, ReadForReopenRequests
<1>6. ASSUME NEW r \in Request, Step(r)
      PROVE  SumsInv' /\ RequestsInv'
  BY <1>2, <1>6, RequestStep
<1>7. ASSUME NEW b \in Branch, NEW a \in Amount, NEW m \in Method, RecordSale(b, a, m)
      PROVE  SumsInv' /\ RequestsInv'
  BY <1>1, <1>2, <1>7, RecordSaleSums, RecordSaleRequests
<1>8. ASSUME NEW b \in Branch, NEW s \in Supplier, NEW a \in Amount, NEW m \in Method,
             NEW debit \in BOOLEAN, RecordPayment(b, s, a, m, debit)
      PROVE  SumsInv' /\ RequestsInv'
  BY <1>1, <1>2, <1>8, RecordPaymentSums, RecordPaymentRequests
<1>9. ASSUME NEW t \in Id, DeleteTransaction(t)
      PROVE  SumsInv' /\ RequestsInv'
  BY <1>1, <1>2, <1>9, DeleteTransactionSums, DeleteTransactionRequests
<1>10. ASSUME NEW t \in Id, NEW kind \in {"sale", "supplier"},
              NEW a \in Correction \cup {tx[t].amount}, UpdateTransaction(t, a, kind)
       PROVE  SumsInv' /\ RequestsInv'
  BY <1>1, <1>2, <1>10, UpdateTransactionSums, UpdateTransactionRequests
<1>11. CASE UNCHANGED vars
  <2>1. SumsInv'
    BY <1>1, <1>2, <1>11, QuietSums DEF vars
  <2>2. UNCHANGED req /\ UNCHANGED tx /\ built' >= built
    BY <1>1, <1>11 DEF vars, TypeInv, TypeOK
  <2>3. RequestsInv'
    BY <1>1, <1>2, <2>2, RequestsBehind
  <2> QED  BY <2>1, <2>3
<1>12. CASE Next
  BY <1>3, <1>4, <1>5, <1>6, <1>7, <1>8, <1>9, <1>10, <1>12 DEF Next
<1> QED  BY <1>11, <1>12

\* The inductive invariant holds of every reachable state.
THEOREM LedgerIsConsistent == Spec => []LedgerInv
<1>1. Init => LedgerInv
  BY InitLedger, JournalLedgerAssumption
<1>2. LedgerInv /\ [Next]_vars => LedgerInv'
  BY StepLedger, JournalLedgerAssumption
<1> QED  BY <1>1, <1>2, PTL DEF Spec

\* Each balance of a branch, and its debt, is what its transactions say ...
THEOREM BalancesAreTransactions == Spec => []BalancesMatchTransactions
<1>1. LedgerInv => BalancesMatchTransactions
  BY DEF LedgerInv
<1> QED  BY <1>1, LedgerIsConsistent, PTL

\* ... the total of each shift is the sum of its operations ...
THEOREM TotalsAreOperations == Spec => []TotalIsSumOfOperations
<1>1. LedgerInv => TotalIsSumOfOperations
  BY DEF LedgerInv
<1> QED  BY <1>1, LedgerIsConsistent, PTL

\* ... and the two operations that a reopening of a closed shift would delete are
\* those its closing recorded: for any number of requests in flight, and however
\* they overlap, as long as none acts on what changed since it read it.
THEOREM ClosingPairIsFound == Spec => []ClosedByItsPair
<1>1. LedgerInv => ClosedByItsPair
  BY DEF LedgerInv
<1> QED  BY <1>1, LedgerIsConsistent, PTL
=============================================================================
