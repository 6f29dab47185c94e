------------------------------ MODULE Migration ------------------------------
(***************************************************************************)
(* cmd/etl: the program that copies the MongoDB of the old shop into the   *)
(* tables of this one, collection after collection, and then counts what   *)
(* arrived.  Its statements run in transactions of a collection, or of a   *)
(* batch of one; it stops at the first error, and may be stopped at any    *)
(* time.  It is started again on what it has left, or on an empty target.  *)
(*                                                                         *)
(* Abstractions.  A document is its identifier, what it refers to and what *)
(* is embedded in it; of an amount, the money that the report adds up.     *)
(* Other fields are copied.  The old shop is shut: documents do not change *)
(* while they are read.  A row is [table, keys, needs, data]: what is      *)
(* unique in its table, and the rows its foreign keys want.                *)
(***************************************************************************)
EXTENDS Integers, FiniteSets, Sequences, Functions

CONSTANTS
    Source,     \* the MongoDB databases to migrate
    BatchSize,  \* documents in a transaction of a batched collection
    MaxRun      \* bound: how often the program is started

\* The identifier that a document, or a reference, does not have.
None == ""

\* Collection after collection (the transactions embedded in suppliers that are not
\* in the collection of transactions make a step of their own).
Steps == <<"finance", "users", "activities", "brands", "categories", "suppliers",
           "products", "customers", "transactions", "embedded", "journals",
           "store_customers", "carts", "wishlists", "orders", "reviews",
           "promotions", "proposals", "internal_expenses">>

\* What the program reads of a database.
TxnDoc == [id : STRING, shape : STRING, initiator : STRING, amount : Int, branch : STRING]
BnplDoc == [id : STRING, branch : STRING, products : Seq(STRING), transactions : Seq(STRING)]
IsDatabase(m) ==
    /\ DOMAIN m = { Steps[n] : n \in DOMAIN Steps } \ {"embedded"}
    /\ m.finance \in Seq([branch_id : STRING])
    /\ \A c \in {"users", "activities", "brands", "categories", "promotions", "proposals"} :
          m[c] \in Seq([id : STRING])
    /\ m.suppliers \in Seq([id : STRING, branch : STRING, transactions : Seq(TxnDoc)])
    /\ m.products \in Seq([id : STRING, category : Seq(STRING), stock : Seq(STRING),
                            income : Seq(STRING)])
    /\ m.customers \in Seq([id : STRING, bnpls : Seq(BnplDoc)])
    /\ m.transactions \in Seq(TxnDoc)
    /\ m.journals \in Seq([id : STRING, branch : STRING, date : Int, total : Int,
                            operations : Seq(STRING)])
    /\ m.store_customers \in Seq([id : STRING, addresses : Seq(STRING)])
    /\ \A c \in {"carts", "wishlists", "orders"} :
          m[c] \in Seq([id : STRING, customer_id : STRING, items : Seq(STRING)])
    /\ m.reviews \in Seq([id : STRING, product_id : STRING, customer_id : STRING,
                           voters : Seq(STRING)])
    /\ m.internal_expenses \in Seq([id : STRING, branch : STRING])

\* MongoDB's _id is unique in a collection.
IdsAreUnique(docs) ==
    \A i, k \in DOMAIN docs : docs[i].id = docs[k].id => i = k

ASSUME MigrationAssumption ==
    /\ BatchSize \in Nat \ {0}
    /\ \A m \in Source :
          /\ IsDatabase(m)
          /\ \A c \in DOMAIN m \ {"finance"} : IdsAreUnique(m[c])

VARIABLES
    mongo,      \* the old database
    target,     \* the committed rows of PostgreSQL, in the order of their insertion
    draft,      \* the rows as the program's transaction sees them
    program,    \* the run: how far it is, and the embedded transactions' order
    memo,       \* the Migrator's lookup tables
    counted,    \* the counters of the loops over what is embedded, by table
    report,     \* the Migrator's expected counts, by table
    started,    \* history: runs started
    base        \* history: the rows that this run found in the target

migrationVars == <<mongo, target, draft, program, memo, counted, report, started, base>>

\* The steps that commit batch by batch.
Batched == {"activities", "customers", "transactions", "embedded", "journals",
            "proposals"}

-----------------------------------------------------------------------------
(* Statements.                                                             *)

\* A row that is known by its identifier, with the rows it needs.
Row(table, id, needs) ==
    [table |-> table, keys |-> {<<"id", id>>}, needs |-> needs, data |-> id]

\* A row of a table without any key of its own.
Serial(table, needs, data) ==
    [table |-> table, keys |-> {}, needs |-> needs, data |-> data]

Insert(row) == [op |-> "insert", row |-> row, skip |-> FALSE]
InsertOrSkip(row) == [op |-> "insert", row |-> row, skip |-> TRUE]
SetJournal(journal, txn) == [op |-> "link", journal |-> journal, txn |-> txn]
Nothing == [op |-> "none"]

\* A reference that may be missing ("" becomes NULL).
Maybe(table, id) == IF id = None THEN {} ELSE {<<table, id>>}

\* The rows of a table, by their place.
Places(rows, table) == { i \in DOMAIN rows : rows[i].table = table }

Has(rows, need) == \E i \in Places(rows, need[1]) : <<"id", need[2]>> \in rows[i].keys

Collides(rows, row) == \E i \in Places(rows, row.table) : rows[i].keys \cap row.keys # {}

\* transactions_initiator_refs_chk: no reference of another initiator's.
ChecksOut(row) ==
    row.table = "transactions" =>
        \/ row.data.initiator = None
        \/ /\ row.data.supplier # None => row.data.initiator = "supplier"
           /\ row.data.bnpl # None => row.data.initiator = "bnpl"

Accepts(rows, stmt) ==
    stmt.op = "insert" =>
        IF Collides(rows, stmt.row) THEN stmt.skip
        ELSE ChecksOut(stmt.row) /\ \A need \in stmt.row.needs : Has(rows, need)

\* UPDATE transactions SET journal_id.
LinkedTo(rows, stmt) ==
    [i \in DOMAIN rows |->
        IF rows[i].table = "transactions" /\ <<"id", stmt.txn>> \in rows[i].keys
        THEN [rows[i] EXCEPT !.data.journal = {stmt.journal}]
        ELSE rows[i]]

\* The rows after a statement that is accepted.
Effect(rows, stmt) ==
    CASE stmt.op = "insert" ->
            IF Collides(rows, stmt.row) THEN rows ELSE Append(rows, stmt.row)
      [] stmt.op = "link" -> LinkedTo(rows, stmt)
      [] stmt.op = "none" -> rows

-----------------------------------------------------------------------------
(* The statements for a document of each collection: a list for each loop  *)
(* over what is embedded, after one for the document itself.               *)

migrateFinance(d) ==
    IF d.branch_id = None THEN <<>>
    ELSE << << Insert(Row("branches", d.branch_id, {})),
               Insert(Row("branch_finance", d.branch_id,
                          {<<"branches", d.branch_id>>})) >> >>

migrateUsers(d) == << << Insert(Row("users", d.id, {})) >> >>
migrateActivities(d) == << << Insert(Serial("activities", {}, d.id)) >> >>
migrateBrands(d) == << << Insert(Row("brands", d.id, {})) >> >>
migrateCategories(d) == << << Insert(Row("categories", d.id, {})) >> >>

migrateSuppliers(d) ==
    << << Insert(Row("suppliers", d.id, Maybe("branches", d.branch))) >> >>

\* Only the categories that were migrated are linked.
migrateProducts(d, known) ==
    << << Insert(Row("products", d.id, {})) >>,
       [i \in DOMAIN d.category |->
            IF d.category[i] \in known
            THEN InsertOrSkip(Row("product_categories", <<d.id, d.category[i]>>,
                                  {<<"products", d.id>>, <<"categories", d.category[i]>>}))
            ELSE Nothing],
       [i \in DOMAIN d.stock |->
            Insert(Row("product_stock", <<d.id, d.stock[i]>>, {<<"products", d.id>>}))],
       [i \in DOMAIN d.income |->
            Insert(Serial("product_income_history", {<<"products", d.id>>},
                          <<d.id, i, d.income[i]>>))] >>

\* One before a list.
Before(one, list) == [k \in 1..(Len(list) + 1) |-> IF k = 1 THEN one ELSE list[k - 1]]

migrateBnpl(d, b) ==
    Before(Insert(Row("bnpls", b.id, {<<"customers", d.id>>} \cup Maybe("branches", b.branch))),
           [i \in DOMAIN b.products |->
                InsertOrSkip(Row("bnpl_products", <<b.id, b.products[i]>>,
                                 {<<"bnpls", b.id>>}))])

migrateCustomers(d) ==
    Before(<< Insert(Row("customers", d.id, {})) >>,
           [i \in DOMAIN d.bnpls |-> migrateBnpl(d, d.bnpls[i])])

\* The content of a transaction, at the top level or nested (mutant: nested
\* content is not looked for).
AmountFlat(d) == IF d.shape = "flat" THEN d.amount ELSE 0
Amount(d) == d.amount

\* What lookup table m knows of an identifier.
RefOf(m, id) == IF id \in DOMAIN m THEN m[id] ELSE None

\* The row of a transaction, once; no journal (NULL) has claimed it yet.
insertTransaction(d, supplier, bnpl) ==
    [table |-> "transactions", keys |-> {<<"id", d.id>>},
     needs |-> Maybe("suppliers", supplier) \cup Maybe("bnpls", bnpl)
               \cup Maybe("branches", d.branch),
     data |-> [id |-> d.id, amount |-> Amount(d), initiator |-> d.initiator,
               supplier |-> supplier, bnpl |-> bnpl, journal |-> {}]]

\* One that was inserted before is skipped (and so is one without identifier).
migrateTransactions(d, mem) ==
    IF d.id = None \/ d.id \in mem.inserted THEN <<>>
    ELSE << << Insert(insertTransaction(d, RefOf(mem.supplierTxn, d.id),
                                        RefOf(mem.bnplTxn, d.id))) >> >>

\* The day of a branch is unique, too (days without one are not compared).
DayOf(d) == IF d.branch = None THEN {} ELSE {<<"day", d.date, d.branch>>}
JournalRow(d) ==
    [Row("journals", d.id, Maybe("branches", d.branch)) EXCEPT !.keys = @ \cup DayOf(d)]

\* Mutant: the operations are not linked.
migrateJournalsUnlinked(d) == << << Insert(JournalRow(d)) >> >>
migrateJournals(d) ==
    << << Insert(JournalRow(d)) >>,
       [i \in DOMAIN d.operations |-> SetJournal(d.id, d.operations[i])] >>

migrateStoreCustomers(d) ==
    << << Insert(Row("store_customers", d.id, {})) >>,
       [i \in DOMAIN d.addresses |->
            Insert(Row("addresses", d.addresses[i], {<<"store_customers", d.id>>}))] >>

\* A document that belongs to one customer of the store.
OfCustomer(table, d) ==
    Insert([Row(table, d.id, {<<"store_customers", d.customer_id>>}) EXCEPT
              !.keys = @ \cup {<<"customer", d.customer_id>>}])

migrateCarts(d) ==
    << << OfCustomer("carts", d) >>,
       [i \in DOMAIN d.items |->
            Insert(Row("cart_items", d.items[i], {<<"carts", d.id>>}))] >>

migrateWishlists(d) ==
    << << OfCustomer("wishlists", d) >>,
       [i \in DOMAIN d.items |->
            InsertOrSkip(Row("wishlist_items", <<d.id, d.items[i]>>,
                             {<<"wishlists", d.id>>}))] >>

migrateOrders(d) ==
    << << Insert(Row("orders", d.id, Maybe("store_customers", d.customer_id))) >>,
       [i \in DOMAIN d.items |->
            Insert(Serial("order_items", {<<"orders", d.id>>}, <<d.id, i, d.items[i]>>))] >>

migrateReviews(d) ==
    << << Insert([Row("reviews", d.id, {<<"products", d.product_id>>}) EXCEPT
                    !.keys = @ \cup {<<"author", d.product_id, d.customer_id>>}]) >>,
       [i \in DOMAIN d.voters |->
            IF d.voters[i] = None THEN Nothing
            ELSE InsertOrSkip(Row("review_votes", <<d.id, d.voters[i]>>, {<<"reviews", d.id>>}))] >>

migratePromotions(d) == << << Insert(Row("promotions", d.id, {})) >> >>
migrateProposals(d) == << << Insert(Row("proposals", d.id, {})) >> >>
migrateInternalExpenses(d) ==
    << << Insert(Row("internal_expenses", d.id, Maybe("branches", d.branch))) >> >>

Statements(step, d, mem) ==
    CASE step = "finance" -> migrateFinance(d)
      [] step = "users" -> migrateUsers(d)
      [] step = "activities" -> migrateActivities(d)
      [] step = "brands" -> migrateBrands(d)
      [] step = "categories" -> migrateCategories(d)
      [] step = "suppliers" -> migrateSuppliers(d)
      [] step = "products" -> migrateProducts(d, mem.categoryIDs)
      [] step = "customers" -> migrateCustomers(d)
      [] step \in {"transactions", "embedded"} -> migrateTransactions(d, mem)
      [] step = "journals" -> migrateJournals(d)
      [] step = "store_customers" -> migrateStoreCustomers(d)
      [] step = "carts" -> migrateCarts(d)
      [] step = "wishlists" -> migrateWishlists(d)
      [] step = "orders" -> migrateOrders(d)
      [] step = "reviews" -> migrateReviews(d)
      [] step = "promotions" -> migratePromotions(d)
      [] step = "proposals" -> migrateProposals(d)
      [] step = "internal_expenses" -> migrateInternalExpenses(d)

-----------------------------------------------------------------------------
(* The Migrator.                                                           *)

\* The tables of what is embedded, which a counter of their own counts.
Embeds(step) ==
    CASE step = "products" ->
            {"product_categories", "product_stock", "product_income_history"}
      [] step = "customers" -> {"bnpls", "bnpl_products"}
      [] step = "store_customers" -> {"addresses"}
      [] step = "carts" -> {"cart_items"}
      [] step = "wishlists" -> {"wishlist_items"}
      [] step = "orders" -> {"order_items"}
      [] step = "reviews" -> {"review_votes"}
      [] OTHER -> {}

NewMemo == [supplierTxn |-> <<>>, bnplTxn |-> <<>>, embedded |-> <<>>,
            categoryIDs |-> {}, inserted |-> {}]
NotCounted == [t \in UNION { Embeds(Steps[n]) : n \in DOMAIN Steps } |-> 0]

\* A run in that state, about to begin the first document of a step.
At(state, step, order) ==
    [state |-> state, step |-> step, doc |-> 1, part |-> 1, stmt |-> 1, order |-> order]

Init ==
    /\ mongo \in Source
    /\ target = <<>> /\ draft = <<>>
    /\ program = At("off", 1, <<>>)
    /\ memo = NewMemo
    /\ counted = NotCounted
    /\ report = <<>>
    /\ started = 0
    /\ base = 0

Running == program.state = "running"
StepName == Steps[program.step]

\* f, with g written over it.
Overlay(f, g) ==
    [x \in DOMAIN f \cup DOMAIN g |-> IF x \in DOMAIN g THEN g[x] ELSE f[x]]

Greatest(S) == CHOOSE i \in S : \A k \in S : k <= i

\* What a supplier, or a customer, says of transactions: the last word counts.
TxnsOf(d) == { d.transactions[i].id : i \in DOMAIN d.transactions } \ {None}
StashOf(d) ==
    [x \in TxnsOf(d) |->
        d.transactions[Greatest({ i \in DOMAIN d.transactions : d.transactions[i].id = x })]]

NamedBy(b) == Range(b.transactions) \ {None}
BnplTxnOf(d) ==
    [x \in UNION { NamedBy(d.bnpls[i]) : i \in DOMAIN d.bnpls } |->
        d.bnpls[Greatest({ i \in DOMAIN d.bnpls : x \in NamedBy(d.bnpls[i]) })].id]

\* What a document leaves in the lookup tables.
Remember(step, mem, d) ==
    CASE step = "categories" -> [mem EXCEPT !.categoryIDs = @ \cup {d.id}]
      [] step = "suppliers" ->
            [mem EXCEPT !.supplierTxn = Overlay(@, [x \in TxnsOf(d) |-> d.id]),
                        !.embedded = Overlay(@, StashOf(d))]
      [] step = "customers" -> [mem EXCEPT !.bnplTxn = Overlay(@, BnplTxnOf(d))]
      [] step \in {"transactions", "embedded"} ->
            [mem EXCEPT !.inserted = @ \cup ({d.id} \ {None})]
      [] OTHER -> mem

\* The documents of the step: a collection, in the order it is read, or the
\* embedded transactions that are left, in the order of a Go map.
Docs == IF StepName = "embedded"
        THEN [i \in DOMAIN program.order |-> memo.embedded[program.order[i]]]
        ELSE mongo[StepName]
Doc == Docs[program.doc]

Leftovers == DOMAIN memo.embedded \ memo.inserted
Orders(S) == { order \in [1..Cardinality(S) -> S] : Range(order) = S }

\* Start the program, on the target as it is or on an empty one.
Start(fresh) ==
    /\ ~ Running /\ started < MaxRun
    /\ target' = IF fresh THEN <<>> ELSE target
    /\ draft' = target'
    /\ base' = Len(target')
    /\ program' = At("running", 1, <<>>)
    /\ memo' = NewMemo
    /\ counted' = NotCounted
    /\ report' = <<>>
    /\ started' = started + 1
    /\ UNCHANGED mongo

\* The statements of the document, and the next one.
Script == Statements(StepName, Doc, memo)
InDocument == Running /\ program.doc <= Len(Docs)
InLoop ==
    /\ InDocument /\ program.part <= Len(Script)
    /\ program.stmt <= Len(Script[program.part])
Stmt == Script[program.part][program.stmt]

\* A loop counts what it inserts, whether the row was there before or not.
Count(stmt) ==
    counted' = [t \in DOMAIN counted |->
                    IF stmt.op = "insert" /\ stmt.row.table = t
                    THEN counted[t] + 1 ELSE counted[t]]

Execute ==
    /\ InLoop
    /\ Accepts(draft, Stmt)
    /\ draft' = Effect(draft, Stmt)
    /\ Count(Stmt)
    /\ program' = [program EXCEPT !.stmt = @ + 1]
    /\ UNCHANGED <<mongo, target, memo, report, started, base>>

\* The transaction rolls back, and the run ends.
Abort ==
    /\ draft' = target
    /\ program' = At("failed", 1, <<>>)
    /\ UNCHANGED <<mongo, target, memo, counted, report, started, base>>

\* The database refuses a statement.
Refuse ==
    /\ InLoop
    /\ ~ Accepts(draft, Stmt)
    /\ Abort

NextLoop ==
    /\ InDocument /\ program.part <= Len(Script)
    /\ program.stmt > Len(Script[program.part])
    /\ program' = [program EXCEPT !.part = @ + 1, !.stmt = 1]
    /\ UNCHANGED <<mongo, target, draft, memo, counted, report, started, base>>

\* inBatches, and the one transaction of the other steps: what ends with this
\* document.
Commits ==
    \/ program.doc = Len(Docs)
    \/ StepName \in Batched /\ program.doc % BatchSize = 0

NextDocument ==
    /\ InDocument /\ program.part > Len(Script)
    /\ memo' = Remember(StepName, memo, Doc)
    /\ target' = IF Commits THEN draft ELSE target
    /\ program' = [program EXCEPT !.doc = @ + 1, !.part = 1, !.stmt = 1]
    /\ UNCHANGED <<mongo, draft, counted, report, started, base>>

\* pgCount.
Rows(table) == Places(target, table)
pgCount(table) == Cardinality(Rows(table))

\* The documents of a collection, and what the loops over them counted (mutant:
\* what the target holds is what is expected of it).
CountForTarget(step, table) == pgCount(table)
CountFor(step, table) == IF table = step THEN Len(Docs) ELSE counted[table]

\* The tables of each step and what they are expected to hold: a branch for each
\* document of finance, even one without its id; the transactions inserted; an
\* absent collection of expenses is not recorded.
Recorded(step) ==
    CASE step = "finance" -> [t \in {"branches", "branch_finance"} |-> Len(Docs)]
      [] step = "transactions" -> <<>>
      [] step = "embedded" -> [t \in {"transactions"} |-> Cardinality(memo.inserted)]
      [] step = "internal_expenses" /\ Docs = <<>> -> <<>>
      [] OTHER -> [t \in {step} \cup Embeds(step) |-> CountFor(step, t)]

\* The step is over: its lines in the report, and the next one.
NextStep ==
    /\ Running /\ program.doc > Len(Docs)
    /\ report' = Overlay(report, Recorded(StepName))
    /\ IF program.step = Len(Steps)
       THEN program' = [program EXCEPT !.state = "done"]
       ELSE \E order \in IF StepName = "transactions" THEN Orders(Leftovers) ELSE {<<>>} :
               program' = At("running", program.step + 1, order)
    /\ UNCHANGED <<mongo, target, draft, memo, counted, started, base>>

\* A lost connection, a kill: what is committed stays.
Stop ==
    /\ Running
    /\ Abort

Next ==
    \/ \E fresh \in BOOLEAN : Start(fresh)
    \/ Execute \/ Refuse \/ NextLoop \/ NextDocument \/ NextStep
    \/ Stop

Spec == Init /\ [][Next]_migrationVars

-----------------------------------------------------------------------------
(* The report (it is printed when the last step is over).                  *)

\* reconcile: the tables whose count is not what the collections led to expect.
Mismatches == { t \in DOMAIN report : pgCount(t) # report[t] }

Txns == { target[i].data : i \in Rows("transactions") }

\* The sum of amounts, by transaction.
Sum(amounts) == FoldFunction(+, 0, amounts)

\* reconcileMoney: the money linked to a journal.
Linked(j) == { t \in Txns : t.journal = {j} }
JournalSum(j) ==
    Sum([x \in { t.id : t \in Linked(j) } |->
            (CHOOSE t \in Linked(j) : t.id = x).amount])

-----------------------------------------------------------------------------
(* Properties.                                                             *)

Collection(c) == Range(mongo[c])
Ids(c) == { d.id : d \in Collection(c) }
Pairs(c, field) == UNION { { <<d.id, x>> : x \in Range(d[field]) } : d \in Collection(c) }
Numbered(c, field) ==
    UNION { { <<d.id, i, d[field][i]>> : i \in DOMAIN d[field] } : d \in Collection(c) }
Owned(c, field) == UNION { Range(d[field]) : d \in Collection(c) }
Bnpls == Owned("customers", "bnpls")

\* What each table is to hold of the old database, transactions apart.
Expected ==
    LET branches == { d.branch_id : d \in Collection("finance") } \ {None} IN
    [branches |-> branches, branch_finance |-> branches,
     users |-> Ids("users"), activities |-> Ids("activities"),
     brands |-> Ids("brands"), categories |-> Ids("categories"),
     suppliers |-> Ids("suppliers"), products |-> Ids("products"),
     product_categories |->
        { pc \in Pairs("products", "category") : pc[2] \in Ids("categories") },
     product_stock |-> Pairs("products", "stock"),
     product_income_history |-> Numbered("products", "income"),
     customers |-> Ids("customers"), bnpls |-> { b.id : b \in Bnpls },
     bnpl_products |-> UNION { { <<b.id, p>> : p \in Range(b.products) } : b \in Bnpls },
     journals |-> Ids("journals"), store_customers |-> Ids("store_customers"),
     addresses |-> Owned("store_customers", "addresses"),
     carts |-> Ids("carts"), cart_items |-> Owned("carts", "items"),
     wishlists |-> Ids("wishlists"), wishlist_items |-> Pairs("wishlists", "items"),
     orders |-> Ids("orders"), order_items |-> Numbered("orders", "items"),
     reviews |-> Ids("reviews"),
     review_votes |-> { rv \in Pairs("reviews", "voters") : rv[2] # None },
     promotions |-> Ids("promotions"), proposals |-> Ids("proposals"),
     internal_expenses |-> Ids("internal_expenses")]

\* Each row once.
Holds(table, data) ==
    /\ { target[i].data : i \in Rows(table) } = data
    /\ \A i, k \in Rows(table) : target[i].data = target[k].data => i = k

Embedded == Owned("suppliers", "transactions")

\* The transactions of the old shop: of two with one identifier, the top-level one.
OldTxns ==
    Collection("transactions")
    \cup { d \in Embedded : d.id \notin Ids("transactions") }

\* Refers to one of the documents that name it, or to none if none does.
OneOf(ref, ids) == IF ids = {} THEN ref = None ELSE ref \in ids

SuppliersOf(x) ==
    { s.id : s \in { d \in Collection("suppliers") :
                        \E e \in Range(d.transactions) : e.id = x } }
BnplsOf(x) == { b.id : b \in { d \in Bnpls : x \in Range(d.transactions) } }
JournalsOf(x) == { j.id : j \in { d \in Collection("journals") : x \in Range(d.operations) } }

TransactionsFaithful ==
    /\ Holds("transactions", Txns)
    /\ { t.id : t \in Txns } = { d.id : d \in OldTxns } \ {None}
    /\ \A t \in Txns :
        /\ \E d \in OldTxns : d.id = t.id /\ d.amount = t.amount
        /\ OneOf(t.supplier, SuppliersOf(t.id))
        /\ OneOf(t.bnpl, BnplsOf(t.id))
        /\ IF JournalsOf(t.id) = {} THEN t.journal = {}
           ELSE \E j \in JournalsOf(t.id) : t.journal = {j}

Faithful ==
    /\ \A table \in DOMAIN Expected : Holds(table, Expected[table])
    /\ TransactionsFaithful

Done == program.state = "done"

\* A run that ends, on a target that was empty, has brought everything exactly
\* once, with its references: a transaction that its collection, a supplier, a
\* debt and a journal all know is one row that belongs to all of them.
FreshRunIsFaithful == Done /\ base = 0 => Faithful

\* "Re-run into a fresh/empty target": a run on what an earlier one has left, if
\* it ends at all, has brought nothing twice or the report shows it.
ReportIsTruthful == Done /\ Mismatches = {} => Faithful

\* What the transactions of a journal amounted to in the old shop.
AmountsOf(x) == { d.amount : d \in { e \in OldTxns : e.id = x } }
AmountOf(j) ==
    Sum([x \in { d.id : d \in OldTxns } \cap (Range(j.operations) \ {None}) |->
            CHOOSE amount \in AmountsOf(x) : TRUE])

\* A journal whose total is not the money linked to it was wrong in the old shop,
\* shares an operation with another journal, or has one that two suppliers tell
\* different amounts of.
MoneyDiffIsExplained ==
    Done /\ base = 0 =>
        \A j \in Collection("journals") :
            \/ JournalSum(j.id) = j.total
            \/ AmountOf(j) # j.total
            \/ \E k \in Collection("journals") \ {j} :
                  Range(k.operations) \cap Range(j.operations) # {}
            \/ \E x \in Range(j.operations) : \E a, b \in AmountsOf(x) : a # b
=============================================================================
