--------------------------- MODULE MigrationProofs ---------------------------
(***************************************************************************)
(* What is proved of Migration, for any old database, batch size and       *)
(* number of runs: the inductive invariant of a run, and from it that a    *)
(* run that ends has brought everything once, or its report shows it.      *)
(*                                                                         *)
(* The plan of a run is the statements that its documents give rise to; it *)
(* depends on the database alone, but for the transactions.  The plan is   *)
(* shown sound (a statement brings what is expected, under the keys that   *)
(* say whose it is) and complete (whatever is expected has its statement). *)
(* The invariant says how the rows answer to the part of the plan that was *)
(* executed, and how far a transaction's references were found.            *)
(***************************************************************************)
EXTENDS Migration, FiniteSetTheorems, WellFoundedInduction, TLAPS

\* The steps whose statements depend on the document alone: those of the
\* transactions also depend on what was inserted before.
Plain == (1..19) \ {9, 10}

\* The statements for a document of such a step, all categories being known.
FullMemo == [NewMemo EXCEPT !.categoryIDs = Ids("categories")]
Plan(n, i) == Statements(Steps[n], mongo[Steps[n]][i], FullMemo)
Planned(n, i, p, k) ==
    /\ n \in Plain /\ i \in DOMAIN mongo[Steps[n]]
    /\ p \in DOMAIN Plan(n, i) /\ k \in DOMAIN Plan(n, i)[p]

SerialTables == {"activities", "product_income_history", "order_items"}
SkipTables == {"product_categories", "bnpl_products", "wishlist_items", "review_votes"}

\* The tables that these refer to: rows that only one document can bring.
RootTables == {"products", "bnpls", "wishlists", "reviews", "orders"}

\* What a statement of the plan is like.
InsertIsSound(n, i, p, k, s) ==
    /\ s.row.table \in DOMAIN Expected
    /\ s.row.data \in Expected[s.row.table]
    /\ s.skip <=> s.row.table \in SkipTables
    /\ s.row.table \in SerialTables => s.row.keys = {}
    /\ s.row.table \notin SerialTables => <<"id", s.row.data>> \in s.row.keys
    /\ s.row.table \in SkipTables => s.row.keys = {<<"id", s.row.data>>}
    /\ s.row.table \in (SkipTables \cup SerialTables) \ {"activities"} =>
          \E need \in s.row.needs : need[1] \in RootTables
    /\ s.row.table = "activities" =>
          n = 3 /\ p = 1 /\ k = 1 /\ s.row.data = mongo["activities"][i].id
    /\ s.row.table = "product_income_history" =>
          /\ n = 7 /\ p = 4
          /\ s.row.data = <<mongo["products"][i].id, k, mongo["products"][i].income[k]>>
    /\ s.row.table = "order_items" =>
          /\ n = 15 /\ p = 2
          /\ s.row.data = <<mongo["orders"][i].id, k, mongo["orders"][i].items[k]>>

LinkIsSound(n, i, p, k, s) ==
    /\ n = 11 /\ p = 2 /\ i \in DOMAIN mongo["journals"]
    /\ k \in DOMAIN mongo["journals"][i].operations
    /\ s.journal = mongo["journals"][i].id
    /\ s.txn = mongo["journals"][i].operations[k]

IsSound(n, i, p, k, s) ==
    \/ s.op = "insert" /\ InsertIsSound(n, i, p, k, s)
    \/ s.op = "link" /\ LinkIsSound(n, i, p, k, s)
    \/ s.op = "none"

PlanIsSound ==
    \A n \in Plain : \A i \in DOMAIN mongo[Steps[n]] :
        \A p \in DOMAIN Plan(n, i) : \A k \in DOMAIN Plan(n, i)[p] :
            IsSound(n, i, p, k, Plan(n, i)[p][k])

Inserts(n, i, p, k) == Plan(n, i)[p][k].op = "insert"
PlanRow(n, i, p, k) == Plan(n, i)[p][k].row

-----------------------------------------------------------------------------
(* The rows, of the target and of the draft.                               *)

IsList(s) == Len(s) \in Nat /\ DOMAIN s = 1..Len(s)

Apart(rows) ==
    \A a, b \in DOMAIN rows :
        a # b /\ rows[a].table = rows[b].table => rows[a].keys \cap rows[b].keys = {}

Rooted(rows) ==
    \A a \in DOMAIN rows : \A need \in rows[a].needs :
        \E c \in 1..(a - 1) : rows[c].table = need[1] /\ <<"id", need[2]>> \in rows[c].keys

IsPlanned(row) ==
    \E n \in Plain : \E i \in DOMAIN mongo[Steps[n]] :
        \E p \in DOMAIN Plan(n, i) : \E k \in DOMAIN Plan(n, i)[p] :
            Inserts(n, i, p, k) /\ PlanRow(n, i, p, k) = row

IsTxn(row) ==
    /\ row = [table |-> "transactions", keys |-> {<<"id", row.data.id>>}, needs |-> row.needs,
              data |-> [id |-> row.data.id, amount |-> row.data.amount,
                        initiator |-> row.data.initiator, supplier |-> row.data.supplier,
                        bnpl |-> row.data.bnpl, journal |-> row.data.journal]]
    /\ row.data.id # None
    /\ \E d \in OldTxns : d.id = row.data.id /\ d.amount = row.data.amount
    /\ OneOf(row.data.supplier, SuppliersOf(row.data.id))
    /\ OneOf(row.data.bnpl, BnplsOf(row.data.id))
    /\ row.data.journal # {} => \E j \in JournalsOf(row.data.id) : row.data.journal = {j}

Sourced(rows) == \A a \in DOMAIN rows : IsPlanned(rows[a]) \/ IsTxn(rows[a])

RowsInv(rows) == IsList(rows) /\ Apart(rows) /\ Rooted(rows) /\ Sourced(rows)

-----------------------------------------------------------------------------
(* How far the run is.                                                     *)

Active == program.state \in {"running", "done"}

\* The statements that were executed.
Executed(n, i, p, k) ==
    \/ n < program.step
    \/ /\ n = program.step
       /\ \/ i < program.doc
          \/ /\ i = program.doc
             /\ \/ p < program.part
                \/ p = program.part /\ k < program.stmt

\* The documents whose statements were all executed.
Finished(n) ==
    { i \in DOMAIN mongo[Steps[n]] :
        n < program.step \/ (n = program.step /\ i < program.doc) }

ProgramInv ==
    /\ program \in [state : {"off", "running", "failed", "done"}, step : 1..19,
                     doc : Nat \ {0}, part : Nat \ {0}, stmt : Nat \ {0},
                     order : Seq(STRING)]
    /\ program.state = "done" => program.step = 19 /\ program.doc > Len(Docs)
    /\ program.state \in {"off", "failed"} => draft = target
    /\ base \in Nat /\ base <= Len(target) /\ Len(target) <= Len(draft)

\* Between two steps everything is committed.
SyncInv ==
    Active /\ (\/ program.doc > Len(Docs)
               \/ program.doc = 1 /\ program.part = 1 /\ program.stmt = 1)
        => draft = target

MemoInv ==
    /\ memo = [supplierTxn |-> memo.supplierTxn, bnplTxn |-> memo.bnplTxn,
               embedded |-> memo.embedded, categoryIDs |-> memo.categoryIDs,
               inserted |-> memo.inserted]
    /\ IsFiniteSet(DOMAIN memo.embedded)
    /\ DOMAIN memo.embedded \subseteq STRING
    /\ Active =>
        /\ memo.categoryIDs = { mongo["categories"][i].id : i \in Finished(5) }
        /\ \A x \in DOMAIN memo.supplierTxn : memo.supplierTxn[x] \in SuppliersOf(x)
        /\ \A i \in Finished(6) : TxnsOf(mongo["suppliers"][i]) \subseteq DOMAIN memo.supplierTxn
        /\ \A i \in Finished(6) : TxnsOf(mongo["suppliers"][i]) \subseteq DOMAIN memo.embedded
        /\ \A x \in DOMAIN memo.embedded :
              memo.embedded[x] \in Embedded /\ memo.embedded[x].id = x /\ x # None
        /\ \A x \in DOMAIN memo.bnplTxn : memo.bnplTxn[x] \in BnplsOf(x)
        /\ \A i \in Finished(8) : DOMAIN BnplTxnOf(mongo["customers"][i]) \subseteq DOMAIN memo.bnplTxn

\* What the statements of the plan have brought.
PlanInv ==
    Active =>
        \A n \in Plain : \A i \in DOMAIN mongo[Steps[n]] :
          \A p \in DOMAIN Plan(n, i) : \A k \in DOMAIN Plan(n, i)[p] :
            Executed(n, i, p, k) /\ Inserts(n, i, p, k) =>
                IF Plan(n, i)[p][k].skip
                THEN Collides(draft, PlanRow(n, i, p, k))
                ELSE \E a \in (base + 1)..Len(draft) : draft[a] = PlanRow(n, i, p, k)

\* Rows without keys: each of them from a statement of its own.
SerialInv ==
    Active =>
        /\ \A a \in (base + 1)..Len(draft) : draft[a].keys = {} =>
              \E n \in Plain : \E i \in DOMAIN mongo[Steps[n]] :
                \E p \in DOMAIN Plan(n, i) : \E k \in DOMAIN Plan(n, i)[p] :
                  /\ Executed(n, i, p, k) /\ Inserts(n, i, p, k)
                  /\ PlanRow(n, i, p, k) = draft[a]
        /\ \A a, b \in (base + 1)..Len(draft) :
              /\ draft[a].keys = {} /\ draft[b].keys = {}
              /\ draft[a].table = draft[b].table /\ draft[a].data = draft[b].data
              => a = b

\* Journals have claimed what their executed statements name.
LinkInv ==
    Active =>
        \A i \in DOMAIN mongo["journals"] : \A k \in DOMAIN mongo["journals"][i].operations :
            Executed(11, i, 2, k) =>
                \A a \in DOMAIN draft :
                    draft[a].table = "transactions"
                    /\ <<"id", mongo["journals"][i].operations[k]>> \in draft[a].keys
                    => draft[a].data.journal # {}

IsInserted(x) ==
    \E a \in (base + 1)..Len(draft) :
        draft[a].table = "transactions" /\ <<"id", x>> \in draft[a].keys

\* The transactions: every one that the two steps have passed is there.
TxnInv ==
    Active =>
        /\ \A x \in memo.inserted : x # None /\ IsInserted(x)
        /\ \A i \in Finished(9) : mongo["transactions"][i].id \in memo.inserted \cup {None}
        /\ program.step = 10 =>
              /\ \A j \in DOMAIN program.order :
                    /\ program.order[j] \in DOMAIN memo.embedded
                    /\ program.order[j] \notin Ids("transactions")
              /\ \A x \in DOMAIN memo.embedded \ memo.inserted :
                    \E j \in DOMAIN program.order : j >= program.doc /\ program.order[j] = x
        /\ program.step > 10 => DOMAIN memo.embedded \subseteq memo.inserted
        /\ program.step \in {9, 10} /\ program.doc <= Len(Docs)
           /\ Doc.id \notin memo.inserted \cup {None}
           /\ (program.part > 1 \/ program.stmt > 1)
           => IsInserted(Doc.id)

ReportInv ==
    Active /\ program.step > 3 =>
        /\ "activities" \in DOMAIN report
        /\ report["activities"] = Len(mongo["activities"])

IInv ==
    /\ mongo \in Source
    /\ RowsInv(target) /\ RowsInv(draft)
    /\ ProgramInv /\ SyncInv /\ MemoInv
    /\ PlanInv /\ SerialInv /\ LinkInv /\ TxnInv /\ ReportInv

-----------------------------------------------------------------------------
(* The steps, and the database.                                            *)

LEMMA StepNames ==
    /\ DOMAIN Steps = 1..19 /\ Len(Steps) = 19
    /\ Steps[1] = "finance" /\ Steps[2] = "users" /\ Steps[3] = "activities"
    /\ Steps[4] = "brands" /\ Steps[5] = "categories" /\ Steps[6] = "suppliers"
    /\ Steps[7] = "products" /\ Steps[8] = "customers" /\ Steps[9] = "transactions"
    /\ Steps[10] = "embedded" /\ Steps[11] = "journals" /\ Steps[12] = "store_customers"
    /\ Steps[13] = "carts" /\ Steps[14] = "wishlists" /\ Steps[15] = "orders"
    /\ Steps[16] = "reviews" /\ Steps[17] = "promotions" /\ Steps[18] = "proposals"
    /\ Steps[19] = "internal_expenses"
BY DEF Steps

LEMMA PlainSteps ==
    \A n \in Plain : n \in {1, 2, 3, 4, 5, 6, 7, 8, 11, 12, 13, 14, 15, 16, 17, 18, 19}
BY DEF Plain

\* The statements of each step.
LEMMA StatementsOf ==
    ASSUME NEW d, NEW mem
    PROVE  /\ Statements("finance", d, mem) = migrateFinance(d)
           /\ Statements("users", d, mem) = migrateUsers(d)
           /\ Statements("activities", d, mem) = migrateActivities(d)
           /\ Statements("brands", d, mem) = migrateBrands(d)
           /\ Statements("categories", d, mem) = migrateCategories(d)
           /\ Statements("suppliers", d, mem) = migrateSuppliers(d)
           /\ Statements("products", d, mem) = migrateProducts(d, mem.categoryIDs)
           /\ Statements("customers", d, mem) = migrateCustomers(d)
           /\ Statements("transactions", d, mem) = migrateTransactions(d, mem)
           /\ Statements("embedded", d, mem) = migrateTransactions(d, mem)
           /\ Statements("journals", d, mem) = migrateJournals(d)
           /\ Statements("store_customers", d, mem) = migrateStoreCustomers(d)
           /\ Statements("carts", d, mem) = migrateCarts(d)
           /\ Statements("wishlists", d, mem) = migrateWishlists(d)
           /\ Statements("orders", d, mem) = migrateOrders(d)
           /\ Statements("reviews", d, mem) = migrateReviews(d)
           /\ Statements("promotions", d, mem) = migratePromotions(d)
           /\ Statements("proposals", d, mem) = migrateProposals(d)
           /\ Statements("internal_expenses", d, mem) = migrateInternalExpenses(d)
BY Zenon DEF Statements

LEMMA PlanOf ==
    ASSUME NEW i
    PROVE  /\ Plan(1, i) = migrateFinance(mongo["finance"][i])
           /\ Plan(2, i) = migrateUsers(mongo["users"][i])
           /\ Plan(3, i) = migrateActivities(mongo["activities"][i])
           /\ Plan(4, i) = migrateBrands(mongo["brands"][i])
           /\ Plan(5, i) = migrateCategories(mongo["categories"][i])
           /\ Plan(6, i) = migrateSuppliers(mongo["suppliers"][i])
           /\ Plan(7, i) = migrateProducts(mongo["products"][i], Ids("categories"))
           /\ Plan(8, i) = migrateCustomers(mongo["customers"][i])
           /\ Plan(11, i) = migrateJournals(mongo["journals"][i])
           /\ Plan(12, i) = migrateStoreCustomers(mongo["store_customers"][i])
           /\ Plan(13, i) = migrateCarts(mongo["carts"][i])
           /\ Plan(14, i) = migrateWishlists(mongo["wishlists"][i])
           /\ Plan(15, i) = migrateOrders(mongo["orders"][i])
           /\ Plan(16, i) = migrateReviews(mongo["reviews"][i])
           /\ Plan(17, i) = migratePromotions(mongo["promotions"][i])
           /\ Plan(18, i) = migrateProposals(mongo["proposals"][i])
           /\ Plan(19, i) = migrateInternalExpenses(mongo["internal_expenses"][i])
<1>1. FullMemo.categoryIDs = Ids("categories")
  BY DEF FullMemo, NewMemo
<1> HIDE DEF FullMemo
<1>2. Plan(1, i) = migrateFinance(mongo["finance"][i])
  BY <1>1, StepNames, StatementsOf DEF Plan
<1>3. Plan(2, i) = migrateUsers(mongo["users"][i])
  BY <1>1, StepNames, StatementsOf DEF Plan
<1>4. Plan(3, i) = migrateActivities(mongo["activities"][i])
  BY <1>1, StepNames, StatementsOf DEF Plan
<1>5. Plan(4, i) = migrateBrands(mongo["brands"][i])
  BY <1>1, StepNames, StatementsOf DEF Plan
<1>6. Plan(5, i) = migrateCategories(mongo["categories"][i])
  BY <1>1, StepNames, StatementsOf DEF Plan
<1>7. Plan(6, i) = migrateSuppliers(mongo["suppliers"][i])
  BY <1>1, StepNames, StatementsOf DEF Plan
<1>8. Plan(7, i) = migrateProducts(mongo["products"][i], Ids("categories"))
  BY <1>1, StepNames, StatementsOf DEF Plan
<1>9. Plan(8, i) = migrateCustomers(mongo["customers"][i])
  BY <1>1, StepNames, StatementsOf DEF Plan
<1>12. Plan(11, i) = migrateJournals(mongo["journals"][i])
  BY <1>1, StepNames, StatementsOf DEF Plan
<1>13. Plan(12, i) = migrateStoreCustomers(mongo["store_customers"][i])
  BY <1>1, StepNames, StatementsOf DEF Plan
<1>14. Plan(13, i) = migrateCarts(mongo["carts"][i])
  BY <1>1, StepNames, StatementsOf DEF Plan
<1>15. Plan(14, i) = migrateWishlists(mongo["wishlists"][i])
  BY <1>1, StepNames, StatementsOf DEF Plan
<1>16. Plan(15, i) = migrateOrders(mongo["orders"][i])
  BY <1>1, StepNames, StatementsOf DEF Plan
<1>17. Plan(16, i) = migrateReviews(mongo["reviews"][i])
  BY <1>1, StepNames, StatementsOf DEF Plan
<1>18. Plan(17, i) = migratePromotions(mongo["promotions"][i])
  BY <1>1, StepNames, StatementsOf DEF Plan
<1>19. Plan(18, i) = migrateProposals(mongo["proposals"][i])
  BY <1>1, StepNames, StatementsOf DEF Plan
<1>20. Plan(19, i) = migrateInternalExpenses(mongo["internal_expenses"][i])
  BY <1>1, StepNames, StatementsOf DEF Plan
<1> QED  BY <1>2, <1>3, <1>4, <1>5, <1>6, <1>7, <1>8, <1>9, <1>12, <1>13, <1>14, <1>15,
            <1>16, <1>17, <1>18, <1>19, <1>20

LEMMA ExpectedOf ==
    /\ DOMAIN Expected = {"branches", "branch_finance", "users", "activities",
                          "brands", "categories", "suppliers", "products",
                          "product_categories", "product_stock",
                          "product_income_history", "customers", "bnpls",
                          "bnpl_products", "journals", "store_customers",
                          "addresses", "carts", "cart_items", "wishlists",
                          "wishlist_items", "orders", "order_items", "reviews",
                          "review_votes", "promotions", "proposals",
                          "internal_expenses"}
    /\ Expected["branches"] = { d.branch_id : d \in Collection("finance") } \ {None}
    /\ Expected["branch_finance"] = { d.branch_id : d \in Collection("finance") } \ {None}
    /\ Expected["users"] = Ids("users")
    /\ Expected["activities"] = Ids("activities")
    /\ Expected["brands"] = Ids("brands")
    /\ Expected["categories"] = Ids("categories")
    /\ Expected["suppliers"] = Ids("suppliers")
    /\ Expected["products"] = Ids("products")
    /\ Expected["product_categories"] = { pc \in Pairs("products", "category") : pc[2] \in Ids("categories") }
    /\ Expected["product_stock"] = Pairs("products", "stock")
    /\ Expected["product_income_history"] = Numbered("products", "income")
    /\ Expected["customers"] = Ids("customers")
    /\ Expected["bnpls"] = { b.id : b \in Bnpls }
    /\ Expected["bnpl_products"] = UNION { { <<b.id, p>> : p \in Range(b.products) } : b \in Bnpls }
    /\ Expected["journals"] = Ids("journals")
    /\ Expected["store_customers"] = Ids("store_customers")
    /\ Expected["addresses"] = Owned("store_customers", "addresses")
    /\ Expected["carts"] = Ids("carts")
    /\ Expected["cart_items"] = Owned("carts", "items")
    /\ Expected["wishlists"] = Ids("wishlists")
    /\ Expected["wishlist_items"] = Pairs("wishlists", "items")
    /\ Expected["orders"] = Ids("orders")
    /\ Expected["order_items"] = Numbered("orders", "items")
    /\ Expected["reviews"] = Ids("reviews")
    /\ Expected["review_votes"] = { rv \in Pairs("reviews", "voters") : rv[2] # None }
    /\ Expected["promotions"] = Ids("promotions")
    /\ Expected["proposals"] = Ids("proposals")
    /\ Expected["internal_expenses"] = Ids("internal_expenses")
BY DEF Expected

\* What is expected of a document is expected.
LEMMA InExpected ==
    ASSUME NEW c, NEW field, NEW i \in DOMAIN mongo[c]
    PROVE  /\ mongo[c][i] \in Collection(c)
           /\ mongo[c][i].id \in Ids(c)
           /\ \A k \in DOMAIN mongo[c][i][field] :
                 /\ mongo[c][i][field][k] \in Owned(c, field)
                 /\ <<mongo[c][i].id, mongo[c][i][field][k]>> \in Pairs(c, field)
                 /\ <<mongo[c][i].id, k, mongo[c][i][field][k]>> \in Numbered(c, field)
<1>1. mongo[c][i] \in Collection(c)
  BY DEF Collection, Range
<1>2. ASSUME NEW k \in DOMAIN mongo[c][i][field]
      PROVE  /\ mongo[c][i][field][k] \in Owned(c, field)
             /\ <<mongo[c][i].id, mongo[c][i][field][k]>> \in Pairs(c, field)
             /\ <<mongo[c][i].id, k, mongo[c][i][field][k]>> \in Numbered(c, field)
  <2>1. mongo[c][i][field][k] \in Range(mongo[c][i][field])
    BY DEF Range
  <2>2. mongo[c][i][field][k] \in Owned(c, field)
    BY <1>1, <2>1 DEF Owned
  <2>3. <<mongo[c][i].id, mongo[c][i][field][k]>> \in Pairs(c, field)
    BY <1>1, <2>1 DEF Pairs
  <2>4. <<mongo[c][i].id, k, mongo[c][i][field][k]>> \in Numbered(c, field)
    BY <1>1 DEF Numbered
  <2> QED  BY <2>2, <2>3, <2>4
<1> QED  BY <1>1, <1>2 DEF Ids

\* And nothing else is.
LEMMA FromIds ==
    ASSUME NEW c, NEW x \in Ids(c)
    PROVE  \E i \in DOMAIN mongo[c] : x = mongo[c][i].id
BY DEF Ids, Collection, Range

LEMMA FromOwned ==
    ASSUME NEW c, NEW field, NEW x \in Owned(c, field)
    PROVE  \E i \in DOMAIN mongo[c] : \E k \in DOMAIN mongo[c][i][field] :
              x = mongo[c][i][field][k]
<1>1. PICK d \in Collection(c) : x \in Range(d[field])
  BY DEF Owned
<1> QED  BY <1>1 DEF Collection, Range

LEMMA FromPairs ==
    ASSUME NEW c, NEW field, NEW x \in Pairs(c, field)
    PROVE  \E i \in DOMAIN mongo[c] : \E k \in DOMAIN mongo[c][i][field] :
              x = <<mongo[c][i].id, mongo[c][i][field][k]>>
<1>1. PICK d \in Collection(c) : \E y \in Range(d[field]) : x = <<d.id, y>>
  BY DEF Pairs
<1> QED  BY <1>1 DEF Collection, Range

LEMMA FromNumbered ==
    ASSUME NEW c, NEW field, NEW x \in Numbered(c, field)
    PROVE  \E i \in DOMAIN mongo[c] : \E k \in DOMAIN mongo[c][i][field] :
              x = <<mongo[c][i].id, k, mongo[c][i][field][k]>>
<1>1. PICK d \in Collection(c) : \E k \in DOMAIN d[field] : x = <<d.id, k, d[field][k]>>
  BY DEF Numbered
<1> QED  BY <1>1 DEF Collection, Range

-----------------------------------------------------------------------------
(* The statements are what the invariant takes them for.                   *)

KeyedTables == DOMAIN Expected \ (SkipTables \cup SerialTables)

LEMMA KeyedInsert ==
    ASSUME NEW n, NEW i, NEW p, NEW k, NEW row,
           row.table \in KeyedTables, row.data \in Expected[row.table],
           <<"id", row.data>> \in row.keys
    PROVE  IsSound(n, i, p, k, Insert(row))
<1>1. row.table # "activities" /\ row.table # "product_income_history"
      /\ row.table # "order_items"
  BY DEF KeyedTables, SerialTables
<1>2. Insert(row).op = "insert" /\ Insert(row).skip = FALSE /\ Insert(row).row = row
  BY DEF Insert
<1>3. /\ row.table \in DOMAIN Expected /\ row.table \notin SkipTables
      /\ row.table \notin SerialTables
  BY DEF KeyedTables
<1>4. InsertIsSound(n, i, p, k, Insert(row))
  BY <1>1, <1>2, <1>3 DEF InsertIsSound
<1> QED  BY <1>2, <1>4 DEF IsSound

LEMMA RowIsKeyed ==
    ASSUME NEW n, NEW i, NEW p, NEW k, NEW table \in KeyedTables,
           NEW x \in Expected[table], NEW needs
    PROVE  IsSound(n, i, p, k, Insert(Row(table, x, needs)))
<1>1. /\ Row(table, x, needs).table = table /\ Row(table, x, needs).data = x
      /\ <<"id", x>> \in Row(table, x, needs).keys
  BY DEF Row
<1> QED  BY <1>1, KeyedInsert

LEMMA SkipInsert ==
    ASSUME NEW n, NEW i, NEW p, NEW k, NEW table \in SkipTables,
           NEW x \in Expected[table], NEW needs,
           \E need \in needs : need[1] \in RootTables
    PROVE  IsSound(n, i, p, k, InsertOrSkip(Row(table, x, needs)))
<1>1. table \in DOMAIN Expected /\ table \notin SerialTables
  BY ExpectedOf DEF SkipTables, SerialTables
<1>2. table # "activities" /\ table # "product_income_history" /\ table # "order_items"
  BY DEF SkipTables
<1>3. /\ InsertOrSkip(Row(table, x, needs)).op = "insert"
      /\ InsertOrSkip(Row(table, x, needs)).skip = TRUE
      /\ InsertOrSkip(Row(table, x, needs)).row = Row(table, x, needs)
  BY DEF InsertOrSkip
<1>4. /\ Row(table, x, needs).table = table /\ Row(table, x, needs).data = x
      /\ Row(table, x, needs).keys = {<<"id", x>>} /\ Row(table, x, needs).needs = needs
  BY DEF Row
<1> HIDE DEF InsertOrSkip, Row
<1> QED  BY <1>1, <1>2, <1>3, <1>4 DEF IsSound, InsertIsSound

LEMMA KeyedAre ==
    {"branches", "branch_finance", "users", "brands", "categories", "suppliers",
     "products", "product_stock", "customers", "bnpls", "journals", "store_customers",
     "addresses", "carts", "cart_items", "wishlists", "orders", "reviews",
     "promotions", "proposals", "internal_expenses"} \subseteq KeyedTables
<1>1. {"branches", "branch_finance", "users", "brands", "categories", "suppliers",
     "products", "product_stock", "customers", "bnpls", "journals", "store_customers",
     "addresses", "carts", "cart_items", "wishlists", "orders", "reviews",
     "promotions", "proposals", "internal_expenses"} \subseteq DOMAIN Expected
  BY ExpectedOf
<1> QED  BY <1>1 DEF KeyedTables, SkipTables, SerialTables

LEMMA SourceIsDatabase ==
    ASSUME mongo \in Source
    PROVE  IsDatabase(mongo)
BY MigrationAssumption

LEMMA CustomerTypes ==
    ASSUME IsDatabase(mongo), NEW i \in DOMAIN mongo["customers"]
    PROVE  /\ Len(mongo["customers"][i].bnpls) \in Nat
           /\ DOMAIN mongo["customers"][i].bnpls = 1..Len(mongo["customers"][i].bnpls)
           /\ \A j \in DOMAIN mongo["customers"][i].bnpls :
                 LET products == mongo["customers"][i].bnpls[j].products IN
                 Len(products) \in Nat /\ DOMAIN products = 1..Len(products)
<1> DEFINE C == [id : STRING, bnpls : Seq(BnplDoc)]
<1>1. mongo["customers"] \in Seq(C)
  BY DEF IsDatabase
<1>2. mongo["customers"][i] \in C
  <2> HIDE DEF C
  <2> QED  BY <1>1
<1>3. mongo["customers"][i].bnpls \in Seq(BnplDoc)
  BY <1>2
<1>4. \A j \in DOMAIN mongo["customers"][i].bnpls : mongo["customers"][i].bnpls[j] \in BnplDoc
  BY <1>3
<1>5. \A b \in BnplDoc : b.products \in Seq(STRING)
  BY DEF BnplDoc
<1> QED  BY <1>3, <1>4, <1>5

\* The same, of the lists that documents have.
LEMMA FieldsExpected ==
    /\ \A i \in DOMAIN mongo["products"] :
          /\ \A k \in DOMAIN mongo["products"][i].category :
                <<mongo["products"][i].id, mongo["products"][i].category[k]>>
                   \in Pairs("products", "category")
          /\ \A k \in DOMAIN mongo["products"][i].stock :
                <<mongo["products"][i].id, mongo["products"][i].stock[k]>>
                   \in Pairs("products", "stock")
          /\ \A k \in DOMAIN mongo["products"][i].income :
                <<mongo["products"][i].id, k, mongo["products"][i].income[k]>>
                   \in Numbered("products", "income")
    /\ \A i \in DOMAIN mongo["customers"] : \A k \in DOMAIN mongo["customers"][i].bnpls :
          mongo["customers"][i].bnpls[k] \in Bnpls
    /\ \A i \in DOMAIN mongo["store_customers"] :
          \A k \in DOMAIN mongo["store_customers"][i].addresses :
             mongo["store_customers"][i].addresses[k] \in Owned("store_customers", "addresses")
    /\ \A i \in DOMAIN mongo["carts"] : \A k \in DOMAIN mongo["carts"][i].items :
          mongo["carts"][i].items[k] \in Owned("carts", "items")
    /\ \A i \in DOMAIN mongo["wishlists"] : \A k \in DOMAIN mongo["wishlists"][i].items :
          <<mongo["wishlists"][i].id, mongo["wishlists"][i].items[k]>>
             \in Pairs("wishlists", "items")
    /\ \A i \in DOMAIN mongo["orders"] : \A k \in DOMAIN mongo["orders"][i].items :
          <<mongo["orders"][i].id, k, mongo["orders"][i].items[k]>>
             \in Numbered("orders", "items")
    /\ \A i \in DOMAIN mongo["reviews"] : \A k \in DOMAIN mongo["reviews"][i].voters :
          <<mongo["reviews"][i].id, mongo["reviews"][i].voters[k]>>
             \in Pairs("reviews", "voters")
<1>1. ASSUME NEW i \in DOMAIN mongo["products"]
      PROVE  /\ \A k \in DOMAIN mongo["products"][i]["category"] :
                   <<mongo["products"][i].id, mongo["products"][i]["category"][k]>>
                      \in Pairs("products", "category")
             /\ \A k \in DOMAIN mongo["products"][i]["stock"] :
                   <<mongo["products"][i].id, mongo["products"][i]["stock"][k]>>
                      \in Pairs("products", "stock")
             /\ \A k \in DOMAIN mongo["products"][i]["income"] :
                   <<mongo["products"][i].id, k, mongo["products"][i]["income"][k]>>
                      \in Numbered("products", "income")
  BY <1>1, InExpected, Zenon
<1>2. ASSUME NEW i \in DOMAIN mongo["customers"],
             NEW k \in DOMAIN mongo["customers"][i]["bnpls"]
      PROVE  mongo["customers"][i]["bnpls"][k] \in Bnpls
  BY <1>2, InExpected, Zenon DEF Bnpls
<1>3. ASSUME NEW i \in DOMAIN mongo["store_customers"],
             NEW k \in DOMAIN mongo["store_customers"][i]["addresses"]
      PROVE  mongo["store_customers"][i]["addresses"][k] \in Owned("store_customers", "addresses")
  BY <1>3, InExpected, Zenon
<1>4. ASSUME NEW i \in DOMAIN mongo["carts"], NEW k \in DOMAIN mongo["carts"][i]["items"]
      PROVE  mongo["carts"][i]["items"][k] \in Owned("carts", "items")
  BY <1>4, InExpected, Zenon
<1>5. ASSUME NEW i \in DOMAIN mongo["wishlists"], NEW k \in DOMAIN mongo["wishlists"][i]["items"]
      PROVE  <<mongo["wishlists"][i].id, mongo["wishlists"][i]["items"][k]>>
                \in Pairs("wishlists", "items")
  BY <1>5, InExpected, Zenon
<1>6. ASSUME NEW i \in DOMAIN mongo["orders"], NEW k \in DOMAIN mongo["orders"][i]["items"]
      PROVE  <<mongo["orders"][i].id, k, mongo["orders"][i]["items"][k]>>
                \in Numbered("orders", "items")
  BY <1>6, InExpected, Zenon
<1>7. ASSUME NEW i \in DOMAIN mongo["reviews"], NEW k \in DOMAIN mongo["reviews"][i]["voters"]
      PROVE  <<mongo["reviews"][i].id, mongo["reviews"][i]["voters"][k]>>
                \in Pairs("reviews", "voters")
  BY <1>7, InExpected, Zenon
<1> QED  BY <1>1, <1>2, <1>3, <1>4, <1>5, <1>6, <1>7

LEMMA SerialInsert ==
    ASSUME NEW n, NEW i, NEW p, NEW k, NEW table \in SerialTables, NEW needs,
           NEW x \in Expected[table],
           table # "activities" => \E need \in needs : need[1] \in RootTables,
           table = "activities" =>
              n = 3 /\ p = 1 /\ k = 1 /\ x = mongo["activities"][i].id,
           table = "product_income_history" =>
              /\ n = 7 /\ p = 4
              /\ x = <<mongo["products"][i].id, k, mongo["products"][i].income[k]>>,
           table = "order_items" =>
              /\ n = 15 /\ p = 2
              /\ x = <<mongo["orders"][i].id, k, mongo["orders"][i].items[k]>>
    PROVE  IsSound(n, i, p, k, Insert(Serial(table, needs, x)))
<1>1. table \in DOMAIN Expected /\ table \notin SkipTables
  BY ExpectedOf DEF SkipTables, SerialTables
<1>2. /\ Insert(Serial(table, needs, x)).op = "insert"
      /\ Insert(Serial(table, needs, x)).skip = FALSE
      /\ Insert(Serial(table, needs, x)).row = Serial(table, needs, x)
  BY DEF Insert
<1>3. /\ Serial(table, needs, x).table = table /\ Serial(table, needs, x).data = x
      /\ Serial(table, needs, x).keys = {} /\ Serial(table, needs, x).needs = needs
  BY DEF Serial
<1> HIDE DEF Insert, Serial
<1>4. InsertIsSound(n, i, p, k, Insert(Serial(table, needs, x)))
  BY <1>1, <1>2, <1>3 DEF InsertIsSound
<1> QED  BY <1>2, <1>4 DEF IsSound

LEMMA OfCustomerIsKeyed ==
    ASSUME NEW n, NEW i, NEW p, NEW k, NEW table \in KeyedTables, NEW d,
           d.id \in Expected[table]
    PROVE  IsSound(n, i, p, k, OfCustomer(table, d))
<1> DEFINE row == [Row(table, d.id, {<<"store_customers", d.customer_id>>}) EXCEPT
                     !.keys = @ \cup {<<"customer", d.customer_id>>}]
<1>1. OfCustomer(table, d) = Insert(row)
  BY DEF OfCustomer
<1>2. row.table = table /\ row.data = d.id /\ <<"id", d.id>> \in row.keys
  BY DEF Row
<1> HIDE DEF row
<1> QED  BY <1>1, <1>2, KeyedInsert

-----------------------------------------------------------------------------
(* Step by step: the statements of a document are sound.                   *)

LEMMA SoundFinance ==
    ASSUME NEW i \in DOMAIN mongo["finance"],
           NEW p \in DOMAIN Plan(1, i), NEW k \in DOMAIN Plan(1, i)[p]
    PROVE  IsSound(1, i, p, k, Plan(1, i)[p][k])
<1> DEFINE b == mongo["finance"][i].branch_id
<1> DEFINE one == Insert(Row("branches", b, {}))
           two == Insert(Row("branch_finance", b, {<<"branches", b>>}))
<1>0. Plan(1, i) = migrateFinance(mongo["finance"][i])
  BY PlanOf
<1>5. b # None
  <2> SUFFICES ASSUME b = None PROVE FALSE
    OBVIOUS
  <2>1. Plan(1, i) = <<>>
    BY <1>0 DEF migrateFinance
  <2> QED  BY <2>1
<1>6. Plan(1, i) = << <<one, two>> >>
  BY <1>0, <1>5 DEF migrateFinance
<1> HIDE DEF one, two
<1>1. b # None /\ p = 1 /\ k \in {1, 2}
  BY <1>5, <1>6
<1>2. b \in Expected["branches"] /\ b \in Expected["branch_finance"]
  BY <1>1, InExpected, ExpectedOf
<1>3. CASE k = 1
  <2>1. Plan(1, i)[p][k] = Insert(Row("branches", b, {}))
    BY <1>1, <1>3, <1>6 DEF one
  <2> HIDE DEF b
  <2> QED  BY <2>1, <1>2, KeyedAre, RowIsKeyed
<1>4. CASE k = 2
  <2>1. Plan(1, i)[p][k] = Insert(Row("branch_finance", b, {<<"branches", b>>}))
    BY <1>1, <1>4, <1>6 DEF two
  <2> HIDE DEF b
  <2> QED  BY <2>1, <1>2, KeyedAre, RowIsKeyed
<1> QED  BY <1>1, <1>3, <1>4

LEMMA SoundUsers ==
    ASSUME NEW i \in DOMAIN mongo["users"],
           NEW p \in DOMAIN Plan(2, i), NEW k \in DOMAIN Plan(2, i)[p]
    PROVE  IsSound(2, i, p, k, Plan(2, i)[p][k])
<1>1. Plan(2, i)[p][k] = Insert(Row("users", mongo["users"][i].id, {}))
  BY PlanOf DEF migrateUsers
<1> QED  BY <1>1, InExpected, ExpectedOf, KeyedAre, RowIsKeyed

LEMMA SoundActivities ==
    ASSUME NEW i \in DOMAIN mongo["activities"],
           NEW p \in DOMAIN Plan(3, i), NEW k \in DOMAIN Plan(3, i)[p]
    PROVE  IsSound(3, i, p, k, Plan(3, i)[p][k])
<1> DEFINE x == mongo["activities"][i].id
<1>1. p = 1 /\ k = 1 /\ Plan(3, i)[p][k] = Insert(Serial("activities", {}, x))
  BY PlanOf DEF migrateActivities
<1>2. x \in Expected["activities"]
  BY InExpected, ExpectedOf
<1> HIDE DEF x
<1>3. "activities" \in SerialTables /\ "activities" # "product_income_history"
      /\ "activities" # "order_items"
  BY DEF SerialTables
<1>4. x = mongo["activities"][i].id
  BY DEF x
<1>5. IsSound(3, i, 1, 1, Insert(Serial("activities", {}, x)))
  BY <1>2, <1>3, <1>4, SerialInsert
<1> QED  BY <1>1, <1>5

LEMMA SoundBrands ==
    ASSUME NEW i \in DOMAIN mongo["brands"],
           NEW p \in DOMAIN Plan(4, i), NEW k \in DOMAIN Plan(4, i)[p]
    PROVE  IsSound(4, i, p, k, Plan(4, i)[p][k])
<1>1. Plan(4, i)[p][k] = Insert(Row("brands", mongo["brands"][i].id, {}))
  BY PlanOf DEF migrateBrands
<1> QED  BY <1>1, InExpected, ExpectedOf, KeyedAre, RowIsKeyed

LEMMA SoundCategories ==
    ASSUME NEW i \in DOMAIN mongo["categories"],
           NEW p \in DOMAIN Plan(5, i), NEW k \in DOMAIN Plan(5, i)[p]
    PROVE  IsSound(5, i, p, k, Plan(5, i)[p][k])
<1>1. Plan(5, i)[p][k] = Insert(Row("categories", mongo["categories"][i].id, {}))
  BY PlanOf DEF migrateCategories
<1> QED  BY <1>1, InExpected, ExpectedOf, KeyedAre, RowIsKeyed

LEMMA SoundSuppliers ==
    ASSUME NEW i \in DOMAIN mongo["suppliers"],
           NEW p \in DOMAIN Plan(6, i), NEW k \in DOMAIN Plan(6, i)[p]
    PROVE  IsSound(6, i, p, k, Plan(6, i)[p][k])
<1>1. Plan(6, i)[p][k] = Insert(Row("suppliers", mongo["suppliers"][i].id,
                                    Maybe("branches", mongo["suppliers"][i].branch)))
  BY PlanOf DEF migrateSuppliers
<1> QED  BY <1>1, InExpected, ExpectedOf, KeyedAre, RowIsKeyed

LEMMA SoundProducts ==
    ASSUME NEW i \in DOMAIN mongo["products"],
           NEW p \in DOMAIN Plan(7, i), NEW k \in DOMAIN Plan(7, i)[p]
    PROVE  IsSound(7, i, p, k, Plan(7, i)[p][k])
<1> DEFINE d == mongo["products"][i]
<1>1. Plan(7, i) = migrateProducts(d, Ids("categories"))
  BY PlanOf
<1> DEFINE categories ==
             [j \in DOMAIN d.category |->
                IF d.category[j] \in Ids("categories")
                THEN InsertOrSkip(Row("product_categories", <<d.id, d.category[j]>>,
                       {<<"products", d.id>>, <<"categories", d.category[j]>>}))
                ELSE Nothing]
           stock ==
             [j \in DOMAIN d.stock |->
                Insert(Row("product_stock", <<d.id, d.stock[j]>>, {<<"products", d.id>>}))]
           income ==
             [j \in DOMAIN d.income |->
                Insert(Serial("product_income_history", {<<"products", d.id>>},
                              <<d.id, j, d.income[j]>>))]
<1>7. Plan(7, i) = << << Insert(Row("products", d.id, {})) >>, categories, stock, income >>
  BY <1>1 DEF migrateProducts
<1> HIDE DEF categories, stock, income
<1>2. /\ p \in {1, 2, 3, 4}
      /\ Plan(7, i)[2] = categories /\ Plan(7, i)[3] = stock /\ Plan(7, i)[4] = income
  BY <1>7
<1>3. CASE p = 1
  <2>1. Plan(7, i)[p][k] = Insert(Row("products", d.id, {}))
    BY <1>1, <1>3 DEF migrateProducts
  <2> QED  BY <2>1, InExpected, ExpectedOf, KeyedAre, RowIsKeyed
<1>4. CASE p = 2
  <2>1. k \in DOMAIN d.category
    BY <1>2, <1>4 DEF categories
  <2>2. CASE d.category[k] \in Ids("categories")
    <3> DEFINE x == <<d.id, d.category[k]>>
               needs == {<<"products", d.id>>, <<"categories", d.category[k]>>}
    <3>1. Plan(7, i)[p][k] = InsertOrSkip(Row("product_categories", x, needs))
      BY <1>2, <1>4, <2>1, <2>2 DEF categories
    <3>2. x \in Pairs("products", "category")
      BY <2>1, FieldsExpected
    <3>3. x \in Expected["product_categories"]
      BY <3>2, <2>2, ExpectedOf
    <3>4. \E need \in needs : need[1] \in RootTables
      BY DEF RootTables
    <3> HIDE DEF x, needs
    <3> QED  BY <3>1, <3>3, <3>4, SkipInsert DEF SkipTables
  <2>3. CASE d.category[k] \notin Ids("categories")
    <3>1. Plan(7, i)[p][k] = Nothing
      BY <1>2, <1>4, <2>1, <2>3 DEF categories
    <3> QED  BY <3>1 DEF IsSound, Nothing
  <2> QED  BY <2>2, <2>3
<1>5. CASE p = 3
  <2>1. /\ k \in DOMAIN d.stock
        /\ Plan(7, i)[p][k] = Insert(Row("product_stock", <<d.id, d.stock[k]>>,
                                         {<<"products", d.id>>}))
    BY <1>2, <1>5 DEF stock
  <2>3. <<d.id, d.stock[k]>> \in Pairs("products", "stock")
    BY <2>1, FieldsExpected
  <2>2. <<d.id, d.stock[k]>> \in Expected["product_stock"]
    BY <2>3, ExpectedOf
  <2> QED  BY <2>1, <2>2, KeyedAre, RowIsKeyed
<1>6. CASE p = 4
  <2> DEFINE x == <<d.id, k, d.income[k]>>
  <2>1. /\ k \in DOMAIN d.income
        /\ Plan(7, i)[p][k] = Insert(Serial("product_income_history",
                                            {<<"products", d.id>>}, x))
    BY <1>2, <1>6 DEF income
  <2>2. x \in Expected["product_income_history"]
    BY <2>1, FieldsExpected, ExpectedOf
  <2>3. \E need \in {<<"products", d.id>>} : need[1] \in RootTables
    BY DEF RootTables
  <2> QED  BY <1>6, <2>1, <2>2, <2>3, SerialInsert, ExpectedOf DEF SerialTables
<1> QED  BY <1>2, <1>3, <1>4, <1>5, <1>6

LEMMA SoundCustomers ==
    ASSUME mongo \in Source, NEW i \in DOMAIN mongo["customers"],
           NEW p \in DOMAIN Plan(8, i), NEW k \in DOMAIN Plan(8, i)[p]
    PROVE  IsSound(8, i, p, k, Plan(8, i)[p][k])
<1> DEFINE d == mongo["customers"][i]
<1>1. Plan(8, i) = migrateCustomers(d)
  BY PlanOf
<1>2. IsDatabase(mongo)
  BY SourceIsDatabase
<1>3. Len(d.bnpls) \in Nat /\ DOMAIN d.bnpls = 1..Len(d.bnpls)
  BY <1>2, CustomerTypes
<1>4. p \in 1..(Len(d.bnpls) + 1)
  BY <1>1 DEF migrateCustomers, Before
<1>5. CASE p = 1
  <2>1. Plan(8, i)[p] = << Insert(Row("customers", d.id, {})) >>
    BY <1>1, <1>4, <1>5 DEF migrateCustomers, Before
  <2>2. Plan(8, i)[p][k] = Insert(Row("customers", d.id, {}))
    BY <2>1
  <2> QED  BY <2>2, InExpected, ExpectedOf, KeyedAre, RowIsKeyed
<1>6. CASE p # 1
  <2> DEFINE b == d.bnpls[p - 1]
  <2>1. p - 1 \in DOMAIN d.bnpls
    BY <1>3, <1>4, <1>6
  <2>2. Plan(8, i)[p] = migrateBnpl(d, b)
    BY <1>1, <1>4, <1>6, <2>1 DEF migrateCustomers, Before
  <2>3. b \in Bnpls
    BY <2>1, FieldsExpected
  <2>4. Len(b.products) \in Nat /\ DOMAIN b.products = 1..Len(b.products)
    BY <1>2, <2>1, CustomerTypes
  <2> DEFINE list == [j \in DOMAIN b.products |->
                        InsertOrSkip(Row("bnpl_products", <<b.id, b.products[j]>>,
                                         {<<"bnpls", b.id>>}))]
             one == Insert(Row("bnpls", b.id, {<<"customers", d.id>>}
                                                \cup Maybe("branches", b.branch)))
  <2>8. Plan(8, i)[p] = Before(one, list)
    BY <2>2 DEF migrateBnpl
  <2>9. Len(list) = Len(b.products)
    BY <2>4
  <2>10. DOMAIN Plan(8, i)[p] = 1..(Len(b.products) + 1)
    BY <2>8, <2>9 DEF Before
  <2>5. k \in 1..(Len(b.products) + 1)
    BY <2>10
  <2>6. CASE k = 1
    <3>1. Plan(8, i)[p][k] = Insert(Row("bnpls", b.id, {<<"customers", d.id>>}
                                                     \cup Maybe("branches", b.branch)))
      BY <2>2, <2>5, <2>6 DEF migrateBnpl, Before
    <3>2. b.id \in Expected["bnpls"]
      BY <2>3, ExpectedOf
    <3> QED  BY <3>1, <3>2, KeyedAre, RowIsKeyed
  <2>7. CASE k # 1
    <3>9. \A m \in Nat : \A j \in 1..(m + 1) : j # 1 => j - 1 \in 1..m
      OBVIOUS
    <3>1. k - 1 \in DOMAIN b.products
      BY <2>4, <2>5, <2>7, <3>9
    <3> DEFINE x == <<b.id, b.products[k - 1]>>
    <3>2. Plan(8, i)[p][k] = InsertOrSkip(Row("bnpl_products", x, {<<"bnpls", b.id>>}))
      BY <2>2, <2>5, <2>7, <3>1 DEF migrateBnpl, Before
    <3>3. b.products[k - 1] \in Range(b.products)
      BY <3>1 DEF Range
    <3>4. x \in Expected["bnpl_products"]
      BY <2>3, <3>3, ExpectedOf
    <3>5. \E need \in {<<"bnpls", b.id>>} : need[1] \in RootTables
      BY DEF RootTables
    <3> HIDE DEF x
    <3> QED  BY <3>2, <3>4, <3>5, SkipInsert DEF SkipTables
  <2> QED  BY <2>6, <2>7
<1> QED  BY <1>5, <1>6

LEMMA SoundJournals ==
    ASSUME NEW i \in DOMAIN mongo["journals"],
           NEW p \in DOMAIN Plan(11, i), NEW k \in DOMAIN Plan(11, i)[p]
    PROVE  IsSound(11, i, p, k, Plan(11, i)[p][k])
<1> DEFINE d == mongo["journals"][i]
<1>1. Plan(11, i) = migrateJournals(d)
  BY PlanOf
<1>2. p \in {1, 2}
  BY <1>1 DEF migrateJournals
<1>3. d.id \in Expected["journals"] /\ "journals" \in KeyedTables
  BY InExpected, ExpectedOf, KeyedAre
<1>4. CASE p = 1
  <2>1. Plan(11, i)[p][k] = Insert(JournalRow(d))
    BY <1>1, <1>4 DEF migrateJournals
  <2>2. /\ JournalRow(d).table = "journals" /\ JournalRow(d).data = d.id
        /\ <<"id", d.id>> \in JournalRow(d).keys
    BY DEF JournalRow, Row
  <2> QED  BY <1>3, <2>1, <2>2, KeyedInsert
<1>5. CASE p = 2
  <2>1. k \in DOMAIN d.operations
    BY <1>1, <1>5 DEF migrateJournals
  <2>2. Plan(11, i)[p][k] = SetJournal(d.id, d.operations[k])
    BY <1>1, <1>5, <2>1 DEF migrateJournals
  <2> QED  BY <1>5, <2>1, <2>2 DEF IsSound, LinkIsSound, SetJournal
<1> QED  BY <1>2, <1>4, <1>5

LEMMA SoundStoreCustomers ==
    ASSUME NEW i \in DOMAIN mongo["store_customers"],
           NEW p \in DOMAIN Plan(12, i), NEW k \in DOMAIN Plan(12, i)[p]
    PROVE  IsSound(12, i, p, k, Plan(12, i)[p][k])
<1> DEFINE d == mongo["store_customers"][i]
<1>1. Plan(12, i) = migrateStoreCustomers(d)
  BY PlanOf
<1>2. p \in {1, 2}
  BY <1>1 DEF migrateStoreCustomers
<1>3. d.id \in Expected["store_customers"] /\ "store_customers" \in KeyedTables
  BY InExpected, ExpectedOf, KeyedAre
<1>4. CASE p = 1
  <2>1. Plan(12, i)[p][k] = Insert(Row("store_customers", d.id, {}))
    BY <1>1, <1>4 DEF migrateStoreCustomers
  <2> QED  BY <1>3, <2>1, RowIsKeyed
<1>5. CASE p = 2
  <2> DEFINE list == [j \in DOMAIN d.addresses |->
                        Insert(Row("addresses", d.addresses[j], {<<"store_customers", d.id>>}))]
  <2>4. Plan(12, i)[p] = list
    BY <1>1, <1>5 DEF migrateStoreCustomers
  <2>1. k \in DOMAIN d.addresses
    BY <2>4
  <2>2. Plan(12, i)[p][k] = Insert(Row("addresses", d.addresses[k],
                                     {<<"store_customers", d.id>>}))
    BY <2>1, <2>4
  <2>3. d.addresses[k] \in Expected["addresses"]
    BY <2>1, FieldsExpected, ExpectedOf
  <2> QED  BY <2>2, <2>3, KeyedAre, RowIsKeyed
<1> QED  BY <1>2, <1>4, <1>5

LEMMA SoundCarts ==
    ASSUME NEW i \in DOMAIN mongo["carts"],
           NEW p \in DOMAIN Plan(13, i), NEW k \in DOMAIN Plan(13, i)[p]
    PROVE  IsSound(13, i, p, k, Plan(13, i)[p][k])
<1> DEFINE d == mongo["carts"][i]
<1>1. Plan(13, i) = migrateCarts(d)
  BY PlanOf
<1>2. p \in {1, 2}
  BY <1>1 DEF migrateCarts
<1>3. d.id \in Expected["carts"] /\ "carts" \in KeyedTables
  BY InExpected, ExpectedOf, KeyedAre
<1>4. CASE p = 1
  <2>1. Plan(13, i)[p][k] = OfCustomer("carts", d)
    BY <1>1, <1>4 DEF migrateCarts
  <2> QED  BY <1>3, <2>1, OfCustomerIsKeyed
<1>5. CASE p = 2
  <2>1. k \in DOMAIN d.items
    BY <1>1, <1>5 DEF migrateCarts
  <2>2. Plan(13, i)[p][k] = Insert(Row("cart_items", d.items[k],
                                     {<<"carts", d.id>>}))
    BY <1>1, <1>5, <2>1 DEF migrateCarts
  <2>3. d.items[k] \in Expected["cart_items"]
    BY <2>1, FieldsExpected, ExpectedOf
  <2> QED  BY <2>2, <2>3, KeyedAre, RowIsKeyed
<1> QED  BY <1>2, <1>4, <1>5

LEMMA SoundWishlists ==
    ASSUME NEW i \in DOMAIN mongo["wishlists"],
           NEW p \in DOMAIN Plan(14, i), NEW k \in DOMAIN Plan(14, i)[p]
    PROVE  IsSound(14, i, p, k, Plan(14, i)[p][k])
<1> DEFINE d == mongo["wishlists"][i]
<1>1. Plan(14, i) = migrateWishlists(d)
  BY PlanOf
<1>2. p \in {1, 2}
  BY <1>1 DEF migrateWishlists
<1>3. d.id \in Expected["wishlists"] /\ "wishlists" \in KeyedTables
  BY InExpected, ExpectedOf, KeyedAre
<1>4. CASE p = 1
  <2>1. Plan(14, i)[p][k] = OfCustomer("wishlists", d)
    BY <1>1, <1>4 DEF migrateWishlists
  <2> QED  BY <1>3, <2>1, OfCustomerIsKeyed
<1>5. CASE p = 2
  <2>1. k \in DOMAIN d.items
    BY <1>1, <1>5 DEF migrateWishlists
  <2> DEFINE x == <<d.id, d.items[k]>>
  <2>2. Plan(14, i)[p][k] = InsertOrSkip(Row("wishlist_items", x,
                                           {<<"wishlists", d.id>>}))
    BY <1>1, <1>5, <2>1 DEF migrateWishlists
  <2>3. x \in Expected["wishlist_items"]
    BY <2>1, FieldsExpected, ExpectedOf
  <2>4. \E need \in {<<"wishlists", d.id>>} : need[1] \in RootTables
    BY DEF RootTables
  <2> HIDE DEF x
  <2> QED  BY <2>2, <2>3, <2>4, SkipInsert DEF SkipTables
<1> QED  BY <1>2, <1>4, <1>5

LEMMA SoundOrders ==
    ASSUME NEW i \in DOMAIN mongo["orders"],
           NEW p \in DOMAIN Plan(15, i), NEW k \in DOMAIN Plan(15, i)[p]
    PROVE  IsSound(15, i, p, k, Plan(15, i)[p][k])
<1> DEFINE d == mongo["orders"][i]
<1>1. Plan(15, i) = migrateOrders(d)
  BY PlanOf
<1>2. p \in {1, 2}
  BY <1>1 DEF migrateOrders
<1>3. d.id \in Expected["orders"] /\ "orders" \in KeyedTables
  BY InExpected, ExpectedOf, KeyedAre
<1>4. CASE p = 1
  <2>1. Plan(15, i)[p][k] = Insert(Row("orders", d.id, Maybe("store_customers", d.customer_id)))
    BY <1>1, <1>4 DEF migrateOrders
  <2> QED  BY <1>3, <2>1, RowIsKeyed
<1>5. CASE p = 2
  <2>1. k \in DOMAIN d.items
    BY <1>1, <1>5 DEF migrateOrders
  <2> DEFINE x == <<d.id, k, d.items[k]>>
  <2> DEFINE one == << Insert(Row("orders", d.id, Maybe("store_customers", d.customer_id))) >>
             list == [j \in DOMAIN d.items |->
            Insert(Serial("order_items", {<<"orders", d.id>>}, <<d.id, j, d.items[j]>>))]
  <2>5. Plan(15, i) = <<one, list>>
    BY <1>1 DEF migrateOrders
  <2> HIDE DEF one, list
  <2>0. Plan(15, i)[2] = list
    BY <2>5
  <2>2. Plan(15, i)[p][k] = Insert(Serial("order_items", {<<"orders", d.id>>}, x))
    BY <2>0, <1>5, <2>1 DEF list
  <2>3. x \in Expected["order_items"]
    BY <2>1, FieldsExpected, ExpectedOf
  <2>4. \E need \in {<<"orders", d.id>>} : need[1] \in RootTables
    BY DEF RootTables
  <2> QED  BY <1>5, <2>2, <2>3, <2>4, SerialInsert, ExpectedOf DEF SerialTables
<1> QED  BY <1>2, <1>4, <1>5

LEMMA SoundReviews ==
    ASSUME NEW i \in DOMAIN mongo["reviews"],
           NEW p \in DOMAIN Plan(16, i), NEW k \in DOMAIN Plan(16, i)[p]
    PROVE  IsSound(16, i, p, k, Plan(16, i)[p][k])
<1> DEFINE d == mongo["reviews"][i]
           row == [Row("reviews", d.id, {<<"products", d.product_id>>}) EXCEPT
                       !.keys = @ \cup {<<"author", d.product_id, d.customer_id>>}]
           one == << Insert(row) >>
           votes == [j \in DOMAIN d.voters |->
                       IF d.voters[j] = None THEN Nothing
                       ELSE InsertOrSkip(Row("review_votes", <<d.id, d.voters[j]>>,
                                             {<<"reviews", d.id>>}))]
<1>1. Plan(16, i) = <<one, votes>>
  BY PlanOf DEF migrateReviews
<1> HIDE DEF one, votes
<1>2. p \in {1, 2} /\ Plan(16, i)[1] = one /\ Plan(16, i)[2] = votes
  BY <1>1
<1>3. d.id \in Expected["reviews"] /\ "reviews" \in KeyedTables
  BY InExpected, ExpectedOf, KeyedAre
<1>4. CASE p = 1
  <2>1. Plan(16, i)[p][k] = Insert(row)
    BY <1>2, <1>4 DEF one
  <2>2. row.table = "reviews" /\ row.data = d.id /\ <<"id", d.id>> \in row.keys
    BY DEF Row
  <2> HIDE DEF row
  <2> QED  BY <1>3, <2>1, <2>2, KeyedInsert
<1>5. CASE p = 2
  <2>1. k \in DOMAIN d.voters
    BY <1>2, <1>5 DEF votes
  <2>2. CASE d.voters[k] # None
    <3> DEFINE x == <<d.id, d.voters[k]>>
    <3>1. Plan(16, i)[p][k] = InsertOrSkip(Row("review_votes", x, {<<"reviews", d.id>>}))
      BY <1>2, <1>5, <2>1, <2>2 DEF votes
    <3>2. x \in Pairs("reviews", "voters")
      BY <2>1, FieldsExpected
    <3>3. x \in Expected["review_votes"]
      BY <2>2, <3>2, ExpectedOf
    <3>4. \E need \in {<<"reviews", d.id>>} : need[1] \in RootTables
      BY DEF RootTables
    <3> HIDE DEF x
    <3> QED  BY <3>1, <3>3, <3>4, SkipInsert DEF SkipTables
  <2>3. CASE d.voters[k] = None
    <3>1. Plan(16, i)[p][k] = Nothing
      BY <1>2, <1>5, <2>1, <2>3 DEF votes
    <3> QED  BY <3>1 DEF IsSound, Nothing
  <2> QED  BY <2>2, <2>3
<1> QED  BY <1>2, <1>4, <1>5

LEMMA SoundPromotions ==
    ASSUME NEW i \in DOMAIN mongo["promotions"],
           NEW p \in DOMAIN Plan(17, i), NEW k \in DOMAIN Plan(17, i)[p]
    PROVE  IsSound(17, i, p, k, Plan(17, i)[p][k])
<1>1. Plan(17, i)[p][k] = Insert(Row("promotions", mongo["promotions"][i].id, {}))
  BY PlanOf DEF migratePromotions
<1> QED  BY <1>1, InExpected, ExpectedOf, KeyedAre, RowIsKeyed

LEMMA SoundProposals ==
    ASSUME NEW i \in DOMAIN mongo["proposals"],
           NEW p \in DOMAIN Plan(18, i), NEW k \in DOMAIN Plan(18, i)[p]
    PROVE  IsSound(18, i, p, k, Plan(18, i)[p][k])
<1>1. Plan(18, i)[p][k] = Insert(Row("proposals", mongo["proposals"][i].id, {}))
  BY PlanOf DEF migrateProposals
<1> QED  BY <1>1, InExpected, ExpectedOf, KeyedAre, RowIsKeyed

LEMMA SoundInternalExpenses ==
    ASSUME NEW i \in DOMAIN mongo["internal_expenses"],
           NEW p \in DOMAIN Plan(19, i), NEW k \in DOMAIN Plan(19, i)[p]
    PROVE  IsSound(19, i, p, k, Plan(19, i)[p][k])
<1>1. Plan(19, i)[p][k] = Insert(Row("internal_expenses", mongo["internal_expenses"][i].id,
                                     Maybe("branches", mongo["internal_expenses"][i].branch)))
  BY PlanOf DEF migrateInternalExpenses
<1> QED  BY <1>1, InExpected, ExpectedOf, KeyedAre, RowIsKeyed

LEMMA PlanSound ==
    ASSUME mongo \in Source
    PROVE  PlanIsSound
<1> SUFFICES ASSUME NEW n \in Plain, NEW i \in DOMAIN mongo[Steps[n]],
                    NEW p \in DOMAIN Plan(n, i), NEW k \in DOMAIN Plan(n, i)[p]
             PROVE  IsSound(n, i, p, k, Plan(n, i)[p][k])
  BY DEF PlanIsSound
<1>1. CASE n = 1
  BY <1>1, StepNames, SoundFinance
<1>2. CASE n = 2
  BY <1>2, StepNames, SoundUsers
<1>3. CASE n = 3
  BY <1>3, StepNames, SoundActivities
<1>4. CASE n = 4
  BY <1>4, StepNames, SoundBrands
<1>5. CASE n = 5
  BY <1>5, StepNames, SoundCategories
<1>6. CASE n = 6
  BY <1>6, StepNames, SoundSuppliers
<1>7. CASE n = 7
  BY <1>7, StepNames, SoundProducts
<1>8. CASE n = 8
  BY <1>8, StepNames, SoundCustomers
<1>11. CASE n = 11
  BY <1>11, StepNames, SoundJournals
<1>12. CASE n = 12
  BY <1>12, StepNames, SoundStoreCustomers
<1>13. CASE n = 13
  BY <1>13, StepNames, SoundCarts
<1>14. CASE n = 14
  BY <1>14, StepNames, SoundWishlists
<1>15. CASE n = 15
  BY <1>15, StepNames, SoundOrders
<1>16. CASE n = 16
  BY <1>16, StepNames, SoundReviews
<1>17. CASE n = 17
  BY <1>17, StepNames, SoundPromotions
<1>18. CASE n = 18
  BY <1>18, StepNames, SoundProposals
<1>19. CASE n = 19
  BY <1>19, StepNames, SoundInternalExpenses
<1> QED  BY PlainSteps, <1>1, <1>2, <1>3, <1>4, <1>5, <1>6, <1>7, <1>8, <1>11, <1>12,
            <1>13, <1>14, <1>15, <1>16, <1>17, <1>18, <1>19

-----------------------------------------------------------------------------
(* Everything that is expected has its statement.                          *)

HasStatement(table, x) ==
    \E n \in Plain : \E i \in DOMAIN mongo[Steps[n]] :
        \E p \in DOMAIN Plan(n, i) : \E k \in DOMAIN Plan(n, i)[p] :
            /\ Inserts(n, i, p, k)
            /\ PlanRow(n, i, p, k).table = table /\ PlanRow(n, i, p, k).data = x

\* The statement at that place is the one that brings x.
LEMMA AtPlace ==
    ASSUME NEW n \in Plain, NEW i \in DOMAIN mongo[Steps[n]],
           NEW p \in DOMAIN Plan(n, i), NEW k \in DOMAIN Plan(n, i)[p],
           NEW table, NEW x, NEW needs,
           \/ Plan(n, i)[p][k] = Insert(Row(table, x, needs))
           \/ Plan(n, i)[p][k] = InsertOrSkip(Row(table, x, needs))
           \/ Plan(n, i)[p][k] = Insert(Serial(table, needs, x))
           \/ /\ \E row : Plan(n, i)[p][k] = Insert(row)
              /\ Plan(n, i)[p][k].row.table = table /\ Plan(n, i)[p][k].row.data = x
    PROVE  HasStatement(table, x)
<1>1. Plan(n, i)[p][k].op = "insert"
  BY DEF Insert, InsertOrSkip
<1>2. Plan(n, i)[p][k].row.table = table /\ Plan(n, i)[p][k].row.data = x
  BY DEF Insert, InsertOrSkip, Row, Serial
<1> QED  BY <1>1, <1>2 DEF HasStatement, Inserts, PlanRow

LEMMA CompleteFinance ==
    ASSUME NEW i \in DOMAIN mongo["finance"]
    PROVE  mongo["finance"][i].branch_id # None =>
              /\ HasStatement("branches", mongo["finance"][i].branch_id)
              /\ HasStatement("branch_finance", mongo["finance"][i].branch_id)
<1> DEFINE b == mongo["finance"][i].branch_id
           one == Insert(Row("branches", b, {}))
           two == Insert(Row("branch_finance", b, {<<"branches", b>>}))
<1> SUFFICES ASSUME b # None
             PROVE  HasStatement("branches", b) /\ HasStatement("branch_finance", b)
  OBVIOUS
<1>1. Plan(1, i) = << <<one, two>> >>
  BY PlanOf DEF migrateFinance
<1> HIDE DEF one, two
<1>2. /\ 1 \in DOMAIN Plan(1, i) /\ {1, 2} \subseteq DOMAIN Plan(1, i)[1]
      /\ Plan(1, i)[1][1] = one /\ Plan(1, i)[1][2] = two
  BY <1>1
<1>3. HasStatement("branches", b)
  <2>1. Plan(1, i)[1][1] = Insert(Row("branches", b, {}))
    BY <1>2 DEF one
  <2> HIDE DEF b
  <2> QED  BY <1>2, <2>1, StepNames, AtPlace DEF Plain
<1>4. HasStatement("branch_finance", b)
  <2>1. Plan(1, i)[1][2] = Insert(Row("branch_finance", b, {<<"branches", b>>}))
    BY <1>2 DEF two
  <2> HIDE DEF b
  <2> QED  BY <1>2, <2>1, StepNames, AtPlace DEF Plain
<1> QED  BY <1>3, <1>4

LEMMA CompleteUsers ==
    ASSUME NEW i \in DOMAIN mongo["users"]
    PROVE  HasStatement("users", mongo["users"][i].id)
<1>1. Plan(2, i) = << << Insert(Row("users", mongo["users"][i].id, {})) >> >>
  BY PlanOf DEF migrateUsers
<1>2. 1 \in DOMAIN Plan(2, i) /\ 1 \in DOMAIN Plan(2, i)[1]
      /\ Plan(2, i)[1][1] = Insert(Row("users", mongo["users"][i].id, {}))
  BY <1>1
<1> QED  BY <1>2, StepNames, AtPlace DEF Plain

LEMMA CompleteActivities ==
    ASSUME NEW i \in DOMAIN mongo["activities"]
    PROVE  HasStatement("activities", mongo["activities"][i].id)
<1>1. Plan(3, i) = << << Insert(Serial("activities", {}, mongo["activities"][i].id)) >> >>
  BY PlanOf DEF migrateActivities
<1>2. 1 \in DOMAIN Plan(3, i) /\ 1 \in DOMAIN Plan(3, i)[1]
      /\ Plan(3, i)[1][1] = Insert(Serial("activities", {}, mongo["activities"][i].id))
  BY <1>1
<1> QED  BY <1>2, StepNames, AtPlace DEF Plain

LEMMA CompleteBrands ==
    ASSUME NEW i \in DOMAIN mongo["brands"]
    PROVE  HasStatement("brands", mongo["brands"][i].id)
<1>1. Plan(4, i) = << << Insert(Row("brands", mongo["brands"][i].id, {})) >> >>
  BY PlanOf DEF migrateBrands
<1>2. 1 \in DOMAIN Plan(4, i) /\ 1 \in DOMAIN Plan(4, i)[1]
      /\ Plan(4, i)[1][1] = Insert(Row("brands", mongo["brands"][i].id, {}))
  BY <1>1
<1> QED  BY <1>2, StepNames, AtPlace DEF Plain

LEMMA CompleteCategories ==
    ASSUME NEW i \in DOMAIN mongo["categories"]
    PROVE  HasStatement("categories", mongo["categories"][i].id)
<1>1. Plan(5, i) = << << Insert(Row("categories", mongo["categories"][i].id, {})) >> >>
  BY PlanOf DEF migrateCategories
<1>2. 1 \in DOMAIN Plan(5, i) /\ 1 \in DOMAIN Plan(5, i)[1]
      /\ Plan(5, i)[1][1] = Insert(Row("categories", mongo["categories"][i].id, {}))
  BY <1>1
<1> QED  BY <1>2, StepNames, AtPlace DEF Plain

LEMMA CompleteSuppliers ==
    ASSUME NEW i \in DOMAIN mongo["suppliers"]
    PROVE  HasStatement("suppliers", mongo["suppliers"][i].id)
<1>1. Plan(6, i) = << << Insert(Row("suppliers", mongo["suppliers"][i].id,
                                    Maybe("branches", mongo["suppliers"][i].branch))) >> >>
  BY PlanOf DEF migrateSuppliers
<1>2. 1 \in DOMAIN Plan(6, i) /\ 1 \in DOMAIN Plan(6, i)[1]
      /\ Plan(6, i)[1][1] = Insert(Row("suppliers", mongo["suppliers"][i].id,
                                       Maybe("branches", mongo["suppliers"][i].branch)))
  BY <1>1
<1> QED  BY <1>2, StepNames, AtPlace DEF Plain

LEMMA CompleteProducts ==
    ASSUME NEW i \in DOMAIN mongo["products"]
    PROVE  /\ HasStatement("products", mongo["products"][i].id)
           /\ \A k \in DOMAIN mongo["products"][i].category :
                 mongo["products"][i].category[k] \in Ids("categories") =>
                    HasStatement("product_categories",
                                 <<mongo["products"][i].id, mongo["products"][i].category[k]>>)
           /\ \A k \in DOMAIN mongo["products"][i].stock :
                 HasStatement("product_stock",
                              <<mongo["products"][i].id, mongo["products"][i].stock[k]>>)
           /\ \A k \in DOMAIN mongo["products"][i].income :
                 HasStatement("product_income_history",
                              <<mongo["products"][i].id, k, mongo["products"][i].income[k]>>)
<1> DEFINE d == mongo["products"][i]
           one == << Insert(Row("products", d.id, {})) >>
           categories ==
             [j \in DOMAIN d.category |->
                IF d.category[j] \in Ids("categories")
                THEN InsertOrSkip(Row("product_categories", <<d.id, d.category[j]>>,
                       {<<"products", d.id>>, <<"categories", d.category[j]>>}))
                ELSE Nothing]
           stock ==
             [j \in DOMAIN d.stock |->
                Insert(Row("product_stock", <<d.id, d.stock[j]>>, {<<"products", d.id>>}))]
           income ==
             [j \in DOMAIN d.income |->
                Insert(Serial("product_income_history", {<<"products", d.id>>},
                              <<d.id, j, d.income[j]>>))]
<1>1. Plan(7, i) = <<one, categories, stock, income>>
  BY PlanOf DEF migrateProducts
<1> HIDE DEF one, categories, stock, income
<1>2. /\ {1, 2, 3, 4} \subseteq DOMAIN Plan(7, i) /\ Plan(7, i)[1] = one
      /\ Plan(7, i)[2] = categories /\ Plan(7, i)[3] = stock /\ Plan(7, i)[4] = income
  BY <1>1
<1>3. 7 \in Plain /\ i \in DOMAIN mongo[Steps[7]]
  BY StepNames DEF Plain
<1>4. HasStatement("products", d.id)
  <2>1. 1 \in DOMAIN one /\ one[1] = Insert(Row("products", d.id, {}))
    BY DEF one
  <2> QED  BY <1>2, <1>3, <2>1, AtPlace
<1>5. ASSUME NEW k \in DOMAIN d.category, d.category[k] \in Ids("categories")
      PROVE  HasStatement("product_categories", <<d.id, d.category[k]>>)
  <2> DEFINE x == <<d.id, d.category[k]>>
             needs == {<<"products", d.id>>, <<"categories", d.category[k]>>}
  <2>1. /\ k \in DOMAIN categories
        /\ categories[k] = InsertOrSkip(Row("product_categories", x, needs))
    BY <1>5 DEF categories
  <2> HIDE DEF x, needs
  <2>2. HasStatement("product_categories", x)
    BY <1>2, <1>3, <2>1, AtPlace
  <2> QED  BY <2>2 DEF x
<1>6. ASSUME NEW k \in DOMAIN d.stock
      PROVE  HasStatement("product_stock", <<d.id, d.stock[k]>>)
  <2> DEFINE x == <<d.id, d.stock[k]>>
             needs == {<<"products", d.id>>}
  <2>1. k \in DOMAIN stock /\ stock[k] = Insert(Row("product_stock", x, needs))
    BY DEF stock
  <2> HIDE DEF x, needs
  <2>2. HasStatement("product_stock", x)
    BY <1>2, <1>3, <2>1, AtPlace
  <2> QED  BY <2>2 DEF x
<1>7. ASSUME NEW k \in DOMAIN d.income
      PROVE  HasStatement("product_income_history", <<d.id, k, d.income[k]>>)
  <2> DEFINE x == <<d.id, k, d.income[k]>>
             needs == {<<"products", d.id>>}
  <2>1. /\ k \in DOMAIN income
        /\ income[k] = Insert(Serial("product_income_history", needs, x))
    BY DEF income
  <2> HIDE DEF x, needs
  <2>2. HasStatement("product_income_history", x)
    BY <1>2, <1>3, <2>1, AtPlace
  <2> QED  BY <2>2 DEF x
<1> QED  BY <1>4, <1>5, <1>6, <1>7

LEMMA CompleteCustomers ==
    ASSUME mongo \in Source, NEW i \in DOMAIN mongo["customers"]
    PROVE  /\ HasStatement("customers", mongo["customers"][i].id)
           /\ \A j \in DOMAIN mongo["customers"][i].bnpls :
                 /\ HasStatement("bnpls", mongo["customers"][i].bnpls[j].id)
                 /\ \A k \in DOMAIN mongo["customers"][i].bnpls[j].products :
                       HasStatement("bnpl_products",
                                    <<mongo["customers"][i].bnpls[j].id,
                                      mongo["customers"][i].bnpls[j].products[k]>>)
<1> DEFINE d == mongo["customers"][i]
           debts == [j \in DOMAIN d.bnpls |-> migrateBnpl(d, d.bnpls[j])]
<1>1. Plan(8, i) = Before(<< Insert(Row("customers", d.id, {})) >>, debts)
  BY PlanOf DEF migrateCustomers
<1>2. IsDatabase(mongo)
  BY SourceIsDatabase
<1>3. Len(d.bnpls) \in Nat /\ DOMAIN d.bnpls = 1..Len(d.bnpls) /\ Len(debts) = Len(d.bnpls)
  BY <1>2, CustomerTypes
<1>4. 8 \in Plain /\ i \in DOMAIN mongo[Steps[8]]
  BY StepNames DEF Plain
<1> HIDE DEF debts
<1>9. \A m \in Nat : /\ 1 \in 1..(m + 1)
                    /\ \A j \in 1..m : j + 1 \in 1..(m + 1) /\ j + 1 # 1 /\ (j + 1) - 1 = j
  OBVIOUS
<1>5. /\ DOMAIN Plan(8, i) = 1..(Len(d.bnpls) + 1)
      /\ Plan(8, i)[1] = << Insert(Row("customers", d.id, {})) >>
      /\ \A j \in DOMAIN d.bnpls : Plan(8, i)[j + 1] = debts[j]
  <2> DEFINE head == << Insert(Row("customers", d.id, {})) >>
  <2>1. Plan(8, i) = Before(head, debts)
    BY <1>1
  <2> HIDE DEF head, d
  <2>2. DOMAIN Plan(8, i) = 1..(Len(d.bnpls) + 1)
    BY <1>3, <2>1 DEF Before
  <2>3. Plan(8, i)[1] = head
    BY <1>3, <1>9, <2>1 DEF Before
  <2>4. \A j \in DOMAIN d.bnpls : Plan(8, i)[j + 1] = debts[j]
    BY <1>3, <1>9, <2>1 DEF Before
  <2> QED  BY <2>2, <2>3, <2>4 DEF head
<1>6. HasStatement("customers", d.id)
  <2>1. /\ 1 \in DOMAIN Plan(8, i) /\ 1 \in DOMAIN Plan(8, i)[1]
        /\ Plan(8, i)[1][1] = Insert(Row("customers", d.id, {}))
    BY <1>3, <1>5
  <2> QED  BY <1>4, <2>1, AtPlace
<1>7. ASSUME NEW j \in DOMAIN d.bnpls
      PROVE  /\ HasStatement("bnpls", d.bnpls[j].id)
             /\ \A k \in DOMAIN d.bnpls[j].products :
                   HasStatement("bnpl_products", <<d.bnpls[j].id, d.bnpls[j].products[k]>>)
  <2> DEFINE b == d.bnpls[j]
             list == [k \in DOMAIN b.products |->
                        InsertOrSkip(Row("bnpl_products", <<b.id, b.products[k]>>,
                                         {<<"bnpls", b.id>>}))]
             needs == {<<"customers", d.id>>} \cup Maybe("branches", b.branch)
             one == Insert(Row("bnpls", b.id, needs))
  <2>1. j + 1 \in DOMAIN Plan(8, i) /\ Plan(8, i)[j + 1] = Before(one, list)
    <3>1. j + 1 \in DOMAIN Plan(8, i) /\ Plan(8, i)[j + 1] = debts[j]
      BY <1>3, <1>5
    <3>2. debts[j] = migrateBnpl(d, b)
      BY DEF debts
    <3>3. migrateBnpl(d, b) = Before(one, list)
      BY DEF migrateBnpl
    <3> QED  BY <3>1, <3>2, <3>3
  <2>2. Len(b.products) \in Nat /\ DOMAIN b.products = 1..Len(b.products)
        /\ Len(list) = Len(b.products)
    BY <1>2, CustomerTypes
  <2> HIDE DEF one, list
  <2>3. /\ DOMAIN Plan(8, i)[j + 1] = 1..(Len(b.products) + 1)
        /\ Plan(8, i)[j + 1][1] = one
        /\ \A k \in DOMAIN b.products : Plan(8, i)[j + 1][k + 1] = list[k]
    <3>1. \A k \in DOMAIN b.products : k + 1 \in 1..(Len(b.products) + 1)
                                     /\ k + 1 # 1 /\ (k + 1) - 1 = k
      BY <2>2
    <3>2. \A m \in 1..(Len(list) + 1) :
             Plan(8, i)[j + 1][m] = IF m = 1 THEN one ELSE list[m - 1]
      BY <2>1 DEF Before
    <3>3. \A k \in DOMAIN b.products : Plan(8, i)[j + 1][k + 1] = list[k]
      BY <3>1, <3>2, <2>2
    <3>4. DOMAIN Plan(8, i)[j + 1] = 1..(Len(b.products) + 1)
      BY <2>1, <2>2 DEF Before
    <3>5. Plan(8, i)[j + 1][1] = one
      BY <3>2, <2>2
    <3> QED  BY <3>3, <3>4, <3>5
  <2>4. HasStatement("bnpls", b.id)
    <3>1. 1 \in DOMAIN Plan(8, i)[j + 1]
          /\ Plan(8, i)[j + 1][1] = Insert(Row("bnpls", b.id, needs))
      BY <2>2, <2>3 DEF one
    <3> HIDE DEF needs, b
    <3> QED  BY <1>4, <2>1, <3>1, AtPlace
  <2>5. ASSUME NEW k \in DOMAIN b.products
        PROVE  HasStatement("bnpl_products", <<b.id, b.products[k]>>)
    <3> DEFINE x == <<b.id, b.products[k]>>
               root == {<<"bnpls", b.id>>}
    <3>1. list[k] = InsertOrSkip(Row("bnpl_products", x, root))
      BY DEF list
    <3>2. k + 1 \in DOMAIN Plan(8, i)[j + 1]
      BY <2>2, <2>3
    <3>3. Plan(8, i)[j + 1][k + 1] = list[k]
      BY <2>3
    <3> HIDE DEF x, root, b
    <3>4. HasStatement("bnpl_products", x)
      BY <1>4, <2>1, <3>1, <3>2, <3>3, AtPlace
    <3> QED  BY <3>4 DEF x
  <2> QED  BY <2>4, <2>5
<1> QED  BY <1>6, <1>7

LEMMA CompleteStoreCustomers ==
    ASSUME NEW i \in DOMAIN mongo["store_customers"]
    PROVE  /\ HasStatement("store_customers", mongo["store_customers"][i].id)
           /\ \A k \in DOMAIN mongo["store_customers"][i].addresses :
                 HasStatement("addresses",
                    mongo["store_customers"][i].addresses[k])
<1> DEFINE d == mongo["store_customers"][i]
           one == << Insert(Row("store_customers", d.id, {})) >>
           list == [j \in DOMAIN d.addresses |->
                      Insert(Row("addresses", d.addresses[j], {<<"store_customers", d.id>>}))]
<1>1. Plan(12, i) = <<one, list>>
  BY PlanOf DEF migrateStoreCustomers
<1> HIDE DEF one, list
<1>2. {1, 2} \subseteq DOMAIN Plan(12, i) /\ Plan(12, i)[1] = one /\ Plan(12, i)[2] = list
  BY <1>1
<1>3. 12 \in Plain /\ i \in DOMAIN mongo[Steps[12]]
  BY StepNames DEF Plain
<1>4. HasStatement("store_customers", d.id)
  <2>1. 1 \in DOMAIN one /\ one[1] = Insert(Row("store_customers", d.id, {}))
    BY DEF one
  <2> QED  BY <1>2, <1>3, <2>1, AtPlace
<1>5. ASSUME NEW k \in DOMAIN d.addresses
      PROVE  HasStatement("addresses", d.addresses[k])
  <2> DEFINE x == d.addresses[k]
             needs == {<<"store_customers", d.id>>}
  <2>1. k \in DOMAIN list /\ list[k] = Insert(Row("addresses", x, needs))
    BY DEF list
  <2> HIDE DEF x, needs
  <2>2. HasStatement("addresses", x)
    BY <1>2, <1>3, <2>1, AtPlace
  <2> QED  BY <2>2 DEF x
<1> QED  BY <1>4, <1>5

LEMMA CompleteCarts ==
    ASSUME NEW i \in DOMAIN mongo["carts"]
    PROVE  /\ HasStatement("carts", mongo["carts"][i].id)
           /\ \A k \in DOMAIN mongo["carts"][i].items :
                 HasStatement("cart_items",
                    mongo["carts"][i].items[k])
<1> DEFINE d == mongo["carts"][i]
           one == << OfCustomer("carts", d) >>
           list == [j \in DOMAIN d.items |->
                      Insert(Row("cart_items", d.items[j], {<<"carts", d.id>>}))]
<1>1. Plan(13, i) = <<one, list>>
  BY PlanOf DEF migrateCarts
<1> HIDE DEF one, list
<1>2. {1, 2} \subseteq DOMAIN Plan(13, i) /\ Plan(13, i)[1] = one /\ Plan(13, i)[2] = list
  BY <1>1
<1>3. 13 \in Plain /\ i \in DOMAIN mongo[Steps[13]]
  BY StepNames DEF Plain
<1>4. HasStatement("carts", d.id)
  <2> DEFINE row == [Row("carts", d.id, {<<"store_customers", d.customer_id>>}) EXCEPT
                      !.keys = @ \cup {<<"customer", d.customer_id>>}]
  <2>1. 1 \in DOMAIN one /\ one[1] = Insert(row)
    BY DEF one, OfCustomer
  <2>2. row.table = "carts" /\ row.data = d.id
    BY DEF Row
  <2> HIDE DEF row
  <2>3. one[1].row = row
    BY <2>1 DEF Insert
  <2> QED  BY <1>2, <1>3, <2>1, <2>2, <2>3, AtPlace
<1>5. ASSUME NEW k \in DOMAIN d.items
      PROVE  HasStatement("cart_items", d.items[k])
  <2> DEFINE x == d.items[k]
             needs == {<<"carts", d.id>>}
  <2>1. k \in DOMAIN list /\ list[k] = Insert(Row("cart_items", x, needs))
    BY DEF list
  <2> HIDE DEF x, needs
  <2>2. HasStatement("cart_items", x)
    BY <1>2, <1>3, <2>1, AtPlace
  <2> QED  BY <2>2 DEF x
<1> QED  BY <1>4, <1>5

LEMMA CompleteWishlists ==
    ASSUME NEW i \in DOMAIN mongo["wishlists"]
    PROVE  /\ HasStatement("wishlists", mongo["wishlists"][i].id)
           /\ \A k \in DOMAIN mongo["wishlists"][i].items :
                 HasStatement("wishlist_items",
                    <<mongo["wishlists"][i].id, mongo["wishlists"][i].items[k]>>)
<1> DEFINE d == mongo["wishlists"][i]
           one == << OfCustomer("wishlists", d) >>
           list == [j \in DOMAIN d.items |->
                      InsertOrSkip(Row("wishlist_items", <<d.id, d.items[j]>>, {<<"wishlists", d.id>>}))]
<1>1. Plan(14, i) = <<one, list>>
  BY PlanOf DEF migrateWishlists
<1> HIDE DEF one, list
<1>2. {1, 2} \subseteq DOMAIN Plan(14, i) /\ Plan(14, i)[1] = one /\ Plan(14, i)[2] = list
  BY <1>1
<1>3. 14 \in Plain /\ i \in DOMAIN mongo[Steps[14]]
  BY StepNames DEF Plain
<1>4. HasStatement("wishlists", d.id)
  <2> DEFINE row == [Row("wishlists", d.id, {<<"store_customers", d.customer_id>>}) EXCEPT
                      !.keys = @ \cup {<<"customer", d.customer_id>>}]
  <2>1. 1 \in DOMAIN one /\ one[1] = Insert(row)
    BY DEF one, OfCustomer
  <2>2. row.table = "wishlists" /\ row.data = d.id
    BY DEF Row
  <2> HIDE DEF row
  <2>3. one[1].row = row
    BY <2>1 DEF Insert
  <2> QED  BY <1>2, <1>3, <2>1, <2>2, <2>3, AtPlace
<1>5. ASSUME NEW k \in DOMAIN d.items
      PROVE  HasStatement("wishlist_items", <<d.id, d.items[k]>>)
  <2> DEFINE x == <<d.id, d.items[k]>>
             needs == {<<"wishlists", d.id>>}
  <2>1. k \in DOMAIN list /\ list[k] = InsertOrSkip(Row("wishlist_items", x, needs))
    BY DEF list
  <2> HIDE DEF x, needs
  <2>2. HasStatement("wishlist_items", x)
    BY <1>2, <1>3, <2>1, AtPlace
  <2> QED  BY <2>2 DEF x
<1> QED  BY <1>4, <1>5

LEMMA CompleteOrders ==
    ASSUME NEW i \in DOMAIN mongo["orders"]
    PROVE  /\ HasStatement("orders", mongo["orders"][i].id)
           /\ \A k \in DOMAIN mongo["orders"][i].items :
                 HasStatement("order_items",
                    <<mongo["orders"][i].id, k, mongo["orders"][i].items[k]>>)
<1> DEFINE d == mongo["orders"][i]
           one == << Insert(Row("orders", d.id, Maybe("store_customers", d.customer_id))) >>
           list == [j \in DOMAIN d.items |->
                      Insert(Serial("order_items", {<<"orders", d.id>>}, <<d.id, j, d.items[j]>>))]
<1>1. Plan(15, i) = <<one, list>>
  BY PlanOf DEF migrateOrders
<1> HIDE DEF one, list
<1>2. {1, 2} \subseteq DOMAIN Plan(15, i) /\ Plan(15, i)[1] = one /\ Plan(15, i)[2] = list
  BY <1>1
<1>3. 15 \in Plain /\ i \in DOMAIN mongo[Steps[15]]
  BY StepNames DEF Plain
<1>4. HasStatement("orders", d.id)
  <2>1. 1 \in DOMAIN one /\ one[1] = Insert(Row("orders", d.id, Maybe("store_customers", d.customer_id)))
    BY DEF one
  <2> QED  BY <1>2, <1>3, <2>1, AtPlace
<1>5. ASSUME NEW k \in DOMAIN d.items
      PROVE  HasStatement("order_items", <<d.id, k, d.items[k]>>)
  <2> DEFINE x == <<d.id, k, d.items[k]>>
             needs == {<<"orders", d.id>>}
  <2>1. k \in DOMAIN list /\ list[k] = Insert(Serial("order_items", needs, x))
    BY DEF list
  <2> HIDE DEF x, needs
  <2>2. HasStatement("order_items", x)
    BY <1>2, <1>3, <2>1, AtPlace
  <2> QED  BY <2>2 DEF x
<1> QED  BY <1>4, <1>5

LEMMA CompleteReviews ==
    ASSUME NEW i \in DOMAIN mongo["reviews"]
    PROVE  /\ HasStatement("reviews", mongo["reviews"][i].id)
           /\ \A k \in DOMAIN mongo["reviews"][i].voters :
                 mongo["reviews"][i].voters[k] # None =>
                    HasStatement("review_votes",
                                 <<mongo["reviews"][i].id, mongo["reviews"][i].voters[k]>>)
<1> DEFINE d == mongo["reviews"][i]
           one == << Insert([Row("reviews", d.id, {<<"products", d.product_id>>}) EXCEPT
                       !.keys = @ \cup {<<"author", d.product_id, d.customer_id>>}]) >>
           list == [j \in DOMAIN d.voters |->
                      IF d.voters[j] = None THEN Nothing
                      ELSE InsertOrSkip(Row("review_votes", <<d.id, d.voters[j]>>,
                                            {<<"reviews", d.id>>}))]
<1>1. Plan(16, i) = <<one, list>>
  BY PlanOf DEF migrateReviews
<1> HIDE DEF one, list
<1>2. {1, 2} \subseteq DOMAIN Plan(16, i) /\ Plan(16, i)[1] = one /\ Plan(16, i)[2] = list
  BY <1>1
<1>3. 16 \in Plain /\ i \in DOMAIN mongo[Steps[16]]
  BY StepNames DEF Plain
<1>4. HasStatement("reviews", d.id)
  <2> DEFINE row == [Row("reviews", d.id, {<<"products", d.product_id>>}) EXCEPT
                       !.keys = @ \cup {<<"author", d.product_id, d.customer_id>>}]
  <2>1. 1 \in DOMAIN one /\ one[1] = Insert(row)
    BY DEF one
  <2>2. row.table = "reviews" /\ row.data = d.id
    BY DEF Row
  <2> HIDE DEF row
  <2>3. one[1].row = row
    BY <2>1 DEF Insert
  <2> QED  BY <1>2, <1>3, <2>1, <2>2, <2>3, AtPlace
<1>5. ASSUME NEW k \in DOMAIN d.voters, d.voters[k] # None
      PROVE  HasStatement("review_votes", <<d.id, d.voters[k]>>)
  <2> DEFINE x == <<d.id, d.voters[k]>>
             needs == {<<"reviews", d.id>>}
  <2>1. k \in DOMAIN list /\ list[k] = InsertOrSkip(Row("review_votes", x, needs))
    BY <1>5 DEF list
  <2> HIDE DEF x, needs
  <2>2. HasStatement("review_votes", x)
    BY <1>2, <1>3, <2>1, AtPlace
  <2> QED  BY <2>2 DEF x
<1> QED  BY <1>4, <1>5

LEMMA CompleteJournals ==
    ASSUME NEW i \in DOMAIN mongo["journals"]
    PROVE  /\ HasStatement("journals", mongo["journals"][i].id)
           /\ \A k \in DOMAIN mongo["journals"][i].operations :
                 /\ Planned(11, i, 2, k)
                 /\ Plan(11, i)[2][k] = SetJournal(mongo["journals"][i].id,
                                                   mongo["journals"][i].operations[k])
<1> DEFINE d == mongo["journals"][i]
           one == << Insert(JournalRow(d)) >>
           list == [j \in DOMAIN d.operations |-> SetJournal(d.id, d.operations[j])]
<1>1. Plan(11, i) = <<one, list>>
  BY PlanOf DEF migrateJournals
<1> HIDE DEF one, list
<1>2. {1, 2} \subseteq DOMAIN Plan(11, i) /\ Plan(11, i)[1] = one /\ Plan(11, i)[2] = list
  BY <1>1
<1>3. 11 \in Plain /\ i \in DOMAIN mongo[Steps[11]]
  BY StepNames DEF Plain
<1>4. HasStatement("journals", d.id)
  <2>1. 1 \in DOMAIN one /\ one[1] = Insert(JournalRow(d))
    BY DEF one
  <2>2. JournalRow(d).table = "journals" /\ JournalRow(d).data = d.id
    BY DEF JournalRow, Row
  <2>3. one[1].row = JournalRow(d)
    BY <2>1 DEF Insert
  <2> QED  BY <1>2, <1>3, <2>1, <2>2, <2>3, AtPlace
<1>5. \A k \in DOMAIN d.operations :
         k \in DOMAIN list /\ list[k] = SetJournal(d.id, d.operations[k])
  BY DEF list
<1> QED  BY <1>2, <1>3, <1>4, <1>5 DEF Planned

LEMMA CompletePromotions ==
    ASSUME NEW i \in DOMAIN mongo["promotions"]
    PROVE  HasStatement("promotions", mongo["promotions"][i].id)
<1>1. Plan(17, i) = << << Insert(Row("promotions", mongo["promotions"][i].id, {})) >> >>
  BY PlanOf DEF migratePromotions
<1>2. 1 \in DOMAIN Plan(17, i) /\ 1 \in DOMAIN Plan(17, i)[1]
      /\ Plan(17, i)[1][1] = Insert(Row("promotions", mongo["promotions"][i].id, {}))
  BY <1>1
<1> QED  BY <1>2, StepNames, AtPlace DEF Plain

LEMMA CompleteProposals ==
    ASSUME NEW i \in DOMAIN mongo["proposals"]
    PROVE  HasStatement("proposals", mongo["proposals"][i].id)
<1>1. Plan(18, i) = << << Insert(Row("proposals", mongo["proposals"][i].id, {})) >> >>
  BY PlanOf DEF migrateProposals
<1>2. 1 \in DOMAIN Plan(18, i) /\ 1 \in DOMAIN Plan(18, i)[1]
      /\ Plan(18, i)[1][1] = Insert(Row("proposals", mongo["proposals"][i].id, {}))
  BY <1>1
<1> QED  BY <1>2, StepNames, AtPlace DEF Plain

LEMMA CompleteInternalExpenses ==
    ASSUME NEW i \in DOMAIN mongo["internal_expenses"]
    PROVE  HasStatement("internal_expenses", mongo["internal_expenses"][i].id)
<1>1. Plan(19, i) = << << Insert(Row("internal_expenses", mongo["internal_expenses"][i].id,
                                     Maybe("branches", mongo["internal_expenses"][i].branch))) >> >>
  BY PlanOf DEF migrateInternalExpenses
<1>2. 1 \in DOMAIN Plan(19, i) /\ 1 \in DOMAIN Plan(19, i)[1]
      /\ Plan(19, i)[1][1] = Insert(Row("internal_expenses", mongo["internal_expenses"][i].id,
                                        Maybe("branches", mongo["internal_expenses"][i].branch)))
  BY <1>1
<1> QED  BY <1>2, StepNames, AtPlace DEF Plain

\* Everything that is expected is brought.
LEMMA PlanComplete ==
    ASSUME mongo \in Source, NEW table \in DOMAIN Expected, NEW x \in Expected[table]
    PROVE  HasStatement(table, x)
<1>1. CASE table = "branches"
  <2>1. x # None /\ \E d \in Collection("finance") : x = d.branch_id
    BY <1>1, ExpectedOf
  <2>2. PICK i \in DOMAIN mongo["finance"] : x = mongo["finance"][i].branch_id
    BY <2>1 DEF Collection, Range
  <2> QED  BY <1>1, <2>1, <2>2, CompleteFinance
<1>2. CASE table = "branch_finance"
  <2>1. x # None /\ \E d \in Collection("finance") : x = d.branch_id
    BY <1>2, ExpectedOf
  <2>2. PICK i \in DOMAIN mongo["finance"] : x = mongo["finance"][i].branch_id
    BY <2>1 DEF Collection, Range
  <2> QED  BY <1>2, <2>1, <2>2, CompleteFinance
<1>3. CASE table = "users"
  <2>2. x \in Ids("users")
    BY <1>3, ExpectedOf
  <2>1. PICK i \in DOMAIN mongo["users"] : x = mongo["users"][i].id
    BY <2>2, FromIds
  <2> QED  BY <1>3, <2>1, CompleteUsers
<1>4. CASE table = "activities"
  <2>2. x \in Ids("activities")
    BY <1>4, ExpectedOf
  <2>1. PICK i \in DOMAIN mongo["activities"] : x = mongo["activities"][i].id
    BY <2>2, FromIds
  <2> QED  BY <1>4, <2>1, CompleteActivities
<1>5. CASE table = "brands"
  <2>2. x \in Ids("brands")
    BY <1>5, ExpectedOf
  <2>1. PICK i \in DOMAIN mongo["brands"] : x = mongo["brands"][i].id
    BY <2>2, FromIds
  <2> QED  BY <1>5, <2>1, CompleteBrands
<1>6. CASE table = "categories"
  <2>2. x \in Ids("categories")
    BY <1>6, ExpectedOf
  <2>1. PICK i \in DOMAIN mongo["categories"] : x = mongo["categories"][i].id
    BY <2>2, FromIds
  <2> QED  BY <1>6, <2>1, CompleteCategories
<1>7. CASE table = "suppliers"
  <2>2. x \in Ids("suppliers")
    BY <1>7, ExpectedOf
  <2>1. PICK i \in DOMAIN mongo["suppliers"] : x = mongo["suppliers"][i].id
    BY <2>2, FromIds
  <2> QED  BY <1>7, <2>1, CompleteSuppliers
<1>8. CASE table = "products"
  <2>2. x \in Ids("products")
    BY <1>8, ExpectedOf
  <2>1. PICK i \in DOMAIN mongo["products"] : x = mongo["products"][i].id
    BY <2>2, FromIds
  <2> QED  BY <1>8, <2>1, CompleteProducts
<1>9. CASE table = "customers"
  <2>2. x \in Ids("customers")
    BY <1>9, ExpectedOf
  <2>1. PICK i \in DOMAIN mongo["customers"] : x = mongo["customers"][i].id
    BY <2>2, FromIds
  <2> QED  BY <1>9, <2>1, CompleteCustomers
<1>10. CASE table = "journals"
  <2>2. x \in Ids("journals")
    BY <1>10, ExpectedOf
  <2>1. PICK i \in DOMAIN mongo["journals"] : x = mongo["journals"][i].id
    BY <2>2, FromIds
  <2> QED  BY <1>10, <2>1, CompleteJournals
<1>11. CASE table = "store_customers"
  <2>2. x \in Ids("store_customers")
    BY <1>11, ExpectedOf
  <2>1. PICK i \in DOMAIN mongo["store_customers"] : x = mongo["store_customers"][i].id
    BY <2>2, FromIds
  <2> QED  BY <1>11, <2>1, CompleteStoreCustomers
<1>12. CASE table = "carts"
  <2>2. x \in Ids("carts")
    BY <1>12, ExpectedOf
  <2>1. PICK i \in DOMAIN mongo["carts"] : x = mongo["carts"][i].id
    BY <2>2, FromIds
  <2> QED  BY <1>12, <2>1, CompleteCarts
<1>13. CASE table = "wishlists"
  <2>2. x \in Ids("wishlists")
    BY <1>13, ExpectedOf
  <2>1. PICK i \in DOMAIN mongo["wishlists"] : x = mongo["wishlists"][i].id
    BY <2>2, FromIds
  <2> QED  BY <1>13, <2>1, CompleteWishlists
<1>14. CASE table = "orders"
  <2>2. x \in Ids("orders")
    BY <1>14, ExpectedOf
  <2>1. PICK i \in DOMAIN mongo["orders"] : x = mongo["orders"][i].id
    BY <2>2, FromIds
  <2> QED  BY <1>14, <2>1, CompleteOrders
<1>15. CASE table = "reviews"
  <2>2. x \in Ids("reviews")
    BY <1>15, ExpectedOf
  <2>1. PICK i \in DOMAIN mongo["reviews"] : x = mongo["reviews"][i].id
    BY <2>2, FromIds
  <2> QED  BY <1>15, <2>1, CompleteReviews
<1>16. CASE table = "promotions"
  <2>2. x \in Ids("promotions")
    BY <1>16, ExpectedOf
  <2>1. PICK i \in DOMAIN mongo["promotions"] : x = mongo["promotions"][i].id
    BY <2>2, FromIds
  <2> QED  BY <1>16, <2>1, CompletePromotions
<1>17. CASE table = "proposals"
  <2>2. x \in Ids("proposals")
    BY <1>17, ExpectedOf
  <2>1. PICK i \in DOMAIN mongo["proposals"] : x = mongo["proposals"][i].id
    BY <2>2, FromIds
  <2> QED  BY <1>17, <2>1, CompleteProposals
<1>18. CASE table = "internal_expenses"
  <2>2. x \in Ids("internal_expenses")
    BY <1>18, ExpectedOf
  <2>1. PICK i \in DOMAIN mongo["internal_expenses"] : x = mongo["internal_expenses"][i].id
    BY <2>2, FromIds
  <2> QED  BY <1>18, <2>1, CompleteInternalExpenses
<1>19. CASE table = "product_categories"
  <2> DEFINE f == "category"
  <2>1. x \in Pairs("products", f) /\ x[2] \in Ids("categories")
    BY <1>19, ExpectedOf
  <2> HIDE DEF f
  <2>2. PICK i \in DOMAIN mongo["products"] : \E k \in DOMAIN mongo["products"][i][f] :
           x = <<mongo["products"][i].id, mongo["products"][i][f][k]>>
    BY <2>1, FromPairs
  <2>3. PICK k \in DOMAIN mongo["products"][i].category :
           x = <<mongo["products"][i].id, mongo["products"][i].category[k]>>
    BY <2>2 DEF f
  <2>4. mongo["products"][i].category[k] \in Ids("categories")
    BY <2>1, <2>3
  <2> QED  BY <1>19, <2>3, <2>4, CompleteProducts
<1>20. CASE table = "product_stock"
  <2> DEFINE f == "stock"
  <2>1. x \in Pairs("products", f)
    BY <1>20, ExpectedOf
  <2> HIDE DEF f
  <2>2. PICK i \in DOMAIN mongo["products"] : \E k \in DOMAIN mongo["products"][i][f] :
           x = <<mongo["products"][i].id, mongo["products"][i][f][k]>>
    BY <2>1, FromPairs
  <2>3. \E k \in DOMAIN mongo["products"][i].stock :
           x = <<mongo["products"][i].id, mongo["products"][i].stock[k]>>
    BY <2>2 DEF f
  <2> QED  BY <1>20, <2>3, CompleteProducts
<1>21. CASE table = "product_income_history"
  <2> DEFINE f == "income"
  <2>1. x \in Numbered("products", f)
    BY <1>21, ExpectedOf
  <2> HIDE DEF f
  <2>2. PICK i \in DOMAIN mongo["products"] : \E k \in DOMAIN mongo["products"][i][f] :
           x = <<mongo["products"][i].id, k, mongo["products"][i][f][k]>>
    BY <2>1, FromNumbered
  <2>3. \E k \in DOMAIN mongo["products"][i].income :
           x = <<mongo["products"][i].id, k, mongo["products"][i].income[k]>>
    BY <2>2 DEF f
  <2> QED  BY <1>21, <2>3, CompleteProducts
<1>22. CASE table = "addresses"
  <2> DEFINE f == "addresses"
  <2>1. x \in Owned("store_customers", f)
    BY <1>22, ExpectedOf
  <2> HIDE DEF f
  <2>2. PICK i \in DOMAIN mongo["store_customers"] : \E k \in DOMAIN mongo["store_customers"][i][f] :
           x = mongo["store_customers"][i][f][k]
    BY <2>1, FromOwned
  <2>3. \E k \in DOMAIN mongo["store_customers"][i].addresses :
           x = mongo["store_customers"][i].addresses[k]
    BY <2>2 DEF f
  <2> QED  BY <1>22, <2>3, CompleteStoreCustomers
<1>23. CASE table = "cart_items"
  <2> DEFINE f == "items"
  <2>1. x \in Owned("carts", f)
    BY <1>23, ExpectedOf
  <2> HIDE DEF f
  <2>2. PICK i \in DOMAIN mongo["carts"] : \E k \in DOMAIN mongo["carts"][i][f] :
           x = mongo["carts"][i][f][k]
    BY <2>1, FromOwned
  <2>3. \E k \in DOMAIN mongo["carts"][i].items :
           x = mongo["carts"][i].items[k]
    BY <2>2 DEF f
  <2> QED  BY <1>23, <2>3, CompleteCarts
<1>24. CASE table = "wishlist_items"
  <2> DEFINE f == "items"
  <2>1. x \in Pairs("wishlists", f)
    BY <1>24, ExpectedOf
  <2> HIDE DEF f
  <2>2. PICK i \in DOMAIN mongo["wishlists"] : \E k \in DOMAIN mongo["wishlists"][i][f] :
           x = <<mongo["wishlists"][i].id, mongo["wishlists"][i][f][k]>>
    BY <2>1, FromPairs
  <2>3. \E k \in DOMAIN mongo["wishlists"][i].items :
           x = <<mongo["wishlists"][i].id, mongo["wishlists"][i].items[k]>>
    BY <2>2 DEF f
  <2> QED  BY <1>24, <2>3, CompleteWishlists
<1>25. CASE table = "order_items"
  <2> DEFINE f == "items"
  <2>1. x \in Numbered("orders", f)
    BY <1>25, ExpectedOf
  <2> HIDE DEF f
  <2>2. PICK i \in DOMAIN mongo["orders"] : \E k \in DOMAIN mongo["orders"][i][f] :
           x = <<mongo["orders"][i].id, k, mongo["orders"][i][f][k]>>
    BY <2>1, FromNumbered
  <2>3. \E k \in DOMAIN mongo["orders"][i].items :
           x = <<mongo["orders"][i].id, k, mongo["orders"][i].items[k]>>
    BY <2>2 DEF f
  <2> QED  BY <1>25, <2>3, CompleteOrders
<1>26. CASE table = "review_votes"
  <2> DEFINE f == "voters"
  <2>1. x \in Pairs("reviews", f) /\ x[2] # None
    BY <1>26, ExpectedOf
  <2> HIDE DEF f
  <2>2. PICK i \in DOMAIN mongo["reviews"] : \E k \in DOMAIN mongo["reviews"][i][f] :
           x = <<mongo["reviews"][i].id, mongo["reviews"][i][f][k]>>
    BY <2>1, FromPairs
  <2>3. PICK k \in DOMAIN mongo["reviews"][i].voters :
           x = <<mongo["reviews"][i].id, mongo["reviews"][i].voters[k]>>
    BY <2>2 DEF f
  <2>4. mongo["reviews"][i].voters[k] # None
    BY <2>1, <2>3
  <2> QED  BY <1>26, <2>3, <2>4, CompleteReviews
<1>27. CASE table = "bnpls"
  <2>1. PICK b \in Bnpls : x = b.id
    BY <1>27, ExpectedOf
  <2> DEFINE f == "bnpls"
  <2>5. b \in Owned("customers", f)
    BY DEF Bnpls
  <2> HIDE DEF f
  <2>2. PICK i \in DOMAIN mongo["customers"] :
           \E j \in DOMAIN mongo["customers"][i][f] : b = mongo["customers"][i][f][j]
    BY <2>5, FromOwned
  <2>3. PICK j \in DOMAIN mongo["customers"][i].bnpls : b = mongo["customers"][i].bnpls[j]
    BY <2>2 DEF f
  <2> QED  BY <1>27, <2>1, <2>3, CompleteCustomers
<1>28. CASE table = "bnpl_products"
  <2>1. PICK b \in Bnpls : \E y \in Range(b.products) : x = <<b.id, y>>
    BY <1>28, ExpectedOf
  <2> DEFINE f == "bnpls"
  <2>5. b \in Owned("customers", f)
    BY DEF Bnpls
  <2> HIDE DEF f
  <2>2. PICK i \in DOMAIN mongo["customers"] :
           \E j \in DOMAIN mongo["customers"][i][f] : b = mongo["customers"][i][f][j]
    BY <2>5, FromOwned
  <2>3. PICK j \in DOMAIN mongo["customers"][i].bnpls : b = mongo["customers"][i].bnpls[j]
    BY <2>2 DEF f
  <2>4. PICK k \in DOMAIN b.products : x = <<b.id, b.products[k]>>
    BY <2>1 DEF Range
  <2> QED  BY <1>28, <2>3, <2>4, CompleteCustomers
<1> QED
  BY ExpectedOf, <1>1, <1>2, <1>3, <1>4, <1>5, <1>6, <1>7, <1>8, <1>9, <1>10,
     <1>11, <1>12, <1>13, <1>14, <1>15, <1>16, <1>17, <1>18, <1>19, <1>20,
     <1>21, <1>22, <1>23, <1>24, <1>25, <1>26, <1>27, <1>28

-----------------------------------------------------------------------------
(* The old database does not change.                                       *)

LEMMA SamePlan ==
    ASSUME mongo' = mongo
    PROVE  /\ \A n, i : Plan(n, i)' = Plan(n, i)
           /\ \A n, i, p, k : Inserts(n, i, p, k)' = Inserts(n, i, p, k)
           /\ \A n, i, p, k : PlanRow(n, i, p, k)' = PlanRow(n, i, p, k)
<1>1. \A n, i : Plan(n, i)' = Plan(n, i)
  BY DEF Plan, FullMemo, Ids, Collection
<1> QED  BY <1>1 DEF Inserts, PlanRow

LEMMA SameOld ==
    ASSUME mongo' = mongo
    PROVE  /\ OldTxns' = OldTxns
           /\ \A x : /\ SuppliersOf(x)' = SuppliersOf(x)
                     /\ BnplsOf(x)' = BnplsOf(x)
                     /\ JournalsOf(x)' = JournalsOf(x)
           /\ \A c : Ids(c)' = Ids(c)
           /\ Embedded' = Embedded
<1>1. \A c : Collection(c)' = Collection(c)
  BY DEF Collection
<1>2. \A c : Ids(c)' = Ids(c)
  BY <1>1 DEF Ids
<1>3. \A c, field : Owned(c, field)' = Owned(c, field)
  BY <1>1 DEF Owned
<1>4. Embedded' = Embedded /\ Bnpls' = Bnpls
  BY <1>3 DEF Embedded, Bnpls
<1>5. OldTxns' = OldTxns
  BY <1>1, <1>2, <1>4 DEF OldTxns
<1>6. \A x : SuppliersOf(x)' = SuppliersOf(x)
  BY <1>1 DEF SuppliersOf
<1>7. \A x : BnplsOf(x)' = BnplsOf(x)
  BY <1>4 DEF BnplsOf
<1>8. \A x : JournalsOf(x)' = JournalsOf(x)
  BY <1>1 DEF JournalsOf
<1> QED  BY <1>2, <1>4, <1>5, <1>6, <1>7, <1>8

LEMMA SameTxn ==
    ASSUME mongo' = mongo
    PROVE  \A row : IsTxn(row)' = IsTxn(row)
BY SameOld DEF IsTxn

LEMMA SamePlanned ==
    ASSUME mongo' = mongo
    PROVE  \A row : IsPlanned(row)' = IsPlanned(row)
BY SamePlan DEF IsPlanned

-----------------------------------------------------------------------------
(* Lists.                                                                  *)

LEMMA SeqIsList ==
    ASSUME NEW S, NEW s \in Seq(S)
    PROVE  IsList(s) /\ \A i \in DOMAIN s : s[i] \in S
BY DEF IsList

\* A list with an element for each of another's.
LEMMA MapIsList ==
    ASSUME NEW s, IsList(s), NEW f, DOMAIN f = DOMAIN s,
           f = [i \in DOMAIN s |-> f[i]]
    PROVE  IsList(f) /\ Len(f) = Len(s)
<1>1. f \in [1..Len(s) -> { f[i] : i \in DOMAIN s }]
  BY DEF IsList
<1>2. f \in Seq({ f[i] : i \in DOMAIN s })
  BY <1>1 DEF IsList
<1>3. Len(f) = Len(s)
  BY <1>1, <1>2 DEF IsList
<1> QED  BY <1>3 DEF IsList

LEMMA BeforeIsList ==
    ASSUME NEW one, NEW list, IsList(list)
    PROVE  /\ IsList(Before(one, list))
           /\ Len(Before(one, list)) = Len(list) + 1
           /\ Before(one, list)[1] = one
           /\ \A k \in 2..(Len(list) + 1) : Before(one, list)[k] = list[k - 1]
<1> DEFINE b == Before(one, list)  n == Len(list) + 1
<1>1. DOMAIN b = 1..n /\ n \in Nat /\ n >= 1
  BY DEF Before, IsList
<1>2. b = [k \in 1..n |-> b[k]]
  BY DEF Before
<1>3. b \in [1..n -> { b[k] : k \in 1..n }]
  BY <1>2
<1>4. b[1] = one
  BY <1>1 DEF Before
<1>5. \A k \in 2..n : b[k] = list[k - 1]
  BY <1>1 DEF Before
<1> HIDE DEF b
<1>6. Len(b) = n
  BY <1>1, <1>3
<1> QED  BY <1>1, <1>4, <1>5, <1>6 DEF IsList, b

LEMMA OneIsList ==
    ASSUME NEW a
    PROVE  IsList(<<a>>) /\ Len(<<a>>) = 1
BY DEF IsList

LEMMA TwoIsList ==
    ASSUME NEW a, NEW b
    PROVE  /\ IsList(<<a, b>>) /\ Len(<<a, b>>) = 2
           /\ <<a, b>>[1] = a /\ <<a, b>>[2] = b
BY DEF IsList

\* The lists of the old database.
LEMMA CollectionsAreLists ==
    ASSUME mongo \in Source
    PROVE  /\ \A n \in 1..19 : n # 10 => IsList(mongo[Steps[n]])
           /\ IsList(mongo["transactions"]) /\ IsList(mongo["suppliers"])
           /\ IsList(mongo["activities"])
<1>0. IsDatabase(mongo)
  BY SourceIsDatabase
<1>1. \A c \in {"users", "activities", "brands", "categories", "promotions", "proposals"} :
         IsList(mongo[c])
  BY <1>0, SeqIsList DEF IsDatabase
<1>2. /\ IsList(mongo["finance"]) /\ IsList(mongo["suppliers"]) /\ IsList(mongo["products"])
      /\ IsList(mongo["customers"]) /\ IsList(mongo["transactions"])
      /\ IsList(mongo["journals"]) /\ IsList(mongo["store_customers"])
      /\ IsList(mongo["reviews"]) /\ IsList(mongo["internal_expenses"])
  BY <1>0, SeqIsList DEF IsDatabase
<1>3. \A c \in {"carts", "wishlists", "orders"} : IsList(mongo[c])
  BY <1>0, SeqIsList DEF IsDatabase
<1> QED  BY <1>1, <1>2, <1>3, StepNames

LEMMA FieldsAreLists ==
    ASSUME mongo \in Source
    PROVE  /\ \A i \in DOMAIN mongo["products"] :
                 /\ IsList(mongo["products"][i].category)
                 /\ IsList(mongo["products"][i].stock)
                 /\ IsList(mongo["products"][i].income)
           /\ \A i \in DOMAIN mongo["journals"] : IsList(mongo["journals"][i].operations)
           /\ \A i \in DOMAIN mongo["store_customers"] :
                 IsList(mongo["store_customers"][i].addresses)
           /\ \A c \in {"carts", "wishlists", "orders"} :
                 \A i \in DOMAIN mongo[c] : IsList(mongo[c][i].items)
           /\ \A i \in DOMAIN mongo["reviews"] : IsList(mongo["reviews"][i].voters)
           /\ \A i \in DOMAIN mongo["suppliers"] : IsList(mongo["suppliers"][i].transactions)
<1>0. IsDatabase(mongo)
  BY SourceIsDatabase
<1>1. ASSUME NEW i \in DOMAIN mongo["products"]
      PROVE  /\ IsList(mongo["products"][i].category)
             /\ IsList(mongo["products"][i].stock)
             /\ IsList(mongo["products"][i].income)
  <2> DEFINE P == [id : STRING, category : Seq(STRING), stock : Seq(STRING), income : Seq(STRING)]
  <2>1. mongo["products"] \in Seq(P)
    BY <1>0 DEF IsDatabase
  <2>2. mongo["products"][i] \in P
    <3> HIDE DEF P
    <3> QED  BY <2>1, SeqIsList
  <2> QED  BY <2>2, SeqIsList
<1>2. ASSUME NEW i \in DOMAIN mongo["journals"]
      PROVE  IsList(mongo["journals"][i].operations)
  <2> DEFINE P == [id : STRING, branch : STRING, date : Int, total : Int,
                   operations : Seq(STRING)]
  <2>1. mongo["journals"] \in Seq(P)
    BY <1>0 DEF IsDatabase
  <2>2. mongo["journals"][i] \in P
    <3> HIDE DEF P
    <3> QED  BY <2>1, SeqIsList
  <2> QED  BY <2>2, SeqIsList
<1>3. ASSUME NEW i \in DOMAIN mongo["store_customers"]
      PROVE  IsList(mongo["store_customers"][i].addresses)
  <2> DEFINE P == [id : STRING, addresses : Seq(STRING)]
  <2>1. mongo["store_customers"] \in Seq(P)
    BY <1>0 DEF IsDatabase
  <2>2. mongo["store_customers"][i] \in P
    <3> HIDE DEF P
    <3> QED  BY <2>1, SeqIsList
  <2> QED  BY <2>2, SeqIsList
<1>4. ASSUME NEW c \in {"carts", "wishlists", "orders"}, NEW i \in DOMAIN mongo[c]
      PROVE  IsList(mongo[c][i].items)
  <2> DEFINE P == [id : STRING, customer_id : STRING, items : Seq(STRING)]
  <2>1. mongo[c] \in Seq(P)
    BY <1>0 DEF IsDatabase
  <2>2. mongo[c][i] \in P
    <3> HIDE DEF P
    <3> QED  BY <2>1, SeqIsList
  <2> QED  BY <2>2, SeqIsList
<1>5. ASSUME NEW i \in DOMAIN mongo["reviews"]
      PROVE  IsList(mongo["reviews"][i].voters)
  <2> DEFINE P == [id : STRING, product_id : STRING, customer_id : STRING,
                   voters : Seq(STRING)]
  <2>1. mongo["reviews"] \in Seq(P)
    BY <1>0 DEF IsDatabase
  <2>2. mongo["reviews"][i] \in P
    <3> HIDE DEF P
    <3> QED  BY <2>1, SeqIsList
  <2> QED  BY <2>2, SeqIsList
<1>6. ASSUME NEW i \in DOMAIN mongo["suppliers"]
      PROVE  IsList(mongo["suppliers"][i].transactions)
  <2> DEFINE P == [id : STRING, branch : STRING, transactions : Seq(TxnDoc)]
  <2>1. mongo["suppliers"] \in Seq(P)
    BY <1>0 DEF IsDatabase
  <2>2. mongo["suppliers"][i] \in P
    <3> HIDE DEF P
    <3> QED  BY <2>1, SeqIsList
  <2> QED  BY <2>2, SeqIsList
<1> QED  BY <1>1, <1>2, <1>3, <1>4, <1>5, <1>6

\* Statements come in lists of lists.
IsScript(s) == IsList(s) /\ \A p \in DOMAIN s : IsList(s[p])

LEMMA OneScript ==
    ASSUME NEW a, IsList(a)
    PROVE  IsScript(<<a>>)
BY OneIsList DEF IsScript

LEMMA TwoScript ==
    ASSUME NEW a, NEW b, IsList(a), IsList(b)
    PROVE  IsScript(<<a, b>>)
BY TwoIsList DEF IsScript, IsList

LEMMA PlanShape ==
    ASSUME mongo \in Source, NEW n \in Plain, NEW i \in DOMAIN mongo[Steps[n]]
    PROVE  IsScript(Plan(n, i))
<1>0. \A s : s = <<>> => IsScript(s)
  BY DEF IsScript, IsList
<1>1. CASE n = 1
  <2>1. Plan(1, i) = <<>> \/ \E a, b : Plan(1, i) = << <<a, b>> >>
    BY PlanOf DEF migrateFinance
  <2> QED  BY <1>0, <1>1, <2>1, TwoIsList, OneScript
<1>2. CASE n \in {2, 3, 4, 5, 6, 17, 18, 19}
  <2>0. \A one : IsScript(<< <<one>> >>)
    BY OneIsList, OneScript
  <2>2. Plan(2, i) = << << Insert(Row("users", mongo["users"][i].id, {})) >> >>
    BY PlanOf DEF migrateUsers
  <2>3. Plan(3, i) = << << Insert(Serial("activities", {}, mongo["activities"][i].id)) >> >>
    BY PlanOf DEF migrateActivities
  <2>4. Plan(4, i) = << << Insert(Row("brands", mongo["brands"][i].id, {})) >> >>
    BY PlanOf DEF migrateBrands
  <2>5. Plan(5, i) = << << Insert(Row("categories", mongo["categories"][i].id, {})) >> >>
    BY PlanOf DEF migrateCategories
  <2>6. Plan(6, i) = << << Insert(Row("suppliers", mongo["suppliers"][i].id,
                                      Maybe("branches", mongo["suppliers"][i].branch))) >> >>
    BY PlanOf DEF migrateSuppliers
  <2>17. Plan(17, i) = << << Insert(Row("promotions", mongo["promotions"][i].id, {})) >> >>
    BY PlanOf DEF migratePromotions
  <2>18. Plan(18, i) = << << Insert(Row("proposals", mongo["proposals"][i].id, {})) >> >>
    BY PlanOf DEF migrateProposals
  <2>19. Plan(19, i) = << << Insert(Row("internal_expenses", mongo["internal_expenses"][i].id,
                                      Maybe("branches", mongo["internal_expenses"][i].branch))) >> >>
    BY PlanOf DEF migrateInternalExpenses
  <2> QED  BY <1>2, <2>0, <2>2, <2>3, <2>4, <2>5, <2>6, <2>17, <2>18, <2>19
<1>7. CASE n = 7
  <2> DEFINE d == mongo["products"][i]
             one == << Insert(Row("products", d.id, {})) >>
             categories ==
               [j \in DOMAIN d.category |->
                  IF d.category[j] \in Ids("categories")
                  THEN InsertOrSkip(Row("product_categories", <<d.id, d.category[j]>>,
                         {<<"products", d.id>>, <<"categories", d.category[j]>>}))
                  ELSE Nothing]
             stock ==
               [j \in DOMAIN d.stock |->
                  Insert(Row("product_stock", <<d.id, d.stock[j]>>, {<<"products", d.id>>}))]
             income ==
               [j \in DOMAIN d.income |->
                  Insert(Serial("product_income_history", {<<"products", d.id>>},
                                <<d.id, j, d.income[j]>>))]
  <2>0. IsList(d.category) /\ IsList(d.stock) /\ IsList(d.income)
    BY <1>7, StepNames, FieldsAreLists
  <2>1. Plan(7, i) = <<one, categories, stock, income>>
    BY PlanOf DEF migrateProducts
  <2>2. /\ DOMAIN categories = DOMAIN d.category /\ DOMAIN stock = DOMAIN d.stock
        /\ DOMAIN income = DOMAIN d.income
        /\ categories = [j \in DOMAIN d.category |-> categories[j]]
        /\ stock = [j \in DOMAIN d.stock |-> stock[j]]
        /\ income = [j \in DOMAIN d.income |-> income[j]]
    OBVIOUS
  <2>3. IsList(one)
    BY OneIsList
  <2> HIDE DEF one, categories, stock, income
  <2>4. IsList(categories) /\ IsList(stock) /\ IsList(income)
    BY <2>0, <2>2, MapIsList
  <2> QED  BY <1>7, <2>1, <2>3, <2>4 DEF IsScript, IsList
<1>8. CASE n = 8
  <2> DEFINE d == mongo["customers"][i]
             debts == [j \in DOMAIN d.bnpls |-> migrateBnpl(d, d.bnpls[j])]
  <2>0. i \in DOMAIN mongo["customers"] /\ IsDatabase(mongo)
    BY <1>8, StepNames, SourceIsDatabase
  <2>1. IsList(d.bnpls)
    BY <2>0, CustomerTypes DEF IsList
  <2>2. debts = [j \in DOMAIN d.bnpls |-> debts[j]] /\ DOMAIN debts = DOMAIN d.bnpls
    OBVIOUS
  <2>3. \A j \in DOMAIN d.bnpls : IsList(debts[j])
    <3> SUFFICES ASSUME NEW j \in DOMAIN d.bnpls PROVE IsList(debts[j])
      OBVIOUS
    <3> DEFINE b == d.bnpls[j]
               list == [k \in DOMAIN b.products |->
                          InsertOrSkip(Row("bnpl_products", <<b.id, b.products[k]>>,
                                           {<<"bnpls", b.id>>}))]
               one == Insert(Row("bnpls", b.id, {<<"customers", d.id>>}
                                                 \cup Maybe("branches", b.branch)))
    <3>1. debts[j] = Before(one, list)
      BY DEF migrateBnpl
    <3>2. IsList(b.products)
      BY <2>0, CustomerTypes DEF IsList
    <3>3. list = [k \in DOMAIN b.products |-> list[k]] /\ DOMAIN list = DOMAIN b.products
      OBVIOUS
    <3> HIDE DEF list, one
    <3>4. IsList(list)
      BY <3>2, <3>3, MapIsList
    <3> QED  BY <3>1, <3>4, BeforeIsList
  <2>4. Plan(8, i) = Before(<< Insert(Row("customers", d.id, {})) >>, debts)
    BY PlanOf DEF migrateCustomers
  <2> HIDE DEF debts, d
  <2>5. IsList(debts)
    BY <2>1, <2>2, MapIsList
  <2> DEFINE one == << Insert(Row("customers", d.id, {})) >>
  <2>6. IsList(one)
    BY OneIsList
  <2> HIDE DEF one
  <2>7. IsList(Before(one, debts))
    BY <2>5, BeforeIsList
  <2>8. \A p \in DOMAIN Before(one, debts) :
           Before(one, debts)[p] = one \/ \E j \in DOMAIN debts : Before(one, debts)[p] = debts[j]
    <3> SUFFICES ASSUME NEW p \in DOMAIN Before(one, debts), p # 1
                 PROVE  \E j \in DOMAIN debts : Before(one, debts)[p] = debts[j]
      BY <2>5, BeforeIsList
    <3>1. p \in 2..(Len(debts) + 1) /\ p - 1 \in DOMAIN debts
      BY <2>5, BeforeIsList DEF IsList
    <3> QED  BY <3>1, <2>5, BeforeIsList
  <2> QED  BY <1>8, <2>2, <2>3, <2>4, <2>6, <2>7, <2>8 DEF IsScript, one
<1>11. CASE n = 11
  <2> DEFINE d == mongo["journals"][i]
             one == << Insert(JournalRow(d)) >>
             list == [j \in DOMAIN d.operations |-> SetJournal(d.id, d.operations[j])]
  <2>0. IsList(d.operations)
    BY <1>11, StepNames, FieldsAreLists
  <2>1. Plan(11, i) = <<one, list>>
    BY PlanOf DEF migrateJournals
  <2>2. list = [j \in DOMAIN d.operations |-> list[j]] /\ DOMAIN list = DOMAIN d.operations
    OBVIOUS
  <2>3. IsList(one)
    BY OneIsList
  <2> HIDE DEF one, list
  <2>4. IsList(list)
    BY <2>0, <2>2, MapIsList
  <2> QED  BY <1>11, <2>1, <2>3, <2>4, TwoScript
<1>12. CASE n = 12
  <2> DEFINE d == mongo["store_customers"][i]
             one == << Insert(Row("store_customers", d.id, {})) >>
             list == [j \in DOMAIN d.addresses |->
                        Insert(Row("addresses", d.addresses[j], {<<"store_customers", d.id>>}))]
  <2>0. IsList(d.addresses)
    BY <1>12, StepNames, FieldsAreLists
  <2>1. Plan(12, i) = <<one, list>>
    BY PlanOf DEF migrateStoreCustomers
  <2>2. list = [j \in DOMAIN d.addresses |-> list[j]] /\ DOMAIN list = DOMAIN d.addresses
    OBVIOUS
  <2>3. IsList(one)
    BY OneIsList
  <2> HIDE DEF one, list
  <2>4. IsList(list)
    BY <2>0, <2>2, MapIsList
  <2> QED  BY <1>12, <2>1, <2>3, <2>4, TwoScript
<1>13. CASE n = 13
  <2> DEFINE d == mongo["carts"][i]
             one == << OfCustomer("carts", d) >>
             list == [j \in DOMAIN d.items |->
                        Insert(Row("cart_items", d.items[j], {<<"carts", d.id>>}))]
  <2>0. IsList(d.items)
    BY <1>13, StepNames, FieldsAreLists
  <2>1. Plan(13, i) = <<one, list>>
    BY PlanOf DEF migrateCarts
  <2>2. list = [j \in DOMAIN d.items |-> list[j]] /\ DOMAIN list = DOMAIN d.items
    OBVIOUS
  <2>3. IsList(one)
    BY OneIsList
  <2> HIDE DEF one, list
  <2>4. IsList(list)
    BY <2>0, <2>2, MapIsList
  <2> QED  BY <1>13, <2>1, <2>3, <2>4, TwoScript
<1>14. CASE n = 14
  <2> DEFINE d == mongo["wishlists"][i]
             one == << OfCustomer("wishlists", d) >>
             list == [j \in DOMAIN d.items |->
                       InsertOrSkip(Row("wishlist_items", <<d.id, d.items[j]>>,
                                        {<<"wishlists", d.id>>}))]
  <2>0. IsList(d.items)
    BY <1>14, StepNames, FieldsAreLists
  <2>1. Plan(14, i) = <<one, list>>
    BY PlanOf DEF migrateWishlists
  <2>2. list = [j \in DOMAIN d.items |-> list[j]] /\ DOMAIN list = DOMAIN d.items
    OBVIOUS
  <2>3. IsList(one)
    BY OneIsList
  <2> HIDE DEF one, list
  <2>4. IsList(list)
    BY <2>0, <2>2, MapIsList
  <2> QED  BY <1>14, <2>1, <2>3, <2>4, TwoScript
<1>15. CASE n = 15
  <2> DEFINE d == mongo["orders"][i]
             one == << Insert(Row("orders", d.id, Maybe("store_customers", d.customer_id))) >>
             list == [j \in DOMAIN d.items |->
                       Insert(Serial("order_items", {<<"orders", d.id>>},
                                     <<d.id, j, d.items[j]>>))]
  <2>0. IsList(d.items)
    BY <1>15, StepNames, FieldsAreLists
  <2>1. Plan(15, i) = <<one, list>>
    BY PlanOf DEF migrateOrders
  <2>2. list = [j \in DOMAIN d.items |-> list[j]] /\ DOMAIN list = DOMAIN d.items
    OBVIOUS
  <2>3. IsList(one)
    BY OneIsList
  <2> HIDE DEF one, list
  <2>4. IsList(list)
    BY <2>0, <2>2, MapIsList
  <2> QED  BY <1>15, <2>1, <2>3, <2>4, TwoScript
<1>16. CASE n = 16
  <2> DEFINE d == mongo["reviews"][i]
             one == << Insert([Row("reviews", d.id, {<<"products", d.product_id>>}) EXCEPT
                         !.keys = @ \cup {<<"author", d.product_id, d.customer_id>>}]) >>
             list == [j \in DOMAIN d.voters |->
                       IF d.voters[j] = None THEN Nothing
                       ELSE InsertOrSkip(Row("review_votes", <<d.id, d.voters[j]>>,
                                             {<<"reviews", d.id>>}))]
  <2>0. IsList(d.voters)
    BY <1>16, StepNames, FieldsAreLists
  <2>1. Plan(16, i) = <<one, list>>
    BY PlanOf DEF migrateReviews
  <2>2. list = [j \in DOMAIN d.voters |-> list[j]] /\ DOMAIN list = DOMAIN d.voters
    OBVIOUS
  <2>3. IsList(one)
    BY OneIsList
  <2> HIDE DEF one, list
  <2>4. IsList(list)
    BY <2>0, <2>2, MapIsList
  <2> QED  BY <1>16, <2>1, <2>3, <2>4, TwoScript
<1> QED
  BY PlainSteps, <1>1, <1>2, <1>7, <1>8, <1>11, <1>12, <1>13, <1>14, <1>15, <1>16

-----------------------------------------------------------------------------
(* Where the run is.                                                       *)

LEMMA DocsAre ==
    ASSUME mongo \in Source, ProgramInv
    PROVE  /\ IsList(Docs)
           /\ program.step # 10 => Docs = mongo[Steps[program.step]]
           /\ program.step = 10 =>
                 /\ DOMAIN Docs = DOMAIN program.order
                 /\ \A j \in DOMAIN Docs : Docs[j] = memo.embedded[program.order[j]]
<1>1. program.step \in 1..19 /\ program.order \in Seq(STRING)
  BY DEF ProgramInv
<1>2. CASE program.step # 10
  <2>1. StepName # "embedded"
    BY <1>1, <1>2, StepNames DEF StepName
  <2>2. Docs = mongo[Steps[program.step]]
    BY <2>1 DEF Docs, StepName
  <2> QED  BY <1>1, <1>2, <2>2, CollectionsAreLists
<1>3. CASE program.step = 10
  <2>1. StepName = "embedded"
    BY <1>3, StepNames DEF StepName
  <2> DEFINE order == program.order
  <2>2. Docs = [i \in DOMAIN order |-> memo.embedded[order[i]]]
    BY <2>1 DEF Docs
  <2>3. IsList(order)
    BY <1>1, SeqIsList
  <2> HIDE DEF order
  <2>4. DOMAIN Docs = DOMAIN order /\ Docs = [i \in DOMAIN order |-> Docs[i]]
        /\ \A j \in DOMAIN order : Docs[j] = memo.embedded[order[j]]
    BY <2>2
  <2>5. IsList(Docs)
    BY <2>3, <2>4, MapIsList
  <2> QED  BY <1>3, <2>4, <2>5 DEF order
<1> QED  BY <1>2, <1>3

\* All documents of the steps before are finished.
LEMMA FinishedAll ==
    ASSUME NEW n, n < program.step
    PROVE  Finished(n) = DOMAIN mongo[Steps[n]]
BY DEF Finished

LEMMA KnownCategories ==
    ASSUME mongo \in Source, ProgramInv, MemoInv, Active, program.step > 5
    PROVE  memo.categoryIDs = Ids("categories")
<1>1. Finished(5) = DOMAIN mongo["categories"]
  BY FinishedAll, StepNames
<1>2. memo.categoryIDs = { mongo["categories"][i].id : i \in DOMAIN mongo["categories"] }
  BY <1>1 DEF MemoInv
<1> QED  BY <1>2 DEF Ids, Collection, Range

LEMMA ScriptIsPlanned ==
    ASSUME mongo \in Source, ProgramInv, MemoInv, Running, program.step \in Plain,
           program.doc <= Len(Docs)
    PROVE  /\ program.doc \in DOMAIN mongo[Steps[program.step]]
           /\ Script = Plan(program.step, program.doc)
<1>1. /\ program.step \in 1..19 /\ program.step # 10 /\ program.step # 9
      /\ program.doc \in Nat \ {0}
  BY DEF ProgramInv, Plain
<1>2. Docs = mongo[Steps[program.step]] /\ IsList(Docs)
  BY <1>1, DocsAre
<1>3. program.doc \in DOMAIN mongo[Steps[program.step]]
  BY <1>1, <1>2 DEF IsList
<1> DEFINE d == mongo[Steps[program.step]][program.doc]
<1>4. Script = Statements(Steps[program.step], d, memo)
  BY <1>2 DEF Script, StepName, Doc
<1>5. Plan(program.step, program.doc) = Statements(Steps[program.step], d, FullMemo)
  BY DEF Plan
<1> HIDE DEF d
<1>6. CASE program.step = 7
  <2>1. memo.categoryIDs = Ids("categories")
    BY <1>6, KnownCategories DEF Running, Active
  <2>2. FullMemo.categoryIDs = Ids("categories")
    BY DEF FullMemo, NewMemo
  <2>3. Steps[program.step] = "products"
    BY <1>6, StepNames
  <2> HIDE DEF FullMemo
  <2> QED  BY <1>3, <1>4, <1>5, <2>1, <2>2, <2>3, StatementsOf
<1>7. CASE program.step # 7
  <2>1. Steps[program.step] \in {"finance", "users", "activities", "brands", "categories",
           "suppliers", "customers", "journals", "store_customers", "carts", "wishlists",
           "orders", "reviews", "promotions", "proposals", "internal_expenses"}
    BY <1>7, PlainSteps, StepNames
  <2>2. Statements(Steps[program.step], d, memo) = Statements(Steps[program.step], d, FullMemo)
    BY <2>1, StatementsOf
  <2> QED  BY <1>3, <1>4, <1>5, <2>2
<1> QED  BY <1>6, <1>7

LEMMA ScriptOfTxn ==
    ASSUME program.step \in {9, 10}
    PROVE  Script = migrateTransactions(Doc, memo)
BY StepNames, StatementsOf DEF Script, StepName

\* The statement that is executed, or refused: of the plan ...
LEMMA StmtIsPlanned ==
    ASSUME mongo \in Source, ProgramInv, MemoInv, InLoop, program.step \in Plain
    PROVE  /\ program.doc \in DOMAIN mongo[Steps[program.step]]
           /\ program.part \in DOMAIN Plan(program.step, program.doc)
           /\ program.stmt \in DOMAIN Plan(program.step, program.doc)[program.part]
           /\ Stmt = Plan(program.step, program.doc)[program.part][program.stmt]
<1>1. /\ Running /\ program.doc <= Len(Docs) /\ program.part <= Len(Script)
      /\ program.stmt <= Len(Script[program.part])
  BY DEF InLoop, InDocument
<1>2. /\ program.doc \in DOMAIN mongo[Steps[program.step]]
      /\ Script = Plan(program.step, program.doc)
  BY <1>1, ScriptIsPlanned
<1>3. IsScript(Plan(program.step, program.doc))
  BY <1>2, PlanShape
<1>4. program.part \in Nat \ {0} /\ program.stmt \in Nat \ {0}
  BY DEF ProgramInv
<1>5. program.part \in DOMAIN Plan(program.step, program.doc)
  BY <1>1, <1>2, <1>3, <1>4 DEF IsScript, IsList
<1>6. program.stmt \in DOMAIN Plan(program.step, program.doc)[program.part]
  BY <1>1, <1>2, <1>3, <1>4, <1>5 DEF IsScript, IsList
<1> QED  BY <1>2, <1>5, <1>6 DEF Stmt

\* ... or the row of a transaction.
LEMMA TxnScript ==
    ASSUME program.step \in {9, 10}
    PROVE  IF Doc.id = None \/ Doc.id \in memo.inserted THEN Len(Script) = 0
           ELSE /\ Len(Script) = 1 /\ Len(Script[1]) = 1
                /\ Script[1][1] = Insert(insertTransaction(Doc, RefOf(memo.supplierTxn, Doc.id),
                                                           RefOf(memo.bnplTxn, Doc.id)))
<1> DEFINE one == Insert(insertTransaction(Doc, RefOf(memo.supplierTxn, Doc.id),
                                           RefOf(memo.bnplTxn, Doc.id)))
<1>1. CASE Doc.id = None \/ Doc.id \in memo.inserted
  <2>1. Script = <<>>
    BY <1>1, ScriptOfTxn DEF migrateTransactions
  <2> QED  BY <1>1, <2>1
<1>2. CASE ~ (Doc.id = None \/ Doc.id \in memo.inserted)
  <2>1. Script = << <<one>> >>
    BY <1>2, ScriptOfTxn DEF migrateTransactions
  <2> HIDE DEF one
  <2>2. Len(Script) = 1 /\ Len(Script[1]) = 1 /\ Script[1][1] = one
    BY <2>1
  <2> QED  BY <1>2, <2>2 DEF one
<1> QED  BY <1>1, <1>2

LEMMA StmtIsTxn ==
    ASSUME ProgramInv, InLoop, program.step \in {9, 10}
    PROVE  /\ program.part = 1 /\ program.stmt = 1
           /\ Doc.id # None /\ Doc.id \notin memo.inserted
           /\ Stmt = Insert(insertTransaction(Doc, RefOf(memo.supplierTxn, Doc.id),
                                              RefOf(memo.bnplTxn, Doc.id)))
<1>1. program.part \in Nat \ {0} /\ program.stmt \in Nat \ {0}
      /\ program.part <= Len(Script) /\ program.stmt <= Len(Script[program.part])
  BY DEF InLoop, ProgramInv
<1>2. ~ (Doc.id = None \/ Doc.id \in memo.inserted)
  <2> SUFFICES ASSUME Doc.id = None \/ Doc.id \in memo.inserted PROVE FALSE
    OBVIOUS
  <2>1. Len(Script) = 0
    BY TxnScript
  <2> QED  BY <1>1, <2>1
<1>3. program.part = 1
  BY <1>1, <1>2, TxnScript
<1>5. Len(Script[1]) = 1
  BY <1>2, TxnScript
<1>4. program.stmt = 1
  BY <1>1, <1>3, <1>5
<1> QED  BY <1>2, <1>3, <1>4, TxnScript DEF Stmt

-----------------------------------------------------------------------------
(* What is executed, after each action.                                    *)

LEMMA NextNumber ==
    \A a, b \in 1..19 : a < b + 1 <=> a < b \/ a = b
OBVIOUS

LEMMA NotBelowItself ==
    \A a \in 1..19 : ~ (a < a)
OBVIOUS

LEMMA ExecutedNext ==
    ASSUME ProgramInv, Execute, NEW n, NEW i, NEW p, NEW k \in Nat
    PROVE  Executed(n, i, p, k)' <=>
              \/ Executed(n, i, p, k)
              \/ /\ n = program.step /\ i = program.doc
                 /\ p = program.part /\ k = program.stmt
<1>1. /\ program.stmt \in Nat
      /\ program'.step = program.step /\ program'.doc = program.doc
      /\ program'.part = program.part /\ program'.stmt = program.stmt + 1
  BY DEF Execute, ProgramInv
<1>2. k < program.stmt + 1 <=> k < program.stmt \/ k = program.stmt
  BY <1>1
<1> QED  BY <1>1, <1>2 DEF Executed

\* What an action that executes nothing does not change.
LEMMA ExecutedSame ==
    ASSUME mongo \in Source, ProgramInv, MemoInv, NextLoop \/ NextDocument \/ NextStep,
           NEW n \in Plain, NEW i \in DOMAIN mongo[Steps[n]],
           NEW p \in DOMAIN Plan(n, i), NEW k \in DOMAIN Plan(n, i)[p]
    PROVE  Executed(n, i, p, k)' <=> Executed(n, i, p, k)
<1>1. IsScript(Plan(n, i)) /\ IsList(mongo[Steps[n]])
  BY PlanShape, CollectionsAreLists DEF Plain
<1>2. /\ n \in 1..19 /\ i \in Nat \ {0} /\ p \in Nat \ {0} /\ k \in Nat \ {0}
      /\ i <= Len(mongo[Steps[n]]) /\ p <= Len(Plan(n, i)) /\ k <= Len(Plan(n, i)[p])
      /\ Len(mongo[Steps[n]]) \in Nat /\ Len(Plan(n, i)) \in Nat /\ Len(Plan(n, i)[p]) \in Nat
  BY <1>1 DEF IsScript, IsList, Plain
<1>3. /\ program.step \in 1..19 /\ program.doc \in Nat \ {0}
      /\ program.part \in Nat \ {0} /\ program.stmt \in Nat \ {0}
  BY DEF ProgramInv
<1>4. n = program.step /\ i = program.doc /\ InDocument => Script = Plan(n, i)
  BY ScriptIsPlanned DEF InDocument
<1>5. CASE NextLoop
  <2>1. /\ program'.step = program.step /\ program'.doc = program.doc
        /\ program'.part = program.part + 1 /\ program'.stmt = 1
    BY <1>5 DEF NextLoop, ProgramInv
  <2>2. n = program.step /\ i = program.doc /\ p = program.part => k < program.stmt
    BY <1>2, <1>3, <1>4, <1>5 DEF NextLoop
  <2>3. p < program.part + 1 <=> p < program.part \/ p = program.part
    BY <1>2, <1>3
  <2>4. ~ (k < 1)
    BY <1>2
  <2> QED  BY <2>1, <2>2, <2>3, <2>4 DEF Executed
<1>6. CASE NextDocument
  <2>1. /\ program'.step = program.step /\ program'.doc = program.doc + 1
        /\ program'.part = 1 /\ program'.stmt = 1
    BY <1>6 DEF NextDocument, ProgramInv
  <2>2. n = program.step /\ i = program.doc => p < program.part
    BY <1>2, <1>3, <1>4, <1>6 DEF NextDocument
  <2>3. i < program.doc + 1 <=> i < program.doc \/ i = program.doc
    BY <1>2, <1>3
  <2>4. ~ (k < 1) /\ ~ (p < 1)
    BY <1>2
  <2> QED  BY <2>1, <2>2, <2>3, <2>4 DEF Executed
<1>7. CASE NextStep
  <2>1. n = program.step => i < program.doc
    <3> SUFFICES ASSUME n = program.step PROVE i < program.doc
      OBVIOUS
    <3>1. Docs = mongo[Steps[n]]
      BY DocsAre DEF Plain
    <3> QED  BY <3>1, <1>2, <1>3, <1>7 DEF NextStep
  <2>2. CASE program.step = Len(Steps)
    <3>1. /\ program'.step = program.step /\ program'.doc = program.doc
          /\ program'.part = program.part /\ program'.stmt = program.stmt
      BY <1>7, <2>2 DEF NextStep, ProgramInv
    <3> QED  BY <3>1 DEF Executed
  <2>3. CASE program.step # Len(Steps)
    <3>1. \E order : program' = At("running", program.step + 1, order)
      BY <1>7, <2>3 DEF NextStep
    <3>2. /\ program'.step = program.step + 1 /\ program'.doc = 1
          /\ program'.part = 1 /\ program'.stmt = 1
      BY <3>1 DEF At
    <3>3. n < program.step + 1 <=> n < program.step \/ n = program.step
      BY <1>2, <1>3, NextNumber
    <3>4. ~ (i < 1) /\ ~ (k < 1) /\ ~ (p < 1)
      BY <1>2
    <3> QED  BY <2>1, <3>2, <3>3, <3>4 DEF Executed
  <2> QED  BY <2>2, <2>3
<1> QED  BY <1>5, <1>6, <1>7

LEMMA FinishedNext ==
    ASSUME mongo \in Source, ProgramInv, NEW n \in 1..19, n # 10
    PROVE  /\ Execute \/ NextLoop \/ NextStep => Finished(n)' = Finished(n)
           /\ NextDocument =>
                 Finished(n)' = IF n = program.step THEN Finished(n) \cup {program.doc}
                                ELSE Finished(n)
<1>1. IsList(mongo[Steps[n]])
  BY CollectionsAreLists
<1>2. /\ program.step \in 1..19 /\ program.doc \in Nat \ {0}
      /\ DOMAIN mongo[Steps[n]] \subseteq Nat \ {0}
      /\ Len(mongo[Steps[n]]) \in Nat
  BY <1>1 DEF ProgramInv, IsList
<1>3. ASSUME Execute \/ NextLoop
      PROVE  Finished(n)' = Finished(n)
  <2>1. program'.step = program.step /\ program'.doc = program.doc /\ mongo' = mongo
    BY <1>3 DEF Execute, NextLoop, ProgramInv
  <2> QED  BY <2>1 DEF Finished
<1>4. ASSUME NextStep
      PROVE  Finished(n)' = Finished(n)
  <2>0. mongo' = mongo
    BY <1>4 DEF NextStep
  <2>1. \A i \in DOMAIN mongo[Steps[n]] : n = program.step => i < program.doc
    <3> SUFFICES ASSUME NEW i \in DOMAIN mongo[Steps[n]], n = program.step
                 PROVE  i < program.doc
      OBVIOUS
    <3>1. Docs = mongo[Steps[n]] /\ i <= Len(Docs)
      BY <1>1, DocsAre DEF IsList
    <3> QED  BY <3>1, <1>2, <1>4 DEF NextStep
  <2>2. CASE program.step = Len(Steps)
    <3>1. program'.step = program.step /\ program'.doc = program.doc
      BY <1>4, <2>2 DEF NextStep, ProgramInv
    <3> QED  BY <2>0, <3>1 DEF Finished
  <2>3. CASE program.step # Len(Steps)
    <3>1. \E order : program' = At("running", program.step + 1, order)
      BY <1>4, <2>3 DEF NextStep
    <3>2. program'.step = program.step + 1 /\ program'.doc = 1
      BY <3>1 DEF At
    <3>3. n < program.step + 1 <=> n < program.step \/ n = program.step
      BY <1>2, NextNumber
    <3>4. \A i \in DOMAIN mongo[Steps[n]] : ~ (i < 1)
      BY <1>2
    <3> QED  BY <2>0, <2>1, <3>2, <3>3, <3>4 DEF Finished
  <2> QED  BY <2>2, <2>3
<1>5. ASSUME NextDocument
      PROVE  Finished(n)' = IF n = program.step THEN Finished(n) \cup {program.doc}
                            ELSE Finished(n)
  <2>1. program'.step = program.step /\ program'.doc = program.doc + 1 /\ mongo' = mongo
    BY <1>5 DEF NextDocument, ProgramInv
  <2>2. \A i \in DOMAIN mongo[Steps[n]] :
           i < program.doc + 1 <=> i < program.doc \/ i = program.doc
    BY <1>2
  <2>3. n = program.step => program.doc \in DOMAIN mongo[Steps[n]]
    <3> SUFFICES ASSUME n = program.step PROVE program.doc \in DOMAIN mongo[Steps[n]]
      OBVIOUS
    <3>1. Docs = mongo[Steps[n]] /\ program.doc <= Len(Docs)
      BY <1>5, DocsAre DEF NextDocument, InDocument
    <3> QED  BY <1>1, <1>2, <3>1 DEF IsList
  <2>4. CASE n = program.step
    <3>1. ~ (n < program.step)
      BY <2>4, NotBelowItself
    <3> QED  BY <2>1, <2>2, <2>3, <2>4, <3>1 DEF Finished
  <2>5. CASE n # program.step
    BY <2>1, <2>5 DEF Finished
  <2> QED  BY <2>4, <2>5
<1> QED  BY <1>3, <1>4, <1>5

-----------------------------------------------------------------------------
(* The plan, again.                                                        *)

LEMMA PlanInsert ==
    ASSUME mongo \in Source, NEW n \in Plain, NEW i \in DOMAIN mongo[Steps[n]],
           NEW p \in DOMAIN Plan(n, i), NEW k \in DOMAIN Plan(n, i)[p], Inserts(n, i, p, k)
    PROVE  InsertIsSound(n, i, p, k, Plan(n, i)[p][k])
<1>1. IsSound(n, i, p, k, Plan(n, i)[p][k])
  BY PlanSound DEF PlanIsSound
<1> QED  BY <1>1 DEF IsSound, Inserts

LEMMA PlanLink ==
    ASSUME mongo \in Source, NEW n \in Plain, NEW i \in DOMAIN mongo[Steps[n]],
           NEW p \in DOMAIN Plan(n, i), NEW k \in DOMAIN Plan(n, i)[p],
           Plan(n, i)[p][k].op = "link"
    PROVE  /\ LinkIsSound(n, i, p, k, Plan(n, i)[p][k])
           /\ Plan(n, i)[p][k].journal \in JournalsOf(Plan(n, i)[p][k].txn)
<1>1. LinkIsSound(n, i, p, k, Plan(n, i)[p][k])
  BY PlanSound DEF PlanIsSound, IsSound
<1> DEFINE j == mongo["journals"][i]  s == Plan(n, i)[p][k]
<1>2. /\ i \in DOMAIN mongo["journals"] /\ k \in DOMAIN j.operations
      /\ s.journal = j.id /\ s.txn = j.operations[k]
  BY <1>1 DEF LinkIsSound
<1>3. j \in Collection("journals") /\ s.txn \in Range(j.operations)
  BY <1>2 DEF Collection, Range
<1>4. s.journal \in JournalsOf(s.txn)
  BY <1>2, <1>3 DEF JournalsOf
<1> QED  BY <1>1, <1>4

\* Rows of the plan are not transactions.
LEMMA PlannedTable ==
    ASSUME mongo \in Source, NEW row, IsPlanned(row)
    PROVE  row.table \in DOMAIN Expected /\ row.table # "transactions"
<1>1. PICK n \in Plain : \E i \in DOMAIN mongo[Steps[n]] :
         \E p \in DOMAIN Plan(n, i) : \E k \in DOMAIN Plan(n, i)[p] :
            Inserts(n, i, p, k) /\ PlanRow(n, i, p, k) = row
  BY DEF IsPlanned
<1>2. PICK i \in DOMAIN mongo[Steps[n]] :
         \E p \in DOMAIN Plan(n, i) : \E k \in DOMAIN Plan(n, i)[p] :
            Inserts(n, i, p, k) /\ PlanRow(n, i, p, k) = row
  BY <1>1
<1>6. PICK p \in DOMAIN Plan(n, i) : \E k \in DOMAIN Plan(n, i)[p] :
         Inserts(n, i, p, k) /\ PlanRow(n, i, p, k) = row
  BY <1>2
<1>3. PICK k \in DOMAIN Plan(n, i)[p] : Inserts(n, i, p, k) /\ PlanRow(n, i, p, k) = row
  BY <1>6
<1>4. InsertIsSound(n, i, p, k, Plan(n, i)[p][k])
  BY <1>3, PlanInsert
<1>5. row.table \in DOMAIN Expected
  BY <1>3, <1>4 DEF InsertIsSound, PlanRow
<1> QED  BY <1>5, ExpectedOf

-----------------------------------------------------------------------------
(* The rows, after a statement.                                            *)

LEMMA SameRows ==
    ASSUME mongo' = mongo
    PROVE  \A rows : RowsInv(rows)' = RowsInv(rows)
BY SameTxn, SamePlanned DEF RowsInv, Sourced, Apart, Rooted, IsList

LEMMA Appended ==
    ASSUME NEW rows, IsList(rows), NEW row
    PROVE  /\ IsList(Append(rows, row)) /\ Len(Append(rows, row)) = Len(rows) + 1
           /\ \A a \in DOMAIN rows : Append(rows, row)[a] = rows[a]
           /\ Append(rows, row)[Len(rows) + 1] = row
BY DEF IsList

LEMMA AppendKeeps ==
    ASSUME NEW rows, RowsInv(rows), NEW row, IsPlanned(row) \/ IsTxn(row),
           ~ Collides(rows, row), \A need \in row.needs : Has(rows, need)
    PROVE  RowsInv(Append(rows, row))
<1> DEFINE more == Append(rows, row)  new == Len(rows) + 1
<1>1. /\ IsList(rows) /\ IsList(more) /\ Len(more) = new /\ more[new] = row
      /\ \A a \in DOMAIN rows : more[a] = rows[a]
  BY Appended DEF RowsInv
<1>2. DOMAIN rows = 1..Len(rows) /\ DOMAIN more = 1..new /\ Len(rows) \in Nat
  BY <1>1 DEF IsList
<1> HIDE DEF more
<1>3. \A a \in DOMAIN more : a = new \/ (a \in DOMAIN rows /\ a # new)
  BY <1>2
<1>4. Apart(more)
  <2>1. \A a \in DOMAIN rows : rows[a].table = row.table => rows[a].keys \cap row.keys = {}
    BY DEF Collides, Places
  <2> SUFFICES ASSUME NEW a \in DOMAIN more, NEW b \in DOMAIN more,
                      a # b, more[a].table = more[b].table
               PROVE  more[a].keys \cap more[b].keys = {}
    BY DEF Apart
  <2>2. CASE a = new
    <3>1. b \in DOMAIN rows
      BY <1>3, <2>2
    <3> QED  BY <1>1, <2>1, <2>2, <3>1
  <2>3. CASE b = new
    <3>1. a \in DOMAIN rows
      BY <1>3, <2>3
    <3> QED  BY <1>1, <2>1, <2>3, <3>1
  <2>4. CASE a # new /\ b # new
    <3>1. a \in DOMAIN rows /\ b \in DOMAIN rows /\ Apart(rows)
      BY <1>3, <2>4 DEF RowsInv
    <3> QED  BY <1>1, <3>1 DEF Apart
  <2> QED  BY <2>2, <2>3, <2>4
<1>5. Rooted(more)
  <2> SUFFICES ASSUME NEW a \in DOMAIN more, NEW need \in more[a].needs
               PROVE  \E c \in 1..(a - 1) : /\ more[c].table = need[1]
                                            /\ <<"id", need[2]>> \in more[c].keys
    BY DEF Rooted
  <2>1. CASE a = new
    <3>1. Has(rows, need)
      BY <1>1, <2>1
    <3>2. PICK c \in DOMAIN rows : rows[c].table = need[1] /\ <<"id", need[2]>> \in rows[c].keys
      BY <3>1 DEF Has, Places
    <3>3. c \in 1..(a - 1) /\ more[c] = rows[c]
      BY <1>1, <1>2, <2>1
    <3> QED  BY <3>2, <3>3
  <2>2. CASE a # new
    <3>1. a \in DOMAIN rows /\ more[a] = rows[a]
      BY <1>1, <1>3, <2>2
    <3>2. PICK c \in 1..(a - 1) : rows[c].table = need[1] /\ <<"id", need[2]>> \in rows[c].keys
      BY <3>1 DEF RowsInv, Rooted
    <3>3. c \in DOMAIN rows
      BY <1>2, <3>1
    <3> QED  BY <1>1, <3>2, <3>3
  <2> QED  BY <2>1, <2>2
<1>6. Sourced(more)
  BY <1>1, <1>3 DEF RowsInv, Sourced
<1> QED  BY <1>1, <1>4, <1>5, <1>6 DEF RowsInv, more

\* A link changes the journal of transactions, and nothing else.
LEMMA Linking ==
    ASSUME mongo \in Source, NEW rows, RowsInv(rows), NEW stmt,
           stmt.journal \in JournalsOf(stmt.txn)
    PROVE  /\ RowsInv(LinkedTo(rows, stmt))
           /\ Len(LinkedTo(rows, stmt)) = Len(rows)
           /\ \A a \in DOMAIN rows :
                 /\ LinkedTo(rows, stmt)[a].table = rows[a].table
                 /\ LinkedTo(rows, stmt)[a].keys = rows[a].keys
                 /\ rows[a].table # "transactions" => LinkedTo(rows, stmt)[a] = rows[a]
                 /\ rows[a].table = "transactions" =>
                       IF <<"id", stmt.txn>> \in rows[a].keys
                       THEN LinkedTo(rows, stmt)[a].data.journal = {stmt.journal}
                       ELSE LinkedTo(rows, stmt)[a] = rows[a]
<1> DEFINE more == LinkedTo(rows, stmt)
           Hit(a) == rows[a].table = "transactions" /\ <<"id", stmt.txn>> \in rows[a].keys
<1>1. IsList(rows)
  BY DEF RowsInv
<1>2. more = [a \in DOMAIN rows |-> more[a]] /\ DOMAIN more = DOMAIN rows
  BY DEF LinkedTo
<1>3. \A a \in DOMAIN rows : ~ Hit(a) => more[a] = rows[a]
  BY DEF LinkedTo
<1>4. \A a \in DOMAIN rows : Hit(a) => more[a] = [rows[a] EXCEPT !.data.journal = {stmt.journal}]
  BY DEF LinkedTo
<1> HIDE DEF more
<1>5. IsList(more) /\ Len(more) = Len(rows)
  BY <1>1, <1>2, MapIsList
<1>6. ASSUME NEW a \in DOMAIN rows, Hit(a)
      PROVE  /\ more[a].table = rows[a].table /\ more[a].keys = rows[a].keys
             /\ more[a].needs = rows[a].needs
             /\ more[a].data.journal = {stmt.journal}
             /\ IsTxn(more[a])
  <2> DEFINE r == rows[a]
  <2>1. IsTxn(r)
    <3>1. IsPlanned(r) \/ IsTxn(r)
      BY DEF RowsInv, Sourced
    <3>2. ~ IsPlanned(r)
      BY <1>6, PlannedTable
    <3> QED  BY <3>1, <3>2
  <2>2. /\ r = [table |-> "transactions", keys |-> {<<"id", r.data.id>>}, needs |-> r.needs,
                data |-> [id |-> r.data.id, amount |-> r.data.amount,
                        initiator |-> r.data.initiator, supplier |-> r.data.supplier,
                        bnpl |-> r.data.bnpl, journal |-> r.data.journal]]
    BY <2>1 DEF IsTxn
  <2>3. more[a] = [r EXCEPT !.data.journal = {stmt.journal}]
    BY <1>4, <1>6
  <2> HIDE DEF r
  <2>4. more[a] = [table |-> "transactions", keys |-> {<<"id", r.data.id>>}, needs |-> r.needs,
                data |-> [id |-> r.data.id, amount |-> r.data.amount,
                        initiator |-> r.data.initiator, supplier |-> r.data.supplier,
                        bnpl |-> r.data.bnpl, journal |-> {stmt.journal}]]
    BY <2>2, <2>3
  <2>5. r.keys = {<<"id", r.data.id>>} /\ r.table = "transactions"
    BY <2>2
  <2>6. r.data.id = stmt.txn
    BY <1>6, <2>5 DEF r
  <2>7. more[a].data.journal # {} => \E j \in JournalsOf(r.data.id) : more[a].data.journal = {j}
    BY <2>4, <2>6
  <2>8. IsTxn(more[a])
    <3>1. /\ more[a].data.id = r.data.id /\ more[a].data.amount = r.data.amount
          /\ more[a].data.initiator = r.data.initiator
          /\ more[a].data.supplier = r.data.supplier /\ more[a].data.bnpl = r.data.bnpl
          /\ more[a].data.journal = {stmt.journal} /\ more[a].needs = r.needs
      BY <2>4
    <3>2. more[a] = [table |-> "transactions", keys |-> {<<"id", more[a].data.id>>},
                     needs |-> more[a].needs,
                     data |-> [id |-> more[a].data.id, amount |-> more[a].data.amount,
                        initiator |-> more[a].data.initiator,
                        supplier |-> more[a].data.supplier,
                        bnpl |-> more[a].data.bnpl, journal |-> more[a].data.journal]]
      BY <2>4, <3>1
    <3> QED  BY <2>1, <2>7, <3>1, <3>2 DEF IsTxn
  <2> QED  BY <2>4, <2>5, <2>8 DEF r
<1>7. \A a \in DOMAIN rows : /\ more[a].table = rows[a].table /\ more[a].keys = rows[a].keys
                             /\ more[a].needs = rows[a].needs
  BY <1>3, <1>6
<1>8. Apart(more)
  BY <1>2, <1>7 DEF RowsInv, Apart
<1>9. Rooted(more)
  <2> SUFFICES ASSUME NEW a \in DOMAIN more, NEW need \in more[a].needs
               PROVE  \E c \in 1..(a - 1) : /\ more[c].table = need[1]
                                            /\ <<"id", need[2]>> \in more[c].keys
    BY DEF Rooted
  <2>1. PICK c \in 1..(a - 1) : rows[c].table = need[1] /\ <<"id", need[2]>> \in rows[c].keys
    BY <1>2, <1>7 DEF RowsInv, Rooted
  <2>2. c \in DOMAIN rows
    BY <1>1, <1>2 DEF IsList
  <2> QED  BY <1>7, <2>1, <2>2
<1>10. Sourced(more)
  BY <1>2, <1>3, <1>6 DEF RowsInv, Sourced
<1>11. RowsInv(more)
  BY <1>5, <1>8, <1>9, <1>10 DEF RowsInv
<1> QED  BY <1>3, <1>5, <1>6, <1>7, <1>11 DEF more

-----------------------------------------------------------------------------
(* The lookup tables.                                                      *)

\* A set of places has a last one.
LEMMA GreatestIsIn ==
    ASSUME NEW S, NEW n \in Nat, S \subseteq 1..n, S # {}
    PROVE  Greatest(S) \in S /\ \A k \in S : k <= Greatest(S)
<1> DEFINE T == { m \in Nat : \A k \in S : k <= m }
<1>1. n \in T /\ T \subseteq Nat /\ T # {}
  OBVIOUS
<1> HIDE DEF T
<1>2. PICK m \in T : \A j \in T : ~ (<<j, m>> \in OpToRel(<, Nat))
  BY <1>1, NatLessThanWellFounded, WFMin
<1>3. m \in Nat /\ \A k \in S : k <= m
  BY DEF T
<1>4. m \in S
  <2> SUFFICES ASSUME m \notin S PROVE FALSE
    OBVIOUS
  <2>1. PICK k \in S : TRUE
    OBVIOUS
  <2>2. m - 1 \in Nat
    BY <1>3, <2>1
  <2>3. \A j \in S : j <= m - 1
    BY <1>3
  <2>4. m - 1 \in T
    BY <2>2, <2>3 DEF T
  <2>5. <<m - 1, m>> \in Nat \X Nat /\ m - 1 < m
    BY <1>3, <2>2
  <2>6. <<m - 1, m>> \in OpToRel(<, Nat)
    BY <2>5 DEF OpToRel
  <2> QED  BY <1>2, <2>4, <2>6
<1>5. \E g \in S : \A k \in S : k <= g
  BY <1>3, <1>4
<1> QED  BY <1>5 DEF Greatest

LEMMA Overlaid ==
    ASSUME NEW f, NEW g
    PROVE  /\ DOMAIN Overlay(f, g) = DOMAIN f \cup DOMAIN g
           /\ \A x \in DOMAIN g : Overlay(f, g)[x] = g[x]
           /\ \A x \in DOMAIN f \ DOMAIN g : Overlay(f, g)[x] = f[x]
BY DEF Overlay

\* A supplier's transactions, by identifier.
LEMMA Stash ==
    ASSUME mongo \in Source, NEW i \in DOMAIN mongo["suppliers"]
    PROVE  LET d == mongo["suppliers"][i] IN
           /\ DOMAIN StashOf(d) = TxnsOf(d)
           /\ TxnsOf(d) \subseteq STRING /\ IsFiniteSet(TxnsOf(d))
           /\ \A x \in TxnsOf(d) :
                 /\ x # None /\ d.id \in SuppliersOf(x)
                 /\ StashOf(d)[x] \in Embedded /\ StashOf(d)[x].id = x
<1> DEFINE d == mongo["suppliers"][i]  txns == d.transactions
<1>0. IsList(txns) /\ txns \in Seq(TxnDoc)
  <2> DEFINE P == [id : STRING, branch : STRING, transactions : Seq(TxnDoc)]
  <2>1. mongo["suppliers"] \in Seq(P)
    BY SourceIsDatabase DEF IsDatabase
  <2>2. mongo["suppliers"][i] \in P
    <3> HIDE DEF P
    <3> QED  BY <2>1, SeqIsList
  <2>3. txns \in Seq(TxnDoc)
    BY <2>2
  <2> QED  BY <2>3, SeqIsList
<1>1. DOMAIN StashOf(d) = TxnsOf(d)
  BY DEF StashOf
<1>2. \A m \in DOMAIN txns : txns[m].id \in STRING
  <2>1. \A m \in DOMAIN txns : txns[m] \in TxnDoc
    BY <1>0, SeqIsList
  <2> QED  BY <2>1 DEF TxnDoc
<1>3. TxnsOf(d) \subseteq STRING
  BY <1>2 DEF TxnsOf
<1>4. IsFiniteSet(TxnsOf(d))
  <2>0. DOMAIN txns = 1..Len(txns) /\ 1 \in Int /\ Len(txns) \in Int
    BY <1>0 DEF IsList
  <2>1. IsFiniteSet(DOMAIN txns)
    BY <2>0, FS_Interval
  <2> DEFINE f == [m \in DOMAIN txns |-> txns[m].id]
             T == { txns[m].id : m \in DOMAIN txns }
  <2>4. f \in Surjection(DOMAIN txns, T)
    BY DEF Surjection
  <2> HIDE DEF f, T
  <2>5. IsFiniteSet(T)
    BY <2>1, <2>4, FS_Surjection
  <2>2. IsFiniteSet({ txns[m].id : m \in DOMAIN txns })
    BY <2>5 DEF T
  <2>3. TxnsOf(d) \subseteq { txns[m].id : m \in DOMAIN txns }
    BY DEF TxnsOf
  <2> QED  BY <2>2, <2>3, FS_Subset
<1>5. ASSUME NEW x \in TxnsOf(d)
      PROVE  /\ x # None /\ d.id \in SuppliersOf(x)
             /\ StashOf(d)[x] \in Embedded /\ StashOf(d)[x].id = x
  <2> DEFINE S == { m \in DOMAIN txns : txns[m].id = x }
  <2>1. x # None /\ S # {}
    BY DEF TxnsOf
  <2>2. S \subseteq 1..Len(txns) /\ Len(txns) \in Nat
    BY <1>0 DEF IsList
  <2>3. StashOf(d)[x] = txns[Greatest(S)]
    BY DEF StashOf
  <2> HIDE DEF S
  <2>4. Greatest(S) \in S
    BY <2>1, <2>2, GreatestIsIn
  <2>5. /\ StashOf(d)[x].id = x /\ Greatest(S) \in DOMAIN txns
        /\ StashOf(d)[x] = txns[Greatest(S)]
    BY <2>3, <2>4 DEF S
  <2>6. StashOf(d)[x] \in Range(txns)
    BY <2>5 DEF Range
  <2>7. d \in Collection("suppliers")
    BY DEF Collection, Range
  <2>8. StashOf(d)[x] \in Embedded
    BY <2>6, <2>7 DEF Embedded, Owned
  <2>9. d.id \in SuppliersOf(x)
    BY <2>5, <2>6, <2>7 DEF SuppliersOf
  <2> QED  BY <2>1, <2>5, <2>8, <2>9
<1> QED  BY <1>1, <1>3, <1>4, <1>5

\* Each debt of a customer is a debt.
LEMMA DebtIsDebt ==
    ASSUME NEW i \in DOMAIN mongo["customers"], NEW j \in DOMAIN mongo["customers"][i].bnpls
    PROVE  mongo["customers"][i].bnpls[j] \in Bnpls
BY FieldsExpected

LEMMA DebtsTransactions ==
    ASSUME mongo \in Source, NEW i \in DOMAIN mongo["customers"]
    PROVE  LET d == mongo["customers"][i] IN
           /\ \A x \in DOMAIN BnplTxnOf(d) : BnplTxnOf(d)[x] \in BnplsOf(x)
           /\ \A j \in DOMAIN d.bnpls : NamedBy(d.bnpls[j]) \subseteq DOMAIN BnplTxnOf(d)
<1> DEFINE d == mongo["customers"][i]  debts == d.bnpls
<1>0. IsList(debts)
  BY SourceIsDatabase, CustomerTypes DEF IsList
<1>1. DOMAIN BnplTxnOf(d) = UNION { NamedBy(debts[j]) : j \in DOMAIN debts }
  BY DEF BnplTxnOf
<1>2. ASSUME NEW x \in DOMAIN BnplTxnOf(d)
      PROVE  BnplTxnOf(d)[x] \in BnplsOf(x)
  <2> DEFINE S == { j \in DOMAIN debts : x \in NamedBy(debts[j]) }
  <2>1. S # {}
    BY <1>1
  <2>2. S \subseteq 1..Len(debts) /\ Len(debts) \in Nat
    BY <1>0 DEF IsList
  <2>3. BnplTxnOf(d)[x] = debts[Greatest(S)].id
    BY <1>1 DEF BnplTxnOf
  <2> HIDE DEF S
  <2>4. Greatest(S) \in S
    BY <2>1, <2>2, GreatestIsIn
  <2>5. Greatest(S) \in DOMAIN debts /\ x \in NamedBy(debts[Greatest(S)])
    BY <2>4 DEF S
  <2>6. debts[Greatest(S)] \in Bnpls /\ x \in Range(debts[Greatest(S)].transactions)
    BY <2>5, DebtIsDebt DEF NamedBy
  <2> QED  BY <2>3, <2>6 DEF BnplsOf
<1> QED  BY <1>1, <1>2

\* After the suppliers, and after the customers, all their transactions are known.
LEMMA SuppliersKnown ==
    ASSUME mongo \in Source, MemoInv, Active, program.step > 6, NEW x, x # None,
           SuppliersOf(x) # {}
    PROVE  x \in DOMAIN memo.supplierTxn /\ x \in DOMAIN memo.embedded
<1>1. PICK d \in Collection("suppliers") : \E e \in Range(d.transactions) : e.id = x
  BY DEF SuppliersOf
<1>2. PICK i \in DOMAIN mongo["suppliers"] : d = mongo["suppliers"][i]
  BY DEF Collection, Range
<1>3. x \in TxnsOf(d)
  BY <1>1 DEF TxnsOf, Range
<1>4. i \in Finished(6)
  BY <1>2, FinishedAll, StepNames
<1> QED  BY <1>2, <1>3, <1>4 DEF MemoInv

LEMMA BnplsKnown ==
    ASSUME mongo \in Source, MemoInv, Active, program.step > 8, NEW x, x # None,
           BnplsOf(x) # {}
    PROVE  x \in DOMAIN memo.bnplTxn
<1>1. PICK b \in Bnpls : x \in Range(b.transactions)
  BY DEF BnplsOf
<1> DEFINE f == "bnpls"
<1>2. b \in Owned("customers", f)
  BY DEF Bnpls
<1> HIDE DEF f
<1>3. PICK i \in DOMAIN mongo["customers"] :
         \E j \in DOMAIN mongo["customers"][i][f] : b = mongo["customers"][i][f][j]
  BY <1>2, FromOwned
<1>4. PICK j \in DOMAIN mongo["customers"][i].bnpls : b = mongo["customers"][i].bnpls[j]
  BY <1>3 DEF f
<1>5. x \in NamedBy(b)
  BY <1>1 DEF NamedBy
<1>6. i \in Finished(8)
  BY FinishedAll, StepNames
<1>7. x \in DOMAIN BnplTxnOf(mongo["customers"][i])
  BY <1>4, <1>5, DebtsTransactions
<1> QED  BY <1>6, <1>7 DEF MemoInv

\* What is inserted for a transaction is the transaction.
LEMMA TxnRow ==
    ASSUME mongo \in Source, ProgramInv, MemoInv, TxnInv, InLoop, program.step \in {9, 10}
    PROVE  LET row == insertTransaction(Doc, RefOf(memo.supplierTxn, Doc.id),
                                        RefOf(memo.bnplTxn, Doc.id)) IN
           IsTxn(row) /\ row.table = "transactions" /\ row.keys = {<<"id", Doc.id>>}
                      /\ row.data.journal = {}
<1> DEFINE id == Doc.id
           supplier == RefOf(memo.supplierTxn, id)  bnpl == RefOf(memo.bnplTxn, id)
           row == insertTransaction(Doc, supplier, bnpl)
<1>0. Active /\ id # None /\ program.doc \in DOMAIN Docs
  <2>1. Running /\ program.doc <= Len(Docs)
    BY DEF InLoop, InDocument
  <2>2. program.doc \in Nat \ {0} /\ IsList(Docs)
    BY DocsAre DEF ProgramInv
  <2> QED  BY <2>1, <2>2, StmtIsTxn DEF Running, Active, IsList
<1>1. \E d \in OldTxns : d.id = id /\ d.amount = Doc.amount
  <2>1. CASE program.step = 9
    <3>1. Doc = mongo["transactions"][program.doc]
          /\ program.doc \in DOMAIN mongo["transactions"]
      BY <1>0, <2>1, DocsAre, StepNames DEF Doc
    <3>2. Doc \in Collection("transactions")
      BY <3>1 DEF Collection, Range
    <3> QED  BY <3>2 DEF OldTxns
  <2>2. CASE program.step = 10
    <3>1. program.doc \in DOMAIN program.order /\ Doc = memo.embedded[program.order[program.doc]]
      BY <1>0, <2>2, DocsAre DEF Doc
    <3>2. /\ program.order[program.doc] \in DOMAIN memo.embedded
          /\ program.order[program.doc] \notin Ids("transactions")
      BY <1>0, <2>2, <3>1 DEF TxnInv
    <3>3. Doc \in Embedded /\ Doc.id = program.order[program.doc]
      BY <1>0, <3>1, <3>2 DEF MemoInv
    <3> QED  BY <3>2, <3>3 DEF OldTxns
  <2> QED  BY <2>1, <2>2
<1>2. OneOf(supplier, SuppliersOf(id))
  <2>1. CASE id \in DOMAIN memo.supplierTxn
    <3>1. supplier \in SuppliersOf(id)
      BY <1>0, <2>1 DEF MemoInv, RefOf
    <3> QED  BY <3>1 DEF OneOf
  <2>2. CASE id \notin DOMAIN memo.supplierTxn
    <3>1. SuppliersOf(id) = {}
      BY <1>0, <2>2, SuppliersKnown
    <3> QED  BY <2>2, <3>1 DEF OneOf, RefOf
  <2> QED  BY <2>1, <2>2
<1>3. OneOf(bnpl, BnplsOf(id))
  <2>1. CASE id \in DOMAIN memo.bnplTxn
    <3>1. bnpl \in BnplsOf(id)
      BY <1>0, <2>1 DEF MemoInv, RefOf
    <3> QED  BY <3>1 DEF OneOf
  <2>2. CASE id \notin DOMAIN memo.bnplTxn
    <3>1. BnplsOf(id) = {}
      BY <1>0, <2>2, BnplsKnown
    <3> QED  BY <2>2, <3>1 DEF OneOf, RefOf
  <2> QED  BY <2>1, <2>2
<1> HIDE DEF supplier, bnpl
<1>4. row = [table |-> "transactions", keys |-> {<<"id", id>>}, needs |-> row.needs,
             data |-> [id |-> id, amount |-> Doc.amount, initiator |-> Doc.initiator,
                       supplier |-> supplier, bnpl |-> bnpl, journal |-> {}]]
  BY DEF insertTransaction, Amount
<1> HIDE DEF row
<1>5. /\ row.table = "transactions" /\ row.keys = {<<"id", id>>}
      /\ row.data.id = id /\ row.data.amount = Doc.amount
      /\ row.data.initiator = Doc.initiator /\ row.data.supplier = supplier
      /\ row.data.bnpl = bnpl /\ row.data.journal = {}
  BY <1>4
<1>6. row = [table |-> "transactions", keys |-> {<<"id", row.data.id>>}, needs |-> row.needs,
             data |-> [id |-> row.data.id, amount |-> row.data.amount,
                        initiator |-> row.data.initiator, supplier |-> row.data.supplier,
                        bnpl |-> row.data.bnpl, journal |-> row.data.journal]]
  BY <1>4, <1>5
<1>7. IsTxn(row)
  BY <1>0, <1>1, <1>2, <1>3, <1>5, <1>6 DEF IsTxn
<1> QED  BY <1>5, <1>7 DEF row, supplier, bnpl

-----------------------------------------------------------------------------
(* A statement is executed.                                                *)

\* What a statement does to the rows: they stay, and one may come.
Grows ==
    /\ IsList(draft) /\ IsList(draft') /\ Len(draft) <= Len(draft')
    /\ \A a \in DOMAIN draft :
          /\ draft'[a].table = draft[a].table /\ draft'[a].keys = draft[a].keys
          /\ draft[a].table # "transactions" => draft'[a] = draft[a]
          /\ draft[a].table = "transactions" /\ draft[a].data.journal # {}
             => draft'[a].data.journal # {}
    /\ \A a \in DOMAIN draft' \ DOMAIN draft :
          a = Len(draft) + 1 /\ Stmt.op = "insert" /\ draft'[a] = Stmt.row

\* The part of the invariant that the statements depend on.
Ready == mongo \in Source /\ ProgramInv /\ MemoInv /\ TxnInv /\ RowsInv(draft)

\* The row that is inserted: of the plan, or a transaction.
LEMMA StmtRow ==
    ASSUME Ready, InLoop, Stmt.op = "insert"
    PROVE  /\ IsPlanned(Stmt.row) \/ IsTxn(Stmt.row)
           /\ program.step \in {9, 10} =>
                 /\ Stmt.row.table = "transactions" /\ ~ Stmt.skip
                 /\ Stmt.row.keys = {<<"id", Doc.id>>} /\ Stmt.row.data.journal = {}
           /\ program.step \in Plain => IsPlanned(Stmt.row) /\ Stmt.row.table # "transactions"
<1>0. program.step \in Plain \/ program.step \in {9, 10}
  BY DEF Ready, ProgramInv, Plain
<1>1. CASE program.step \in Plain
  <2>1. /\ program.doc \in DOMAIN mongo[Steps[program.step]]
        /\ program.part \in DOMAIN Plan(program.step, program.doc)
        /\ program.stmt \in DOMAIN Plan(program.step, program.doc)[program.part]
        /\ Stmt = Plan(program.step, program.doc)[program.part][program.stmt]
    BY <1>1, StmtIsPlanned DEF Ready
  <2>2. /\ Inserts(program.step, program.doc, program.part, program.stmt)
        /\ PlanRow(program.step, program.doc, program.part, program.stmt) = Stmt.row
    BY <2>1 DEF Inserts, PlanRow
  <2>3. IsPlanned(Stmt.row)
    BY <1>1, <2>1, <2>2 DEF IsPlanned
  <2>4. program.step \notin {9, 10}
    BY <1>1 DEF Plain
  <2> QED  BY <2>3, <2>4, PlannedTable DEF Ready
<1>2. CASE program.step \in {9, 10}
  <2> DEFINE row == insertTransaction(Doc, RefOf(memo.supplierTxn, Doc.id),
                                      RefOf(memo.bnplTxn, Doc.id))
  <2>1. IsTxn(row) /\ row.table = "transactions" /\ row.keys = {<<"id", Doc.id>>}
        /\ row.data.journal = {}
    BY <1>2, TxnRow DEF Ready
  <2>2. Stmt = Insert(row)
    BY <1>2, StmtIsTxn DEF Ready
  <2> HIDE DEF row
  <2>3. Stmt.row = row /\ Stmt.skip = FALSE
    BY <2>2 DEF Insert
  <2>4. program.step \notin Plain
    BY <1>2 DEF Plain
  <2> QED  BY <2>1, <2>3, <2>4
<1> QED  BY <1>0, <1>1, <1>2

LEMMA StmtOp ==
    ASSUME Ready, InLoop
    PROVE  /\ Stmt.op \in {"insert", "link", "none"}
           /\ Stmt.op = "link" =>
                 /\ Stmt.journal \in JournalsOf(Stmt.txn)
                 /\ program.step = 11
<1>0. program.step \in Plain \/ program.step \in {9, 10}
  BY DEF Ready, ProgramInv, Plain
<1>1. CASE program.step \in Plain
  <2>1. /\ program.doc \in DOMAIN mongo[Steps[program.step]]
        /\ program.part \in DOMAIN Plan(program.step, program.doc)
        /\ program.stmt \in DOMAIN Plan(program.step, program.doc)[program.part]
        /\ Stmt = Plan(program.step, program.doc)[program.part][program.stmt]
    BY <1>1, StmtIsPlanned DEF Ready
  <2>2. IsSound(program.step, program.doc, program.part, program.stmt, Stmt)
    BY <1>1, <2>1, PlanSound DEF PlanIsSound, Ready
  <2>3. Stmt.op \in {"insert", "link", "none"}
    BY <2>2 DEF IsSound
  <2>4. Stmt.op = "link" => Stmt.journal \in JournalsOf(Stmt.txn)
    BY <1>1, <2>1, PlanLink DEF Ready
  <2>5. Stmt.op = "link" => program.step = 11
    BY <2>2 DEF IsSound, LinkIsSound
  <2> QED  BY <2>3, <2>4, <2>5
<1>2. CASE program.step \in {9, 10}
  <2>1. Stmt.op = "insert"
    BY <1>2, StmtIsTxn DEF Ready, Insert
  <2> QED  BY <2>1
<1> QED  BY <1>0, <1>1, <1>2

LEMMA ExecuteDraft ==
    ASSUME Ready, Execute
    PROVE  /\ RowsInv(draft') /\ Grows
           /\ Stmt.op = "insert" /\ Collides(draft, Stmt.row) => Stmt.skip
           /\ Stmt.op = "insert" /\ ~ Collides(draft, Stmt.row) =>
                 Len(draft') = Len(draft) + 1 /\ draft'[Len(draft) + 1] = Stmt.row
           /\ Stmt.op = "link" =>
                 \A a \in DOMAIN draft' :
                    draft'[a].table = "transactions" /\ <<"id", Stmt.txn>> \in draft'[a].keys
                    => draft'[a].data.journal # {}
<1>0. /\ InLoop /\ Accepts(draft, Stmt) /\ draft' = Effect(draft, Stmt)
      /\ mongo \in Source /\ RowsInv(draft) /\ IsList(draft)
  BY DEF Execute, Ready, RowsInv
<1>1. Stmt.op \in {"insert", "link", "none"}
  BY <1>0, StmtOp
<1> DEFINE rows == draft  more == draft'  s == Stmt
<1>2. ASSUME more = rows
      PROVE  RowsInv(more) /\ Grows
  BY <1>0, <1>2 DEF Grows, IsList
<1>3. CASE s.op = "insert" /\ Collides(rows, s.row)
  <2>1. s.skip
    BY <1>0, <1>3 DEF Accepts
  <2>2. more = rows
    BY <1>0, <1>3 DEF Effect
  <2> QED  BY <1>2, <1>3, <2>1, <2>2
<1>4. CASE s.op = "insert" /\ ~ Collides(rows, s.row)
  <2>1. more = Append(rows, s.row)
    BY <1>0, <1>4 DEF Effect
  <2>2. \A need \in s.row.needs : Has(rows, need)
    BY <1>0, <1>4 DEF Accepts
  <2>3. IsPlanned(s.row) \/ IsTxn(s.row)
    BY <1>0, <1>4, StmtRow
  <2>4. RowsInv(more)
    BY <1>0, <1>4, <2>1, <2>2, <2>3, AppendKeeps
  <2>5. /\ IsList(more) /\ Len(more) = Len(rows) + 1 /\ more[Len(rows) + 1] = s.row
        /\ \A a \in DOMAIN rows : more[a] = rows[a]
    BY <1>0, <2>1, Appended
  <2>6. \A a \in DOMAIN more \ DOMAIN rows : a = Len(rows) + 1
    BY <1>0, <2>5 DEF IsList
  <2>7. Len(rows) <= Len(more)
    BY <1>0, <2>5 DEF IsList
  <2>8. Grows
    BY <1>0, <1>4, <2>5, <2>6, <2>7 DEF Grows
  <2> QED  BY <1>4, <2>4, <2>5, <2>8
<1>5. CASE s.op = "link"
  <2>1. more = LinkedTo(rows, s)
    BY <1>0, <1>5 DEF Effect
  <2>2. s.journal \in JournalsOf(s.txn)
    BY <1>0, <1>5, StmtOp
  <2>3. /\ RowsInv(LinkedTo(rows, s))
        /\ Len(LinkedTo(rows, s)) = Len(rows)
        /\ \A a \in DOMAIN rows :
                 /\ LinkedTo(rows, s)[a].table = rows[a].table
                 /\ LinkedTo(rows, s)[a].keys = rows[a].keys
                 /\ rows[a].table # "transactions" => LinkedTo(rows, s)[a] = rows[a]
                 /\ rows[a].table = "transactions" =>
                       IF <<"id", s.txn>> \in rows[a].keys
                       THEN LinkedTo(rows, s)[a].data.journal = {s.journal}
                       ELSE LinkedTo(rows, s)[a] = rows[a]
    BY <1>0, <2>2, Linking
  <2> HIDE DEF more, rows, s
  <2>4. /\ RowsInv(more) /\ Len(more) = Len(rows)
        /\ \A a \in DOMAIN rows :
                 /\ more[a].table = rows[a].table
                 /\ more[a].keys = rows[a].keys
                 /\ rows[a].table # "transactions" => more[a] = rows[a]
                 /\ rows[a].table = "transactions" =>
                       IF <<"id", s.txn>> \in rows[a].keys
                       THEN more[a].data.journal = {s.journal}
                       ELSE more[a] = rows[a]
    BY <2>1, <2>3
  <2>5. IsList(rows) /\ IsList(more) /\ DOMAIN more = DOMAIN rows /\ Len(rows) <= Len(more)
    BY <1>0, <2>4 DEF RowsInv, IsList, rows
  <2>6. \A a \in DOMAIN more :
           more[a].table = "transactions" /\ <<"id", s.txn>> \in more[a].keys
           => more[a].data.journal # {}
    BY <2>4, <2>5
  <2>7. \A a \in DOMAIN rows :
           rows[a].table = "transactions" /\ rows[a].data.journal # {} => more[a].data.journal # {}
    BY <2>4
  <2>8. Grows
    BY <2>4, <2>5, <2>7 DEF Grows, rows, more
  <2> QED  BY <1>5, <2>4, <2>6, <2>8 DEF rows, more, s
<1>6. CASE s.op = "none"
  <2>1. more = rows
    BY <1>0, <1>6 DEF Effect
  <2> QED  BY <1>2, <1>6, <2>1
<1> QED  BY <1>1, <1>3, <1>4, <1>5, <1>6

-----------------------------------------------------------------------------
(* The invariant, after a statement.                                       *)

LEMMA SameRowsInv ==
    ASSUME mongo' = mongo, RowsInv(draft')
    PROVE  RowsInv(draft)'
BY SameTxn, SamePlanned DEF RowsInv, Sourced, Apart, Rooted, IsList

\* Rows without keys come from statements of their own.
LEMMA SerialUnique ==
    ASSUME mongo \in Source,
           NEW n \in Plain, NEW i \in DOMAIN mongo[Steps[n]],
           NEW p \in DOMAIN Plan(n, i), NEW k \in DOMAIN Plan(n, i)[p], Inserts(n, i, p, k),
           NEW m \in Plain, NEW j \in DOMAIN mongo[Steps[m]],
           NEW q \in DOMAIN Plan(m, j), NEW l \in DOMAIN Plan(m, j)[q], Inserts(m, j, q, l),
           PlanRow(n, i, p, k).keys = {},
           PlanRow(m, j, q, l).table = PlanRow(n, i, p, k).table,
           PlanRow(m, j, q, l).data = PlanRow(n, i, p, k).data
    PROVE  m = n /\ j = i /\ q = p /\ l = k
<1> DEFINE r == PlanRow(n, i, p, k)  s == PlanRow(m, j, q, l)
<1>1. /\ InsertIsSound(n, i, p, k, Plan(n, i)[p][k])
      /\ InsertIsSound(m, j, q, l, Plan(m, j)[q][l])
  BY PlanInsert
<1>2. r = Plan(n, i)[p][k].row /\ s = Plan(m, j)[q][l].row
  BY DEF PlanRow
<1>3. s.table = r.table /\ s.data = r.data /\ r.keys = {}
  OBVIOUS
<1>4. r.table \in SerialTables
  BY <1>1, <1>2, <1>3 DEF InsertIsSound
<1>5. ASSUME NEW c \in {"activities", "products", "orders"},
             NEW a \in DOMAIN mongo[c], NEW b \in DOMAIN mongo[c], mongo[c][a].id = mongo[c][b].id
      PROVE  a = b
  <2>1. c \in DOMAIN mongo \ {"finance"}
    <3>1. DOMAIN mongo = { Steps[x] : x \in DOMAIN Steps } \ {"embedded"}
      BY SourceIsDatabase DEF IsDatabase
    <3>2. c \in {Steps[3], Steps[7], Steps[15]} /\ 3 \in DOMAIN Steps /\ 7 \in DOMAIN Steps
          /\ 15 \in DOMAIN Steps
      BY StepNames
    <3> QED  BY <3>1, <3>2
  <2>2. IdsAreUnique(mongo[c])
    BY <2>1, MigrationAssumption
  <2> QED  BY <1>5, <2>2 DEF IdsAreUnique
<1> HIDE DEF r, s
<1>6. CASE r.table = "activities"
  <2>1. /\ n = 3 /\ p = 1 /\ k = 1 /\ r.data = mongo["activities"][i].id
        /\ m = 3 /\ q = 1 /\ l = 1 /\ s.data = mongo["activities"][j].id
    BY <1>1, <1>2, <1>3, <1>6 DEF InsertIsSound
  <2>2. i \in DOMAIN mongo["activities"] /\ j \in DOMAIN mongo["activities"]
    BY <2>1, StepNames
  <2>3. j = i
    BY <1>3, <1>5, <2>1, <2>2
  <2> QED  BY <2>1, <2>3
<1>7. CASE r.table = "product_income_history"
  <2>1. /\ n = 7 /\ p = 4 /\ r.data = <<mongo["products"][i].id, k, mongo["products"][i].income[k]>>
        /\ m = 7 /\ q = 4 /\ s.data = <<mongo["products"][j].id, l, mongo["products"][j].income[l]>>
    BY <1>1, <1>2, <1>3, <1>7 DEF InsertIsSound
  <2>2. i \in DOMAIN mongo["products"] /\ j \in DOMAIN mongo["products"]
    BY <2>1, StepNames
  <2>3. mongo["products"][i].id = mongo["products"][j].id /\ k = l
    BY <1>3, <2>1
  <2>4. j = i
    BY <1>5, <2>2, <2>3
  <2> QED  BY <2>1, <2>3, <2>4
<1>8. CASE r.table = "order_items"
  <2>1. /\ n = 15 /\ p = 2 /\ r.data = <<mongo["orders"][i].id, k, mongo["orders"][i].items[k]>>
        /\ m = 15 /\ q = 2 /\ s.data = <<mongo["orders"][j].id, l, mongo["orders"][j].items[l]>>
    BY <1>1, <1>2, <1>3, <1>8 DEF InsertIsSound
  <2>2. i \in DOMAIN mongo["orders"] /\ j \in DOMAIN mongo["orders"]
    BY <2>1, StepNames
  <2>3. mongo["orders"][i].id = mongo["orders"][j].id /\ k = l
    BY <1>3, <2>1
  <2>4. j = i
    BY <1>5, <2>2, <2>3
  <2> QED  BY <2>1, <2>3, <2>4
<1> QED  BY <1>4, <1>6, <1>7, <1>8 DEF SerialTables

\* What executes is active, and stays so.
LEMMA ExecuteActive ==
    ASSUME ProgramInv, Execute
    PROVE  /\ Running /\ Active /\ Active' /\ program' = [program EXCEPT !.stmt = program.stmt + 1]
           /\ program'.state = program.state /\ program'.step = program.step
           /\ program'.doc = program.doc /\ program'.part = program.part
           /\ program'.stmt = program.stmt + 1 /\ program'.order = program.order
           /\ mongo' = mongo /\ memo' = memo /\ target' = target /\ base' = base
           /\ report' = report /\ Docs' = Docs /\ Doc' = Doc
<1>1. /\ Running /\ program' = [program EXCEPT !.stmt = program.stmt + 1]
      /\ mongo' = mongo /\ memo' = memo /\ target' = target /\ base' = base /\ report' = report
  BY DEF Execute, InLoop, InDocument
<1>2. /\ program'.state = program.state /\ program'.step = program.step
      /\ program'.doc = program.doc /\ program'.part = program.part
      /\ program'.stmt = program.stmt + 1 /\ program'.order = program.order
  BY <1>1 DEF ProgramInv
<1>3. Docs' = Docs
  BY <1>1, <1>2 DEF Docs, StepName
<1>4. Doc' = Doc
  BY <1>2, <1>3 DEF Doc
<1>5. Active /\ Active'
  BY <1>1, <1>2 DEF Running, Active
<1> QED  BY <1>1, <1>2, <1>3, <1>4, <1>5

LEMMA ExecuteProgram ==
    ASSUME Ready, SyncInv, Execute
    PROVE  ProgramInv' /\ SyncInv'
<1>1. Grows
  BY ExecuteDraft
<1>2. ProgramInv
  BY DEF Ready
<1> USE ExecuteActive
<1>3. program' \in [state : {"off", "running", "failed", "done"}, step : 1..19,
                    doc : Nat \ {0}, part : Nat \ {0}, stmt : Nat \ {0}, order : Seq(STRING)]
  <2> DEFINE S == Seq(STRING)
  <2>1. program \in [state : {"off", "running", "failed", "done"}, step : 1..19,
                     doc : Nat \ {0}, part : Nat \ {0}, stmt : Nat \ {0}, order : S]
    BY <1>2 DEF ProgramInv
  <2> HIDE DEF S
  <2>2. program' = [program EXCEPT !.stmt = program.stmt + 1]
    BY <1>2
  <2>3. program.stmt + 1 \in Nat \ {0}
    BY <2>1
  <2>4. program' \in [state : {"off", "running", "failed", "done"}, step : 1..19,
                      doc : Nat \ {0}, part : Nat \ {0}, stmt : Nat \ {0}, order : S]
    BY <2>1, <2>2, <2>3
  <2> QED  BY <2>4 DEF S
<1>4. program'.state = "running"
  BY <1>2 DEF Running
<1>5. base' \in Nat /\ base' <= Len(target') /\ Len(target') <= Len(draft')
  <2>1. base \in Nat /\ base <= Len(target) /\ Len(target) <= Len(draft)
    BY <1>2 DEF ProgramInv
  <2>2. Len(draft) <= Len(draft') /\ Len(draft) \in Nat /\ Len(draft') \in Nat
    BY <1>1 DEF Grows, IsList
  <2> QED  BY <1>2, <2>1, <2>2
<1>6. ProgramInv'
  BY <1>3, <1>4, <1>5 DEF ProgramInv
<1>7. program'.doc <= Len(Docs') /\ program'.stmt # 1 /\ program'.doc \in Nat
  <2>1. program.doc <= Len(Docs) /\ program.stmt \in Nat \ {0} /\ program.doc \in Nat
    BY <1>2 DEF Execute, InLoop, InDocument, ProgramInv
  <2> QED  BY <1>2, <2>1
<1>8. Len(Docs') \in Nat
  BY <1>2, DocsAre DEF Ready, IsList
<1>9. SyncInv'
  BY <1>7, <1>8 DEF SyncInv
<1> QED  BY <1>6, <1>9

LEMMA ExecuteMemo ==
    ASSUME Ready, ReportInv, Execute
    PROVE  MemoInv' /\ ReportInv'
<1>1. ProgramInv /\ MemoInv /\ mongo \in Source
  BY DEF Ready
<1>2. /\ mongo' = mongo /\ memo' = memo /\ report' = report /\ Active /\ Active'
      /\ program'.step = program.step
  BY <1>1, ExecuteActive
<1>3. Finished(5)' = Finished(5) /\ Finished(6)' = Finished(6) /\ Finished(8)' = Finished(8)
  BY <1>1, FinishedNext
<1>4. \A d : TxnsOf(d)' = TxnsOf(d) /\ BnplTxnOf(d)' = BnplTxnOf(d)
  OBVIOUS
<1>5. MemoInv'
  BY <1>1, <1>2, <1>3, <1>4, SameOld DEF MemoInv
<1>6. ReportInv'
  BY <1>2 DEF ReportInv
<1> QED  BY <1>5, <1>6

\* A row that collides with one of the rows, collides with it for good.
LEMMA CollidesForGood ==
    ASSUME Grows, NEW row, Collides(draft, row)
    PROVE  Collides(draft', row)
<1>1. PICK a \in DOMAIN draft : draft[a].table = row.table /\ draft[a].keys \cap row.keys # {}
  BY DEF Collides, Places
<1>2. draft'[a].table = row.table /\ draft'[a].keys \cap row.keys # {}
  BY <1>1 DEF Grows
<1>3. a \in DOMAIN draft'
  BY DEF Grows, IsList
<1> QED  BY <1>2, <1>3 DEF Collides, Places

LEMMA ExecutePlan ==
    ASSUME Ready, PlanInv, Execute
    PROVE  PlanInv'
<1>1. ProgramInv /\ MemoInv /\ mongo \in Source /\ IsList(draft) /\ base \in Nat
      /\ base <= Len(target) /\ Len(target) <= Len(draft)
  BY DEF Ready, ProgramInv, RowsInv
<1>2. /\ mongo' = mongo /\ base' = base /\ Active
  BY <1>1, ExecuteActive
<1>3. /\ Grows
      /\ Stmt.op = "insert" /\ Collides(draft, Stmt.row) => Stmt.skip
      /\ Stmt.op = "insert" /\ ~ Collides(draft, Stmt.row) =>
            Len(draft') = Len(draft) + 1 /\ draft'[Len(draft) + 1] = Stmt.row
  BY ExecuteDraft
<1>4. IsList(draft') /\ Len(draft) <= Len(draft')
  BY <1>3 DEF Grows
<1> SUFFICES ASSUME NEW n \in Plain, NEW i \in DOMAIN mongo[Steps[n]],
                    NEW p \in DOMAIN Plan(n, i), NEW k \in DOMAIN Plan(n, i)[p],
                    Executed(n, i, p, k)', Inserts(n, i, p, k)
             PROVE  IF Plan(n, i)[p][k].skip
                    THEN Collides(draft', PlanRow(n, i, p, k))
                    ELSE \E a \in (base + 1)..Len(draft') : draft'[a] = PlanRow(n, i, p, k)
  BY <1>2, SamePlan DEF PlanInv, Collides, Places
<1> DEFINE s == Plan(n, i)[p][k]  row == PlanRow(n, i, p, k)
<1>5. /\ IsPlanned(row) /\ row.table # "transactions" /\ row = s.row /\ s.op = "insert"
  <2>1. IsPlanned(row)
    BY DEF IsPlanned
  <2> QED  BY <1>1, <2>1, PlannedTable DEF Inserts, PlanRow
<1>6. InsertIsSound(n, i, p, k, s)
  BY <1>1, PlanInsert
<1>7. CASE Executed(n, i, p, k)
  <2>1. IF s.skip THEN Collides(draft, row)
        ELSE \E a \in (base + 1)..Len(draft) : draft[a] = row
    BY <1>2, <1>7 DEF PlanInv
  <2>2. CASE s.skip
    BY <1>3, <2>1, <2>2, CollidesForGood
  <2>3. CASE ~ s.skip
    <3>1. PICK a \in (base + 1)..Len(draft) : draft[a] = row
      BY <2>1, <2>3
    <3>2. a \in DOMAIN draft /\ a \in (base + 1)..Len(draft')
      BY <1>1, <1>4 DEF IsList
    <3>3. draft'[a] = row
      BY <1>3, <1>5, <3>1, <3>2 DEF Grows
    <3> QED  BY <2>3, <3>2, <3>3
  <2> QED  BY <2>2, <2>3
<1>8. CASE ~ Executed(n, i, p, k)
  <2>0. k \in Nat
    <3>1. IsScript(Plan(n, i))
      BY <1>1, PlanShape
    <3> QED  BY <3>1 DEF IsScript, IsList
  <2>1. n = program.step /\ i = program.doc /\ p = program.part /\ k = program.stmt
    BY <1>1, <1>8, <2>0, ExecutedNext
  <2>2. InLoop
    BY DEF Execute
  <2>3. Stmt = s
    BY <1>1, <2>1, <2>2, StmtIsPlanned
  <2>4. CASE Collides(draft, row)
    <3>1. s.skip
      BY <1>3, <1>5, <2>3, <2>4
    <3> QED  BY <1>3, <2>4, <3>1, CollidesForGood
  <2>5. CASE ~ Collides(draft, row)
    <3>1. Len(draft') = Len(draft) + 1 /\ draft'[Len(draft) + 1] = row
      BY <1>3, <1>5, <2>3, <2>5
    <3>2. Len(draft) + 1 \in (base + 1)..Len(draft') /\ Len(draft) + 1 \in DOMAIN draft'
      <4>1. Len(draft) \in Nat /\ base <= Len(draft)
        BY <1>1 DEF IsList
      <4>2. DOMAIN draft' = 1..Len(draft')
        BY <1>4 DEF IsList
      <4> QED  BY <1>1, <3>1, <4>1, <4>2
    <3>3. CASE s.skip
      <4>1. row.keys = {<<"id", row.data>>}
        BY <1>5, <1>6, <3>3 DEF InsertIsSound
      <4>2. Collides(draft', row)
        BY <3>1, <3>2, <4>1 DEF Collides, Places
      <4> QED  BY <3>3, <4>2
    <3>4. CASE ~ s.skip
      BY <3>1, <3>2, <3>4
    <3> QED  BY <3>3, <3>4
  <2> QED  BY <2>4, <2>5
<1> QED  BY <1>7, <1>8

\* Rows without keys are of the plan.
LEMMA NoKeysIsPlanned ==
    ASSUME mongo \in Source, NEW rows, RowsInv(rows), NEW a \in DOMAIN rows, rows[a].keys = {}
    PROVE  IsPlanned(rows[a]) /\ rows[a].table # "transactions"
<1> DEFINE r == rows[a]
<1>1. IsPlanned(r) \/ IsTxn(r)
  BY DEF RowsInv, Sourced
<1>2. ~ IsTxn(r)
  <2> SUFFICES ASSUME IsTxn(r) PROVE FALSE
    OBVIOUS
  <2>1. r = [table |-> "transactions", keys |-> {<<"id", r.data.id>>}, needs |-> r.needs,
              data |-> [id |-> r.data.id, amount |-> r.data.amount,
                        initiator |-> r.data.initiator, supplier |-> r.data.supplier,
                        bnpl |-> r.data.bnpl, journal |-> r.data.journal]]
    BY DEF IsTxn
  <2>2. r.keys = {}
    OBVIOUS
  <2> HIDE DEF r
  <2>3. r.keys = {<<"id", r.data.id>>}
    BY <2>1
  <2> QED  BY <2>2, <2>3
<1> QED  BY <1>1, <1>2, PlannedTable

LEMMA ExecuteLinks ==
    ASSUME Ready, LinkInv, Execute
    PROVE  LinkInv'
<1>1. ProgramInv /\ MemoInv /\ mongo \in Source /\ IsList(draft) /\ program.step \in 1..19
  BY DEF Ready, ProgramInv, RowsInv
<1>2. /\ mongo' = mongo /\ base' = base /\ Active /\ program'.step = program.step
  BY <1>1, ExecuteActive
<1>3. /\ Grows /\ InLoop
      /\ Stmt.op = "link" =>
            \A a \in DOMAIN draft' :
               draft'[a].table = "transactions" /\ <<"id", Stmt.txn>> \in draft'[a].keys
               => draft'[a].data.journal # {}
  BY ExecuteDraft DEF Execute
<1> SUFFICES ASSUME NEW i \in DOMAIN mongo["journals"],
                    NEW k \in DOMAIN mongo["journals"][i].operations, Executed(11, i, 2, k)',
                    NEW a \in DOMAIN draft', draft'[a].table = "transactions",
                    <<"id", mongo["journals"][i].operations[k]>> \in draft'[a].keys
             PROVE  draft'[a].data.journal # {}
  BY <1>2 DEF LinkInv
<1>4. /\ 11 \in Plain /\ i \in DOMAIN mongo[Steps[11]]
      /\ 2 \in DOMAIN Plan(11, i) /\ k \in DOMAIN Plan(11, i)[2]
      /\ Plan(11, i)[2][k] = SetJournal(mongo["journals"][i].id,
                                        mongo["journals"][i].operations[k])
  BY CompleteJournals DEF Planned
<1>5. program.step >= 11
  BY <1>1, <1>2 DEF Executed
<1>6. k \in Nat
  <2>1. IsScript(Plan(11, i))
    BY <1>1, <1>4, PlanShape
  <2> QED  BY <1>4, <2>1 DEF IsScript, IsList
<1>7. CASE Executed(11, i, 2, k)
  <2>1. a \in DOMAIN draft
    <3> SUFFICES ASSUME a \notin DOMAIN draft PROVE FALSE
      OBVIOUS
    <3>1. Stmt.op = "insert" /\ draft'[a] = Stmt.row
      BY <1>3 DEF Grows
    <3>2. program.step \in Plain
      BY <1>1, <1>5 DEF Plain
    <3> QED  BY <1>3, <3>1, <3>2, StmtRow
  <2>2. draft[a].table = "transactions"
        /\ <<"id", mongo["journals"][i].operations[k]>> \in draft[a].keys
    BY <1>3, <2>1 DEF Grows
  <2>3. draft[a].data.journal # {}
    BY <1>2, <1>7, <2>1, <2>2 DEF LinkInv
  <2> QED  BY <1>3, <2>1, <2>2, <2>3 DEF Grows
<1>8. CASE ~ Executed(11, i, 2, k)
  <2>1. program.step = 11 /\ i = program.doc /\ 2 = program.part /\ k = program.stmt
    BY <1>1, <1>6, <1>8, ExecutedNext
  <2>2. Stmt = Plan(11, i)[2][k]
    BY <1>1, <1>3, <1>4, <2>1, StmtIsPlanned
  <2>3. Stmt.op = "link" /\ Stmt.txn = mongo["journals"][i].operations[k]
    BY <1>4, <2>2 DEF SetJournal
  <2> QED  BY <1>3, <2>3
<1> QED  BY <1>7, <1>8

LEMMA ExecuteSerial ==
    ASSUME Ready, SerialInv, Execute
    PROVE  SerialInv'
<1>1. ProgramInv /\ MemoInv /\ mongo \in Source /\ IsList(draft) /\ RowsInv(draft)
      /\ base \in Nat
  BY DEF Ready, ProgramInv, RowsInv
<1>2. /\ mongo' = mongo /\ base' = base /\ Active
  BY <1>1, ExecuteActive
<1>3. Grows /\ InLoop
  BY ExecuteDraft DEF Execute
<1>4. IsList(draft') /\ Len(draft) <= Len(draft')
  BY <1>3 DEF Grows
<1> DEFINE Old(a) == a \in (base + 1)..Len(draft)
           Source1(n, i, p, k, r) ==
              /\ n \in Plain /\ i \in DOMAIN mongo[Steps[n]]
              /\ p \in DOMAIN Plan(n, i) /\ k \in DOMAIN Plan(n, i)[p]
              /\ Inserts(n, i, p, k) /\ PlanRow(n, i, p, k) = r
\* An old row ...
<1>5. ASSUME NEW a \in (base + 1)..Len(draft'), a \in DOMAIN draft, draft'[a].keys = {}
      PROVE  /\ Old(a) /\ draft[a].keys = {} /\ draft'[a] = draft[a]
             /\ \E n, i, p, k : Source1(n, i, p, k, draft[a]) /\ Executed(n, i, p, k)
  <2>1. Old(a) /\ draft[a].keys = {}
    BY <1>1, <1>3, <1>5 DEF Grows, IsList
  <2>2. draft'[a] = draft[a]
    BY <1>1, <1>3, <1>5, <2>1, NoKeysIsPlanned DEF Grows
  <2>3. \E n \in Plain : \E i \in DOMAIN mongo[Steps[n]] :
          \E p \in DOMAIN Plan(n, i) : \E k \in DOMAIN Plan(n, i)[p] :
            Executed(n, i, p, k) /\ Inserts(n, i, p, k) /\ PlanRow(n, i, p, k) = draft[a]
    BY <1>2, <2>1 DEF SerialInv
  <2> QED  BY <2>1, <2>2, <2>3
\* ... and the new one.
<1> DEFINE N == program.step  I == program.doc  P == program.part  K == program.stmt
<1>6. ASSUME NEW a \in DOMAIN draft' \ DOMAIN draft, draft'[a].keys = {}
      PROVE  /\ a = Len(draft) + 1 /\ Source1(N, I, P, K, draft'[a])
             /\ K \in Nat /\ ~ Executed(N, I, P, K)
  <2>1. a = Len(draft) + 1 /\ Stmt.op = "insert" /\ draft'[a] = Stmt.row
    BY <1>3 DEF Grows
  <2>2. N \notin {9, 10}
    BY <1>3, <1>6, <2>1, StmtRow
  <2>3. N \in Plain
    BY <1>1, <2>2 DEF ProgramInv, Plain
  <2>4. /\ I \in DOMAIN mongo[Steps[N]]
        /\ P \in DOMAIN Plan(N, I) /\ K \in DOMAIN Plan(N, I)[P]
        /\ Stmt = Plan(N, I)[P][K]
    BY <1>1, <1>3, <2>3, StmtIsPlanned
  <2>5. Source1(N, I, P, K, draft'[a])
    BY <2>1, <2>3, <2>4 DEF Inserts, PlanRow
  <2>8. /\ program.step \in 1..19 /\ program.doc \in Nat \ {0}
        /\ program.part \in Nat \ {0} /\ program.stmt \in Nat \ {0}
    BY <1>1 DEF ProgramInv
  <2>6. N \in Nat /\ I \in Nat /\ P \in Nat /\ K \in Nat
    BY <2>8
  <2>7. ~ Executed(N, I, P, K)
    BY <2>6 DEF Executed
  <2> QED  BY <2>1, <2>5, <2>6, <2>7
<1>7. \A n, i, p, k, r : Source1(n, i, p, k, r) => k \in Nat
  <2> SUFFICES ASSUME NEW n \in Plain, NEW i \in DOMAIN mongo[Steps[n]],
                      NEW p \in DOMAIN Plan(n, i), NEW k \in DOMAIN Plan(n, i)[p]
               PROVE  k \in Nat
    OBVIOUS
  <2>1. IsScript(Plan(n, i))
    BY <1>1, PlanShape
  <2> QED  BY <2>1 DEF IsScript, IsList
<1>8. \A n, i, p, k, r : Source1(n, i, p, k, r) /\ Executed(n, i, p, k) => Executed(n, i, p, k)'
  <2> SUFFICES ASSUME NEW n, NEW i, NEW p, NEW k, NEW r, Source1(n, i, p, k, r),
                      Executed(n, i, p, k)
               PROVE  Executed(n, i, p, k)'
    OBVIOUS
  <2>1. k \in Nat
    BY <1>7
  <2> QED  BY <1>1, <2>1, ExecutedNext
<1>9. \A n, i, p, k : n = N /\ i = I /\ p = P /\ k = K /\ k \in Nat => Executed(n, i, p, k)'
  <2> SUFFICES ASSUME NEW n, NEW i, NEW p, NEW k \in Nat, n = N, i = I, p = P, k = K
               PROVE  Executed(n, i, p, k)'
    OBVIOUS
  <2> QED  BY <1>1, ExecutedNext
\* Two rows from one statement are one row.
<1>10. \A n, i, p, k, r, m, j, q, l, t :
          /\ Source1(n, i, p, k, r) /\ Source1(m, j, q, l, t)
          /\ r.keys = {} /\ r.table = t.table /\ r.data = t.data
          => m = n /\ j = i /\ q = p /\ l = k
  <2> SUFFICES ASSUME NEW n, NEW i, NEW p, NEW k, NEW r, NEW m, NEW j, NEW q, NEW l, NEW t,
                      Source1(n, i, p, k, r), Source1(m, j, q, l, t),
                      r.keys = {}, r.table = t.table, r.data = t.data
               PROVE  m = n /\ j = i /\ q = p /\ l = k
    OBVIOUS
  <2> QED  BY <1>1, SerialUnique
<1>11. ASSUME NEW a \in (base + 1)..Len(draft'), draft'[a].keys = {}
       PROVE  \E n, i, p, k : Source1(n, i, p, k, draft'[a]) /\ Executed(n, i, p, k)'
  <2>0. a \in DOMAIN draft'
    BY <1>1, <1>4 DEF IsList
  <2>1. CASE a \in DOMAIN draft
    BY <1>5, <1>8, <1>11, <2>1
  <2>2. CASE a \notin DOMAIN draft
    <3>1. Source1(N, I, P, K, draft'[a]) /\ K \in Nat
      BY <1>6, <1>11, <2>0, <2>2
    <3>2. PICK n, i, p, k : n = N /\ i = I /\ p = P /\ k = K
      OBVIOUS
    <3>3. Executed(n, i, p, k)'
      BY <1>9, <3>1, <3>2
    <3> HIDE DEF N, I, P, K, Source1
    <3>4. Source1(n, i, p, k, draft'[a])
      BY <3>1, <3>2
    <3> QED  BY <3>3, <3>4
  <2> QED  BY <2>1, <2>2
<1>12. ASSUME NEW a \in (base + 1)..Len(draft'), NEW b \in (base + 1)..Len(draft'),
              draft'[a].keys = {}, draft'[b].keys = {},
              draft'[a].table = draft'[b].table, draft'[a].data = draft'[b].data
       PROVE  a = b
  <2>0. a \in DOMAIN draft' /\ b \in DOMAIN draft'
    BY <1>1, <1>4 DEF IsList
  <2>1. CASE a \in DOMAIN draft /\ b \in DOMAIN draft
    <3>1. /\ Old(a) /\ Old(b) /\ draft[a].keys = {} /\ draft[b].keys = {}
          /\ draft'[a] = draft[a] /\ draft'[b] = draft[b]
      BY <1>5, <1>12, <2>1
    <3> QED  BY <1>2, <1>12, <3>1 DEF SerialInv
  <2>2. ASSUME NEW x \in (base + 1)..Len(draft'), NEW y \in (base + 1)..Len(draft'),
               x \in DOMAIN draft' \ DOMAIN draft, y \in DOMAIN draft,
               draft'[x].keys = {}, draft'[y].keys = {},
               draft'[x].table = draft'[y].table, draft'[x].data = draft'[y].data
        PROVE  FALSE
    <3>1. Source1(N, I, P, K, draft'[x]) /\ ~ Executed(N, I, P, K)
      BY <1>6, <2>2
    <3>2. draft'[y] = draft[y]
      BY <1>5, <2>2
    <3>3. PICK n, i, p, k : Source1(n, i, p, k, draft'[y]) /\ Executed(n, i, p, k)
      BY <1>5, <2>2, <3>2
    <3> HIDE DEF Source1, N, I, P, K
    <3>4. n = N /\ i = I /\ p = P /\ k = K
      BY <1>10, <2>2, <3>1, <3>3
    <3> QED  BY <3>1, <3>3, <3>4
  <2>3. CASE a \notin DOMAIN draft /\ b \in DOMAIN draft
    BY <1>12, <2>0, <2>2, <2>3
  <2>4. CASE a \in DOMAIN draft /\ b \notin DOMAIN draft
    BY <1>12, <2>0, <2>2, <2>4
  <2>5. CASE a \notin DOMAIN draft /\ b \notin DOMAIN draft
    BY <1>6, <1>12, <2>0, <2>5
  <2> QED  BY <2>1, <2>3, <2>4, <2>5
<1> HIDE DEF Old, N, I, P, K
<1> QED  BY <1>2, <1>11, <1>12, SamePlan DEF SerialInv

LEMMA ExecuteTxns ==
    ASSUME Ready, Execute
    PROVE  TxnInv'
<1>1. /\ ProgramInv /\ MemoInv /\ TxnInv /\ mongo \in Source /\ RowsInv(draft)
      /\ base \in Nat /\ base <= Len(target) /\ Len(target) <= Len(draft) /\ IsList(draft)
  BY DEF Ready, ProgramInv, RowsInv
<1>2. /\ mongo' = mongo /\ memo' = memo /\ base' = base /\ Active /\ Docs' = Docs /\ Doc' = Doc
      /\ program'.step = program.step /\ program'.doc = program.doc
      /\ program'.order = program.order
  BY <1>1, ExecuteActive
<1>3. /\ Grows /\ InLoop
      /\ Stmt.op = "insert" /\ Collides(draft, Stmt.row) => Stmt.skip
      /\ Stmt.op = "insert" /\ ~ Collides(draft, Stmt.row) =>
            Len(draft') = Len(draft) + 1 /\ draft'[Len(draft) + 1] = Stmt.row
  BY ExecuteDraft DEF Execute
<1>4. ASSUME NEW x, IsInserted(x)
      PROVE  IsInserted(x)'
  <2>1. PICK a \in (base + 1)..Len(draft) :
           draft[a].table = "transactions" /\ <<"id", x>> \in draft[a].keys
    BY <1>4 DEF IsInserted
  <2>4. /\ DOMAIN draft = 1..Len(draft) /\ Len(draft) \in Nat
        /\ Len(draft) <= Len(draft') /\ Len(draft') \in Nat /\ base \in Nat
    BY <1>1, <1>3 DEF Grows, IsList
  <2>2. a \in DOMAIN draft /\ a \in (base + 1)..Len(draft')
    BY <2>4
  <2>3. draft'[a].table = "transactions" /\ <<"id", x>> \in draft'[a].keys
    BY <1>3, <2>1, <2>2 DEF Grows
  <2> QED  BY <1>2, <2>2, <2>3 DEF IsInserted
<1>5. program.step \in {9, 10} => IsInserted(Doc.id)'
  <2> SUFFICES ASSUME program.step \in {9, 10} PROVE IsInserted(Doc.id)'
    OBVIOUS
  <2>1. Stmt.op = "insert"
    BY <1>1, <1>3, StmtIsTxn DEF Insert
  <2>2. Stmt.row.table = "transactions" /\ ~ Stmt.skip /\ Stmt.row.keys = {<<"id", Doc.id>>}
    BY <1>3, <2>1, StmtRow
  <2>3. Len(draft') = Len(draft) + 1 /\ draft'[Len(draft) + 1] = Stmt.row
    BY <1>3, <2>1, <2>2
  <2>4. Len(draft) + 1 \in (base + 1)..Len(draft')
    <3>1. Len(draft) \in Nat /\ base <= Len(draft)
      BY <1>1 DEF IsList
    <3> QED  BY <1>1, <2>3, <3>1
  <2> QED  BY <1>2, <2>2, <2>3, <2>4 DEF IsInserted
<1>6. Finished(9)' = Finished(9)
  BY <1>1, FinishedNext
<1>7. \A x \in memo'.inserted : x # None /\ IsInserted(x)'
  BY <1>1, <1>2, <1>4 DEF TxnInv
<1>8. \A i \in Finished(9)' : mongo'["transactions"][i].id \in memo'.inserted \cup {None}
  BY <1>1, <1>2, <1>6 DEF TxnInv
<1>9. program'.step = 10 =>
         /\ \A j \in DOMAIN program'.order :
               /\ program'.order[j] \in DOMAIN memo'.embedded
               /\ program'.order[j] \notin Ids("transactions")'
         /\ \A x \in DOMAIN memo'.embedded \ memo'.inserted :
               \E j \in DOMAIN program'.order : j >= program'.doc /\ program'.order[j] = x
  BY <1>1, <1>2, SameOld DEF TxnInv
<1>10. program'.step > 10 => DOMAIN memo'.embedded \subseteq memo'.inserted
  BY <1>1, <1>2 DEF TxnInv
<1>11. program'.step \in {9, 10} => IsInserted(Doc.id)'
  BY <1>2, <1>5
<1> QED  BY <1>7, <1>8, <1>9, <1>10, <1>11 DEF TxnInv

LEMMA ExecuteInv ==
    ASSUME IInv, Execute
    PROVE  IInv'
<1>1. Ready
  BY DEF IInv, Ready
<1>2. mongo' = mongo /\ target' = target
  BY <1>1, ExecuteActive DEF Ready
<1>3. RowsInv(target)'
  BY <1>2, SameRows DEF IInv
<1>4. RowsInv(draft)'
  BY <1>1, <1>2, ExecuteDraft, SameRowsInv
<1>5. ProgramInv' /\ SyncInv'
  BY <1>1, ExecuteProgram DEF IInv
<1>6. MemoInv' /\ ReportInv'
  BY <1>1, ExecuteMemo DEF IInv
<1>7. PlanInv'
  BY <1>1, ExecutePlan DEF IInv
<1>8. SerialInv'
  BY <1>1, ExecuteSerial DEF IInv
<1>9. LinkInv'
  BY <1>1, ExecuteLinks DEF IInv
<1>10. TxnInv'
  BY <1>1, ExecuteTxns
<1> QED  BY <1>2, <1>3, <1>4, <1>5, <1>6, <1>7, <1>8, <1>9, <1>10 DEF IInv

-----------------------------------------------------------------------------
(* The invariant, of a program that does not run, and when it starts.      *)

LEMMA Idle ==
    ASSUME ~ Active
    PROVE  PlanInv /\ SerialInv /\ LinkInv /\ TxnInv /\ ReportInv /\ SyncInv
BY DEF PlanInv, SerialInv, LinkInv, TxnInv, ReportInv, SyncInv

LEMMA EmptyRows == RowsInv(<<>>)
BY DEF RowsInv, IsList, Apart, Rooted, Sourced

LEMMA EmptyMemo ==
    /\ NewMemo = [supplierTxn |-> NewMemo.supplierTxn, bnplTxn |-> NewMemo.bnplTxn,
                  embedded |-> NewMemo.embedded, categoryIDs |-> NewMemo.categoryIDs,
                  inserted |-> NewMemo.inserted]
    /\ IsFiniteSet(DOMAIN NewMemo.embedded) /\ DOMAIN NewMemo.embedded = {}
    /\ DOMAIN NewMemo.supplierTxn = {} /\ DOMAIN NewMemo.bnplTxn = {}
    /\ NewMemo.categoryIDs = {} /\ NewMemo.inserted = {}
<1>1. DOMAIN <<>> = {}
  OBVIOUS
<1>2. IsFiniteSet({})
  BY FS_EmptySet
<1> QED  BY <1>1, <1>2 DEF NewMemo

LEMMA Begins ==
    ASSUME NEW state \in {"off", "running", "failed"}, NEW step \in 1..19,
           NEW order \in Seq(STRING)
    PROVE  /\ At(state, step, order)
              \in [state : {"off", "running", "failed", "done"}, step : 1..19,
                     doc : Nat \ {0}, part : Nat \ {0}, stmt : Nat \ {0},
                     order : Seq(STRING)]
           /\ At(state, step, order).state = state /\ At(state, step, order).step = step
           /\ At(state, step, order).doc = 1 /\ At(state, step, order).part = 1
           /\ At(state, step, order).stmt = 1 /\ At(state, step, order).order = order
<1> DEFINE S == Seq(STRING)
<1>1. order \in S
  OBVIOUS
<1> HIDE DEF S
<1>2. /\ At(state, step, order)
            \in [state : {"off", "running", "failed", "done"}, step : 1..19,
                   doc : Nat \ {0}, part : Nat \ {0}, stmt : Nat \ {0}, order : S]
      /\ At(state, step, order).state = state /\ At(state, step, order).step = step
      /\ At(state, step, order).doc = 1 /\ At(state, step, order).part = 1
      /\ At(state, step, order).stmt = 1 /\ At(state, step, order).order = order
  BY <1>1 DEF At
<1> QED  BY <1>2 DEF S

LEMMA NoOrder == <<>> \in Seq(STRING)
OBVIOUS

LEMMA BeginsFirst ==
    ASSUME NEW state \in {"off", "running", "failed"}
    PROVE  /\ At(state, 1, <<>>)
              \in [state : {"off", "running", "failed", "done"}, step : 1..19,
                     doc : Nat \ {0}, part : Nat \ {0}, stmt : Nat \ {0},
                     order : Seq(STRING)]
           /\ At(state, 1, <<>>).state = state /\ At(state, 1, <<>>).step = 1
           /\ At(state, 1, <<>>).doc = 1 /\ At(state, 1, <<>>).part = 1
           /\ At(state, 1, <<>>).stmt = 1
<1> DEFINE none == <<>>
<1>1. none \in Seq(STRING) /\ 1 \in 1..19
  BY NoOrder
<1> HIDE DEF none
<1>2. /\ At(state, 1, none)
            \in [state : {"off", "running", "failed", "done"}, step : 1..19,
                   doc : Nat \ {0}, part : Nat \ {0}, stmt : Nat \ {0},
                   order : Seq(STRING)]
      /\ At(state, 1, none).state = state /\ At(state, 1, none).step = 1
      /\ At(state, 1, none).doc = 1 /\ At(state, 1, none).part = 1
      /\ At(state, 1, none).stmt = 1
  BY <1>1, Begins
<1> QED  BY <1>2 DEF none

LEMMA InitInv ==
    ASSUME Init
    PROVE  IInv
<1>1. /\ mongo \in Source /\ target = <<>> /\ draft = <<>> /\ memo = NewMemo /\ base = 0
      /\ program = At("off", 1, <<>>)
  BY DEF Init
<1>2. /\ program \in [state : {"off", "running", "failed", "done"}, step : 1..19,
                     doc : Nat \ {0}, part : Nat \ {0}, stmt : Nat \ {0},
                     order : Seq(STRING)]
      /\ program.state = "off"
  BY <1>1, BeginsFirst
<1>3. ~ Active
  BY <1>2 DEF Active
<1>4. base \in Nat /\ base <= Len(target) /\ Len(target) <= Len(draft)
  BY <1>1
<1>5. ProgramInv
  BY <1>1, <1>2, <1>4 DEF ProgramInv
<1>6. MemoInv
  BY <1>1, <1>3, EmptyMemo DEF MemoInv
<1> QED  BY <1>1, <1>3, <1>5, <1>6, Idle, EmptyRows DEF IInv

LEMMA AbortInv ==
    ASSUME IInv, Abort
    PROVE  IInv'
<1>1. /\ mongo' = mongo /\ target' = target /\ draft' = target /\ memo' = memo /\ base' = base
      /\ program' = At("failed", 1, <<>>)
  BY DEF Abort
<1>2. /\ program' \in [state : {"off", "running", "failed", "done"}, step : 1..19,
                     doc : Nat \ {0}, part : Nat \ {0}, stmt : Nat \ {0},
                     order : Seq(STRING)]
      /\ program'.state = "failed"
  BY <1>1, BeginsFirst
<1>3. ~ Active'
  BY <1>2 DEF Active
<1>4. base' \in Nat /\ base' <= Len(target') /\ Len(target') <= Len(draft')
  <2>1. Len(target) \in Nat
    BY DEF IInv, RowsInv, IsList
  <2> QED  BY <1>1, <2>1 DEF IInv, ProgramInv
<1>5. ProgramInv'
  BY <1>1, <1>2, <1>4 DEF ProgramInv
<1>6. MemoInv'
  BY <1>1, <1>3 DEF IInv, MemoInv
<1>7. RowsInv(target') /\ RowsInv(draft')
  BY <1>1 DEF IInv
<1>8. RowsInv(target)' /\ RowsInv(draft)'
  BY <1>1, <1>7, SameRowsInv, SameRows
<1>9. PlanInv' /\ SerialInv' /\ LinkInv' /\ TxnInv' /\ ReportInv' /\ SyncInv'
  BY <1>3 DEF PlanInv, SerialInv, LinkInv, TxnInv, ReportInv, SyncInv
<1> QED  BY <1>1, <1>5, <1>6, <1>8, <1>9 DEF IInv

LEMMA StartInv ==
    ASSUME IInv, NEW fresh \in BOOLEAN, Start(fresh)
    PROVE  IInv'
<1>1. /\ mongo' = mongo /\ (target' = target \/ target' = <<>>) /\ draft' = target'
      /\ memo' = NewMemo /\ base' = Len(target')
      /\ program' = At("running", 1, <<>>) /\ mongo \in Source
  BY DEF Start, IInv
<1>2. /\ program' \in [state : {"off", "running", "failed", "done"}, step : 1..19,
                     doc : Nat \ {0}, part : Nat \ {0}, stmt : Nat \ {0},
                     order : Seq(STRING)]
      /\ program'.state = "running" /\ program'.step = 1 /\ program'.doc = 1
      /\ program'.part = 1 /\ program'.stmt = 1
  BY <1>1, BeginsFirst
<1>3. RowsInv(target')
  BY <1>1, EmptyRows DEF IInv
<1>4. Len(target') \in Nat
  BY <1>3 DEF RowsInv, IsList
<1>5. RowsInv(draft)' /\ RowsInv(target)'
  <2>1. RowsInv(draft)'
    BY <1>1, <1>3, SameRowsInv
  <2> QED  BY <1>1, <2>1
<1>6. ProgramInv'
  BY <1>1, <1>2, <1>4 DEF ProgramInv
<1>7. SyncInv'
  BY <1>1 DEF SyncInv
<1>8. \A n \in 1..19 : n # 10 => Finished(n)' = {}
  <2> SUFFICES ASSUME NEW n \in 1..19, n # 10, NEW i \in DOMAIN mongo[Steps[n]],
                      n < 1 \/ (n = 1 /\ i < 1)
               PROVE  FALSE
    BY <1>1, <1>2 DEF Finished
  <2>1. IsList(mongo[Steps[n]])
    BY <1>1, CollectionsAreLists
  <2>2. i \in Nat \ {0}
    BY <2>1 DEF IsList
  <2> QED  BY <2>2
<1>9. MemoInv'
  <2>1. Finished(5)' = {} /\ Finished(6)' = {} /\ Finished(8)' = {}
    BY <1>8
  <2>2. memo'.categoryIDs = { mongo'["categories"][i].id : i \in Finished(5)' }
    BY <1>1, <2>1, EmptyMemo
  <2> QED  BY <1>1, <2>1, <2>2, EmptyMemo DEF MemoInv
\* Nothing is executed.
<1>10. \A n \in Plain : \A i \in DOMAIN mongo[Steps[n]] :
          \A p \in DOMAIN Plan(n, i) : \A k \in DOMAIN Plan(n, i)[p] : ~ Executed(n, i, p, k)'
  <2> SUFFICES ASSUME NEW n \in Plain, NEW i \in DOMAIN mongo[Steps[n]],
                      NEW p \in DOMAIN Plan(n, i), NEW k \in DOMAIN Plan(n, i)[p]
               PROVE  ~ Executed(n, i, p, k)'
    OBVIOUS
  <2>1. IsScript(Plan(n, i)) /\ IsList(mongo[Steps[n]])
    BY <1>1, PlanShape, CollectionsAreLists DEF Plain
  <2>2. IsList(Plan(n, i)) /\ IsList(Plan(n, i)[p])
    BY <2>1 DEF IsScript
  <2>4. n \in Nat \ {0} /\ i \in Nat \ {0} /\ p \in Nat \ {0} /\ k \in Nat \ {0}
    BY <2>1, <2>2 DEF IsList, Plain
  <2>3. ~ (n < 1) /\ ~ (i < 1) /\ ~ (p < 1) /\ ~ (k < 1)
    BY <2>4
  <2> QED  BY <1>2, <2>3 DEF Executed
<1>11. PlanInv'
  BY <1>1, <1>10, SamePlan DEF PlanInv
<1>12. SerialInv'
  <2>1. (base' + 1)..Len(draft') = {}
    BY <1>1, <1>4
  <2> QED  BY <2>1 DEF SerialInv
<1>13. LinkInv'
  <2>1. \A i \in DOMAIN mongo["journals"] : \A k \in DOMAIN mongo["journals"][i].operations :
           Planned(11, i, 2, k)
    BY CompleteJournals
  <2>2. \A i \in DOMAIN mongo["journals"] : \A k \in DOMAIN mongo["journals"][i].operations :
           ~ Executed(11, i, 2, k)'
    BY <1>10, <2>1 DEF Planned
  <2> QED  BY <1>1, <2>2 DEF LinkInv
<1>14. TxnInv'
  BY <1>1, <1>2, <1>8, EmptyMemo DEF TxnInv
<1>15. ReportInv'
  BY <1>2 DEF ReportInv
<1> QED  BY <1>1, <1>5, <1>6, <1>7, <1>9, <1>11, <1>12, <1>13, <1>14, <1>15 DEF IInv

LEMMA StutterInv ==
    ASSUME IInv, UNCHANGED migrationVars
    PROVE  IInv'
<1>1. /\ mongo' = mongo /\ target' = target /\ draft' = draft /\ program' = program
      /\ memo' = memo /\ report' = report /\ base' = base
  BY DEF migrationVars
<1>2. RowsInv(target)' /\ RowsInv(draft)'
  BY <1>1, SameRows DEF IInv
<1>3. Docs' = Docs
  BY <1>1 DEF Docs, StepName
<1>4. ProgramInv' /\ SyncInv' /\ ReportInv'
  BY <1>1, <1>3 DEF IInv, ProgramInv, SyncInv, ReportInv, Active
<1>5. \A n : Finished(n)' = Finished(n)
  BY <1>1 DEF Finished
<1>6. \A d : TxnsOf(d)' = TxnsOf(d) /\ BnplTxnOf(d)' = BnplTxnOf(d)
  OBVIOUS
<1>7. Active' <=> Active
  BY <1>1 DEF Active
<1>8. MemoInv'
  BY <1>1, <1>5, <1>6, <1>7, SameOld DEF IInv, MemoInv
<1>9. \A n, i, p, k : Executed(n, i, p, k)' <=> Executed(n, i, p, k)
  BY <1>1 DEF Executed
<1>10. PlanInv'
  BY <1>1, <1>7, <1>9, SamePlan DEF IInv, PlanInv, Collides, Places
<1>11. SerialInv'
  BY <1>1, <1>7, <1>9, SamePlan DEF IInv, SerialInv
<1>12. LinkInv'
  BY <1>1, <1>7, <1>9 DEF IInv, LinkInv
<1>13. \A x : IsInserted(x)' <=> IsInserted(x)
  BY <1>1 DEF IsInserted
<1>14. Doc' = Doc
  BY <1>1, <1>3 DEF Doc
<1>15. TxnInv'
  BY <1>1, <1>3, <1>5, <1>7, <1>13, <1>14, SameOld DEF IInv, TxnInv
<1> QED  BY <1>1, <1>2, <1>4, <1>8, <1>10, <1>11, <1>12, <1>15 DEF IInv

-----------------------------------------------------------------------------
(* The invariant, between two statements.                                  *)

LEMMA BetweenStatements ==
    ASSUME IInv, NextLoop \/ NextDocument \/ NextStep
    PROVE  /\ mongo' = mongo /\ draft' = draft /\ base' = base /\ Running /\ Active /\ Active'
           /\ PlanInv' /\ SerialInv' /\ LinkInv' /\ RowsInv(draft)'
<1>0. mongo \in Source /\ ProgramInv /\ MemoInv
  BY DEF IInv
<1>1. mongo' = mongo /\ draft' = draft /\ base' = base /\ Running /\ Active
  BY DEF NextLoop, NextDocument, NextStep, InDocument, Running, Active
<1>2. Active'
  <2>1. CASE NextLoop \/ NextDocument
    <3>1. program'.state = program.state
      BY <1>0, <2>1 DEF NextLoop, NextDocument, ProgramInv
    <3> QED  BY <1>1, <3>1 DEF Active
  <2>2. CASE NextStep
    <3>1. program'.state \in {"running", "done"}
      BY <1>0, <2>2 DEF NextStep, ProgramInv, At
    <3> QED  BY <3>1 DEF Active
  <2> QED  BY <2>1, <2>2
<1>3. \A n \in Plain : \A i \in DOMAIN mongo[Steps[n]] :
         \A p \in DOMAIN Plan(n, i) : \A k \in DOMAIN Plan(n, i)[p] :
            Executed(n, i, p, k)' <=> Executed(n, i, p, k)
  BY <1>0, ExecutedSame
<1>4. PlanInv'
  BY <1>1, <1>3, SamePlan DEF IInv, PlanInv, Collides, Places
<1>5. SerialInv'
  BY <1>1, <1>3, SamePlan DEF IInv, SerialInv
<1>6. LinkInv'
  <2>1. \A i \in DOMAIN mongo["journals"] : \A k \in DOMAIN mongo["journals"][i].operations :
           Planned(11, i, 2, k)
    BY CompleteJournals
  <2>2. \A i \in DOMAIN mongo["journals"] : \A k \in DOMAIN mongo["journals"][i].operations :
           Executed(11, i, 2, k)' <=> Executed(11, i, 2, k)
    BY <1>3, <2>1 DEF Planned
  <2> QED  BY <1>1, <2>2 DEF IInv, LinkInv
<1>7. RowsInv(draft)'
  BY <1>1, SameRowsInv DEF IInv
<1> QED  BY <1>1, <1>2, <1>4, <1>5, <1>6, <1>7

LEMMA ProgramType ==
    ASSUME ProgramInv
    PROVE  /\ program.state \in {"off", "running", "failed", "done"} /\ program.step \in 1..19
           /\ program.doc \in Nat \ {0} /\ program.part \in Nat \ {0}
           /\ program.stmt \in Nat \ {0} /\ program.order \in Seq(STRING)
           /\ program = [state |-> program.state, step |-> program.step, doc |-> program.doc,
                         part |-> program.part, stmt |-> program.stmt, order |-> program.order]
<1> DEFINE S == Seq(STRING)
<1>1. program \in [state : {"off", "running", "failed", "done"}, step : 1..19,
                   doc : Nat \ {0}, part : Nat \ {0}, stmt : Nat \ {0}, order : S]
  BY DEF ProgramInv
<1> HIDE DEF S
<1>2. /\ program.state \in {"off", "running", "failed", "done"} /\ program.step \in 1..19
      /\ program.doc \in Nat \ {0} /\ program.part \in Nat \ {0}
      /\ program.stmt \in Nat \ {0} /\ program.order \in S
      /\ program = [state |-> program.state, step |-> program.step, doc |-> program.doc,
                    part |-> program.part, stmt |-> program.stmt, order |-> program.order]
  BY <1>1
<1> QED  BY <1>2 DEF S

LEMMA IsProgram ==
    ASSUME NEW state \in {"off", "running", "failed", "done"}, NEW step \in 1..19,
           NEW doc \in Nat \ {0}, NEW part \in Nat \ {0}, NEW stmt \in Nat \ {0},
           NEW order \in Seq(STRING)
    PROVE  [state |-> state, step |-> step, doc |-> doc, part |-> part, stmt |-> stmt,
            order |-> order]
              \in [state : {"off", "running", "failed", "done"}, step : 1..19,
                   doc : Nat \ {0}, part : Nat \ {0}, stmt : Nat \ {0}, order : Seq(STRING)]
<1> DEFINE S == Seq(STRING)
<1>1. order \in S
  OBVIOUS
<1> HIDE DEF S
<1>2. [state |-> state, step |-> step, doc |-> doc, part |-> part, stmt |-> stmt,
       order |-> order]
         \in [state : {"off", "running", "failed", "done"}, step : 1..19,
              doc : Nat \ {0}, part : Nat \ {0}, stmt : Nat \ {0}, order : S]
  BY <1>1
<1> QED  BY <1>2 DEF S

LEMMA NextLoopInv ==
    ASSUME IInv, NextLoop
    PROVE  IInv'
<1>0. /\ mongo \in Source /\ ProgramInv /\ MemoInv /\ TxnInv
      /\ base \in Nat /\ base <= Len(target) /\ Len(target) <= Len(draft)
  BY DEF IInv, ProgramInv
<1>1. /\ mongo' = mongo /\ target' = target /\ draft' = draft /\ memo' = memo
      /\ report' = report /\ base' = base /\ Running
      /\ InDocument /\ program.doc <= Len(Docs) /\ program.part <= Len(Script)
      /\ program.stmt > Len(Script[program.part])
  BY DEF NextLoop, InDocument
<1>2. /\ program' = [state |-> program.state, step |-> program.step, doc |-> program.doc,
                     part |-> program.part + 1, stmt |-> 1, order |-> program.order]
      /\ program'.state = "running" /\ program'.step = program.step
      /\ program'.doc = program.doc /\ program'.part = program.part + 1
      /\ program'.stmt = 1 /\ program'.order = program.order
  <2> DEFINE order == program.order
  <2>1. program = [state |-> program.state, step |-> program.step, doc |-> program.doc,
                   part |-> program.part, stmt |-> program.stmt, order |-> program.order]
    BY <1>0, ProgramType
  <2>2. program' = [program EXCEPT !.part = program.part + 1, !.stmt = 1]
    BY DEF NextLoop
  <2>3. program' = [state |-> program.state, step |-> program.step, doc |-> program.doc,
                    part |-> program.part + 1, stmt |-> 1, order |-> program.order]
    BY <2>1, <2>2
  <2> QED  BY <1>1, <2>3 DEF Running
<1>3. /\ Active /\ Active' /\ PlanInv' /\ SerialInv' /\ LinkInv' /\ RowsInv(draft)'
  BY BetweenStatements
<1>4. RowsInv(target)'
  BY <1>1, SameRows DEF IInv
<1>5. Docs' = Docs /\ Doc' = Doc
  BY <1>1, <1>2 DEF Docs, Doc, StepName
<1>6. /\ program.doc \in Nat \ {0} /\ program.part \in Nat \ {0} /\ program.part + 1 \in Nat \ {0}
      /\ program.part + 1 # 1 /\ Len(Docs) \in Nat /\ program.stmt \in Nat \ {0}
  BY <1>0, ProgramType, DocsAre DEF IsList
<1>7. ProgramInv'
  <2>1. program' \in [state : {"off", "running", "failed", "done"}, step : 1..19,
                   doc : Nat \ {0}, part : Nat \ {0}, stmt : Nat \ {0}, order : Seq(STRING)]
    BY <1>0, <1>2, <1>6, ProgramType, IsProgram
  <2> QED  BY <1>0, <1>1, <1>2, <2>1 DEF ProgramInv
<1>8. SyncInv'
  BY <1>1, <1>2, <1>5, <1>6 DEF SyncInv
<1>9. Finished(5)' = Finished(5) /\ Finished(6)' = Finished(6) /\ Finished(8)' = Finished(8)
      /\ Finished(9)' = Finished(9)
  BY <1>0, FinishedNext
<1>10. \A d : TxnsOf(d)' = TxnsOf(d) /\ BnplTxnOf(d)' = BnplTxnOf(d)
  OBVIOUS
<1>11. MemoInv'
  BY <1>0, <1>1, <1>3, <1>9, <1>10, SameOld DEF MemoInv
<1>12. \A x : IsInserted(x)' <=> IsInserted(x)
  BY <1>1 DEF IsInserted
<1>13. program.step \in {9, 10} /\ Doc.id \notin memo.inserted \cup {None} => IsInserted(Doc.id)
  <2> SUFFICES ASSUME program.step \in {9, 10}, Doc.id \notin memo.inserted \cup {None}
               PROVE  IsInserted(Doc.id)
    OBVIOUS
  <2>1. Len(Script) = 1 /\ Len(Script[1]) = 1
    BY TxnScript
  <2>2. program.part = 1
    BY <1>1, <1>6, <2>1
  <2>3. program.stmt > 1
    BY <1>1, <2>1, <2>2
  <2> QED  BY <1>0, <1>1, <1>3, <2>3 DEF TxnInv
<1>14. TxnInv'
  <2>1. /\ \A x \in memo'.inserted : x # None /\ IsInserted(x)'
        /\ \A i \in Finished(9)' : mongo'["transactions"][i].id \in memo'.inserted \cup {None}
    BY <1>0, <1>1, <1>3, <1>9, <1>12 DEF TxnInv
  <2>2. program'.step = 10 =>
              /\ \A j \in DOMAIN program'.order :
                    /\ program'.order[j] \in DOMAIN memo'.embedded
                    /\ program'.order[j] \notin Ids("transactions")'
              /\ \A x \in DOMAIN memo'.embedded \ memo'.inserted :
                    \E j \in DOMAIN program'.order : j >= program'.doc /\ program'.order[j] = x
    BY <1>0, <1>1, <1>2, <1>3, SameOld DEF TxnInv
  <2>3. program'.step > 10 => DOMAIN memo'.embedded \subseteq memo'.inserted
    BY <1>0, <1>1, <1>2, <1>3 DEF TxnInv
  <2>5. program'.step \in {9, 10} /\ Doc'.id \notin memo'.inserted \cup {None}
        => IsInserted(Doc.id)'
    BY <1>1, <1>2, <1>5, <1>12, <1>13 DEF IsInserted
  <2> QED  BY <2>1, <2>2, <2>3, <2>5 DEF TxnInv
<1>15. ReportInv'
  BY <1>1, <1>2, <1>3 DEF IInv, ReportInv
<1> QED  BY <1>0, <1>1, <1>3, <1>4, <1>7, <1>8, <1>11, <1>14, <1>15 DEF IInv

\* The supplier of each of its transactions.
SaidBy(d) == [x \in TxnsOf(d) |-> d.id]

IsMemo(mem) ==
    mem = [supplierTxn |-> mem.supplierTxn, bnplTxn |-> mem.bnplTxn,
           embedded |-> mem.embedded, categoryIDs |-> mem.categoryIDs,
           inserted |-> mem.inserted]

\* What the program remembers, step by step.
\* What the program has learned of a document of step n.
Remembered(n, d, mem, new) ==
    /\ IsMemo(new)
    /\ n = 5 => new.categoryIDs = mem.categoryIDs \cup {d.id}
    /\ n # 5 => new.categoryIDs = mem.categoryIDs
    /\ n = 6 => /\ new.supplierTxn = Overlay(mem.supplierTxn, SaidBy(d))
                /\ new.embedded = Overlay(mem.embedded, StashOf(d))
    /\ n # 6 => new.supplierTxn = mem.supplierTxn /\ new.embedded = mem.embedded
    /\ n = 8 => new.bnplTxn = Overlay(mem.bnplTxn, BnplTxnOf(d))
    /\ n # 8 => new.bnplTxn = mem.bnplTxn
    /\ n \in {9, 10} => new.inserted = mem.inserted \cup ({d.id} \ {None})
    /\ n \notin {9, 10} => new.inserted = mem.inserted

LEMMA Remembers ==
    ASSUME NEW n \in 1..19, NEW mem, NEW d, NEW new, new = Remember(Steps[n], mem, d),
           IsMemo(mem)
    PROVE  Remembered(n, d, mem, new)
<1> DEFINE more == Remember(Steps[n], mem, d)
<1>1. CASE n = 5
  <2>1. more = [mem EXCEPT !.categoryIDs = mem.categoryIDs \cup {d.id}]
    BY <1>1, StepNames DEF Remember
  <2> HIDE DEF more
  <2>2. more = [supplierTxn |-> mem.supplierTxn, bnplTxn |-> mem.bnplTxn,
                embedded |-> mem.embedded, categoryIDs |-> mem.categoryIDs \cup {d.id},
                inserted |-> mem.inserted]
    BY <2>1 DEF IsMemo
  <2> QED  BY <1>1, <2>2 DEF more, IsMemo, Remembered
<1>2. CASE n = 6
  <2> DEFINE s == Overlay(mem.supplierTxn, SaidBy(d))
             e == Overlay(mem.embedded, StashOf(d))
  <2>1. more = [mem EXCEPT !.supplierTxn = s, !.embedded = e]
    BY <1>2, StepNames DEF Remember, SaidBy
  <2> HIDE DEF more, s, e
  <2>2. more = [supplierTxn |-> s, bnplTxn |-> mem.bnplTxn,
                embedded |-> e, categoryIDs |-> mem.categoryIDs,
                inserted |-> mem.inserted]
    BY <2>1 DEF IsMemo
  <2>3. /\ more = [supplierTxn |-> more.supplierTxn, bnplTxn |-> more.bnplTxn,
                   embedded |-> more.embedded, categoryIDs |-> more.categoryIDs,
                   inserted |-> more.inserted]
        /\ more.supplierTxn = s /\ more.embedded = e /\ more.bnplTxn = mem.bnplTxn
        /\ more.categoryIDs = mem.categoryIDs /\ more.inserted = mem.inserted
    BY <2>2
  <2> QED  BY <1>2, <2>3 DEF more, IsMemo, Remembered, s, e
<1>3. CASE n = 8
  <2> DEFINE b == Overlay(mem.bnplTxn, BnplTxnOf(d))
  <2>1. more = [mem EXCEPT !.bnplTxn = b]
    BY <1>3, StepNames DEF Remember
  <2> HIDE DEF more, b
  <2>2. more = [supplierTxn |-> mem.supplierTxn, bnplTxn |-> b,
                embedded |-> mem.embedded, categoryIDs |-> mem.categoryIDs,
                inserted |-> mem.inserted]
    BY <2>1 DEF IsMemo
  <2> QED  BY <1>3, <2>2 DEF more, IsMemo, Remembered, b
<1>4. CASE n \in {9, 10}
  <2> DEFINE s == mem.inserted \cup ({d.id} \ {None})
  <2>1. more = [mem EXCEPT !.inserted = s]
    BY <1>4, StepNames DEF Remember
  <2> HIDE DEF more, s
  <2>2. more = [supplierTxn |-> mem.supplierTxn, bnplTxn |-> mem.bnplTxn,
                embedded |-> mem.embedded, categoryIDs |-> mem.categoryIDs,
                inserted |-> s]
    BY <2>1 DEF IsMemo
  <2> QED  BY <1>4, <2>2 DEF more, IsMemo, Remembered, s
<1>5. CASE n \notin {5, 6, 8, 9, 10}
  <2>1. Steps[n] \notin {"categories", "suppliers", "customers", "transactions", "embedded"}
    <3>1. n \in {1, 2, 3, 4, 7, 11, 12, 13, 14, 15, 16, 17, 18, 19}
      BY <1>5
    <3> QED  BY <3>1, StepNames
  <2>2. more = mem
    BY <2>1 DEF Remember
  <2> HIDE DEF more
  <2> QED  BY <1>5, <2>2 DEF more, IsMemo, Remembered
<1> QED  BY <1>1, <1>2, <1>3, <1>4, <1>5

\* The next document of the step, and what is the same.
LEMMA DocumentOver ==
    ASSUME IInv, NextDocument
    PROVE  /\ mongo' = mongo /\ draft' = draft /\ base' = base /\ report' = report
           /\ memo' = Remember(StepName, memo, Doc)
           /\ target' = IF Commits THEN draft ELSE target
           /\ program' = [state |-> program.state, step |-> program.step,
                          doc |-> program.doc + 1, part |-> 1, stmt |-> 1,
                          order |-> program.order]
           /\ program'.state = "running" /\ program'.step = program.step
           /\ program'.doc = program.doc + 1 /\ program'.part = 1
           /\ program'.stmt = 1 /\ program'.order = program.order
           /\ program.doc \in DOMAIN Docs /\ program.doc <= Len(Docs)
           /\ program.part > Len(Script)
           /\ Docs' = Docs
<1>0. mongo \in Source /\ ProgramInv /\ MemoInv
  BY DEF IInv
<1>1. /\ mongo' = mongo /\ draft' = draft /\ base' = base /\ report' = report
      /\ memo' = Remember(StepName, memo, Doc)
      /\ target' = IF Commits THEN draft ELSE target
      /\ Running /\ program.doc <= Len(Docs) /\ program.part > Len(Script)
  BY DEF NextDocument, InDocument
<1>2. program = [state |-> program.state, step |-> program.step, doc |-> program.doc,
                 part |-> program.part, stmt |-> program.stmt, order |-> program.order]
  BY <1>0, ProgramType
<1>3. program' = [program EXCEPT !.doc = program.doc + 1, !.part = 1, !.stmt = 1]
  BY DEF NextDocument
<1>4. program' = [state |-> program.state, step |-> program.step, doc |-> program.doc + 1,
                  part |-> 1, stmt |-> 1, order |-> program.order]
  BY <1>2, <1>3
<1>5. /\ program'.state = "running" /\ program'.step = program.step
      /\ program'.doc = program.doc + 1 /\ program'.part = 1
      /\ program'.stmt = 1 /\ program'.order = program.order
  BY <1>1, <1>4 DEF Running
<1>6. program.doc \in DOMAIN Docs
  BY <1>0, <1>1, ProgramType, DocsAre DEF IsList
<1>7. Docs' = Docs
  <2>0. program.step \in 1..19
    BY <1>0, ProgramType
  <2>1. CASE program.step = 10
    <3>2. IsMemo(memo)
      BY <1>0 DEF MemoInv, IsMemo
    <3>3. memo' = Remember(Steps[program.step], memo, Doc)
      BY <1>1 DEF StepName
    <3>4. Remembered(program.step, Doc, memo, memo')
      BY <2>0, <3>2, <3>3, Remembers
    <3>1. memo'.embedded = memo.embedded
      BY <2>1, <3>4 DEF Remembered
    <3> QED  BY <1>1, <1>5, <3>1 DEF Docs, StepName
  <2>2. CASE program.step # 10
    <3>1. StepName # "embedded"
      BY <2>0, <2>2, StepNames DEF StepName
    <3> QED  BY <1>1, <1>5, <3>1 DEF Docs, StepName
  <2> QED  BY <2>1, <2>2
<1> QED  BY <1>1, <1>4, <1>5, <1>6, <1>7

LEMMA NextDocumentMemo ==
    ASSUME IInv, NextDocument
    PROVE  MemoInv'
<1>0. mongo \in Source /\ ProgramInv /\ MemoInv /\ program.step \in 1..19
  BY ProgramType DEF IInv
<1> DEFINE n == program.step  d == Doc
<1>1. /\ mongo' = mongo /\ memo' = Remember(Steps[n], memo, d) /\ program.doc \in DOMAIN Docs
      /\ program'.step = n
  BY DocumentOver DEF StepName
<1>2. /\ IsMemo(memo')
      /\ n = 5 => memo'.categoryIDs = memo.categoryIDs \cup {d.id}
      /\ n # 5 => memo'.categoryIDs = memo.categoryIDs
      /\ n = 6 => /\ memo'.supplierTxn = Overlay(memo.supplierTxn, SaidBy(d))
                  /\ memo'.embedded = Overlay(memo.embedded, StashOf(d))
      /\ n # 6 => memo'.supplierTxn = memo.supplierTxn /\ memo'.embedded = memo.embedded
      /\ n = 8 => memo'.bnplTxn = Overlay(memo.bnplTxn, BnplTxnOf(d))
      /\ n # 8 => memo'.bnplTxn = memo.bnplTxn
  <2>1. IsMemo(memo)
    BY <1>0 DEF MemoInv, IsMemo
  <2>2. n \in 1..19 /\ memo' = Remember(Steps[n], memo, d)
    BY <1>0, <1>1
  <2> HIDE DEF n, d
  <2>3. Remembered(n, d, memo, memo')
    BY <2>1, <2>2, Remembers
  <2> QED  BY <2>3 DEF Remembered
<1>3. Active /\ Active'
  BY BetweenStatements
<1>4. n # 10 => Docs = mongo[Steps[n]]
  BY <1>0, DocsAre
<1> HIDE DEF n
<1>5. \A m \in {5, 6, 8} : /\ m # n => Finished(m)' = Finished(m)
                           /\ m = n => /\ Finished(m)' = Finished(m) \cup {program.doc}
                                       /\ program.doc \in DOMAIN mongo[Steps[m]]
                                       /\ d = mongo[Steps[m]][program.doc]
  <2> SUFFICES ASSUME NEW m \in {5, 6, 8}
               PROVE  /\ m # n => Finished(m)' = Finished(m)
                      /\ m = n => /\ Finished(m)' = Finished(m) \cup {program.doc}
                                  /\ program.doc \in DOMAIN mongo[Steps[m]]
                                  /\ d = mongo[Steps[m]][program.doc]
    OBVIOUS
  <2>1. m \in 1..19 /\ m # 10
    OBVIOUS
  <2>2. Finished(m)' = IF m = program.step THEN Finished(m) \cup {program.doc}
                       ELSE Finished(m)
    BY <1>0, <2>1, FinishedNext
  <2> QED  BY <1>1, <1>4, <2>1, <2>2 DEF Doc, n
<1>6. memo'.categoryIDs = { mongo["categories"][i].id : i \in Finished(5)' }
  <2>1. memo.categoryIDs = { mongo["categories"][i].id : i \in Finished(5) }
    BY <1>0, <1>3 DEF MemoInv
  <2>2. CASE n = 5
    BY <1>2, <1>5, <2>1, <2>2, StepNames
  <2>3. CASE n # 5
    BY <1>2, <1>5, <2>1, <2>3
  <2> QED  BY <2>2, <2>3
<1>7. ASSUME n = 6
      PROVE  /\ program.doc \in DOMAIN mongo["suppliers"] /\ d = mongo["suppliers"][program.doc]
             /\ Finished(6)' = Finished(6) \cup {program.doc}
             /\ DOMAIN StashOf(d) = TxnsOf(d)
             /\ TxnsOf(d) \subseteq STRING /\ IsFiniteSet(TxnsOf(d))
             /\ \A x \in TxnsOf(d) : /\ x # None /\ d.id \in SuppliersOf(x)
                                     /\ StashOf(d)[x] \in Embedded /\ StashOf(d)[x].id = x
  <2>1. program.doc \in DOMAIN mongo["suppliers"] /\ d = mongo["suppliers"][program.doc]
        /\ Finished(6)' = Finished(6) \cup {program.doc}
    BY <1>5, <1>7, StepNames
  <2> HIDE DEF d
  <2> QED  BY <1>0, <2>1, Stash
<1>8. /\ IsFiniteSet(DOMAIN memo'.embedded) /\ DOMAIN memo'.embedded \subseteq STRING
      /\ \A x \in DOMAIN memo'.embedded :
            memo'.embedded[x] \in Embedded /\ memo'.embedded[x].id = x /\ x # None
      /\ \A i \in Finished(6)' : TxnsOf(mongo["suppliers"][i]) \subseteq DOMAIN memo'.embedded
  <2>1. /\ IsFiniteSet(DOMAIN memo.embedded) /\ DOMAIN memo.embedded \subseteq STRING
        /\ \A x \in DOMAIN memo.embedded :
              memo.embedded[x] \in Embedded /\ memo.embedded[x].id = x /\ x # None
        /\ \A i \in Finished(6) : TxnsOf(mongo["suppliers"][i]) \subseteq DOMAIN memo.embedded
    BY <1>0, <1>3 DEF MemoInv
  <2>2. CASE n = 6
    <3> DEFINE f == memo.embedded  g == StashOf(d)
    <3>9. memo'.embedded = Overlay(f, g) /\ DOMAIN g = TxnsOf(d)
      BY <1>2, <1>7, <2>2
    <3> HIDE DEF f, g
    <3>1. /\ memo'.embedded = Overlay(f, g) /\ DOMAIN g = TxnsOf(d)
          /\ DOMAIN Overlay(f, g) = DOMAIN f \cup DOMAIN g
          /\ \A x \in DOMAIN g : Overlay(f, g)[x] = g[x]
          /\ \A x \in DOMAIN f \ DOMAIN g : Overlay(f, g)[x] = f[x]
      <4>1. DOMAIN Overlay(f, g) = DOMAIN f \cup DOMAIN g
        BY Overlaid
      <4>2. \A x \in DOMAIN g : Overlay(f, g)[x] = g[x]
        BY Overlaid
      <4>3. \A x \in DOMAIN f \ DOMAIN g : Overlay(f, g)[x] = f[x]
        BY Overlaid
      <4> QED  BY <3>9, <4>1, <4>2, <4>3
    <3>2. IsFiniteSet(DOMAIN f \cup DOMAIN g)
      BY <1>7, <2>1, <2>2, <3>1, FS_Union DEF f
    <3>3. DOMAIN memo'.embedded = DOMAIN f \cup TxnsOf(d)
      BY <3>1
    <3>4. ASSUME NEW x \in DOMAIN memo'.embedded
          PROVE  memo'.embedded[x] \in Embedded /\ memo'.embedded[x].id = x /\ x # None
      <4>1. CASE x \in DOMAIN g
        <5>1. memo'.embedded[x] = g[x] /\ x \in TxnsOf(d)
          BY <3>1, <4>1
        <5> QED  BY <1>7, <2>2, <5>1 DEF g
      <4>2. CASE x \notin DOMAIN g
        <5>1. memo'.embedded[x] = f[x] /\ x \in DOMAIN f
          BY <3>1, <4>2
        <5> QED  BY <2>1, <5>1 DEF f
      <4> QED  BY <4>1, <4>2
    <3>5. DOMAIN memo'.embedded \subseteq STRING
      BY <1>7, <2>1, <2>2, <3>3 DEF f
    <3>6. IsFiniteSet(DOMAIN memo'.embedded)
      BY <3>1, <3>2
    <3>7. \A i \in Finished(6)' : TxnsOf(mongo["suppliers"][i]) \subseteq DOMAIN memo'.embedded
      BY <1>7, <2>1, <2>2, <3>3 DEF f
    <3> QED  BY <3>4, <3>5, <3>6, <3>7
  <2>3. CASE n # 6
    BY <1>2, <1>5, <2>1, <2>3
  <2> QED  BY <2>2, <2>3
<1>9. /\ \A x \in DOMAIN memo'.supplierTxn : memo'.supplierTxn[x] \in SuppliersOf(x)
      /\ \A i \in Finished(6)' : TxnsOf(mongo["suppliers"][i]) \subseteq DOMAIN memo'.supplierTxn
  <2>1. /\ \A x \in DOMAIN memo.supplierTxn : memo.supplierTxn[x] \in SuppliersOf(x)
        /\ \A i \in Finished(6) : TxnsOf(mongo["suppliers"][i]) \subseteq DOMAIN memo.supplierTxn
    BY <1>0, <1>3 DEF MemoInv
  <2>2. CASE n = 6
    <3> DEFINE f == memo.supplierTxn  g == SaidBy(d)
    <3>0. DOMAIN g = TxnsOf(d) /\ \A x \in TxnsOf(d) : g[x] = d.id
      BY DEF SaidBy
    <3>9. memo'.supplierTxn = Overlay(f, g)
      BY <1>2, <2>2
    <3> HIDE DEF f, g
    <3>1. /\ memo'.supplierTxn = Overlay(f, g)
          /\ DOMAIN Overlay(f, g) = DOMAIN f \cup DOMAIN g
          /\ \A x \in DOMAIN g : Overlay(f, g)[x] = g[x]
          /\ \A x \in DOMAIN f \ DOMAIN g : Overlay(f, g)[x] = f[x]
      <4>1. DOMAIN Overlay(f, g) = DOMAIN f \cup DOMAIN g
        BY Overlaid
      <4>2. \A x \in DOMAIN g : Overlay(f, g)[x] = g[x]
        BY Overlaid
      <4>3. \A x \in DOMAIN f \ DOMAIN g : Overlay(f, g)[x] = f[x]
        BY Overlaid
      <4> QED  BY <3>9, <4>1, <4>2, <4>3
    <3>3. DOMAIN memo'.supplierTxn = DOMAIN f \cup TxnsOf(d)
      BY <3>0, <3>1
    <3>4. ASSUME NEW x \in DOMAIN memo'.supplierTxn
          PROVE  memo'.supplierTxn[x] \in SuppliersOf(x)
      <4>1. CASE x \in DOMAIN g
        <5>1. memo'.supplierTxn[x] = d.id /\ x \in TxnsOf(d)
          BY <3>0, <3>1, <4>1
        <5> QED  BY <1>7, <2>2, <5>1
      <4>2. CASE x \notin DOMAIN g
        <5>1. memo'.supplierTxn[x] = f[x] /\ x \in DOMAIN f
          BY <3>1, <4>2
        <5> QED  BY <2>1, <5>1 DEF f
      <4> QED  BY <4>1, <4>2
    <3>7. \A i \in Finished(6)' : TxnsOf(mongo["suppliers"][i]) \subseteq DOMAIN memo'.supplierTxn
      BY <1>7, <2>1, <2>2, <3>3 DEF f
    <3> QED  BY <3>4, <3>7
  <2>3. CASE n # 6
    BY <1>2, <1>5, <2>1, <2>3
  <2> QED  BY <2>2, <2>3
<1>10. /\ \A x \in DOMAIN memo'.bnplTxn : memo'.bnplTxn[x] \in BnplsOf(x)
       /\ \A i \in Finished(8)' : DOMAIN BnplTxnOf(mongo["customers"][i]) \subseteq DOMAIN memo'.bnplTxn
  <2>1. /\ \A x \in DOMAIN memo.bnplTxn : memo.bnplTxn[x] \in BnplsOf(x)
        /\ \A i \in Finished(8) : DOMAIN BnplTxnOf(mongo["customers"][i]) \subseteq DOMAIN memo.bnplTxn
    BY <1>0, <1>3 DEF MemoInv
  <2>2. CASE n = 8
    <3>0. /\ program.doc \in DOMAIN mongo["customers"] /\ d = mongo["customers"][program.doc]
          /\ Finished(8)' = Finished(8) \cup {program.doc}
      BY <1>5, <2>2, StepNames
    <3> DEFINE f == memo.bnplTxn  g == BnplTxnOf(d)
    <3>9. memo'.bnplTxn = Overlay(f, g)
      BY <1>2, <2>2
    <3>2. \A x \in DOMAIN g : g[x] \in BnplsOf(x)
      <4> HIDE DEF d
      <4> QED  BY <1>0, <3>0, DebtsTransactions
    <3> HIDE DEF f, g
    <3>1. /\ memo'.bnplTxn = Overlay(f, g)
          /\ DOMAIN Overlay(f, g) = DOMAIN f \cup DOMAIN g
          /\ \A x \in DOMAIN g : Overlay(f, g)[x] = g[x]
          /\ \A x \in DOMAIN f \ DOMAIN g : Overlay(f, g)[x] = f[x]
      <4>1. DOMAIN Overlay(f, g) = DOMAIN f \cup DOMAIN g
        BY Overlaid
      <4>2. \A x \in DOMAIN g : Overlay(f, g)[x] = g[x]
        BY Overlaid
      <4>3. \A x \in DOMAIN f \ DOMAIN g : Overlay(f, g)[x] = f[x]
        BY Overlaid
      <4> QED  BY <3>9, <4>1, <4>2, <4>3
    <3>4. ASSUME NEW x \in DOMAIN memo'.bnplTxn
          PROVE  memo'.bnplTxn[x] \in BnplsOf(x)
      <4>1. CASE x \in DOMAIN g
        BY <3>1, <3>2, <4>1
      <4>2. CASE x \notin DOMAIN g
        <5>1. memo'.bnplTxn[x] = f[x] /\ x \in DOMAIN f
          BY <3>1, <4>2
        <5> QED  BY <2>1, <5>1 DEF f
      <4> QED  BY <4>1, <4>2
    <3>7. \A i \in Finished(8)' : DOMAIN BnplTxnOf(mongo["customers"][i]) \subseteq DOMAIN memo'.bnplTxn
      BY <2>1, <3>0, <3>1 DEF f, g
    <3> QED  BY <3>4, <3>7
  <2>3. CASE n # 8
    BY <1>2, <1>5, <2>1, <2>3
  <2> QED  BY <2>2, <2>3
<1>11. \A x : TxnsOf(x)' = TxnsOf(x) /\ BnplTxnOf(x)' = BnplTxnOf(x)
  OBVIOUS
<1> QED  BY <1>1, <1>2, <1>3, <1>6, <1>8, <1>9, <1>10, <1>11, SameOld DEF MemoInv, IsMemo

LEMMA NextDocumentTxns ==
    ASSUME IInv, NextDocument
    PROVE  TxnInv'
<1>0. mongo \in Source /\ ProgramInv /\ MemoInv /\ TxnInv /\ program.step \in 1..19
  BY ProgramType DEF IInv
<1> DEFINE n == program.step  d == Doc
<1>1. /\ mongo' = mongo /\ memo' = Remember(Steps[n], memo, d) /\ program.doc \in DOMAIN Docs
      /\ program'.step = n /\ program'.doc = program.doc + 1 /\ program'.part = 1
      /\ program'.stmt = 1 /\ program'.order = program.order /\ program.doc <= Len(Docs)
      /\ program.part > Len(Script) /\ draft' = draft /\ base' = base
  BY DocumentOver DEF StepName
<1>2. Active
  BY BetweenStatements
<1>3. /\ n # 6 => memo'.embedded = memo.embedded
      /\ n \in {9, 10} => memo'.inserted = memo.inserted \cup ({d.id} \ {None})
      /\ n \notin {9, 10} => memo'.inserted = memo.inserted
  <2>1. IsMemo(memo)
    BY <1>0 DEF MemoInv, IsMemo
  <2>2. n \in 1..19 /\ memo' = Remember(Steps[n], memo, d)
    BY <1>0, <1>1
  <2> HIDE DEF n, d
  <2>3. Remembered(n, d, memo, memo')
    BY <2>1, <2>2, Remembers
  <2> QED  BY <2>3 DEF Remembered
<1>4. \A x : IsInserted(x)' <=> IsInserted(x)
  BY <1>1 DEF IsInserted
\* A transaction that was not skipped was inserted.
<1>5. n \in {9, 10} /\ d.id # None => IsInserted(d.id)
  <2> SUFFICES ASSUME n \in {9, 10}, d.id # None PROVE IsInserted(d.id)
    OBVIOUS
  <2>1. CASE d.id \in memo.inserted
    BY <1>0, <1>2, <2>1 DEF TxnInv
  <2>2. CASE d.id \notin memo.inserted
    <3>1. Len(Script) = 1
      BY <2>2, TxnScript
    <3>2. program.part > 1 /\ program.doc <= Len(Docs)
      BY <1>1, <3>1
    <3> QED  BY <1>0, <1>2, <2>2, <3>2 DEF TxnInv
  <2> QED  BY <2>1, <2>2
<1>6. \A x \in memo'.inserted : x # None /\ IsInserted(x)'
  <2>1. \A x \in memo.inserted : x # None /\ IsInserted(x)
    BY <1>0, <1>2 DEF TxnInv
  <2> HIDE DEF n, d
  <2>2. ASSUME NEW x \in memo'.inserted
        PROVE  x # None /\ IsInserted(x)
    <3>1. x \in memo.inserted \/ (n \in {9, 10} /\ x = d.id /\ d.id # None)
      BY <1>3
    <3> QED  BY <1>5, <2>1, <3>1
  <2> QED  BY <1>4, <2>2
<1>7. \A i \in Finished(9)' : mongo["transactions"][i].id \in memo'.inserted \cup {None}
  <2>1. \A i \in Finished(9) : mongo["transactions"][i].id \in memo.inserted \cup {None}
    BY <1>0, <1>2 DEF TxnInv
  <2>2. Finished(9)' = IF n = 9 THEN Finished(9) \cup {program.doc} ELSE Finished(9)
    <3>1. 9 \in 1..19 /\ 9 # 10
      OBVIOUS
    <3>2. Finished(9)' = IF 9 = program.step THEN Finished(9) \cup {program.doc}
                         ELSE Finished(9)
      BY <1>0, <3>1, FinishedNext
    <3> QED  BY <3>2
  <2>3. n = 9 => d = mongo["transactions"][program.doc]
    <3>1. n = 9 => Docs = mongo["transactions"]
      BY <1>0, DocsAre, StepNames
    <3> QED  BY <3>1 DEF Doc
  <2>4. memo.inserted \subseteq memo'.inserted
    BY <1>3
  <2> HIDE DEF n, d
  <2>5. CASE n = 9
    BY <1>3, <2>1, <2>2, <2>3, <2>4, <2>5
  <2>6. CASE n # 9
    BY <2>1, <2>2, <2>4, <2>6
  <2> QED  BY <2>5, <2>6
<1>8. ASSUME n = 10
      PROVE  /\ \A j \in DOMAIN program.order :
                   /\ program.order[j] \in DOMAIN memo'.embedded
                   /\ program.order[j] \notin Ids("transactions")
             /\ \A x \in DOMAIN memo'.embedded \ memo'.inserted :
                   \E j \in DOMAIN program.order :
                      j >= program.doc + 1 /\ program.order[j] = x
  <2>1. /\ \A j \in DOMAIN program.order :
              /\ program.order[j] \in DOMAIN memo.embedded
              /\ program.order[j] \notin Ids("transactions")
        /\ \A x \in DOMAIN memo.embedded \ memo.inserted :
              \E j \in DOMAIN program.order : j >= program.doc /\ program.order[j] = x
    BY <1>0, <1>2, <1>8 DEF TxnInv
  <2>2. memo'.embedded = memo.embedded
    BY <1>3, <1>8
  <2>3. IsList(program.order) /\ program.doc \in Nat
    BY <1>0, ProgramType, SeqIsList
  <2>4. /\ program.doc \in DOMAIN program.order /\ d = memo.embedded[program.order[program.doc]]
    BY <1>0, <1>1, <1>8, DocsAre DEF Doc
  <2>5. d.id = program.order[program.doc] /\ d.id # None
    BY <1>0, <1>2, <2>1, <2>4 DEF MemoInv
  <2>6. memo'.inserted = memo.inserted \cup {d.id}
    BY <1>3, <1>8, <2>5
  <2> HIDE DEF n, d
  <2>7. ASSUME NEW x \in DOMAIN memo'.embedded \ memo'.inserted
        PROVE  \E j \in DOMAIN program.order : j >= program.doc + 1 /\ program.order[j] = x
    <3>1. PICK j \in DOMAIN program.order : j >= program.doc /\ program.order[j] = x
      BY <2>1, <2>2, <2>6
    <3>2. j # program.doc
      BY <2>5, <2>6, <3>1
    <3>3. j \in Nat
      BY <2>3 DEF IsList
    <3>4. j >= program.doc + 1
      BY <2>3, <3>1, <3>2, <3>3
    <3> QED  BY <3>1, <3>4
  <2> QED  BY <2>1, <2>2, <2>7
<1>9. n > 10 => DOMAIN memo'.embedded \subseteq memo'.inserted
  <2> SUFFICES ASSUME n > 10 PROVE DOMAIN memo'.embedded \subseteq memo'.inserted
    OBVIOUS
  <2>1. n # 6 /\ n \notin {9, 10}
    OBVIOUS
  <2> QED  BY <1>0, <1>2, <1>3, <2>1 DEF TxnInv
<1> HIDE DEF n, d
<1>10. Ids("transactions")' = Ids("transactions")
  BY <1>1, SameOld
<1>11. program'.step = 10 =>
         /\ \A j \in DOMAIN program'.order :
               /\ program'.order[j] \in DOMAIN memo'.embedded
               /\ program'.order[j] \notin Ids("transactions")'
         /\ \A x \in DOMAIN memo'.embedded \ memo'.inserted :
               \E j \in DOMAIN program'.order : j >= program'.doc /\ program'.order[j] = x
  BY <1>1, <1>8, <1>10
<1>12. program'.step > 10 => DOMAIN memo'.embedded \subseteq memo'.inserted
  BY <1>1, <1>9
<1>13. ~ (program'.part > 1 \/ program'.stmt > 1)
  BY <1>1
<1> QED  BY <1>1, <1>6, <1>7, <1>11, <1>12, <1>13 DEF TxnInv

LEMMA NextDocumentInv ==
    ASSUME IInv, NextDocument
    PROVE  IInv'
<1>0. /\ mongo \in Source /\ ProgramInv /\ MemoInv /\ RowsInv(target) /\ RowsInv(draft)
      /\ base \in Nat /\ base <= Len(target) /\ Len(target) <= Len(draft)
  BY DEF IInv, ProgramInv
<1>1. /\ mongo' = mongo /\ draft' = draft /\ base' = base /\ report' = report
      /\ target' = IF Commits THEN draft ELSE target
      /\ program' = [state |-> program.state, step |-> program.step,
                     doc |-> program.doc + 1, part |-> 1, stmt |-> 1,
                     order |-> program.order]
      /\ program'.state = "running" /\ program'.step = program.step
      /\ program'.doc = program.doc + 1 /\ program.doc <= Len(Docs) /\ Docs' = Docs
  BY DocumentOver
<1>2. /\ Active /\ Active' /\ PlanInv' /\ SerialInv' /\ LinkInv' /\ RowsInv(draft)'
  BY BetweenStatements
<1>3. RowsInv(target)'
  <2>1. RowsInv(target')
    BY <1>0, <1>1
  <2>2. RowsInv(target)' <=> RowsInv(target')
    BY <1>1, SameTxn, SamePlanned DEF RowsInv, Sourced, Apart, Rooted, IsList
  <2> QED  BY <2>1, <2>2
<1>4. /\ program.doc \in Nat \ {0} /\ program.doc + 1 \in Nat \ {0} /\ 1 \in Nat \ {0}
      /\ program.doc + 1 # 1 /\ Len(Docs) \in Nat
  BY <1>0, ProgramType, DocsAre DEF IsList
<1>5. program' \in [state : {"off", "running", "failed", "done"}, step : 1..19,
                   doc : Nat \ {0}, part : Nat \ {0}, stmt : Nat \ {0}, order : Seq(STRING)]
  BY <1>0, <1>1, <1>4, ProgramType, IsProgram
<1>6. base' \in Nat /\ base' <= Len(target') /\ Len(target') <= Len(draft')
  <2>1. Len(target) \in Nat /\ Len(draft) \in Nat
    BY <1>0 DEF RowsInv, IsList
  <2> QED  BY <1>0, <1>1, <2>1
<1>7. ProgramInv'
  BY <1>1, <1>5, <1>6 DEF ProgramInv
<1>8. SyncInv'
  <2> SUFFICES ASSUME program.doc + 1 > Len(Docs) PROVE draft' = target'
    BY <1>1, <1>4 DEF SyncInv
  <2>1. program.doc = Len(Docs)
    BY <1>1, <1>4
  <2>2. Commits
    BY <2>1 DEF Commits
  <2> QED  BY <1>1, <2>2
<1>9. ReportInv'
  BY <1>1, <1>2 DEF IInv, ReportInv
<1> QED  BY <1>0, <1>1, <1>2, <1>3, <1>7, <1>8, <1>9, NextDocumentMemo, NextDocumentTxns DEF IInv

\* The line of the activities is written when their step is over, and never again.
LEMMA ActivitiesRecorded ==
    ASSUME NEW n \in 1..19, StepName = Steps[n]
    PROVE  /\ n = 3 => /\ DOMAIN Recorded(StepName) = {"activities"}
                       /\ Recorded(StepName)["activities"] = Len(Docs)
           /\ n # 3 => "activities" \notin DOMAIN Recorded(StepName)
<1>1. CASE n = 3
  <2>1. StepName = "activities"
    BY <1>1, StepNames
  <2>2. Embeds("activities") = {}
    BY DEF Embeds
  <2>3. Recorded("activities") = [t \in {"activities"} \cup Embeds("activities") |->
                                     CountFor("activities", t)]
    BY DEF Recorded
  <2>4. CountFor("activities", "activities") = Len(Docs)
    BY DEF CountFor
  <2>5. {"activities"} \cup Embeds("activities") = {"activities"}
    BY <2>2
  <2>6. DOMAIN Recorded("activities") = {"activities"}
    BY <2>3, <2>5
  <2>7. Recorded("activities")["activities"] = Len(Docs)
    BY <2>3, <2>4, <2>5
  <2> QED  BY <1>1, <2>1, <2>6, <2>7
<1>2. CASE n # 3
  <2>1. StepName \in { "finance", "users", "brands", "categories", "suppliers",
           "products", "customers", "transactions", "embedded", "journals",
           "store_customers", "carts", "wishlists", "orders", "reviews",
           "promotions", "proposals", "internal_expenses" }
    <3>1. n \in {1, 2, 4, 5, 6, 7, 8, 9, 10, 11, 12, 13, 14, 15, 16, 17, 18, 19}
      BY <1>2
    <3> QED  BY <3>1, StepNames
  <2>2. "activities" \notin Embeds(StepName)
    BY <2>1 DEF Embeds
  <2>3. CASE StepName = "finance"
    <3>1. DOMAIN Recorded(StepName) = {"branches", "branch_finance"}
      BY <2>3 DEF Recorded
    <3> QED  BY <1>2, <3>1
  <2>4. CASE StepName = "transactions"
    <3>1. Recorded(StepName) = <<>>
      BY <2>4 DEF Recorded
    <3>2. DOMAIN Recorded(StepName) = {}
      BY <3>1
    <3> QED  BY <1>2, <3>2
  <2>5. CASE StepName = "embedded"
    <3>1. DOMAIN Recorded(StepName) = {"transactions"}
      BY <2>5 DEF Recorded
    <3> QED  BY <1>2, <3>1
  <2>6. CASE StepName \notin {"finance", "transactions", "embedded"}
    <3>1. CASE StepName = "internal_expenses" /\ Docs = <<>>
      <4>1. Recorded(StepName) = <<>>
        BY <3>1 DEF Recorded
      <4>2. DOMAIN Recorded(StepName) = {}
        BY <4>1
      <4> QED  BY <1>2, <4>2
    <3>2. CASE ~ (StepName = "internal_expenses" /\ Docs = <<>>)
      <4>1. Recorded(StepName) = [t \in {StepName} \cup Embeds(StepName) |->
                                     CountFor(StepName, t)]
        BY <2>6, <3>2 DEF Recorded
      <4>2. DOMAIN Recorded(StepName) = {StepName} \cup Embeds(StepName)
        BY <4>1
      <4>3. StepName # "activities"
        BY <2>1
      <4> QED  BY <1>2, <2>2, <4>2, <4>3
    <3> QED  BY <3>1, <3>2
  <2> QED  BY <2>3, <2>4, <2>5, <2>6
<1> QED  BY <1>1, <1>2

LEMMA NextStepReport ==
    ASSUME IInv, NextStep
    PROVE  ReportInv'
<1>0. mongo \in Source /\ ProgramInv /\ ReportInv /\ program.step \in 1..19
  BY ProgramType DEF IInv
<1>1. Active /\ mongo' = mongo
  BY BetweenStatements
<1> DEFINE r == report  g == Recorded(StepName)
<1>2. report' = Overlay(r, g)
  BY DEF NextStep
<1>3. /\ DOMAIN Overlay(r, g) = DOMAIN r \cup DOMAIN g
  BY Overlaid
<1>4. \A x \in DOMAIN g : Overlay(r, g)[x] = g[x]
  BY Overlaid
<1>5. \A x \in DOMAIN r \ DOMAIN g : Overlay(r, g)[x] = r[x]
  BY Overlaid
<1>6. StepName = Steps[program.step]
  BY DEF StepName
<1>7. program'.step = program.step \/ program'.step = program.step + 1
  BY <1>0 DEF NextStep, ProgramInv, At
<1>8. CASE program.step = 3
  <2>1. DOMAIN g = {"activities"} /\ g["activities"] = Len(Docs)
    BY <1>0, <1>6, <1>8, ActivitiesRecorded
  <2>2. Docs = mongo["activities"]
    BY <1>0, <1>8, DocsAre, StepNames
  <2> HIDE DEF r, g
  <2>3. "activities" \in DOMAIN report' /\ report'["activities"] = Len(mongo["activities"])
    BY <1>2, <1>3, <1>4, <2>1, <2>2
  <2> QED  BY <1>1, <2>3 DEF ReportInv
<1>9. CASE program.step > 3
  <2>1. "activities" \notin DOMAIN g
    BY <1>0, <1>6, <1>9, ActivitiesRecorded
  <2>2. "activities" \in DOMAIN r /\ r["activities"] = Len(mongo["activities"])
    BY <1>0, <1>1, <1>9 DEF ReportInv
  <2> HIDE DEF r, g
  <2>3. "activities" \in DOMAIN report' /\ report'["activities"] = Len(mongo["activities"])
    BY <1>2, <1>3, <1>5, <2>1, <2>2
  <2> QED  BY <1>1, <2>3 DEF ReportInv
<1>10. CASE program.step < 3
  <2>1. ~ (program'.step > 3)
    BY <1>0, <1>7, <1>10
  <2> QED  BY <2>1 DEF ReportInv
<1> QED  BY <1>0, <1>8, <1>9, <1>10

\* An order of what is left over.
LEMMA OrderOf ==
    ASSUME NEW S, IsFiniteSet(S), S \subseteq STRING, NEW order \in Orders(S)
    PROVE  order \in Seq(STRING) /\ Range(order) = S
<1>1. order \in [1..Cardinality(S) -> S] /\ Range(order) = S
  BY DEF Orders
<1>2. Cardinality(S) \in Nat
  BY FS_CardinalityType
<1>3. order \in Seq(S)
  BY <1>1, <1>2
<1>4. IsList(order) /\ \A i \in DOMAIN order : order[i] \in S
  BY <1>3, SeqIsList
<1>5. order \in [1..Cardinality(S) -> STRING]
  BY <1>1
<1> QED  BY <1>1, <1>2, <1>5

\* How the next step begins.
LEMMA StepOver ==
    ASSUME IInv, NextStep
    PROVE  /\ target' = target /\ draft' = draft /\ memo' = memo /\ draft = target
           /\ program.doc > Len(Docs)
           /\ \/ /\ program.step = 19 /\ program'.step = 19 /\ Docs' = Docs
                 /\ program' = [state |-> "done", step |-> 19, doc |-> program.doc,
                                part |-> program.part, stmt |-> program.stmt,
                                order |-> program.order]
              \/ /\ program.step + 1 \in 1..19
                 /\ \E order \in Seq(STRING) :
                       /\ program.step = 9 => Range(order) = Leftovers
                       /\ program' = At("running", program.step + 1, order)
<1>0. mongo \in Source /\ ProgramInv /\ MemoInv /\ SyncInv /\ program.step \in 1..19
  BY ProgramType DEF IInv
<1>1. /\ mongo' = mongo /\ target' = target /\ draft' = draft /\ memo' = memo
      /\ program.doc > Len(Docs) /\ Active
  BY BetweenStatements DEF NextStep
<1>2. draft = target
  BY <1>0, <1>1 DEF SyncInv
<1>3. CASE program.step = Len(Steps)
  <2>1. program = [state |-> program.state, step |-> program.step, doc |-> program.doc,
                   part |-> program.part, stmt |-> program.stmt, order |-> program.order]
    BY <1>0, ProgramType
  <2>2. program' = [program EXCEPT !.state = "done"]
    BY <1>3 DEF NextStep
  <2>3. program.step = 19
    BY <1>3, StepNames
  <2>4. program' = [state |-> "done", step |-> 19, doc |-> program.doc,
                    part |-> program.part, stmt |-> program.stmt, order |-> program.order]
    BY <2>1, <2>2, <2>3
  <2>5. program'.step = 19
    BY <2>4
  <2>6. Docs' = Docs
    <3>1. Steps[19] # "embedded"
      BY StepNames
    <3> QED  BY <1>1, <2>3, <2>5, <3>1 DEF Docs, StepName
  <2> QED  BY <1>1, <1>2, <2>3, <2>4, <2>5, <2>6
<1>4. CASE program.step # Len(Steps)
  <2>1. program.step + 1 \in 1..19
    BY <1>0, <1>4, StepNames
  <2>2. PICK order \in IF StepName = "transactions" THEN Orders(Leftovers) ELSE {<<>>} :
           program' = At("running", program.step + 1, order)
    BY <1>4 DEF NextStep
  <2>3. CASE program.step = 9
    <3>1. order \in Orders(Leftovers)
      BY <2>2, <2>3, StepNames DEF StepName
    <3>2. IsFiniteSet(Leftovers) /\ Leftovers \subseteq STRING
      <4>1. IsFiniteSet(DOMAIN memo.embedded) /\ DOMAIN memo.embedded \subseteq STRING
        BY <1>0 DEF MemoInv
      <4>2. Leftovers \subseteq DOMAIN memo.embedded
        BY DEF Leftovers
      <4> QED  BY <4>1, <4>2, FS_Subset
    <3>3. order \in Seq(STRING) /\ Range(order) = Leftovers
      BY <3>1, <3>2, OrderOf
    <3> QED  BY <1>1, <1>2, <2>1, <2>2, <3>3
  <2>4. CASE program.step # 9
    <3>1. StepName # "transactions"
      <4>1. program.step \in {1, 2, 3, 4, 5, 6, 7, 8, 10, 11, 12, 13, 14, 15, 16, 17, 18, 19}
        BY <1>0, <2>4
      <4> QED  BY <4>1, StepNames DEF StepName
    <3>2. order = <<>>
      BY <2>2, <3>1
    <3>3. order \in Seq(STRING)
      BY <3>2, NoOrder
    <3> QED  BY <1>1, <1>2, <2>1, <2>2, <2>4, <3>3
  <2> QED  BY <2>3, <2>4
<1> QED  BY <1>3, <1>4

LEMMA NextStepTxns ==
    ASSUME IInv, NextStep
    PROVE  TxnInv'
<1>0. mongo \in Source /\ ProgramInv /\ MemoInv /\ TxnInv /\ program.step \in 1..19
      /\ program.doc \in Nat \ {0}
  BY ProgramType DEF IInv
<1>1. /\ target' = target /\ draft' = draft /\ memo' = memo /\ program.doc > Len(Docs)
      /\ mongo' = mongo /\ base' = base /\ Active
  BY StepOver, BetweenStatements
<1>2. \A x : IsInserted(x)' <=> IsInserted(x)
  BY <1>1 DEF IsInserted
<1>3. \A x \in memo'.inserted : x # None /\ IsInserted(x)'
  BY <1>0, <1>1, <1>2 DEF TxnInv
<1>4. \A i \in Finished(9)' : mongo'["transactions"][i].id \in memo'.inserted \cup {None}
  <2>1. Finished(9)' = Finished(9)
    BY <1>0, FinishedNext
  <2> QED  BY <1>0, <1>1, <2>1 DEF TxnInv
<1>5. program.step = 10 => DOMAIN memo.embedded \subseteq memo.inserted
  <2> SUFFICES ASSUME program.step = 10, NEW x \in DOMAIN memo.embedded \ memo.inserted
               PROVE  FALSE
    OBVIOUS
  <2>1. PICK j \in DOMAIN program.order : j >= program.doc
    BY <1>0, <1>1 DEF TxnInv
  <2>2. DOMAIN Docs = DOMAIN program.order /\ IsList(Docs)
    BY <1>0, DocsAre
  <2>3. j \in 1..Len(Docs) /\ Len(Docs) \in Nat
    BY <2>2 DEF IsList
  <2> QED  BY <1>0, <1>1, <2>1, <2>3
<1>6. program.step > 10 => DOMAIN memo.embedded \subseteq memo.inserted
  BY <1>0, <1>1 DEF TxnInv
<1>9. \A a \in 1..19 : (a + 1 > 10 => a = 10 \/ a > 10) /\ (a + 1 = 10 => a = 9)
  OBVIOUS
<1>7. CASE program.step = 19 /\ program'.step = 19
  BY <1>1, <1>3, <1>4, <1>6, <1>7 DEF TxnInv
<1>8. ASSUME NEW order \in Seq(STRING), program.step + 1 \in 1..19,
             program.step = 9 => Range(order) = Leftovers,
             program' = At("running", program.step + 1, order)
      PROVE  TxnInv'
  <2>1. /\ program'.step = program.step + 1 /\ program'.doc = 1 /\ program'.part = 1
        /\ program'.stmt = 1 /\ program'.order = order
    BY <1>8 DEF At
  <2>2. program'.step > 10 => DOMAIN memo'.embedded \subseteq memo'.inserted
    <3>1. program'.step > 10 => program.step = 10 \/ program.step > 10
      BY <1>0, <1>9, <2>1
    <3> QED  BY <1>1, <1>5, <1>6, <3>1
  <2>3. ASSUME program'.step = 10
        PROVE  /\ \A j \in DOMAIN order : /\ order[j] \in DOMAIN memo.embedded
                                          /\ order[j] \notin Ids("transactions")
               /\ \A x \in DOMAIN memo.embedded \ memo.inserted :
                     \E j \in DOMAIN order : j >= 1 /\ order[j] = x
    <3>5. program.step = 9
      BY <1>0, <1>9, <2>1, <2>3
    <3>1. program.step = 9 /\ Range(order) = Leftovers
      BY <1>8, <3>5
    <3>2. ASSUME NEW j \in DOMAIN order
          PROVE  order[j] \in DOMAIN memo.embedded /\ order[j] \notin Ids("transactions")
      <4>1. order[j] \in DOMAIN memo.embedded /\ order[j] \notin memo.inserted
        BY <3>1 DEF Range, Leftovers
      <4>2. order[j] # None
        BY <1>0, <1>1, <4>1 DEF MemoInv
      <4>3. ASSUME order[j] \in Ids("transactions")
            PROVE  FALSE
        <5>1. PICK i \in DOMAIN mongo["transactions"] : order[j] = mongo["transactions"][i].id
          BY <4>3, FromIds
        <5>2. Docs = mongo["transactions"] /\ IsList(Docs)
          BY <1>0, <3>1, DocsAre, StepNames
        <5>3. i < program.doc
          <6>1. i \in 1..Len(Docs) /\ Len(Docs) \in Nat
            BY <5>2 DEF IsList
          <6> QED  BY <1>0, <1>1, <6>1
        <5>4. i \in Finished(9)
          BY <3>1, <5>3, StepNames DEF Finished
        <5>5. mongo["transactions"][i].id \in memo.inserted \cup {None}
          BY <1>0, <1>1, <5>4 DEF TxnInv
        <5> QED  BY <4>1, <4>2, <5>1, <5>5
      <4> QED  BY <4>1, <4>3
    <3>3. IsList(order)
      BY SeqIsList
    <3>4. \A x \in DOMAIN memo.embedded \ memo.inserted :
             \E j \in DOMAIN order : j >= 1 /\ order[j] = x
      BY <3>1, <3>3 DEF Range, Leftovers, IsList
    <3> QED  BY <3>2, <3>4
  <2>4. Ids("transactions")' = Ids("transactions")
    BY <1>1, SameOld
  <2>5. program'.step = 10 =>
           /\ \A j \in DOMAIN program'.order :
                 /\ program'.order[j] \in DOMAIN memo'.embedded
                 /\ program'.order[j] \notin Ids("transactions")'
           /\ \A x \in DOMAIN memo'.embedded \ memo'.inserted :
                 \E j \in DOMAIN program'.order : j >= program'.doc /\ program'.order[j] = x
    BY <1>1, <2>1, <2>3, <2>4
  <2>6. ~ (program'.part > 1 \/ program'.stmt > 1)
    BY <2>1
  <2> QED  BY <1>3, <1>4, <2>2, <2>5, <2>6 DEF TxnInv
<1> QED  BY <1>7, <1>8, StepOver

LEMMA NextStepInv ==
    ASSUME IInv, NextStep
    PROVE  IInv'
<1>0. /\ mongo \in Source /\ ProgramInv /\ MemoInv /\ RowsInv(target)
      /\ base \in Nat /\ base <= Len(target) /\ Len(target) <= Len(draft)
  BY DEF IInv, ProgramInv
<1>1. /\ target' = target /\ draft' = draft /\ memo' = memo /\ draft = target
      /\ program.doc > Len(Docs)
      /\ mongo' = mongo /\ base' = base
      /\ Active /\ Active' /\ PlanInv' /\ SerialInv' /\ LinkInv' /\ RowsInv(draft)'
  BY StepOver, BetweenStatements
<1>2. RowsInv(target)'
  BY <1>0, <1>1, SameRows
<1>3. Finished(5)' = Finished(5) /\ Finished(6)' = Finished(6) /\ Finished(8)' = Finished(8)
  BY <1>0, FinishedNext
<1>4. \A d : TxnsOf(d)' = TxnsOf(d) /\ BnplTxnOf(d)' = BnplTxnOf(d)
  OBVIOUS
<1>5. MemoInv'
  BY <1>0, <1>1, <1>3, <1>4, SameOld DEF MemoInv
<1>6. SyncInv'
  BY <1>1 DEF SyncInv
<1>7. ProgramInv'
  <2>1. CASE /\ program.step = 19 /\ program'.step = 19 /\ Docs' = Docs
             /\ program' = [state |-> "done", step |-> 19, doc |-> program.doc,
                            part |-> program.part, stmt |-> program.stmt,
                            order |-> program.order]
    <3>1. program' \in [state : {"off", "running", "failed", "done"}, step : 1..19,
                   doc : Nat \ {0}, part : Nat \ {0}, stmt : Nat \ {0}, order : Seq(STRING)]
      BY <1>0, <2>1, ProgramType, IsProgram
    <3>2. program'.state = "done" /\ program'.doc = program.doc
      BY <2>1
    <3> QED  BY <1>0, <1>1, <2>1, <3>1, <3>2 DEF ProgramInv
  <2>2. ASSUME NEW order \in Seq(STRING), program.step + 1 \in 1..19,
               program' = At("running", program.step + 1, order)
        PROVE  ProgramInv'
    <3>2. PICK step \in 1..19 : step = program.step + 1
      BY <2>2
    <3>3. program' = At("running", step, order)
      BY <2>2, <3>2
    <3>4. At("running", step, order)
             \in [state : {"off", "running", "failed", "done"}, step : 1..19,
                  doc : Nat \ {0}, part : Nat \ {0}, stmt : Nat \ {0}, order : Seq(STRING)]
      BY <2>2, Begins
    <3>5. At("running", step, order).state = "running"
      BY <2>2, Begins
    <3>1. program' \in [state : {"off", "running", "failed", "done"}, step : 1..19,
                   doc : Nat \ {0}, part : Nat \ {0}, stmt : Nat \ {0}, order : Seq(STRING)]
          /\ program'.state = "running"
      BY <3>3, <3>4, <3>5
    <3> QED  BY <1>0, <1>1, <3>1 DEF ProgramInv
  <2> QED  BY <2>1, <2>2, StepOver
<1> QED  BY <1>0, <1>1, <1>2, <1>5, <1>6, <1>7, NextStepTxns, NextStepReport DEF IInv

\* Whatever was stopped, rolled back or started again before: the committed rows and
\* those of the open transaction have distinct keys, the rows they refer to, and come
\* from a document; what this run has passed is among them; and its lookup tables
\* say of a transaction only what some supplier or debt says.
THEOREM MigrationInvariant == Spec => []IInv
<1>1. Init => IInv
  BY InitInv
<1>2. IInv /\ [Next]_migrationVars => IInv'
  <2> SUFFICES ASSUME IInv, [Next]_migrationVars PROVE IInv'
    OBVIOUS
  <2>1. CASE UNCHANGED migrationVars
    BY <2>1, StutterInv
  <2>2. ASSUME NEW fresh \in BOOLEAN, Start(fresh)
        PROVE  IInv'
    BY <2>2, StartInv
  <2>3. CASE Execute
    BY <2>3, ExecuteInv
  <2>4. CASE Refuse
    BY <2>4, AbortInv DEF Refuse
  <2>5. CASE NextLoop
    BY <2>5, NextLoopInv
  <2>6. CASE NextDocument
    BY <2>6, NextDocumentInv
  <2>7. CASE NextStep
    BY <2>7, NextStepInv
  <2>8. CASE Stop
    BY <2>8, AbortInv DEF Stop
  <2> QED  BY <2>1, <2>2, <2>3, <2>4, <2>5, <2>6, <2>7, <2>8 DEF Next
<1> QED  BY <1>1, <1>2, PTL DEF Spec

-----------------------------------------------------------------------------
(* When the last step is over.                                             *)

\* Everything was executed, and is committed.
LEMMA AllDone ==
    ASSUME IInv, Done
    PROVE  /\ mongo \in Source /\ Active /\ draft = target /\ program.step = 19
           /\ base \in Nat /\ base <= Len(target) /\ RowsInv(target) /\ IsList(target)
           /\ \A n \in Plain : \A i \in DOMAIN mongo[Steps[n]] :
                \A p \in DOMAIN Plan(n, i) : \A k \in DOMAIN Plan(n, i)[p] : Executed(n, i, p, k)
<1>1. /\ mongo \in Source /\ ProgramInv /\ Active /\ program.step = 19
      /\ program.doc > Len(Docs) /\ RowsInv(target) /\ base \in Nat /\ base <= Len(target)
  BY DEF IInv, Done, Active, ProgramInv
<1>2. draft = target
  BY <1>1 DEF IInv, SyncInv
<1>3. Docs = mongo[Steps[19]] /\ IsList(Docs) /\ program.doc \in Nat
  BY <1>1, DocsAre, ProgramType
<1>4. \A n \in Plain : \A i \in DOMAIN mongo[Steps[n]] :
        \A p \in DOMAIN Plan(n, i) : \A k \in DOMAIN Plan(n, i)[p] : Executed(n, i, p, k)
  <2> SUFFICES ASSUME NEW n \in Plain, NEW i \in DOMAIN mongo[Steps[n]],
                      NEW p \in DOMAIN Plan(n, i), NEW k \in DOMAIN Plan(n, i)[p]
               PROVE  Executed(n, i, p, k)
    OBVIOUS
  <2>1. CASE n = 19
    <3>1. i \in 1..Len(Docs) /\ Len(Docs) \in Nat
      BY <1>3, <2>1 DEF IsList
    <3>2. i < program.doc
      BY <1>1, <1>3, <3>1
    <3> QED  BY <1>1, <2>1, <3>2 DEF Executed
  <2>2. CASE n # 19
    <3>1. n < 19
      BY <2>2 DEF Plain
    <3> QED  BY <1>1, <3>1 DEF Executed
  <2> QED  BY <2>1, <2>2
<1> QED  BY <1>1, <1>2, <1>3, <1>4 DEF RowsInv

\* What is the plan's, for a row of it.
LEMMA PlannedRow ==
    ASSUME mongo \in Source, NEW row, IsPlanned(row)
    PROVE  \E n \in Plain : \E i \in DOMAIN mongo[Steps[n]] :
             \E p \in DOMAIN Plan(n, i) : \E k \in DOMAIN Plan(n, i)[p] :
                /\ Inserts(n, i, p, k) /\ PlanRow(n, i, p, k) = row
                /\ InsertIsSound(n, i, p, k, Plan(n, i)[p][k])
                /\ Plan(n, i)[p][k].row = row
<1>1. PICK n \in Plain : \E i \in DOMAIN mongo[Steps[n]] :
         \E p \in DOMAIN Plan(n, i) : \E k \in DOMAIN Plan(n, i)[p] :
            Inserts(n, i, p, k) /\ PlanRow(n, i, p, k) = row
  BY DEF IsPlanned
<1>2. PICK i \in DOMAIN mongo[Steps[n]] :
         \E p \in DOMAIN Plan(n, i) : \E k \in DOMAIN Plan(n, i)[p] :
            Inserts(n, i, p, k) /\ PlanRow(n, i, p, k) = row
  BY <1>1
<1>3. PICK p \in DOMAIN Plan(n, i) : \E k \in DOMAIN Plan(n, i)[p] :
         Inserts(n, i, p, k) /\ PlanRow(n, i, p, k) = row
  BY <1>2
<1>4. PICK k \in DOMAIN Plan(n, i)[p] : Inserts(n, i, p, k) /\ PlanRow(n, i, p, k) = row
  BY <1>3
<1>5. InsertIsSound(n, i, p, k, Plan(n, i)[p][k])
  BY <1>4, PlanInsert
<1> QED  BY <1>4, <1>5 DEF PlanRow

\* The tables of the rows of the plan.
LEMMA PlannedRowIs ==
    ASSUME mongo \in Source, NEW row, IsPlanned(row)
    PROVE  /\ row.table \in DOMAIN Expected /\ row.data \in Expected[row.table]
           /\ row.table \in SerialTables => row.keys = {}
           /\ row.table \notin SerialTables => <<"id", row.data>> \in row.keys
           /\ row.table \in SkipTables => row.keys = {<<"id", row.data>>}
           /\ row.table \in (SkipTables \cup SerialTables) \ {"activities"} =>
                 \E need \in row.needs : need[1] \in RootTables
<1>1. PICK n, i, p, k : /\ InsertIsSound(n, i, p, k, Plan(n, i)[p][k])
                        /\ Plan(n, i)[p][k].row = row
  BY PlannedRow
<1> QED  BY <1>1 DEF InsertIsSound

\* Rows of the tables that are expected are rows of the plan, the others transactions.
LEMMA RowOfTable ==
    ASSUME mongo \in Source, NEW rows, RowsInv(rows), NEW a \in DOMAIN rows
    PROVE  /\ rows[a].table \in DOMAIN Expected => IsPlanned(rows[a])
           /\ rows[a].table \notin DOMAIN Expected => IsTxn(rows[a])
           /\ rows[a].table = "transactions" <=> IsTxn(rows[a])
<1>1. IsPlanned(rows[a]) \/ IsTxn(rows[a])
  BY DEF RowsInv, Sourced
<1>2. IsTxn(rows[a]) => rows[a].table = "transactions"
  <2> DEFINE r == rows[a]
  <2> SUFFICES ASSUME IsTxn(r) PROVE r.table = "transactions"
    OBVIOUS
  <2>1. r = [table |-> "transactions", keys |-> {<<"id", r.data.id>>}, needs |-> r.needs,
              data |-> [id |-> r.data.id, amount |-> r.data.amount,
                        initiator |-> r.data.initiator, supplier |-> r.data.supplier,
                        bnpl |-> r.data.bnpl, journal |-> r.data.journal]]
    BY DEF IsTxn
  <2> HIDE DEF r
  <2> QED  BY <2>1
<1>3. IsPlanned(rows[a]) => rows[a].table \in DOMAIN Expected /\ rows[a].table # "transactions"
  BY PlannedTable
<1>4. "transactions" \notin DOMAIN Expected
  BY ExpectedOf
<1> QED  BY <1>1, <1>2, <1>3, <1>4

\* A transaction's row: its key is its identifier.
LEMMA TxnKeys ==
    ASSUME NEW row, IsTxn(row)
    PROVE  /\ row.table = "transactions" /\ row.keys = {<<"id", row.data.id>>}
           /\ row.data.id # None
           /\ \E d \in OldTxns : d.id = row.data.id /\ d.amount = row.data.amount
           /\ OneOf(row.data.supplier, SuppliersOf(row.data.id))
           /\ OneOf(row.data.bnpl, BnplsOf(row.data.id))
           /\ row.data.journal # {} => \E j \in JournalsOf(row.data.id) : row.data.journal = {j}
<1>1. row = [table |-> "transactions", keys |-> {<<"id", row.data.id>>}, needs |-> row.needs,
             data |-> [id |-> row.data.id, amount |-> row.data.amount,
                       initiator |-> row.data.initiator, supplier |-> row.data.supplier,
                       bnpl |-> row.data.bnpl, journal |-> row.data.journal]]
  BY DEF IsTxn
<1>2. row.table = "transactions" /\ row.keys = {<<"id", row.data.id>>}
  BY <1>1
<1> QED  BY <1>2 DEF IsTxn

\* What the statement of a row that is expected has brought.
LEMMA Brought ==
    ASSUME IInv, Done, NEW table \in DOMAIN Expected, NEW x \in Expected[table]
    PROVE  /\ \E b \in Places(target, table) : target[b].data = x
           /\ table \notin SkipTables =>
                 \E b \in (base + 1)..Len(target) :
                    target[b].table = table /\ target[b].data = x
<1>1. HasStatement(table, x)
  BY AllDone, PlanComplete
<1>2. PICK n \in Plain : \E i \in DOMAIN mongo[Steps[n]] :
        \E p \in DOMAIN Plan(n, i) : \E k \in DOMAIN Plan(n, i)[p] :
            /\ Inserts(n, i, p, k)
            /\ PlanRow(n, i, p, k).table = table /\ PlanRow(n, i, p, k).data = x
  BY <1>1 DEF HasStatement
<1>3. PICK i \in DOMAIN mongo[Steps[n]] :
        \E p \in DOMAIN Plan(n, i) : \E k \in DOMAIN Plan(n, i)[p] :
            /\ Inserts(n, i, p, k)
            /\ PlanRow(n, i, p, k).table = table /\ PlanRow(n, i, p, k).data = x
  BY <1>2
<1>4. PICK p \in DOMAIN Plan(n, i) : \E k \in DOMAIN Plan(n, i)[p] :
            /\ Inserts(n, i, p, k)
            /\ PlanRow(n, i, p, k).table = table /\ PlanRow(n, i, p, k).data = x
  BY <1>3
<1>5. PICK k \in DOMAIN Plan(n, i)[p] :
            /\ Inserts(n, i, p, k)
            /\ PlanRow(n, i, p, k).table = table /\ PlanRow(n, i, p, k).data = x
  BY <1>4
<1> DEFINE s == Plan(n, i)[p][k]  row == PlanRow(n, i, p, k)
<1>6. /\ mongo \in Source /\ Active /\ draft = target /\ RowsInv(target)
      /\ IsList(target) /\ base \in Nat /\ Executed(n, i, p, k)
  BY AllDone
<1>7. IF s.skip THEN Collides(target, row)
      ELSE \E a \in (base + 1)..Len(target) : target[a] = row
  BY <1>5, <1>6 DEF IInv, PlanInv
<1>8. IsPlanned(row) /\ (s.skip <=> table \in SkipTables)
  <2>1. InsertIsSound(n, i, p, k, s)
    BY <1>5, <1>6, PlanInsert
  <2>2. s.row.table = table
    BY <1>5 DEF PlanRow
  <2>3. IsPlanned(row)
    BY <1>5 DEF IsPlanned
  <2> QED  BY <2>1, <2>2, <2>3 DEF InsertIsSound
<1> HIDE DEF s, row
<1>9. row.table = table /\ row.data = x
  BY <1>5 DEF row
<1>10. CASE table \in SkipTables
  <2>1. PICK b \in Places(target, table) : target[b].keys \cap row.keys # {}
    BY <1>7, <1>8, <1>9, <1>10 DEF Collides
  <2>2. b \in DOMAIN target /\ target[b].table = table
    BY DEF Places
  <2>3. IsPlanned(target[b])
    BY <1>6, <2>2, RowOfTable
  <2>4. row.keys = {<<"id", x>>}
    BY <1>6, <1>8, <1>9, <1>10, PlannedRowIs
  <2>5. target[b].keys = {<<"id", target[b].data>>}
    BY <1>6, <1>10, <2>2, <2>3, PlannedRowIs
  <2>6. target[b].data = x
    BY <2>1, <2>4, <2>5
  <2> QED  BY <1>10, <2>6
<1>11. CASE table \notin SkipTables
  <2>1. PICK b \in (base + 1)..Len(target) : target[b] = row
    BY <1>7, <1>8, <1>11
  <2>2. b \in DOMAIN target
    BY <1>6 DEF IsList
  <2> QED  BY <1>9, <2>1, <2>2 DEF Places
<1> QED  BY <1>10, <1>11

\* Every transaction of the old shop was inserted, by this run.
LEMMA TxnsBrought ==
    ASSUME IInv, Done, NEW d \in OldTxns, d.id # None
    PROVE  \E b \in (base + 1)..Len(target) :
              /\ b \in Places(target, "transactions") /\ IsTxn(target[b])
              /\ target[b].data.id = d.id
<1>0. /\ mongo \in Source /\ Active /\ draft = target /\ program.step = 19
      /\ RowsInv(target) /\ IsList(target) /\ base \in Nat
      /\ ProgramInv /\ MemoInv /\ TxnInv
  BY AllDone DEF IInv
<1>1. d.id \in memo.inserted
  <2>1. CASE d \in Collection("transactions")
    <3>1. d.id \in Ids("transactions")
      BY <2>1 DEF Ids
    <3>2. PICK i \in DOMAIN mongo["transactions"] : d.id = mongo["transactions"][i].id
      BY <3>1, FromIds
    <3>3. i \in Finished(9)
      BY <1>0, FinishedAll, StepNames
    <3> QED  BY <1>0, <3>2, <3>3 DEF TxnInv
  <2>2. CASE d \in Embedded
    <3> DEFINE f == "transactions"
    <3>1. d \in Owned("suppliers", f)
      BY <2>2 DEF Embedded
    <3> HIDE DEF f
    <3>2. PICK s \in Collection("suppliers") : d \in Range(s[f])
      BY <3>1 DEF Owned
    <3>3. s.id \in SuppliersOf(d.id)
      BY <3>2 DEF SuppliersOf, f
    <3>4. d.id \in DOMAIN memo.embedded
      BY <1>0, <3>3, SuppliersKnown
    <3> QED  BY <1>0, <3>4 DEF TxnInv
  <2> QED  BY <2>1, <2>2 DEF OldTxns
<1>2. PICK b \in (base + 1)..Len(target) :
         target[b].table = "transactions" /\ <<"id", d.id>> \in target[b].keys
  BY <1>0, <1>1 DEF TxnInv, IsInserted
<1>3. b \in DOMAIN target
  BY <1>0 DEF IsList
<1>4. IsTxn(target[b])
  BY <1>0, <1>2, <1>3, RowOfTable
<1>5. target[b].data.id = d.id
  BY <1>2, <1>4, TxnKeys
<1> QED  BY <1>2, <1>3, <1>4, <1>5 DEF Places

LEMMA TxnsAreFaithful ==
    ASSUME IInv, Done
    PROVE  TransactionsFaithful
<1>0. /\ mongo \in Source /\ Active /\ draft = target /\ RowsInv(target) /\ program.step = 19
  BY AllDone
<1>1. \A a \in Rows("transactions") : a \in DOMAIN target /\ IsTxn(target[a])
                                      /\ target[a].table = "transactions"
  <2> SUFFICES ASSUME NEW a \in Rows("transactions")
               PROVE  a \in DOMAIN target /\ IsTxn(target[a])
                      /\ target[a].table = "transactions"
    OBVIOUS
  <2>1. a \in DOMAIN target /\ target[a].table = "transactions"
    BY DEF Rows, Places
  <2> QED  BY <1>0, <2>1, RowOfTable
<1>2. Holds("transactions", Txns)
  <2>1. ASSUME NEW a \in Rows("transactions"), NEW b \in Rows("transactions"),
               target[a].data = target[b].data
        PROVE  a = b
    <3>1. /\ target[a].keys = {<<"id", target[a].data.id>>}
          /\ target[b].keys = {<<"id", target[b].data.id>>}
      BY <1>1, TxnKeys
    <3>2. target[a].keys \cap target[b].keys # {}
      BY <2>1, <3>1
    <3> QED  BY <1>0, <1>1, <3>2 DEF RowsInv, Apart
  <2> QED  BY <2>1 DEF Holds, Txns
<1>3. \A t \in Txns : \E a \in Rows("transactions") : IsTxn(target[a]) /\ t = target[a].data
  BY <1>1 DEF Txns
<1>4. \A t \in Txns :
         /\ t.id # None
         /\ \E d \in OldTxns : d.id = t.id /\ d.amount = t.amount
         /\ OneOf(t.supplier, SuppliersOf(t.id))
         /\ OneOf(t.bnpl, BnplsOf(t.id))
         /\ t.journal # {} => \E j \in JournalsOf(t.id) : t.journal = {j}
  BY <1>3, TxnKeys
<1>5. ASSUME NEW d \in OldTxns, d.id # None
      PROVE  \E t \in Txns : t.id = d.id
  BY <1>5, TxnsBrought DEF Txns, Rows
<1>6. { t.id : t \in Txns } = { d.id : d \in OldTxns } \ {None}
  BY <1>4, <1>5
<1>7. ASSUME NEW t \in Txns, JournalsOf(t.id) # {}
      PROVE  t.journal # {}
  <2>1. PICK j \in Collection("journals") : t.id \in Range(j.operations)
    BY <1>7 DEF JournalsOf
  <2>2. PICK i \in DOMAIN mongo["journals"] : j = mongo["journals"][i]
    BY DEF Collection, Range
  <2>3. PICK k \in DOMAIN mongo["journals"][i].operations :
           t.id = mongo["journals"][i].operations[k]
    BY <2>1, <2>2 DEF Range
  <2>4. Executed(11, i, 2, k)
    BY <1>0 DEF Executed
  <2>5. PICK a \in Rows("transactions") : IsTxn(target[a]) /\ t = target[a].data
    BY <1>3
  <2>6. /\ a \in DOMAIN target /\ target[a].table = "transactions"
        /\ <<"id", mongo["journals"][i].operations[k]>> \in target[a].keys
    BY <1>1, <2>3, <2>5, TxnKeys
  <2>7. target[a].data.journal # {}
    BY <1>0, <2>4, <2>6 DEF IInv, LinkInv
  <2> QED  BY <2>5, <2>7
<1>8. \A t \in Txns : IF JournalsOf(t.id) = {} THEN t.journal = {}
                      ELSE \E j \in JournalsOf(t.id) : t.journal = {j}
  BY <1>4, <1>7
<1> QED  BY <1>2, <1>4, <1>6, <1>8 DEF TransactionsFaithful

LEMMA FreshIsFaithful ==
    ASSUME IInv, Done, base = 0
    PROVE  Faithful
<1>0. /\ mongo \in Source /\ Active /\ draft = target /\ RowsInv(target) /\ IsList(target)
  BY AllDone
<1>1. ASSUME NEW table \in DOMAIN Expected
      PROVE  Holds(table, Expected[table])
  <2>1. \A a \in Rows(table) : /\ a \in DOMAIN target /\ target[a].table = table
                               /\ IsPlanned(target[a])
    <3> SUFFICES ASSUME NEW a \in Rows(table)
                 PROVE  /\ a \in DOMAIN target /\ target[a].table = table
                        /\ IsPlanned(target[a])
      OBVIOUS
    <3>1. a \in DOMAIN target /\ target[a].table = table
      BY DEF Rows, Places
    <3> QED  BY <1>0, <3>1, RowOfTable
  <2>2. \A a \in Rows(table) : target[a].data \in Expected[table]
    BY <1>0, <2>1, PlannedRowIs
  <2>3. \A x \in Expected[table] : \E a \in Rows(table) : target[a].data = x
    BY Brought DEF Rows
  <2>4. ASSUME NEW a \in Rows(table), NEW b \in Rows(table), target[a].data = target[b].data
        PROVE  a = b
    <3>1. CASE table \in SerialTables
      <4>1. target[a].keys = {} /\ target[b].keys = {}
        BY <1>0, <2>1, <3>1, PlannedRowIs
      <4>2. a \in (base + 1)..Len(draft) /\ b \in (base + 1)..Len(draft)
        BY <1>0, <2>1 DEF IsList
      <4> QED  BY <1>0, <2>1, <2>4, <4>1, <4>2 DEF IInv, SerialInv
    <3>2. CASE table \notin SerialTables
      <4>1. <<"id", target[a].data>> \in target[a].keys
            /\ <<"id", target[b].data>> \in target[b].keys
        BY <1>0, <2>1, <3>2, PlannedRowIs
      <4>2. target[a].keys \cap target[b].keys # {}
        BY <2>4, <4>1
      <4> QED  BY <1>0, <2>1, <4>2 DEF RowsInv, Apart
    <3> QED  BY <3>1, <3>2
  <2>5. { target[a].data : a \in Rows(table) } = Expected[table]
    BY <2>2, <2>3
  <2> QED  BY <2>4, <2>5 DEF Holds
<1> QED  BY <1>1, TxnsAreFaithful DEF Faithful

\* What an earlier run has left cannot be in a table that rows are known by.
LEMMA NoRootIsLeft ==
    ASSUME IInv, Done, NEW c \in 1..base, target[c].table \in RootTables
    PROVE  FALSE
<1>0. /\ mongo \in Source /\ Active /\ draft = target /\ RowsInv(target) /\ IsList(target)
      /\ base \in Nat /\ base <= Len(target)
  BY AllDone
<1> DEFINE r == target[c]
<1>1. c \in DOMAIN target
  BY <1>0 DEF IsList
<1>2. /\ r.table \in DOMAIN Expected /\ r.table \notin SkipTables
      /\ r.table \notin SerialTables
  BY ExpectedOf DEF RootTables, SkipTables, SerialTables
<1>3. IsPlanned(r)
  BY <1>0, <1>1, <1>2, RowOfTable
<1>4. r.data \in Expected[r.table] /\ <<"id", r.data>> \in r.keys
  BY <1>0, <1>2, <1>3, PlannedRowIs
<1>5. PICK b \in (base + 1)..Len(target) : target[b].table = r.table /\ target[b].data = r.data
  BY <1>2, <1>4, Brought
<1>6. b \in DOMAIN target /\ b # c
  BY <1>0 DEF IsList
<1>7. <<"id", r.data>> \in target[b].keys
  <2>1. IsPlanned(target[b])
    BY <1>0, <1>2, <1>5, <1>6, RowOfTable
  <2> QED  BY <1>0, <1>2, <1>5, <2>1, PlannedRowIs
<1>8. target[b].keys \cap r.keys # {}
  BY <1>4, <1>7
<1> QED  BY <1>0, <1>1, <1>5, <1>6, <1>8 DEF RowsInv, Apart

\* All that it can have left are activities: they have no key.
LEMMA ActivitiesAreLeft ==
    ASSUME IInv, Done, NEW a \in 1..base
    PROVE  target[a].table = "activities"
<1>0. /\ mongo \in Source /\ Active /\ draft = target /\ RowsInv(target) /\ IsList(target)
      /\ base \in Nat /\ base <= Len(target)
  BY AllDone
<1> DEFINE r == target[a]
<1>1. a \in DOMAIN target
  BY <1>0 DEF IsList
<1>2. ASSUME NEW b \in (base + 1)..Len(target), target[b].table = r.table,
             target[b].keys \cap r.keys # {}
      PROVE  FALSE
  <2>1. b \in DOMAIN target /\ b # a
    BY <1>0 DEF IsList
  <2> QED  BY <1>0, <1>1, <1>2, <2>1 DEF RowsInv, Apart
<1>3. CASE r.table \notin DOMAIN Expected
  <2>1. IsTxn(r)
    BY <1>0, <1>1, <1>3, RowOfTable
  <2>2. r.table = "transactions" /\ r.keys = {<<"id", r.data.id>>} /\ r.data.id # None
    BY <2>1, TxnKeys
  <2>3. PICK d \in OldTxns : d.id = r.data.id
    BY <2>1, TxnKeys
  <2>4. PICK b \in (base + 1)..Len(target) :
           /\ b \in Places(target, "transactions") /\ IsTxn(target[b])
           /\ target[b].data.id = r.data.id
    BY <2>2, <2>3, TxnsBrought
  <2>5. target[b].table = "transactions" /\ target[b].keys = {<<"id", r.data.id>>}
    BY <2>4, TxnKeys
  <2> QED  BY <1>2, <2>2, <2>5
<1>4. CASE r.table \in DOMAIN Expected
  <2>1. IsPlanned(r)
    BY <1>0, <1>1, <1>4, RowOfTable
  <2>2. r.data \in Expected[r.table]
    BY <1>0, <2>1, PlannedRowIs
  <2>3. CASE r.table \in (SkipTables \cup SerialTables) \ {"activities"}
    <3>1. PICK need \in r.needs : need[1] \in RootTables
      BY <1>0, <2>1, <2>3, PlannedRowIs
    <3>2. PICK c \in 1..(a - 1) : target[c].table = need[1]
      BY <1>0, <1>1 DEF RowsInv, Rooted
    <3>3. c \in 1..base
      BY <1>0
    <3> QED  BY <3>1, <3>2, <3>3, NoRootIsLeft
  <2>4. CASE r.table \notin SkipTables \cup SerialTables
    <3>1. <<"id", r.data>> \in r.keys
      BY <1>0, <2>1, <2>4, PlannedRowIs
    <3>2. PICK b \in (base + 1)..Len(target) :
             target[b].table = r.table /\ target[b].data = r.data
      BY <1>4, <2>2, <2>4, Brought
    <3>3. b \in DOMAIN target
      BY <1>0 DEF IsList
    <3>4. <<"id", r.data>> \in target[b].keys
      <4>1. IsPlanned(target[b])
        BY <1>0, <1>4, <3>2, <3>3, RowOfTable
      <4> QED  BY <1>0, <2>4, <3>2, <4>1, PlannedRowIs
    <3> QED  BY <1>2, <3>1, <3>2, <3>4
  <2> QED  BY <2>3, <2>4
<1> QED  BY <1>3, <1>4

\* Each activity has a row of this run's.
LEMMA ActivitiesBrought ==
    ASSUME IInv, Done, NEW i \in DOMAIN mongo["activities"]
    PROVE  \E b \in (base + 1)..Len(target) :
              target[b].table = "activities" /\ target[b].data = mongo["activities"][i].id
<1> DEFINE table == "activities"
<1>1. /\ table \in DOMAIN Expected /\ table \notin SkipTables
      /\ Expected[table] = Ids("activities")
  BY ExpectedOf DEF SkipTables
<1> HIDE DEF table
<1>2. mongo["activities"][i].id \in Ids("activities")
  BY DEF Ids, Collection, Range
<1>3. \E b \in (base + 1)..Len(target) :
         target[b].table = table /\ target[b].data = mongo["activities"][i].id
  BY <1>1, <1>2, Brought
<1> QED  BY <1>3 DEF table

\* The count of the activities gives away what an earlier run has left.
LEMMA LeftIsReported ==
    ASSUME IInv, Done, Mismatches = {}
    PROVE  base = 0
<1> SUFFICES ASSUME base # 0 PROVE FALSE
  OBVIOUS
<1>0. /\ mongo \in Source /\ Active /\ draft = target /\ IsList(target)
      /\ base \in Nat /\ base <= Len(target) /\ program.step = 19
  BY AllDone
<1> DEFINE olds == mongo["activities"]  L == Len(olds)  R == Rows("activities")
           Own(i) == { b \in (base + 1)..Len(target) :
                          target[b].table = "activities" /\ target[b].data = olds[i].id }
           f == [i \in 0..L |-> IF i = 0 THEN 1 ELSE CHOOSE b \in Own(i) : TRUE]
<1>1. IsList(olds)
  BY <1>0, CollectionsAreLists
<1>2. L \in Nat /\ DOMAIN olds = 1..L
  BY <1>1 DEF IsList
<1>3. Cardinality(R) = L
  <2>1. "activities" \in DOMAIN report /\ report["activities"] = L
    BY <1>0 DEF IInv, ReportInv
  <2> QED  BY <2>1 DEF Mismatches, pgCount
<1>4. IsFiniteSet(R)
  <2>1. R \subseteq 1..Len(target) /\ 1 \in Int /\ Len(target) \in Int
    BY <1>0 DEF Rows, Places, IsList
  <2>2. IsFiniteSet(1..Len(target))
    BY <2>1, FS_Interval
  <2> QED  BY <2>1, <2>2, FS_Subset
<1>5. 1 \in R
  <2>1. 1 \in 1..base /\ 1 \in DOMAIN target
    BY <1>0 DEF IsList
  <2> QED  BY <2>1, ActivitiesAreLeft DEF Rows, Places
<1>6. \A i \in 1..L : (CHOOSE b \in Own(i) : TRUE) \in Own(i)
  <2> SUFFICES ASSUME NEW i \in 1..L PROVE Own(i) # {}
    OBVIOUS
  <2> QED  BY <1>2, ActivitiesBrought
<1>7. \A i \in 1..L : /\ f[i] \in (base + 1)..Len(target)
                      /\ target[f[i]].table = "activities" /\ target[f[i]].data = olds[i].id
  <2> SUFFICES ASSUME NEW i \in 1..L
               PROVE  f[i] \in Own(i)
    OBVIOUS
  <2>1. f[i] = CHOOSE b \in Own(i) : TRUE
    BY <1>2
  <2> QED  BY <1>6, <2>1
<1>8. f[0] = 1 /\ DOMAIN f = 0..L /\ f = [i \in 0..L |-> f[i]]
  BY <1>2
<1> HIDE DEF f
<1>9. \A i \in 1..L : f[i] \in R /\ f[i] # 1
  <2> SUFFICES ASSUME NEW i \in 1..L PROVE f[i] \in R /\ f[i] # 1
    OBVIOUS
  <2>1. f[i] \in DOMAIN target /\ f[i] # 1
    BY <1>0, <1>7 DEF IsList
  <2> QED  BY <1>7, <2>1 DEF Rows, Places
<1>10. f \in [0..L -> R]
  <2>1. \A i \in 0..L : f[i] \in R
    <3> SUFFICES ASSUME NEW i \in 0..L PROVE f[i] \in R
      OBVIOUS
    <3>1. i = 0 \/ i \in 1..L
      BY <1>2
    <3> QED  BY <1>5, <1>8, <1>9, <3>1
  <2> QED  BY <1>8, <2>1
<1>11. \A i, k \in 0..L : f[i] = f[k] => i = k
  <2> SUFFICES ASSUME NEW i \in 0..L, NEW k \in 0..L, f[i] = f[k] PROVE i = k
    OBVIOUS
  <2>1. (i = 0 \/ i \in 1..L) /\ (k = 0 \/ k \in 1..L)
    BY <1>2
  <2>2. CASE i \in 1..L /\ k \in 1..L
    <3>1. olds[i].id = olds[k].id
      BY <1>7, <2>2
    <3>2. IdsAreUnique(olds)
      <4>1. DOMAIN mongo = { Steps[x] : x \in DOMAIN Steps } \ {"embedded"}
        BY <1>0, SourceIsDatabase DEF IsDatabase
      <4>2. "activities" \in DOMAIN mongo \ {"finance"}
        <5>1. 3 \in DOMAIN Steps /\ Steps[3] = "activities"
          BY StepNames
        <5> QED  BY <4>1, <5>1
      <4> QED  BY <1>0, <4>2, MigrationAssumption
    <3> QED  BY <1>2, <2>2, <3>1, <3>2 DEF IdsAreUnique
  <2> QED  BY <1>8, <1>9, <2>1, <2>2
<1>12. f \in Injection(0..L, R)
  BY <1>10, <1>11 DEF Injection
<1>13. Cardinality(0..L) = L + 1
  <2>1. 0 \in Int /\ L \in Int /\ ~ (0 > L)
    BY <1>2
  <2>2. Cardinality(0..L) = L - 0 + 1
    BY <2>1, FS_Interval
  <2> QED  BY <1>2, <2>2
<1> HIDE DEF R, L
<1>14. Cardinality(0..L) <= Cardinality(R)
  BY <1>4, <1>12, FS_Injection
<1> QED  BY <1>2, <1>3, <1>13, <1>14

LEMMA MoneyIsExplained ==
    ASSUME IInv, Done, NEW j \in Collection("journals"), AmountOf(j) = j.total,
           \A k \in Collection("journals") \ {j} : Range(k.operations) \cap Range(j.operations) = {},
           \A x \in Range(j.operations) : \A a, b \in AmountsOf(x) : a = b
    PROVE  JournalSum(j.id) = j.total
<1>0. mongo \in Source
  BY AllDone
<1>1. /\ { t.id : t \in Txns } = { d.id : d \in OldTxns } \ {None}
      /\ \A t \in Txns :
            /\ \E d \in OldTxns : d.id = t.id /\ d.amount = t.amount
            /\ IF JournalsOf(t.id) = {} THEN t.journal = {}
               ELSE \E q \in JournalsOf(t.id) : t.journal = {q}
  BY TxnsAreFaithful DEF TransactionsFaithful
<1>2. \A k \in Collection("journals") : k.id = j.id => k = j
  <2>1. "journals" \in DOMAIN mongo \ {"finance"}
    <3>1. DOMAIN mongo = { Steps[x] : x \in DOMAIN Steps } \ {"embedded"}
      BY <1>0, SourceIsDatabase DEF IsDatabase
    <3>2. 11 \in DOMAIN Steps /\ Steps[11] = "journals"
      BY StepNames
    <3> QED  BY <3>1, <3>2
  <2>2. IdsAreUnique(mongo["journals"])
    BY <1>0, <2>1, MigrationAssumption
  <2> QED  BY <2>2 DEF IdsAreUnique, Collection, Range
<1> DEFINE ours == { t.id : t \in Linked(j.id) }
           olds == { d.id : d \in OldTxns } \cap (Range(j.operations) \ {None})
           A(x) == (CHOOSE t \in Linked(j.id) : t.id = x).amount
           B(x) == CHOOSE amount \in AmountsOf(x) : TRUE
<1>3. ASSUME NEW t \in Linked(j.id)
      PROVE  t.id \in olds
  <2>1. t \in Txns /\ t.journal = {j.id}
    BY DEF Linked
  <2>2. PICK q \in JournalsOf(t.id) : t.journal = {q}
    BY <1>1, <2>1
  <2>3. PICK k \in Collection("journals") : t.id \in Range(k.operations) /\ k.id = q
    BY DEF JournalsOf
  <2>4. k = j
    BY <1>2, <2>1, <2>2, <2>3
  <2> QED  BY <1>1, <2>1, <2>3, <2>4
<1>4. ASSUME NEW x \in olds
      PROVE  \E t \in Linked(j.id) : t.id = x
  <2>1. PICK t \in Txns : t.id = x
    BY <1>1
  <2>2. j.id \in JournalsOf(x)
    BY DEF JournalsOf
  <2>3. PICK q \in JournalsOf(x) : t.journal = {q}
    BY <1>1, <2>1, <2>2
  <2>4. PICK k \in Collection("journals") : x \in Range(k.operations) /\ k.id = q
    BY DEF JournalsOf
  <2>5. k = j
    BY <2>4
  <2> QED  BY <2>1, <2>3, <2>4, <2>5 DEF Linked
<1>5. ours = olds
  BY <1>3, <1>4
<1>6. ASSUME NEW x \in olds
      PROVE  A(x) = B(x)
  <2> DEFINE t == CHOOSE t \in Linked(j.id) : t.id = x
  <2>1. t \in Linked(j.id) /\ t.id = x
    BY <1>4
  <2> HIDE DEF t
  <2>2. PICK d \in OldTxns : d.id = x /\ d.amount = t.amount
    BY <1>1, <2>1 DEF Linked
  <2>3. t.amount \in AmountsOf(x)
    BY <2>2 DEF AmountsOf
  <2>4. B(x) \in AmountsOf(x)
    BY <2>3
  <2>5. x \in Range(j.operations)
    OBVIOUS
  <2>6. t.amount = B(x)
    BY <2>3, <2>4, <2>5
  <2> QED  BY <2>6 DEF t
<1>7. JournalSum(j.id) = Sum([x \in ours |-> A(x)])
  BY DEF JournalSum
<1>8. AmountOf(j) = Sum([x \in olds |-> B(x)])
  BY DEF AmountOf
<1> HIDE DEF ours, olds, A, B
<1>9. [x \in ours |-> A(x)] = [x \in olds |-> B(x)]
  BY <1>5, <1>6
<1> QED  BY <1>7, <1>8, <1>9

\* A run that ends, on a target that was empty, has brought all of the old shop: for
\* any databases, however large, any size of the batches, and wherever the runs before
\* it were stopped or refused.
THEOREM FreshRunsAreFaithful == Spec => []FreshRunIsFaithful
<1>1. IInv => FreshRunIsFaithful
  BY FreshIsFaithful DEF FreshRunIsFaithful
<1> QED  BY <1>1, MigrationInvariant, PTL

\* A run on what an earlier one has left either stops at a row that is there already,
\* or ends with a count of activities that gives the rest away: a report without
\* a mismatch can be believed.
THEOREM ReportsAreTruthful == Spec => []ReportIsTruthful
<1>1. IInv => ReportIsTruthful
  BY FreshIsFaithful, LeftIsReported DEF ReportIsTruthful
<1> QED  BY <1>1, MigrationInvariant, PTL

\* A difference in the money of a journal comes from the old shop.
THEOREM MoneyDiffsAreExplained == Spec => []MoneyDiffIsExplained
<1>1. IInv => MoneyDiffIsExplained
  <2> SUFFICES ASSUME IInv, Done, NEW j \in Collection("journals"),
                      AmountOf(j) = j.total,
                      \A k \in Collection("journals") \ {j} :
                         Range(k.operations) \cap Range(j.operations) = {},
                      \A x \in Range(j.operations) : \A a, b \in AmountsOf(x) : a = b
               PROVE  JournalSum(j.id) = j.total
    BY DEF MoneyDiffIsExplained
  <2> QED  BY MoneyIsExplained
<1> QED  BY <1>1, MigrationInvariant, PTL
=============================================================================
