--------------------------- MODULE PosSystemProofs ---------------------------
(* Goods and money of PosSystem are conserved, and a charged cart agrees    *)
(* with its sale, for any number of carts, products, requests and           *)
(* transactions.                                                            *)
EXTENDS PosSystem, CoinSumsProofs, FiniteSetTheorems, TLAPS

-----------------------------------------------------------------------------
(* The types, with what the proofs need of the requests in flight.         *)

LineTotal == 0..(Word - 1)

Basket == [life: {"absent", "open", "completed", "ended", "deleted"},
           lines: Lines, subtotal: LineTotal]
Record == SaleRow \cup {NoSale, GoneSale}
Shelf == [state: {"none", "stocked", "deleted"}, quantity: Int, price: Nat]
Income == [product: Product \cup {NoCart}, quantity: Nat]

PosTypes ==
    /\ basket \in [Cart -> Basket]
    /\ shift \in [open: BOOLEAN, total: Int, closing: Nat]
    /\ sale \in [SaleId -> Record]
    /\ till \in Int
    /\ shelf \in [Product -> Shelf]
    /\ delivery \in [DeliveryId -> Income]
    /\ owed \in Nat
    /\ job \in [Request -> Work \cup {Idle}]
    /\ loose \in SUBSET Cart
    /\ rewritten \in SUBSET SaleId
    /\ adrift \in Int

-----------------------------------------------------------------------------
(* Lines and their totals.                                                 *)

\* What it takes to be the lines of a cart.
LEMMA LinesAre ==
    ASSUME NEW L
    PROVE  L \in Lines <=> /\ L = [p \in DOMAIN L |-> L[p]]
                           /\ DOMAIN L \subseteq Product
                           /\ \A p \in DOMAIN L : L[p] \in Line
<1>1. ASSUME L \in Lines
      PROVE  /\ L = [p \in DOMAIN L |-> L[p]]
             /\ DOMAIN L \subseteq Product
             /\ \A p \in DOMAIN L : L[p] \in Line
  <2>1. PICK P \in SUBSET Product : L \in [P -> Line]
    BY <1>1 DEF Lines
  <2> QED  BY <2>1
<1>2. ASSUME L = [p \in DOMAIN L |-> L[p]], DOMAIN L \subseteq Product,
             \A p \in DOMAIN L : L[p] \in Line
      PROVE  L \in Lines
  <2>1. L \in [DOMAIN L -> Line]
    BY <1>2
  <2> QED  BY <1>2, <2>1 DEF Lines
<1> QED  BY <1>1, <1>2

\* A cart without lines.
LEMMA NoLines == <<>> \in Lines /\ DOMAIN <<>> = {}
<1>1. <<>> \in [{} -> Line]
  OBVIOUS
<1> QED  BY <1>1 DEF Lines

\* The price of a line is a whole number.
LEMMA RoundLineTotalType ==
    ASSUME PosSystemAssumption, NEW q \in Nat, NEW price \in Nat
    PROVE  RoundLineTotal(q, price) \in Nat
<1>1. Scale \in Nat \ {0} /\ Word \in Nat \ {0, 1}
  BY DEF PosSystemAssumption
<1>2. 2 * Scale \in Nat \ {0} /\ 2 * q * price + Scale \in Nat
  BY <1>1
<1>3. (2 * q * price + Scale) \div (2 * Scale) \in Int
  BY <1>2
<1> HIDE DEF PosSystemAssumption
<1>4. \A n \in Int : n % Word \in Nat
  BY <1>1
<1> QED  BY <1>3, <1>4 DEF RoundLineTotal

\* So is that of a cart, in a word.
LEMMA LineTotalsType ==
    ASSUME PosSystemAssumption, NEW lines \in Lines, NEW prices,
           \A p \in DOMAIN lines : prices[p] \in Nat
    PROVE  LineTotals(lines, prices) \in LineTotal
<1> DEFINE f == [p \in DOMAIN lines |-> RoundLineTotal(lines[p].quantity, prices[p])]
<1>1. DOMAIN lines \subseteq Product /\ \A p \in DOMAIN lines : lines[p].quantity \in Nat
  BY LinesAre DEF Line
<1>2. IsFiniteSet(DOMAIN f)
  BY <1>1, FS_Subset DEF PosSystemAssumption
<1>3. IsTable(f)
  BY <1>1, <1>2, RoundLineTotalType DEF IsTable
<1>4. CoinSum(f) \in Nat
  BY <1>3, CoinsAreFinite
<1> HIDE DEF f
<1>5. Word \in Nat \ {0, 1}
  BY DEF PosSystemAssumption
<1>6. CoinSum(f) % Word \in 0..(Word - 1)
  BY <1>4, <1>5
<1> QED  BY <1>6 DEF LineTotals, f, LineTotal

\* And what the cart shows.
LEMMA ShownTotalType ==
    ASSUME PosSystemAssumption, NEW lines \in Lines
    PROVE  ShownTotal(lines) \in LineTotal
<1>1. \A p \in DOMAIN lines : lines[p].unit \in Nat
  BY LinesAre DEF Line
<1> QED  BY <1>1, LineTotalsType DEF ShownTotal

\* The prices at which a cart is charged.
PriceTables == UNION { [P -> Nat] : P \in SUBSET Product }

\* Moving stock leaves the shelves shelves.
LEMMA MovedType ==
    ASSUME NEW stock \in [Product -> Shelf], NEW lines \in Lines, NEW sign \in Int
    PROVE  /\ Moved(stock, lines, sign) \in [Product -> Shelf]
           /\ \A p \in Product :
                 /\ Moved(stock, lines, sign)[p].state = stock[p].state
                 /\ Moved(stock, lines, sign)[p].quantity
                      = stock[p].quantity + (IF p \in DOMAIN lines
                                             THEN sign * lines[p].quantity ELSE 0)
<1>1. \A p \in DOMAIN lines : lines[p].quantity \in Nat
  BY LinesAre DEF Line
<1>2. \A p \in DOMAIN lines : sign * lines[p].quantity \in Int
  BY <1>1
<1> QED  BY <1>2 DEF Moved, Shelf

-----------------------------------------------------------------------------
(* Every step keeps the types.                                             *)

\* What a request in flight carries.
LEMMA WorkFields ==
    ASSUME NEW w \in Work \cup {Idle}
    PROVE  /\ w.stage = "editing" => w.cart \in Cart /\ w.lines \in Lines
           /\ w.stage = "charging" =>
                 w.cart \in Cart /\ w.total \in Nat /\ w.prices \in PriceTables
           /\ w.stage = "removing" => w.id \in SaleId /\ w.seen \in SaleRow
           /\ w.stage = "rewriting" =>
                 w.id \in SaleId /\ w.seen \in SaleRow /\ w.amount \in Nat
BY DEF Work, Idle, PriceTables

\* A request is answered.
LEMMA AnsweredType ==
    ASSUME PosTypes, NEW r \in Request, job' = Answered(job, r)
    PROVE  (job \in [Request -> Work \cup {Idle}])'
BY DEF PosTypes, Answered

\* A request begins.
LEMMA BegunType ==
    ASSUME PosTypes, NEW r \in Request, NEW w \in Work, job' = [job EXCEPT ![r] = w]
    PROVE  (job \in [Request -> Work \cup {Idle}])'
BY DEF PosTypes

\* A row of the books.
LEMMA RecordFields ==
    ASSUME NEW row \in Record
    PROVE  /\ row.cart \in Cart \cup {NoCart} /\ row.amount \in Int
           /\ row.state = "live" <=> row \in SaleRow
           /\ row = NoSale \/ row = GoneSale \/ row \in SaleRow
BY DEF Record, SaleRow, NoSale, GoneSale

\* The lines a transaction stands for are lines.
LEMMA LinesOfType ==
    ASSUME PosTypes, NEW row \in Record
    PROVE  LinesOf(row) \in Lines
<1>1. row.cart \in Cart \cup {NoCart}
  BY RecordFields
<1>2. CASE row.cart = NoCart
  BY <1>2, NoLines DEF LinesOf
<1>3. CASE row.cart # NoCart
  BY <1>1, <1>3 DEF LinesOf, PosTypes, Basket
<1> QED  BY <1>2, <1>3

\* A request gives up.
LEMMA GiveUpJobType ==
    ASSUME PosTypes, NEW r \in Request, GiveUpJob(r) PROVE PosTypes'
BY AnsweredType DEF GiveUpJob, PosTypes, books, goods, amends

\* A cart is opened.
LEMMA OpenCartType ==
    ASSUME PosTypes, NEW c \in Cart, OpenCart(c) PROVE PosTypes'
<1>1. (basket \in [Cart -> Basket])'
  BY DEF OpenCart, PosTypes, Basket
<1> QED  BY <1>1 DEF OpenCart, PosTypes, books, goods, amends

\* A line is added or raised.
LEMMA BeginAddItemType ==
    ASSUME PosTypes, PosSystemAssumption, NEW r \in Request, NEW c \in Cart,
           NEW p \in Product, NEW q \in Quantity, BeginAddItem(r, c, p, q)
    PROVE  PosTypes'
<1> DEFINE old == basket[c].lines
           line == IF p \in DOMAIN old
                   THEN [old[p] EXCEPT !.quantity = @ + q]
                   ELSE [quantity |-> q, unit |-> shelf[p].price]
           new == [x \in DOMAIN old \cup {p} |-> IF x = p THEN line ELSE old[x]]
<1>1. q \in Nat
  BY DEF PosSystemAssumption
<1>2. old \in Lines /\ shelf[p].price \in Nat
  BY DEF PosTypes, Basket, Shelf
<1>3. DOMAIN old \subseteq Product /\ \A x \in DOMAIN old : old[x] \in Line
  BY <1>2, LinesAre
<1>4. line \in Line
  BY <1>1, <1>2, <1>3 DEF Line
<1>5. /\ job' = [job EXCEPT ![r] = [stage |-> "editing", cart |-> c, lines |-> new]]
      /\ UNCHANGED <<basket, books, goods, loose, amends>>
  BY DEF BeginAddItem
<1> HIDE DEF old, line
<1>6. new \in Lines
  BY <1>3, <1>4, LinesAre
<1> HIDE DEF new
<1>7. [stage |-> "editing", cart |-> c, lines |-> new] \in Work
  BY <1>6 DEF Work
<1> QED  BY <1>5, <1>7, BegunType DEF PosTypes, books, goods, amends

\* A line is removed.
LEMMA BeginRemoveItemType ==
    ASSUME PosTypes, NEW r \in Request, NEW c \in Cart, NEW p \in Product,
           BeginRemoveItem(r, c, p)
    PROVE  PosTypes'
<1> DEFINE old == basket[c].lines
           new == [x \in DOMAIN old \ {p} |-> old[x]]
<1>1. old \in Lines
  BY DEF PosTypes, Basket
<1>2. /\ job' = [job EXCEPT ![r] = [stage |-> "editing", cart |-> c, lines |-> new]]
      /\ UNCHANGED <<basket, books, goods, loose, amends>>
  BY DEF BeginRemoveItem
<1> HIDE DEF old
<1>3. DOMAIN old \subseteq Product /\ \A x \in DOMAIN old : old[x] \in Line
  BY <1>1, LinesAre
<1>4. new \in Lines
  BY <1>3, LinesAre
<1> HIDE DEF new
<1>5. [stage |-> "editing", cart |-> c, lines |-> new] \in Work
  BY <1>4 DEF Work
<1> QED  BY <1>2, <1>5, BegunType DEF PosTypes, books, goods, amends

\* The lines are saved.
LEMMA SaveItemsType ==
    ASSUME PosTypes, PosSystemAssumption, NEW r \in Request, SaveItems(r) PROVE PosTypes'
<1> DEFINE c == job[r].cart lines == job[r].lines
<1>1. c \in Cart /\ lines \in Lines
  BY WorkFields DEF SaveItems, PosTypes
<1>2. ShownTotal(lines) \in LineTotal
  BY <1>1, ShownTotalType
<1>3. /\ basket' = [basket EXCEPT ![c].lines = lines, ![c].subtotal = ShownTotal(lines)]
      /\ job' = Answered(job, r)
      /\ loose' = IF basket[c].life = "completed" THEN loose \cup {c} ELSE loose
      /\ UNCHANGED <<books, goods, amends>>
  BY DEF SaveItems
<1> HIDE DEF c, lines
<1>4. (basket \in [Cart -> Basket])'
  BY <1>1, <1>2, <1>3 DEF PosTypes, Basket
<1>5. (loose \in SUBSET Cart)'
  BY <1>1, <1>3 DEF PosTypes
<1> QED  BY <1>3, <1>4, <1>5, AnsweredType DEF PosTypes, books, goods, amends

\* A cart is deleted.
LEMMA DeleteCartType ==
    ASSUME PosTypes, PosSystemAssumption, NEW c \in Cart, DeleteCart(c) PROVE PosTypes'
<1>1. 0 \in LineTotal
  BY DEF LineTotal, PosSystemAssumption
<1>2. (basket \in [Cart -> Basket])'
  BY <1>1, NoLines DEF DeleteCart, PosTypes, Basket
<1>3. (sale \in [SaleId -> Record])'
  <2>1. ASSUME NEW t \in SaleId, sale[t].cart = c
        PROVE  [sale[t] EXCEPT !.cart = NoCart] \in Record
    <3>1. sale[t] \in SaleRow
      BY <2>1 DEF PosTypes, Record, NoSale, GoneSale, PosSystemAssumption
    <3> QED  BY <3>1 DEF SaleRow, Record
  <2> QED  BY <2>1 DEF DeleteCart, PosTypes
<1>4. (loose \in SUBSET Cart)'
  BY DEF DeleteCart, PosTypes
<1> QED  BY <1>2, <1>3, <1>4 DEF DeleteCart, PosTypes, goods, amends

\* A cart ends.
LEMMA EndCartType ==
    ASSUME PosTypes, NEW c \in Cart, EndCart(c) PROVE PosTypes'
<1>1. (basket \in [Cart -> Basket])'
  BY DEF EndCart, PosTypes, Basket
<1> QED  BY <1>1 DEF EndCart, PosTypes, books, goods, amends

\* A checkout has read what it needs.
LEMMA BeginCheckoutType ==
    ASSUME PosTypes, PosSystemAssumption, NEW r \in Request, NEW c \in Cart,
           BeginCheckout(r, c)
    PROVE  PosTypes'
<1> DEFINE lines == basket[c].lines
           prices == [p \in DOMAIN lines |-> shelf[p].price]
           w == [stage |-> "charging", cart |-> c,
                 total |-> RepriceTotal(lines, prices), prices |-> prices]
<1>1. lines \in Lines
  BY DEF PosTypes, Basket
<1>2. DOMAIN lines \subseteq Product
  BY <1>1, LinesAre
<1>3. \A p \in DOMAIN lines : prices[p] \in Nat
  BY <1>2 DEF PosTypes, Shelf
<1>4. job' = [job EXCEPT ![r] = w] /\ UNCHANGED <<basket, books, goods, loose, amends>>
  BY DEF BeginCheckout
<1>5. prices \in [DOMAIN lines -> Nat]
  BY <1>3
<1> HIDE DEF lines, prices
<1>8. prices \in PriceTables
  BY <1>2, <1>5 DEF PriceTables
<1>6. RepriceTotal(lines, prices) \in Nat
  BY <1>1, <1>3, LineTotalsType DEF RepriceTotal, LineTotal, PosSystemAssumption
<1>7. w \in Work
  BY <1>6, <1>8 DEF Work, PriceTables
<1> HIDE DEF w
<1> QED  BY <1>4, <1>7, BegunType DEF PosTypes, books, goods, amends

\* A cart is charged.
LEMMA CommitCheckoutType ==
    ASSUME PosTypes, PosSystemAssumption, NEW r \in Request, NEW t \in SaleId,
           CommitCheckout(r, t)
    PROVE  PosTypes'
<1> DEFINE c == job[r].cart
           total == job[r].total
<1>1. /\ job[r].stage = "charging" /\ total < Word \div 2
      /\ sale' = [sale EXCEPT ![t] = [cart |-> c, amount |-> total, state |-> "live"]]
      /\ till' = till + total
      /\ shift' = [shift EXCEPT !.total = @ + total]
      /\ shelf' = Moved(shelf, basket[c].lines, -1)
      /\ basket' = [basket EXCEPT ![c].life = "completed", ![c].subtotal = total]
      /\ job' = Answered(job, r)
      /\ loose' = IF SalesOf(c) # {} THEN loose \cup {c} ELSE loose
      /\ UNCHANGED <<delivery, owed, amends>>
  BY DEF CommitCheckout, CommitWith
<1>2. c \in Cart /\ total \in Nat
  BY <1>1, WorkFields DEF PosTypes
<1> HIDE DEF c, total
<1>3. total \in LineTotal
  <2>1. Word \in Nat \ {0, 1}
    BY DEF PosSystemAssumption
  <2>2. Word \div 2 <= Word
    BY <2>1
  <2>3. Word \div 2 \in Int
    BY <2>1
  <2>4. total <= Word - 1
    BY <1>1, <1>2, <2>1, <2>2, <2>3
  <2> QED  BY <1>2, <2>1, <2>4 DEF LineTotal
<1>4. (basket \in [Cart -> Basket])'
  <2>1. basket \in [Cart -> Basket] /\ basket[c] \in Basket
    BY <1>2 DEF PosTypes
  <2> DEFINE b == [basket[c] EXCEPT !.life = "completed", !.subtotal = total]
  <2>2. b \in Basket
    BY <1>3, <2>1 DEF Basket
  <2>3. basket' = [basket EXCEPT ![c] = b]
    BY <1>1, <1>2, <2>1
  <2> HIDE DEF b
  <2> QED  BY <1>2, <2>1, <2>2, <2>3
<1>5. (sale \in [SaleId -> Record])'
  BY <1>1, <1>2 DEF PosTypes, Record, SaleRow
<1>6. (shelf \in [Product -> Shelf])'
  <2>1. basket[c].lines \in Lines /\ shelf \in [Product -> Shelf]
    BY <1>2 DEF PosTypes, Basket
  <2>2. Moved(shelf, basket[c].lines, -1) \in [Product -> Shelf]
    BY <2>1, -1 \in Int, MovedType
  <2> QED  BY <1>1, <2>2
<1>7. /\ (till \in Int)' /\ (loose \in SUBSET Cart)'
      /\ (shift \in [open: BOOLEAN, total: Int, closing: Nat])'
  BY <1>1, <1>2 DEF PosTypes
<1> QED  BY <1>1, <1>4, <1>5, <1>6, <1>7, AnsweredType DEF PosTypes, amends

\* An operation is keyed in.
LEMMA AddOperationType ==
    ASSUME PosTypes, PosSystemAssumption, NEW t \in SaleId, NEW a \in Manual,
           NEW c \in Cart \cup {NoCart}, AddOperation(t, a, c)
    PROVE  PosTypes'
<1>1. a \in Nat
  BY DEF PosSystemAssumption
<1>2. (sale \in [SaleId -> Record])'
  BY <1>1 DEF AddOperation, PosTypes, Record, SaleRow
<1>3. /\ (till \in Int)' /\ (loose \in SUBSET Cart)'
      /\ (shift \in [open: BOOLEAN, total: Int, closing: Nat])'
  BY <1>1 DEF AddOperation, PosTypes
<1> QED  BY <1>2, <1>3 DEF AddOperation, PosTypes, goods, amends

\* An operation is about to be deleted.
LEMMA BeginDeleteOperationType ==
    ASSUME PosTypes, NEW r \in Request, NEW t \in SaleId, BeginDeleteOperation(r, t)
    PROVE  PosTypes'
<1> DEFINE w == [stage |-> "removing", id |-> t, seen |-> sale[t]]
<1>1. sale[t] \in SaleRow
  BY RecordFields DEF BeginDeleteOperation, Live, PosTypes
<1>2. w \in Work
  BY <1>1 DEF Work
<1>3. job' = [job EXCEPT ![r] = w] /\ UNCHANGED <<basket, books, goods, loose, amends>>
  BY DEF BeginDeleteOperation
<1> HIDE DEF w
<1> QED  BY <1>2, <1>3, BegunType DEF PosTypes, books, goods, amends

\* It is.
LEMMA DeleteOperationType ==
    ASSUME PosTypes, NEW r \in Request, DeleteOperation(r) PROVE PosTypes'
<1> DEFINE seen == job[r].seen
           t == job[r].id
<1>1. /\ job[r].stage = "removing"
      /\ shelf' = Moved(shelf, LinesOf(seen), 1)
      /\ sale' = [sale EXCEPT ![t] = GoneSale]
      /\ shift' = [shift EXCEPT !.total = @ - seen.amount]
      /\ job' = Answered(job, r)
      /\ loose' = IF Live(t) /\ sale[t].cart = seen.cart THEN loose
                  ELSE loose \cup ({seen.cart} \ {NoCart})
      /\ adrift' = IF Live(t) THEN adrift + sale[t].amount ELSE adrift
      /\ UNCHANGED <<basket, till, delivery, owed, rewritten>>
  BY DEF DeleteOperation
<1>2. seen \in SaleRow /\ t \in SaleId
  BY <1>1, WorkFields DEF PosTypes
<1> HIDE DEF seen, t
<1>3. LinesOf(seen) \in Lines
  BY <1>2, LinesOfType DEF Record
<1>4. (shelf \in [Product -> Shelf])'
  BY <1>1, <1>3, MovedType DEF PosTypes
<1>5. (sale \in [SaleId -> Record])'
  BY <1>1, <1>2 DEF PosTypes, Record
<1>6. seen.amount \in Int /\ seen.cart \in Cart \cup {NoCart} /\ sale[t].amount \in Int
  BY <1>2, RecordFields DEF SaleRow, PosTypes
<1>7. /\ (loose \in SUBSET Cart)' /\ (adrift \in Int)'
      /\ (shift \in [open: BOOLEAN, total: Int, closing: Nat])'
  BY <1>1, <1>6 DEF PosTypes
<1> QED  BY <1>1, <1>4, <1>5, <1>7, AnsweredType DEF PosTypes

\* An amount is rewritten.
LEMMA AmendType ==
    ASSUME PosTypes, NEW t \in SaleId, Live(t), NEW a \in Int, Amend(t, a)
    PROVE  /\ (sale \in [SaleId -> Record])' /\ (rewritten \in SUBSET SaleId)'
           /\ (adrift \in Int)'
<1>1. sale[t] \in SaleRow /\ sale[t].amount \in Int
  BY RecordFields DEF Live, PosTypes
<1>2. [sale[t] EXCEPT !.amount = a] \in Record
  BY <1>1 DEF SaleRow, Record
<1> QED  BY <1>1, <1>2 DEF Amend, PosTypes

\* An operation is about to be rewritten.
LEMMA BeginUpdateOperationType ==
    ASSUME PosTypes, PosSystemAssumption, NEW r \in Request, NEW t \in SaleId,
           NEW a \in Amended, BeginUpdateOperation(r, t, a)
    PROVE  PosTypes'
<1> DEFINE w == [stage |-> "rewriting", id |-> t, seen |-> sale[t], amount |-> a]
<1>1. sale[t] \in SaleRow
  BY RecordFields DEF BeginUpdateOperation, Live, PosTypes
<1>2. a \in Nat
  BY DEF BeginUpdateOperation, PosSystemAssumption
<1>3. w \in Work
  BY <1>1, <1>2 DEF Work
<1>4. job' = [job EXCEPT ![r] = w] /\ UNCHANGED <<basket, books, goods, loose, amends>>
  BY DEF BeginUpdateOperation
<1> HIDE DEF w
<1> QED  BY <1>3, <1>4, BegunType DEF PosTypes, books, goods, amends

\* It is.
LEMMA UpdateOperationType ==
    ASSUME PosTypes, NEW r \in Request, UpdateOperation(r) PROVE PosTypes'
<1> DEFINE t == job[r].id
           a == job[r].amount
<1>1. t \in SaleId /\ job[r].seen \in SaleRow /\ a \in Nat
  BY WorkFields DEF UpdateOperation, PosTypes
<1>2. /\ shift' = [shift EXCEPT !.total = @ + (a - job[r].seen.amount)]
      /\ job' = Answered(job, r)
      /\ IF Live(t) THEN Amend(t, a) ELSE UNCHANGED <<basket, sale, till, goods, loose, amends>>
  BY DEF UpdateOperation
<1> HIDE DEF t, a
<1>3. job[r].seen.amount \in Int
  BY <1>1 DEF SaleRow
<1>4. (shift \in [open: BOOLEAN, total: Int, closing: Nat])'
  BY <1>1, <1>2, <1>3 DEF PosTypes
<1>5. CASE Live(t)
  <2>1. Amend(t, a) /\ a \in Int
    BY <1>1, <1>2, <1>5
  <2>2. /\ (sale \in [SaleId -> Record])' /\ (rewritten \in SUBSET SaleId)'
        /\ (adrift \in Int)'
    BY <1>1, <1>5, <2>1, AmendType
  <2> QED  BY <1>2, <1>4, <2>1, <2>2, AnsweredType DEF Amend, PosTypes, goods
<1>6. CASE ~ Live(t)
  BY <1>2, <1>4, <1>6, AnsweredType DEF PosTypes, goods, amends
<1> QED  BY <1>5, <1>6

\* A transaction is, wherever it belongs.
LEMMA UpdateTransactionType ==
    ASSUME PosTypes, PosSystemAssumption, NEW t \in SaleId, NEW a \in Amended,
           UpdateTransaction(t, a)
    PROVE  PosTypes'
<1>1. a \in Int /\ Live(t) /\ Amend(t, a)
  BY DEF UpdateTransaction, PosSystemAssumption
<1>2. /\ (sale \in [SaleId -> Record])' /\ (rewritten \in SUBSET SaleId)'
      /\ (adrift \in Int)'
  BY <1>1, AmendType
<1> QED  BY <1>1, <1>2 DEF UpdateTransaction, Amend, PosTypes, goods

\* A sale is voided.
LEMMA VoidSaleType ==
    ASSUME PosTypes, NEW t \in SaleId, VoidSale(t) PROVE PosTypes'
<1>1. sale[t].amount \in Int /\ sale[t] \in Record
  BY RecordFields DEF PosTypes
<1>2. (shelf \in [Product -> Shelf])'
  BY <1>1, LinesOfType, MovedType DEF VoidSale, PosTypes
<1>3. (sale \in [SaleId -> Record])' /\ (till \in Int)'
  BY <1>1 DEF VoidSale, PosTypes, Record
<1> QED  BY <1>2, <1>3 DEF VoidSale, PosTypes, amends

\* The shift is closed.
LEMMA CloseShiftType ==
    ASSUME PosTypes, PosSystemAssumption, NEW t \in SaleId, NEW u \in SaleId,
           CloseShift(t, u)
    PROVE  PosTypes'
<1>1. CloseCash \in Nat /\ CloseTerminal \in Nat
  BY DEF PosSystemAssumption
<1>2. (sale \in [SaleId -> Record])'
  BY <1>1 DEF CloseShift, PosTypes, Record, SaleRow
<1>3. (till \in Int)' /\ (shift \in [open: BOOLEAN, total: Int, closing: Nat])'
  BY <1>1 DEF CloseShift, PosTypes
<1> QED  BY <1>2, <1>3 DEF CloseShift, PosTypes, goods, amends

\* It is reopened.
LEMMA ReopenShiftType ==
    ASSUME PosTypes, NEW t \in SaleId, NEW u \in SaleId, ReopenShift(t, u)
    PROVE  PosTypes'
<1>1. /\ sale[t].amount \in Int /\ sale[t] \in Record
      /\ sale[u].amount \in Int /\ sale[u] \in Record
  BY RecordFields DEF PosTypes
<1>2. Moved(shelf, LinesOf(sale[t]), 1) \in [Product -> Shelf]
  BY <1>1, LinesOfType, MovedType DEF PosTypes
<1>3. (shelf \in [Product -> Shelf])'
  BY <1>1, <1>2, LinesOfType, MovedType DEF ReopenShift
<1>4. (sale \in [SaleId -> Record])' /\ (till \in Int)'
  BY <1>1 DEF ReopenShift, PosTypes, Record
<1>5. (shift \in [open: BOOLEAN, total: Int, closing: Nat])'
  BY DEF ReopenShift, PosTypes
<1> QED  BY <1>3, <1>4, <1>5 DEF ReopenShift, PosTypes, amends

\* Goods come in.
LEMMA AddIncomeType ==
    ASSUME PosTypes, PosSystemAssumption, NEW i \in DeliveryId, NEW p \in Product,
           NEW q \in Quantity, NEW s \in Price, NEW k \in Cost, AddIncome(i, p, q, s, k)
    PROVE  PosTypes'
<1>1. q \in Nat /\ s \in Nat /\ k \in Nat
  BY DEF PosSystemAssumption
<1>2. RoundLineTotal(q, k) \in Nat
  BY <1>1, RoundLineTotalType
<1>3. (shelf \in [Product -> Shelf])'
  BY <1>1 DEF AddIncome, PosTypes, Shelf
<1>4. (delivery \in [DeliveryId -> Income])'
  BY <1>1 DEF AddIncome, PosTypes, Income
<1>5. (owed \in Nat)'
  BY <1>2 DEF AddIncome, PosTypes
<1> QED  BY <1>3, <1>4, <1>5 DEF AddIncome, PosTypes, books, amends

\* A product is deleted.
LEMMA DeleteProductType ==
    ASSUME PosTypes, NEW p \in Product, DeleteProduct(p) PROVE PosTypes'
<1>1. (shelf \in [Product -> Shelf])'
  BY DEF DeleteProduct, PosTypes, Shelf, EmptyShelf
<1>2. (delivery \in [DeliveryId -> Income])'
  BY DEF DeleteProduct, PosTypes, Income
<1> QED  BY <1>1, <1>2 DEF DeleteProduct, PosTypes, books, amends

-----------------------------------------------------------------------------
(* What requests and carts know of each other and of the books.            *)

\* A checkout that has read: its cart is still open, with the lines it has priced,
\* and no other checkout has read the same cart.
Charging ==
    /\ \A r \in Request : job[r].stage = "charging" =>
          /\ basket[job[r].cart].life = "open"
          /\ DOMAIN basket[job[r].cart].lines # {}
          /\ DOMAIN job[r].prices = DOMAIN basket[job[r].cart].lines
          /\ job[r].total = LineTotals(basket[job[r].cart].lines, job[r].prices)
    /\ \A q, r \in Request :
          job[q].stage = "charging" /\ job[r].stage = "charging"
          /\ job[q].cart = job[r].cart => q = r

\* A deletion that has read: the row is there, unless it is gone; it may have lost
\* its cart.
Removing ==
    \A r \in Request : job[r].stage = "removing" =>
        \/ sale[job[r].id] = GoneSale
        \/ /\ sale[job[r].id].state = "live"
           /\ sale[job[r].id].cart \in {job[r].seen.cart, NoCart}

\* The header of a cart that was not charged shows the total of its lines.
Uncharged == {"absent", "open", "ended"}
Shown ==
    \A c \in Cart : basket[c].life \in Uncharged =>
        basket[c].subtotal = ShownTotal(basket[c].lines)

\* A cart that has a sale has that one, and agrees with it.
OneSale ==
    \A t \in SaleId : Live(t) /\ sale[t].cart \in Cart \ loose =>
        /\ basket[sale[t].cart].life = "completed"
        /\ DOMAIN basket[sale[t].cart].lines # {}
        /\ t \in rewritten \/ basket[sale[t].cart].subtotal = sale[t].amount
        /\ \A u \in SaleId : Live(u) /\ sale[u].cart = sale[t].cart => u = t

PosLinks == Charging /\ Removing /\ Shown /\ OneSale

\* A checkout's knowledge outlives steps that leave its request and its cart alone.
LEMMA ChargingKept ==
    ASSUME Charging,
           \A q \in Request : job'[q].stage = "charging" => job'[q] = job[q],
           \A q \in Request : job'[q].stage = "charging" =>
                                 basket'[job[q].cart] = basket[job[q].cart]
    PROVE  Charging'
<1>1. ASSUME NEW r \in Request, job'[r].stage = "charging"
      PROVE  /\ basket'[job'[r].cart].life = "open"
             /\ DOMAIN basket'[job'[r].cart].lines # {}
             /\ DOMAIN job'[r].prices = DOMAIN basket'[job'[r].cart].lines
             /\ job'[r].total = LineTotals(basket'[job'[r].cart].lines, job'[r].prices)
  <2>1. job'[r] = job[r] /\ basket'[job[r].cart] = basket[job[r].cart]
    BY <1>1
  <2> QED  BY <1>1, <2>1 DEF Charging
<1>2. ASSUME NEW q \in Request, NEW r \in Request,
             job'[q].stage = "charging", job'[r].stage = "charging",
             job'[q].cart = job'[r].cart
      PROVE  q = r
  BY <1>2 DEF Charging
<1> QED  BY <1>1, <1>2 DEF Charging

\* A deletion's knowledge outlives steps that only void rows or cut them off.
LEMMA RemovingKept ==
    ASSUME Removing, PosTypes,
           \A q \in Request : job'[q].stage = "removing" => job'[q] = job[q],
           \A t \in SaleId : \/ sale'[t] = sale[t] \/ sale'[t] = GoneSale
                             \/ sale[t] = NoSale
                             \/ /\ sale[t].state = "live" /\ sale'[t].state = "live"
                                /\ sale'[t].cart \in {sale[t].cart, NoCart}
    PROVE  Removing'
<1>1. NoSale.state # "live" /\ NoSale # GoneSale
  BY DEF NoSale, GoneSale
<1>2. SUFFICES ASSUME NEW r \in Request, job'[r].stage = "removing"
               PROVE  \/ sale'[job'[r].id] = GoneSale
                      \/ /\ sale'[job'[r].id].state = "live"
                         /\ sale'[job'[r].id].cart \in {job'[r].seen.cart, NoCart}
  BY DEF Removing
<1>3. job'[r] = job[r]
  BY <1>2
<1>4. job[r].id \in SaleId
  BY <1>2, <1>3, WorkFields DEF PosTypes
<1>5. \/ sale[job[r].id] = GoneSale
      \/ /\ sale[job[r].id].state = "live"
         /\ sale[job[r].id].cart \in {job[r].seen.cart, NoCart}
  BY <1>2, <1>3 DEF Removing
<1>6. sale[job[r].id] # NoSale
  BY <1>1, <1>5
<1> QED  BY <1>3, <1>4, <1>5, <1>6 DEF GoneSale

\* A header's total is right as long as the header and the lines stay.
LEMMA ShownKept ==
    ASSUME Shown,
           \A c \in Cart : basket'[c].life \in Uncharged =>
              \/ /\ basket[c].life \in Uncharged
                 /\ basket'[c].lines = basket[c].lines
                 /\ basket'[c].subtotal = basket[c].subtotal
              \/ basket'[c].subtotal = ShownTotal(basket'[c].lines)
    PROVE  Shown'
BY DEF Shown

\* A cart and its sale agree after a step that adds no sale of a cart and leaves
\* the carts with a sale alone; an amount that moves is marked as rewritten.
LEMMA OneSaleKept ==
    ASSUME OneSale, PosSystemAssumption, loose \subseteq loose', rewritten \subseteq rewritten',
           \A t \in SaleId : Live(t)' =>
              \/ /\ Live(t) /\ sale'[t].cart = sale[t].cart
                 /\ t \in rewritten' \/ sale'[t].amount = sale[t].amount
              \/ sale'[t].cart \notin Cart \ loose',
           \A t \in SaleId : Live(t) /\ sale[t].cart \in Cart \ loose'
                                => basket'[sale[t].cart] = basket[sale[t].cart]
    PROVE  OneSale'
<1> SUFFICES ASSUME NEW t \in SaleId, Live(t)', sale'[t].cart \in Cart \ loose'
             PROVE  /\ basket'[sale'[t].cart].life = "completed"
                    /\ DOMAIN basket'[sale'[t].cart].lines # {}
                    /\ t \in rewritten' \/ basket'[sale'[t].cart].subtotal = sale'[t].amount
                    /\ \A u \in SaleId : Live(u)' /\ sale'[u].cart = sale'[t].cart => u = t
  BY DEF OneSale
<1>1. /\ Live(t) /\ sale'[t].cart = sale[t].cart /\ sale[t].cart \in Cart \ loose
      /\ t \in rewritten' \/ sale'[t].amount = sale[t].amount
  OBVIOUS
<1>2. basket'[sale[t].cart] = basket[sale[t].cart]
  BY <1>1
<1>3. /\ basket[sale[t].cart].life = "completed"
      /\ DOMAIN basket[sale[t].cart].lines # {}
      /\ t \in rewritten \/ basket[sale[t].cart].subtotal = sale[t].amount
      /\ \A u \in SaleId : Live(u) /\ sale[u].cart = sale[t].cart => u = t
  BY <1>1 DEF OneSale
<1>4. ASSUME NEW u \in SaleId, Live(u)', sale'[u].cart = sale'[t].cart
      PROVE  u = t
  <2>1. Live(u) /\ sale[u].cart = sale[t].cart
    BY <1>1, <1>4
  <2> QED  BY <1>3, <2>1
<1> QED  BY <1>1, <1>2, <1>3, <1>4

\* An open cart has no sale.
LEMMA OpenHasNoSale ==
    ASSUME OneSale, NEW c \in Cart \ loose, basket[c].life # "completed"
    PROVE  \A t \in SaleId : ~ (Live(t) /\ sale[t].cart = c)
BY DEF OneSale

\* Only a request is answered or gives up.
LEMMA GiveUpJobLinks ==
    ASSUME PosTypes, PosSystemAssumption, PosLinks, NEW r \in Request, GiveUpJob(r)
    PROVE  PosLinks'
<1>1. /\ job'[r] = Idle /\ \A q \in Request \ {r} : job'[q] = job[q]
      /\ UNCHANGED <<basket, sale, loose, rewritten>>
  BY DEF GiveUpJob, Answered, PosTypes, books, amends
<1>2. Idle.stage = "idle"
  BY DEF Idle
<1>3. Charging'
  BY <1>1, <1>2, ChargingKept DEF PosLinks
<1>4. Removing'
  BY <1>1, <1>2, RemovingKept DEF PosLinks
<1>5. Shown' /\ OneSale'
  BY <1>1, ShownKept, OneSaleKept DEF PosLinks, Live
<1> QED  BY <1>3, <1>4, <1>5 DEF PosLinks

\* A request that is neither a checkout nor a deletion begins.
LEMMA BegunLinks ==
    ASSUME PosTypes, PosSystemAssumption, PosLinks, NEW r \in Request,
           NEW w, w.stage # "charging", w.stage # "removing",
           job' = [job EXCEPT ![r] = w],
           UNCHANGED <<basket, sale, loose, rewritten>>
    PROVE  PosLinks'
<1>1. job'[r] = w /\ \A q \in Request \ {r} : job'[q] = job[q]
  BY DEF PosTypes
<1>2. Charging'
  BY <1>1, ChargingKept DEF PosLinks
<1>3. Removing'
  BY <1>1, RemovingKept DEF PosLinks
<1>4. Shown' /\ OneSale'
  BY <1>1, ShownKept, OneSaleKept DEF PosLinks, Live
<1> QED  BY <1>2, <1>3, <1>4 DEF PosLinks

\* A cart is opened, or ends: it was not charged.
LEMMA OpenEndCartLinks ==
    ASSUME PosTypes, PosSystemAssumption, PosLinks, NEW c \in Cart,
           OpenCart(c) \/ EndCart(c)
    PROVE  PosLinks'
<1>1. /\ basket[c].life \in {"absent", "open"}
      /\ basket'[c].life \in Uncharged
      /\ basket'[c].lines = basket[c].lines
      /\ basket'[c].subtotal = basket[c].subtotal
      /\ \A d \in Cart \ {c} : basket'[d] = basket[d]
      /\ UNCHANGED <<sale, loose, job, rewritten>>
  BY DEF OpenCart, EndCart, PosTypes, Basket, Uncharged, books, amends
<1>2. \A q \in Request : job[q].stage = "charging" => job[q].cart # c
  BY DEF OpenCart, EndCart, Locked, PosLinks, Charging
<1>3. \A q \in Request : job[q].stage = "charging" => job[q].cart \in Cart
  BY WorkFields DEF PosTypes
<1>4. Charging'
  BY <1>1, <1>2, <1>3, ChargingKept DEF PosLinks
<1>5. Removing'
  BY <1>1, RemovingKept DEF PosLinks
<1>6. Shown'
  BY <1>1, ShownKept DEF PosLinks, Uncharged
<1>7. OneSale'
  <2>1. ASSUME NEW t \in SaleId, Live(t), sale[t].cart \in Cart \ loose
        PROVE  sale[t].cart # c
    BY <1>1, <2>1, OpenHasNoSale DEF PosLinks
  <2> QED  BY <1>1, <2>1, OneSaleKept DEF PosLinks, Live
<1> QED  BY <1>4, <1>5, <1>6, <1>7 DEF PosLinks

\* The lines are saved: the header shows their total.  A charged cart is loose now.
LEMMA SaveItemsLinks ==
    ASSUME PosTypes, PosSystemAssumption, PosLinks, NEW r \in Request, SaveItems(r)
    PROVE  PosLinks'
<1> DEFINE c == job[r].cart lines == job[r].lines
<1>1. c \in Cart
  BY WorkFields DEF SaveItems, PosTypes
<1>2. /\ job'[r] = Idle /\ \A q \in Request \ {r} : job'[q] = job[q]
      /\ Idle.stage = "idle"
  BY DEF SaveItems, Answered, PosTypes, Idle
<1>3. /\ basket'[c].lines = lines /\ basket'[c].subtotal = ShownTotal(lines)
      /\ \A d \in Cart \ {c} : basket'[d] = basket[d]
      /\ UNCHANGED <<sale, rewritten>>
      /\ loose' = IF basket[c].life = "completed" THEN loose \cup {c} ELSE loose
      /\ ~ Locked(c)
  BY <1>1 DEF SaveItems, PosTypes, Basket, books, amends
<1> HIDE DEF c, lines
<1>4. \A q \in Request : job[q].stage = "charging" => job[q].cart \in Cart \ {c}
  BY <1>3, WorkFields DEF PosTypes, Locked
<1>5. Charging'
  BY <1>2, <1>3, <1>4, ChargingKept DEF PosLinks
<1>6. Removing'
  BY <1>2, <1>3, RemovingKept DEF PosLinks
<1>7. Shown'
  BY <1>3, ShownKept DEF PosLinks
<1>8. OneSale'
  <2>1. ASSUME NEW t \in SaleId, Live(t), sale[t].cart \in Cart \ loose'
        PROVE  sale[t].cart # c
    BY <1>1, <1>3, <2>1, OpenHasNoSale DEF PosLinks
  <2> QED  BY <1>3, <2>1, OneSaleKept DEF PosLinks, Live
<1> QED  BY <1>5, <1>6, <1>7, <1>8 DEF PosLinks

\* A cart is deleted: its sale names no cart any more.
LEMMA DeleteCartLinks ==
    ASSUME PosTypes, PosSystemAssumption, PosLinks, NEW c \in Cart, DeleteCart(c)
    PROVE  PosLinks'
<1>1. /\ basket'[c].life = "deleted"
      /\ \A d \in Cart \ {c} : basket'[d] = basket[d]
      /\ loose \subseteq loose' /\ UNCHANGED <<job, rewritten>> /\ ~ Locked(c)
  BY DEF DeleteCart, PosTypes, amends
<1>2. ASSUME NEW t \in SaleId
      PROVE  /\ sale[t].cart # c => sale'[t] = sale[t]
             /\ sale[t].cart = c => /\ sale[t].state = "live" /\ sale'[t].state = "live"
                                    /\ sale'[t].cart = NoCart
  <2>1. sale[t].cart = c => sale[t] \in SaleRow
    BY RecordFields DEF PosTypes, NoSale, GoneSale, PosSystemAssumption
  <2> QED  BY <2>1 DEF DeleteCart, SaleRow
<1>3. Charging'
  <2>1. \A q \in Request : job[q].stage = "charging" => job[q].cart \in Cart \ {c}
    BY <1>1, WorkFields DEF PosTypes, Locked
  <2> QED  BY <1>1, <2>1, ChargingKept DEF PosLinks
<1>4. Removing'
  BY <1>1, <1>2, RemovingKept DEF PosLinks
<1>5. Shown'
  BY <1>1, ShownKept DEF PosLinks, Uncharged
<1>6. OneSale'
  <2>1. \A t \in SaleId : Live(t)' => \/ Live(t) /\ sale'[t] = sale[t]
                                      \/ sale'[t].cart \notin Cart \ loose'
    BY <1>2 DEF Live, PosSystemAssumption
  <2>2. ASSUME NEW t \in SaleId, Live(t), sale[t].cart \in Cart \ loose'
        PROVE  basket'[sale[t].cart] = basket[sale[t].cart]
    <3>1. CASE sale[t].cart # c
      BY <1>1, <2>2, <3>1
    <3>2. CASE sale[t].cart = c
      <4>1. basket[c].life = "completed"
        BY <1>1, <2>2, <3>2, OpenHasNoSale DEF PosLinks
      <4> QED  BY <2>2, <3>2, <4>1 DEF DeleteCart
    <3> QED  BY <3>1, <3>2
  <2> QED  BY <1>1, <2>1, <2>2, OneSaleKept DEF PosLinks
<1> QED  BY <1>3, <1>4, <1>5, <1>6 DEF PosLinks

\* A checkout reads an open cart that no other has locked.
LEMMA BeginCheckoutLinks ==
    ASSUME PosTypes, PosSystemAssumption, PosLinks, NEW r \in Request, NEW c \in Cart,
           BeginCheckout(r, c)
    PROVE  PosLinks'
<1> DEFINE lines == basket[c].lines
           prices == [p \in DOMAIN lines |-> shelf[p].price]
<1>1. /\ job'[r] = [stage |-> "charging", cart |-> c,
                    total |-> RepriceTotal(lines, prices), prices |-> prices]
      /\ \A q \in Request \ {r} : job'[q] = job[q]
      /\ basket[c].life = "open" /\ ~ Locked(c) /\ DOMAIN lines # {}
      /\ UNCHANGED <<basket, sale, loose, rewritten>>
  BY DEF BeginCheckout, PosTypes, books, amends
<1>2. DOMAIN prices = DOMAIN lines
  OBVIOUS
<1> HIDE DEF prices
<1>3. Charging'
  <2>1. /\ job'[r].stage = "charging" /\ job'[r].cart = c /\ job'[r].prices = prices
        /\ job'[r].total = LineTotals(lines, prices)
    BY <1>1 DEF RepriceTotal
  <2>2. \A q \in Request \ {r} : job[q].stage = "charging" => job[q].cart # c
    BY <1>1 DEF Locked
  <2>3. ASSUME NEW q \in Request, job'[q].stage = "charging"
        PROVE  /\ basket'[job'[q].cart].life = "open"
               /\ DOMAIN basket'[job'[q].cart].lines # {}
               /\ DOMAIN job'[q].prices = DOMAIN basket'[job'[q].cart].lines
               /\ job'[q].total = LineTotals(basket'[job'[q].cart].lines, job'[q].prices)
    BY <1>1, <1>2, <2>1, <2>3 DEF PosLinks, Charging
  <2>4. ASSUME NEW q \in Request, NEW s \in Request,
               job'[q].stage = "charging", job'[s].stage = "charging",
               job'[q].cart = job'[s].cart
        PROVE  q = s
    BY <1>1, <2>1, <2>2, <2>4 DEF PosLinks, Charging
  <2> QED  BY <2>3, <2>4 DEF Charging
<1>4. Removing'
  BY <1>1, RemovingKept DEF PosLinks
<1>5. Shown' /\ OneSale'
  BY <1>1, ShownKept, OneSaleKept DEF PosLinks, Live
<1> QED  BY <1>3, <1>4, <1>5 DEF PosLinks

\* Only free ids are taken.
LEMMA FreshIsFree ==
    ASSUME NEW t \in SaleId, Fresh(t) PROVE sale[t] = NoSale /\ ~ Live(t)
BY DEF Fresh, Live, NoSale

\* What a checkout's writes are.
LEMMA CommitParts ==
    ASSUME PosTypes, NEW r \in Request, NEW t \in SaleId, CommitCheckout(r, t)
    PROVE  /\ job[r].stage = "charging" /\ job[r].cart \in Cart /\ job[r].total \in Nat
           /\ Fresh(t)
           /\ job'[r] = Idle /\ Idle.stage = "idle"
           /\ \A q \in Request \ {r} : job'[q] = job[q]
           /\ sale'[t].cart = job[r].cart /\ sale'[t].amount = job[r].total
           /\ sale'[t].state = "live"
           /\ \A u \in SaleId \ {t} : sale'[u] = sale[u]
           /\ basket'[job[r].cart].life = "completed"
           /\ basket'[job[r].cart].lines = basket[job[r].cart].lines
           /\ basket'[job[r].cart].subtotal = job[r].total
           /\ \A d \in Cart \ {job[r].cart} : basket'[d] = basket[d]
           /\ loose' = IF SalesOf(job[r].cart) # {} THEN loose \cup {job[r].cart} ELSE loose
           /\ till' = till + job[r].total
           /\ shelf' = Moved(shelf, basket[job[r].cart].lines, -1)
           /\ UNCHANGED <<delivery, owed, amends>>
<1>1. job[r].cart \in Cart /\ job[r].total \in Nat
  BY WorkFields DEF CommitCheckout, CommitWith, PosTypes
<1>2. Idle.stage = "idle"
  BY DEF Idle
<1>3. /\ job' = Answered(job, r)
      /\ sale' = [sale EXCEPT ![t] = [cart |-> job[r].cart, amount |-> job[r].total,
                                      state |-> "live"]]
      /\ basket' = [basket EXCEPT ![job[r].cart].life = "completed",
                                  ![job[r].cart].subtotal = job[r].total]
  BY DEF CommitCheckout, CommitWith
<1>4. /\ job'[r] = Idle /\ \A q \in Request \ {r} : job'[q] = job[q]
  BY <1>3 DEF Answered, PosTypes
<1>5. /\ sale'[t].cart = job[r].cart /\ sale'[t].amount = job[r].total
      /\ sale'[t].state = "live"
      /\ \A u \in SaleId \ {t} : sale'[u] = sale[u]
  BY <1>3 DEF PosTypes
<1>6. /\ basket'[job[r].cart].life = "completed"
      /\ basket'[job[r].cart].lines = basket[job[r].cart].lines
      /\ basket'[job[r].cart].subtotal = job[r].total
      /\ \A d \in Cart \ {job[r].cart} : basket'[d] = basket[d]
  BY <1>1, <1>3 DEF PosTypes, Basket
<1> QED  BY <1>1, <1>2, <1>4, <1>5, <1>6 DEF CommitCheckout, CommitWith

\* A cart is charged: it agrees with its sale, the only one unless it had one before.
LEMMA CommitCheckoutLinks ==
    ASSUME PosTypes, PosSystemAssumption, PosLinks, NEW r \in Request, NEW t \in SaleId,
           CommitCheckout(r, t)
    PROVE  PosLinks'
<1> DEFINE c == job[r].cart
<1>1. /\ job[r].stage = "charging" /\ c \in Cart /\ Fresh(t)
      /\ job'[r] = Idle /\ Idle.stage = "idle"
      /\ \A q \in Request \ {r} : job'[q] = job[q]
      /\ sale'[t].cart = c /\ sale'[t].amount = job[r].total /\ sale'[t].state = "live"
      /\ \A u \in SaleId \ {t} : sale'[u] = sale[u]
      /\ basket'[c].life = "completed" /\ basket'[c].lines = basket[c].lines
      /\ basket'[c].subtotal = job[r].total
      /\ \A d \in Cart \ {c} : basket'[d] = basket[d]
      /\ loose' = IF SalesOf(c) # {} THEN loose \cup {c} ELSE loose
      /\ rewritten' = rewritten
  BY CommitParts DEF amends
<1>2. /\ basket[c].life = "open" /\ DOMAIN basket[c].lines # {}
      /\ \A q \in Request \ {r} : job[q].stage = "charging" => job[q].cart # c
  BY <1>1 DEF PosLinks, Charging
<1>3. \A q \in Request : job[q].stage = "charging" => job[q].cart \in Cart
  BY WorkFields DEF PosTypes
<1> HIDE DEF c
<1>4. Charging'
  BY <1>1, <1>2, <1>3, ChargingKept DEF PosLinks
<1>5. sale[t] = NoSale /\ ~ Live(t)
  BY <1>1, FreshIsFree
<1>6. Removing'
  BY <1>1, <1>5, RemovingKept DEF PosLinks
<1>7. Shown'
  BY <1>1, ShownKept DEF PosLinks, Uncharged
<1>8. OneSale'
  <2> SUFFICES ASSUME NEW v \in SaleId, Live(v)', sale'[v].cart \in Cart \ loose'
               PROVE  /\ basket'[sale'[v].cart].life = "completed"
                      /\ DOMAIN basket'[sale'[v].cart].lines # {}
                      /\ v \in rewritten' \/ basket'[sale'[v].cart].subtotal = sale'[v].amount
                      /\ \A u \in SaleId : Live(u)' /\ sale'[u].cart = sale'[v].cart => u = v
    BY DEF OneSale
  <2>1. c \notin loose' => \A u \in SaleId : ~ (Live(u) /\ sale[u].cart = c)
    BY <1>1 DEF SalesOf, Sales
  <2>2. CASE v = t
    BY <1>1, <1>2, <2>1, <2>2 DEF Live
  <2>3. CASE v # t
    <3>1. Live(v) /\ sale'[v] = sale[v] /\ sale[v].cart \in Cart \ loose
      BY <1>1, <2>3 DEF Live
    <3>2. sale[v].cart # c
      BY <2>1, <3>1
    <3>3. basket'[sale[v].cart] = basket[sale[v].cart]
      BY <1>1, <3>1, <3>2
    <3>4. ASSUME NEW u \in SaleId, Live(u)', sale'[u].cart = sale'[v].cart
          PROVE  u = v
      <4>1. u # t
        BY <1>1, <3>1, <3>2, <3>4
      <4>2. Live(u) /\ sale'[u] = sale[u]
        BY <1>1, <3>4, <4>1 DEF Live
      <4> QED  BY <3>1, <3>4, <4>2 DEF PosLinks, OneSale
    <3> QED  BY <1>1, <3>1, <3>3, <3>4 DEF PosLinks, OneSale
  <2> QED  BY <2>2, <2>3
<1> QED  BY <1>4, <1>6, <1>7, <1>8 DEF PosLinks

\* Steps that move only the books: rows are added that name no cart, or a loose
\* one, and rows are voided.
LEMMA BooksLinks ==
    ASSUME PosTypes, PosSystemAssumption, PosLinks, UNCHANGED <<basket, job>>,
           loose \subseteq loose', rewritten' = rewritten,
           \A t \in SaleId : \/ sale'[t] = sale[t] \/ sale'[t] = GoneSale
                             \/ sale[t] = NoSale /\ sale'[t].cart \notin Cart \ loose'
    PROVE  PosLinks'
<1>1. Charging' /\ Shown'
  BY ChargingKept, ShownKept DEF PosLinks
<1>2. Removing'
  BY RemovingKept DEF PosLinks
<1>3. OneSale'
  <2>1. \A t \in SaleId : Live(t)' => \/ Live(t) /\ sale'[t] = sale[t]
                                      \/ sale'[t].cart \notin Cart \ loose'
    BY DEF Live, GoneSale
  <2> QED  BY <2>1, OneSaleKept DEF PosLinks
<1> QED  BY <1>1, <1>2, <1>3 DEF PosLinks

\* An operation is keyed in: the cart it names, if any, is loose now.
LEMMA AddOperationLinks ==
    ASSUME PosTypes, PosSystemAssumption, PosLinks, NEW t \in SaleId, NEW a \in Manual,
           NEW c \in Cart \cup {NoCart}, AddOperation(t, a, c)
    PROVE  PosLinks'
<1>1. /\ sale[t] = NoSale /\ sale'[t].cart = c /\ \A u \in SaleId \ {t} : sale'[u] = sale[u]
      /\ loose' = loose \cup ({c} \ {NoCart})
      /\ UNCHANGED <<basket, job, rewritten>>
  BY FreshIsFree DEF AddOperation, PosTypes, amends
<1>2. c \notin Cart \ loose'
  BY <1>1 DEF PosSystemAssumption
<1> QED  BY <1>1, <1>2, BooksLinks

\* A deletion has read the row of an operation that stands.
LEMMA BeginDeleteOperationLinks ==
    ASSUME PosTypes, PosSystemAssumption, PosLinks, NEW r \in Request, NEW t \in SaleId,
           BeginDeleteOperation(r, t)
    PROVE  PosLinks'
<1>1. /\ job'[r] = [stage |-> "removing", id |-> t, seen |-> sale[t]]
      /\ \A q \in Request \ {r} : job'[q] = job[q]
      /\ sale[t].state = "live"
      /\ UNCHANGED <<basket, sale, loose, rewritten>>
  BY DEF BeginDeleteOperation, PosTypes, Live, books, amends
<1>2. Charging'
  BY <1>1, ChargingKept DEF PosLinks
<1>3. Removing'
  <2> SUFFICES ASSUME NEW q \in Request, job'[q].stage = "removing"
               PROVE  \/ sale'[job'[q].id] = GoneSale
                      \/ /\ sale'[job'[q].id].state = "live"
                         /\ sale'[job'[q].id].cart \in {job'[q].seen.cart, NoCart}
    BY DEF Removing
  <2>1. CASE q = r
    BY <1>1, <2>1
  <2>2. CASE q # r
    BY <1>1, <2>2 DEF PosLinks, Removing
  <2> QED  BY <2>1, <2>2
<1>4. Shown' /\ OneSale'
  BY <1>1, ShownKept, OneSaleKept DEF PosLinks, Live
<1> QED  BY <1>2, <1>3, <1>4 DEF PosLinks

\* What a deletion's writes are.
LEMMA DeleteOperationParts ==
    ASSUME PosTypes, NEW r \in Request, DeleteOperation(r)
    PROVE  /\ job[r].stage = "removing" /\ job[r].id \in SaleId /\ job[r].seen \in SaleRow
           /\ job'[r] = Idle /\ Idle.stage = "idle"
           /\ \A q \in Request \ {r} : job'[q] = job[q]
           /\ sale'[job[r].id] = GoneSale
           /\ \A u \in SaleId \ {job[r].id} : sale'[u] = sale[u]
<1>1. job[r].id \in SaleId /\ job[r].seen \in SaleRow
  BY WorkFields DEF DeleteOperation, PosTypes
<1>2. Idle.stage = "idle"
  BY DEF Idle
<1> QED  BY <1>1, <1>2 DEF DeleteOperation, Answered, PosTypes

\* An operation is deleted.
LEMMA DeleteOperationLinks ==
    ASSUME PosTypes, PosSystemAssumption, PosLinks, NEW r \in Request, DeleteOperation(r)
    PROVE  PosLinks'
<1>1. /\ job'[r] = Idle /\ Idle.stage = "idle"
      /\ \A q \in Request \ {r} : job'[q] = job[q]
      /\ \A u \in SaleId : sale'[u] = GoneSale \/ sale'[u] = sale[u]
  BY DeleteOperationParts
<1>2. loose \subseteq loose' /\ UNCHANGED <<basket, rewritten>>
  BY DEF DeleteOperation
<1>3. Charging' /\ Shown'
  BY <1>1, <1>2, ChargingKept, ShownKept DEF PosLinks
<1>4. Removing'
  BY <1>1, RemovingKept DEF PosLinks
<1>5. OneSale'
  <2>1. \A t \in SaleId : Live(t)' => Live(t) /\ sale'[t] = sale[t]
    BY <1>1 DEF Live, GoneSale
  <2> QED  BY <1>2, <2>1, OneSaleKept DEF PosLinks
<1> QED  BY <1>3, <1>4, <1>5 DEF PosLinks

\* What rewriting an amount does to the books.
LEMMA AmendParts ==
    ASSUME PosTypes, NEW t \in SaleId, Live(t), NEW a \in Int, Amend(t, a)
    PROVE  /\ sale'[t].state = "live" /\ sale'[t].cart = sale[t].cart /\ sale'[t].amount = a
           /\ \A u \in SaleId \ {t} : sale'[u] = sale[u]
           /\ rewritten' = rewritten \cup {t}
           /\ adrift' = adrift + sale[t].amount - a
           /\ UNCHANGED <<basket, till, goods, loose>>
<1>1. sale[t] \in SaleRow /\ sale[t].state = "live"
  BY RecordFields DEF Live, PosTypes
<1>2. sale'[t] = [sale[t] EXCEPT !.amount = a] /\ \A u \in SaleId \ {t} : sale'[u] = sale[u]
  BY DEF Amend, PosTypes
<1>3. sale'[t].state = "live" /\ sale'[t].cart = sale[t].cart /\ sale'[t].amount = a
  BY <1>1, <1>2 DEF SaleRow
<1> QED  BY <1>2, <1>3 DEF Amend

\* An amount is rewritten: its cart still has the one sale.
LEMMA AmendLinks ==
    ASSUME PosTypes, PosSystemAssumption, PosLinks, NEW t \in SaleId, Live(t),
           NEW a \in Int, Amend(t, a),
           \A q \in Request : job'[q].stage \in {"charging", "removing"} => job'[q] = job[q]
    PROVE  PosLinks'
<1>1. /\ sale'[t].state = "live" /\ sale'[t].cart = sale[t].cart
      /\ \A u \in SaleId \ {t} : sale'[u] = sale[u]
      /\ rewritten' = rewritten \cup {t} /\ UNCHANGED <<basket, loose>>
  BY AmendParts
<1>2. Charging' /\ Shown'
  BY <1>1, ChargingKept, ShownKept DEF PosLinks
<1>3. Removing'
  BY <1>1, RemovingKept DEF PosLinks, Live
<1>4. OneSale'
  <2>1. ASSUME NEW u \in SaleId, Live(u)'
        PROVE  /\ Live(u) /\ sale'[u].cart = sale[u].cart
               /\ u \in rewritten' \/ sale'[u].amount = sale[u].amount
    BY <1>1, <2>1 DEF Live
  <2> QED  BY <1>1, <2>1, OneSaleKept DEF PosLinks
<1> QED  BY <1>2, <1>3, <1>4 DEF PosLinks

LEMMA UpdateOperationLinks ==
    ASSUME PosTypes, PosSystemAssumption, PosLinks, NEW r \in Request, UpdateOperation(r)
    PROVE  PosLinks'
<1>1. job[r].id \in SaleId /\ job[r].amount \in Int
  BY WorkFields DEF UpdateOperation, PosTypes
<1>2. /\ job'[r] = Idle /\ Idle.stage = "idle"
      /\ \A q \in Request \ {r} : job'[q] = job[q]
  BY DEF UpdateOperation, Answered, PosTypes, Idle
<1>3. \A q \in Request : job'[q].stage \in {"charging", "removing"} => job'[q] = job[q]
  BY <1>2
<1>4. CASE Live(job[r].id)
  <2>1. Amend(job[r].id, job[r].amount)
    BY <1>4 DEF UpdateOperation
  <2> QED  BY <1>1, <1>3, <1>4, <2>1, AmendLinks
<1>5. CASE ~ Live(job[r].id)
  <2>1. UNCHANGED <<basket, sale, loose, rewritten>>
    BY <1>5 DEF UpdateOperation, amends
  <2>2. Charging' /\ Shown'
    BY <1>3, <2>1, ChargingKept, ShownKept DEF PosLinks
  <2>3. Removing' /\ OneSale'
    BY <1>3, <2>1, RemovingKept, OneSaleKept DEF PosLinks, Live
  <2> QED  BY <2>2, <2>3 DEF PosLinks
<1> QED  BY <1>4, <1>5

LEMMA UpdateTransactionLinks ==
    ASSUME PosTypes, PosSystemAssumption, PosLinks, NEW t \in SaleId, NEW a \in Amended,
           UpdateTransaction(t, a)
    PROVE  PosLinks'
<1>1. a \in Int /\ Live(t) /\ Amend(t, a) /\ UNCHANGED job
  BY DEF UpdateTransaction, PosSystemAssumption
<1> QED  BY <1>1, AmendLinks

\* A sale is voided.
LEMMA VoidSaleLinks ==
    ASSUME PosTypes, PosSystemAssumption, PosLinks, NEW t \in SaleId, VoidSale(t)
    PROVE  PosLinks'
<1>1. \A u \in SaleId : sale'[u] = GoneSale \/ sale'[u] = sale[u]
  BY DEF VoidSale, PosTypes
<1> QED  BY <1>1, BooksLinks DEF VoidSale, amends

\* Ids are given out in order.
InOrder == \A t, u \in SaleId : t < u /\ sale[t] = NoSale => sale[u] = NoSale

\* The two ids of a closing are free.
LEMMA ClosingIds ==
    ASSUME InOrder, NEW t \in SaleId, NEW u \in SaleId, CloseShift(t, u)
    PROVE  t # u /\ sale[t] = NoSale /\ sale[u] = NoSale
<1>1. t < u /\ sale[t] = NoSale
  BY DEF CloseShift, Fresh, SaleId
<1> QED  BY <1>1 DEF InOrder, SaleId

\* The shift is closed.
LEMMA CloseShiftLinks ==
    ASSUME PosTypes, PosSystemAssumption, PosLinks, InOrder,
           NEW t \in SaleId, NEW u \in SaleId, CloseShift(t, u)
    PROVE  PosLinks'
<1>1. t # u /\ sale[t] = NoSale /\ sale[u] = NoSale
  BY ClosingIds
<1>2. /\ sale'[t].cart = NoCart /\ sale'[u].cart = NoCart
      /\ \A v \in SaleId \ {t, u} : sale'[v] = sale[v]
      /\ UNCHANGED <<basket, job, loose, rewritten>>
  BY <1>1 DEF CloseShift, PosTypes, amends
<1>3. NoCart \notin Cart
  BY DEF PosSystemAssumption
<1> QED  BY <1>1, <1>2, <1>3, BooksLinks

\* What a reopening does to the books.
LEMMA ReopenParts ==
    ASSUME PosTypes, NEW t \in SaleId, NEW u \in SaleId, ReopenShift(t, u)
    PROVE  /\ t # u /\ Live(t) /\ Live(u)
           /\ sale'[t] = GoneSale /\ sale'[u] = GoneSale
           /\ \A v \in SaleId \ {t, u} : sale'[v] = sale[v]
<1>1. t # u /\ Live(t) /\ Live(u)
  BY DEF ReopenShift, Sales, SaleId
<1>2. sale' = [sale EXCEPT ![t] = GoneSale, ![u] = GoneSale]
  BY DEF ReopenShift
<1> QED  BY <1>1, <1>2 DEF PosTypes

\* The shift is reopened.
LEMMA ReopenShiftLinks ==
    ASSUME PosTypes, PosSystemAssumption, PosLinks,
           NEW t \in SaleId, NEW u \in SaleId, ReopenShift(t, u)
    PROVE  PosLinks'
<1>1. \A v \in SaleId : sale'[v] = GoneSale \/ sale'[v] = sale[v]
  BY ReopenParts
<1>2. UNCHANGED <<basket, job, loose, rewritten>>
  BY DEF ReopenShift, amends
<1> QED  BY <1>1, <1>2, BooksLinks

\* Goods come in, or a product is deleted: the books do not see it.
LEMMA GoodsLinks ==
    ASSUME PosTypes, PosSystemAssumption, PosLinks,
           UNCHANGED <<basket, job, sale, loose, rewritten>>
    PROVE  PosLinks'
BY BooksLinks

\* A row once given out stays one, and a new one takes the first id that is free.
LEMMA InOrderKept ==
    ASSUME InOrder, \A t \in SaleId : sale'[t] = NoSale <=> sale[t] = NoSale
    PROVE  InOrder'
BY DEF InOrder
LEMMA InOrderAdded ==
    ASSUME InOrder, NEW t \in SaleId, Fresh(t), \A u \in SaleId \ {t} : sale'[u] = sale[u],
           sale'[t].state = "live"
    PROVE  InOrder'
<1> SUFFICES ASSUME NEW u \in SaleId, NEW v \in SaleId, u < v, sale'[u] = NoSale
             PROVE  sale'[v] = NoSale
  BY DEF InOrder
<1>1. u # t
  BY DEF NoSale
<1>2. sale[u] = NoSale
  BY <1>1
<1>3. t <= u /\ sale[v] = NoSale
  BY <1>2 DEF Fresh, InOrder
<1>4. v # t
  BY <1>3 DEF SaleId
<1> QED  BY <1>3, <1>4

LEMMA InOrderStep ==
    ASSUME PosTypes, PosSystemAssumption, Removing, InOrder, [PosNext]_posVars
    PROVE  InOrder'
<1>1. NoSale # GoneSale /\ \A t \in SaleId : Live(t) => sale[t] # NoSale
  BY DEF Live, NoSale, GoneSale
<1>2. ASSUME UNCHANGED sale PROVE InOrder'
  BY <1>2, InOrderKept
<1>3. ASSUME NEW c \in Cart, DeleteCart(c) PROVE InOrder'
  <2>1. \A t \in SaleId : sale[t].cart = c => sale[t].state = "live"
    BY RecordFields DEF PosTypes, NoSale, GoneSale, PosSystemAssumption
  <2>2. ASSUME NEW t \in SaleId PROVE sale'[t] = NoSale <=> sale[t] = NoSale
    <3>1. CASE sale[t].cart = c
      <4>1. sale'[t].state = "live" /\ sale[t].state = "live"
        BY <1>3, <2>1, <3>1, RecordFields DEF DeleteCart, PosTypes, SaleRow
      <4> QED  BY <4>1 DEF NoSale
    <3>2. CASE sale[t].cart # c
      BY <1>3, <3>2 DEF DeleteCart
    <3> QED  BY <3>1, <3>2
  <2> QED  BY <2>2, InOrderKept
<1>4. ASSUME NEW r \in Request, NEW t \in SaleId, CommitCheckout(r, t) PROVE InOrder'
  <2>1. /\ Fresh(t) /\ sale'[t].state = "live"
        /\ \A u \in SaleId \ {t} : sale'[u] = sale[u]
    BY <1>4, CommitParts
  <2> QED  BY <2>1, InOrderAdded
<1>5. ASSUME NEW r \in Request, DeleteOperation(r) PROVE InOrder'
  <2>1. /\ job[r].id \in SaleId /\ sale[job[r].id] # NoSale
        /\ sale'[job[r].id] = GoneSale
        /\ \A u \in SaleId \ {job[r].id} : sale'[u] = sale[u]
    BY <1>5, DeleteOperationParts DEF Removing, NoSale, GoneSale
  <2> QED  BY <1>1, <2>1, InOrderKept
<1>17. ASSUME NEW t \in SaleId, NEW a \in Int, Live(t), Amend(t, a) PROVE InOrder'
  <2>1. sale'[t].state = "live" /\ \A u \in SaleId \ {t} : sale'[u] = sale[u]
    BY <1>17, AmendParts
  <2>2. sale'[t] # NoSale
    BY <2>1 DEF NoSale
  <2> QED  BY <1>1, <1>17, <2>1, <2>2, InOrderKept
<1>18. ASSUME NEW r \in Request, UpdateOperation(r) PROVE InOrder'
  <2>1. job[r].id \in SaleId /\ job[r].amount \in Int
    BY <1>18, WorkFields DEF UpdateOperation, PosTypes
  <2> QED  BY <1>2, <1>17, <1>18, <2>1 DEF UpdateOperation
<1>19. ASSUME NEW t \in SaleId, NEW a \in Amended, UpdateTransaction(t, a) PROVE InOrder'
  BY <1>17, <1>19 DEF UpdateTransaction, PosSystemAssumption
<1>20. ASSUME NEW r \in Request, NEW t, NEW a, BeginUpdateOperation(r, t, a)
       PROVE  UNCHANGED sale
  BY <1>20 DEF BeginUpdateOperation, books
<1>6. ASSUME NEW t \in SaleId, NEW a, NEW c, AddOperation(t, a, c) PROVE InOrder'
  <2>1. /\ Fresh(t) /\ sale'[t].state = "live"
        /\ \A u \in SaleId \ {t} : sale'[u] = sale[u]
    BY <1>6 DEF AddOperation, PosTypes
  <2> QED  BY <2>1, InOrderAdded
<1>7. ASSUME NEW t \in SaleId, VoidSale(t) PROVE InOrder'
  <2>1. /\ Live(t) /\ sale'[t] = GoneSale
        /\ \A u \in SaleId \ {t} : sale'[u] = sale[u]
    BY <1>7 DEF VoidSale, PosTypes
  <2> QED  BY <1>1, <2>1, InOrderKept
<1>8. ASSUME NEW t \in SaleId, NEW u \in SaleId, CloseShift(t, u) PROVE InOrder'
  <2>1. u = t + 1 /\ Fresh(t) /\ t # u
    BY <1>8, ClosingIds DEF CloseShift
  <2>2. sale'[t].state = "live" /\ sale'[u].state = "live"
    BY <1>8, <2>1 DEF CloseShift, PosTypes
  <2>3. \A v \in SaleId \ {t, u} : sale'[v] = sale[v]
    BY <1>8 DEF CloseShift, PosTypes
  <2> SUFFICES ASSUME NEW v \in SaleId, NEW w \in SaleId, v < w, sale'[v] = NoSale
               PROVE  sale'[w] = NoSale
    BY DEF InOrder
  <2>4. v \notin {t, u}
    BY <2>2 DEF NoSale
  <2>5. sale[v] = NoSale /\ t <= v
    BY <2>1, <2>3, <2>4 DEF Fresh
  <2>6. w \notin {t, u}
    BY <2>1, <2>4, <2>5 DEF SaleId
  <2> QED  BY <2>3, <2>5, <2>6 DEF InOrder
<1>9. ASSUME NEW t \in SaleId, NEW u \in SaleId, ReopenShift(t, u) PROVE InOrder'
  BY <1>1, <1>9, ReopenParts, InOrderKept
<1>10. CASE UNCHANGED posVars
  BY <1>2, <1>10 DEF posVars
<1>11. ASSUME NEW c \in Cart, NEW r \in Request, NEW p \in Product, NEW q,
              BeginAddItem(r, c, p, q) \/ BeginRemoveItem(r, c, p)
       PROVE  UNCHANGED sale
  BY <1>11 DEF BeginAddItem, BeginRemoveItem, books
<1>12. ASSUME NEW c \in Cart, OpenCart(c) \/ EndCart(c) PROVE UNCHANGED sale
  BY <1>12 DEF OpenCart, EndCart, books
<1>13. ASSUME NEW r \in Request, NEW c, NEW t,
              BeginCheckout(r, c) \/ BeginDeleteOperation(r, t)
       PROVE  UNCHANGED sale
  BY <1>13 DEF BeginCheckout, BeginDeleteOperation, books
<1>14. ASSUME NEW r \in Request, SaveItems(r) \/ GiveUpJob(r) PROVE UNCHANGED sale
  BY <1>14 DEF SaveItems, GiveUpJob, books
<1>15. ASSUME NEW i, NEW p, NEW q, NEW s, NEW k,
              AddIncome(i, p, q, s, k) \/ DeleteProduct(p)
       PROVE  UNCHANGED sale
  BY <1>15 DEF AddIncome, DeleteProduct, books
<1>16. CASE PosNext
  BY <1>2, <1>3, <1>4, <1>5, <1>6, <1>7, <1>8, <1>9, <1>11, <1>12, <1>13, <1>14, <1>15,
     <1>16, <1>18, <1>19, <1>20 DEF PosNext, PosStep
<1> QED  BY <1>10, <1>16

-----------------------------------------------------------------------------
(* Sums over the books, the carts and the incomes, for tables other than   *)
(* the present ones too.                                                   *)

\* What the transactions of S that stand add up to, and what one row adds.
LiveIn(S) == { t \in SaleId : S[t].state = "live" }
Takings(S) == NetSum([t \in LiveIn(S) |-> S[t].amount])
Amount(row) == IF row.state = "live" THEN row.amount ELSE 0

\* What the carts B have of product p that the books S say was sold, and what one
\* cart has of it.
Bought(S, c) == \E t \in SaleId : S[t].state = "live" /\ S[t].cart = c
Buyers(S, B, p) == { c \in Cart : Bought(S, c) /\ p \in DOMAIN B[c].lines }
LinesSold(S, B, p) == [c \in Buyers(S, B, p) |-> B[c].lines[p].quantity]
SoldIn(S, B, p) == CoinSum(LinesSold(S, B, p))
Has(S, B, c, p) == IF c \in Buyers(S, B, p) THEN B[c].lines[p].quantity ELSE 0

\* What came in of product p, and what one income brought.
IncomesOf(V, p) == { i \in DeliveryId : V[i].product = p }
DeliveredIn(V, p) == CoinSum([i \in IncomesOf(V, p) |-> V[i].quantity])
Brought(V, i, p) == IF V[i].product = p THEN V[i].quantity ELSE 0

\* The sums of the properties are these, now and after a step.
LEMMA SumsAre ==
    /\ TillMatchesSales <=> till = Takings(sale) + adrift
    /\ TillMatchesSales' <=> till' = Takings(sale') + adrift'
    /\ \A p : SoldOf(p) = SoldIn(sale, basket, p)
    /\ \A p : Delivered(p) = DeliveredIn(delivery, p)
<1>1. Sales = LiveIn(sale) /\ Sales' = LiveIn(sale')
  BY DEF Sales, Live, LiveIn
<1>2. /\ TillMatchesSales <=> till = Takings(sale) + adrift
      /\ TillMatchesSales' <=> till' = Takings(sale') + adrift'
  BY <1>1 DEF TillMatchesSales, Takings
<1>3. \A c : SalesOf(c) # {} <=> Bought(sale, c)
  BY DEF SalesOf, Sales, Live, Bought
<1>4. \A p : SoldOf(p) = SoldIn(sale, basket, p)
  <2> TAKE p
  <2>1. { c \in Cart : SalesOf(c) # {} /\ p \in DOMAIN basket[c].lines }
          = Buyers(sale, basket, p)
    BY <1>3 DEF Buyers
  <2> QED  BY <2>1 DEF SoldOf, SoldIn, LinesSold
<1>5. \A p : Delivered(p) = DeliveredIn(delivery, p)
  BY DEF Delivered, DeliveredIn, IncomesOf
<1> QED  BY <1>2, <1>4, <1>5

\* The takings are a sum.
LEMMA TakingsTable ==
    ASSUME PosSystemAssumption, NEW S \in [SaleId -> Record]
    PROVE  /\ IsTable([t \in LiveIn(S) |-> S[t].amount])
           /\ Takings(S) \in Int
           /\ \A t \in SaleId :
                 /\ Amount(S[t]) \in Int
                 /\ NetWorth([u \in LiveIn(S) |-> S[u].amount], t) = Amount(S[t])
<1> DEFINE f == [t \in LiveIn(S) |-> S[t].amount]
<1>1. \A t \in SaleId : S[t].amount \in Int
  BY RecordFields
<1>2. IsFiniteSet(SaleId)
  BY FS_Interval DEF SaleId, PosSystemAssumption
<1>3. IsFiniteSet(LiveIn(S))
  BY <1>2, FS_Subset DEF LiveIn
<1>4. IsTable(f)
  BY <1>1, <1>3 DEF IsTable, LiveIn
<1>5. Takings(S) \in Int
  BY <1>4, NetParts DEF Takings
<1>6. ASSUME NEW t \in SaleId PROVE Amount(S[t]) \in Int /\ NetWorth(f, t) = Amount(S[t])
  BY <1>1 DEF Amount, NetWorth, LiveIn
<1> QED  BY <1>4, <1>5, <1>6

\* The books move at one row.
LEMMA TakingsStep ==
    ASSUME PosSystemAssumption, NEW S \in [SaleId -> Record], NEW T \in [SaleId -> Record],
           NEW t \in SaleId, \A u \in SaleId \ {t} : Amount(T[u]) = Amount(S[u])
                                                 /\ (u \in LiveIn(T) <=> u \in LiveIn(S))
    PROVE  Takings(T) = Takings(S) + Amount(T[t]) - Amount(S[t])
<1> DEFINE f == [u \in LiveIn(S) |-> S[u].amount]
           g == [u \in LiveIn(T) |-> T[u].amount]
<1>1. IsTable(f) /\ IsTable(g)
  BY TakingsTable
<1>2. DOMAIN g \ {t} = DOMAIN f \ {t}
  BY DEF LiveIn
<1>3. \A u \in DOMAIN f \ {t} : g[u] = f[u]
  BY DEF LiveIn, Amount
<1>4. /\ Takings(S) \in Int /\ Takings(T) \in Int
      /\ Amount(S[t]) \in Int /\ Amount(T[t]) \in Int
      /\ NetWorth(f, t) = Amount(S[t]) /\ NetWorth(g, t) = Amount(T[t])
  BY TakingsTable
<1>5. NetSum(g) = Takings(T) /\ NetSum(f) = Takings(S)
  BY DEF Takings
<1> HIDE DEF f, g
<1>6. NetSum(g) - NetWorth(g, t) = NetSum(f) - NetWorth(f, t)
  BY <1>1, <1>2, <1>3, NetStep
<1> QED  BY <1>4, <1>5, <1>6

\* What a product sold is a sum.
LEMMA SoldTable ==
    ASSUME PosSystemAssumption, NEW S, NEW B \in [Cart -> Basket], NEW p
    PROVE  /\ IsTable(LinesSold(S, B, p))
           /\ SoldIn(S, B, p) \in Nat
           /\ \A c \in Cart :
                 /\ Has(S, B, c, p) \in Nat
                 /\ Worth(LinesSold(S, B, p), c) = Has(S, B, c, p)
<1> DEFINE f == LinesSold(S, B, p)
<1>1. \A c \in Buyers(S, B, p) : B[c].lines[p].quantity \in Nat
  <2> SUFFICES ASSUME NEW c \in Buyers(S, B, p) PROVE B[c].lines[p].quantity \in Nat
    OBVIOUS
  <2>1. c \in Cart /\ p \in DOMAIN B[c].lines
    BY DEF Buyers
  <2>2. B[c].lines \in Lines
    BY <2>1 DEF Basket
  <2> QED  BY <2>1, <2>2, LinesAre DEF Line
<1>2. IsFiniteSet(Buyers(S, B, p))
  BY FS_Subset DEF Buyers, PosSystemAssumption
<1>3. IsTable(f)
  BY <1>1, <1>2 DEF IsTable, LinesSold
<1>4. SoldIn(S, B, p) \in Nat
  BY <1>3, CoinsAreFinite DEF SoldIn
<1>5. ASSUME NEW c \in Cart PROVE Has(S, B, c, p) \in Nat /\ Worth(f, c) = Has(S, B, c, p)
  BY <1>1 DEF Has, Worth, LinesSold
<1> QED  BY <1>3, <1>4, <1>5

\* The carts or the books move at one cart.
LEMMA SoldStep ==
    ASSUME PosSystemAssumption, NEW S, NEW T, NEW B \in [Cart -> Basket],
           NEW D \in [Cart -> Basket], NEW p, NEW c \in Cart,
           \A d \in Cart \ {c} : (Bought(T, d) <=> Bought(S, d)) /\ D[d].lines = B[d].lines
    PROVE  SoldIn(T, D, p) = SoldIn(S, B, p) + Has(T, D, c, p) - Has(S, B, c, p)
<1> DEFINE f == LinesSold(S, B, p)
           g == LinesSold(T, D, p)
<1>1. IsTable(f) /\ IsTable(g)
  <2>1. IsTable(f)
    BY SoldTable
  <2>2. IsTable(g)
    BY SoldTable
  <2> QED  BY <2>1, <2>2
<1>2. DOMAIN g \ {c} = DOMAIN f \ {c}
  BY DEF Buyers, LinesSold
<1>3. \A d \in DOMAIN f \ {c} : g[d] = f[d]
  BY DEF Buyers, LinesSold
<1>4. /\ SoldIn(S, B, p) \in Nat /\ SoldIn(T, D, p) \in Nat
      /\ Has(S, B, c, p) \in Nat /\ Has(T, D, c, p) \in Nat
      /\ Worth(f, c) = Has(S, B, c, p) /\ Worth(g, c) = Has(T, D, c, p)
  BY SoldTable
<1>5. CoinSum(g) = SoldIn(T, D, p) /\ CoinSum(f) = SoldIn(S, B, p)
  BY DEF SoldIn
<1> HIDE DEF f, g
<1>6. CoinSum(g) - Worth(g, c) = CoinSum(f) - Worth(f, c)
  BY <1>1, <1>2, <1>3, CoinStep
<1> QED  BY <1>4, <1>5, <1>6

\* Or at none.
LEMMA SoldSame ==
    ASSUME NEW S, NEW T, NEW B, NEW D, NEW p,
           \A d \in Cart : (Bought(T, d) <=> Bought(S, d)) /\ D[d].lines = B[d].lines
    PROVE  SoldIn(T, D, p) = SoldIn(S, B, p)
<1>1. Buyers(T, D, p) = Buyers(S, B, p)
  BY DEF Buyers
<1>2. \A c \in Buyers(S, B, p) : D[c].lines = B[c].lines
  BY DEF Buyers
<1> QED  BY <1>1, <1>2 DEF SoldIn, LinesSold

\* What came in is a sum.
LEMMA DeliveredTable ==
    ASSUME PosSystemAssumption, NEW V \in [DeliveryId -> Income], NEW p
    PROVE  /\ IsTable([i \in IncomesOf(V, p) |-> V[i].quantity])
           /\ DeliveredIn(V, p) \in Nat
           /\ \A i \in DeliveryId :
                 /\ Brought(V, i, p) \in Nat
                 /\ Worth([k \in IncomesOf(V, p) |-> V[k].quantity], i) = Brought(V, i, p)
<1> DEFINE f == [i \in IncomesOf(V, p) |-> V[i].quantity]
<1>1. \A i \in DeliveryId : V[i].quantity \in Nat
  BY DEF Income
<1>2. IsFiniteSet(DeliveryId)
  BY FS_Interval DEF DeliveryId, PosSystemAssumption
<1>3. IsFiniteSet(IncomesOf(V, p))
  BY <1>2, FS_Subset DEF IncomesOf
<1>4. IsTable(f)
  BY <1>1, <1>3 DEF IsTable, IncomesOf
<1>5. DeliveredIn(V, p) \in Nat
  BY <1>4, CoinsAreFinite DEF DeliveredIn
<1>6. ASSUME NEW i \in DeliveryId PROVE Brought(V, i, p) \in Nat /\ Worth(f, i) = Brought(V, i, p)
  BY <1>1 DEF Brought, Worth, IncomesOf
<1> QED  BY <1>4, <1>5, <1>6

\* An income is recorded.
LEMMA DeliveredStep ==
    ASSUME PosSystemAssumption, NEW V \in [DeliveryId -> Income],
           NEW U \in [DeliveryId -> Income], NEW p, NEW i \in DeliveryId,
           \A k \in DeliveryId \ {i} : U[k] = V[k]
    PROVE  DeliveredIn(U, p) = DeliveredIn(V, p) + Brought(U, i, p) - Brought(V, i, p)
<1> DEFINE f == [k \in IncomesOf(V, p) |-> V[k].quantity]
           g == [k \in IncomesOf(U, p) |-> U[k].quantity]
<1>1. IsTable(f) /\ IsTable(g)
  BY DeliveredTable
<1>2. DOMAIN g \ {i} = DOMAIN f \ {i}
  BY DEF IncomesOf
<1>3. \A k \in DOMAIN f \ {i} : g[k] = f[k]
  BY DEF IncomesOf
<1>4. /\ DeliveredIn(V, p) \in Nat /\ DeliveredIn(U, p) \in Nat
      /\ Brought(V, i, p) \in Nat /\ Brought(U, i, p) \in Nat
      /\ Worth(f, i) = Brought(V, i, p) /\ Worth(g, i) = Brought(U, i, p)
  BY DeliveredTable
<1>5. CoinSum(g) = DeliveredIn(U, p) /\ CoinSum(f) = DeliveredIn(V, p)
  BY DEF DeliveredIn
<1> HIDE DEF f, g
<1>6. CoinSum(g) - Worth(g, i) = CoinSum(f) - Worth(f, i)
  BY <1>1, <1>2, <1>3, CoinStep
<1> QED  BY <1>4, <1>5, <1>6

-----------------------------------------------------------------------------
(* Money.                                                                  *)

\* The money of every step: what the till gains is what the books gain.
LEMMA TillStep ==
    ASSUME PosTypes, PosTypes', PosSystemAssumption, PosLinks, InOrder, TillMatchesSales,
           [PosNext]_posVars
    PROVE  TillMatchesSales'
<1> DEFINE Good == till' = Takings(sale') + adrift'
<1>1. till = Takings(sale) + adrift
  BY SumsAre
<1>2. /\ sale \in [SaleId -> Record] /\ sale' \in [SaleId -> Record]
      /\ till \in Int /\ till' \in Int /\ adrift \in Int /\ adrift' \in Int
      /\ Takings(sale) \in Int
  BY TakingsTable DEF PosTypes
<1>3. SUFFICES Good
  BY SumsAre
<1>4. ASSUME UNCHANGED <<sale, till, amends>> PROVE Good
  BY <1>1, <1>4 DEF amends
<1>5. ASSUME NEW t \in SaleId, \A u \in SaleId \ {t} : sale'[u] = sale[u],
             till' - adrift' = till - adrift + Amount(sale'[t]) - Amount(sale[t])
      PROVE  Good
  <2>1. Takings(sale') = Takings(sale) + Amount(sale'[t]) - Amount(sale[t])
    BY <1>2, <1>5, TakingsStep DEF LiveIn
  <2>2. Amount(sale'[t]) \in Int /\ Amount(sale[t]) \in Int
    BY <1>2, TakingsTable
  <2> QED  BY <1>1, <1>2, <1>5, <2>1, <2>2
<1>6. ASSUME NEW t \in SaleId, NEW u \in SaleId, t # u,
             \A v \in SaleId \ {t, u} : sale'[v] = sale[v], UNCHANGED amends,
             till' = till + (Amount(sale'[t]) - Amount(sale[t]))
                          + (Amount(sale'[u]) - Amount(sale[u]))
      PROVE  Good
  <2> DEFINE S == [sale EXCEPT ![t] = sale'[t]]
  <2>1. /\ S \in [SaleId -> Record] /\ S[t] = sale'[t]
        /\ \A v \in SaleId \ {t} : S[v] = sale[v]
    BY <1>2
  <2> HIDE DEF S
  <2>2. \A v \in SaleId \ {u} : sale'[v] = S[v]
    BY <1>6, <2>1
  <2>3. Takings(S) = Takings(sale) + Amount(S[t]) - Amount(sale[t])
    BY <1>2, <2>1, TakingsStep DEF LiveIn
  <2>4. Takings(sale') = Takings(S) + Amount(sale'[u]) - Amount(S[u])
    BY <1>2, <2>1, <2>2, TakingsStep DEF LiveIn
  <2>5. S[u] = sale[u]
    BY <1>6, <2>1
  <2>6. /\ Amount(sale'[t]) \in Int /\ Amount(sale[t]) \in Int
        /\ Amount(sale'[u]) \in Int /\ Amount(sale[u]) \in Int
    BY <1>2, TakingsTable
  <2>7. adrift' = adrift
    BY <1>6 DEF amends
  <2> QED  BY <1>1, <1>2, <1>6, <2>1, <2>3, <2>4, <2>5, <2>6, <2>7
<1> HIDE DEF Good
<1>7. ASSUME NEW c \in Cart, DeleteCart(c) PROVE Good
  <2>1. ASSUME NEW t \in SaleId
        PROVE  sale'[t].state = sale[t].state /\ sale'[t].amount = sale[t].amount
    <3>1. sale[t].cart = c => sale[t] \in SaleRow
      BY RecordFields DEF PosTypes, NoSale, GoneSale, PosSystemAssumption
    <3> QED  BY <1>7, <3>1 DEF DeleteCart, SaleRow
  <2>2. LiveIn(sale') = LiveIn(sale)
    BY <2>1 DEF LiveIn
  <2>3. Takings(sale') = Takings(sale)
    BY <2>1, <2>2 DEF Takings, LiveIn
  <2> QED  BY <1>1, <1>7, <2>3 DEF DeleteCart, amends, Good
<1>8. ASSUME NEW r \in Request, NEW t \in SaleId, CommitCheckout(r, t) PROVE Good
  <2>1. /\ Fresh(t) /\ sale'[t].state = "live" /\ sale'[t].amount = job[r].total
        /\ \A u \in SaleId \ {t} : sale'[u] = sale[u]
        /\ till' = till + job[r].total /\ adrift' = adrift /\ job[r].total \in Nat
    BY <1>8, CommitParts DEF amends
  <2>2. Amount(sale'[t]) = job[r].total /\ Amount(sale[t]) = 0
    BY <2>1, FreshIsFree DEF Amount, Live
  <2> QED  BY <1>2, <1>5, <2>1, <2>2
<1>9. ASSUME NEW r \in Request, DeleteOperation(r) PROVE Good
  <2> DEFINE t == job[r].id
  <2>1. /\ t \in SaleId /\ sale'[t] = GoneSale
        /\ \A u \in SaleId \ {t} : sale'[u] = sale[u]
    BY <1>9, DeleteOperationParts
  <2>2. till' = till /\ adrift' = IF Live(t) THEN adrift + sale[t].amount ELSE adrift
    BY <1>9 DEF DeleteOperation
  <2> HIDE DEF t
  <2>3. /\ Amount(sale'[t]) = 0
        /\ Amount(sale[t]) = IF Live(t) THEN sale[t].amount ELSE 0
    BY <2>1 DEF Amount, Live, GoneSale
  <2>4. sale[t].amount \in Int
    BY <1>2, <2>1, RecordFields
  <2>5. till' - adrift' = till - adrift + Amount(sale'[t]) - Amount(sale[t])
    BY <1>2, <2>2, <2>3, <2>4
  <2> QED  BY <1>5, <2>1, <2>5
<1>21. ASSUME NEW t \in SaleId, NEW a \in Int, Live(t), Amend(t, a) PROVE Good
  <2>1. /\ sale'[t].state = "live" /\ sale'[t].amount = a
        /\ \A u \in SaleId \ {t} : sale'[u] = sale[u]
        /\ adrift' = adrift + sale[t].amount - a /\ till' = till
    BY <1>21, AmendParts
  <2>2. Amount(sale'[t]) = a /\ Amount(sale[t]) = sale[t].amount
    BY <1>21, <2>1 DEF Amount, Live
  <2>3. sale[t].amount \in Int
    BY <1>2, RecordFields
  <2>4. till' - adrift' = till - adrift + Amount(sale'[t]) - Amount(sale[t])
    BY <1>2, <2>1, <2>2, <2>3
  <2> QED  BY <1>5, <2>1, <2>4
<1>22. ASSUME NEW r \in Request, UpdateOperation(r) PROVE Good
  <2>1. job[r].id \in SaleId /\ job[r].amount \in Int
    BY <1>22, WorkFields DEF UpdateOperation, PosTypes
  <2> QED  BY <1>4, <1>21, <1>22, <2>1 DEF UpdateOperation
<1>23. ASSUME NEW t \in SaleId, NEW a \in Amended, UpdateTransaction(t, a) PROVE Good
  BY <1>21, <1>23 DEF UpdateTransaction, PosSystemAssumption
<1>24. ASSUME NEW r \in Request, NEW t, NEW a, BeginUpdateOperation(r, t, a)
       PROVE  UNCHANGED <<sale, till, amends>>
  BY <1>24 DEF BeginUpdateOperation, books
<1>10. ASSUME NEW t \in SaleId, NEW a \in Manual, NEW c, AddOperation(t, a, c) PROVE Good
  <2>1. /\ Fresh(t) /\ sale'[t].state = "live" /\ sale'[t].amount = a
        /\ \A u \in SaleId \ {t} : sale'[u] = sale[u]
        /\ till' = till + a /\ adrift' = adrift
    BY <1>10 DEF AddOperation, PosTypes, amends
  <2>2. Amount(sale'[t]) = a /\ Amount(sale[t]) = 0 /\ a \in Nat
    BY <2>1, FreshIsFree DEF Amount, Live, PosSystemAssumption
  <2> QED  BY <1>2, <1>5, <2>1, <2>2
<1>11. ASSUME NEW t \in SaleId, VoidSale(t) PROVE Good
  <2>1. /\ Live(t) /\ sale'[t] = GoneSale /\ \A u \in SaleId \ {t} : sale'[u] = sale[u]
        /\ till' = till - sale[t].amount /\ adrift' = adrift
    BY <1>11 DEF VoidSale, PosTypes, amends
  <2>2. Amount(sale'[t]) = 0 /\ Amount(sale[t]) = sale[t].amount
    BY <2>1 DEF Amount, Live, GoneSale
  <2>3. sale[t].amount \in Int
    BY <1>2, RecordFields
  <2> QED  BY <1>2, <1>5, <2>1, <2>2, <2>3
<1>12. ASSUME NEW t \in SaleId, NEW u \in SaleId, CloseShift(t, u) PROVE Good
  <2>1. t # u /\ sale[t] = NoSale /\ sale[u] = NoSale
    BY <1>12, ClosingIds
  <2>2. /\ sale'[t].state = "live" /\ sale'[t].amount = CloseTerminal
        /\ sale'[u].state = "live" /\ sale'[u].amount = CloseCash
        /\ \A v \in SaleId \ {t, u} : sale'[v] = sale[v]
        /\ till' = till + CloseTerminal + CloseCash /\ UNCHANGED amends
    BY <1>12, <2>1 DEF CloseShift, PosTypes
  <2>3. /\ Amount(sale'[t]) = CloseTerminal /\ Amount(sale'[u]) = CloseCash
        /\ Amount(sale[t]) = 0 /\ Amount(sale[u]) = 0
    BY <2>1, <2>2 DEF Amount, NoSale
  <2>4. CloseTerminal \in Nat /\ CloseCash \in Nat
    BY DEF PosSystemAssumption
  <2> QED  BY <1>2, <1>6, <2>1, <2>2, <2>3, <2>4
<1>13. ASSUME NEW t \in SaleId, NEW u \in SaleId, ReopenShift(t, u) PROVE Good
  <2>1. /\ t # u /\ Live(t) /\ Live(u) /\ sale'[t] = GoneSale /\ sale'[u] = GoneSale
        /\ \A v \in SaleId \ {t, u} : sale'[v] = sale[v]
    BY <1>13, ReopenParts
  <2>2. /\ Amount(sale'[t]) = 0 /\ Amount(sale'[u]) = 0
        /\ Amount(sale[t]) = sale[t].amount /\ Amount(sale[u]) = sale[u].amount
    BY <2>1 DEF Amount, Live, GoneSale
  <2>3. sale[t].amount \in Int /\ sale[u].amount \in Int
    BY <1>2, RecordFields
  <2>4. till' = till - sale[t].amount - sale[u].amount /\ UNCHANGED amends
    BY <1>13 DEF ReopenShift
  <2> QED  BY <1>2, <1>6, <2>1, <2>2, <2>3, <2>4
<1>14. ASSUME NEW c \in Cart, NEW r \in Request, NEW p \in Product, NEW q,
              BeginAddItem(r, c, p, q) \/ BeginRemoveItem(r, c, p)
       PROVE  UNCHANGED <<sale, till, amends>>
  BY <1>14 DEF BeginAddItem, BeginRemoveItem, books
<1>15. ASSUME NEW c \in Cart, OpenCart(c) \/ EndCart(c)
       PROVE  UNCHANGED <<sale, till, amends>>
  BY <1>15 DEF OpenCart, EndCart, books
<1>16. ASSUME NEW r \in Request, NEW c, NEW t,
              BeginCheckout(r, c) \/ BeginDeleteOperation(r, t)
       PROVE  UNCHANGED <<sale, till, amends>>
  BY <1>16 DEF BeginCheckout, BeginDeleteOperation, books
<1>17. ASSUME NEW r \in Request, SaveItems(r) \/ GiveUpJob(r)
       PROVE  UNCHANGED <<sale, till, amends>>
  BY <1>17 DEF SaveItems, GiveUpJob, books
<1>18. ASSUME NEW i, NEW p, NEW q, NEW s, NEW k,
              AddIncome(i, p, q, s, k) \/ DeleteProduct(p)
       PROVE  UNCHANGED <<sale, till, amends>>
  BY <1>18 DEF AddIncome, DeleteProduct, books
<1>19. CASE UNCHANGED posVars
  BY <1>4, <1>19 DEF posVars, amends
<1>20. CASE PosNext
  BY <1>4, <1>7, <1>8, <1>9, <1>10, <1>11, <1>12, <1>13, <1>14, <1>15, <1>16, <1>17, <1>18,
     <1>20, <1>22, <1>23, <1>24 DEF PosNext, PosStep
<1> QED  BY <1>19, <1>20

-----------------------------------------------------------------------------
(* Goods.                                                                  *)

\* What came in is on the shelves H or was sold, by the books S and the carts B.
Balance(S, B, H, V) ==
    \A p \in Product : H[p].state # "deleted" =>
        H[p].quantity + SoldIn(S, B, p) = DeliveredIn(V, p)

StockInv == loose = {} => Balance(sale, basket, shelf, delivery)

\* No two transactions of S stand for one cart.
SoldOnce(S) == \A t, u \in SaleId :
    S[t].state = "live" /\ S[u].state = "live"
    /\ S[t].cart = S[u].cart /\ S[t].cart \in Cart => t = u

\* The lines a row stands for, when the carts are B.
RowLines(row, B) == IF row.cart = NoCart THEN <<>> ELSE B[row.cart].lines

\* Steps that move neither goods nor who bought them.
LEMMA BalanceSame ==
    ASSUME NEW S, NEW T, NEW B, NEW D, NEW H, NEW G, NEW V, Balance(S, B, H, V),
           \A d \in Cart : (Bought(T, d) <=> Bought(S, d)) /\ D[d].lines = B[d].lines,
           \A p \in Product : G[p].state = H[p].state /\ G[p].quantity = H[p].quantity
    PROVE  Balance(T, D, G, V)
<1> SUFFICES ASSUME NEW p \in Product, G[p].state # "deleted"
             PROVE  G[p].quantity + SoldIn(T, D, p) = DeliveredIn(V, p)
  BY DEF Balance
<1>1. SoldIn(T, D, p) = SoldIn(S, B, p)
  BY SoldSame
<1>2. H[p].quantity + SoldIn(S, B, p) = DeliveredIn(V, p)
  BY DEF Balance
<1> QED  BY <1>1, <1>2

\* Without lines nothing moves.
LEMMA MovedNothing ==
    ASSUME NEW H \in [Product -> Shelf] PROVE \A p \in Product : Moved(H, <<>>, 1)[p] = H[p]
BY NoLines DEF Moved

\* A cart is sold.
LEMMA BalanceSold ==
    ASSUME PosSystemAssumption, NEW S, NEW T, NEW B \in [Cart -> Basket],
           NEW D \in [Cart -> Basket], NEW H \in [Product -> Shelf], NEW V,
           Balance(S, B, H, V), NEW c \in Cart, D[c].lines = B[c].lines,
           ~ Bought(S, c), Bought(T, c),
           \A d \in Cart \ {c} : (Bought(T, d) <=> Bought(S, d)) /\ D[d].lines = B[d].lines
    PROVE  Balance(T, D, Moved(H, B[c].lines, -1), V)
<1> DEFINE L == B[c].lines
           G == Moved(H, L, -1)
<1> SUFFICES ASSUME NEW p \in Product, G[p].state # "deleted"
             PROVE  G[p].quantity + SoldIn(T, D, p) = DeliveredIn(V, p)
  BY DEF Balance
<1>1. L \in Lines
  BY DEF Basket
<1>2. p \in DOMAIN L => L[p].quantity \in Nat
  BY <1>1, LinesAre DEF Line
<1>3. Has(S, B, c, p) = 0 /\ Has(T, D, c, p) = IF p \in DOMAIN L THEN L[p].quantity ELSE 0
  BY DEF Has, Buyers
<1> HIDE DEF L
<1>4. /\ G[p].state = H[p].state
      /\ G[p].quantity = H[p].quantity + (IF p \in DOMAIN L THEN (-1) * L[p].quantity ELSE 0)
  BY <1>1, -1 \in Int, MovedType
<1>5. SoldIn(T, D, p) = SoldIn(S, B, p) + Has(T, D, c, p) - Has(S, B, c, p)
  BY SoldStep DEF L
<1>6. SoldIn(S, B, p) \in Nat /\ H[p].quantity \in Int
  BY SoldTable DEF Shelf
<1>7. H[p].quantity + SoldIn(S, B, p) = DeliveredIn(V, p)
  BY <1>4 DEF Balance
<1> HIDE DEF G
<1>8. CASE p \in DOMAIN L
  BY <1>2, <1>3, <1>4, <1>5, <1>6, <1>7, <1>8
<1>9. CASE p \notin DOMAIN L
  BY <1>3, <1>4, <1>5, <1>6, <1>7, <1>9
<1> QED  BY <1>8, <1>9

\* A transaction that stands is voided, and the lines it stands for are put back.
LEMMA BalanceVoided ==
    ASSUME PosSystemAssumption, NEW S \in [SaleId -> Record], NEW T,
           NEW B \in [Cart -> Basket], NEW H \in [Product -> Shelf], NEW V,
           Balance(S, B, H, V), SoldOnce(S), NEW t \in SaleId, S[t].state = "live",
           T[t] = GoneSale, \A u \in SaleId \ {t} : T[u] = S[u]
    PROVE  Balance(T, B, Moved(H, RowLines(S[t], B), 1), V) /\ SoldOnce(T)
<1> DEFINE c == S[t].cart
           L == RowLines(S[t], B)
           G == Moved(H, L, 1)
<1>1. SoldOnce(T)
  <2> SUFFICES ASSUME NEW x \in SaleId, NEW y \in SaleId,
                      T[x].state = "live", T[y].state = "live",
                      T[x].cart = T[y].cart, T[x].cart \in Cart
               PROVE  x = y
    BY DEF SoldOnce
  <2>1. x # t /\ y # t
    BY DEF GoneSale
  <2>2. T[x] = S[x] /\ T[y] = S[y]
    BY <2>1
  <2>3. S[x].state = "live" /\ S[y].state = "live" /\ S[x].cart = S[y].cart /\ S[x].cart \in Cart
    BY <2>2
  <2> QED  BY <2>3 DEF SoldOnce
<1>2. c \in Cart \cup {NoCart} /\ NoCart \notin Cart
  BY RecordFields DEF PosSystemAssumption
<1>3. \A d \in Cart \ {c} : Bought(T, d) <=> Bought(S, d)
  BY DEF Bought, GoneSale
<1>4. CASE c = NoCart
  <2>1. L = <<>>
    BY <1>4 DEF RowLines
  <2>2. \A p \in Product : G[p].state = H[p].state /\ G[p].quantity = H[p].quantity
    BY <2>1, MovedNothing
  <2>3. \A d \in Cart : Bought(T, d) <=> Bought(S, d)
    BY <1>2, <1>3, <1>4
  <2> HIDE DEF G
  <2>4. Balance(T, B, G, V)
    BY <2>2, <2>3, BalanceSame
  <2> QED  BY <1>1, <2>4 DEF G
<1>5. CASE c # NoCart
  <2>1. c \in Cart /\ L = B[c].lines /\ L \in Lines
    BY <1>2, <1>5 DEF RowLines, Basket
  <2>2. Bought(S, c) /\ ~ Bought(T, c)
    BY <2>1 DEF Bought, GoneSale, SoldOnce, PosSystemAssumption
  <2> HIDE DEF L
  <2> SUFFICES ASSUME NEW p \in Product, G[p].state # "deleted"
               PROVE  G[p].quantity + SoldIn(T, B, p) = DeliveredIn(V, p)
    BY <1>1 DEF Balance, L
  <2>3. p \in DOMAIN L => L[p].quantity \in Nat
    BY <2>1, LinesAre DEF Line
  <2>4. Has(T, B, c, p) = 0 /\ Has(S, B, c, p) = IF p \in DOMAIN L THEN L[p].quantity ELSE 0
    BY <2>1, <2>2 DEF Has, Buyers
  <2>5. /\ G[p].state = H[p].state
        /\ G[p].quantity = H[p].quantity + (IF p \in DOMAIN L THEN 1 * L[p].quantity ELSE 0)
    BY <2>1, 1 \in Int, MovedType
  <2>6. SoldIn(T, B, p) = SoldIn(S, B, p) + Has(T, B, c, p) - Has(S, B, c, p)
    BY <1>3, <2>1, SoldStep
  <2>7. SoldIn(S, B, p) \in Nat /\ H[p].quantity \in Int
    BY SoldTable DEF Shelf
  <2>8. H[p].quantity + SoldIn(S, B, p) = DeliveredIn(V, p)
    BY <2>5 DEF Balance
  <2> HIDE DEF G, c
  <2>9. CASE p \in DOMAIN L
    BY <2>3, <2>4, <2>5, <2>6, <2>7, <2>8, <2>9
  <2>10. CASE p \notin DOMAIN L
    BY <2>4, <2>5, <2>6, <2>7, <2>8, <2>10
  <2> QED  BY <2>9, <2>10
<1> QED  BY <1>4, <1>5

\* As long as no cart is loose, no two transactions stand for one.
LEMMA SoldOnceNow ==
    ASSUME OneSale, loose = {} PROVE SoldOnce(sale)
<1> SUFFICES ASSUME NEW t \in SaleId, NEW u \in SaleId,
                    sale[t].state = "live", sale[u].state = "live",
                    sale[t].cart = sale[u].cart, sale[t].cart \in Cart
             PROVE  t = u
  BY DEF SoldOnce
<1>1. sale[t].cart \in Cart \ loose
  OBVIOUS
<1> QED  BY <1>1 DEF OneSale, Live

\* The goods of every step.
LEMMA StockStep ==
    ASSUME PosTypes, PosTypes', PosSystemAssumption, PosLinks, InOrder, StockInv,
           [PosNext]_posVars
    PROVE  StockInv'
<1> DEFINE Good == loose' = {} => Balance(sale', basket', shelf', delivery')
<1>1. SUFFICES Good
  BY DEF StockInv
<1>2. /\ sale \in [SaleId -> Record] /\ sale' \in [SaleId -> Record]
      /\ basket \in [Cart -> Basket] /\ basket' \in [Cart -> Basket]
      /\ shelf \in [Product -> Shelf] /\ shelf' \in [Product -> Shelf]
      /\ delivery \in [DeliveryId -> Income] /\ delivery' \in [DeliveryId -> Income]
  BY DEF PosTypes
<1>3. NoCart \notin Cart /\ NoCart \notin Product
  BY DEF PosSystemAssumption
<1>4. loose = {} => Balance(sale, basket, shelf, delivery) /\ SoldOnce(sale)
  BY SoldOnceNow DEF StockInv, PosLinks
\* Neither the shelves nor the carts that were sold move.
<1>5. ASSUME UNCHANGED <<shelf, delivery>>, loose' = {} => loose = {},
             \A c \in Cart : loose' = {} => /\ Bought(sale', c) <=> Bought(sale, c)
                                            /\ \/ basket'[c].lines = basket[c].lines
                                               \/ ~ Bought(sale, c)
      PROVE  Good
  <2> SUFFICES ASSUME loose' = {} PROVE Balance(sale', basket', shelf', delivery')
    OBVIOUS
  <2> SUFFICES ASSUME NEW p \in Product, shelf'[p].state # "deleted"
               PROVE  shelf'[p].quantity + SoldIn(sale', basket', p) = DeliveredIn(delivery', p)
    BY DEF Balance
  <2>1. Buyers(sale', basket', p) = Buyers(sale, basket, p)
    BY <1>5 DEF Buyers
  <2>2. \A c \in Buyers(sale, basket, p) : basket'[c].lines = basket[c].lines
    BY <1>5 DEF Buyers
  <2>3. SoldIn(sale', basket', p) = SoldIn(sale, basket, p)
    BY <2>1, <2>2 DEF SoldIn, LinesSold
  <2> QED  BY <1>4, <1>5, <2>3 DEF Balance
<1> HIDE DEF Good
<1>6. ASSUME NEW c \in Cart, OpenCart(c) \/ EndCart(c) PROVE Good
  <2>1. /\ UNCHANGED <<shelf, delivery, sale, loose>>
        /\ \A d \in Cart : basket'[d].lines = basket[d].lines
    BY <1>2, <1>6 DEF OpenCart, EndCart, books, goods, Basket
  <2> QED  BY <1>5, <2>1
<1>7. ASSUME NEW r \in Request, SaveItems(r) PROVE Good
  <2>1. job[r].cart \in Cart
    BY <1>7, WorkFields DEF SaveItems, PosTypes
  <2>2. /\ UNCHANGED <<shelf, delivery, sale>>
        /\ loose' = IF basket[job[r].cart].life = "completed"
                    THEN loose \cup {job[r].cart} ELSE loose
        /\ \A d \in Cart \ {job[r].cart} : basket'[d] = basket[d]
    BY <1>2, <1>7 DEF SaveItems, books, goods
  <2>3. loose' = {} => loose = {} /\ basket[job[r].cart].life # "completed"
    BY <2>2
  <2>4. loose' = {} => ~ Bought(sale, job[r].cart)
    BY <2>1, <2>3, OpenHasNoSale DEF PosLinks, Bought, Live
  <2> QED  BY <1>5, <2>2, <2>3, <2>4
<1>8. ASSUME NEW c \in Cart, DeleteCart(c) PROVE Good
  <2>1. ASSUME NEW t \in SaleId, sale[t].cart = c PROVE sale[t] \in SaleRow
    BY <1>2, <1>3, <2>1, RecordFields DEF NoSale, GoneSale
  <2>2. \A t \in SaleId : \/ sale'[t] = sale[t] /\ sale[t].cart # c
                          \/ sale[t].cart = c /\ sale'[t].cart = NoCart
    BY <1>8, <2>1 DEF DeleteCart, SaleRow
  <2>3. /\ UNCHANGED <<shelf, delivery>>
        /\ loose' = {} => loose = {} /\ basket[c].life # "completed"
        /\ \A d \in Cart \ {c} : basket'[d] = basket[d]
    BY <1>2, <1>8 DEF DeleteCart, goods
  <2>4. loose' = {} => ~ Bought(sale, c)
    BY <2>3, OpenHasNoSale DEF PosLinks, Bought, Live
  <2>5. ASSUME NEW d \in Cart, loose' = {} PROVE Bought(sale', d) <=> Bought(sale, d)
    BY <1>3, <2>4, <2>2, <2>5 DEF Bought
  <2> QED  BY <1>5, <2>3, <2>4, <2>5
<1>9. ASSUME NEW r \in Request, NEW t \in SaleId, CommitCheckout(r, t) PROVE Good
  <2> DEFINE c == job[r].cart
  <2>1. /\ c \in Cart /\ Fresh(t)
        /\ sale'[t].cart = c /\ sale'[t].state = "live"
        /\ \A u \in SaleId \ {t} : sale'[u] = sale[u]
        /\ basket'[c].lines = basket[c].lines
        /\ \A d \in Cart \ {c} : basket'[d] = basket[d]
        /\ loose' = IF SalesOf(c) # {} THEN loose \cup {c} ELSE loose
        /\ shelf' = Moved(shelf, basket[c].lines, -1)
        /\ UNCHANGED delivery
    BY <1>9, CommitParts
  <2>2. sale[t] = NoSale
    BY <2>1, FreshIsFree
  <2> HIDE DEF c
  <2>3. loose' = {} => loose = {} /\ ~ Bought(sale, c)
    BY <2>1 DEF SalesOf, Sales, Live, Bought
  <2>4. Bought(sale', c) /\ \A d \in Cart \ {c} : Bought(sale', d) <=> Bought(sale, d)
    BY <2>1, <2>2 DEF Bought, NoSale
  <2>5. SUFFICES ASSUME loose' = {} PROVE Balance(sale', basket', shelf', delivery')
    BY DEF Good
  <2>6. Balance(sale, basket, shelf, delivery) /\ ~ Bought(sale, c)
    BY <1>4, <2>3, <2>5
  <2>7. \A d \in Cart \ {c} : /\ Bought(sale', d) <=> Bought(sale, d)
                              /\ basket'[d].lines = basket[d].lines
    BY <2>1, <2>4
  <2>8. Balance(sale', basket', Moved(shelf, basket[c].lines, -1), delivery)
    BY <1>2, <2>1, <2>4, <2>6, <2>7, BalanceSold
  <2> QED  BY <2>1, <2>8
<1>10. ASSUME NEW t \in SaleId, NEW a, NEW c \in Cart \cup {NoCart}, AddOperation(t, a, c)
       PROVE  Good
  <2>1. /\ sale[t] = NoSale /\ sale'[t].cart = c
        /\ \A u \in SaleId \ {t} : sale'[u] = sale[u]
        /\ UNCHANGED <<basket, shelf, delivery>>
        /\ loose' = loose \cup ({c} \ {NoCart})
    BY <1>2, <1>10, FreshIsFree DEF AddOperation, goods
  <2>2. loose' = {} => c = NoCart /\ loose = {}
    BY <2>1
  <2>3. ASSUME NEW d \in Cart, loose' = {} PROVE Bought(sale', d) <=> Bought(sale, d)
    BY <1>3, <2>1, <2>2, <2>3 DEF Bought, NoSale
  <2> QED  BY <1>5, <2>1, <2>2, <2>3
<1>11. ASSUME NEW r \in Request, DeleteOperation(r) PROVE Good
  <2> DEFINE t == job[r].id
             seen == job[r].seen
  <2>1. /\ job[r].stage = "removing" /\ t \in SaleId /\ seen \in SaleRow
        /\ sale'[t] = GoneSale /\ \A u \in SaleId \ {t} : sale'[u] = sale[u]
    BY <1>11, DeleteOperationParts
  <2>2. /\ shelf' = Moved(shelf, LinesOf(seen), 1)
        /\ loose' = IF Live(t) /\ sale[t].cart = seen.cart THEN loose
                    ELSE loose \cup ({seen.cart} \ {NoCart})
        /\ UNCHANGED <<basket, delivery>>
    BY <1>11 DEF DeleteOperation
  <2>3. sale[t] = GoneSale \/ sale[t].cart \in {seen.cart, NoCart}
    BY <2>1 DEF PosLinks, Removing
  <2> HIDE DEF t, seen
  <2>4. LinesOf(seen) = RowLines(seen, basket)
    BY DEF LinesOf, RowLines
  <2>5. CASE Live(t) /\ sale[t].cart = seen.cart
    <3>1. SUFFICES ASSUME loose' = {} PROVE Balance(sale', basket', shelf', delivery')
      BY DEF Good
    <3>2. Balance(sale, basket, shelf, delivery) /\ SoldOnce(sale)
      BY <1>4, <2>2, <2>5, <3>1
    <3>3. sale[t].state = "live" /\ RowLines(sale[t], basket) = RowLines(seen, basket)
      BY <2>5 DEF Live, RowLines
    <3>4. Balance(sale', basket, Moved(shelf, RowLines(sale[t], basket), 1), delivery)
      BY <1>2, <2>1, <3>2, <3>3, BalanceVoided
    <3> QED  BY <2>2, <2>4, <3>3, <3>4
  <2>6. CASE ~ (Live(t) /\ sale[t].cart = seen.cart)
    <3>1. SUFFICES ASSUME loose' = {} PROVE Balance(sale', basket', shelf', delivery')
      BY DEF Good
    <3>2. loose = {} /\ seen.cart = NoCart
      BY <2>2, <2>6, <3>1
    <3>3. LinesOf(seen) = <<>>
      BY <3>2 DEF LinesOf
    <3>4. \A p \in Product : shelf'[p] = shelf[p]
      BY <1>2, <2>2, <3>3, MovedNothing
    <3>5. sale[t].cart = NoCart
      BY <2>3, <3>2 DEF GoneSale
    <3>6. \A d \in Cart : Bought(sale', d) <=> Bought(sale, d)
      BY <1>3, <2>1, <3>5 DEF Bought, GoneSale
    <3>7. Balance(sale, basket, shelf, delivery)
      BY <1>4, <3>2
    <3>8. Balance(sale', basket', shelf', delivery)
      BY <2>2, <3>4, <3>6, <3>7, BalanceSame
    <3> QED  BY <2>2, <3>8
  <2> QED  BY <2>5, <2>6
<1>12. ASSUME NEW t \in SaleId, VoidSale(t) PROVE Good
  <2>1. /\ sale[t].state = "live" /\ sale'[t] = GoneSale
        /\ \A u \in SaleId \ {t} : sale'[u] = sale[u]
        /\ shelf' = Moved(shelf, LinesOf(sale[t]), 1)
        /\ UNCHANGED <<basket, delivery, loose>>
    BY <1>2, <1>12 DEF VoidSale, Live
  <2>2. LinesOf(sale[t]) = RowLines(sale[t], basket)
    BY DEF LinesOf, RowLines
  <2>3. SUFFICES ASSUME loose' = {} PROVE Balance(sale', basket', shelf', delivery')
    BY DEF Good
  <2>4. Balance(sale, basket, shelf, delivery) /\ SoldOnce(sale)
    BY <1>4, <2>1, <2>3
  <2>5. Balance(sale', basket, Moved(shelf, RowLines(sale[t], basket), 1), delivery)
    BY <1>2, <2>1, <2>4, BalanceVoided
  <2> QED  BY <2>1, <2>2, <2>5
<1>13. ASSUME NEW t \in SaleId, NEW u \in SaleId, CloseShift(t, u) PROVE Good
  <2>1. t # u /\ sale[t] = NoSale /\ sale[u] = NoSale
    BY <1>13, ClosingIds
  <2>2. /\ sale'[t].cart = NoCart /\ sale'[u].cart = NoCart
        /\ \A v \in SaleId \ {t, u} : sale'[v] = sale[v]
        /\ UNCHANGED <<basket, shelf, delivery, loose>>
    BY <1>2, <1>13, <2>1 DEF CloseShift, goods
  <2>3. \A d \in Cart : Bought(sale', d) <=> Bought(sale, d)
    BY <1>3, <2>1, <2>2 DEF Bought, NoSale
  <2> QED  BY <1>5, <2>2, <2>3
<1>14. ASSUME NEW t \in SaleId, NEW u \in SaleId, ReopenShift(t, u) PROVE Good
  <2>1. /\ t # u /\ sale[t].state = "live" /\ sale[u].state = "live"
        /\ sale'[t] = GoneSale /\ sale'[u] = GoneSale
        /\ \A v \in SaleId \ {t, u} : sale'[v] = sale[v]
    BY <1>14, ReopenParts DEF Live
  <2>2. /\ shelf' = Moved(Moved(shelf, LinesOf(sale[t]), 1), LinesOf(sale[u]), 1)
        /\ UNCHANGED <<basket, delivery, loose>>
    BY <1>14 DEF ReopenShift
  <2>3. /\ LinesOf(sale[t]) = RowLines(sale[t], basket)
        /\ LinesOf(sale[u]) = RowLines(sale[u], basket)
    BY DEF LinesOf, RowLines
  <2> DEFINE S == [sale EXCEPT ![t] = GoneSale]
             H == Moved(shelf, RowLines(sale[t], basket), 1)
  <2>4. /\ S \in [SaleId -> Record] /\ S[t] = GoneSale /\ S[u] = sale[u]
        /\ \A v \in SaleId \ {t} : S[v] = sale[v]
    BY <1>2, <2>1 DEF Record
  <2>5. H \in [Product -> Shelf]
    BY <1>2, <2>3, LinesOfType, MovedType, 1 \in Int
  <2> HIDE DEF S, H
  <2>6. SUFFICES ASSUME loose' = {} PROVE Balance(sale', basket', shelf', delivery')
    BY DEF Good
  <2>7. Balance(sale, basket, shelf, delivery) /\ SoldOnce(sale)
    BY <1>4, <2>2, <2>6
  <2>8. Balance(S, basket, H, delivery) /\ SoldOnce(S)
    BY <1>2, <2>1, <2>4, <2>7, BalanceVoided DEF H
  <2>9. \A v \in SaleId \ {u} : sale'[v] = S[v]
    BY <2>1, <2>4
  <2>10. Balance(sale', basket, Moved(H, RowLines(S[u], basket), 1), delivery)
    BY <1>2, <2>1, <2>4, <2>5, <2>8, <2>9, BalanceVoided
  <2> QED  BY <2>2, <2>3, <2>4, <2>10 DEF H
<1>15. ASSUME NEW i \in DeliveryId, NEW p \in Product, NEW q \in Quantity, NEW s, NEW k,
              AddIncome(i, p, q, s, k)
       PROVE  Good
  <2>1. q \in Nat
    BY DEF PosSystemAssumption
  <2>2. /\ delivery[i] = NoDelivery /\ delivery'[i] = [product |-> p, quantity |-> q]
        /\ \A j \in DeliveryId \ {i} : delivery'[j] = delivery[j]
        /\ shelf[p].state # "deleted" /\ shelf'[p].quantity = shelf[p].quantity + q
        /\ \A x \in Product \ {p} : shelf'[x] = shelf[x]
        /\ UNCHANGED <<basket, sale, loose>>
    BY <1>2, <1>15 DEF AddIncome, books, Shelf
  <2>3. SUFFICES ASSUME loose' = {} PROVE Balance(sale', basket', shelf', delivery')
    BY DEF Good
  <2>4. Balance(sale, basket, shelf, delivery)
    BY <1>4, <2>2, <2>3
  <2> SUFFICES ASSUME NEW x \in Product, shelf'[x].state # "deleted"
               PROVE  shelf'[x].quantity + SoldIn(sale, basket, x) = DeliveredIn(delivery', x)
    BY <2>2 DEF Balance
  <2>5. DeliveredIn(delivery', x)
          = DeliveredIn(delivery, x) + Brought(delivery', i, x) - Brought(delivery, i, x)
    BY <1>2, <2>2, DeliveredStep
  <2>6. Brought(delivery, i, x) = 0 /\ Brought(delivery', i, x) = IF x = p THEN q ELSE 0
    BY <1>3, <2>2 DEF Brought, NoDelivery
  <2>7. shelf[x].quantity + SoldIn(sale, basket, x) = DeliveredIn(delivery, x)
    BY <2>2, <2>4 DEF Balance
  <2>8. SoldIn(sale, basket, x) \in Nat /\ shelf[x].quantity \in Int
    BY <1>2, SoldTable DEF Shelf
  <2>9. DeliveredIn(delivery, x) \in Nat
    BY <1>2, DeliveredTable
  <2>10. CASE x = p
    BY <2>1, <2>2, <2>5, <2>6, <2>7, <2>8, <2>9, <2>10
  <2>11. CASE x # p
    BY <2>1, <2>2, <2>5, <2>6, <2>7, <2>8, <2>9, <2>11
  <2> QED  BY <2>10, <2>11
<1>16. ASSUME NEW p \in Product, DeleteProduct(p) PROVE Good
  <2>1. /\ shelf'[p].state = "deleted" /\ \A x \in Product \ {p} : shelf'[x] = shelf[x]
        /\ \A i \in DeliveryId :
              IF delivery[i].product = p THEN delivery'[i].product = NoCart
              ELSE delivery'[i] = delivery[i]
        /\ UNCHANGED <<basket, sale, loose>>
    BY <1>2, <1>16 DEF DeleteProduct, books, EmptyShelf, Income
  <2>2. SUFFICES ASSUME loose' = {} PROVE Balance(sale', basket', shelf', delivery')
    BY DEF Good
  <2>3. Balance(sale, basket, shelf, delivery)
    BY <1>4, <2>1, <2>2
  <2> SUFFICES ASSUME NEW x \in Product, shelf'[x].state # "deleted"
               PROVE  shelf'[x].quantity + SoldIn(sale, basket, x) = DeliveredIn(delivery', x)
    BY <2>1 DEF Balance
  <2>4. x # p /\ shelf'[x] = shelf[x]
    BY <2>1
  <2>5. IncomesOf(delivery', x) = IncomesOf(delivery, x)
    BY <1>3, <2>1, <2>4 DEF IncomesOf
  <2>6. \A i \in IncomesOf(delivery, x) : delivery'[i].quantity = delivery[i].quantity
    BY <2>1, <2>4 DEF IncomesOf
  <2>7. DeliveredIn(delivery', x) = DeliveredIn(delivery, x)
    BY <2>5, <2>6 DEF DeliveredIn
  <2> QED  BY <2>3, <2>4, <2>7 DEF Balance
\* Nor do the goods of steps that leave the carts and the books as they are.
<1>17. ASSUME UNCHANGED <<basket, sale, shelf, delivery, loose>> PROVE Good
  BY <1>5, <1>17
<1>23. ASSUME NEW t \in SaleId, NEW a \in Int, Live(t), Amend(t, a) PROVE Good
  <2>1. /\ sale'[t].state = "live" /\ sale'[t].cart = sale[t].cart
        /\ \A u \in SaleId \ {t} : sale'[u] = sale[u]
        /\ UNCHANGED <<basket, shelf, delivery, loose>>
    BY <1>23, AmendParts DEF goods
  <2>2. \A c \in Cart : Bought(sale', c) <=> Bought(sale, c)
    BY <1>23, <2>1 DEF Bought, Live
  <2> QED  BY <1>5, <2>1, <2>2
<1>24. ASSUME NEW r \in Request, UpdateOperation(r) PROVE Good
  <2>1. job[r].id \in SaleId /\ job[r].amount \in Int
    BY <1>24, WorkFields DEF UpdateOperation, PosTypes
  <2> QED  BY <1>17, <1>23, <1>24, <2>1 DEF UpdateOperation, goods
<1>25. ASSUME NEW t \in SaleId, NEW a \in Amended, UpdateTransaction(t, a) PROVE Good
  BY <1>23, <1>25 DEF UpdateTransaction, PosSystemAssumption
\* The other steps move requests only.
<1>18. ASSUME NEW c \in Cart, NEW r \in Request, NEW p \in Product, NEW q,
              BeginAddItem(r, c, p, q) \/ BeginRemoveItem(r, c, p)
       PROVE  UNCHANGED <<basket, sale, shelf, delivery, loose>>
  BY <1>18 DEF BeginAddItem, BeginRemoveItem, books, goods
<1>19. ASSUME NEW r \in Request, NEW c, NEW t,
              BeginCheckout(r, c) \/ BeginDeleteOperation(r, t)
       PROVE  UNCHANGED <<basket, sale, shelf, delivery, loose>>
  BY <1>19 DEF BeginCheckout, BeginDeleteOperation, books, goods
<1>20. ASSUME NEW r \in Request, GiveUpJob(r)
       PROVE  UNCHANGED <<basket, sale, shelf, delivery, loose>>
  BY <1>20 DEF GiveUpJob, books, goods
<1>26. ASSUME NEW r \in Request, NEW t, NEW a, BeginUpdateOperation(r, t, a)
       PROVE  UNCHANGED <<basket, sale, shelf, delivery, loose>>
  BY <1>26 DEF BeginUpdateOperation, books, goods
<1>21. CASE UNCHANGED posVars
  BY <1>17, <1>21 DEF posVars
<1>22. CASE PosNext
  BY <1>6, <1>7, <1>8, <1>9, <1>10, <1>11, <1>12, <1>13, <1>14, <1>15, <1>16, <1>17, <1>18,
     <1>19, <1>20, <1>22, <1>24, <1>25, <1>26 DEF PosNext, PosStep
<1> QED  BY <1>21, <1>22

-----------------------------------------------------------------------------
(* The theorems.                                                           *)

PosInv ==
    /\ PosTypes
    /\ PosLinks
    /\ InOrder
    /\ TillMatchesSales
    /\ StockInv

\* PosSystem starts well.
LEMMA InvInit == ASSUME PosSystemAssumption, PosInit PROVE PosInv
<1>1. Word \in Nat \ {0, 1} /\ 0 \in LineTotal
  BY DEF PosSystemAssumption, LineTotal
<1>2. PosTypes
  <2>1. basket \in [Cart -> Basket]
    BY <1>1, NoLines DEF PosInit, Basket
  <2>2. sale \in [SaleId -> Record]
    BY DEF PosInit, Record
  <2>3. shelf \in [Product -> Shelf]
    BY DEF PosInit, Shelf, EmptyShelf
  <2>4. delivery \in [DeliveryId -> Income]
    BY DEF PosInit, Income, NoDelivery
  <2>5. job \in [Request -> Work \cup {Idle}]
    BY DEF PosInit
  <2>6. shift \in [open: BOOLEAN, total: Int, closing: Nat]
    BY DEF PosInit
  <2>7. till \in Int /\ owed \in Nat /\ loose \in SUBSET Cart
    BY DEF PosInit
  <2>8. rewritten \in SUBSET SaleId /\ adrift \in Int
    BY DEF PosInit
  <2> QED  BY <2>1, <2>2, <2>3, <2>4, <2>5, <2>6, <2>7, <2>8 DEF PosTypes
<1>3. ShownTotal(<<>>) = 0
  <2> DEFINE f == [p \in DOMAIN <<>> |->
                     RoundLineTotal(<<>>[p].quantity, [x \in DOMAIN <<>> |-> <<>>[x].unit][p])]
  <2>1. DOMAIN f = {}
    BY NoLines
  <2>2. IsTable(f)
    BY <2>1, FS_EmptySet DEF IsTable
  <2>3. CoinSum(f) = 0
    BY <2>1, <2>2, NoCoins
  <2>4. 0 % Word = 0
    BY <1>1
  <2> QED  BY <2>3, <2>4 DEF ShownTotal, LineTotals
<1>4. PosLinks
  <2>1. Charging
    BY DEF PosInit, Charging, Idle
  <2>2. Removing
    BY DEF PosInit, Removing, Idle
  <2>3. Shown
    BY <1>3 DEF PosInit, Shown
  <2>4. OneSale
    BY DEF PosInit, OneSale, Live, NoSale
  <2> QED  BY <2>1, <2>2, <2>3, <2>4 DEF PosLinks
<1>5. InOrder
  BY DEF PosInit, InOrder
<1>6. TillMatchesSales
  <2> DEFINE f == [t \in LiveIn(sale) |-> sale[t].amount]
  <2>1. DOMAIN f = {}
    BY DEF PosInit, LiveIn, NoSale
  <2>2. IsTable(f)
    BY <2>1, FS_EmptySet DEF IsTable
  <2>4. IsTable(Lacking(f)) /\ DOMAIN Lacking(f) = {}
    BY <2>1, <2>2, NetParts
  <2>5. CoinSum(f) = 0
    BY <2>1, <2>2, NoCoins
  <2>6. CoinSum(Lacking(f)) = 0
    BY <2>4, NoCoins
  <2>7. NetSum(f) = CoinSum(f) - CoinSum(Lacking(f))
    BY <2>2, NetParts
  <2>3. Takings(sale) = 0
    BY <2>5, <2>6, <2>7 DEF Takings
  <2> QED  BY <2>3, SumsAre DEF PosInit
<1>7. StockInv
  <2> SUFFICES ASSUME NEW p \in Product
               PROVE  shelf[p].quantity + SoldIn(sale, basket, p) = DeliveredIn(delivery, p)
    BY DEF StockInv, Balance
  <2> DEFINE f == LinesSold(sale, basket, p)
             g == [i \in IncomesOf(delivery, p) |-> delivery[i].quantity]
  <2>1. DOMAIN f = {}
    BY DEF PosInit, LinesSold, Buyers, Bought, NoSale
  <2>2. DOMAIN g = {}
    BY DEF PosInit, IncomesOf, NoDelivery, PosSystemAssumption
  <2>3. IsTable(f)
    BY <1>2, SoldTable DEF PosTypes
  <2>4. IsTable(g)
    BY <2>2, FS_EmptySet DEF IsTable
  <2>5. SoldIn(sale, basket, p) = 0
    BY <2>1, <2>3, NoCoins DEF SoldIn
  <2>6. DeliveredIn(delivery, p) = 0
    BY <2>2, <2>4, NoCoins DEF DeliveredIn
  <2> QED  BY <2>5, <2>6 DEF PosInit, EmptyShelf
<1> QED  BY <1>2, <1>4, <1>5, <1>6, <1>7 DEF PosInv

\* Every step keeps the types and the links.
LEMMA TypesAndLinksStep ==
    ASSUME PosSystemAssumption, PosTypes, PosLinks, InOrder, [PosNext]_posVars
    PROVE  PosTypes' /\ PosLinks'
<1>1. ASSUME NEW c \in Cart, OpenCart(c) \/ DeleteCart(c) \/ EndCart(c)
      PROVE  PosTypes' /\ PosLinks'
  BY <1>1, OpenCartType, DeleteCartType, EndCartType, OpenEndCartLinks, DeleteCartLinks
<1>2. ASSUME NEW r \in Request, NEW c \in Cart, NEW p \in Product, NEW q \in Quantity,
             BeginAddItem(r, c, p, q)
      PROVE  PosTypes' /\ PosLinks'
  <2>1. PosTypes'
    BY <1>2, BeginAddItemType
  <2>2. PICK w : w.stage = "editing" /\ job' = [job EXCEPT ![r] = w]
    BY <1>2 DEF BeginAddItem
  <2>3. UNCHANGED <<basket, sale, loose, rewritten>>
    BY <1>2 DEF BeginAddItem, books, amends
  <2> QED  BY <2>1, <2>2, <2>3, BegunLinks
<1>3. ASSUME NEW r \in Request, NEW c \in Cart, NEW p \in Product, BeginRemoveItem(r, c, p)
      PROVE  PosTypes' /\ PosLinks'
  <2>1. PosTypes'
    BY <1>3, BeginRemoveItemType
  <2>2. PICK w : w.stage = "editing" /\ job' = [job EXCEPT ![r] = w]
    BY <1>3 DEF BeginRemoveItem
  <2>3. UNCHANGED <<basket, sale, loose, rewritten>>
    BY <1>3 DEF BeginRemoveItem, books, amends
  <2> QED  BY <2>1, <2>2, <2>3, BegunLinks
<1>4. ASSUME NEW r \in Request, NEW c \in Cart, BeginCheckout(r, c)
      PROVE  PosTypes' /\ PosLinks'
  BY <1>4, BeginCheckoutType, BeginCheckoutLinks
<1>5. ASSUME NEW r \in Request, NEW t \in SaleId, BeginDeleteOperation(r, t)
      PROVE  PosTypes' /\ PosLinks'
  BY <1>5, BeginDeleteOperationType, BeginDeleteOperationLinks
<1>6. ASSUME NEW r \in Request, SaveItems(r) \/ DeleteOperation(r) \/ GiveUpJob(r)
      PROVE  PosTypes' /\ PosLinks'
  BY <1>6, SaveItemsType, SaveItemsLinks, DeleteOperationType, DeleteOperationLinks,
     GiveUpJobType, GiveUpJobLinks
<1>7. ASSUME NEW r \in Request, NEW t \in SaleId, CommitCheckout(r, t)
      PROVE  PosTypes' /\ PosLinks'
  BY <1>7, CommitCheckoutType, CommitCheckoutLinks
<1>8. ASSUME NEW t \in SaleId, NEW a \in Manual, NEW c \in Cart \cup {NoCart},
             AddOperation(t, a, c)
      PROVE  PosTypes' /\ PosLinks'
  BY <1>8, AddOperationType, AddOperationLinks
<1>9. ASSUME NEW t \in SaleId, VoidSale(t) PROVE PosTypes' /\ PosLinks'
  BY <1>9, VoidSaleType, VoidSaleLinks
<1>10. ASSUME NEW t \in SaleId, NEW u \in SaleId, CloseShift(t, u) \/ ReopenShift(t, u)
       PROVE  PosTypes' /\ PosLinks'
  BY <1>10, CloseShiftType, CloseShiftLinks, ReopenShiftType, ReopenShiftLinks
<1>11. ASSUME NEW i \in DeliveryId, NEW p \in Product, NEW q \in Quantity, NEW s \in Price,
              NEW k \in Cost, AddIncome(i, p, q, s, k)
       PROVE  PosTypes' /\ PosLinks'
  <2>1. UNCHANGED <<basket, job, sale, loose, rewritten>>
    BY <1>11 DEF AddIncome, books, amends
  <2> QED  BY <1>11, <2>1, AddIncomeType, GoodsLinks
<1>12. ASSUME NEW p \in Product, DeleteProduct(p) PROVE PosTypes' /\ PosLinks'
  <2>1. UNCHANGED <<basket, job, sale, loose, rewritten>>
    BY <1>12 DEF DeleteProduct, books, amends
  <2> QED  BY <1>12, <2>1, DeleteProductType, GoodsLinks
<1>15. ASSUME NEW r \in Request, NEW t \in SaleId, NEW a \in Amended,
              BeginUpdateOperation(r, t, a)
       PROVE  PosTypes' /\ PosLinks'
  <2>1. PosTypes'
    BY <1>15, BeginUpdateOperationType
  <2>2. PICK w : w.stage = "rewriting" /\ job' = [job EXCEPT ![r] = w]
    BY <1>15 DEF BeginUpdateOperation
  <2>3. UNCHANGED <<basket, sale, loose, rewritten>>
    BY <1>15 DEF BeginUpdateOperation, books, amends
  <2> QED  BY <2>1, <2>2, <2>3, BegunLinks
<1>16. ASSUME NEW r \in Request, UpdateOperation(r) PROVE PosTypes' /\ PosLinks'
  BY <1>16, UpdateOperationType, UpdateOperationLinks
<1>17. ASSUME NEW t \in SaleId, NEW a \in Amended, UpdateTransaction(t, a)
       PROVE  PosTypes' /\ PosLinks'
  BY <1>17, UpdateTransactionType, UpdateTransactionLinks
<1>13. CASE UNCHANGED posVars
  <2>1. UNCHANGED <<basket, job, sale, loose, rewritten>>
    BY <1>13 DEF posVars
  <2>2. PosTypes'
    BY <1>13 DEF PosTypes, posVars
  <2> QED  BY <2>1, <2>2, GoodsLinks
<1>14. CASE PosNext
  BY <1>1, <1>2, <1>3, <1>4, <1>5, <1>6, <1>7, <1>8, <1>9, <1>10, <1>11, <1>12, <1>14,
     <1>15, <1>16, <1>17 DEF PosNext, PosStep
<1> QED  BY <1>13, <1>14

\* Every step keeps the invariant.
LEMMA InvStep == ASSUME PosSystemAssumption, PosInv, [PosNext]_posVars PROVE PosInv'
<1>1. PosTypes' /\ PosLinks'
  BY TypesAndLinksStep DEF PosInv
<1>2. InOrder'
  BY InOrderStep DEF PosInv, PosLinks
<1>3. TillMatchesSales'
  BY <1>1, TillStep DEF PosInv
<1>4. StockInv'
  BY <1>1, StockStep DEF PosInv
<1> QED  BY <1>1, <1>2, <1>3, <1>4 DEF PosInv

\* Carts, requests, till and stock agree in every state: the inductive invariant.
THEOREM PosIsConsistent == PosSpec => []PosInv
<1>1. PosInit => PosInv
  BY InvInit, PosSystemAssumption
<1>2. PosInv /\ [PosNext]_posVars => PosInv'
  BY InvStep, PosSystemAssumption
<1> QED  BY <1>1, <1>2, PTL DEF PosSpec

\* The state of PosSystem keeps its types: the header of a cart fits its column.
THEOREM PosTypeCorrect == PosSpec => []PosTypeOK
<1>1. PosInv => PosTypeOK
  <2> SUFFICES ASSUME PosTypes PROVE PosTypeOK
    BY DEF PosInv
  <2>1. ASSUME NEW c \in Cart
        PROVE  /\ basket[c].life \in {"absent", "open", "completed", "ended", "deleted"}
               /\ DOMAIN basket[c].lines \subseteq Product
               /\ \A p \in DOMAIN basket[c].lines : basket[c].lines[p] \in Line
               /\ basket[c].subtotal \in 0..(Word - 1)
    BY LinesAre DEF PosTypes, Basket, LineTotal
  <2>2. ASSUME NEW p \in Product
        PROVE  /\ shelf[p].state \in {"none", "stocked", "deleted"}
               /\ shelf[p].quantity \in Int
               /\ shelf[p].price \in Nat
    BY DEF PosTypes, Shelf
  <2> QED  BY <2>1, <2>2 DEF PosTypes, PosTypeOK, Record
<1> QED  BY <1>1, PosIsConsistent, PTL

\* Money is conserved: through checkouts, operations, voids, closings and
\* reopenings the till holds the amounts of the transactions that stand, but for what
\* deleting an operation and rewriting an amount leave behind, to the unit.
THEOREM TillIsItsSales == PosSpec => []TillMatchesSales
<1>1. PosInv => TillMatchesSales
  BY DEF PosInv
<1> QED  BY <1>1, PosIsConsistent, PTL

\* Goods are conserved: what came in is on the shelf or in a cart whose sale stands.
THEOREM GoodsAreConserved == PosSpec => []StockMatchesBooks
<1>1. PosInv => StockMatchesBooks
  BY SumsAre DEF PosInv, StockInv, Balance, StockMatchesBooks, HasStock
<1> QED  BY <1>1, PosIsConsistent, PTL

\* Who opens a sale finds the cart that was charged, with what was charged.
THEOREM ChargedCartIsTheSale == PosSpec => []SubtotalIsTheSale
<1>1. ASSUME PosSystemAssumption, PosTypes, OneSale PROVE SubtotalIsTheSale
  <2> SUFFICES ASSUME NEW t \in Sales, sale[t].cart \notin loose
               PROVE  \/ GetDetails(t) = NoDetails /\ ItemCount(t) = 0
                      \/ /\ GetDetails(t).life = "completed"
                         /\ t \in rewritten \/ GetDetails(t).subtotal = sale[t].amount
                         /\ GetDetails(t).itemCount = ItemCount(t) /\ GetDetails(t).itemCount > 0
    BY DEF SubtotalIsTheSale
  <2>1. t \in SaleId /\ Live(t) /\ sale[t].cart \in Cart \cup {NoCart}
    BY <1>1, RecordFields DEF Sales, PosTypes
  <2>2. CASE sale[t].cart = NoCart
    <3>1. LinesOf(sale[t]) = <<>>
      BY <2>2 DEF LinesOf
    <3>2. ItemCount(t) = 0
      BY <3>1, NoLines, FS_EmptySet DEF ItemCount
    <3> QED  BY <2>2, <3>2 DEF GetDetails
  <2>3. CASE sale[t].cart # NoCart
    <3> DEFINE L == basket[sale[t].cart].lines
    <3>1. /\ basket[sale[t].cart].life = "completed" /\ DOMAIN L # {}
          /\ t \in rewritten \/ basket[sale[t].cart].subtotal = sale[t].amount
      BY <1>1, <2>1, <2>3 DEF OneSale
    <3>2. LinesOf(sale[t]) = L
      BY <2>3 DEF LinesOf
    <3>3. L \in Lines
      BY <1>1, <2>1, <2>3 DEF PosTypes, Basket
    <3> HIDE DEF L
    <3>4. DOMAIN L \subseteq Product
      BY <3>3, LinesAre
    <3>5. IsFiniteSet(DOMAIN L)
      BY <1>1, <3>4, FS_Subset DEF PosSystemAssumption
    <3>6. Cardinality(DOMAIN L) \in Nat /\ Cardinality(DOMAIN L) # 0
      BY <3>1, <3>5, FS_CardinalityType, FS_EmptySet
    <3>7. /\ GetDetails(t).life = "completed"
          /\ t \in rewritten \/ GetDetails(t).subtotal = sale[t].amount
          /\ GetDetails(t).itemCount = Cardinality(DOMAIN L)
      BY <2>3, <3>1 DEF GetDetails, L
    <3> QED  BY <3>2, <3>6, <3>7 DEF ItemCount
  <2> QED  BY <2>1, <2>2, <2>3
<1>2. PosInv => SubtotalIsTheSale
  BY <1>1, PosSystemAssumption DEF PosInv, PosLinks
<1> QED  BY <1>2, PosIsConsistent, PTL

\* A charge never disagrees with what the cart showed, unless a price has moved.
THEOREM ChargesAreShown == PosSpec => ChargedAsShown
<1> DEFINE Agrees ==
        \A r \in Request :
          job[r].stage = "charging" /\ job'[r] = Idle
          /\ basket'[job[r].cart].life = "completed"
          => LET cart == basket[job[r].cart] IN
             \/ job[r].total = cart.subtotal
             \/ \E p \in DOMAIN cart.lines : cart.lines[p].unit # job[r].prices[p]
<1>1. PosInv => Agrees
  <2> SUFFICES ASSUME PosTypes, Charging, Shown, NEW r \in Request,
                      job[r].stage = "charging",
                      \A p \in DOMAIN basket[job[r].cart].lines :
                         basket[job[r].cart].lines[p].unit = job[r].prices[p]
               PROVE  job[r].total = basket[job[r].cart].subtotal
    BY DEF PosInv, PosLinks
  <2> DEFINE L == basket[job[r].cart].lines
  <2>1. job[r].cart \in Cart /\ job[r].prices \in PriceTables
    BY WorkFields DEF PosTypes
  <2>2. /\ basket[job[r].cart].life = "open" /\ DOMAIN job[r].prices = DOMAIN L
        /\ job[r].total = LineTotals(L, job[r].prices)
    BY DEF Charging
  <2>3. basket[job[r].cart].subtotal = ShownTotal(L)
    BY <2>1, <2>2 DEF Shown, Uncharged
  <2>4. job[r].prices = [p \in DOMAIN L |-> job[r].prices[p]]
    BY <2>1, <2>2 DEF PriceTables
  <2>5. job[r].prices = [p \in DOMAIN L |-> L[p].unit]
    BY <2>4
  <2> QED  BY <2>2, <2>3, <2>5 DEF ShownTotal
<1>2. PosInv => [Agrees]_posVars
  BY <1>1
<1>3. PosSpec => [][Agrees]_posVars
  BY <1>2, PosIsConsistent, PTL
<1> QED  BY <1>3 DEF ChargedAsShown
=============================================================================
