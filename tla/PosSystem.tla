----------------------------- MODULE PosSystem -----------------------------
(***************************************************************************)
(* Carts, a shift, the till and the stock together: what a sale moves when *)
(* it is charged, what a void puts back, and what the goods that came in   *)
(* (pkg/repository/products, AddIncome) are worth.  It composes what       *)
(* SaleCart and JournalLedger model apart, through pkg/repository/         *)
(* inventory, and adds the prices.                                         *)
(*                                                                         *)
(* Abstractions.  Of the cart's states only those matter in which items    *)
(* may be edited, or a sale charged, or neither: SaleCart owns the rest,   *)
(* and who may do it.  One branch, with one shift; its balances are one    *)
(* till.  The races of a shift's own total are JournalLedger's: a close    *)
(* and a reopening are one step here.  A quantity counts the smallest part *)
(* of a unit (numeric(12,3)), Scale to the unit.  A line is identified by  *)
(* its product.  Stock, income history and lines of a product that is      *)
(* deleted go with it (lines keep their copy).                             *)
(***************************************************************************)
EXTENDS Handlers, FiniteSets, CoinSums

CONSTANTS
    Cart, NoCart,           \* carts, and SQL NULL in cart_id
    Product, Quantity,      \* products, and the quantities bought and sold
    Price,                  \* selling prices
    Cost,                   \* purchase prices; 0 in the incomes without supplier
    Manual,                 \* amounts of sales keyed in without a cart
    Amended,                \* amounts that a transaction is rewritten to
    CloseCash, CloseTerminal,   \* what closings report
    Scale, Word,            \* parts of a unit; 2^32
    MaxLine,                \* bounds: the quantity of a line,
    MaxSale, MaxDelivery    \* and the transactions and deliveries recorded

ASSUME PosSystemAssumption ==
    /\ IsFiniteSet(Cart) /\ IsFiniteSet(Product)
    /\ NoCart \notin Cart \cup Product
    /\ Quantity \subseteq Nat \ {0} /\ Price \subseteq Nat /\ Cost \subseteq Nat
    /\ Manual \subseteq Nat /\ Amended \subseteq Int
    /\ CloseCash \in Nat /\ CloseTerminal \in Nat
    /\ Scale \in Nat \ {0} /\ Word \in Nat \ {0, 1}
    /\ MaxLine \in Nat /\ MaxSale \in Nat /\ MaxDelivery \in Nat

VARIABLES
    basket,     \* sale_carts with sale_cart_items
    shift,      \* the journal
    sale,       \* transactions of the branch, by id
    till,       \* its balances
    shelf,      \* product_stock: is there a row, its quantity and its price
    delivery,   \* product_income_history
    owed,       \* what the suppliers' debits add up to
    job,        \* requests in flight
    loose,      \* history: carts whose lines no longer are what was sold, or
                \* that more than one transaction names
    rewritten,  \* history: transactions whose amount was rewritten
    adrift      \* history: what the till has more than the transactions, from those
                \* that were removed as operations and those that were rewritten

posVars == <<basket, shift, sale, till, shelf, delivery, owed, job, loose, rewritten,
             adrift>>

-----------------------------------------------------------------------------
(* Prices.                                                                 *)

\* quantity * price to the nearest whole, halves up.
RoundLineTotal(q, price) ==
    IF q <= 0 \/ price = 0 THEN 0
    ELSE ((2 * q * price + Scale) \div (2 * Scale)) % Word

\* A sum of line totals, in uint32 (mutant: it is rounded once, at the end).
SumThenRound(lines, priceOf) ==
    LET parts == CoinSum([p \in DOMAIN lines |-> lines[p].quantity * priceOf[p]])
    IN  ((2 * parts + Scale) \div (2 * Scale)) % Word
LineTotals(lines, priceOf) ==
    CoinSum([p \in DOMAIN lines |-> RoundLineTotal(lines[p].quantity, priceOf[p])])
        % Word

\* saveItems' subtotal, at the prices the lines were added at.
ShownTotal(lines) == LineTotals(lines, [p \in DOMAIN lines |-> lines[p].unit])

\* repriceTotal, at the prices of the stock.
RepriceTotal(lines, prices) == LineTotals(lines, prices)

-----------------------------------------------------------------------------

SaleId == 1..MaxSale
DeliveryId == 1..MaxDelivery

NoSale == [cart |-> NoCart, amount |-> 0, state |-> "none"]
GoneSale == [cart |-> NoCart, amount |-> 0, state |-> "gone"]
NoDelivery == [product |-> NoCart, quantity |-> 0]
EmptyShelf == [state |-> "none", quantity |-> 0, price |-> 0]

HasStock(p) == shelf[p].state = "stocked"
Stocked(lines) == \A p \in DOMAIN lines : HasStock(p)

Live(t) == sale[t].state = "live"
Sales == { t \in SaleId : Live(t) }
SalesOf(c) == { t \in Sales : sale[t].cart = c }
Fresh(t) == sale[t] = NoSale /\ \A u \in SaleId : sale[u] = NoSale => t <= u

Line == [quantity: Nat, unit: Nat]
Lines == UNION { [P -> Line] : P \in SUBSET Product }

SaleRow == [cart: Cart \cup {NoCart}, amount: Int, state: {"live"}]

Work ==
    [stage: {"editing"}, cart: Cart, lines: Lines]
    \cup [stage: {"charging"}, cart: Cart, total: Nat,
          prices: UNION { [P -> Nat] : P \in SUBSET Product }]
    \cup [stage: {"removing"}, id: SaleId, seen: SaleRow]
    \cup [stage: {"rewriting"}, id: SaleId, seen: SaleRow, amount: Nat]

\* Lines and Work are infinite: TLC tests membership piecewise.
PosTypeOK ==
    /\ \A c \in Cart :
          /\ basket[c].life \in {"absent", "open", "completed", "ended", "deleted"}
          /\ DOMAIN basket[c].lines \subseteq Product
          /\ \A p \in DOMAIN basket[c].lines : basket[c].lines[p] \in Line
          /\ basket[c].subtotal \in 0..(Word - 1)
    /\ shift \in [open: BOOLEAN, total: Int, closing: Nat]
    /\ \A t \in SaleId : sale[t] \in SaleRow \cup {NoSale, GoneSale}
    /\ till \in Int
    /\ \A p \in Product :
          /\ shelf[p].state \in {"none", "stocked", "deleted"}
          /\ shelf[p].quantity \in Int
          /\ shelf[p].price \in Nat
    /\ owed \in Nat
    /\ loose \subseteq Cart
    /\ rewritten \subseteq SaleId
    /\ adrift \in Int

PosInit ==
    /\ basket = [c \in Cart |-> [life |-> "absent", lines |-> <<>>, subtotal |-> 0]]
    /\ shift = [open |-> TRUE, total |-> 0, closing |-> 0]
    /\ sale = [t \in SaleId |-> NoSale]
    /\ till = 0
    /\ shelf = [p \in Product |-> EmptyShelf]
    /\ delivery = [i \in DeliveryId |-> NoDelivery]
    /\ owed = 0
    /\ job = [r \in Request |-> Idle]
    /\ loose = {}
    /\ rewritten = {}
    /\ adrift = 0

\* Totals and amounts are unsigned in Go: a negative one cannot be loaded, and the
\* middlewares load the shift with its operations.
ShiftReadable == shift.total >= 0 /\ \A t \in Sales : sale[t].amount >= 0

\* A checkout that has read the header holds its row lock.
Locked(c) == \E r \in Request : job[r].stage = "charging" /\ job[r].cart = c

books == <<shift, sale, till>>
amends == <<rewritten, adrift>>
goods == <<shelf, delivery, owed>>

GiveUpJob(r) ==
    /\ job[r] # Idle
    /\ job' = Answered(job, r)
    /\ UNCHANGED <<basket, books, goods, loose, amends>>

-----------------------------------------------------------------------------
(* The cart.                                                               *)

OpenCart(c) ==
    /\ basket[c].life = "absent"
    /\ basket' = [basket EXCEPT ![c].life = "open"]
    /\ UNCHANGED <<books, goods, job, loose, amends>>

\* addItem and updateItem: on the lines as loaded; a line keeps the price at
\* which its product was added, a new one takes the price of the stock.
BeginAddItem(r, c, p, q) ==
    LET old == basket[c].lines
        line == IF p \in DOMAIN old
                THEN [old[p] EXCEPT !.quantity = @ + q]
                ELSE [quantity |-> q, unit |-> shelf[p].price]
    IN
    /\ job[r] = Idle
    /\ basket[c].life = "open"
    /\ p \in DOMAIN old \/ HasStock(p)
    /\ line.quantity <= MaxLine
    /\ job' = [job EXCEPT ![r] =
                 [stage |-> "editing", cart |-> c,
                  lines |-> [x \in DOMAIN old \cup {p} |->
                                IF x = p THEN line ELSE old[x]]]]
    /\ UNCHANGED <<basket, books, goods, loose, amends>>

\* removeItem, and updateItem to nothing.
BeginRemoveItem(r, c, p) ==
    /\ job[r] = Idle
    /\ basket[c].life = "open"
    /\ p \in DOMAIN basket[c].lines
    /\ job' = [job EXCEPT ![r] =
                 [stage |-> "editing", cart |-> c,
                  lines |-> [x \in DOMAIN basket[c].lines \ {p} |->
                                basket[c].lines[x]]]]
    /\ UNCHANGED <<basket, books, goods, loose, amends>>

\* saveItems: by id alone, whatever the cart has become.  A cart that is gone
\* fails the foreign key of its lines.
SaveItems(r) ==
    LET c == job[r].cart lines == job[r].lines IN
    /\ job[r].stage = "editing"
    /\ basket[c].life # "deleted" /\ ~ Locked(c)
    /\ basket' = [basket EXCEPT ![c].lines = lines,
                                ![c].subtotal = ShownTotal(lines)]
    /\ job' = Answered(job, r)
    /\ loose' = IF basket[c].life = "completed" THEN loose \cup {c} ELSE loose
    /\ UNCHANGED <<books, goods, amends>>

\* DeleteBySessionToken: its sale keeps its amount, and loses its cart_id.
DeleteCart(c) ==
    /\ basket[c].life \notin {"absent", "deleted"} /\ ~ Locked(c)
    /\ basket' = [basket EXCEPT ![c] = [life |-> "deleted", lines |-> <<>>,
                                        subtotal |-> 0]]
    /\ sale' = [t \in SaleId |-> IF sale[t].cart = c
                                 THEN [sale[t] EXCEPT !.cart = NoCart] ELSE sale[t]]
    /\ loose' = IF basket[c].life = "completed" THEN loose \cup {c} ELSE loose
    /\ UNCHANGED <<shift, till, goods, job, amends>>

\* Cancelled or expired, by the cart's holder, its customer or time.
EndCart(c) ==
    /\ basket[c].life = "open" /\ ~ Locked(c)
    /\ basket' = [basket EXCEPT ![c].life = "ended"]
    /\ UNCHANGED <<books, goods, job, loose, amends>>

-----------------------------------------------------------------------------
(* Charging.                                                               *)

\* The reads of Checkout, behind the lock: the lines, the shift, the prices.
\* The seller's right to charge and the replay of a key are SaleCart's.
BeginCheckout(r, c) ==
    LET lines == basket[c].lines
        prices == [p \in DOMAIN lines |-> shelf[p].price]
    IN
    /\ job[r] = Idle
    /\ basket[c].life = "open" /\ ~ Locked(c)
    /\ DOMAIN lines # {}
    /\ shift.open /\ shift.total >= 0
    /\ Stocked(lines)
    /\ RepriceTotal(lines, prices) # 0
    /\ job' = [job EXCEPT ![r] =
                 [stage |-> "charging", cart |-> c,
                  total |-> RepriceTotal(lines, prices), prices |-> prices]]
    /\ UNCHANGED <<basket, books, goods, loose, amends>>

\* applyStockDelta: stock, with the quantities of lines taken or put back; a
\* product that is not stocked fails it.
Moved(stock, lines, sign) ==
    [p \in Product |->
        IF p \in DOMAIN lines
        THEN [stock[p] EXCEPT !.quantity = @ + sign * lines[p].quantity]
        ELSE stock[p]]

\* Its writes.  A total beyond int32 does not fit the column.
CommitWith(r, t, moved, subtotal) ==
    LET c == job[r].cart IN
    /\ job[r].stage = "charging"
    /\ Fresh(t)
    /\ job[r].total < Word \div 2
    /\ Stocked(basket[c].lines)
    /\ sale' = [sale EXCEPT ![t] = [cart |-> c, amount |-> job[r].total,
                                    state |-> "live"]]
    /\ till' = till + job[r].total
    /\ shift' = [shift EXCEPT !.total = @ + job[r].total]
    /\ shelf' = moved
    /\ basket' = [basket EXCEPT ![c].life = "completed", ![c].subtotal = subtotal]
    /\ job' = Answered(job, r)
    /\ loose' = IF SalesOf(c) # {} THEN loose \cup {c} ELSE loose
    /\ UNCHANGED <<delivery, owed, amends>>

\* Mutant: the header keeps the total that was shown.
CommitShown(r, t) ==
    CommitWith(r, t, Moved(shelf, basket[job[r].cart].lines, -1),
               basket[job[r].cart].subtotal)
CommitCheckout(r, t) ==
    CommitWith(r, t, Moved(shelf, basket[job[r].cart].lines, -1), job[r].total)

-----------------------------------------------------------------------------
(* The shift and its operations.                                           *)

\* An operation keyed in; its body may carry the id of a cart.
AddOperation(t, amount, c) ==
    /\ shift.open /\ ShiftReadable /\ Fresh(t)
    /\ c # NoCart => basket[c].life \notin {"absent", "deleted"}
    /\ sale' = [sale EXCEPT ![t] = [cart |-> c, amount |-> amount, state |-> "live"]]
    /\ till' = till + amount
    /\ shift' = [shift EXCEPT !.total = @ + amount]
    /\ loose' = loose \cup ({c} \ {NoCart})
    /\ UNCHANGED <<basket, goods, job, amends>>

\* RestoreForSale: the lines of the cart as they are now, if there is one.
LinesOf(row) == IF row.cart = NoCart THEN <<>> ELSE basket[row.cart].lines

\* ShiftIsOpenMiddleware loads the journal with its operations.
BeginDeleteOperation(r, t) ==
    /\ job[r] = Idle
    /\ shift.open /\ ShiftReadable /\ Live(t)
    /\ job' = [job EXCEPT ![r] = [stage |-> "removing", id |-> t, seen |-> sale[t]]]
    /\ UNCHANGED <<basket, books, goods, loose, amends>>

\* From the row it loaded: a row that is gone restores its stock again.  The
\* branch's balance is left alone.
DeleteOperation(r) ==
    LET seen == job[r].seen
        t == job[r].id
    IN
    /\ job[r].stage = "removing"
    /\ Stocked(LinesOf(seen))
    /\ shelf' = Moved(shelf, LinesOf(seen), 1)
    /\ sale' = [sale EXCEPT ![t] = GoneSale]
    /\ shift' = [shift EXCEPT !.total = @ - seen.amount]
    /\ job' = Answered(job, r)
    /\ loose' = IF Live(t) /\ sale[t].cart = seen.cart THEN loose
                ELSE loose \cup ({seen.cart} \ {NoCart})
    /\ adrift' = IF Live(t) THEN adrift + sale[t].amount ELSE adrift
    /\ UNCHANGED <<basket, till, delivery, owed, rewritten>>

\* The amount of a transaction is rewritten; no balance, and no cart, hears of it.
Amend(t, amount) ==
    /\ sale' = [sale EXCEPT ![t].amount = amount]
    /\ adrift' = adrift + sale[t].amount - amount
    /\ rewritten' = rewritten \cup {t}
    /\ UNCHANGED <<basket, till, goods, loose>>

\* Behind the same middleware.
BeginUpdateOperation(r, t, amount) ==
    /\ job[r] = Idle
    /\ shift.open /\ ShiftReadable /\ Live(t)
    /\ amount > 0
    /\ job' = [job EXCEPT ![r] = [stage |-> "rewriting", id |-> t, seen |-> sale[t],
                                   amount |-> amount]]
    /\ UNCHANGED <<basket, books, goods, loose, amends>>

\* The total of the shift moves by the difference to the row it loaded, even if that
\* row is gone.
UpdateOperation(r) ==
    LET t == job[r].id IN
    /\ job[r].stage = "rewriting"
    /\ shift' = [shift EXCEPT !.total = @ + (job[r].amount - job[r].seen.amount)]
    /\ job' = Answered(job, r)
    /\ IF Live(t) THEN Amend(t, job[r].amount)
       ELSE UNCHANGED <<basket, sale, till, goods, loose, amends>>

\* TransactionsRepository.Update: any number, at any time.
UpdateTransaction(t, amount) ==
    /\ Live(t)
    /\ Amend(t, amount)
    /\ UNCHANGED <<shift, job>>

\* DeleteSalesTransaction (mutants: without RestoreForSale; the money stays).
VoidKeepsMoney(t) ==
    /\ Live(t) /\ sale[t].amount >= 0
    /\ Stocked(LinesOf(sale[t]))
    /\ shelf' = Moved(shelf, LinesOf(sale[t]), 1)
    /\ sale' = [sale EXCEPT ![t] = GoneSale]
    /\ UNCHANGED <<basket, shift, till, delivery, owed, job, loose, amends>>
VoidSaleOnly(t) ==
    /\ Live(t) /\ sale[t].amount >= 0
    /\ Stocked(LinesOf(sale[t]))
    /\ sale' = [sale EXCEPT ![t] = GoneSale]
    /\ till' = till - sale[t].amount
    /\ UNCHANGED <<basket, shift, goods, job, loose, amends>>
VoidSale(t) ==
    /\ Live(t) /\ sale[t].amount >= 0
    /\ Stocked(LinesOf(sale[t]))
    /\ shelf' = Moved(shelf, LinesOf(sale[t]), 1)
    /\ sale' = [sale EXCEPT ![t] = GoneSale]
    /\ till' = till - sale[t].amount
    /\ UNCHANGED <<basket, shift, delivery, owed, job, loose, amends>>

\* Close: two operations of its own, terminal first.
CloseShift(t, u) ==
    /\ shift.open /\ ShiftReadable
    /\ Fresh(t) /\ u = t + 1 /\ u \in SaleId
    /\ sale' = [sale EXCEPT
                  ![t] = [cart |-> NoCart, amount |-> CloseTerminal, state |-> "live"],
                  ![u] = [cart |-> NoCart, amount |-> CloseCash, state |-> "live"]]
    /\ till' = till + CloseTerminal + CloseCash
    /\ shift' = [open |-> FALSE, total |-> shift.total + CloseTerminal + CloseCash,
                 closing |-> CloseTerminal + CloseCash]
    /\ UNCHANGED <<basket, goods, job, loose, amends>>

\* ReOpen: the last two operations, whatever they are, are voided as sales.
ReopenShift(t, u) ==
    /\ {t, u} \subseteq Sales /\ t < u
    /\ \A s \in Sales \ {t, u} : s < t
    /\ Stocked(LinesOf(sale[t])) /\ Stocked(LinesOf(sale[u]))
    /\ ShiftReadable /\ shift.total >= shift.closing
    /\ sale' = [sale EXCEPT ![t] = GoneSale, ![u] = GoneSale]
    /\ till' = till - sale[t].amount - sale[u].amount
    /\ shelf' = Moved(Moved(shelf, LinesOf(sale[t]), 1), LinesOf(sale[u]), 1)
    /\ shift' = [open |-> TRUE, total |-> shift.total - shift.closing, closing |-> 0]
    /\ UNCHANGED <<basket, delivery, owed, job, loose, amends>>

\* attachItemCounts: how many lines a listing of the shift says an operation has.
ItemCount(t) == Cardinality(DOMAIN LinesOf(sale[t]))

\* GetDetails: what staff see who open an operation; no cart, nothing to expand.
NoDetails == [life |-> "none", subtotal |-> 0, itemCount |-> 0]
GetDetails(t) ==
    LET c == sale[t].cart IN
    IF c = NoCart THEN NoDetails
    ELSE [life |-> basket[c].life, subtotal |-> basket[c].subtotal,
          itemCount |-> Cardinality(DOMAIN basket[c].lines)]

-----------------------------------------------------------------------------
(* Goods in.                                                               *)

\* AddIncome: the stock row, new or as it is, with the selling price; the
\* income; and what the supplier is owed.
AddIncome(i, p, q, price, cost) ==
    /\ shelf[p].state # "deleted"
    /\ delivery[i] = NoDelivery
    /\ \A k \in DeliveryId : delivery[k] = NoDelivery => i <= k
    /\ shelf' = [shelf EXCEPT ![p] = [state |-> "stocked",
                                      quantity |-> shelf[p].quantity + q,
                                      price |-> price]]
    /\ delivery' = [delivery EXCEPT ![i] = [product |-> p, quantity |-> q]]
    /\ owed' = owed + RoundLineTotal(q, cost)
    /\ UNCHANGED <<basket, books, job, loose, amends>>

\* ProductsRepository.Delete: its stock and its incomes go with it.
DeleteProduct(p) ==
    /\ shelf[p].state # "deleted"
    /\ shelf' = [shelf EXCEPT ![p] = [EmptyShelf EXCEPT !.state = "deleted"]]
    /\ delivery' = [i \in DeliveryId |->
                      IF delivery[i].product = p
                      THEN [delivery[i] EXCEPT !.product = NoCart] ELSE delivery[i]]
    /\ UNCHANGED <<basket, books, owed, job, loose, amends>>

PosStep(r) ==
    \/ SaveItems(r)
    \/ \E t \in SaleId : CommitCheckout(r, t)
    \/ DeleteOperation(r)
    \/ UpdateOperation(r)
    \/ GiveUpJob(r)

PosNext ==
    \/ \E c \in Cart : OpenCart(c) \/ DeleteCart(c) \/ EndCart(c)
    \/ \E r \in Request, c \in Cart, p \in Product :
          \/ \E q \in Quantity : BeginAddItem(r, c, p, q)
          \/ BeginRemoveItem(r, c, p)
    \/ \E r \in Request, c \in Cart : BeginCheckout(r, c)
    \/ \E r \in Request, t \in SaleId :
          \/ BeginDeleteOperation(r, t)
          \/ \E a \in Amended : BeginUpdateOperation(r, t, a)
    \/ \E t \in SaleId, a \in Amended : UpdateTransaction(t, a)
    \/ \E r \in Request : PosStep(r)
    \/ \E t \in SaleId, a \in Manual, c \in Cart \cup {NoCart} :
          AddOperation(t, a, c)
    \/ \E t \in SaleId : VoidSale(t)
    \/ \E t, u \in SaleId : CloseShift(t, u) \/ ReopenShift(t, u)
    \/ \E i \in DeliveryId, p \in Product, q \in Quantity, s \in Price, k \in Cost :
          AddIncome(i, p, q, s, k)
    \/ \E p \in Product : DeleteProduct(p)

PosSpec == PosInit /\ [][PosNext]_posVars

-----------------------------------------------------------------------------
(* Properties.                                                             *)

Delivered(p) ==
    LET incomes == { i \in DeliveryId : delivery[i].product = p }
    IN  CoinSum([i \in incomes |-> delivery[i].quantity])

\* The lines of the carts that have a sale, of product p.
SoldOf(p) ==
    LET buyers == { c \in Cart : SalesOf(c) # {} /\ p \in DOMAIN basket[c].lines }
    IN  CoinSum([c \in buyers |-> basket[c].lines[p].quantity])

\* Goods are conserved: what came in is on the shelf or in a cart whose sale
\* stands, through concurrent checkouts, overselling, voids and reopenings;
\* unless a charged cart was edited or deleted, a second transaction named it,
\* or a deletion acted on an operation that was already gone.
StockMatchesBooks ==
    loose = {} => \A p \in Product :
                      HasStock(p) => shelf[p].quantity + SoldOf(p) = Delivered(p)

\* Money is conserved: the till holds the amounts of the transactions that stand,
\* through checkouts, voids, closings, reopenings and carts deleted in between; but
\* for what was in those deleted as operations of the shift, and what rewriting an
\* amount changed, neither of which moves the till.
TillMatchesSales == till = NetSum([t \in Sales |-> sale[t].amount]) + adrift

\* A charged cart and its sale agree: who opens a sale finds a completed cart whose
\* header shows what was charged, with some lines, as many as the listing says,
\* unless its amount was rewritten since; and an operation without a cart is listed
\* without lines.
SubtotalIsTheSale ==
    \A t \in Sales :
        LET shown == GetDetails(t) IN
        \/ sale[t].cart \in loose
        \/ shown = NoDetails /\ ItemCount(t) = 0
        \/ /\ shown.life = "completed"
           /\ t \in rewritten \/ shown.subtotal = sale[t].amount
           /\ shown.itemCount = ItemCount(t) /\ shown.itemCount > 0

\* "A re-price at charge time can never disagree with the basket by a stray
\* so'm": what is charged is what the cart showed, to the unit, unless a price
\* of the stock was no longer that of its line.
ChargedAsShown ==
    [][\A r \in Request :
          job[r].stage = "charging" /\ job'[r] = Idle
          /\ basket'[job[r].cart].life = "completed"
          => LET cart == basket[job[r].cart] IN
             \/ job[r].total = cart.subtotal
             \/ \E p \in DOMAIN cart.lines : cart.lines[p].unit # job[r].prices[p]
      ]_posVars

\* "So stock and money reverse together or not at all": a step that takes a sale
\* of a cart away and puts its goods back takes its money out of the till.
StockAndMoneyReverseTogether ==
    [][\A t \in SaleId :
          /\ Live(t) /\ sale'[t] = GoneSale
          /\ shelf' # shelf
          => till' # till]_posVars
=============================================================================
