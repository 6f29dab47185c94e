----------------------------- MODULE Purchases -----------------------------
(***************************************************************************)
(* What a customer of the store collects and orders: the cart, the         *)
(* wishlist, coupons and orders (pkg/repository/store/cart, wishlist,      *)
(* promotion and order).  The repositories are complete and their          *)
(* endpoints still answer 501: what may call them here is what they offer. *)
(*                                                                         *)
(* A cart is read by two statements, its header and its items, changed in  *)
(* memory and written back as a whole by one transaction; a failure to     *)
(* read the items is taken for an empty cart.  An order is cancelled by a  *)
(* read and a later update by its id.                                      *)
(*                                                                         *)
(* Abstractions.  A line is identified by its product: the list is always  *)
(* written as a whole, and adding looks for the product first.  The cart's *)
(* discount is read and written back and never set: it is 0.  Amounts are  *)
(* integers.  Names, pictures, pages, addresses and notes are left out.    *)
(***************************************************************************)
EXTENDS Handlers, CoinSums

CONSTANTS
    Holder, Good,           \* customers and products of the store
    Tag,                    \* prices; 0 is also that of a product without stock
    Count, MaxCount,        \* quantities; bound: of a line
    Coupon, NoCoupon,       \* coupon codes, and ""
    Promo,                  \* the promotions there are, by coupon
    Order                   \* ids of orders

ASSUME PurchasesAssumption ==
    /\ Tag \subseteq Nat /\ Count \subseteq Int /\ MaxCount \in Nat
    /\ NoCoupon \notin Coupon
    /\ \A k \in DOMAIN Promo : Promo[k].value \in Nat

VARIABLES
    trolley,    \* carts with cart_items
    wish,       \* wishlist_items
    order,      \* orders: whose they are, and their status
    clerk,      \* requests in flight
    asked,      \* history: the products that each customer has asked for
    unsure,     \* history: customers whose cart was written by a request that
                \* another had overtaken, or that could not read the items
    overtaken   \* history: orders whose status had changed when a cancellation
                \* wrote it

purchaseVars == <<trolley, wish, order, clerk, asked, unsure,
                  overtaken>>

OrderStatus == {"pending", "confirmed", "shipped", "delivered", "cancelled"}
NoOrder == [state |-> "none"]
EmptyTrolley == [lines |-> <<>>, coupon |-> NoCoupon, subtotal |-> 0, total |-> 0]

PurchasesInit ==
    /\ trolley = [c \in Holder |-> EmptyTrolley]
    /\ wish = [c \in Holder |-> {}]
    /\ order = [o \in Order |-> NoOrder]
    /\ clerk = [r \in Request |-> Idle]
    /\ asked = [c \in Holder |-> {}]
    /\ unsure = {}
    /\ overtaken = {}

DropClerk(r) ==
    /\ clerk[r] # Idle
    /\ clerk' = Answered(clerk, r)
    /\ UNCHANGED <<trolley, wish, order, asked, unsure, overtaken>>

-----------------------------------------------------------------------------
(* The cart.                                                               *)

LinesTotal(lines) ==
    CoinSum([p \in DOMAIN lines |-> lines[p].unit * lines[p].count])

Dropped(lines, p) == [x \in DOMAIN lines \ {p} |-> lines[x]]
With(lines, p, line) ==
    [x \in DOMAIN lines \cup {p} |-> IF x = p THEN line ELSE lines[x]]

\* What is asked of a cart; price is that of the product's first stock row.
Change ==
    [op: {"add"}, product: Good, count: { n \in Count : n > 0 }, price: Tag]
    \cup [op: {"update"}, product: Good, count: Count]
    \cup [op: {"remove"}, product: Good]
    \cup [op: {"clear"}]
    \cup [op: {"promo"}, coupon: Coupon \cup {NoCoupon}]

\* May it be done to these lines?
Possible(change, lines) ==
    CASE change.op = "add" ->
            change.product \in DOMAIN lines =>
                lines[change.product].count + change.count <= MaxCount
      [] change.op \in {"update", "remove"} -> change.product \in DOMAIN lines
      [] OTHER -> TRUE

\* The lines that AddItem, UpdateItem, RemoveItem, Clear and SetPromo write
\* (mutant: a product that is added replaces the others).
LinesAfterReplacing(change, lines) ==
    CASE change.op = "add" ->
            With(<<>>, change.product, [count |-> change.count, unit |-> change.price])
      [] change.op = "update" ->
            IF change.count <= 0 THEN Dropped(lines, change.product)
            ELSE [lines EXCEPT ![change.product].count = change.count]
      [] change.op = "remove" -> Dropped(lines, change.product)
      [] change.op = "clear" -> <<>>
      [] change.op = "promo" -> lines
LinesAfter(change, lines) ==
    CASE change.op = "add" ->
            With(lines, change.product,
                 IF change.product \in DOMAIN lines
                 THEN [lines[change.product] EXCEPT !.count = @ + change.count]
                 ELSE [count |-> change.count, unit |-> change.price])
      [] change.op = "update" ->
            IF change.count <= 0 THEN Dropped(lines, change.product)
            ELSE [lines EXCEPT ![change.product].count = change.count]
      [] change.op = "remove" -> Dropped(lines, change.product)
      [] change.op = "clear" -> <<>>
      [] change.op = "promo" -> lines

CouponAfter(change, coupon) ==
    CASE change.op = "clear" -> NoCoupon
      [] change.op = "promo" -> change.coupon
      [] OTHER -> coupon

\* The products that stay, or become, asked for.
AskedAfter(change, products) ==
    CASE change.op = "add" -> products \cup {change.product}
      [] change.op = "remove" \/ (change.op = "update" /\ change.count <= 0) ->
            products \ {change.product}
      [] change.op = "clear" -> {}
      [] OTHER -> products

\* GetByCustomer: the header (a cart that is not there is made, empty) ...
BeginChange(r, c) ==
    /\ clerk[r] = Idle
    /\ clerk' = [clerk EXCEPT ![r] = [stage |-> "headed", owner |-> c,
                                      head |-> trolley[c]]]
    /\ UNCHANGED <<trolley, wish, order, asked, unsure, overtaken>>

\* ... and attachItems, which turns an error into no items.
AttachItems(r, failed) ==
    /\ clerk[r] # Idle /\ clerk[r].stage = "headed"
    /\ clerk' = [clerk EXCEPT ![r] =
                   [stage |-> "loaded", owner |-> @.owner, head |-> @.head,
                    lines |-> IF failed THEN <<>> ELSE trolley[clerk[r].owner].lines]]
    /\ UNCHANGED <<trolley, wish, order, asked, unsure, overtaken>>

\* recompute (mutant: a change of the coupon keeps the totals that were read).
RecomputeItemsOnly(change, head, lines) ==
    IF change.op = "promo" THEN head.subtotal ELSE LinesTotal(lines)
Recompute(change, head, lines) == LinesTotal(lines)

\* save, of what was read with the change that is asked for.  Clear needs to
\* have read nothing.
SaveCart(r, change) ==
    LET c == clerk[r].owner
        lines == LinesAfter(change, clerk[r].lines)
        sum == Recompute(change, clerk[r].head, lines)
    IN
    /\ clerk[r] # Idle /\ clerk[r].stage = "loaded"
    /\ Possible(change, clerk[r].lines)
    /\ trolley' = [trolley EXCEPT ![c] =
                     [lines |-> lines, coupon |-> CouponAfter(change, clerk[r].head.coupon),
                      subtotal |-> sum, total |-> sum]]
    /\ clerk' = Answered(clerk, r)
    /\ asked' = [asked EXCEPT ![c] = AskedAfter(change, @)]
    /\ unsure' = IF change.op = "clear" THEN unsure \ {c}
                 ELSE IF trolley[c].lines = clerk[r].lines THEN unsure
                 ELSE unsure \cup {c}
    /\ UNCHANGED <<wish, order, overtaken>>

-----------------------------------------------------------------------------
(* Coupons.                                                                *)

\* discountFor: a type that is neither percentage nor fixed takes nothing off.
DiscountFor(promo, subtotal) ==
    LET discount == CASE promo.type = "percentage" -> (subtotal * promo.value) \div 100
                      [] promo.type = "fixed" -> promo.value
                      [] OTHER -> 0
    IN  IF discount > subtotal THEN subtotal ELSE discount

\* ValidateCoupon; season is where now lies between starts_at and ends_at.
ValidCoupon(k, subtotal) ==
    /\ k \in DOMAIN Promo
    /\ Promo[k].active
    /\ Promo[k].season = "now"
    /\ ~ (Promo[k].limit > 0 /\ Promo[k].used >= Promo[k].limit)
    /\ subtotal >= Promo[k].minimum

-----------------------------------------------------------------------------
(* The wishlist: a row for each product, behind a unique index.            *)

AddWish(c, p) ==
    /\ p \notin wish[c]
    /\ wish' = [wish EXCEPT ![c] = @ \cup {p}]
    /\ UNCHANGED <<trolley, order, clerk, asked, unsure, overtaken>>

RemoveWish(c, p) ==
    /\ p \in wish[c]
    /\ wish' = [wish EXCEPT ![c] = @ \ {p}]
    /\ UNCHANGED <<trolley, order, clerk, asked, unsure, overtaken>>

-----------------------------------------------------------------------------
(* Orders.                                                                 *)

CreateOrder(o, c) ==
    /\ order[o] = NoOrder
    /\ order' = [order EXCEPT ![o] = [state |-> "there", owner |-> c,
                                      status |-> "pending"]]
    /\ UNCHANGED <<trolley, wish, clerk, asked, unsure, overtaken>>

Mine(c, o) == order[o].state = "there" /\ order[o].owner = c

\* UpdateStatus knows no transitions.
UpdateStatus(o, c, status) ==
    /\ Mine(c, o) /\ order[o].status # status
    /\ order' = [order EXCEPT ![o].status = status]
    /\ UNCHANGED <<trolley, wish, clerk, asked, unsure, overtaken>>

\* Cancel's read (mutant: of any order of the customer's) ...
MayCancelAny(o, c) == Mine(c, o)
MayCancel(o, c) == Mine(c, o) /\ order[o].status \in {"pending", "confirmed"}

BeginCancel(r, o, c) ==
    /\ clerk[r] = Idle
    /\ MayCancel(o, c)
    /\ clerk' = [clerk EXCEPT ![r] = [stage |-> "cancelling", order |-> o, owner |-> c,
                                      seen |-> order[o].status]]
    /\ UNCHANGED <<trolley, wish, order, asked, unsure, overtaken>>

\* ... and its update, whatever the status is by now.
CancelOrder(r) ==
    LET o == clerk[r].order IN
    /\ clerk[r] # Idle /\ clerk[r].stage = "cancelling"
    /\ order' = [order EXCEPT ![o].status = "cancelled"]
    /\ clerk' = Answered(clerk, r)
    /\ overtaken' = IF order[o].status = clerk[r].seen THEN overtaken
                    ELSE overtaken \cup {o}
    /\ UNCHANGED <<trolley, wish, asked, unsure>>

PurchasesNext ==
    \/ \E r \in Request, c \in Holder : BeginChange(r, c)
    \/ \E r \in Request, failed \in BOOLEAN : AttachItems(r, failed)
    \/ \E r \in Request, change \in Change : SaveCart(r, change)
    \/ \E c \in Holder, p \in Good : AddWish(c, p) \/ RemoveWish(c, p)
    \/ \E o \in Order, c \in Holder :
          \/ CreateOrder(o, c)
          \/ \E s \in OrderStatus : UpdateStatus(o, c, s)
          \/ \E r \in Request : BeginCancel(r, o, c)
    \/ \E r \in Request : CancelOrder(r) \/ DropClerk(r)

PurchasesSpec == PurchasesInit /\ [][PurchasesNext]_purchaseVars

-----------------------------------------------------------------------------

\* The header of a cart is that of its items, whichever of two saves came last
\* and although header and items are read apart; and no coupon that is found
\* valid for it is worth more than the goods, or less than nothing.
CartAddsUp ==
    \A c \in Holder :
        /\ trolley[c].subtotal = LinesTotal(trolley[c].lines)
        /\ trolley[c].total = trolley[c].subtotal
        /\ \A k \in DOMAIN Promo :
              ValidCoupon(k, trolley[c].subtotal) =>
                  DiscountFor(Promo[k], trolley[c].subtotal) \in 0..trolley[c].subtotal

\* The cart holds the products that its customer asked for and no others, unless
\* a save was overtaken or its items could not be read; emptying the cart
\* repairs it.
NothingAskedIsLost ==
    \A c \in Holder \ unsure : DOMAIN trolley[c].lines = asked[c]

\* An order that was handed to delivery is not cancelled by its customer, unless
\* it was handed over after the cancellation had read it.
ShippedIsNotCancelled ==
    [][\A o \in Order :
          /\ order[o].state = "there" /\ order[o].status \in {"shipped", "delivered"}
          /\ order'[o].status = "cancelled"
          /\ clerk' # clerk
          => o \in overtaken']_purchaseVars
=============================================================================
