---------------------------- MODULE Storefront ----------------------------
(***************************************************************************)
(* What the store shows of the catalogue: pkg/repository/store/product     *)
(* with its controller.  Lists are filtered, sorted and paged by the       *)
(* database; where two products have the same sort key their order is the  *)
(* database's, and may be another one for the next page.                   *)
(*                                                                         *)
(* Abstractions.  Text search, SKU and the sorts by name and rating are    *)
(* left out: they are a condition, or a key, of the same form as those     *)
(* that are kept.  A quantity is counted in thousandths, as the column is. *)
(***************************************************************************)
EXTENDS Catalog, FiniteSetsExt

CONSTANTS
    DefaultCount, CountLimit,   \* of a page: 20 and 100 in the code
    AskedPage, AskedCount       \* the page numbers and sizes that clients send

ASSUME StorefrontAssumption ==
    /\ CountLimit \in Nat /\ DefaultCount \in 1..CountLimit
    /\ AskedPage \subseteq Int /\ AskedCount \subseteq Int

\* A filter: NoId and 0 are what a client leaves out.
Filter == [category: Category \cup {NoId}, brand: Brand \cup {NoId},
           place: Place \cup {NoId}, min: Price \cup {0}, max: Price \cup {0},
           inStock: BOOLEAN]

RowsOf(p) == { l \in Place : stock[<<p, l>>] # NoStock }

Fits(f, row) ==
    /\ f.min # 0 => row.price >= f.min
    /\ f.max # 0 => row.price <= f.max
    /\ f.inStock => row.quantity > 0

\* applyFilters: one row of the stock is at the branch, in the range and there
\* (mutant: a row for each).
FitsApart(f, p) ==
    /\ f.place # NoId => f.place \in RowsOf(p)
    /\ \E l \in RowsOf(p) : Fits([f EXCEPT !.inStock = FALSE], stock[<<p, l>>])
    /\ f.inStock => \E l \in RowsOf(p) : stock[<<p, l>>].quantity > 0
FitsStock(f, p) ==
    \E l \in RowsOf(p) : (f.place # NoId => l = f.place) /\ Fits(f, stock[<<p, l>>])

Matches(f) ==
    { p \in Item :
        /\ HasItem(p)
        /\ f.category # NoId => f.category \in CategoriesOf(p)
        /\ f.brand # NoId => product[p].brand = f.brand
        /\ (f.place # NoId \/ f.min # 0 \/ f.max # 0 \/ f.inStock) => FitsStock(f, p) }

\* Query, of the back office: a row of the stock for each condition, not one for
\* all, and neither categories nor brands.
Query(f) ==
    { p \in Item :
        /\ HasItem(p)
        /\ f.place # NoId => f.place \in RowsOf(p)
        /\ f.min # 0 => \E l \in RowsOf(p) : stock[<<p, l>>].price >= f.min
        /\ f.max # 0 => \E l \in RowsOf(p) : stock[<<p, l>>].price <= f.max }

Sort == {"newest", "price_asc", "price_desc"}
PricesOf(p) == { stock[<<p, l>>].price : l \in RowsOf(p) }

\* sortExpr: must p be listed before q?  A product without stock has no price,
\* and comes last ascending and first descending.
Before(sort, p, q) ==
    CASE sort = "newest" -> product[p].born > product[q].born
      [] sort = "price_asc" ->
            /\ PricesOf(p) # {}
            /\ PricesOf(q) = {} \/ Min(PricesOf(p)) < Min(PricesOf(q))
      [] sort = "price_desc" ->
            /\ PricesOf(q) # {}
            /\ PricesOf(p) = {} \/ Max(PricesOf(p)) > Max(PricesOf(q))

\* The list of the products M: the positions, from 0, that each may have.
List(M, sort) ==
    [p \in M |-> Cardinality({ q \in M : Before(sort, q, p) })
                    .. (Cardinality({ q \in M : ~ Before(sort, p, q) }) - 1)]

\* normalizePaging.
PageNumber(page) == IF page < 1 THEN 1 ELSE page
PageCount(count) ==
    IF count < 1 THEN DefaultCount
    ELSE IF count > CountLimit THEN CountLimit ELSE count

\* List's offset and limit.
Window(page, count) ==
    ((PageNumber(page) - 1) * PageCount(count))
        .. (PageNumber(page) * PageCount(count) - 1)

\* The products that are on that page of the list, wherever ties put them.
Page(list, page, count) ==
    { p \in DOMAIN list : list[p] \subseteq Window(page, count) }

\* GetRelated, before its limit: by category if there is any, else by brand if
\* there is one, else all.
Related(p) ==
    { q \in Item \ {p} :
        /\ HasItem(q)
        /\ IF CategoriesOf(p) # {} THEN CategoriesOf(p) \cap CategoriesOf(q) # {}
           ELSE product[p].brand # NoId => product[q].brand = product[p].brand }

\* GetAvailability: the quantity loses its fraction.
Availability(p) ==
    { [place |-> l, quantity |-> stock[<<p, l>>].quantity \div 1000,
       inStock |-> stock[<<p, l>>].quantity > 0] : l \in RowsOf(p) }

-----------------------------------------------------------------------------

AnyFilter == [category |-> NoId, brand |-> NoId, place |-> NoId, min |-> 0, max |-> 0,
              inStock |-> FALSE]

\* Pages 1, 2 and so on until the list ends show each product of it once, as far as
\* its sort key tells them apart; page 0, and no page at all, is the first.
PagesShow(list, count) ==
    LET total == Cardinality(DOMAIN list)
        pages == 1 .. ((total + PageCount(count) - 1) \div PageCount(count))
    IN  /\ \A p \in DOMAIN list :
              Cardinality(list[p]) = 1 =>
                  Cardinality({ n \in pages : p \in Page(list, n, count) }) = 1
        /\ \A n \in AskedPage : total > 0 /\ n <= 1 => 0 \in Window(n, count)

PagesShowTheList ==
    \A k \in { k \in Category : HasCategory(k) } \cup {NoId}, inStock \in BOOLEAN,
       sort \in Sort, count \in AskedCount :
        LET f == [AnyFilter EXCEPT !.category = k, !.inStock = inStock]
        IN  PagesShow(List(Matches(f), sort), count)

\* A product listed as in stock at a branch within a range of prices is there, at
\* such a price, and the back office finds it under the same conditions.
StockIsThere(p) ==
    \A l \in Place, min \in Price \cup {0}, max \in Price \cup {0} :
        LET f == [AnyFilter EXCEPT !.place = l, !.min = min, !.max = max, !.inStock = TRUE]
        IN  p \in Matches(f) =>
                /\ \E a \in Availability(p) : a.place = l /\ a.inStock
                /\ stock[<<p, l>>].price >= min
                /\ max # 0 => stock[<<p, l>>].price <= max
                /\ p \in Query(f)

\* What is related to a product with categories is in the list of one of them.
RelatedAreListed(p) ==
    CategoriesOf(p) # {} =>
        Related(p) \subseteq
            UNION { Matches([AnyFilter EXCEPT !.category = k]) : k \in CategoriesOf(p) }

\* Whatever edits, incomes and sales made of the catalogue, its lists keep their
\* promise: a shopper who turns the pages of one sees all of it and nothing twice;
\* what it says of a product, the product's own page and the back office say too;
\* and a product leads to no other that its categories do not list.
ListsKeepTheirPromise ==
    /\ PagesShowTheList
    /\ \A p \in { q \in Item : HasItem(q) } : StockIsThere(p) /\ RelatedAreListed(p)
=============================================================================
