------------------------------ MODULE Catalog ------------------------------
(***************************************************************************)
(* Products with their categories, brands and images, as the back office   *)
(* keeps them: pkg/repository/catalog and products with their controllers. *)
(*                                                                         *)
(* An edit of a product that lists categories is one transaction at READ   *)
(* COMMITTED that deletes the links it sees and inserts others: a row that *)
(* another edit has deleted meanwhile stays deleted, and one that it has   *)
(* inserted, even with the same value, is not seen.  An edit that sets     *)
(* fields too holds the product's row from its first statement on.  The    *)
(* list of images is one column, read by a statement and written by        *)
(* another.                                                                *)
(*                                                                         *)
(* Abstractions.  Of a product's fields only the brand is kept: it stands  *)
(* for all that an edit may set.  Names, slugs, sort orders and whether a  *)
(* category is active are left out.  Ids of brands and parents are free    *)
(* text to the database since migration 00002; those of links are not.     *)
(* The image endpoints never reach the repository (README): what may call  *)
(* it here is what it offers, an image's key being fresh.                  *)
(***************************************************************************)
EXTENDS Handlers

CONSTANTS
    Category, Brand, NoId,  \* ids of categories and brands; the empty id
    Item, Key,              \* ids of products, keys of images
    Place, Price, Amount    \* branches; prices and quantities of stock

ASSUME CatalogAssumption ==
    /\ NoId \notin Category \cup Brand \cup Place
    /\ Price \subseteq Nat \ {0} /\ Amount \subseteq Int

VARIABLES
    category,   \* categories, with parent_id
    brand,      \* brands
    product,    \* products, with brand_id and images
    link,       \* product_categories
    stock,      \* product_stock, by product and place
    editor,     \* requests in flight
    wanted,     \* history: the images and categories that were asked for
    crossed     \* history: lists of products that a request wrote although
                \* another had changed them since it read them

catalogVars == <<category, brand, product, link, stock, editor, wanted, crossed>>

NoItem == [state |-> "none", born |-> 0, brand |-> NoId, images |-> {}]
NoStock == [state |-> "none"]
HasCategory(k) == category[k].state = "there"
HasItem(p) == product[p].state = "there"
CategoriesOf(p) == { k \in Category : <<p, k>> \in link }
Born == Cardinality({ p \in Item : product[p].state # "none" })

CatalogInit ==
    /\ category = [k \in Category |-> [state |-> "none", parent |-> NoId]]
    /\ brand = [b \in Brand |-> "none"]
    /\ product = [p \in Item |-> NoItem]
    /\ link = {}
    /\ stock = [pl \in Item \X Place |-> NoStock]
    /\ editor = [r \in Request |-> Idle]
    /\ wanted = [p \in Item |-> [images |-> {}, categories |-> {}]]
    /\ crossed = {}

-----------------------------------------------------------------------------
(* Categories and brands.                                                  *)

\* Any parent, there or not, or none.
CreateCategory(k, parent) ==
    /\ category[k].state = "none"
    /\ category' = [category EXCEPT ![k] = [state |-> "there", parent |-> parent]]
    /\ UNCHANGED <<brand, product, link, stock, editor, wanted, crossed>>

\* An empty parent leaves the one there is; a category may become its own.
UpdateCategory(k, parent) ==
    /\ HasCategory(k)
    /\ parent # NoId
    /\ category' = [category EXCEPT ![k].parent = parent]
    /\ UNCHANGED <<brand, product, link, stock, editor, wanted, crossed>>

\* Its links go; its children keep its id.
DeleteCategory(k) ==
    /\ HasCategory(k)
    /\ category' = [category EXCEPT ![k] = [state |-> "gone", parent |-> NoId]]
    /\ link' = { pk \in link : pk[2] # k }
    /\ wanted' = [p \in Item |-> [wanted[p] EXCEPT !.categories = @ \ {k}]]
    /\ UNCHANGED <<brand, product, stock, editor, crossed>>

CreateBrand(b) ==
    /\ brand[b] = "none"
    /\ brand' = [brand EXCEPT ![b] = "there"]
    /\ UNCHANGED <<category, product, link, stock, editor, wanted, crossed>>

\* Its products keep its id.
DeleteBrand(b) ==
    /\ brand[b] = "there"
    /\ brand' = [brand EXCEPT ![b] = "gone"]
    /\ UNCHANGED <<category, product, link, stock, editor, wanted, crossed>>

-----------------------------------------------------------------------------
(* Products.                                                               *)

\* The row and its links in one transaction.
CreateProduct(p, b, K) ==
    /\ product[p] = NoItem
    /\ \A k \in K : HasCategory(k)
    /\ product' = [product EXCEPT ![p] = [state |-> "there", born |-> Born + 1,
                                          brand |-> b, images |-> {}]]
    /\ link' = link \cup ({p} \X K)
    /\ wanted' = [wanted EXCEPT ![p].categories = K]
    /\ UNCHANGED <<category, brand, stock, editor, crossed>>

\* Somebody's transaction has written the row of p.
Held(p) == \E r \in Request : /\ editor[r] # Idle /\ editor[r].stage = "relinking"
                              /\ editor[r].product = p /\ editor[r].brand # NoId

\* Update without categories.
EditFields(p, b) ==
    /\ HasItem(p) /\ ~ Held(p)
    /\ b # NoId
    /\ product' = [product EXCEPT ![p].brand = b]
    /\ UNCHANGED <<category, brand, link, stock, editor, wanted, crossed>>

\* Update with categories K and, unless b is empty, fields: up to the deletion.
BeginRelink(r, p, b, K) ==
    /\ editor[r] = Idle
    /\ HasItem(p)
    /\ b # NoId => ~ Held(p)
    /\ editor' = [editor EXCEPT ![r] = [stage |-> "relinking", product |-> p, brand |-> b,
                                        new |-> K, seen |-> CategoriesOf(p)]]
    /\ UNCHANGED <<category, brand, product, link, stock, wanted, crossed>>

\* replaceCategories: the links that were seen, and are still the same rows, go;
\* the new ones come, if none of them is there and all of their categories are
\* (mutant: none goes).
RelinkOnly(p, seen, K) == link \cup ({p} \X K)
ReplaceCategories(p, seen, K) == (link \ ({p} \X seen)) \cup ({p} \X K)

\* The requests in flight once the rows gone of product p are deleted: an edit
\* that waited for them finds none of them, whatever is inserted in their place.
Overtaken(p, gone) ==
    [t \in Request |->
        IF editor[t].stage = "relinking" /\ editor[t].product = p
        THEN [editor[t] EXCEPT !.seen = @ \ gone] ELSE editor[t]]

Relink(r) ==
    LET p == editor[r].product b == editor[r].brand K == editor[r].new
        others == CategoriesOf(p) \ editor[r].seen
    IN
    /\ editor[r] # Idle /\ editor[r].stage = "relinking"
    /\ HasItem(p)
    /\ \A k \in K : HasCategory(k) /\ k \notin others
    /\ link' = ReplaceCategories(p, editor[r].seen, K)
    /\ product' = IF b = NoId THEN product ELSE [product EXCEPT ![p].brand = b]
    /\ wanted' = [wanted EXCEPT ![p].categories = K]
    /\ crossed' = IF others = {} THEN crossed \ {<<"categories", p>>}
                  ELSE crossed \cup {<<"categories", p>>}
    /\ editor' = Answered(Overtaken(p, editor[r].seen), r)
    /\ UNCHANGED <<category, brand, stock>>

\* The links and the stock go with it.
DeleteProduct(p) ==
    /\ HasItem(p) /\ ~ Held(p)
    /\ product' = [product EXCEPT ![p] = [NoItem EXCEPT !.state = "gone"]]
    /\ link' = { pk \in link : pk[1] # p }
    /\ stock' = [pl \in DOMAIN stock |-> IF pl[1] = p THEN NoStock ELSE stock[pl]]
    /\ UNCHANGED <<category, brand, editor, wanted, crossed>>

\* The keys that nobody has used, or is using.
FreshKeys ==
    LET listing == { t \in Request : editor[t].stage = "listing" } IN
    Key \ (UNION { product[q].images \cup wanted[q].images : q \in Item }
             \cup { editor[t].key : t \in listing })

\* The reads of AddImage and RemoveImage.
BeginImage(r, op, p, x) ==
    /\ editor[r] = Idle
    /\ HasItem(p)
    /\ op = "add" => x \in FreshKeys
    /\ editor' = [editor EXCEPT ![r] = [stage |-> "listing", op |-> op, product |-> p,
                                        key |-> x, seen |-> product[p].images]]
    /\ UNCHANGED <<category, brand, product, link, stock, wanted, crossed>>

With(op, images, x) == IF op = "add" THEN images \cup {x} ELSE images \ {x}

WriteImages(r) ==
    LET p == editor[r].product op == editor[r].op x == editor[r].key IN
    /\ editor[r] # Idle /\ editor[r].stage = "listing"
    /\ HasItem(p) /\ ~ Held(p)
    /\ product' = [product EXCEPT ![p].images = With(op, editor[r].seen, x)]
    /\ wanted' = [wanted EXCEPT ![p].images = With(op, @, x)]
    /\ crossed' = IF product[p].images = editor[r].seen THEN crossed
                  ELSE crossed \cup {<<"images", p>>}
    /\ editor' = Answered(editor, r)
    /\ UNCHANGED <<category, brand, link, stock>>

\* A product, category or link is gone, or there; a connection is lost.
DropEdit(r) ==
    /\ editor[r] # Idle
    /\ editor' = Answered(editor, r)
    /\ UNCHANGED <<category, brand, product, link, stock, wanted, crossed>>

\* NewIncome at a place that had none of the product, with what sales have left of
\* it since.
Restock(p, place, price, n) ==
    /\ HasItem(p)
    /\ stock[<<p, place>>] = NoStock
    /\ stock' = [stock EXCEPT ![<<p, place>>] = [state |-> "there", price |-> price,
                                             quantity |-> n]]
    /\ UNCHANGED <<category, brand, product, link, editor, wanted, crossed>>

CatalogNext ==
    \/ \E k \in Category :
          \/ DeleteCategory(k)
          \/ \E parent \in Category \cup {NoId} :
                CreateCategory(k, parent) \/ UpdateCategory(k, parent)
    \/ \E b \in Brand : CreateBrand(b) \/ DeleteBrand(b)
    \/ \E p \in Item, b \in Brand \cup {NoId} :
          \/ EditFields(p, b)
          \/ \E K \in SUBSET Category :
                \/ CreateProduct(p, b, K)
                \/ \E r \in Request : BeginRelink(r, p, b, K)
    \/ \E p \in Item :
          \/ DeleteProduct(p)
          \/ \E place \in Place, price \in Price, n \in Amount : Restock(p, place, price, n)
    \/ \E r \in Request, op \in {"add", "remove"}, p \in Item, x \in Key :
          BeginImage(r, op, p, x)
    \/ \E r \in Request : Relink(r) \/ WriteImages(r) \/ DropEdit(r)

CatalogSpec == CatalogInit /\ [][CatalogNext]_catalogVars

-----------------------------------------------------------------------------

\* A product is in the categories, and shows the images, that the requests
\* answered so far asked for, however edits, deletions of categories and failures
\* come between, unless two requests changed the same list at once (the next edit
\* of the categories repairs theirs); and no link leads to a category or product
\* that is gone.
ProductListsAreKept ==
    /\ \A p \in Item :
          HasItem(p) =>
              /\ <<"images", p>> \in crossed \/ product[p].images = wanted[p].images
              /\ \/ <<"categories", p>> \in crossed
                 \/ CategoriesOf(p) = wanted[p].categories
    /\ \A pk \in link : HasItem(pk[1]) /\ HasCategory(pk[2])
=============================================================================
