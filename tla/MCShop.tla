------------------------------- MODULE MCShop -------------------------------
(* The customers' side for TLC: debts, accounts, purchases and reviews.    *)
(* They share the server, but no row that one of them writes is written by *)
(* another, and each property is about the rows of one: a behaviour moves  *)
(* one of them, the focus, and leaves the others as they began.            *)
EXTENDS Bnpl, Accounts, Purchases, Reviews, TLC

VARIABLE focus

MCBasket == { [p \in {"soap"} |-> [price |-> 2, quantity |-> 2]],
              [p \in {"soap"} |-> [price |-> 1, quantity |-> 2]] }
MCTotal == {}

\* A percentage, more than there is to pay, and a type the code does not know.
MCPromo ==
    [k \in {"half", "gift", "odd"} |->
        [type |-> CASE k = "half" -> "percentage" [] k = "gift" -> "fixed"
                    [] OTHER -> "points",
         value |-> 50, active |-> TRUE, season |-> "now", limit |-> 0, used |-> 0,
         minimum |-> 1]]

Init ==
    /\ focus \in {"debts", "accounts", "purchases", "reviews"}
    /\ BnplInit /\ AccountsInit /\ PurchasesInit /\ ReviewsInit

Next ==
    /\ \/ /\ focus = "debts" /\ BnplNext
          /\ UNCHANGED <<accountVars, purchaseVars, reviewVars>>
       \/ /\ focus = "accounts" /\ AccountsNext
          /\ UNCHANGED <<bnplVars, purchaseVars, reviewVars>>
       \/ /\ focus = "purchases" /\ PurchasesNext
          /\ UNCHANGED <<bnplVars, accountVars, reviewVars>>
       \/ /\ focus = "reviews" /\ ReviewsNext
          /\ UNCHANGED <<bnplVars, accountVars, purchaseVars>>
    /\ UNCHANGED focus

Spec == Init /\ [][Next]_<<bnplVars, accountVars, purchaseVars, reviewVars, focus>>

-----------------------------------------------------------------------------
(* Bounds.                                                                 *)

\* Debts are followed while one customer exists, and customers while no debt
\* does; carts while nothing was ordered or wished for, and the reverse.
Scope ==
    /\ \/ \A d \in Debt : debt[d].state = "absent"
       \/ /\ Cardinality({c \in Customer : customer[c].state # "absent"}) = 1
          /\ \A r \in Request : desk[r].stage \notin {"creating", "renaming"}
    /\ \/ \A c \in Holder : trolley[c] = EmptyTrolley
       \/ /\ \A o \in Order : order[o] = NoOrder
          /\ \A c \in Holder : wish[c] = {}

\* People are interchangeable, and so are goods, reviews and addresses.
Symmetry == Permutations(Request) \cup Permutations(Customer) \cup Permutations(Good)
=============================================================================
